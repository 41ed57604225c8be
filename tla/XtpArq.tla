------------------------------ MODULE XtpArq ------------------------------
(***************************************************************************)
(* The blocking ARQ layer of the xTP link (xtp/xtp_arq.c), on both ends of *)
(* one serial line.  Node 0 and node 1 run the same library.  A node       *)
(*                                                                         *)
(*   - sends: some task is inside xTP_ARQ_Send, which transmits a data     *)
(*     frame and loops over xTP_Process, the two flags and the clock;      *)
(*   - receives: the XTP task (and the loop of xTP_ARQ_Send) calls         *)
(*     xTP_Process, which decodes one frame and runs xTP_ARQ_OnReceive and *)
(*     the command handler under the RX lock.                              *)
(*                                                                         *)
(* The bytes of a frame are abstracted: a frame arrives whole, is lost, or *)
(* fails its CRC beyond what the ECC corrects.  A frame that xTP_SendEx    *)
(* refuses (TX lock held, no TX space: its result is ignored by every      *)
(* caller in xtp_arq.c) is a frame that the line loses.                    *)
(***************************************************************************)
EXTENDS Integers, Sequences

CONSTANTS
    MaxRetries,  \* XTP_ARQ_MAX_RETRIES (3 in the code)
    SeqMod,      \* sequence numbers are 0 .. SeqMod-1 (XTP_SEQ_NUM_MASK + 1)
    Replier,     \* the nodes whose command handler answers with xTP_Send
    MaxSends,    \* bound: calls of xTP_ARQ_Send, by either node
    MaxFaults,   \* bound: frames lost or corrupted
    MaxRst       \* bound: RST frames that arrive

Node == {0, 1}
Peer(n) == 1 - n

ASSUME ArqAssumption ==
    /\ MaxRetries \in Nat
    /\ SeqMod \in Nat \ {0}
    /\ Replier \subseteq Node
    /\ MaxSends \in Nat
    /\ MaxFaults \in Nat
    /\ MaxRst \in Nat

VARIABLES
    call,     \* "wait" inside xTP_ARQ_Send, else what the last call returned
    retries,  \* the loop counter of xTP_ARQ_Send
    arq,      \* xTP_ARQ_t of each node
    wire,     \* wire[n]: the frames on their way to n, oldest first
    \* History, read by the properties only:
    sent,     \* messages handed to xTP_ARQ_Send so far
    tx,       \* data frames transmitted so far, retransmissions included
    last,     \* the newest message the application of n was given
    copies,   \* how many times it was given that message
    seen,     \* the number of the last data frame that n accepted
    ackTx,    \* the data frame answered by the last ACK that n processed
    used,     \* the data frame whose ACK gave n its last XTP_OK
    clean,    \* nothing of n's was in flight when its last call began, and
              \* since then n has sent no plain frame and got no RST
    faults, rsts

vars == <<call, retries, arq, wire, sent, tx, last, copies, seen, ackTx,
          used, clean, faults, rsts>>

----------------------------------------------------------------------------
SeqNum == 0 .. SeqMod - 1
NextSeqUnmasked(s) == s + 1
NextSeq(s) == (s + 1) % SeqMod

\* A message is 1, 2, ... and 0 stands for a plain frame.  len says whether
\* the payload of the message is in the frame.  tx and, in an ACK, the tx of
\* the frame it answers, are history: the code has no such field.
Frame == [kind : {"DATA", "ACK", "NACK", "RST"},
          seq : SeqNum, msg : Nat, len : {0, 1}, tx : Nat]

Data(seq, msg, len, num) ==
    [kind |-> "DATA", seq |-> seq, msg |-> msg, len |-> len, tx |-> num]
Ctrl(kind, seq, num) ==
    [kind |-> kind, seq |-> seq, msg |-> 0, len |-> 1, tx |-> num]

\* n sends f: it goes to the end of the line towards the peer.
Put(n, f) == [wire EXCEPT ![Peer(n)] = Append(@, f)]

\* n takes the frame at the head of its line and sends the frames of out.
TakeAndPut(n, out) ==
    [m \in Node |-> IF m = n THEN Tail(wire[m]) ELSE wire[m] \o out]

Arriving(n, kind) == wire[n] # <<>> /\ Head(wire[n]).kind = kind

\* Nothing of n's is in flight: no data frame on the way to the peer and no
\* ACK on the way back.
Quiet(n) ==
    /\ \A i \in DOMAIN wire[Peer(n)] : wire[Peer(n)][i].kind # "DATA"
    /\ \A i \in DOMAIN wire[n] : wire[n][i].kind # "ACK"

\* The fields of xTP_ARQ_t that the code uses; pend_len is 1 when the pending
\* buffer holds the payload of the current message.
ArqState == [seq_tx : SeqNum, seq_rx : SeqNum,
             ack_received : BOOLEAN, nack_received : BOOLEAN,
             pend_seq : SeqNum, pend_len : {0, 1}]

ArqInit == [seq_tx |-> 0, seq_rx |-> 0, ack_received |-> FALSE,
            nack_received |-> FALSE, pend_seq |-> 0, pend_len |-> 0]

Init ==
    /\ call = [n \in Node |-> "idle"]
    /\ retries = [n \in Node |-> 0]
    /\ arq = [n \in Node |-> ArqInit]
    /\ wire = [n \in Node |-> <<>>]
    /\ sent = [n \in Node |-> 0]
    /\ tx = [n \in Node |-> 0]
    /\ last = [n \in Node |-> 0]
    /\ copies = [n \in Node |-> 0]
    /\ seen = [n \in Node |-> 0]
    /\ ackTx = [n \in Node |-> 0]
    /\ used = [n \in Node |-> 0]
    /\ clean = [n \in Node |-> FALSE]
    /\ faults = 0
    /\ rsts = 0

----------------------------------------------------------------------------
(* xTP_ARQ_Send, seen from its caller's task.                              *)

\* Mutant: the flags of the call before are still up.
StartSendStaleFlags(n) ==
    /\ call[n] # "wait"
    /\ sent[0] + sent[1] < MaxSends
    /\ call' = [call EXCEPT ![n] = "wait"]
    /\ retries' = [retries EXCEPT ![n] = 0]
    /\ arq' = [arq EXCEPT ![n] = [@ EXCEPT !.pend_seq = arq[n].seq_tx,
                                           !.pend_len = 1]]
    /\ sent' = [sent EXCEPT ![n] = @ + 1]
    /\ tx' = [tx EXCEPT ![n] = @ + 1]
    /\ wire' = Put(n, Data(arq[n].seq_tx, sent[n] + 1, 1, tx[n] + 1))
    /\ clean' = [clean EXCEPT ![n] = Quiet(n)]
    /\ UNCHANGED <<last, copies, seen, ackTx, used, faults, rsts>>

\* Entry of xTP_ARQ_Send to the end of its first transmission.
StartSend(n) ==
    /\ call[n] # "wait"
    /\ sent[0] + sent[1] < MaxSends
    /\ call' = [call EXCEPT ![n] = "wait"]
    /\ retries' = [retries EXCEPT ![n] = 0]
    /\ arq' = [arq EXCEPT ![n] = [@ EXCEPT !.pend_seq = arq[n].seq_tx,
                                           !.pend_len = 1,
                                           !.ack_received = FALSE,
                                           !.nack_received = FALSE]]
    /\ sent' = [sent EXCEPT ![n] = @ + 1]
    /\ tx' = [tx EXCEPT ![n] = @ + 1]
    /\ wire' = Put(n, Data(arq[n].seq_tx, sent[n] + 1, 1, tx[n] + 1))
    /\ clean' = [clean EXCEPT ![n] = Quiet(n)]
    /\ UNCHANGED <<last, copies, seen, ackTx, used, faults, rsts>>

\* Mutant: one turn too many.
RetransmitOneMore(n) ==
    /\ retries[n] <= MaxRetries
    /\ retries' = [retries EXCEPT ![n] = @ + 1]
    /\ arq' = [arq EXCEPT ![n] = [@ EXCEPT !.ack_received = FALSE,
                                           !.nack_received = FALSE]]
    /\ tx' = [tx EXCEPT ![n] = @ + 1]
    /\ wire' = Put(n, Data(arq[n].pend_seq, sent[n], arq[n].pend_len,
                           tx[n] + 1))
    /\ UNCHANGED <<call, sent, last, copies, seen, ackTx, used, clean, faults,
                   rsts>>

\* Next turn of the retry loop: both flags are cleared, then the pending
\* buffer goes out again.
Retransmit(n) ==
    /\ retries[n] < MaxRetries
    /\ retries' = [retries EXCEPT ![n] = @ + 1]
    /\ arq' = [arq EXCEPT ![n] = [@ EXCEPT !.ack_received = FALSE,
                                           !.nack_received = FALSE]]
    /\ tx' = [tx EXCEPT ![n] = @ + 1]
    /\ wire' = Put(n, Data(arq[n].pend_seq, sent[n], arq[n].pend_len,
                           tx[n] + 1))
    /\ UNCHANGED <<call, sent, last, copies, seen, ackTx, used, clean, faults,
                   rsts>>

\* The loop is exhausted.  The flags keep their values.
GiveUp(n) ==
    /\ retries[n] = MaxRetries
    /\ call' = [call EXCEPT ![n] = "ERR"]
    /\ arq' = [arq EXCEPT ![n].seq_tx = NextSeq(@)]
    /\ UNCHANGED <<retries, wire, sent, tx, last, copies, seen, ackTx, used,
                   clean, faults, rsts>>

\* Mutant: any answer ends the call with XTP_OK.
SeeAckOrNack(n) ==
    /\ call[n] = "wait"
    /\ arq[n].ack_received \/ arq[n].nack_received
    /\ call' = [call EXCEPT ![n] = "OK"]
    /\ arq' = [arq EXCEPT ![n].seq_tx = NextSeq(@)]
    /\ used' = [used EXCEPT ![n] = ackTx[n]]
    /\ UNCHANGED <<retries, wire, sent, tx, last, copies, seen, ackTx, clean,
                   faults, rsts>>

\* The loop looks at ack_received, at nack_received and at the clock one
\* after the other.  The XTP task can set a flag between two looks, so each
\* look is an action with the guard of its own line only: a NACK can be
\* acted on, and a timeout can be taken, while ack_received is set.
SeeAck(n) ==
    /\ call[n] = "wait"
    /\ arq[n].ack_received
    /\ call' = [call EXCEPT ![n] = "OK"]
    /\ arq' = [arq EXCEPT ![n].seq_tx = NextSeq(@)]
    /\ used' = [used EXCEPT ![n] = ackTx[n]]
    /\ UNCHANGED <<retries, wire, sent, tx, last, copies, seen, ackTx, clean,
                   faults, rsts>>

SeeNack(n) ==
    /\ call[n] = "wait"
    /\ arq[n].nack_received
    /\ Retransmit(n) \/ GiveUp(n)

\* Mutant: after the last transmission the loop waits for an answer only.
TimeoutButLast(n) ==
    /\ call[n] = "wait"
    /\ Retransmit(n)

\* XTP_ARQ_TIMEOUT_MS have passed since the transmission.  A frame of 269
\* bytes takes the receiver's 1-byte-per-millisecond loop about 269 of these
\* 300 ms, so the answer may still be on its way.
Timeout(n) ==
    /\ call[n] = "wait"
    /\ Retransmit(n) \/ GiveUp(n)

----------------------------------------------------------------------------
(* xTP_Process with a complete frame: xTP_ARQ_OnReceive, then dispatch.    *)

\* Mutant: the ACK goes out before the handler and again after it.
RxDataAckTwice(n) ==
    /\ Arriving(n, "DATA")
    /\ LET f == Head(wire[n])
           ack == Ctrl("ACK", f.seq, f.tx)
       IN  /\ wire' = TakeAndPut(n, <<ack, ack>>)
           /\ arq' = [arq EXCEPT ![n].seq_rx = NextSeq(f.seq)]
           /\ seen' = [seen EXCEPT ![n] = f.tx]
           /\ last' = [last EXCEPT ![n] = IF f.msg # 0 THEN f.msg ELSE @]
    /\ UNCHANGED <<call, retries, sent, tx, copies, ackTx, used, clean, faults,
                   rsts>>

\* A data frame is ACKed at once and always given to the application.  If
\* it is a request and n answers requests, the handler's xTP_Send follows
\* the ACK in the same call.
RxData(n) ==
    /\ Arriving(n, "DATA")
    /\ LET f == Head(wire[n])
           ack == Ctrl("ACK", f.seq, f.tx)
           replies == n \in Replier /\ f.msg # 0
           reply == Data(0, 0, 1, tx[n] + 1)
       IN  /\ wire' = TakeAndPut(n, IF replies THEN <<ack, reply>> ELSE <<ack>>)
           /\ arq' = [arq EXCEPT ![n].seq_rx = NextSeq(f.seq)]
           /\ tx' = [tx EXCEPT ![n] = IF replies THEN @ + 1 ELSE @]
           /\ clean' = [clean EXCEPT ![n] = @ /\ ~replies]
           /\ seen' = [seen EXCEPT ![n] = f.tx]
           /\ last' = [last EXCEPT ![n] = IF f.msg # 0 /\ f.len = 1
                                          THEN f.msg ELSE @]
           /\ copies' = [copies EXCEPT ![n] =
                            IF f.msg = 0 \/ f.len = 0 THEN @
                            ELSE IF f.msg = last[n] THEN @ + 1 ELSE 1]
    /\ UNCHANGED <<call, retries, sent, ackTx, used, faults, rsts>>

\* The number in the ACK is logged and never compared.
RxAck(n) ==
    /\ Arriving(n, "ACK")
    /\ wire' = TakeAndPut(n, <<>>)
    /\ arq' = [arq EXCEPT ![n].ack_received = TRUE]
    /\ ackTx' = [ackTx EXCEPT ![n] = Head(wire[n]).tx]
    /\ UNCHANGED <<call, retries, sent, tx, last, copies, seen, used, clean,
                   faults, rsts>>

\* Mutant: a NACK is answered like a frame that could not be used.
RxNackAnswered(n) ==
    /\ Arriving(n, "NACK")
    /\ wire' = TakeAndPut(n, <<Ctrl("NACK", Head(wire[n]).seq, 0)>>)
    /\ arq' = [arq EXCEPT ![n].nack_received = TRUE]
    /\ UNCHANGED <<call, retries, sent, tx, last, copies, seen, ackTx, used,
                   clean, faults, rsts>>

RxNack(n) ==
    /\ Arriving(n, "NACK")
    /\ wire' = TakeAndPut(n, <<>>)
    /\ arq' = [arq EXCEPT ![n].nack_received = TRUE]
    /\ UNCHANGED <<call, retries, sent, tx, last, copies, seen, ackTx, used,
                   clean, faults, rsts>>

\* A reset in the middle of a call leaves the caller in its loop with an
\* empty pending buffer: what it retransmits has no payload.
RxRst(n) ==
    /\ Arriving(n, "RST")
    /\ wire' = TakeAndPut(n, <<>>)
    /\ arq' = [arq EXCEPT ![n] = [@ EXCEPT !.seq_rx = 0,
                                           !.seq_tx = 0,
                                           !.ack_received = FALSE,
                                           !.nack_received = FALSE,
                                           !.pend_len = 0]]
    /\ clean' = [clean EXCEPT ![n] = FALSE]
    /\ UNCHANGED <<call, retries, sent, tx, last, copies, seen, ackTx, used,
                   faults, rsts>>

\* A frame whose CRC fails, of whatever kind, is answered with a NACK that
\* carries the number in its header.
RxCorrupt(n) ==
    /\ faults < MaxFaults
    /\ wire[n] # <<>>
    /\ faults' = faults + 1
    /\ LET f == Head(wire[n])
           seq == IF f.kind = "DATA" THEN f.seq ELSE 0
       IN  wire' = TakeAndPut(n, <<Ctrl("NACK", seq, 0)>>)
    /\ UNCHANGED <<call, retries, arq, sent, tx, last, copies, seen, ackTx,
                   used, clean, rsts>>

Receive(n) == RxData(n) \/ RxAck(n) \/ RxNack(n) \/ RxRst(n) \/ RxCorrupt(n)

----------------------------------------------------------------------------
(* The line.                                                               *)

\* A frame is lost: refused by xTP_SendEx, or hit in its framing bytes so
\* that the decoder drops it without a NACK.
Lose(n) ==
    /\ faults < MaxFaults
    /\ wire[n] # <<>>
    /\ faults' = faults + 1
    /\ wire' = TakeAndPut(n, <<>>)
    /\ UNCHANGED <<call, retries, arq, sent, tx, last, copies, seen, ackTx,
                   used, clean, rsts>>

\* An RST frame arrives from the remote station.  Nothing in the repository
\* sends one; the receiver's side of it is in xTP_ARQ_OnReceive.
RemoteRst(n) ==
    /\ rsts < MaxRst
    /\ rsts' = rsts + 1
    /\ wire' = Put(n, Ctrl("RST", 0, 0))
    /\ UNCHANGED <<call, retries, arq, sent, tx, last, copies, seen, ackTx,
                   used, clean, faults>>

----------------------------------------------------------------------------
Next == \E n \in Node :
    \/ StartSend(n) \/ SeeAck(n) \/ SeeNack(n) \/ Timeout(n)
    \/ Receive(n) \/ Lose(n) \/ RemoteRst(n)

\* The clock of a waiting call runs, and the XTP task keeps calling
\* xTP_Process.
Fairness == \A n \in Node :
    /\ WF_vars(Timeout(n))
    /\ WF_vars(RxData(n) \/ RxAck(n) \/ RxNack(n) \/ RxRst(n))

Spec == Init /\ [][Next]_vars
FairSpec == Spec /\ Fairness

----------------------------------------------------------------------------
(* Properties.                                                             *)

\* Every field of xTP_ARQ_t and every frame stays in its range; the retry
\* counter of xTP_ARQ_Send never passes XTP_ARQ_MAX_RETRIES.
TypeOK ==
    /\ call \in [Node -> {"idle", "wait", "OK", "ERR"}]
    /\ retries \in [Node -> 0 .. MaxRetries]
    /\ arq \in [Node -> ArqState]
    /\ wire \in [Node -> Seq(Frame)]
    /\ sent \in [Node -> Nat]
    /\ tx \in [Node -> Nat]
    /\ last \in [Node -> Nat]
    /\ copies \in [Node -> Nat]
    /\ seen \in [Node -> Nat]
    /\ ackTx \in [Node -> Nat]
    /\ used \in [Node -> Nat]
    /\ clean \in [Node -> BOOLEAN]
    /\ faults \in Nat
    /\ rsts \in Nat

\* The order on the line.  Data frames towards the peer are numbered upwards
\* from what the peer accepted and never go back to an older message; the
\* ACKs towards n answer accepted frames, each of them once, in order.
Numbered(kind, line, low, high) ==
    \A i \in DOMAIN line : line[i].kind = kind =>
        /\ low < line[i].tx /\ line[i].tx <= high
        /\ \A j \in DOMAIN line : j < i /\ line[j].kind = kind =>
              line[j].tx < line[i].tx

NoOlder(line, old, new) ==
    \A i \in DOMAIN line : line[i].kind = "DATA" /\ line[i].msg # 0 =>
        /\ old <= line[i].msg /\ line[i].msg <= new
        /\ \A j \in DOMAIN line : j < i /\ line[j].kind = "DATA" =>
              line[j].msg <= line[i].msg

\* An ACK is counted at most once: inside a call the flag is up only for an
\* ACK that no earlier XTP_OK of the node has used.
InOrder(n) ==
    /\ Numbered("DATA", wire[Peer(n)], seen[Peer(n)], tx[n])
    /\ NoOlder(wire[Peer(n)], last[Peer(n)], sent[n])
    /\ Numbered("ACK", wire[n], ackTx[n], seen[Peer(n)])
    /\ seen[Peer(n)] <= tx[n]
    /\ last[Peer(n)] <= sent[n]
    /\ used[n] <= ackTx[n] /\ ackTx[n] <= seen[Peer(n)]
    /\ call[n] = "wait" /\ arq[n].ack_received => used[n] < ackTx[n]

LineInOrder == \A n \in Node : InOrder(n)

\* The two flags, the retries and the frames implement the contract of
\* ArqService: messages reach the application in order, and every XTP_OK
\* stands for an accepted frame of its own.
Service == INSTANCE ArqService
RefinesService == Service!Spec

\* XTP_OK is the truth for a call that began with nothing of the node's in
\* flight, when the node sent no plain frame and got no RST meanwhile: the
\* newest message the peer's application has is the one of the call.
OkIsTrue == \A n \in Node :
    call[n] = "OK" /\ clean[n] => last[Peer(n)] = sent[n]

\* A request is executed at most once per transmission of xTP_ARQ_Send.
BoundedCopies == \A n \in Node : copies[n] <= MaxRetries + 1

\* Whatever is lost, xTP_ARQ_Send returns.
SendReturns == \A n \in Node : call[n] = "wait" ~> call[n] # "wait"

\* ACKs and NACKs do not answer each other for ever: when the programs stop
\* sending, the line falls silent.
LineGoesQuiet == <>[](\A n \in Node : wire[n] = <<>>)

\* xtp_arq.h:83 "XTP_OK - ACK received, data delivered."
OkMeansDelivered == \A n \in Node :
    call[n] = "OK" => last[Peer(n)] = sent[n]
=============================================================================
