--------------------------- MODULE XtpArq_proofs ---------------------------
(***************************************************************************)
(* Proofs about XtpArq, for every number of retries, sequence modulus,     *)
(* load, set of replying nodes and number of faults and resets: types, the *)
(* order of the line, the refinement of ArqService, what XTP_OK means and  *)
(* how often a message can reach the application.                          *)
(***************************************************************************)
EXTENDS XtpArq, FiniteSetTheorems, FunctionTheorems, TLAPS

\* Each node is the peer of its peer, and never its own.
LEMMA PeerFacts ==
    ASSUME NEW n \in Node
    PROVE  Peer(n) \in Node /\ Peer(n) # n /\ Peer(Peer(n)) = n
BY DEF Node, Peer

LEMMA OtherIsPeer ==
    ASSUME NEW n \in Node, NEW m \in Node, m # n
    PROVE  m = Peer(n)
BY DEF Node, Peer

LEMMA SeqNumType ==
    /\ 0 \in SeqNum
    /\ \A s \in SeqNum : NextSeq(s) \in SeqNum
BY ArqAssumption DEF ArqAssumption, SeqNum, NextSeq

\* What the two ways of changing the lines do to each line.
LEMMA PutType ==
    ASSUME NEW n \in Node, wire \in [Node -> Seq(Frame)], NEW f \in Frame
    PROVE  /\ Put(n, f) \in [Node -> Seq(Frame)]
           /\ Put(n, f)[n] = wire[n]
           /\ Put(n, f)[Peer(n)] = Append(wire[Peer(n)], f)
BY PeerFacts DEF Put

LEMMA TakeAndPutType ==
    ASSUME NEW n \in Node, wire \in [Node -> Seq(Frame)],
           wire[n] # <<>>, NEW out \in Seq(Frame)
    PROVE  /\ TakeAndPut(n, out) \in [Node -> Seq(Frame)]
           /\ TakeAndPut(n, out)[n] = Tail(wire[n])
           /\ TakeAndPut(n, out)[Peer(n)] = wire[Peer(n)] \o out
BY PeerFacts DEF TakeAndPut

LEMMA DataType ==
    ASSUME NEW s \in SeqNum, NEW m \in Nat, NEW l \in {0, 1}, NEW t \in Nat
    PROVE  Data(s, m, l, t) \in Frame
BY DEF Data, Frame

LEMMA CtrlType ==
    ASSUME NEW k \in {"ACK", "NACK", "RST"}, NEW s \in SeqNum, NEW t \in Nat
    PROVE  Ctrl(k, s, t) \in Frame
BY DEF Ctrl, Frame

LEMMA HeadType ==
    ASSUME NEW n \in Node, wire \in [Node -> Seq(Frame)], wire[n] # <<>>
    PROVE  Head(wire[n]) \in Frame
OBVIOUS

----------------------------------------------------------------------------
(* Type correctness.                                                       *)

\* The frames RxData sends: an ACK, or an ACK and the handler's answer.
LEMMA RxDataOut ==
    ASSUME TypeOK, NEW n \in Node, Arriving(n, "DATA")
    PROVE  /\ <<Ctrl("ACK", Head(wire[n]).seq, Head(wire[n]).tx)>>
                \in Seq(Frame)
           /\ <<Ctrl("ACK", Head(wire[n]).seq, Head(wire[n]).tx),
                Data(0, 0, 1, tx[n] + 1)>> \in Seq(Frame)
<1>1. Head(wire[n]) \in Frame /\ Head(wire[n]).seq \in SeqNum
        /\ Head(wire[n]).tx \in Nat
  BY HeadType DEF TypeOK, Arriving, Frame
<1>2. Ctrl("ACK", Head(wire[n]).seq, Head(wire[n]).tx) \in Frame
  BY <1>1, CtrlType
<1>3. Data(0, 0, 1, tx[n] + 1) \in Frame
  <2>1. tx[n] + 1 \in Nat
    BY DEF TypeOK
  <2>2. QED
    BY <2>1, SeqNumType, DataType
<1>4. QED
  BY <1>2, <1>3

THEOREM Typing == Spec => []TypeOK
<1>1. Init => TypeOK
  BY ArqAssumption, SeqNumType
  DEF Init, TypeOK, ArqInit, ArqState, ArqAssumption
<1>2. ASSUME TypeOK, [Next]_vars
      PROVE  TypeOK'
  <2>a. arq \in [Node -> ArqState]
    BY <1>2 DEF TypeOK
  <2>b. /\ sent \in [Node -> Nat] /\ tx \in [Node -> Nat]
        /\ call \in [Node -> {"idle", "wait", "OK", "ERR"}]
    BY <1>2 DEF TypeOK
  <2>c. ackTx \in [Node -> Nat] /\ used \in [Node -> Nat]
    BY <1>2 DEF TypeOK
  <2>1. ASSUME NEW n \in Node, StartSend(n)
        PROVE  TypeOK'
    <3>1. Data(arq[n].seq_tx, sent[n] + 1, 1, tx[n] + 1) \in Frame
      <4>1. arq[n].seq_tx \in SeqNum /\ sent[n] + 1 \in Nat /\ tx[n] + 1 \in Nat
        BY <1>2 DEF TypeOK, ArqState
      <4>2. QED
        BY <4>1, DataType
    <3>2. wire' \in [Node -> Seq(Frame)]
      BY <1>2, <2>1, <3>1, PutType DEF TypeOK, StartSend
    <3>3. arq' \in [Node -> ArqState]
      <4>1. arq' = [arq EXCEPT ![n] = [@ EXCEPT !.pend_seq = arq[n].seq_tx,
                !.pend_len = 1, !.ack_received = FALSE, !.nack_received = FALSE]]
        BY <2>1 DEF StartSend
      <4>2. QED
        BY <2>a, <4>1 DEF ArqState
    <3>4. clean' \in [Node -> BOOLEAN]
      <4>1. PICK q \in BOOLEAN : clean' = [clean EXCEPT ![n] = q]
        BY <2>1, Zenon DEF StartSend, Quiet
      <4>2. QED
        BY <1>2, <4>1 DEF TypeOK
    <3>5. /\ call' \in [Node -> {"idle", "wait", "OK", "ERR"}]
          /\ retries' \in [Node -> 0 .. MaxRetries]
      <4>1. 0 \in 0 .. MaxRetries
        BY ArqAssumption DEF ArqAssumption
      <4>2. /\ call' = [call EXCEPT ![n] = "wait"]
            /\ retries' = [retries EXCEPT ![n] = 0]
        BY <2>1 DEF StartSend
      <4>3. QED
        BY <1>2, <4>1, <4>2 DEF TypeOK
    <3>6. sent' \in [Node -> Nat] /\ tx' \in [Node -> Nat]
      <4>1. /\ sent' = [sent EXCEPT ![n] = @ + 1]
            /\ tx' = [tx EXCEPT ![n] = @ + 1]
        BY <2>1 DEF StartSend
      <4>2. QED
        BY <2>b, <4>1
    <3>7. UNCHANGED <<last, copies, seen, ackTx, used, faults, rsts>>
      BY <2>1 DEF StartSend
    <3>8. QED
      BY <1>2, <3>2, <3>3, <3>4, <3>5, <3>6, <3>7 DEF TypeOK
  <2>2. ASSUME NEW n \in Node, Retransmit(n)
        PROVE  TypeOK'
    <3>1. Data(arq[n].pend_seq, sent[n], arq[n].pend_len, tx[n] + 1) \in Frame
      <4>1. arq[n].pend_seq \in SeqNum /\ arq[n].pend_len \in {0, 1}
              /\ sent[n] \in Nat /\ tx[n] + 1 \in Nat
        BY <1>2 DEF TypeOK, ArqState
      <4>2. QED
        BY <4>1, DataType
    <3>2. wire' \in [Node -> Seq(Frame)]
      BY <1>2, <2>2, <3>1, PutType DEF TypeOK, Retransmit
    <3>3. arq' \in [Node -> ArqState]
      <4>1. arq' = [arq EXCEPT ![n] = [@ EXCEPT !.ack_received = FALSE,
                                                !.nack_received = FALSE]]
        BY <2>2 DEF Retransmit
      <4>2. QED
        BY <2>a, <4>1 DEF ArqState
    <3>4. retries' \in [Node -> 0 .. MaxRetries]
      <4>1. retries[n] + 1 \in 0 .. MaxRetries
        <5>1. retries[n] \in 0 .. MaxRetries
          BY <1>2 DEF TypeOK
        <5>2. retries[n] < MaxRetries
          BY <2>2 DEF Retransmit
        <5>3. QED
          BY <5>1, <5>2, ArqAssumption DEF ArqAssumption
      <4>2. QED
        BY <1>2, <2>2, <4>1 DEF TypeOK, Retransmit
    <3>5. /\ tx' \in [Node -> Nat]
          /\ UNCHANGED <<call, sent, last, copies, seen, ackTx, used, clean,
                         faults, rsts>>
      BY <1>2, <2>2 DEF TypeOK, Retransmit
    <3>6. QED
      BY <1>2, <3>2, <3>3, <3>4, <3>5 DEF TypeOK
  <2>3. ASSUME NEW n \in Node, GiveUp(n)
        PROVE  TypeOK'
    <3>1. arq' \in [Node -> ArqState]
      <4>1. arq' = [arq EXCEPT ![n].seq_tx = NextSeq(@)]
        BY <2>3 DEF GiveUp
      <4>2. NextSeq(arq[n].seq_tx) \in SeqNum
        BY <2>a, SeqNumType DEF ArqState
      <4>3. QED
        BY <2>a, <4>1, <4>2 DEF ArqState
    <3>2. call' \in [Node -> {"idle", "wait", "OK", "ERR"}]
      BY <1>2, <2>3 DEF TypeOK, GiveUp
    <3>3. UNCHANGED <<retries, wire, sent, tx, last, copies, seen, ackTx,
                      used, clean, faults, rsts>>
      BY <2>3 DEF GiveUp
    <3>4. QED
      BY <1>2, <3>1, <3>2, <3>3 DEF TypeOK
  <2>4. ASSUME NEW n \in Node, SeeAck(n)
        PROVE  TypeOK'
    <3>1. arq' \in [Node -> ArqState]
      <4>1. arq' = [arq EXCEPT ![n].seq_tx = NextSeq(@)]
        BY <2>4 DEF SeeAck
      <4>2. NextSeq(arq[n].seq_tx) \in SeqNum
        BY <2>a, SeqNumType DEF ArqState
      <4>3. QED
        BY <2>a, <4>1, <4>2 DEF ArqState
    <3>2. /\ call' \in [Node -> {"idle", "wait", "OK", "ERR"}]
          /\ used' \in [Node -> Nat]
      <4>1. /\ call' = [call EXCEPT ![n] = "OK"]
            /\ used' = [used EXCEPT ![n] = ackTx[n]]
        BY <2>4 DEF SeeAck
      <4>2. QED
        BY <2>b, <2>c, <4>1
    <3>3. UNCHANGED <<retries, wire, sent, tx, last, copies, seen, ackTx,
                      clean, faults, rsts>>
      BY <2>4 DEF SeeAck
    <3>4. QED
      BY <1>2, <3>1, <3>2, <3>3 DEF TypeOK
  <2>5. ASSUME NEW n \in Node, RxData(n)
        PROVE  TypeOK'
    <3>1. Head(wire[n]) \in Frame
      BY <1>2, <2>5, HeadType DEF TypeOK, RxData, Arriving
    <3>2. wire' \in [Node -> Seq(Frame)]
      BY <1>2, <2>5, RxDataOut, TakeAndPutType DEF TypeOK, RxData, Arriving
    <3>3. arq' \in [Node -> ArqState]
      <4>1. PICK s \in SeqNum : arq' = [arq EXCEPT ![n].seq_rx = s]
        BY <2>5, <3>1, SeqNumType DEF RxData, Frame
      <4>2. QED
        BY <2>a, <4>1 DEF ArqState
    <3>4. tx' \in [Node -> Nat] /\ seen' \in [Node -> Nat]
      <4>1. PICK t \in {tx[n], tx[n] + 1} : tx' = [tx EXCEPT ![n] = t]
        BY <2>5 DEF RxData
      <4>2. seen' = [seen EXCEPT ![n] = Head(wire[n]).tx]
        BY <2>5 DEF RxData
      <4>3. t \in Nat /\ Head(wire[n]).tx \in Nat
        BY <2>b, <3>1, <4>1 DEF Frame
      <4>4. QED
        BY <1>2, <4>1, <4>2, <4>3 DEF TypeOK
    <3>5. clean' \in [Node -> BOOLEAN]
      BY <1>2, <2>5 DEF TypeOK, RxData
    <3>6. last' \in [Node -> Nat]
      BY <1>2, <2>5, <3>1 DEF TypeOK, RxData, Frame
    <3>7. copies' \in [Node -> Nat]
      <4>1. PICK c \in {1, copies[n], copies[n] + 1} :
                copies' = [copies EXCEPT ![n] = c]
        BY <2>5 DEF RxData
      <4>2. c \in Nat
        BY <1>2, <4>1 DEF TypeOK
      <4>3. QED
        BY <1>2, <4>1, <4>2 DEF TypeOK
    <3>8. UNCHANGED <<call, retries, sent, ackTx, used, faults, rsts>>
      BY <2>5 DEF RxData
    <3>9. QED
      BY <1>2, <3>2, <3>3, <3>4, <3>5, <3>6, <3>7, <3>8 DEF TypeOK
  <2>6. ASSUME NEW n \in Node, RxAck(n) \/ RxNack(n) \/ RxRst(n) \/ Lose(n)
        PROVE  TypeOK'
    <3>1. wire[n] # <<>> /\ wire' = TakeAndPut(n, <<>>)
      BY <2>6 DEF RxAck, RxNack, RxRst, Lose, Arriving
    <3>2. wire' \in [Node -> Seq(Frame)]
      <4>1. <<>> \in Seq(Frame)
        OBVIOUS
      <4>2. QED
        BY <1>2, <3>1, <4>1, TakeAndPutType DEF TypeOK
    <3>3. Head(wire[n]).tx \in Nat
      BY <1>2, <3>1, HeadType DEF TypeOK, Frame
    <3>4. CASE RxAck(n)
      <4>1. arq' \in [Node -> ArqState]
        <5>1. arq' = [arq EXCEPT ![n].ack_received = TRUE]
          BY <3>4 DEF RxAck
        <5>2. QED
          BY <2>a, <5>1 DEF ArqState
      <4>2. ackTx' \in [Node -> Nat]
        BY <2>c, <3>3, <3>4 DEF RxAck
      <4>3. UNCHANGED <<call, retries, sent, tx, last, copies, seen, used,
                        clean, faults, rsts>>
        BY <3>4 DEF RxAck
      <4>4. QED
        BY <1>2, <3>2, <4>1, <4>2, <4>3 DEF TypeOK
    <3>5. CASE RxNack(n)
      <4>1. arq' \in [Node -> ArqState]
        <5>1. arq' = [arq EXCEPT ![n].nack_received = TRUE]
          BY <3>5 DEF RxNack
        <5>2. QED
          BY <2>a, <5>1 DEF ArqState
      <4>2. UNCHANGED <<call, retries, sent, tx, last, copies, seen, ackTx,
                        used, clean, faults, rsts>>
        BY <3>5 DEF RxNack
      <4>3. QED
        BY <1>2, <3>2, <4>1, <4>2 DEF TypeOK
    <3>6. CASE RxRst(n)
      <4>1. arq' \in [Node -> ArqState]
        <5>1. arq' = [arq EXCEPT ![n] = [@ EXCEPT !.seq_rx = 0, !.seq_tx = 0,
                 !.ack_received = FALSE, !.nack_received = FALSE, !.pend_len = 0]]
          BY <3>6 DEF RxRst
        <5>2. QED
          BY <2>a, <5>1, SeqNumType DEF ArqState
      <4>2. clean' \in [Node -> BOOLEAN]
        BY <1>2, <3>6 DEF TypeOK, RxRst
      <4>3. UNCHANGED <<call, retries, sent, tx, last, copies, seen, ackTx,
                        used, faults, rsts>>
        BY <3>6 DEF RxRst
      <4>4. QED
        BY <1>2, <3>2, <4>1, <4>2, <4>3 DEF TypeOK
    <3>7. CASE Lose(n)
      <4>1. /\ faults' \in Nat
            /\ UNCHANGED <<call, retries, arq, sent, tx, last, copies, seen,
                           ackTx, used, clean, rsts>>
        BY <1>2, <3>7 DEF TypeOK, Lose
      <4>2. QED
        BY <1>2, <3>2, <4>1 DEF TypeOK
    <3>8. QED
      BY <2>6, <3>4, <3>5, <3>6, <3>7
  <2>7. ASSUME NEW n \in Node, RxCorrupt(n)
        PROVE  TypeOK'
    <3>1. Head(wire[n]).seq \in SeqNum
      BY <1>2, <2>7, HeadType DEF TypeOK, Frame, RxCorrupt
    <3>2. PICK s \in SeqNum : wire' = TakeAndPut(n, <<Ctrl("NACK", s, 0)>>)
      BY <2>7, <3>1, SeqNumType DEF RxCorrupt
    <3>3. wire' \in [Node -> Seq(Frame)]
      <4>1. Ctrl("NACK", s, 0) \in Frame
        BY CtrlType
      <4>2. <<Ctrl("NACK", s, 0)>> \in Seq(Frame)
        BY <4>1
      <4>3. QED
        BY <1>2, <2>7, <3>2, <4>2, TakeAndPutType DEF TypeOK, RxCorrupt
    <3>4. /\ faults' \in Nat
          /\ UNCHANGED <<call, retries, arq, sent, tx, last, copies, seen,
                         ackTx, used, clean, rsts>>
      BY <1>2, <2>7 DEF TypeOK, RxCorrupt
    <3>5. QED
      BY <1>2, <3>3, <3>4 DEF TypeOK
  <2>8. ASSUME NEW n \in Node, RemoteRst(n)
        PROVE  TypeOK'
    <3>1. wire' \in [Node -> Seq(Frame)]
      BY <1>2, <2>8, CtrlType, SeqNumType, PutType DEF TypeOK, RemoteRst
    <3>2. /\ rsts' \in Nat
          /\ UNCHANGED <<call, retries, arq, sent, tx, last, copies, seen,
                         ackTx, used, clean, faults>>
      BY <1>2, <2>8 DEF TypeOK, RemoteRst
    <3>3. QED
      BY <1>2, <3>1, <3>2 DEF TypeOK
  <2>9. CASE UNCHANGED vars
    BY <1>2, <2>9 DEF TypeOK, vars
  <2>10. QED
    BY <1>2, <2>1, <2>2, <2>3, <2>4, <2>5, <2>6, <2>7, <2>8, <2>9
    DEF Next, SeeNack, Timeout, Receive
<1>3. QED
  BY <1>1, <1>2, PTL DEF Spec

----------------------------------------------------------------------------
(* The frames on one line, when the oldest leaves it or one joins it.      *)

LEMMA ConcatIsAppend ==
    ASSUME NEW line \in Seq(Frame), NEW f \in Frame, NEW g \in Frame
    PROVE  /\ line \o <<>> = line
           /\ line \o <<f>> = Append(line, f)
           /\ line \o <<f, g>> = Append(Append(line, f), g)
OBVIOUS

LEMMA FrameFields ==
    ASSUME NEW line \in Seq(Frame), NEW i \in DOMAIN line
    PROVE  line[i] \in Frame /\ line[i].tx \in Nat /\ line[i].msg \in Nat
<1>1. line[i] \in Frame
  OBVIOUS
<1>2. QED
  BY <1>1 DEF Frame

LEMMA NumberedTail ==
    ASSUME NEW line \in Seq(Frame), line # <<>>, NEW kind,
           NEW low \in Nat, NEW high \in Nat,
           Numbered(kind, line, low, high)
    PROVE  /\ Numbered(kind, Tail(line), low, high)
           /\ Head(line).kind = kind =>
                /\ low < Head(line).tx /\ Head(line).tx <= high
                /\ Numbered(kind, Tail(line), Head(line).tx, high)
<1>1. /\ Tail(line) \in Seq(Frame)
      /\ \A i \in DOMAIN Tail(line) :
            i + 1 \in DOMAIN line /\ Tail(line)[i] = line[i + 1]
  OBVIOUS
<1>2. 1 \in DOMAIN line /\ Head(line) = line[1]
  OBVIOUS
<1>3. \A i \in DOMAIN Tail(line) : i \in Nat /\ 1 < i + 1
  OBVIOUS
<1>4. ASSUME NEW i \in DOMAIN Tail(line), Tail(line)[i].kind = kind
      PROVE  /\ low < Tail(line)[i].tx /\ Tail(line)[i].tx <= high
             /\ Head(line).kind = kind => Head(line).tx < Tail(line)[i].tx
             /\ \A j \in DOMAIN Tail(line) :
                   j < i /\ Tail(line)[j].kind = kind =>
                     Tail(line)[j].tx < Tail(line)[i].tx
  <2>1. /\ i + 1 \in DOMAIN line /\ line[i + 1].kind = kind
        /\ Tail(line)[i] = line[i + 1]
    BY <1>1, <1>4
  <2>2. \A j \in DOMAIN line : j < i + 1 /\ line[j].kind = kind =>
           line[j].tx < line[i + 1].tx
    BY <2>1 DEF Numbered
  <2>3. \A j \in DOMAIN Tail(line) : j < i => j + 1 < i + 1
    BY <1>3
  <2>4. low < line[i + 1].tx /\ line[i + 1].tx <= high
    BY <2>1 DEF Numbered
  <2>5. Head(line).kind = kind => Head(line).tx < line[i + 1].tx
    BY <1>2, <1>3, <2>2
  <2>6. \A j \in DOMAIN Tail(line) : j < i /\ Tail(line)[j].kind = kind =>
           Tail(line)[j].tx < Tail(line)[i].tx
    BY <1>1, <2>1, <2>2, <2>3
  <2>7. QED
    BY <2>1, <2>4, <2>5, <2>6
<1>5. Head(line).kind = kind => low < Head(line).tx /\ Head(line).tx <= high
  BY <1>2 DEF Numbered
<1>6. Numbered(kind, Tail(line), low, high)
  BY <1>4 DEF Numbered
<1>7. Head(line).kind = kind => Numbered(kind, Tail(line), Head(line).tx, high)
  BY <1>4 DEF Numbered
<1>8. QED
  BY <1>5, <1>6, <1>7

LEMMA NumberedAppend ==
    ASSUME NEW line \in Seq(Frame), NEW kind, NEW f \in Frame,
           NEW low \in Nat, NEW high \in Nat, NEW top \in Nat,
           low <= high, high <= top,
           f.kind = kind => high < f.tx /\ f.tx <= top,
           Numbered(kind, line, low, high)
    PROVE  Numbered(kind, Append(line, f), low, top)
<1> DEFINE new == Append(line, f)
<1>1. /\ new \in Seq(Frame)
      /\ DOMAIN new = 1 .. Len(line) + 1
      /\ \A i \in 1 .. Len(line) : new[i] = line[i]
      /\ new[Len(line) + 1] = f
  OBVIOUS
<1>2. \A i \in DOMAIN new : i \in DOMAIN line \/ i = Len(line) + 1
  BY <1>1
<1>3. ASSUME NEW i \in DOMAIN new, new[i].kind = kind
      PROVE  /\ low < new[i].tx /\ new[i].tx <= top
             /\ \A j \in DOMAIN new : j < i /\ new[j].kind = kind =>
                   new[j].tx < new[i].tx
  <2>1. CASE i \in DOMAIN line
    <3>1. \A j \in DOMAIN new : j < i => j \in DOMAIN line
      BY <1>1, <2>1
    <3>2. new[i] = line[i] /\ \A j \in DOMAIN line : new[j] = line[j]
      BY <1>1, <2>1
    <3>3. low < line[i].tx /\ line[i].tx <= high
      BY <1>3, <2>1, <3>2 DEF Numbered
    <3>4. low < new[i].tx /\ new[i].tx <= top
      BY <2>1, <3>2, <3>3, FrameFields
    <3>5. QED
      BY <1>3, <2>1, <3>1, <3>2, <3>4 DEF Numbered
  <2>2. CASE i = Len(line) + 1
    <3>1. \A j \in DOMAIN new : j < i => j \in DOMAIN line
      BY <1>1, <2>2
    <3>2. new[i] = f /\ \A j \in DOMAIN line : new[j] = line[j]
      BY <1>1, <2>2
    <3>3. f.tx \in Nat /\ low < f.tx /\ f.tx <= top
      BY <1>3, <3>2 DEF Frame
    <3>4. ASSUME NEW j \in DOMAIN new, j < i, new[j].kind = kind
          PROVE  new[j].tx < f.tx
      <4>1. j \in DOMAIN line /\ new[j] = line[j]
        BY <3>1, <3>2, <3>4
      <4>2. line[j].tx \in Nat /\ line[j].tx <= high
        BY <3>4, <4>1, FrameFields DEF Numbered
      <4>3. QED
        BY <1>3, <3>2, <3>3, <4>1, <4>2
    <3>5. QED
      BY <3>2, <3>3, <3>4
  <2>3. QED
    BY <1>2, <2>1, <2>2
<1>4. QED
  BY <1>3 DEF Numbered

LEMMA NoOlderTail ==
    ASSUME NEW line \in Seq(Frame), line # <<>>,
           NEW old \in Nat, NEW new \in Nat,
           NoOlder(line, old, new)
    PROVE  /\ NoOlder(Tail(line), old, new)
           /\ Head(line).kind = "DATA" /\ Head(line).msg # 0 =>
                /\ old <= Head(line).msg /\ Head(line).msg <= new
                /\ NoOlder(Tail(line), Head(line).msg, new)
<1>1. /\ Tail(line) \in Seq(Frame)
      /\ \A i \in DOMAIN Tail(line) :
            i + 1 \in DOMAIN line /\ Tail(line)[i] = line[i + 1]
  OBVIOUS
<1>2. 1 \in DOMAIN line /\ Head(line) = line[1]
  OBVIOUS
<1>3. \A i \in DOMAIN Tail(line) : i \in Nat /\ 1 < i + 1
  OBVIOUS
<1>4. ASSUME NEW i \in DOMAIN Tail(line),
             Tail(line)[i].kind = "DATA", Tail(line)[i].msg # 0
      PROVE  /\ old <= Tail(line)[i].msg /\ Tail(line)[i].msg <= new
             /\ Head(line).kind = "DATA" => Head(line).msg <= Tail(line)[i].msg
             /\ \A j \in DOMAIN Tail(line) :
                   j < i /\ Tail(line)[j].kind = "DATA" =>
                     Tail(line)[j].msg <= Tail(line)[i].msg
  <2>1. /\ i + 1 \in DOMAIN line
        /\ line[i + 1].kind = "DATA" /\ line[i + 1].msg # 0
        /\ Tail(line)[i] = line[i + 1]
    BY <1>1, <1>4
  <2>2. \A j \in DOMAIN line : j < i + 1 /\ line[j].kind = "DATA" =>
           line[j].msg <= line[i + 1].msg
    BY <2>1 DEF NoOlder
  <2>3. \A j \in DOMAIN Tail(line) : j < i => j + 1 < i + 1
    BY <1>3
  <2>4. old <= line[i + 1].msg /\ line[i + 1].msg <= new
    BY <2>1 DEF NoOlder
  <2>5. Head(line).kind = "DATA" => Head(line).msg <= line[i + 1].msg
    BY <1>2, <1>3, <2>2
  <2>6. \A j \in DOMAIN Tail(line) : j < i /\ Tail(line)[j].kind = "DATA" =>
           Tail(line)[j].msg <= Tail(line)[i].msg
    BY <1>1, <2>1, <2>2, <2>3
  <2>7. QED
    BY <2>1, <2>4, <2>5, <2>6
<1>5. Head(line).kind = "DATA" /\ Head(line).msg # 0 =>
        old <= Head(line).msg /\ Head(line).msg <= new
  BY <1>2 DEF NoOlder
<1>6. NoOlder(Tail(line), old, new)
  BY <1>4 DEF NoOlder
<1>7. Head(line).kind = "DATA" => NoOlder(Tail(line), Head(line).msg, new)
  BY <1>4 DEF NoOlder
<1>8. QED
  BY <1>5, <1>6, <1>7

LEMMA NoOlderAppend ==
    ASSUME NEW line \in Seq(Frame), NEW f \in Frame,
           NEW old \in Nat, NEW new \in Nat, NEW top \in Nat,
           old <= new, new <= top,
           f.kind = "DATA" /\ f.msg # 0 => f.msg = top,
           NoOlder(line, old, new)
    PROVE  NoOlder(Append(line, f), old, top)
<1> DEFINE longer == Append(line, f)
<1>1. /\ longer \in Seq(Frame)
      /\ DOMAIN longer = 1 .. Len(line) + 1
      /\ \A i \in 1 .. Len(line) : longer[i] = line[i]
      /\ longer[Len(line) + 1] = f
  OBVIOUS
<1>2. \A i \in DOMAIN longer : i \in DOMAIN line \/ i = Len(line) + 1
  BY <1>1
<1>3. ASSUME NEW i \in DOMAIN longer,
             longer[i].kind = "DATA", longer[i].msg # 0
      PROVE  /\ old <= longer[i].msg /\ longer[i].msg <= top
             /\ \A j \in DOMAIN longer : j < i /\ longer[j].kind = "DATA" =>
                   longer[j].msg <= longer[i].msg
  <2>1. CASE i \in DOMAIN line
    <3>1. \A j \in DOMAIN longer : j < i => j \in DOMAIN line
      BY <1>1, <2>1
    <3>2. longer[i] = line[i] /\ \A j \in DOMAIN line : longer[j] = line[j]
      BY <1>1, <2>1
    <3>3. old <= line[i].msg /\ line[i].msg <= new
      BY <1>3, <2>1, <3>2 DEF NoOlder
    <3>4. old <= longer[i].msg /\ longer[i].msg <= top
      BY <2>1, <3>2, <3>3, FrameFields
    <3>5. QED
      BY <1>3, <2>1, <3>1, <3>2, <3>4 DEF NoOlder
  <2>2. CASE i = Len(line) + 1
    <3>1. \A j \in DOMAIN longer : j < i => j \in DOMAIN line
      BY <1>1, <2>2
    <3>2. ASSUME NEW j \in DOMAIN longer, j < i, longer[j].kind = "DATA"
          PROVE  longer[j].msg <= top
      <4>1. j \in DOMAIN line /\ longer[j] = line[j]
        BY <1>1, <3>1, <3>2
      <4>2. line[j].msg \in Nat /\ (line[j].msg = 0 \/ line[j].msg <= new)
        BY <3>2, <4>1, FrameFields DEF NoOlder
      <4>3. QED
        BY <4>1, <4>2
    <3>3. longer[i] = f /\ f.msg = top
      BY <1>1, <1>3, <2>2
    <3>4. QED
      BY <3>2, <3>3
  <2>3. QED
    BY <1>2, <2>1, <2>2
<1>4. QED
  BY <1>3 DEF NoOlder

----------------------------------------------------------------------------
(* The order of the frames in flight is preserved by every step.           *)

\* The numbers the lemmas are about are natural numbers, and what InOrder
\* says of the two nodes, with the peer of the peer written out.
LEMMA NodeFacts ==
    ASSUME TypeOK, NEW n \in Node
    PROVE  /\ tx[n] \in Nat /\ sent[n] \in Nat /\ seen[n] \in Nat
           /\ last[n] \in Nat /\ ackTx[n] \in Nat /\ used[n] \in Nat
           /\ wire[n] \in Seq(Frame)
BY DEF TypeOK

LEMMA ArqFacts ==
    ASSUME TypeOK, NEW n \in Node
    PROVE  /\ arq[n].seq_tx \in SeqNum /\ arq[n].pend_seq \in SeqNum
           /\ arq[n].pend_len \in {0, 1}
<1>1. arq[n] \in ArqState
  BY DEF TypeOK
<1>2. QED
  BY <1>1 DEF ArqState

LEMMA BothNodes ==
    ASSUME LineInOrder, NEW n \in Node
    PROVE  /\ Numbered("DATA", wire[Peer(n)], seen[Peer(n)], tx[n])
           /\ NoOlder(wire[Peer(n)], last[Peer(n)], sent[n])
           /\ Numbered("ACK", wire[n], ackTx[n], seen[Peer(n)])
           /\ seen[Peer(n)] <= tx[n] /\ last[Peer(n)] <= sent[n]
           /\ used[n] <= ackTx[n] /\ ackTx[n] <= seen[Peer(n)]
           /\ Numbered("DATA", wire[n], seen[n], tx[Peer(n)])
           /\ NoOlder(wire[n], last[n], sent[Peer(n)])
           /\ Numbered("ACK", wire[Peer(n)], ackTx[Peer(n)], seen[n])
           /\ seen[n] <= tx[Peer(n)] /\ last[n] <= sent[Peer(n)]
           /\ used[Peer(n)] <= ackTx[Peer(n)] /\ ackTx[Peer(n)] <= seen[n]
<1>1. InOrder(n) /\ InOrder(Peer(n)) /\ Peer(Peer(n)) = n
  BY PeerFacts DEF LineInOrder
<1>2. QED
  BY <1>1 DEF InOrder

\* To prove LineInOrder in the next state, for the acting node and its peer.
LEMMA BothNodesNext ==
    ASSUME NEW n \in Node,
           Numbered("DATA", wire'[Peer(n)], seen'[Peer(n)], tx'[n]),
           NoOlder(wire'[Peer(n)], last'[Peer(n)], sent'[n]),
           Numbered("ACK", wire'[n], ackTx'[n], seen'[Peer(n)]),
           seen'[Peer(n)] <= tx'[n], last'[Peer(n)] <= sent'[n],
           used'[n] <= ackTx'[n], ackTx'[n] <= seen'[Peer(n)],
           call'[n] = "wait" /\ arq'[n].ack_received => used'[n] < ackTx'[n],
           Numbered("DATA", wire'[n], seen'[n], tx'[Peer(n)]),
           NoOlder(wire'[n], last'[n], sent'[Peer(n)]),
           Numbered("ACK", wire'[Peer(n)], ackTx'[Peer(n)], seen'[n]),
           seen'[n] <= tx'[Peer(n)], last'[n] <= sent'[Peer(n)],
           used'[Peer(n)] <= ackTx'[Peer(n)], ackTx'[Peer(n)] <= seen'[n],
           call'[Peer(n)] = "wait" /\ arq'[Peer(n)].ack_received =>
                used'[Peer(n)] < ackTx'[Peer(n)]
    PROVE  LineInOrder'
<1>1. Peer(Peer(n)) = n /\ Peer(n) \in Node
  BY PeerFacts
<1>2. InOrder(n)'
  BY DEF InOrder
<1>3. InOrder(Peer(n))'
  BY <1>1 DEF InOrder
<1>4. QED
  BY <1>2, <1>3, OtherIsPeer DEF LineInOrder

\* A transmission of the pending message.
LEMMA SendInOrder ==
    ASSUME TypeOK, LineInOrder, NEW n \in Node, NEW f \in Frame,
           f.kind = "DATA", f.tx = tx[n] + 1, f.msg = sent'[n],
           wire' = Put(n, f),
           tx' = [tx EXCEPT ![n] = @ + 1],
           sent'[n] \in Nat, sent[n] <= sent'[n],
           sent'[Peer(n)] = sent[Peer(n)],
           call'[Peer(n)] = call[Peer(n)], arq'[Peer(n)] = arq[Peer(n)],
           ~arq'[n].ack_received,
           UNCHANGED <<seen, last, ackTx, used>>
    PROVE  LineInOrder'
<1> DEFINE p == Peer(n)
<1>1. p \in Node /\ p # n /\ Peer(p) = n
  BY PeerFacts
<1>2. /\ wire'[n] = wire[n] /\ wire'[p] = Append(wire[p], f)
      /\ tx'[n] = tx[n] + 1 /\ tx'[p] = tx[p]
  BY <1>1, PutType DEF TypeOK
<1>3. Numbered("DATA", wire'[p], seen'[p], tx'[n])
  <2>1. tx[n] \in Nat /\ seen[p] \in Nat /\ wire[p] \in Seq(Frame)
    BY <1>1, NodeFacts
  <2>2. Numbered("DATA", wire[p], seen[p], tx[n]) /\ seen[p] <= tx[n]
    BY BothNodes
  <2>3. Numbered("DATA", Append(wire[p], f), seen[p], tx[n] + 1)
    BY <2>1, <2>2, NumberedAppend
  <2>4. QED
    BY <1>2, <2>3
<1>4. NoOlder(wire'[p], last'[p], sent'[n])
  <2>1. sent[n] \in Nat /\ last[p] \in Nat /\ wire[p] \in Seq(Frame)
    BY <1>1, NodeFacts
  <2>2. NoOlder(wire[p], last[p], sent[n]) /\ last[p] <= sent[n]
    BY BothNodes
  <2>3. NoOlder(Append(wire[p], f), last[p], sent'[n])
    BY <2>1, <2>2, NoOlderAppend
  <2>4. QED
    BY <1>2, <2>3
<1>5. Numbered("ACK", wire'[p], ackTx'[p], seen'[n])
  <2>1. ackTx[p] \in Nat /\ seen[n] \in Nat /\ wire[p] \in Seq(Frame)
    BY <1>1, NodeFacts
  <2>2. Numbered("ACK", wire[p], ackTx[p], seen[n]) /\ ackTx[p] <= seen[n]
    BY BothNodes
  <2>3. Numbered("ACK", Append(wire[p], f), ackTx[p], seen[n])
    BY <2>1, <2>2, NumberedAppend
  <2>4. QED
    BY <1>2, <2>3
<1>6. /\ Numbered("ACK", wire'[n], ackTx'[n], seen'[p])
      /\ Numbered("DATA", wire'[n], seen'[n], tx'[p])
      /\ NoOlder(wire'[n], last'[n], sent'[p])
  BY <1>2, BothNodes
<1>7. /\ seen'[p] <= tx'[n] /\ last'[p] <= sent'[n]
      /\ seen'[n] <= tx'[p] /\ last'[n] <= sent'[p]
      /\ used'[n] <= ackTx'[n] /\ ackTx'[n] <= seen'[p]
      /\ used'[p] <= ackTx'[p] /\ ackTx'[p] <= seen'[n]
  <2>1. tx[n] \in Nat /\ sent[n] \in Nat /\ seen[p] \in Nat /\ last[p] \in Nat
    BY <1>1, NodeFacts
  <2>2. seen[p] <= tx[n] /\ last[p] <= sent[n]
    BY BothNodes
  <2>3. seen'[p] <= tx'[n] /\ last'[p] <= sent'[n]
    BY <1>2, <2>1, <2>2
  <2>4. QED
    BY <1>2, <2>3, BothNodes
<1>8. call'[p] = "wait" /\ arq'[p].ack_received => used'[p] < ackTx'[p]
  BY <1>1 DEF LineInOrder, InOrder
<1>9. QED
  BY <1>3, <1>4, <1>5, <1>6, <1>7, <1>8, BothNodesNext

\* A frame leaves the head of the line to n; at most a NACK is sent back.
LEMMA TakeInOrder ==
    ASSUME TypeOK, LineInOrder, NEW n \in Node, wire[n] # <<>>,
           NEW f \in Frame, f.kind = "NACK",
           wire' = TakeAndPut(n, <<>>) \/ wire' = TakeAndPut(n, <<f>>)
    PROVE  /\ wire'[n] = Tail(wire[n])
           /\ Numbered("DATA", wire'[n], seen[n], tx[Peer(n)])
           /\ NoOlder(wire'[n], last[n], sent[Peer(n)])
           /\ Numbered("ACK", wire'[n], ackTx[n], seen[Peer(n)])
           /\ Numbered("DATA", wire'[Peer(n)], seen[Peer(n)], tx[n])
           /\ NoOlder(wire'[Peer(n)], last[Peer(n)], sent[n])
           /\ Numbered("ACK", wire'[Peer(n)], ackTx[Peer(n)], seen[n])
<1> DEFINE p == Peer(n)
<1>1. p \in Node /\ p # n /\ Peer(p) = n
  BY PeerFacts
<1>2. /\ wire'[n] = Tail(wire[n])
      /\ wire'[p] = wire[p] \/ wire'[p] = Append(wire[p], f)
  <2>1. <<>> \in Seq(Frame) /\ <<f>> \in Seq(Frame)
    OBVIOUS
  <2>2. wire[p] \in Seq(Frame)
    BY <1>1, NodeFacts
  <2>3. wire[p] \o <<>> = wire[p] /\ wire[p] \o <<f>> = Append(wire[p], f)
    BY <2>2, ConcatIsAppend
  <2>4. QED
    BY <2>1, <2>3, TakeAndPutType DEF TypeOK
<1>3. /\ Numbered("DATA", wire'[n], seen[n], tx[p])
      /\ NoOlder(wire'[n], last[n], sent[p])
      /\ Numbered("ACK", wire'[n], ackTx[n], seen[p])
  <2>1. Numbered("DATA", Tail(wire[n]), seen[n], tx[p])
    BY <1>1, NodeFacts, BothNodes, NumberedTail
  <2>2. NoOlder(Tail(wire[n]), last[n], sent[p])
    BY <1>1, NodeFacts, BothNodes, NoOlderTail
  <2>3. Numbered("ACK", Tail(wire[n]), ackTx[n], seen[p])
    BY <1>1, NodeFacts, BothNodes, NumberedTail
  <2>4. QED
    BY <1>2, <2>1, <2>2, <2>3
<1>4. CASE wire'[p] = wire[p]
  BY <1>2, <1>3, <1>4, BothNodes
<1>5. CASE wire'[p] = Append(wire[p], f)
  <2>1. Numbered("DATA", wire'[p], seen[p], tx[n])
    BY <1>1, <1>5, NodeFacts, BothNodes, NumberedAppend
  <2>2. NoOlder(wire'[p], last[p], sent[n])
    BY <1>1, <1>5, NodeFacts, BothNodes, NoOlderAppend
  <2>3. Numbered("ACK", wire'[p], ackTx[p], seen[n])
    BY <1>1, <1>5, NodeFacts, BothNodes, NumberedAppend
  <2>4. QED
    BY <1>2, <1>3, <2>1, <2>2, <2>3
<1>6. QED
  BY <1>2, <1>4, <1>5

\* RxData: the numbers the peer may rely on move up to those of the frame.
LEMMA RxDataInOrder ==
    ASSUME TypeOK, LineInOrder, NEW n \in Node, RxData(n)
    PROVE  LineInOrder'
<1> DEFINE p == Peer(n)
           f == Head(wire[n])
           ack == Ctrl("ACK", f.seq, f.tx)
           reply == Data(0, 0, 1, tx[n] + 1)
<1>1. p \in Node /\ p # n /\ Peer(p) = n
  BY PeerFacts
<1>2. wire[n] # <<>> /\ f \in Frame /\ f.kind = "DATA"
  BY HeadType DEF RxData, Arriving, TypeOK
<1>3. /\ f.tx \in Nat /\ f.msg \in Nat
      /\ ack \in Frame /\ ack.kind = "ACK" /\ ack.tx = f.tx
  BY <1>2, CtrlType DEF Ctrl, Frame
<1>4. reply \in Frame /\ reply.kind = "DATA" /\ reply.tx = tx[n] + 1
        /\ reply.msg = 0
  <2>1. tx[n] + 1 \in Nat
    BY NodeFacts
  <2>2. QED
    BY <2>1, SeqNumType, DataType DEF Data
<1>5. /\ wire'[n] = Tail(wire[n])
      /\ \/ wire'[p] = Append(wire[p], ack) /\ tx'[n] = tx[n]
         \/ wire'[p] = Append(Append(wire[p], ack), reply) /\ tx'[n] = tx[n] + 1
  <2>1. \/ wire' = TakeAndPut(n, <<ack>>) /\ tx' = [tx EXCEPT ![n] = @]
        \/ wire' = TakeAndPut(n, <<ack, reply>>) /\ tx' = [tx EXCEPT ![n] = @ + 1]
    BY DEF RxData
  <2>2. <<ack>> \in Seq(Frame) /\ <<ack, reply>> \in Seq(Frame)
    BY <1>3, <1>4
  <2>3. /\ wire[p] \o <<ack>> = Append(wire[p], ack)
        /\ wire[p] \o <<ack, reply>> = Append(Append(wire[p], ack), reply)
    BY <1>1, <1>3, <1>4, NodeFacts, ConcatIsAppend
  <2>4. /\ TakeAndPut(n, <<ack>>)[n] = Tail(wire[n])
        /\ TakeAndPut(n, <<ack>>)[p] = Append(wire[p], ack)
        /\ TakeAndPut(n, <<ack, reply>>)[n] = Tail(wire[n])
        /\ TakeAndPut(n, <<ack, reply>>)[p] = Append(Append(wire[p], ack), reply)
    BY <1>2, <2>2, <2>3, TakeAndPutType DEF TypeOK
  <2>5. tx \in [Node -> Nat]
    BY DEF TypeOK
  <2>6. QED
    BY <2>1, <2>4, <2>5
<1>6. /\ seen'[n] = f.tx /\ seen'[p] = seen[p] /\ tx'[p] = tx[p]
      /\ last'[n] = last[n] \/ (last'[n] = f.msg /\ f.msg # 0)
      /\ last'[p] = last[p]
      /\ UNCHANGED <<call, sent, ackTx, used>>
  BY <1>1 DEF RxData, TypeOK
<1>7. arq'[n].ack_received = arq[n].ack_received /\ arq'[p] = arq[p]
  BY <1>1 DEF RxData, TypeOK, ArqState
<1>8. /\ seen[n] < f.tx /\ f.tx <= tx[p]
      /\ Numbered("DATA", wire'[n], f.tx, tx[p])
      /\ Numbered("ACK", wire'[n], ackTx[n], seen[p])
  BY <1>1, <1>2, <1>5, NodeFacts, BothNodes, NumberedTail
<1>9. NoOlder(wire'[n], last'[n], sent[p]) /\ last'[n] <= sent[p]
  BY <1>1, <1>2, <1>5, <1>6, NodeFacts, BothNodes, NoOlderTail
<1> HIDE DEF ack, reply
<1>10. /\ Append(wire[p], ack) \in Seq(Frame)
       /\ Numbered("DATA", Append(wire[p], ack), seen[p], tx[n])
       /\ NoOlder(Append(wire[p], ack), last[p], sent[n])
       /\ Numbered("ACK", Append(wire[p], ack), ackTx[p], f.tx)
  <2>1. wire[p] \in Seq(Frame) /\ Append(wire[p], ack) \in Seq(Frame)
    BY <1>1, <1>3, NodeFacts
  <2>2. Numbered("DATA", Append(wire[p], ack), seen[p], tx[n])
    BY <1>1, <1>3, <2>1, NodeFacts, BothNodes, NumberedAppend
  <2>3. NoOlder(Append(wire[p], ack), last[p], sent[n])
    BY <1>1, <1>3, <2>1, NodeFacts, BothNodes, NoOlderAppend
  <2>4. Numbered("ACK", Append(wire[p], ack), ackTx[p], f.tx)
    BY <1>1, <1>3, <1>8, <2>1, NodeFacts, BothNodes, NumberedAppend
  <2>5. QED
    BY <2>1, <2>2, <2>3, <2>4
<1>11. /\ Numbered("DATA", wire'[p], seen[p], tx'[n])
       /\ NoOlder(wire'[p], last[p], sent[n])
       /\ Numbered("ACK", wire'[p], ackTx[p], f.tx)
       /\ seen[p] <= tx'[n]
  <2>1. CASE wire'[p] = Append(wire[p], ack) /\ tx'[n] = tx[n]
    BY <1>10, <2>1, BothNodes
  <2>2. CASE /\ wire'[p] = Append(Append(wire[p], ack), reply)
             /\ tx'[n] = tx[n] + 1
    <3>1. Numbered("DATA", wire'[p], seen[p], tx[n] + 1) /\ seen[p] <= tx[n] + 1
      <4>1. seen[p] \in Nat /\ tx[n] \in Nat /\ seen[p] <= tx[n]
        BY <1>1, NodeFacts, BothNodes
      <4>2. tx[n] + 1 \in Nat /\ tx[n] <= tx[n] + 1 /\ tx[n] < tx[n] + 1
        BY <4>1
      <4>3. reply.tx <= tx[n] + 1
        BY <1>4, <4>1
      <4>4. Numbered("DATA", Append(Append(wire[p], ack), reply),
                     seen[p], tx[n] + 1)
        BY <1>4, <1>10, <4>1, <4>2, <4>3, NumberedAppend
      <4>5. QED
        BY <2>2, <4>1, <4>4
    <3>2. NoOlder(wire'[p], last[p], sent[n])
      <4>1. last[p] \in Nat /\ sent[n] \in Nat /\ last[p] <= sent[n]
        BY <1>1, NodeFacts, BothNodes
      <4>2. sent[n] <= sent[n]
        BY <4>1
      <4>3. NoOlder(Append(Append(wire[p], ack), reply), last[p], sent[n])
        BY <1>4, <1>10, <4>1, <4>2, NoOlderAppend
      <4>4. QED
        BY <2>2, <4>3
    <3>3. Numbered("ACK", wire'[p], ackTx[p], f.tx)
      <4>1. ackTx[p] \in Nat /\ f.tx \in Nat /\ ackTx[p] <= f.tx
        BY <1>1, <1>3, <1>8, NodeFacts, BothNodes
      <4>2. reply.kind # "ACK" /\ f.tx <= f.tx
        BY <1>4, <4>1
      <4>3. Numbered("ACK", Append(Append(wire[p], ack), reply), ackTx[p], f.tx)
        BY <1>4, <1>10, <4>1, <4>2, NumberedAppend
      <4>4. QED
        BY <2>2, <4>3
    <3>4. QED
      BY <2>2, <3>1, <3>2, <3>3
  <2>3. QED
    BY <1>5, <2>1, <2>2
<1>12. /\ used[n] <= ackTx[n] /\ ackTx[n] <= seen[p] /\ last[p] <= sent[n]
       /\ used[p] <= ackTx[p] /\ ackTx[p] <= f.tx
  BY <1>1, <1>3, <1>8, NodeFacts, BothNodes
<1>13. /\ call'[n] = "wait" /\ arq'[n].ack_received => used'[n] < ackTx'[n]
       /\ call'[p] = "wait" /\ arq'[p].ack_received => used'[p] < ackTx'[p]
  BY <1>1, <1>6, <1>7 DEF LineInOrder, InOrder
<1>14. QED
  BY <1>6, <1>8, <1>9, <1>11, <1>12, <1>13, BothNodesNext

\* The invariant of the line, for every step.
LEMMA LineInOrderStep ==
    ASSUME TypeOK, TypeOK', LineInOrder, [Next]_vars
    PROVE  LineInOrder'
<1>1. ASSUME NEW n \in Node, StartSend(n)
      PROVE  LineInOrder'
  <2> DEFINE f == Data(arq[n].seq_tx, sent[n] + 1, 1, tx[n] + 1)
  <2>1. f \in Frame /\ f.kind = "DATA" /\ f.tx = tx[n] + 1 /\ f.msg = sent[n] + 1
    <3>1. arq[n].seq_tx \in SeqNum /\ sent[n] + 1 \in Nat /\ tx[n] + 1 \in Nat
      BY NodeFacts, ArqFacts
    <3>2. f \in Frame
      BY <3>1, DataType
    <3>3. QED
      BY <3>2 DEF Data
  <2>2. /\ sent'[n] = sent[n] + 1 /\ sent'[Peer(n)] = sent[Peer(n)]
        /\ sent[n] <= sent'[n] /\ sent'[n] \in Nat
    <3>1. sent \in [Node -> Nat] /\ sent' = [sent EXCEPT ![n] = @ + 1]
      BY <1>1 DEF TypeOK, StartSend
    <3>2. QED
      BY <3>1, PeerFacts
  <2>3. /\ call'[Peer(n)] = call[Peer(n)] /\ arq'[Peer(n)] = arq[Peer(n)]
        /\ ~arq'[n].ack_received
    BY <1>1, PeerFacts DEF TypeOK, ArqState, StartSend
  <2>4. /\ wire' = Put(n, f) /\ tx' = [tx EXCEPT ![n] = @ + 1]
        /\ UNCHANGED <<seen, last, ackTx, used>>
    BY <1>1 DEF StartSend
  <2>5. QED
    BY <2>1, <2>2, <2>3, <2>4, SendInOrder
<1>2. ASSUME NEW n \in Node, Retransmit(n)
      PROVE  LineInOrder'
  <2> DEFINE f == Data(arq[n].pend_seq, sent[n], arq[n].pend_len, tx[n] + 1)
  <2>1. f \in Frame /\ f.kind = "DATA" /\ f.tx = tx[n] + 1 /\ f.msg = sent[n]
    <3>1. /\ arq[n].pend_seq \in SeqNum /\ arq[n].pend_len \in {0, 1}
          /\ sent[n] \in Nat /\ tx[n] + 1 \in Nat
      BY NodeFacts, ArqFacts
    <3>2. f \in Frame
      BY <3>1, DataType
    <3>3. QED
      BY <3>2 DEF Data
  <2>2. sent' = sent /\ sent[n] \in Nat /\ sent[n] <= sent'[n]
    BY <1>2 DEF TypeOK, Retransmit
  <2>3. call' = call /\ arq'[Peer(n)] = arq[Peer(n)] /\ ~arq'[n].ack_received
    BY <1>2, PeerFacts DEF TypeOK, ArqState, Retransmit
  <2>4. /\ wire' = Put(n, f) /\ tx' = [tx EXCEPT ![n] = @ + 1]
        /\ UNCHANGED <<seen, last, ackTx, used>>
    BY <1>2 DEF Retransmit
  <2>5. QED
    BY <2>1, <2>2, <2>3, <2>4, SendInOrder
<1>3. ASSUME NEW n \in Node, GiveUp(n)
      PROVE  LineInOrder'
  <2>1. \A m \in Node : /\ call'[m] = "wait" => call[m] = "wait"
                        /\ arq'[m].ack_received = arq[m].ack_received
    BY <1>3 DEF TypeOK, ArqState, GiveUp
  <2>2. UNCHANGED <<wire, sent, tx, last, seen, ackTx, used>>
    BY <1>3 DEF GiveUp
  <2>3. QED
    BY <2>1, <2>2 DEF LineInOrder, InOrder
<1>4. ASSUME NEW n \in Node, SeeAck(n)
      PROVE  LineInOrder'
  <2>1. \A m \in Node : /\ call'[m] = "wait" => m # n /\ call[m] = "wait"
                        /\ arq'[m].ack_received = arq[m].ack_received
    BY <1>4 DEF TypeOK, ArqState, SeeAck
  <2>2. UNCHANGED <<wire, sent, tx, last, seen, ackTx>>
    BY <1>4 DEF SeeAck
  <2>3. \A m \in Node : used'[m] = IF m = n THEN ackTx[m] ELSE used[m]
    BY <1>4 DEF TypeOK, SeeAck
  <2>4. \A m \in Node : ackTx[m] \in Nat /\ used[m] \in Nat
    BY NodeFacts
  <2>5. ASSUME NEW m \in Node
        PROVE  InOrder(m)'
    <3>1. /\ used'[m] <= ackTx[m]
          /\ call'[m] = "wait" /\ arq'[m].ack_received => used'[m] < ackTx[m]
      BY <2>1, <2>3, <2>4 DEF LineInOrder, InOrder
    <3>2. QED
      BY <2>2, <3>1 DEF LineInOrder, InOrder
  <2>6. QED
    BY <2>5 DEF LineInOrder
<1>5. ASSUME NEW n \in Node, RxAck(n)
      PROVE  LineInOrder'
  <2> DEFINE p == Peer(n)
  <2>1. p \in Node /\ p # n
    BY PeerFacts
  <2>2. /\ wire[n] # <<>> /\ Head(wire[n]).kind = "ACK"
        /\ wire' = TakeAndPut(n, <<>>)
    BY <1>5 DEF RxAck, Arriving
  <2>3. Ctrl("NACK", 0, 0) \in Frame /\ Ctrl("NACK", 0, 0).kind = "NACK"
    BY SeqNumType, CtrlType DEF Ctrl
  <2>4. /\ wire'[n] = Tail(wire[n])
        /\ Numbered("DATA", wire'[n], seen[n], tx[p])
        /\ NoOlder(wire'[n], last[n], sent[p])
        /\ Numbered("DATA", wire'[p], seen[p], tx[n])
        /\ NoOlder(wire'[p], last[p], sent[n])
        /\ Numbered("ACK", wire'[p], ackTx[p], seen[n])
    BY <2>2, <2>3, TakeInOrder
  <2>5. /\ ackTx[n] < Head(wire[n]).tx /\ Head(wire[n]).tx <= seen[p]
        /\ Numbered("ACK", wire'[n], Head(wire[n]).tx, seen[p])
    BY <2>1, <2>2, <2>4, NodeFacts, BothNodes, NumberedTail
  <2>6. /\ ackTx'[n] = Head(wire[n]).tx /\ ackTx'[p] = ackTx[p]
        /\ UNCHANGED <<call, sent, tx, last, seen, used>>
        /\ arq'[p] = arq[p]
    BY <1>5, <2>1 DEF TypeOK, RxAck
  <2>7. ackTx[n] \in Nat /\ used[n] \in Nat /\ Head(wire[n]).tx \in Nat
    BY <2>2, NodeFacts, HeadType DEF TypeOK, Frame
  <2>8. used[n] < ackTx'[n] /\ used[n] <= ackTx'[n]
    BY <2>5, <2>6, <2>7, BothNodes
  <2>9. call[p] = "wait" /\ arq[p].ack_received => used[p] < ackTx[p]
    BY <2>1 DEF LineInOrder, InOrder
  <2>10. QED
    BY <2>4, <2>5, <2>6, <2>8, <2>9, BothNodes, BothNodesNext
<1>6. ASSUME NEW n \in Node, RxNack(n) \/ RxRst(n) \/ RxCorrupt(n) \/ Lose(n)
      PROVE  LineInOrder'
  <2> DEFINE p == Peer(n)
  <2>1. p \in Node /\ p # n
    BY PeerFacts
  <2>2. wire[n] # <<>>
    BY <1>6 DEF RxNack, RxRst, RxCorrupt, Lose, Arriving
  <2>3. PICK s \in SeqNum : \/ wire' = TakeAndPut(n, <<>>)
                            \/ wire' = TakeAndPut(n, <<Ctrl("NACK", s, 0)>>)
    <3>1. Head(wire[n]).seq \in SeqNum
      BY <2>2, HeadType DEF TypeOK, Frame
    <3>2. QED
      BY <1>6, <3>1, SeqNumType DEF RxNack, RxRst, RxCorrupt, Lose
  <2>4. Ctrl("NACK", s, 0) \in Frame /\ Ctrl("NACK", s, 0).kind = "NACK"
    BY CtrlType DEF Ctrl
  <2>5. /\ Numbered("DATA", wire'[n], seen[n], tx[p])
        /\ NoOlder(wire'[n], last[n], sent[p])
        /\ Numbered("ACK", wire'[n], ackTx[n], seen[p])
        /\ Numbered("DATA", wire'[p], seen[p], tx[n])
        /\ NoOlder(wire'[p], last[p], sent[n])
        /\ Numbered("ACK", wire'[p], ackTx[p], seen[n])
    BY <2>2, <2>3, <2>4, TakeInOrder
  <2>6. UNCHANGED <<call, sent, tx, last, seen, ackTx, used>>
    BY <1>6 DEF RxNack, RxRst, RxCorrupt, Lose
  <2>7. /\ arq'[p] = arq[p]
        /\ arq'[n].ack_received => arq[n].ack_received
    <3>1. CASE RxNack(n)
      BY <2>1, <3>1 DEF TypeOK, ArqState, RxNack
    <3>2. CASE RxRst(n)
      BY <2>1, <3>2 DEF TypeOK, ArqState, RxRst
    <3>3. CASE RxCorrupt(n) \/ Lose(n)
      BY <3>3 DEF RxCorrupt, Lose
    <3>4. QED
      BY <1>6, <3>1, <3>2, <3>3
  <2>8. /\ call[n] = "wait" /\ arq[n].ack_received => used[n] < ackTx[n]
        /\ call[p] = "wait" /\ arq[p].ack_received => used[p] < ackTx[p]
    BY <2>1 DEF LineInOrder, InOrder
  <2>9. QED
    BY <2>5, <2>6, <2>7, <2>8, BothNodes, BothNodesNext
<1>7. ASSUME NEW n \in Node, RemoteRst(n)
      PROVE  LineInOrder'
  <2> DEFINE p == Peer(n)
             f == Ctrl("RST", 0, 0)
  <2>1. p \in Node /\ p # n
    BY PeerFacts
  <2>2. f \in Frame /\ f.kind = "RST"
    BY SeqNumType, CtrlType DEF Ctrl
  <2>3. wire'[n] = wire[n] /\ wire'[p] = Append(wire[p], f)
    BY <1>7, <2>2, PutType DEF RemoteRst, TypeOK
  <2> HIDE DEF f
  <2>4. Numbered("DATA", wire'[p], seen[p], tx[n])
    BY <2>1, <2>2, <2>3, NodeFacts, BothNodes, NumberedAppend
  <2>5. NoOlder(wire'[p], last[p], sent[n])
    BY <2>1, <2>2, <2>3, NodeFacts, BothNodes, NoOlderAppend
  <2>6. Numbered("ACK", wire'[p], ackTx[p], seen[n])
    BY <2>1, <2>2, <2>3, NodeFacts, BothNodes, NumberedAppend
  <2>7. UNCHANGED <<call, arq, sent, tx, last, seen, ackTx, used>>
    BY <1>7 DEF RemoteRst
  <2>8. /\ call[n] = "wait" /\ arq[n].ack_received => used[n] < ackTx[n]
        /\ call[p] = "wait" /\ arq[p].ack_received => used[p] < ackTx[p]
    BY <2>1 DEF LineInOrder, InOrder
  <2>9. QED
    BY <2>3, <2>4, <2>5, <2>6, <2>7, <2>8, BothNodes, BothNodesNext
<1>8. CASE UNCHANGED vars
  BY <1>8 DEF LineInOrder, InOrder, vars
<1>9. QED
  BY <1>1, <1>2, <1>3, <1>4, <1>5, <1>6, <1>7, <1>8, RxDataInOrder
  DEF Next, SeeNack, Timeout, Receive

\* Whatever is lost, corrupted, retransmitted or reset, the frames in flight
\* keep the order in which they were sent, and no ACK is counted twice.
THEOREM LineStaysInOrder == Spec => []LineInOrder
<1>1. Init => LineInOrder
  BY DEF Init, LineInOrder, InOrder, Numbered, NoOlder, Node, Peer
<1>2. TypeOK /\ TypeOK' /\ LineInOrder /\ [Next]_vars => LineInOrder'
  BY LineInOrderStep
<1>3. QED
  BY <1>1, <1>2, Typing, PTL DEF Spec

----------------------------------------------------------------------------
(* The link implements its contract.                                       *)

\* Every run of the ARQ layer, with the calls, the acceptances and the
\* history of its ACKs, is a run of ArqService: messages reach the peer's
\* application in the order of the calls, and no two XTP_OK share a receipt.
THEOREM ArqImplementsService == Spec => RefinesService
<1>1. Init => Service!Init
  BY DEF Init, Service!Init, Service!Node, Node
<1>2. ASSUME TypeOK, LineInOrder, LineInOrder', [Next]_vars
      PROVE  [Service!Next]_(Service!vars)
  <2>1. Node = Service!Node /\ \A n \in Node : Service!Peer(n) = Peer(n)
    BY DEF Node, Service!Node, Peer, Service!Peer
  <2>2. ASSUME NEW n \in Node, StartSend(n)
        PROVE  Service!Submit(n)
    BY <2>2 DEF StartSend, Service!Submit
  <2>3. ASSUME NEW n \in Node, Retransmit(n)
        PROVE  UNCHANGED Service!vars
    BY <2>3 DEF Retransmit, Service!vars
  <2>4. ASSUME NEW n \in Node, call[n] = "wait", GiveUp(n)
        PROVE  Service!ReturnERR(n)
    BY <2>4 DEF GiveUp, Service!ReturnERR
  <2>5. ASSUME NEW n \in Node, SeeAck(n)
        PROVE  Service!ReturnOK(n)
    <3>1. /\ ackTx[n] \in Nat /\ used[n] \in Nat /\ seen[Peer(n)] \in Nat
      BY <1>2, PeerFacts, NodeFacts
    <3>2. /\ used[n] < ackTx[n] /\ ackTx[n] <= seen[Peer(n)]
      BY <1>2, <2>5 DEF SeeAck, LineInOrder, InOrder
    <3>3. used' = [used EXCEPT ![n] = ackTx[n]] /\ used'[n] = ackTx[n]
      BY <1>2, <2>5 DEF SeeAck, TypeOK
    <3>4. used'[n] \in used[n] + 1 .. seen[Service!Peer(n)]
      BY <2>1, <3>1, <3>2, <3>3
    <3>5. QED
      BY <2>5, <3>3, <3>4 DEF SeeAck, Service!ReturnOK
  <2>6. ASSUME NEW n \in Node, RxData(n)
        PROVE  Service!Accept(n)
    <3> DEFINE f == Head(wire[n])
    <3>1. /\ seen' = [seen EXCEPT ![n] = f.tx] /\ seen'[n] = f.tx
      BY <1>2, <2>6 DEF RxData, TypeOK
    <3>2. PICK m \in {last[n], f.msg} :
            /\ last' = [last EXCEPT ![n] = m] /\ last'[n] = m
            /\ m = last[n] \/ m # 0
      BY <1>2, <2>6 DEF RxData, TypeOK
    <3>3. wire[n] # <<>> /\ f.kind = "DATA" /\ f \in Frame
      BY <1>2, <2>6, HeadType DEF RxData, Arriving, TypeOK
    <3>4. f.tx \in Nat /\ f.msg \in Nat
      BY <3>3 DEF Frame
    <3>5. f.tx > seen[n]
      BY <1>2, <3>3, <3>4, PeerFacts, NodeFacts, BothNodes, NumberedTail
    <3>6. m \in last[n] .. sent[Peer(n)]
      <4>1. /\ Peer(n) \in Node /\ last[n] \in Nat /\ sent[Peer(n)] \in Nat
            /\ last[n] <= sent[Peer(n)] /\ NoOlder(wire[n], last[n], sent[Peer(n)])
        BY <1>2, PeerFacts, NodeFacts, BothNodes
      <4>2. f.msg # 0 => last[n] <= f.msg /\ f.msg <= sent[Peer(n)]
        BY <1>2, <3>3, <4>1, NodeFacts, NoOlderTail
      <4>3. QED
        BY <3>2, <3>4, <4>1, <4>2
    <3>7. UNCHANGED <<call, sent, used>>
      BY <2>6 DEF RxData
    <3>8. QED
      BY <2>1, <3>1, <3>2, <3>5, <3>6, <3>7 DEF Service!Accept
  <2>7. ASSUME NEW n \in Node,
               RxAck(n) \/ RxNack(n) \/ RxRst(n) \/ RxCorrupt(n) \/ Lose(n)
                 \/ RemoteRst(n)
        PROVE  UNCHANGED Service!vars
    BY <2>7 DEF RxAck, RxNack, RxRst, RxCorrupt, Lose, RemoteRst, Service!vars
  <2>8. CASE UNCHANGED vars
    BY <2>8 DEF vars, Service!vars
  <2>9. QED
    BY <1>2, <2>1, <2>2, <2>3, <2>4, <2>5, <2>6, <2>7, <2>8
    DEF Next, SeeNack, Timeout, Receive, Service!Next
<1>3. QED
  BY <1>1, <1>2, Typing, LineStaysInOrder, PTL
  DEF Spec, RefinesService, Service!Spec

----------------------------------------------------------------------------
(* A clean XTP_OK is the truth.                                            *)

\* The frames on the way to the peer all carry message m and its payload.
AllCarry(line, m) ==
    \A i \in DOMAIN line : line[i].kind = "DATA" =>
        line[i].msg = m /\ line[i].len = 1

HasAck(line) == \E i \in DOMAIN line : line[i].kind = "ACK"

\* Why OkIsTrue holds: while a clean call waits, every data frame of the node
\* that is still in flight carries its message, and any ACK that is up or on
\* its way says that the peer already has it.
CleanCall(n) ==
    clean[n] =>
      /\ call[n] = "wait" =>
           /\ arq[n].pend_len = 1
           /\ AllCarry(wire[Peer(n)], sent[n])
           /\ arq[n].ack_received => last[Peer(n)] = sent[n]
           /\ HasAck(wire[n]) => last[Peer(n)] = sent[n]
      /\ call[n] = "OK" => last[Peer(n)] = sent[n]

CleanCalls == \A n \in Node : CleanCall(n)

LEMMA CarryTail ==
    ASSUME NEW line \in Seq(Frame), line # <<>>
    PROVE  /\ HasAck(Tail(line)) => HasAck(line)
           /\ \A m : AllCarry(line, m) => AllCarry(Tail(line), m)
           /\ \A m : AllCarry(line, m) /\ Head(line).kind = "DATA" =>
                Head(line).msg = m /\ Head(line).len = 1
           /\ Head(line).kind = "ACK" => HasAck(line)
<1>1. \A i \in DOMAIN Tail(line) :
         i + 1 \in DOMAIN line /\ Tail(line)[i] = line[i + 1]
  OBVIOUS
<1>2. 1 \in DOMAIN line /\ Head(line) = line[1]
  OBVIOUS
<1>3. QED
  BY <1>1, <1>2 DEF AllCarry, HasAck

LEMMA CarryAppend ==
    ASSUME NEW line \in Seq(Frame), NEW f \in Frame
    PROVE  /\ HasAck(Append(line, f)) => HasAck(line) \/ f.kind = "ACK"
           /\ \A m : /\ AllCarry(line, m)
                     /\ f.kind = "DATA" => f.msg = m /\ f.len = 1
                     => AllCarry(Append(line, f), m)
<1>1. \A i \in DOMAIN Append(line, f) :
         \/ i \in DOMAIN line /\ Append(line, f)[i] = line[i]
         \/ Append(line, f)[i] = f
  OBVIOUS
<1>2. QED
  BY <1>1 DEF AllCarry, HasAck

\* What a step of a receiver or of the line may do to the frames of a call
\* that waits: none of them is added.
LEMMA CleanCallKept ==
    ASSUME NEW n \in Node, CleanCall(n),
           call'[n] = call[n], sent'[n] = sent[n], clean'[n] => clean[n],
           last'[Peer(n)] = last[Peer(n)],
           clean'[n] => arq'[n].pend_len = arq[n].pend_len,
           arq'[n].ack_received => arq[n].ack_received \/ HasAck(wire[n]),
           HasAck(wire'[n]) => HasAck(wire[n]),
           clean'[n] => \A m : AllCarry(wire[Peer(n)], m) =>
                                 AllCarry(wire'[Peer(n)], m)
    PROVE  CleanCall(n)'
BY DEF CleanCall

LEMMA CleanCallsStep ==
    ASSUME TypeOK, TypeOK', LineInOrder, LineInOrder', CleanCalls, [Next]_vars
    PROVE  CleanCalls'
<1> USE DEF CleanCalls
<1>1. ASSUME NEW n \in Node, StartSend(n)
      PROVE  CleanCalls'
  <2> DEFINE p == Peer(n)
             f == Data(arq[n].seq_tx, sent[n] + 1, 1, tx[n] + 1)
  <2>1. p \in Node /\ p # n /\ Peer(p) = n
    BY PeerFacts
  <2>2. f \in Frame /\ f.kind = "DATA" /\ f.msg = sent[n] + 1 /\ f.len = 1
    <3>1. sent[n] + 1 \in Nat /\ tx[n] + 1 \in Nat /\ arq[n].seq_tx \in SeqNum
      BY NodeFacts, ArqFacts
    <3>2. f \in Frame
      BY <3>1, DataType
    <3>3. QED
      BY <3>2 DEF Data
  <2>3. wire'[n] = wire[n] /\ wire'[p] = Append(wire[p], f)
    BY <1>1, <2>2, PutType DEF StartSend, TypeOK
  <2> HIDE DEF f
  <2>4. CleanCall(n)'
    <3>1. /\ call'[n] = "wait" /\ sent'[n] = sent[n] + 1
          /\ clean'[n] = Quiet(n)
      BY <1>1 DEF StartSend, TypeOK
    <3>2. arq'[n].pend_len = 1 /\ ~arq'[n].ack_received
      BY <1>1 DEF StartSend, TypeOK, ArqState
    <3>3. CASE Quiet(n)
      <4>1. ~HasAck(wire[n]) /\ AllCarry(wire[p], sent[n] + 1)
        BY <3>3 DEF Quiet, HasAck, AllCarry
      <4>2. wire[p] \in Seq(Frame)
        BY <2>1, NodeFacts
      <4>3. AllCarry(wire'[p], sent'[n])
        BY <2>2, <2>3, <3>1, <4>1, <4>2, CarryAppend
      <4>4. QED
        BY <2>3, <3>1, <3>2, <4>1, <4>3 DEF CleanCall
    <3>4. CASE ~Quiet(n)
      BY <3>1, <3>4 DEF CleanCall
    <3>5. QED
      BY <3>3, <3>4
  <2>5. CleanCall(p)'
    <3>1. /\ call'[p] = call[p] /\ sent'[p] = sent[p] /\ clean'[p] = clean[p]
          /\ last'[n] = last[n] /\ arq'[p] = arq[p]
      BY <1>1, <2>1 DEF StartSend, TypeOK
    <3>2. HasAck(wire'[p]) => HasAck(wire[p])
      BY <2>1, <2>2, <2>3, NodeFacts, CarryAppend
    <3>3. QED
      BY <2>1, <2>3, <3>1, <3>2, CleanCallKept
  <2>6. QED
    BY <2>4, <2>5, OtherIsPeer
<1>2. ASSUME NEW n \in Node, Retransmit(n), call[n] = "wait"
      PROVE  CleanCalls'
  <2> DEFINE p == Peer(n)
             f == Data(arq[n].pend_seq, sent[n], arq[n].pend_len, tx[n] + 1)
  <2>1. p \in Node /\ p # n /\ Peer(p) = n
    BY PeerFacts
  <2>2. /\ f \in Frame /\ f.kind = "DATA" /\ f.msg = sent[n]
        /\ f.len = arq[n].pend_len
    <3>1. /\ arq[n].pend_seq \in SeqNum /\ arq[n].pend_len \in {0, 1}
          /\ sent[n] \in Nat /\ tx[n] + 1 \in Nat
      BY NodeFacts, ArqFacts
    <3>2. f \in Frame
      BY <3>1, DataType
    <3>3. QED
      BY <3>2 DEF Data
  <2>3. wire'[n] = wire[n] /\ wire'[p] = Append(wire[p], f)
    BY <1>2, <2>2, PutType DEF Retransmit, TypeOK
  <2> HIDE DEF f
  <2>4. UNCHANGED <<call, sent, clean, last>>
    BY <1>2 DEF Retransmit
  <2>5. CleanCall(n)'
    <3>1. arq'[n].pend_len = arq[n].pend_len /\ ~arq'[n].ack_received
      BY <1>2 DEF Retransmit, TypeOK, ArqState
    <3>2. CASE clean[n]
      <4>1. /\ arq[n].pend_len = 1 /\ AllCarry(wire[p], sent[n])
            /\ HasAck(wire[n]) => last[p] = sent[n]
        BY <1>2, <3>2 DEF CleanCall
      <4>2. wire[p] \in Seq(Frame)
        BY <2>1, NodeFacts
      <4>3. AllCarry(wire'[p], sent[n])
        BY <2>2, <2>3, <4>1, <4>2, CarryAppend
      <4>4. QED
        BY <1>2, <2>3, <2>4, <3>1, <4>1, <4>3 DEF CleanCall
    <3>3. CASE ~clean[n]
      BY <2>4, <3>3 DEF CleanCall
    <3>4. QED
      BY <3>2, <3>3
  <2>6. CleanCall(p)'
    <3>1. arq'[p] = arq[p]
      BY <1>2, <2>1 DEF Retransmit, TypeOK
    <3>2. HasAck(wire'[p]) => HasAck(wire[p])
      BY <2>1, <2>2, <2>3, NodeFacts, CarryAppend
    <3>3. QED
      BY <2>1, <2>3, <2>4, <3>1, <3>2, CleanCallKept
  <2>7. QED
    BY <2>5, <2>6, OtherIsPeer
<1>3. ASSUME NEW n \in Node, GiveUp(n) \/ SeeAck(n)
      PROVE  CleanCalls'
  <2>1. \A m \in Node : /\ arq'[m].ack_received = arq[m].ack_received
                        /\ arq'[m].pend_len = arq[m].pend_len
    <3>1. arq' = [arq EXCEPT ![n].seq_tx = NextSeq(@)]
      BY <1>3 DEF GiveUp, SeeAck
    <3>2. arq \in [Node -> ArqState]
      BY DEF TypeOK
    <3>3. ASSUME NEW m \in Node
          PROVE  /\ arq'[m].ack_received = arq[m].ack_received
                 /\ arq'[m].pend_len = arq[m].pend_len
      <4>1. arq[m] \in ArqState
        BY <3>2
      <4>2. CASE m = n
        BY <3>1, <3>2, <4>1, <4>2 DEF ArqState
      <4>3. CASE m # n
        BY <3>1, <3>2, <4>3
      <4>4. QED
        BY <4>2, <4>3
    <3>4. QED
      BY <3>3
  <2>2. UNCHANGED <<wire, sent, last, clean>>
    BY <1>3 DEF GiveUp, SeeAck
  <2>3. \A m \in Node : \/ call'[m] = call[m]
                        \/ call'[m] = "ERR"
                        \/ /\ call'[m] = "OK" /\ call[m] = "wait"
                           /\ arq[m].ack_received
    BY <1>3 DEF GiveUp, SeeAck, TypeOK
  <2>4. QED
    BY <2>1, <2>2, <2>3 DEF CleanCall
<1>4. ASSUME NEW n \in Node, RxData(n)
      PROVE  CleanCalls'
  <2> DEFINE p == Peer(n)
             f == Head(wire[n])
             ack == Ctrl("ACK", f.seq, f.tx)
             reply == Data(0, 0, 1, tx[n] + 1)
             replies == n \in Replier /\ f.msg # 0
  <2>1. p \in Node /\ p # n /\ Peer(p) = n
    BY PeerFacts
  <2>2. /\ wire[n] # <<>> /\ f \in Frame /\ f.kind = "DATA"
        /\ wire[n] \in Seq(Frame) /\ wire[p] \in Seq(Frame)
    BY <1>4, <2>1, NodeFacts, HeadType DEF RxData, Arriving, TypeOK
  <2>3. ack \in Frame /\ ack.kind = "ACK"
    <3>1. f.seq \in SeqNum /\ f.tx \in Nat
      BY <2>2 DEF Frame
    <3>2. QED
      BY <3>1, CtrlType DEF Ctrl
  <2>4. wire'[n] = Tail(wire[n]) /\ (~replies => wire'[p] = Append(wire[p], ack))
    <3>1. ~replies => wire' = TakeAndPut(n, <<ack>>)
      BY <1>4 DEF RxData
    <3>2. <<ack>> \in Seq(Frame) /\ wire[p] \o <<ack>> = Append(wire[p], ack)
      BY <2>2, <2>3, ConcatIsAppend
    <3>3. wire'[n] = Tail(wire[n])
      <4>1. <<ack>> \in Seq(Frame) /\ <<ack, reply>> \in Seq(Frame)
        BY <1>4, RxDataOut DEF RxData
      <4>2. wire' = TakeAndPut(n, <<ack>>) \/ wire' = TakeAndPut(n, <<ack, reply>>)
        BY <1>4 DEF RxData
      <4>3. QED
        BY <2>2, <4>1, <4>2, TakeAndPutType DEF TypeOK
    <3>4. QED
      BY <2>2, <3>1, <3>2, <3>3, TakeAndPutType DEF TypeOK
  <2>5. /\ UNCHANGED <<call, sent>> /\ last'[p] = last[p]
        /\ clean'[p] = clean[p] /\ (clean'[n] => clean[n] /\ ~replies)
    <3>1. UNCHANGED <<call, sent>> /\ last'[p] = last[p]
      <4>1. PICK v : last' = [last EXCEPT ![n] = v]
        BY <1>4, Zenon DEF RxData
      <4>2. UNCHANGED <<call, sent>>
        BY <1>4 DEF RxData
      <4>3. last \in [Node -> Nat]
        BY DEF TypeOK
      <4>4. QED
        BY <2>1, <4>1, <4>2, <4>3
    <3>2. clean' = [clean EXCEPT ![n] = clean[n] /\ ~replies]
      BY <1>4 DEF RxData
    <3>3. clean'[p] = clean[p] /\ (clean'[n] => clean[n] /\ ~replies)
      BY <2>1, <3>2 DEF TypeOK
    <3>4. QED
      BY <3>1, <3>3
  <2>6. /\ arq'[p] = arq[p]
        /\ arq'[n].ack_received = arq[n].ack_received
        /\ arq'[n].pend_len = arq[n].pend_len
    <3>1. arq' = [arq EXCEPT ![n].seq_rx = NextSeq(f.seq)]
      BY <1>4 DEF RxData
    <3>2. arq \in [Node -> ArqState]
      BY DEF TypeOK
    <3>3. QED
      BY <2>1, <3>1, <3>2 DEF ArqState
  <2>7. last'[n] = IF f.msg # 0 /\ f.len = 1 THEN f.msg ELSE last[n]
    <3>1. last' = [last EXCEPT ![n] = IF f.msg # 0 /\ f.len = 1 THEN f.msg ELSE @]
      BY <1>4 DEF RxData
    <3>2. last \in [Node -> Nat]
      BY DEF TypeOK
    <3>3. QED
      BY <3>1, <3>2
  <2> HIDE DEF ack, reply
  <2>8. CleanCall(n)'
    <3>1. HasAck(wire'[n]) => HasAck(wire[n])
      BY <2>2, <2>4, CarryTail
    <3>2. clean'[n] => \A m : AllCarry(wire[p], m) => AllCarry(wire'[p], m)
      BY <2>2, <2>3, <2>4, <2>5, CarryAppend
    <3>3. QED
      BY <2>5, <2>6, <3>1, <3>2, CleanCallKept
  <2>9. CleanCall(p)'
    <3>1. /\ last'[n] \in Nat /\ last[n] \in Nat /\ sent[p] \in Nat
          /\ last[n] <= sent[p]
      BY <2>1, NodeFacts, BothNodes DEF TypeOK
    <3>2. last'[n] <= sent[p]
      <4>1. last'[Peer(p)] <= sent'[p]
        BY <2>1 DEF LineInOrder, InOrder
      <4>2. QED
        BY <2>1, <2>5, <4>1
    <3>3. last[n] <= last'[n]
      <4>1. NoOlder(wire[n], last[n], sent[p])
        BY <2>1, BothNodes
      <4>2. f.msg # 0 => last[n] <= f.msg
        BY <2>2, <3>1, <4>1, NoOlderTail
      <4>3. QED
        BY <2>7, <3>1, <4>2
    <3>4. clean[p] /\ call[p] = "OK" => last'[n] = sent[p]
      BY <2>1, <3>1, <3>2, <3>3 DEF CleanCall
    <3>5. ASSUME clean[p], call[p] = "wait"
          PROVE  /\ arq[p].pend_len = 1 /\ AllCarry(wire'[n], sent[p])
                 /\ last'[n] = sent[p]
      <4>1. arq[p].pend_len = 1 /\ AllCarry(wire[n], sent[p])
        BY <2>1, <3>5 DEF CleanCall
      <4>2. f.msg = sent[p] /\ f.len = 1 /\ AllCarry(wire'[n], sent[p])
        BY <2>2, <2>4, <4>1, CarryTail
      <4>3. last'[n] = sent[p]
        BY <2>7, <3>1, <3>2, <3>3, <4>2
      <4>4. QED
        BY <4>1, <4>2, <4>3
    <3>6. QED
      BY <2>1, <2>5, <2>6, <3>4, <3>5 DEF CleanCall
  <2>10. QED
    BY <2>8, <2>9, OtherIsPeer
<1>5. ASSUME NEW n \in Node,
             RxAck(n) \/ RxNack(n) \/ RxRst(n) \/ RxCorrupt(n) \/ Lose(n)
      PROVE  CleanCalls'
  <2> DEFINE p == Peer(n)
  <2>1. p \in Node /\ p # n /\ Peer(p) = n
    BY PeerFacts
  <2>2. wire[n] # <<>> /\ wire[n] \in Seq(Frame) /\ wire[p] \in Seq(Frame)
    BY <1>5, <2>1, NodeFacts
    DEF RxAck, RxNack, RxRst, RxCorrupt, Lose, Arriving
  <2>3. PICK s \in SeqNum : \/ wire' = TakeAndPut(n, <<>>)
                            \/ wire' = TakeAndPut(n, <<Ctrl("NACK", s, 0)>>)
    <3>1. Head(wire[n]).seq \in SeqNum
      BY <2>2, HeadType DEF TypeOK, Frame
    <3>2. QED
      BY <1>5, <3>1, SeqNumType DEF RxAck, RxNack, RxRst, RxCorrupt, Lose
  <2> DEFINE g == Ctrl("NACK", s, 0)
  <2>4. g \in Frame /\ g.kind = "NACK"
    BY CtrlType DEF Ctrl
  <2>5. /\ wire'[n] = Tail(wire[n])
        /\ wire'[p] = wire[p] \/ wire'[p] = Append(wire[p], g)
    <3>1. <<>> \in Seq(Frame) /\ <<g>> \in Seq(Frame)
      BY <2>4
    <3>2. wire[p] \o <<>> = wire[p] /\ wire[p] \o <<g>> = Append(wire[p], g)
      BY <2>2, <2>4, ConcatIsAppend
    <3>3. QED
      BY <2>2, <2>3, <3>1, <3>2, TakeAndPutType DEF TypeOK
  <2> HIDE DEF g
  <2>6. UNCHANGED <<call, sent, last>>
    BY <1>5 DEF RxAck, RxNack, RxRst, RxCorrupt, Lose
  <2>7. arq'[p] = arq[p] /\ clean'[p] = clean[p]
    <3>1. arq \in [Node -> ArqState] /\ clean \in [Node -> BOOLEAN]
      BY DEF TypeOK
    <3>2. PICK a : arq' = [arq EXCEPT ![n] = a] \/ arq' = arq
      BY <1>5, Zenon DEF RxAck, RxNack, RxRst, RxCorrupt, Lose
    <3>3. clean' = [clean EXCEPT ![n] = FALSE] \/ clean' = clean
      BY <1>5 DEF RxAck, RxNack, RxRst, RxCorrupt, Lose
    <3>4. QED
      BY <2>1, <3>1, <3>2, <3>3
  <2>8. CleanCall(n)'
    <3>1. HasAck(wire'[n]) => HasAck(wire[n])
      BY <2>2, <2>5, CarryTail
    <3>2. \A m : AllCarry(wire[p], m) => AllCarry(wire'[p], m)
      BY <2>2, <2>4, <2>5, CarryAppend
    <3>3. /\ clean'[n] => clean[n] /\ arq'[n].pend_len = arq[n].pend_len
          /\ arq'[n].ack_received => arq[n].ack_received \/ HasAck(wire[n])
      <4>1. CASE RxAck(n)
        <5>1. HasAck(wire[n])
          BY <2>2, <4>1, CarryTail DEF RxAck, Arriving
        <5>2. QED
          BY <4>1, <5>1 DEF RxAck, TypeOK, ArqState
      <4>2. CASE RxNack(n)
        BY <4>2 DEF RxNack, TypeOK, ArqState
      <4>3. CASE RxRst(n)
        BY <4>3 DEF RxRst, TypeOK, ArqState
      <4>4. CASE RxCorrupt(n) \/ Lose(n)
        BY <4>4 DEF RxCorrupt, Lose
      <4>5. QED
        BY <1>5, <4>1, <4>2, <4>3, <4>4
    <3>4. QED
      BY <2>6, <3>1, <3>2, <3>3, CleanCallKept
  <2>9. CleanCall(p)'
    <3>1. HasAck(wire'[p]) => HasAck(wire[p])
      BY <2>2, <2>4, <2>5, CarryAppend
    <3>2. \A m : AllCarry(wire[n], m) => AllCarry(wire'[n], m)
      BY <2>2, <2>5, CarryTail
    <3>3. QED
      BY <2>1, <2>6, <2>7, <3>1, <3>2, CleanCallKept
  <2>10. QED
    BY <2>8, <2>9, OtherIsPeer
<1>6. ASSUME NEW n \in Node, RemoteRst(n)
      PROVE  CleanCalls'
  <2> DEFINE p == Peer(n)
             f == Ctrl("RST", 0, 0)
  <2>1. /\ p \in Node /\ p # n /\ Peer(p) = n
        /\ wire[n] \in Seq(Frame) /\ wire[p] \in Seq(Frame)
    BY PeerFacts, NodeFacts
  <2>2. f \in Frame /\ f.kind = "RST"
    BY SeqNumType, CtrlType DEF Ctrl
  <2>3. wire'[n] = wire[n] /\ wire'[p] = Append(wire[p], f)
    BY <1>6, <2>2, PutType DEF RemoteRst, TypeOK
  <2> HIDE DEF f
  <2>4. UNCHANGED <<call, sent, last, clean, arq>>
    BY <1>6 DEF RemoteRst
  <2>5. /\ HasAck(wire'[p]) => HasAck(wire[p])
        /\ \A m : AllCarry(wire[p], m) => AllCarry(wire'[p], m)
    BY <2>1, <2>2, <2>3, CarryAppend
  <2>6. CleanCall(n)'
    BY <2>3, <2>4, <2>5, CleanCallKept
  <2>7. CleanCall(p)'
    BY <2>1, <2>3, <2>4, <2>5, CleanCallKept
  <2>8. QED
    BY <2>6, <2>7, OtherIsPeer
<1>7. CASE UNCHANGED vars
  BY <1>7 DEF CleanCall, vars
<1>8. QED
  BY <1>1, <1>2, <1>3, <1>4, <1>5, <1>6, <1>7
  DEF Next, SeeNack, Timeout, Receive

\* XTP_OK means "data delivered" (xtp_arq.h:83) whenever the call began with
\* nothing of the node's in flight and the node sent no plain frame and got
\* no reset until it returned.
THEOREM CleanOkIsTrue == Spec => []OkIsTrue
<1>1. Init => CleanCalls
  BY DEF Init, CleanCalls, CleanCall
<1>2. TypeOK /\ TypeOK' /\ LineInOrder /\ LineInOrder' /\ CleanCalls
        /\ [Next]_vars => CleanCalls'
  BY CleanCallsStep
<1>3. CleanCalls => OkIsTrue
  BY DEF CleanCalls, CleanCall, OkIsTrue
<1>4. QED
  BY <1>1, <1>2, <1>3, Typing, LineStaysInOrder, PTL DEF Spec

-----------------------------------------------------------------------------
(* The transmissions of a message on a line                                *)

Carrying(f, msg) == f.kind = "DATA" /\ f.msg = msg
Places(line, msg) == {i \in DOMAIN line : Carrying(line[i], msg)}
Count(line, msg) == Cardinality(Places(line, msg))

LEMMA PlacesFinite ==
    ASSUME NEW line \in Seq(Frame), NEW msg
    PROVE  /\ IsFiniteSet(Places(line, msg)) /\ Count(line, msg) \in Nat
           /\ Places(line, msg) \subseteq 1 .. Len(line)
<1>1. DOMAIN line = 1 .. Len(line) /\ Len(line) \in Nat OBVIOUS
<1>2. IsFiniteSet(1 .. Len(line)) BY <1>1, FS_Interval
<1>3. Places(line, msg) \in SUBSET (1 .. Len(line)) BY <1>1 DEF Places
<1> QED BY <1>2, <1>3, FS_Subset, FS_CardinalityType DEF Count

\* A frame joins the line.
LEMMA CountAppend ==
    ASSUME NEW line \in Seq(Frame), NEW f \in Frame, NEW msg
    PROVE  Count(Append(line, f), msg)
             = IF Carrying(f, msg) THEN Count(line, msg) + 1 ELSE Count(line, msg)
<1> DEFINE new == Append(line, f)
           last_ == Len(line) + 1
<1>1. /\ DOMAIN line = 1 .. Len(line) /\ DOMAIN new = 1 .. last_ /\ Len(line) \in Nat
      /\ \A i \in 1 .. Len(line) : new[i] = line[i]
      /\ new[last_] = f
  OBVIOUS
<1>2. last_ \notin DOMAIN line /\ DOMAIN new = DOMAIN line \cup {last_} BY <1>1
<1> DEFINE places == DOMAIN line
<1>3. /\ \A i \in places : new[i] = line[i]
      /\ DOMAIN new = places \cup {last_} /\ new[last_] = f /\ last_ \notin places
  BY <1>1, <1>2
<1> HIDE DEF last_, new, places
<1>4. Places(line, msg) = {i \in places : Carrying(line[i], msg)} BY DEF Places, places
<1>5. Places(new, msg) = {i \in places \cup {last_} : Carrying(new[i], msg)}
  BY <1>3 DEF Places
<1>6. CASE Carrying(f, msg)
  <2>1. Places(new, msg) = Places(line, msg) \cup {last_}
    BY <1>6, <1>3, <1>4, <1>5, Zenon
  <2>2. last_ \notin Places(line, msg) BY <1>3, <1>4
  <2>3. Cardinality(Places(line, msg) \cup {last_}) = Cardinality(Places(line, msg)) + 1
    BY <2>2, PlacesFinite, FS_AddElement
  <2> QED BY <1>6, <2>1, <2>3 DEF Count, new
<1>7. CASE ~Carrying(f, msg)
  <2>1. Places(new, msg) = Places(line, msg)
    BY <1>7, <1>3, <1>4, <1>5, Zenon
  <2> QED BY <1>7, <2>1 DEF Count, new
<1> QED BY <1>6, <1>7

\* The oldest frame leaves the line.
LEMMA CountTail ==
    ASSUME NEW line \in Seq(Frame), line # <<>>, NEW msg
    PROVE  Count(line, msg)
             = IF Carrying(Head(line), msg) THEN Count(Tail(line), msg) + 1
               ELSE Count(Tail(line), msg)
<1> DEFINE rest == Tail(line)
           R == Places(rest, msg)
           L == Places(line, msg)
           shift == [i \in R |-> i + 1]
<1>1. rest \in Seq(Frame) /\ Len(line) \in Nat /\ DOMAIN line = 1 .. Len(line)
      /\ DOMAIN rest = 1 .. Len(line) - 1
      /\ (\A i \in 1 .. Len(line) - 1 : rest[i] = line[i + 1])
      /\ Head(line) = line[1] /\ Len(line) >= 1
  OBVIOUS
<1>2. IsFiniteSet(R) /\ R \subseteq 1 .. Len(line) - 1
  BY <1>1, PlacesFinite DEF Places
<1>3. \A i \in R : i \in Nat /\ i + 1 \in L \ {1}
  BY <1>1, <1>2 DEF Places
<1>4. \A j \in L \ {1} : j - 1 \in R /\ j = (j - 1) + 1
  BY <1>1 DEF Places
<1> HIDE DEF R, L
<1>5. shift \in Bijection(R, L \ {1})
  <2>1. shift \in [R -> L \ {1}] BY <1>3
  <2>2. \A i, j \in R : shift[i] = shift[j] => i = j BY <1>3
  <2>3. \A j \in L \ {1} : \E i \in R : shift[i] = j BY <1>4
  <2> QED BY <2>1, <2>2, <2>3, Fun_IsBij
<1>6. Cardinality(L \ {1}) = Cardinality(R) /\ IsFiniteSet(L \ {1})
  <2>1. ExistsBijection(R, L \ {1}) BY <1>5 DEF ExistsBijection
  <2> QED BY <1>2, <2>1, FS_Bijection
<1>7. CASE Carrying(Head(line), msg)
  <2>1. 1 \in L BY <1>1, <1>7 DEF L, Places
  <2>2. L = (L \ {1}) \cup {1} /\ 1 \notin L \ {1} BY <2>1
  <2>3. Cardinality((L \ {1}) \cup {1}) = Cardinality(L \ {1}) + 1
    BY <1>6, <2>2, FS_AddElement
  <2>4. Cardinality(L) = Cardinality(R) + 1 BY <1>6, <2>2, <2>3
  <2> QED BY <1>7, <2>4 DEF Count, L, R
<1>8. CASE ~Carrying(Head(line), msg)
  <2>1. 1 \notin L BY <1>1, <1>8 DEF L, Places
  <2>2. L = L \ {1} BY <2>1
  <2> QED BY <1>6, <1>8, <2>2 DEF Count, L, R
<1> QED BY <1>7, <1>8

-----------------------------------------------------------------------------
(* What is left of the transmissions of a call                             *)

\* The peer of n has been given a message, and may still be given it by what
\* is on the line, only as often as the loop of xTP_ARQ_Send has turned.
Given(p, msg) == IF last[p] = msg THEN copies[p] ELSE 0
Turns(n, msg) == IF msg = sent[n] THEN retries[n] + 1 ELSE MaxRetries + 1
Budget(n) ==
    \A msg \in 1 .. sent[n] :
        Count(wire[Peer(n)], msg) + Given(Peer(n), msg) <= Turns(n, msg)

NoneGiven(n) == last[n] = 0 => copies[n] = 0

CopiesInv == \A n \in Node : Budget(n) /\ NoneGiven(n)

LEMMA BudgetTypes ==
    ASSUME TypeOK, NEW n \in Node
    PROVE  /\ sent[n] \in Nat /\ retries[n] \in Nat /\ retries[n] <= MaxRetries
           /\ copies[n] \in Nat /\ last[n] \in Nat /\ MaxRetries \in Nat
           /\ wire[n] \in Seq(Frame)
<1>1. sent[n] \in Nat /\ retries[n] \in 0 .. MaxRetries /\ copies[n] \in Nat
      /\ last[n] \in Nat /\ MaxRetries \in Nat /\ wire[n] \in Seq(Frame)
  BY ArqAssumption DEF TypeOK
<1> QED BY <1>1

LEMMA CountTypes ==
    ASSUME TypeOK, NEW n \in Node, NEW msg
    PROVE  Count(wire[n], msg) \in Nat /\ Given(n, msg) \in Nat
<1>1. wire[n] \in Seq(Frame) /\ copies[n] \in Nat BY BudgetTypes
<1> QED BY <1>1, PlacesFinite DEF Given

\* A step that sends nothing of n's and gives its peer nothing.
LEMMA BudgetKept ==
    ASSUME TypeOK, NEW n \in Node, Budget(n),
           \A msg \in 1 .. sent[n] :
               /\ Count(wire'[Peer(n)], msg) \in Nat
               /\ Count(wire'[Peer(n)], msg) <= Count(wire[Peer(n)], msg),
           last'[Peer(n)] = last[Peer(n)], copies'[Peer(n)] = copies[Peer(n)],
           sent'[n] = sent[n], retries'[n] = retries[n]
    PROVE  Budget(n)'
<1>1. Peer(n) \in Node BY PeerFacts
<1> SUFFICES ASSUME NEW msg \in 1 .. sent[n]
             PROVE  Count(wire'[Peer(n)], msg) + Given(Peer(n), msg)' <= Turns(n, msg)'
  BY DEF Budget
<1>2. Given(Peer(n), msg)' = Given(Peer(n), msg) /\ Turns(n, msg)' = Turns(n, msg)
  BY DEF Given, Turns
<1>3. Count(wire[Peer(n)], msg) + Given(Peer(n), msg) <= Turns(n, msg) BY DEF Budget
<1>4. Count(wire[Peer(n)], msg) \in Nat /\ Given(Peer(n), msg) \in Nat
  BY <1>1, CountTypes
<1>5. Turns(n, msg) \in Nat BY BudgetTypes DEF Turns
<1> QED BY <1>2, <1>3, <1>4, <1>5

\* A transmission of xTP_ARQ_Send.
LEMMA SendBudget ==
    ASSUME TypeOK, LineInOrder, CopiesInv, NEW n \in Node, NEW f \in Frame,
           f.msg = sent'[n], f.kind = "DATA", wire' = Put(n, f), UNCHANGED <<last, copies>>,
           \/ sent' = [sent EXCEPT ![n] = @ + 1] /\ retries' = [retries EXCEPT ![n] = 0]
           \/ sent' = sent /\ retries' = [retries EXCEPT ![n] = @ + 1]
    PROVE  CopiesInv'
<1> DEFINE p == Peer(n)
<1>1. p \in Node /\ p # n /\ Peer(p) = n BY PeerFacts
<1>2. wire'[n] = wire[n] /\ wire'[p] = Append(wire[p], f) BY PutType DEF TypeOK
<1>3. sent'[p] = sent[p] /\ retries'[p] = retries[p] BY <1>1 DEF TypeOK
<1>4. \A m \in Node : NoneGiven(m)' BY DEF CopiesInv, NoneGiven
<1>5. Budget(p)'
  <2>1. \A msg : Count(wire'[n], msg) \in Nat /\ Count(wire'[n], msg) <= Count(wire[n], msg)
    BY <1>2, CountTypes
  <2> QED BY <1>1, <1>3, <2>1, BudgetKept DEF CopiesInv
<1>6. Budget(n)'
  <2> SUFFICES ASSUME NEW msg \in 1 .. sent'[n]
               PROVE  Count(wire'[p], msg) + Given(p, msg)' <= Turns(n, msg)'
    BY DEF Budget
  <2>1. Given(p, msg)' = Given(p, msg) BY DEF Given
  <2>2. Count(wire'[p], msg) = IF msg = sent'[n] THEN Count(wire[p], msg) + 1
                                                 ELSE Count(wire[p], msg)
    BY <1>1, <1>2, BudgetTypes, CountAppend DEF Carrying
  <2>3. msg \in Nat /\ sent[n] \in Nat /\ retries[n] \in Nat /\ retries[n] <= MaxRetries
        /\ MaxRetries \in Nat /\ Count(wire[p], msg) \in Nat /\ Given(p, msg) \in Nat
        /\ sent'[n] \in Nat
    <3>1. sent[n] \in Nat /\ retries[n] \in Nat /\ retries[n] <= MaxRetries
          /\ MaxRetries \in Nat
      BY BudgetTypes
    <3>2. Count(wire[p], msg) \in Nat /\ Given(p, msg) \in Nat BY <1>1, CountTypes
    <3>3. sent'[n] \in Nat BY <3>1 DEF TypeOK
    <3> QED BY <3>1, <3>2, <3>3
  <2>4. msg <= sent[n] => Count(wire[p], msg) + Given(p, msg) <= Turns(n, msg)
    BY <2>3 DEF CopiesInv, Budget
  <2>5. CASE sent' = sent /\ retries' = [retries EXCEPT ![n] = @ + 1]
    <3>1. sent'[n] = sent[n] /\ retries'[n] = retries[n] + 1 BY <2>5 DEF TypeOK
    <3> QED BY <2>1, <2>2, <2>3, <2>4, <3>1 DEF Turns
  <2>6. CASE sent' = [sent EXCEPT ![n] = @ + 1] /\ retries' = [retries EXCEPT ![n] = 0]
    <3>1. sent'[n] = sent[n] + 1 /\ retries'[n] = 0 BY <2>6 DEF TypeOK
    <3>2. CASE msg = sent'[n]
      <4>1. last[p] <= sent[n] /\ NoOlder(wire[p], last[p], sent[n]) BY BothNodes
      <4>2. last[p] \in Nat /\ wire[p] \in Seq(Frame) BY <1>1, BudgetTypes
      <4>3. Given(p, msg) = 0 BY <2>3, <3>1, <3>2, <4>1, <4>2 DEF Given
      <4>4. Places(wire[p], msg) = {}
        <5> SUFFICES ASSUME NEW i \in DOMAIN wire[p], Carrying(wire[p][i], msg) PROVE FALSE
          BY DEF Places
        <5>1. wire[p][i].kind = "DATA" /\ wire[p][i].msg = msg BY DEF Carrying
        <5>2. msg # 0 BY <2>3, <3>1, <3>2
        <5>3. wire[p][i].msg <= sent[n] BY <4>1, <5>1, <5>2 DEF NoOlder
        <5> QED BY <2>3, <3>1, <3>2, <5>1, <5>3
      <4>5. Count(wire[p], msg) = 0 BY <4>4, FS_EmptySet DEF Count
      <4> QED BY <2>1, <2>2, <3>1, <3>2, <4>3, <4>5 DEF Turns
    <3>3. CASE msg # sent'[n]
      <4>1. msg <= sent[n] BY <2>3, <3>1, <3>3
      <4>2. Turns(n, msg) <= MaxRetries + 1 /\ Turns(n, msg) \in Nat BY <2>3 DEF Turns
      <4> QED BY <2>1, <2>2, <2>3, <2>4, <3>3, <4>1, <4>2 DEF Turns
    <3> QED BY <3>2, <3>3
  <2> QED BY <2>5, <2>6
<1> QED BY <1>1, <1>4, <1>5, <1>6, OtherIsPeer DEF CopiesInv

\* The line to n loses its oldest frame, and something that carries no
\* message goes the other way.
LEMMA TakenCounts ==
    ASSUME TypeOK, NEW n \in Node, wire[n] # <<>>, NEW f \in Frame, NEW g \in Frame,
           f.kind # "DATA", g.kind # "DATA" \/ g.msg = 0,
           wire' \in {TakeAndPut(n, <<>>), TakeAndPut(n, <<f>>), TakeAndPut(n, <<f, g>>)}
    PROVE  /\ \A msg : Count(wire'[n], msg) \in Nat
           /\ \A msg : Count(wire[n], msg) = IF Carrying(Head(wire[n]), msg)
                                             THEN Count(wire'[n], msg) + 1
                                             ELSE Count(wire'[n], msg)
           /\ \A msg \in Nat \ {0} : Count(wire'[Peer(n)], msg) = Count(wire[Peer(n)], msg)
<1> DEFINE p == Peer(n)
<1>1. p \in Node BY PeerFacts
<1>2. wire[n] \in Seq(Frame) /\ wire[p] \in Seq(Frame) BY <1>1 DEF TypeOK
<1>3. <<>> \in Seq(Frame) /\ <<f>> \in Seq(Frame) /\ <<f, g>> \in Seq(Frame) OBVIOUS
<1>4. /\ wire[p] \o <<>> = wire[p] /\ wire[p] \o <<f>> = Append(wire[p], f)
      /\ wire[p] \o <<f, g>> = Append(Append(wire[p], f), g)
  BY <1>2, ConcatIsAppend
<1>5. wire'[n] = Tail(wire[n])
      /\ wire'[p] \in {wire[p], Append(wire[p], f), Append(Append(wire[p], f), g)}
  BY <1>3, <1>4, TakeAndPutType DEF TypeOK
<1>6. Tail(wire[n]) \in Seq(Frame) BY <1>2
<1>7. \A msg : Count(wire'[n], msg) \in Nat BY <1>5, <1>6, PlacesFinite
<1>8. \A msg : Count(wire[n], msg) = IF Carrying(Head(wire[n]), msg)
                                     THEN Count(wire'[n], msg) + 1
                                     ELSE Count(wire'[n], msg)
  BY <1>2, <1>5, CountTail
<1>9. ASSUME NEW msg \in Nat \ {0} PROVE Count(wire'[p], msg) = Count(wire[p], msg)
  <2>1. ~Carrying(f, msg) /\ ~Carrying(g, msg) BY DEF Carrying
  <2>2. Append(wire[p], f) \in Seq(Frame) BY <1>2
  <2>3. Count(Append(wire[p], f), msg) = Count(wire[p], msg) BY <1>2, <2>1, CountAppend
  <2>4. Count(Append(Append(wire[p], f), g), msg) = Count(Append(wire[p], f), msg)
    BY <2>1, <2>2, CountAppend
  <2> QED BY <1>5, <2>3, <2>4
<1> QED BY <1>7, <1>8, <1>9

\* A frame is taken that gives the application nothing.
LEMMA TakeBudget ==
    ASSUME TypeOK, CopiesInv, NEW n \in Node, wire[n] # <<>>, NEW f \in Frame, NEW g \in Frame,
           f.kind # "DATA", g.kind # "DATA" \/ g.msg = 0,
           wire' \in {TakeAndPut(n, <<>>), TakeAndPut(n, <<f>>), TakeAndPut(n, <<f, g>>)},
           UNCHANGED <<last, copies, sent, retries>>
    PROVE  CopiesInv'
<1>1. Peer(n) \in Node /\ Peer(Peer(n)) = n BY PeerFacts
<1>2. \A m \in Node : NoneGiven(m)' BY DEF CopiesInv, NoneGiven
<1>3. Budget(n)'
  <2>1. ASSUME NEW msg \in 1 .. sent[n]
        PROVE  /\ Count(wire'[Peer(n)], msg) \in Nat
               /\ Count(wire'[Peer(n)], msg) <= Count(wire[Peer(n)], msg)
    <3>1. msg \in Nat \ {0} BY BudgetTypes
    <3>2. Count(wire'[Peer(n)], msg) = Count(wire[Peer(n)], msg) BY <3>1, TakenCounts
    <3>3. Count(wire[Peer(n)], msg) \in Nat BY <1>1, CountTypes
    <3> QED BY <3>2, <3>3
  <2> QED BY <2>1, BudgetKept DEF CopiesInv
<1>4. Budget(Peer(n))'
  <2>1. ASSUME NEW msg
        PROVE  Count(wire'[n], msg) \in Nat /\ Count(wire'[n], msg) <= Count(wire[n], msg)
    <3>1. Count(wire'[n], msg) \in Nat BY TakenCounts
    <3>2. Count(wire[n], msg) = IF Carrying(Head(wire[n]), msg)
                                THEN Count(wire'[n], msg) + 1
                                ELSE Count(wire'[n], msg)
      BY TakenCounts
    <3> QED BY <3>1, <3>2
  <2> QED BY <1>1, <2>1, BudgetKept DEF CopiesInv
<1> QED BY <1>2, <1>3, <1>4, OtherIsPeer DEF CopiesInv

LEMMA RxDataBudget == ASSUME TypeOK, CopiesInv, NEW n \in Node, RxData(n) PROVE CopiesInv'
<1> DEFINE p == Peer(n)
           h == Head(wire[n])
           ack == Ctrl("ACK", h.seq, h.tx)
           reply == Data(0, 0, 1, tx[n] + 1)
           out == IF n \in Replier /\ h.msg # 0 THEN <<ack, reply>> ELSE <<ack>>
<1>1. p \in Node /\ p # n /\ Peer(p) = n BY PeerFacts
<1>2. wire[n] # <<>> /\ h.kind = "DATA" BY DEF RxData, Arriving
<1>3. h \in Frame /\ h.seq \in SeqNum /\ h.msg \in Nat /\ h.tx \in Nat
  BY <1>2, HeadType DEF TypeOK, Frame
<1>4. ack \in Frame /\ ack.kind # "DATA" BY <1>3, CtrlType DEF Ctrl
<1>5. reply \in Frame /\ reply.msg = 0
  <2>1. tx[n] + 1 \in Nat BY DEF TypeOK
  <2> QED BY <2>1, SeqNumType, DataType DEF Data
<1>6. /\ wire' = TakeAndPut(n, out)
      /\ last' = [last EXCEPT ![n] = IF h.msg # 0 /\ h.len = 1 THEN h.msg ELSE @]
      /\ copies' = [copies EXCEPT ![n] = IF h.msg = 0 \/ h.len = 0 THEN @
                                         ELSE IF h.msg = last[n] THEN @ + 1 ELSE 1]
      /\ sent' = sent /\ retries' = retries
  BY DEF RxData
<1>7. wire' \in {TakeAndPut(n, <<>>), TakeAndPut(n, <<ack>>), TakeAndPut(n, <<ack, reply>>)}
  BY <1>6
<1> HIDE DEF h, ack, reply, out
<1>8. ASSUME NEW msg
      PROVE  /\ Count(wire'[n], msg) \in Nat
             /\ Count(wire[n], msg) = IF Carrying(h, msg) THEN Count(wire'[n], msg) + 1
                                      ELSE Count(wire'[n], msg)
             /\ msg \in Nat \ {0} => Count(wire'[p], msg) = Count(wire[p], msg)
  BY <1>2, <1>4, <1>5, <1>7, TakenCounts DEF h
<1>9. last'[p] = last[p] /\ copies'[p] = copies[p] BY <1>1, <1>6 DEF TypeOK
<1>10. Budget(n)'
  <2>1. ASSUME NEW msg \in 1 .. sent[n]
        PROVE  Count(wire'[p], msg) \in Nat /\ Count(wire'[p], msg) <= Count(wire[p], msg)
    <3>1. msg \in Nat \ {0} BY BudgetTypes
    <3>2. Count(wire'[p], msg) = Count(wire[p], msg) BY <1>8, <3>1
    <3>3. Count(wire[p], msg) \in Nat BY <1>1, CountTypes
    <3> QED BY <3>2, <3>3
  <2> QED BY <1>6, <1>9, <2>1, BudgetKept DEF CopiesInv
<1>11. NoneGiven(p)' BY <1>1, <1>9 DEF CopiesInv, NoneGiven
<1>12. CASE h.msg = 0 \/ h.len # 1
  <2>1. h.len \in {0, 1} BY <1>3 DEF Frame
  <2>2. last'[n] = last[n] /\ copies'[n] = copies[n] BY <1>6, <1>12, <2>1 DEF TypeOK
  <2>3. \A msg : Count(wire'[n], msg) \in Nat /\ Count(wire'[n], msg) <= Count(wire[n], msg)
    BY <1>8
  <2>4. Budget(p)' BY <1>1, <1>6, <2>2, <2>3, BudgetKept DEF CopiesInv
  <2>5. NoneGiven(n)' BY <2>2 DEF CopiesInv, NoneGiven
  <2> QED BY <1>1, <1>10, <1>11, <2>4, <2>5, OtherIsPeer DEF CopiesInv
<1>13. CASE h.msg # 0 /\ h.len = 1
  <2>1. last'[n] = h.msg /\ copies'[n] = IF h.msg = last[n] THEN copies[n] + 1 ELSE 1
    BY <1>6, <1>13 DEF TypeOK
  <2>2. NoneGiven(n)' BY <1>13, <2>1 DEF NoneGiven
  <2>3. ASSUME NEW msg \in 1 .. sent[p]
        PROVE  Count(wire'[n], msg) + Given(n, msg)' <= Turns(p, msg)'
    <3>1. Turns(p, msg)' = Turns(p, msg) BY <1>6 DEF Turns
    <3>2. Count(wire[n], msg) + Given(n, msg) <= Turns(p, msg)
      BY <1>1 DEF CopiesInv, Budget
    <3>3. Count(wire[n], msg) \in Nat /\ Given(n, msg) \in Nat BY CountTypes
    <3>4. Turns(p, msg) \in Nat BY <1>1, BudgetTypes DEF Turns
    <3>5. copies[n] \in Nat BY BudgetTypes
    <3>6. CASE msg = h.msg
      <4>1. Carrying(h, msg) BY <1>2, <3>6 DEF Carrying, h
      <4>2. Given(n, msg)' = Given(n, msg) + 1 BY <2>1, <3>5, <3>6 DEF Given
      <4>3. Count(wire[n], msg) = Count(wire'[n], msg) + 1 /\ Count(wire'[n], msg) \in Nat
        BY <1>8, <4>1
      <4> QED BY <3>1, <3>2, <3>3, <4>2, <4>3
    <3>7. CASE msg # h.msg
      <4>1. Given(n, msg)' = 0 BY <2>1, <3>7 DEF Given
      <4>2. Count(wire'[n], msg) \in Nat /\ Count(wire'[n], msg) <= Count(wire[n], msg)
        BY <1>8
      <4> QED BY <3>1, <3>2, <3>3, <3>4, <4>1, <4>2
    <3> QED BY <3>6, <3>7
  <2>4. Budget(p)' BY <1>1, <1>6, <2>3 DEF Budget
  <2> QED BY <1>1, <1>10, <1>11, <2>2, <2>4, OtherIsPeer DEF CopiesInv
<1> QED BY <1>12, <1>13

\* A reset that arrives on the line.
LEMMA RstBudget == ASSUME TypeOK, CopiesInv, NEW n \in Node, RemoteRst(n) PROVE CopiesInv'
<1> DEFINE f == Ctrl("RST", 0, 0)
<1>1. f \in Frame /\ f.kind = "RST" BY SeqNumType, CtrlType DEF Ctrl
<1>2. wire' = Put(n, f) /\ UNCHANGED <<last, copies, sent, retries>> BY DEF RemoteRst
<1> HIDE DEF f
<1>3. Peer(n) \in Node BY PeerFacts
<1>4. wire'[n] = wire[n] /\ wire'[Peer(n)] = Append(wire[Peer(n)], f)
  BY <1>1, <1>2, PutType DEF TypeOK
<1>5. ASSUME NEW m \in Node, NEW msg PROVE Count(wire'[m], msg) = Count(wire[m], msg)
  <2>1. CASE m = n BY <1>4, <2>1
  <2>2. CASE m = Peer(n)
    <3>1. ~Carrying(f, msg) BY <1>1 DEF Carrying
    <3>2. wire[m] \in Seq(Frame) BY BudgetTypes
    <3> QED BY <1>1, <1>4, <2>2, <3>1, <3>2, CountAppend
  <2> QED BY <2>1, <2>2, OtherIsPeer
<1>6. ASSUME NEW m \in Node PROVE Budget(m)'
  <2>1. Peer(m) \in Node BY PeerFacts
  <2>2. \A msg : Count(wire'[Peer(m)], msg) \in Nat
                 /\ Count(wire'[Peer(m)], msg) <= Count(wire[Peer(m)], msg)
    BY <1>5, <2>1, CountTypes
  <2> QED BY <1>2, <2>1, <2>2, BudgetKept DEF CopiesInv
<1>7. \A m \in Node : NoneGiven(m)' BY <1>2 DEF CopiesInv, NoneGiven
<1> QED BY <1>6, <1>7 DEF CopiesInv

LEMMA CopiesStep ==
    ASSUME TypeOK, LineInOrder, CopiesInv, [Next]_vars
    PROVE  CopiesInv'
<1>1. ASSUME NEW n \in Node, StartSend(n) PROVE CopiesInv'
  <2> DEFINE f == Data(arq[n].seq_tx, sent[n] + 1, 1, tx[n] + 1)
  <2>1. arq[n].seq_tx \in SeqNum /\ sent[n] + 1 \in Nat /\ tx[n] + 1 \in Nat
    BY NodeFacts, ArqFacts
  <2>2. f \in Frame /\ f.kind = "DATA" /\ f.msg = sent[n] + 1 BY <2>1, DataType DEF Data
  <2>3. wire' = Put(n, f) /\ sent' = [sent EXCEPT ![n] = @ + 1]
        /\ retries' = [retries EXCEPT ![n] = 0] /\ UNCHANGED <<last, copies>>
    BY <1>1 DEF StartSend
  <2>4. sent'[n] = sent[n] + 1 BY <2>3 DEF TypeOK
  <2> QED BY <2>2, <2>3, <2>4, SendBudget
<1>2. ASSUME NEW n \in Node, Retransmit(n) PROVE CopiesInv'
  <2> DEFINE f == Data(arq[n].pend_seq, sent[n], arq[n].pend_len, tx[n] + 1)
  <2>1. arq[n].pend_seq \in SeqNum /\ arq[n].pend_len \in {0, 1}
        /\ sent[n] \in Nat /\ tx[n] + 1 \in Nat
    BY NodeFacts, ArqFacts
  <2>2. f \in Frame /\ f.kind = "DATA" /\ f.msg = sent[n] BY <2>1, DataType DEF Data
  <2>3. wire' = Put(n, f) /\ sent' = sent
        /\ retries' = [retries EXCEPT ![n] = @ + 1] /\ UNCHANGED <<last, copies>>
    BY <1>2 DEF Retransmit
  <2> QED BY <2>2, <2>3, SendBudget
<1>3. ASSUME NEW n \in Node, RxAck(n) \/ RxNack(n) \/ RxRst(n) \/ RxCorrupt(n) \/ Lose(n)
      PROVE  CopiesInv'
  <2>1. wire[n] # <<>> /\ UNCHANGED <<last, copies, sent, retries>>
    BY <1>3 DEF RxAck, RxNack, RxRst, RxCorrupt, Lose, Arriving
  <2>2. PICK s \in SeqNum : \/ wire' = TakeAndPut(n, <<>>)
                            \/ wire' = TakeAndPut(n, <<Ctrl("NACK", s, 0)>>)
    <3>1. Head(wire[n]).seq \in SeqNum BY <2>1, HeadType DEF TypeOK, Frame
    <3> QED BY <1>3, <3>1, SeqNumType DEF RxAck, RxNack, RxRst, RxCorrupt, Lose
  <2>3. Ctrl("NACK", s, 0) \in Frame /\ Ctrl("NACK", s, 0).kind # "DATA" BY CtrlType DEF Ctrl
  <2> QED BY <2>1, <2>2, <2>3, TakeBudget
<1>4. ASSUME NEW n \in Node, GiveUp(n) \/ SeeAck(n) PROVE CopiesInv'
  <2>1. UNCHANGED <<wire, last, copies, sent, retries>> BY <1>4 DEF GiveUp, SeeAck
  <2> QED BY <2>1 DEF CopiesInv, Budget, NoneGiven, Given, Turns
<1>5. CASE UNCHANGED vars
  <2>1. UNCHANGED <<wire, last, copies, sent, retries>> BY <1>5 DEF vars
  <2> QED BY <2>1 DEF CopiesInv, Budget, NoneGiven, Given, Turns
<1> QED
  BY <1>1, <1>2, <1>3, <1>4, <1>5, RxDataBudget, RstBudget
  DEF Next, SeeNack, Timeout, Receive

\* No message is given to the application more often than one call of
\* xTP_ARQ_Send may transmit it: BoundedCopies holds of every behaviour.
THEOREM CopiesAreBounded == Spec => []BoundedCopies
<1>1. Init => CopiesInv
  <2> SUFFICES ASSUME Init PROVE CopiesInv OBVIOUS
  <2>1. \A n \in Node : sent[n] = 0 /\ copies[n] = 0 BY DEF Init
  <2> QED BY <2>1 DEF CopiesInv, Budget, NoneGiven
<1>2. TypeOK /\ LineInOrder /\ CopiesInv => BoundedCopies
  <2> SUFFICES ASSUME TypeOK, LineInOrder, CopiesInv, NEW n \in Node
               PROVE  copies[n] <= MaxRetries + 1
    BY DEF BoundedCopies
  <2> DEFINE q == Peer(n)
  <2>1. q \in Node /\ Peer(q) = n BY PeerFacts
  <2>2. copies[n] \in Nat /\ last[n] \in Nat /\ sent[q] \in Nat /\ MaxRetries \in Nat
        /\ retries[q] \in Nat /\ retries[q] <= MaxRetries
    BY <2>1, BudgetTypes
  <2>3. CASE last[n] = 0 BY <2>2, <2>3 DEF CopiesInv, NoneGiven
  <2>4. CASE last[n] # 0
    <3>1. last[n] <= sent[q] BY BothNodes
    <3>2. last[n] \in 1 .. sent[q] BY <2>2, <2>4, <3>1
    <3>3. Count(wire[n], last[n]) + Given(n, last[n]) <= Turns(q, last[n])
      BY <2>1, <3>2 DEF CopiesInv, Budget
    <3>4. Given(n, last[n]) = copies[n] /\ Turns(q, last[n]) <= MaxRetries + 1
          /\ Turns(q, last[n]) \in Nat
      BY <2>2 DEF Given, Turns
    <3>5. Count(wire[n], last[n]) \in Nat BY CountTypes
    <3> QED BY <2>2, <3>3, <3>4, <3>5
  <2> QED BY <2>3, <2>4
<1>3. TypeOK /\ LineInOrder /\ CopiesInv /\ [Next]_vars => CopiesInv' BY CopiesStep
<1> QED BY <1>1, <1>2, <1>3, Typing, LineStaysInOrder, PTL DEF Spec

=============================================================================
