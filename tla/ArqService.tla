---------------------------- MODULE ArqService ----------------------------
(***************************************************************************)
(* What the xTP ARQ link promises to the two programs that use it, with no *)
(* frame, flag, timer or retry in it.  Each node hands messages 1, 2, ...  *)
(* to the link one at a time.                                              *)
(*                                                                         *)
(*   - The peer's application is given the messages in the order they were *)
(*     handed in: it may miss some and see some again, but after message m *)
(*     it never sees a message older than m.                               *)
(*   - A call answers OK only against a receipt, the acceptance of one     *)
(*     frame by the peer, that no earlier OK of the same node has used.    *)
(*     The contract does not say that the frame carried the message of the *)
(*     call: xtp_arq.c does not promise that (see OkMeansDelivered).       *)
(***************************************************************************)
EXTENDS Integers

Node == {0, 1}
Peer(n) == 1 - n

CallState == {"idle", "wait", "OK", "ERR"}

VARIABLES
    call,   \* "wait" during a call, else what the last call returned
    sent,   \* the number of messages handed to the link
    last,   \* last[n]: the newest message n's application was given
    seen,   \* seen[n]: the number of the last frame that n accepted
    used    \* used[n]: the frame whose acceptance justified n's last OK

vars == <<call, sent, last, seen, used>>

Init ==
    /\ call = [n \in Node |-> "idle"]
    /\ sent = [n \in Node |-> 0]
    /\ last = [n \in Node |-> 0]
    /\ seen = [n \in Node |-> 0]
    /\ used = [n \in Node |-> 0]

Submit(n) ==
    /\ call[n] # "wait"
    /\ call' = [call EXCEPT ![n] = "wait"]
    /\ sent' = [sent EXCEPT ![n] = @ + 1]
    /\ UNCHANGED <<last, seen, used>>

\* Frames that carry no message (a plain send) are accepted as well: they
\* raise seen and leave last where it is.
Accept(n) ==
    /\ seen'[n] > seen[n]
    /\ seen' = [seen EXCEPT ![n] = seen'[n]]
    /\ last'[n] \in last[n] .. sent[Peer(n)]
    /\ last' = [last EXCEPT ![n] = last'[n]]
    /\ UNCHANGED <<call, sent, used>>

ReturnOK(n) ==
    /\ call[n] = "wait"
    /\ call' = [call EXCEPT ![n] = "OK"]
    /\ used'[n] \in used[n] + 1 .. seen[Peer(n)]
    /\ used' = [used EXCEPT ![n] = used'[n]]
    /\ UNCHANGED <<sent, last, seen>>

ReturnERR(n) ==
    /\ call[n] = "wait"
    /\ call' = [call EXCEPT ![n] = "ERR"]
    /\ UNCHANGED <<sent, last, seen, used>>

Next == \E n \in Node : Submit(n) \/ Accept(n) \/ ReturnOK(n) \/ ReturnERR(n)

Spec == Init /\ [][Next]_vars
=============================================================================
