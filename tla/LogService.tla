---------------------------- MODULE LogService ----------------------------
(***************************************************************************)
(* What the kernel-style log of M1_SysApp/dmesg promises when its calls do *)
(* not overlap: a queue of whole messages that fits in the buffer, from    *)
(* which only the oldest go, one at a time or all at once.                 *)
(***************************************************************************)
EXTENDS Naturals, Sequences

CONSTANTS
    Entry,      \* the messages
    Cost(_),    \* the bytes that a message takes
    Capacity    \* the bytes that the log can hold

VARIABLE log    \* the messages, oldest first

\* The bytes of the first k messages, and of all.
Sum[k \in 0 .. Len(log)] == IF k = 0 THEN 0 ELSE Sum[k - 1] + Cost(log[k])
Total == Sum[Len(log)]

Init == log = <<>>

Append1 ==
    /\ \E e \in Entry : log' = Append(log, e)
    /\ Total' <= Capacity

DropOldest == log # <<>> /\ log' = Tail(log)

Reset == log' = <<>>

Next == Append1 \/ DropOldest \/ Reset

Spec == Init /\ [][Next]_log
=============================================================================
