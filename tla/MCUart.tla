------------------------------- MODULE MCUart -------------------------------
(* Instances of Uart for TLC.                                              *)
EXTENDS Uart

CONSTANTS w1, w2

Choice(one, two, rx) ==
    [w \in Writer \cup {"rx"} |-> CASE w = w1 -> one [] w = w2 -> two [] w = "rx" -> rx]

\* One writer with several bytes, two that compete, or more bytes received
\* than the ring holds.
OneOrTwo == {Choice(3, 0, 1), Choice(1, 1, 1), Choice(1, 0, 3)}
=============================================================================
