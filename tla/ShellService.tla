--------------------------- MODULE ShellService ---------------------------
(***************************************************************************)
(* What the shell tunnel promises to the master that drives it through     *)
(* table 1: the commands it accepts end in the order of their acceptance,  *)
(* each of them once; at most two are in hand, the one that the worker has *)
(* and the one behind it; none is accepted while the status reads RUNNING; *)
(* and a command is cut short only by a stop request, each request cutting *)
(* short at most one command.                                              *)
(***************************************************************************)
EXTENDS Naturals, Sequences

VARIABLES
    todo,      \* the accepted commands that have not ended, oldest first
    newest,    \* the number of the newest accepted command
    stopping,  \* a stop request that no command has answered yet
    report     \* the status that the master reads

serviceVars == <<todo, newest, stopping, report>>

Init ==
    /\ todo = <<>>
    /\ newest = 0
    /\ stopping = FALSE
    /\ report = "IDLE"

Accept ==
    /\ report # "RUNNING"
    /\ Len(todo) < 2
    /\ newest' = newest + 1
    /\ todo' = Append(todo, newest')
    /\ UNCHANGED <<stopping, report>>

Stop ==
    /\ stopping' = TRUE
    /\ report' = "IDLE"
    /\ UNCHANGED <<todo, newest>>

\* The oldest command starts to run.
Begin ==
    /\ todo # <<>>
    /\ report' = "RUNNING"
    /\ UNCHANGED <<todo, newest, stopping>>

\* It ends by itself, and its result is announced.
Finish ==
    /\ todo # <<>>
    /\ todo' = Tail(todo)
    /\ report' = "DONE"
    /\ UNCHANGED <<newest, stopping>>

\* A stop request cuts it short, before it began or once it has run.
Kill ==
    /\ todo # <<>>
    /\ stopping
    /\ stopping' = FALSE
    /\ todo' = Tail(todo)
    /\ UNCHANGED <<newest, report>>

\* The status of a command that was cut short once it had run follows.
ReportStop ==
    /\ report' = "STOPPED"
    /\ UNCHANGED <<todo, newest, stopping>>

Next == Accept \/ Stop \/ Begin \/ Finish \/ Kill \/ ReportStop

Spec == Init /\ [][Next]_serviceVars
=============================================================================
