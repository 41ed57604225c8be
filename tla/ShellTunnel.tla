---------------------------- MODULE ShellTunnel ----------------------------
(***************************************************************************)
(* The shell tunnel of the M1 firmware (rparam/sh_handler.c).  A remote    *)
(* master SETs fields of parameter table 1; the callback of the table runs *)
(* in the CSP task and hands commands to a worker task, which runs them on *)
(* a private command line and publishes the captured output in the table,  *)
(* one page at a time.                                                     *)
(*                                                                         *)
(* The CSP task has a higher priority than the worker and the callback     *)
(* never blocks, so a callback is one step and falls between any two       *)
(* statements of the worker, whose every write to the table is a step; a   *)
(* page it copies to the table one character at a time.  A character is    *)
(* known by its command and its place in the output.  The master writes    *)
(* `ex' and `page' only.                                                   *)
(***************************************************************************)
EXTENDS Integers, Sequences

CONSTANTS
    PageSize,   \* SH_PAGE_SIZE (128 in the code)
    MaxOut,     \* SH_MAX_OUTPUT (4096 in the code)
    MaxPage,    \* bound: the master asks for pages 0 .. MaxPage
    MaxCmds     \* bound: commands accepted

ASSUME ShellAssumption ==
    /\ PageSize \in Nat \ {0, 1}
    /\ MaxOut \in Nat \ {0}
    /\ MaxPage \in Nat
    /\ MaxCmds \in Nat

VARIABLES
    table,    \* the rows of table 1
    queue,    \* g_queue: at most one command
    stopReq,  \* g_stop_req
    pc,       \* the next statement of the worker
    copied,   \* the characters that its strncpy has copied
    cmd,      \* the command that the worker received last
    buf,      \* g_out and g_out_len
    \* History, read by the properties only:
    accepted, \* commands accepted so far: they are numbered 1, 2, ...
    hit       \* a stop request came since the worker last wrote RUNNING

vars == <<table, queue, stopReq, pc, copied, cmd, buf, accepted, hit>>

----------------------------------------------------------------------------
Cmd == 0 .. MaxCmds

\* The row `out': of each character its command and its place in the output.
Char == Cmd \X (0 .. MaxOut)
NUL == <<0, 0>>
Shown == [1 .. PageSize -> Char]
Blank == [j \in 1 .. PageSize |-> NUL]

Status == {"IDLE", "RUNNING", "DONE", "STOPPED"}
Table == [status : Status, pages : 0 .. 255, outlen : 0 .. MaxOut,
          page : 0 .. MaxPage, out : Shown]

\* len characters are kept of the `wrote' that the command has written (one
\* too many stands for any number); cut: the truncation marker is at the end.
Output == [cmd : Cmd, len : 0 .. MaxOut, wrote : 0 .. MaxOut + 1,
           cut : BOOLEAN]
NoOutput(c) == [cmd |-> c, len |-> 0, wrote |-> 0, cut |-> FALSE]

\* The pages of an output: a uint8_t, one for no output at all.
CalcPages(len) ==
    LET p == (len + PageSize - 1) \div PageSize
    IN  IF len = 0 THEN 1 ELSE IF p > 255 THEN 255 ELSE p

\* Page i of g_out: the last place of its buffer is taken by the NUL.
LoadPage(i) ==
    LET offset == i * PageSize
        avail == buf.len - offset
        copy == IF avail < PageSize - 1 THEN avail ELSE PageSize - 1
    IN  [j \in 1 .. PageSize |-> IF j <= copy THEN <<buf.cmd, offset + j>> ELSE NUL]

Init ==
    /\ table = [status |-> "IDLE", pages |-> 0, outlen |-> 0, page |-> 0,
                out |-> Blank]
    /\ queue = <<>>
    /\ stopReq = FALSE
    /\ pc = "receive"
    /\ copied = 0
    /\ cmd = 0
    /\ buf = NoOutput(0)
    /\ accepted = 0
    /\ hit = FALSE

----------------------------------------------------------------------------
(* sh_table1_callback, in the CSP task.                                    *)

\* SET page = p: that page is loaded at once.
SetPage(p) ==
    /\ table' = [table EXCEPT
                   !.page = p,
                   !.out = IF p >= table.pages THEN Blank ELSE LoadPage(p)]
    /\ UNCHANGED <<queue, stopReq, pc, copied, cmd, buf, accepted, hit>>

\* SET ex = "stop".
SetStop ==
    /\ stopReq' = TRUE
    /\ table' = [table EXCEPT !.status = "IDLE", !.pages = 0, !.outlen = 0,
                              !.out = Blank]
    /\ hit' = TRUE
    /\ UNCHANGED <<queue, pc, copied, cmd, buf, accepted>>

\* Mutant: no guard against a command that runs.
SetCommandAnytime ==
    /\ accepted < MaxCmds
    /\ queue = <<>>
    /\ accepted' = accepted + 1
    /\ queue' = <<accepted'>>
    /\ UNCHANGED <<table, stopReq, pc, copied, cmd, buf, hit>>

\* SET ex = a command.  When one is running, or one is queued, the new one is
\* dropped without a trace, as is the empty string.
SetCommand ==
    /\ accepted < MaxCmds
    /\ table.status # "RUNNING"
    /\ queue = <<>>
    /\ accepted' = accepted + 1
    /\ queue' = <<accepted'>>
    /\ UNCHANGED <<table, stopReq, pc, copied, cmd, buf, hit>>

Master == (\E p \in 0 .. MaxPage : SetPage(p)) \/ SetStop \/ SetCommand

----------------------------------------------------------------------------
(* sh_worker_task and do_exec, in the worker task.                         *)

\* A statement of do_exec that writes the row `field' of the table.
Write(at, next, field, value) ==
    /\ pc = at
    /\ pc' = next
    /\ table' = [table EXCEPT ![field] = value]
    /\ UNCHANGED <<queue, stopReq, copied, cmd, buf, accepted>>

\* The next character of the strncpy that fills the row `out', up to the NUL in
\* its last place.
Copy(at, next, page) ==
    /\ pc = at
    /\ table' = [table EXCEPT !.out[copied + 1] = page[copied + 1]]
    /\ IF copied + 1 < PageSize THEN copied' = copied + 1 /\ UNCHANGED pc
       ELSE copied' = 0 /\ pc' = next
    /\ UNCHANGED <<queue, stopReq, cmd, buf, accepted>>

Receive ==
    /\ pc = "receive"
    /\ queue # <<>>
    /\ cmd' = Head(queue)
    /\ queue' = <<>>
    /\ pc' = "check"
    /\ UNCHANGED <<table, stopReq, copied, buf, accepted, hit>>

\* Mutant: the request stays up for the next command.
CheckKeepsRequest ==
    /\ pc = "check"
    /\ pc' = IF stopReq THEN "receive" ELSE "begin"
    /\ UNCHANGED <<table, queue, stopReq, copied, cmd, buf, accepted, hit>>

\* Mutant: waits for the request to be withdrawn.
CheckWaits ==
    /\ pc = "check"
    /\ ~stopReq
    /\ pc' = "begin"
    /\ UNCHANGED <<table, queue, stopReq, copied, cmd, buf, accepted, hit>>

\* A stop request that came before the command started discards it.
Check ==
    /\ pc = "check"
    /\ pc' = IF stopReq THEN "receive" ELSE "begin"
    /\ stopReq' = FALSE
    /\ UNCHANGED <<table, queue, copied, cmd, buf, accepted, hit>>

Begin ==
    /\ Write("begin", "reset", "status", "RUNNING")
    /\ hit' = FALSE

ResetOutput ==
    /\ pc = "reset"
    /\ pc' = "run"
    /\ buf' = NoOutput(cmd)
    /\ UNCHANGED <<table, queue, stopReq, copied, cmd, accepted, hit>>

\* Mutant: a full buffer is written to.
WriteCharBeyond ==
    /\ pc = "run"
    /\ buf.wrote <= MaxOut
    /\ buf' = [buf EXCEPT !.wrote = @ + 1, !.len = @ + 1]
    /\ UNCHANGED <<table, queue, stopReq, pc, copied, cmd, accepted, hit>>

\* The command writes a character (sh_writeChar); a full buffer drops it.
WriteChar ==
    /\ pc = "run"
    /\ buf.wrote <= MaxOut
    /\ buf' = [buf EXCEPT !.wrote = @ + 1,
                          !.len = IF buf.len < MaxOut THEN @ + 1 ELSE @]
    /\ UNCHANGED <<table, queue, stopReq, pc, copied, cmd, accepted, hit>>

\* The command returns: a full buffer gets the truncation marker.
Return ==
    /\ pc = "run"
    /\ pc' = "flag"
    /\ buf' = [buf EXCEPT !.cut = buf.len >= MaxOut]
    /\ UNCHANGED <<table, queue, stopReq, copied, cmd, accepted, hit>>

\* Was a stop requested while the command ran?
Flag ==
    /\ pc = "flag"
    /\ pc' = IF stopReq THEN "stopped" ELSE "pages"
    /\ stopReq' = FALSE
    /\ UNCHANGED <<table, queue, copied, cmd, buf, accepted, hit>>

\* The end of a command that was stopped.
StopRows ==
    /\ hit' = hit
    /\ \/ Write("stopped", "stopPages", "status", "STOPPED")
       \/ Write("stopPages", "stopLen", "pages", 0)
       \/ Write("stopLen", "stopOut", "outlen", 0)
       \/ Copy("stopOut", "receive", Blank)

\* Mutant: page 0 is not loaded.
PublishUnloaded ==
    /\ hit' = hit
    /\ \/ Write("pages", "outlen", "pages", CalcPages(buf.len))
       \/ Write("outlen", "page", "outlen", buf.len)
       \/ Write("page", "done", "page", 0)
       \/ Write("done", "receive", "status", "DONE")

\* The end of any other.
Publish ==
    /\ hit' = hit
    /\ \/ Write("pages", "outlen", "pages", CalcPages(buf.len))
       \/ Write("outlen", "page", "outlen", buf.len)
       \/ Write("page", "out", "page", 0)
       \/ Copy("out", "done", LoadPage(0))
       \/ Write("done", "receive", "status", "DONE")

Worker ==
    \/ Receive \/ Check \/ Begin \/ ResetOutput \/ WriteChar \/ Return
    \/ Flag \/ StopRows \/ Publish

Next == Master \/ Worker

Spec == Init /\ [][Next]_vars

\* The worker is scheduled and the commands of the shell return.
Fairness == WF_vars(Worker)
FairSpec == Spec /\ Fairness

----------------------------------------------------------------------------
(* Properties                                                              *)

Pc == {"receive", "check", "begin", "reset", "run", "flag", "stopped",
       "stopPages", "stopLen", "stopOut", "pages", "outlen", "page", "out",
       "done"}

\* The types of the variables, and the one place of the queue.
TypeOK ==
    /\ table \in Table
    /\ queue \in {<<>>} \cup {<<c>> : c \in Cmd}
    /\ stopReq \in BOOLEAN
    /\ pc \in Pc
    /\ copied \in 0 .. PageSize - 1
    /\ cmd \in Cmd
    /\ buf \in Output
    /\ accepted \in Cmd
    /\ hit \in BOOLEAN

\* Page i of an output of command c that has `outlen' characters on `pages'
\* pages: a master reads the characters of a page up to the last but one.
PageOf(c, i, pages, outlen) ==
    [j \in 1 .. PageSize |->
        IF i < pages /\ j < PageSize /\ i * PageSize + j <= outlen
        THEN <<c, i * PageSize + j>> ELSE NUL]

\* The first k characters of page i, and what follows them of page 0.
Mixed(c, i, k, pages, outlen) ==
    [j \in 1 .. PageSize |-> PageOf(c, IF j <= k THEN i ELSE 0, pages, outlen)[j]]

\* A status DONE that no stop request has raced is true of the whole table:
\* the rows describe the output buffer, which is not being rewritten, an
\* output that was clipped carries the marker, and every character of the row
\* `out' is of this output, in its place, never of an older one.  A page that is
\* selected while the worker copies page 0 leaves its first characters before
\* the rest of that one, and DONE is written over this; no other mixture is
\* ever shown (sh_handler.c:188-216 against :160-170 and :324-340).
DoneIsWhole ==
    table.status = "DONE" /\ ~hit =>
        /\ pc \in {"receive", "check", "begin"}
        /\ table.pages = CalcPages(buf.len)
        /\ table.outlen = buf.len
        /\ buf.wrote > MaxOut => buf.cut
        /\ \E i \in 0 .. MaxPage, k \in 0 .. PageSize :
              table.out = Mixed(buf.cmd, i, k, table.pages, table.outlen)

\* A buffer that the worker rewrites is never announced: while a command
\* runs, the status reads RUNNING, or IDLE when a stop came
\* (sh_handler.c:170, :349).
BusyIsShown ==
    pc \in {"reset", "run", "flag", "pages", "outlen", "page", "out", "done"} =>
        table.status = IF hit THEN "IDLE" ELSE "RUNNING"

\* The commands end in order, once each, and only stop requests kill them.
Busy == pc \notin {"receive", "stopped", "stopPages", "stopLen", "stopOut"}
Service == INSTANCE ShellService WITH
    todo <- (IF Busy THEN <<cmd>> ELSE <<>>) \o queue,
    newest <- accepted, stopping <- stopReq, report <- table.status
RefinesService == Service!Spec

\* Every command that was accepted ends, and its place becomes free
\* (sh_handler.c:224-242).
InHand(c) == queue = <<c>> \/ (Busy /\ cmd = c)
AcceptedEnds ==
    \A c \in 1 .. MaxCmds : InHand(c) ~> ~InHand(c)
=============================================================================
