------------------------------ MODULE DlsExp ------------------------------
(***************************************************************************)
(* The light-scattering experiment of the M0 application                   *)
(* (App_dls_exp/app_dls_exp.c).  A timer interrupt takes a run through its *)
(* phases; two interrupts sample the photo and the laser converter into    *)
(* buffers; a task writes full buffers to the PSRAM and gives them back.   *)
(*                                                                         *)
(* The interrupts preempt the tasks.  The laser interrupt (priority 4 in   *)
(* plib_nvic.c) also preempts the other two (5), which do not preempt each *)
(* other; it shares with them only its buffer, which the phase timer       *)
(* touches once it has cleared sampling_enable, so each is one step.  The  *)
(* PSRAM task preempts the experiment task and is blocked only while it    *)
(* polls an empty queue: bsp_psram_write waits busily.  Samples are        *)
(* abstracted: a block is what a buffer holds when it is sent, and the     *)
(* blocks of a run are numbered.  Of the hardware set-up in exp_setup only *)
(* the laser switch is kept, and the log stream of the PSRAM task is an    *)
(* empty queue.                                                            *)
(***************************************************************************)
EXTENDS Integers, Sequences

CONSTANTS
    Stream,     \* the sampled streams: "photo", "laser" or both
    BufCount,   \* BUF_COUNT (16 in the code)
    BufSize,    \* BUF_SIZE (512 in the code)
    PreTime, MainTime, PostTime,   \* the profile, in ticks of 10 ms
    PsramRuns,  \* whether APP_PSRAMTask is started (app_root.c:77: it is not)
    MaxRuns,    \* bound: RUN commands
    MaxBlocks   \* bound: blocks that a run fills

ASSUME DlsAssumption ==
    /\ Stream \subseteq {"photo", "laser"}
    /\ BufCount \in Nat \ {0}
    /\ BufSize \in Nat \ {0}
    /\ PreTime \in Nat /\ MainTime \in Nat /\ PostTime \in Nat
    /\ PsramRuns \in BOOLEAN
    /\ MaxRuns \in Nat
    /\ MaxBlocks \in Nat

VARIABLES
    cur, idx,   \* the current buffer of a stream, the place of the next sample
    free, full, \* the two queues of a stream
    hold,       \* the buffer that the PSRAM task has, as <<stream, buffer>>
    turn,       \* the queue that it polls next
    addr,       \* psram_addr of a stream, in blocks from its base
    mem,        \* the blocks in the region of a stream
    sub, counter,                  \* exp_rt: the phase and its ticks
    timer, sampling, laser,        \* TC3_CH1 runs, sampling_enable, the laser
    step,       \* the next step of the experiment task
    commands,   \* the RUN commands in experiment_command_queue
    \* History, read by the properties only:
    asked,      \* RUN commands sent so far
    run,        \* runs begun so far
    filled,     \* blocks filled in this run
    block,      \* the block in a buffer
    calm,       \* this run began after the last had ended and was stored
    overrun,    \* a block of this run was overwritten: no buffer was free
    starved,    \* a flush has found no free buffer, in this run or another
    announced   \* FULL_DLS_DATA notifications sent so far

buffers == <<cur, idx, free, full>>
store == <<hold, turn, addr, mem>>
phase == <<sub, counter, timer, sampling, laser>>
task == <<step, commands, asked>>
history == <<run, filled, block, calm, overrun, starved, announced>>
vars == <<buffers, store, phase, task, history>>

----------------------------------------------------------------------------
Buffer == 1 .. BufCount
NULL == 0
Block == [run : 0 .. MaxRuns, num : 0 .. MaxBlocks + 1]

\* xQueueSend and its ISR form with no waiting, on a queue of BUF_COUNT.
Send(q, b) == IF Len(q) < BufCount THEN Append(q, b) ELSE q

\* experiment_init: buffer 1 is current, the others are free.
Init ==
    /\ cur = [s \in Stream |-> 1]
    /\ idx = [s \in Stream |-> 0]
    /\ free = [s \in Stream |-> [i \in 1 .. BufCount - 1 |-> i + 1]]
    /\ full = [s \in Stream |-> <<>>]
    /\ hold = <<>>
    /\ turn = "photo"
    /\ addr = [s \in Stream |-> 0]
    /\ mem = [s \in Stream |-> <<>>]
    /\ sub = "PRE"
    /\ counter = 0
    /\ timer = FALSE
    /\ sampling = FALSE
    /\ laser = FALSE
    /\ step = "wait"
    /\ commands = 0
    /\ asked = 0
    /\ run = 0
    /\ filled = [s \in Stream |-> 0]
    /\ block = [s \in Stream |-> [b \in Buffer \cup {NULL} |->
                                    [run |-> 0, num |-> 0]]]
    /\ calm = TRUE
    /\ overrun = [s \in Stream |-> FALSE]
    /\ starved = [s \in Stream |-> FALSE]
    /\ announced = 0

----------------------------------------------------------------------------
(* App_EXPTask, exp_setup and exp_start.                                   *)

\* `dls_start' on the command line.
Command ==
    /\ asked < MaxRuns
    /\ commands < 5
    /\ asked' = asked + 1
    /\ commands' = commands + 1
    /\ UNCHANGED <<buffers, store, phase, step, history>>

PsramBlocked ==
    PsramRuns => hold = <<>> /\ (turn \in Stream => full[turn] = <<>>)

ExpStep(from, to) ==
    /\ step = from
    /\ PsramBlocked
    /\ step' = to
    /\ UNCHANGED asked

\* A RUN command is taken, whether or not a run is under way.
TakeCommand ==
    /\ ExpStep("wait", "setup")
    /\ commands > 0
    /\ commands' = commands - 1
    /\ UNCHANGED <<buffers, store, phase, history>>

\* Mutant: the addresses of the run before are kept.
KeepAddresses ==
    /\ ExpStep("setup", "times")
    /\ run' = run + 1
    /\ filled' = [s \in Stream |-> 0]
    /\ overrun' = [s \in Stream |-> FALSE]
    /\ calm' = (~timer /\ ~sampling /\ \A s \in Stream : full[s] = <<>>)
    /\ UNCHANGED <<buffers, store, phase, commands, block, starved, announced>>

ResetAddresses ==
    /\ ExpStep("setup", "times")
    /\ addr' = [s \in Stream |-> 0]
    /\ run' = run + 1
    /\ filled' = [s \in Stream |-> 0]
    /\ overrun' = [s \in Stream |-> FALSE]
    /\ calm' = (~timer /\ ~sampling /\ \A s \in Stream : full[s] = <<>>)
    /\ UNCHANGED <<buffers, hold, turn, mem, phase, commands, block, starved,
                   announced>>

\* The fields of exp_rt.
ResetTimes ==
    /\ ExpStep("times", "switches")
    /\ counter' = 0
    /\ sub' = "PRE"
    /\ UNCHANGED <<buffers, store, timer, sampling, laser, commands, history>>

AllOff ==
    /\ ExpStep("switches", "indices")
    /\ laser' = FALSE
    /\ UNCHANGED <<buffers, store, sub, counter, timer, sampling, commands,
                   history>>

ResetIndices ==
    /\ ExpStep("indices", "start")
    /\ idx' = [s \in Stream |-> 0]
    /\ UNCHANGED <<cur, free, full, store, phase, commands, history>>

Start ==
    /\ ExpStep("start", "wait")
    /\ sampling' = TRUE
    /\ timer' = TRUE
    /\ UNCHANGED <<buffers, store, sub, counter, laser, commands, history>>

Experiment ==
    TakeCommand \/ ResetAddresses \/ ResetTimes \/ AllOff \/ ResetIndices
        \/ Start

----------------------------------------------------------------------------
(* The interrupts.                                                         *)

\* The block of the buffer that is full, or is flushed.
Filled(s) == [block EXCEPT ![s][cur[s]] = [run |-> run, num |-> filled[s] + 1]]

\* Mutant: the full buffer is sent before a free one is known.
SampleSendFirst(s) ==
    /\ sampling
    /\ filled[s] < MaxBlocks
    /\ IF idx[s] + 1 < BufSize
       THEN /\ idx' = [idx EXCEPT ![s] = @ + 1]
            /\ UNCHANGED <<cur, free, full, filled, block, overrun>>
       ELSE /\ idx' = [idx EXCEPT ![s] = 0]
            /\ filled' = [filled EXCEPT ![s] = @ + 1]
            /\ block' = Filled(s)
            /\ full' = [full EXCEPT ![s] = Send(@, cur[s])]
            /\ IF free[s] # <<>>
               THEN /\ cur' = [cur EXCEPT ![s] = Head(free[s])]
                    /\ free' = [free EXCEPT ![s] = Tail(@)]
                    /\ UNCHANGED overrun
               ELSE /\ overrun' = [overrun EXCEPT ![s] = TRUE]
                    /\ UNCHANGED <<cur, free>>
    /\ UNCHANGED <<store, phase, task, run, calm, starved, announced>>

\* Mutant: the buffer is full one sample later.
SampleBeyond(s) ==
    /\ sampling
    /\ filled[s] < MaxBlocks
    /\ free[s] # <<>>
    /\ IF idx[s] + 1 <= BufSize
       THEN /\ idx' = [idx EXCEPT ![s] = @ + 1]
            /\ UNCHANGED <<cur, free, full, filled, block, overrun>>
       ELSE /\ idx' = [idx EXCEPT ![s] = 0]
            /\ filled' = [filled EXCEPT ![s] = @ + 1]
            /\ block' = Filled(s)
            /\ cur' = [cur EXCEPT ![s] = Head(free[s])]
            /\ free' = [free EXCEPT ![s] = Tail(@)]
            /\ full' = [full EXCEPT ![s] = Send(@, cur[s])]
            /\ UNCHANGED overrun
    /\ UNCHANGED <<store, phase, task, run, calm, starved, announced>>

\* A sample (SPI0_Handler for the photo stream, TC3_CH2_My_Handler for the
\* laser).  A full buffer is exchanged for a free one; without one, it is
\* filled again from its start.  Once cur is NULL the sample is written
\* through it: the processor faults, and nothing else happens, or the write
\* goes astray and NULL travels through the queues like a buffer.
Sample(s) ==
    /\ sampling
    /\ filled[s] < MaxBlocks
    /\ IF idx[s] + 1 < BufSize
       THEN /\ idx' = [idx EXCEPT ![s] = @ + 1]
            /\ UNCHANGED <<cur, free, full, filled, block, overrun>>
       ELSE /\ idx' = [idx EXCEPT ![s] = 0]
            /\ filled' = [filled EXCEPT ![s] = @ + 1]
            /\ block' = Filled(s)
            /\ \/ /\ free[s] # <<>>
                  /\ Len(full[s]) < BufCount
                  /\ cur' = [cur EXCEPT ![s] = Head(free[s])]
                  /\ free' = [free EXCEPT ![s] = Tail(@)]
                  /\ full' = [full EXCEPT ![s] = Send(@, cur[s])]
                  /\ UNCHANGED overrun
               \/ /\ free[s] = <<>> \/ Len(full[s]) = BufCount
                  /\ free' = [free EXCEPT ![s] =
                                IF @ = <<>> THEN @ ELSE Tail(@)]
                  /\ overrun' = [overrun EXCEPT ![s] = TRUE]
                  /\ UNCHANGED <<cur, full>>
    /\ UNCHANGED <<store, phase, task, run, calm, starved, announced>>

\* adc_flush_last_buffer: a buffer that holds samples is sent as it is.
Flush ==
    LET part == {s \in Stream : idx[s] > 0 /\ Len(full[s]) < BufCount}
        dry == {s \in part : free[s] = <<>>}
    IN  /\ full' = [s \in Stream |-> IF s \in part THEN Send(full[s], cur[s])
                                     ELSE full[s]]
        /\ cur' = [s \in Stream |-> IF s \in dry THEN NULL
                                    ELSE IF s \in part THEN Head(free[s])
                                    ELSE cur[s]]
        /\ free' = [s \in Stream |-> IF s \in part \ dry THEN Tail(free[s])
                                     ELSE free[s]]
        /\ idx' = [s \in Stream |-> IF s \in part THEN 0 ELSE idx[s]]
        /\ block' = [s \in Stream |-> IF s \in part THEN Filled(s)[s]
                                      ELSE block[s]]
        /\ filled' = [s \in Stream |-> IF s \in part THEN filled[s] + 1
                                       ELSE filled[s]]
        /\ starved' = [s \in Stream |-> starved[s] \/ s \in dry]

\* A tick of TC3_CH1 in a phase that lasts `time' ticks.
Ticking(in, time) ==
    /\ timer
    /\ sub = in
    /\ IF counter + 1 >= time THEN counter' = 0 ELSE counter' = counter + 1

Elapsed(time) == counter + 1 >= time

TickPre ==
    /\ Ticking("PRE", PreTime)
    /\ sub' = IF Elapsed(PreTime) THEN "MAIN" ELSE sub
    /\ laser' = (laser \/ Elapsed(PreTime))
    /\ UNCHANGED <<buffers, store, timer, sampling, task, history>>

\* Mutant: the laser stays on.
TickMainLit ==
    /\ Ticking("MAIN", MainTime)
    /\ sub' = IF Elapsed(MainTime) THEN "POST" ELSE sub
    /\ UNCHANGED <<buffers, store, timer, sampling, laser, task, history>>

TickMain ==
    /\ Ticking("MAIN", MainTime)
    /\ sub' = IF Elapsed(MainTime) THEN "POST" ELSE sub
    /\ laser' = (laser /\ ~Elapsed(MainTime))
    /\ UNCHANGED <<buffers, store, timer, sampling, task, history>>

\* Mutant: a phase of no ticks at all never ends.
TickPostExact ==
    /\ timer
    /\ sub = "POST"
    /\ counter' = (counter + 1) % (PostTime + 3)
    /\ IF counter + 1 = PostTime
       THEN sub' = "DONE" /\ sampling' = FALSE /\ Flush
       ELSE UNCHANGED <<sub, sampling, buffers, block, filled, starved>>
    /\ UNCHANGED <<store, timer, laser, task, run, calm, overrun, announced>>

TickPost ==
    /\ Ticking("POST", PostTime)
    /\ IF Elapsed(PostTime)
       THEN sub' = "DONE" /\ sampling' = FALSE /\ Flush
       ELSE UNCHANGED <<sub, sampling, buffers, block, filled, starved>>
    /\ UNCHANGED <<store, timer, laser, task, run, calm, overrun, announced>>

\* The end of the run is announced and the timer stops.
TickDone ==
    /\ timer
    /\ sub = "DONE"
    /\ timer' = FALSE
    /\ counter' = counter + 1
    /\ announced' = announced + 1
    /\ UNCHANGED <<buffers, store, sub, sampling, laser, task, run, filled,
                   block, calm, overrun, starved>>

Tick == TickPre \/ TickMain \/ TickPost \/ TickDone

----------------------------------------------------------------------------
(* APP_PSRAMTask.                                                          *)

NextTurn == [photo |-> "laser", laser |-> "log", log |-> "photo"]

\* Nothing came within 5 ms (nothing ever comes in the log queue here).
PollTimeout ==
    /\ PsramRuns
    /\ hold = <<>>
    /\ turn \in Stream => full[turn] = <<>>
    /\ turn' = NextTurn[turn]
    /\ UNCHANGED <<buffers, hold, addr, mem, phase, task, history>>

Poll ==
    /\ PsramRuns
    /\ hold = <<>>
    /\ turn \in Stream
    /\ full[turn] # <<>>
    /\ hold' = <<turn, Head(full[turn])>>
    /\ full' = [full EXCEPT ![turn] = Tail(@)]
    /\ UNCHANGED <<cur, idx, free, turn, addr, mem, phase, task, history>>

\* m with x at index i (counted from 0) of the region.
WriteAt(m, i, x) ==
    [k \in 1 .. (IF Len(m) > i THEN Len(m) ELSE i + 1) |->
        IF k = i + 1 THEN x ELSE m[k]]

Store ==
    /\ hold # <<>>
    /\ LET s == hold[1] IN
        /\ mem' = [mem EXCEPT ![s] = WriteAt(@, addr[s], block[s][hold[2]])]
        /\ addr' = [addr EXCEPT ![s] = @ + 1]
        /\ free' = [free EXCEPT ![s] = Send(@, hold[2])]
    /\ hold' = <<>>
    /\ turn' = NextTurn[turn]
    /\ UNCHANGED <<cur, idx, full, phase, task, history>>

Psram == PollTimeout \/ Poll \/ Store

Next == Command \/ Experiment \/ (\E s \in Stream : Sample(s)) \/ Tick \/ Psram

Spec == Init /\ [][Next]_vars

\* The timer ticks, and the experiment task is scheduled.  Nothing is assumed
\* of the PSRAM task, which the application does not start (app_root.c:77).
Fairness == WF_vars(Tick) /\ WF_vars(Experiment)
FairSpec == Spec /\ Fairness

----------------------------------------------------------------------------
(* Properties                                                              *)

\* The types of the variables; a sample is never written beyond a buffer.
TypeOK ==
    /\ cur \in [Stream -> Buffer \cup {NULL}]
    /\ idx \in [Stream -> 0 .. BufSize - 1]
    /\ \A s \in Stream : free[s] \in Seq(Buffer \cup {NULL})
    /\ \A s \in Stream : full[s] \in Seq(Buffer \cup {NULL})
    /\ hold = <<>> \/ hold \in Stream \X (Buffer \cup {NULL})
    /\ turn \in {"photo", "laser", "log"}
    /\ addr \in [Stream -> Nat]
    /\ \A s \in Stream : mem[s] \in Seq(Block)
    /\ sub \in {"PRE", "MAIN", "POST", "DONE"}
    /\ counter \in Nat
    /\ timer \in BOOLEAN /\ sampling \in BOOLEAN /\ laser \in BOOLEAN
    /\ step \in {"wait", "setup", "times", "switches", "indices", "start"}
    /\ commands \in 0 .. 5
    /\ asked \in 0 .. MaxRuns
    /\ run \in 0 .. MaxRuns
    /\ filled \in [Stream -> 0 .. MaxBlocks + 1]
    /\ block \in [Stream -> [Buffer \cup {NULL} -> Block]]
    /\ calm \in BOOLEAN
    /\ overrun \in [Stream -> BOOLEAN] /\ starved \in [Stream -> BOOLEAN]
    /\ announced \in Nat

Held(s) == IF hold # <<>> /\ hold[1] = s THEN <<hold[2]>> ELSE <<>>
Places(s) == free[s] \o full[s] \o Held(s) \o <<cur[s]>>

\* No buffer is in two places, where an interrupt would fill it while the
\* PSRAM task writes it, and none is lost, unless a flush has found no free
\* buffer (app_dls_exp.c:218-231, :297-308, :340-368, :370-394).
BuffersConserved ==
    \A s \in Stream :
        /\ \A i, j \in DOMAIN Places(s) :
              Places(s)[i] = Places(s)[j] /\ Places(s)[i] # NULL => i = j
        /\ ~starved[s] =>
              \A b \in Buffer : \E i \in DOMAIN Places(s) : Places(s)[i] = b

\* What of the run is stored, or waits to be.
Kept(s) ==
    SubSeq(mem[s], 1, addr[s])
        \o [i \in DOMAIN (Held(s) \o full[s]) |->
              block[s][(Held(s) \o full[s])[i]]]

\* The region of a stream holds this run from its base on, in the order in
\* which it was sampled, and all of it when no buffer was overwritten
\* (app_dls_exp.c:151-152, :346-357).
RunIsKept ==
    \A s \in Stream : calm /\ ~starved[s] =>
        /\ \A i \in DOMAIN Kept(s) : Kept(s)[i].run = run
        /\ \A i, j \in DOMAIN Kept(s) : i < j => Kept(s)[i].num < Kept(s)[j].num
        /\ ~overrun[s] => Len(Kept(s)) = filled[s]

\* The phases rule a run (app_dls_exp.c:240-270, :164-197).  The laser is off
\* once the main phase has ended, also when a RUN command restarts a run under
\* way.  In a run that is not restarted it is on in the main phase and in no
\* other, and nothing is sampled without the timer that ends it (a restart
\* whose last ticks come within exp_setup leaves sampling on behind a stopped
\* timer).  No run is announced twice.
PhasesRule ==
    /\ sub \in {"POST", "DONE"} => ~laser
    /\ calm /\ step = "wait" => (laser <=> sub = "MAIN")
    /\ calm /\ sampling => timer /\ sub # "DONE"
    /\ announced <= run

\* A run that is not restarted ends and is announced (app_dls_exp.c:235-275).
RunEnds ==
    (calm /\ sampling) ~> (~calm \/ (sub = "DONE" /\ ~timer /\ ~sampling))
=============================================================================
