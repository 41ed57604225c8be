--------------------------- MODULE DlsExp_proofs ---------------------------
(***************************************************************************)
(* Proofs about DlsExp: its types, that the phases rule a run, that no     *)
(* buffer is shared or lost, and that the stored region is the run, for    *)
(* any number of buffers, samples, ticks, runs and blocks.                 *)
(***************************************************************************)
EXTENDS DlsExp, SequenceTheorems, TLAPS

----------------------------------------------------------------------------
(* The phases                                                              *)

SettingUp == {"times", "switches", "indices", "start"}

\* Nothing ticks or samples while exp_setup prepares a run that is calm.
QuietSetup ==
    /\ calm /\ step \in SettingUp => ~timer /\ ~sampling
    /\ calm /\ step \in {"switches", "indices", "start"} => sub = "PRE"
    /\ calm /\ step \in {"indices", "start"} => ~laser
    /\ calm /\ step = "setup" => (laser <=> sub = "MAIN")

\* A run is announced once: while its timer runs or it is set up, it is owed.
Owed == (IF timer THEN 1 ELSE 0) + (IF step \in SettingUp THEN 1 ELSE 0)
OwedOnce == announced + Owed <= run

PhaseTypes ==
    /\ sub \in {"PRE", "MAIN", "POST", "DONE"}
    /\ timer \in BOOLEAN /\ sampling \in BOOLEAN /\ laser \in BOOLEAN
    /\ calm \in BOOLEAN
    /\ step \in {"wait", "setup"} \cup SettingUp
    /\ announced \in Nat /\ run \in Nat

PhaseInv == PhaseTypes /\ PhasesRule /\ QuietSetup /\ OwedOnce

LEMMA InitPhases == Init => PhaseInv
<1> SUFFICES ASSUME Init PROVE PhaseInv OBVIOUS
<1>1. /\ sub = "PRE" /\ ~timer /\ ~sampling /\ ~laser /\ calm /\ step = "wait"
      /\ timer \in BOOLEAN /\ sampling \in BOOLEAN /\ laser \in BOOLEAN
      /\ calm \in BOOLEAN /\ announced = 0 /\ run = 0
  BY DEF Init
<1> QED BY <1>1 DEF PhaseInv, PhaseTypes, PhasesRule, QuietSetup, OwedOnce, Owed, SettingUp

LEMMA StepPhases == PhaseInv /\ [Next]_vars => PhaseInv'
<1> SUFFICES ASSUME PhaseInv, [Next]_vars PROVE PhaseInv'
  OBVIOUS
<1> USE DEF PhaseInv, PhaseTypes, PhasesRule, QuietSetup, OwedOnce, Owed, SettingUp,
            buffers, store, phase, history, task
<1>1. CASE Command BY <1>1 DEF Command
<1>2. CASE TakeCommand BY <1>2 DEF TakeCommand, ExpStep
<1>3. CASE ResetAddresses
  <2>1. /\ step = "setup" /\ step' = "times" /\ run' = run + 1
        /\ UNCHANGED <<sub, timer, sampling, laser, announced>>
    BY <1>3 DEF ResetAddresses, ExpStep
  <2>2. calm' \in BOOLEAN /\ (calm' => ~timer /\ ~sampling)
    BY <1>3 DEF ResetAddresses
  <2> QED BY <2>1, <2>2
<1>4. CASE ResetTimes BY <1>4 DEF ResetTimes, ExpStep
<1>5. CASE AllOff BY <1>5 DEF AllOff, ExpStep
<1>6. CASE ResetIndices BY <1>6 DEF ResetIndices, ExpStep
<1>7. CASE Start BY <1>7 DEF Start, ExpStep
<1>8. ASSUME NEW s \in Stream, Sample(s) PROVE PhaseInv'
  BY <1>8 DEF Sample
<1>9. CASE TickPre BY <1>9 DEF TickPre, Ticking
<1>10. CASE TickMain BY <1>10 DEF TickMain, Ticking
<1>11. CASE TickPost BY <1>11 DEF TickPost, Ticking
<1>12. CASE TickDone
  <2>1. /\ timer /\ ~timer' /\ timer' \in BOOLEAN /\ sub = "DONE" /\ announced' = announced + 1
        /\ UNCHANGED <<sub, sampling, laser, calm, step, run>>
    BY <1>12 DEF TickDone
  <2> QED BY <2>1
<1>13. CASE Psram
  BY <1>13 DEF Psram, PollTimeout, Poll, Store
<1>14. CASE UNCHANGED vars BY <1>14 DEF vars
<1> QED
  BY <1>1, <1>2, <1>3, <1>4, <1>5, <1>6, <1>7, <1>8, <1>9, <1>10, <1>11, <1>12, <1>13, <1>14
  DEF Next, Experiment, Tick

\* The phases rule every run: PhasesRule holds of every behaviour.
THEOREM PhasesRuleEveryRun == Spec => []PhasesRule
<1>1. PhaseInv => PhasesRule BY DEF PhaseInv
<1> QED BY InitPhases, StepPhases, <1>1, PTL DEF Spec
----------------------------------------------------------------------------
(* Types                                                                   *)

Slots == Buffer \cup {NULL}
Steps == {"wait", "setup", "times", "switches", "indices", "start"}

\* A partly filled buffer leaves room for the block that it becomes; the stored
\* region reaches to the address; a RUN command is waiting, taken or begun.
RoomForPart == \A s \in Stream : idx[s] > 0 => filled[s] < MaxBlocks
RegionReached == \A s \in Stream : addr[s] <= Len(mem[s])
CommandsCount == asked = commands + run + (IF step = "setup" THEN 1 ELSE 0)

\* The queues and regions are functions of the streams.
Shapes ==
    /\ free = [t \in Stream |-> free[t]] /\ full = [t \in Stream |-> full[t]]
    /\ mem = [t \in Stream |-> mem[t]]

TypeInv == TypeOK /\ RoomForPart /\ RegionReached /\ CommandsCount /\ Shapes

\* What the exchange of buffers may do to the types of its queues.
LEMMA SendTyped ==
    \A q \in Seq(Slots), b \in Slots : Send(q, b) \in Seq(Slots)
BY DEF Send

LEMMA BlockTyped ==
    ASSUME run \in 0 .. MaxRuns, NEW n \in Int, n >= 0, n <= MaxBlocks
    PROVE  [run |-> run, num |-> n + 1] \in Block
BY DlsAssumption DEF Block

\* Writing at an index within a region or just behind it.
Written(k, m, i, x) ==
    /\ k \in Seq(Block)
    /\ Len(k) = (IF Len(m) > i THEN Len(m) ELSE i + 1)
    /\ \A j \in 1 .. Len(k) : k[j] = IF j = i + 1 THEN x ELSE m[j]

LEMMA WriteAtTyped ==
    ASSUME NEW m \in Seq(Block), NEW i \in Nat, i <= Len(m), NEW x \in Block
    PROVE  Written(WriteAt(m, i, x), m, i, x)
<1> DEFINE n == IF Len(m) > i THEN Len(m) ELSE i + 1
<1>1. n \in Nat /\ Len(m) \in Nat OBVIOUS
<1>2. \A k \in 1 .. n : k = i + 1 \/ k \in 1 .. Len(m) BY <1>1
<1>3. \A k \in 1 .. n : (IF k = i + 1 THEN x ELSE m[k]) \in Block BY <1>2
<1>4. WriteAt(m, i, x) = [k \in 1 .. n |-> IF k = i + 1 THEN x ELSE m[k]] BY DEF WriteAt
<1>5. WriteAt(m, i, x) \in [1 .. n -> Block] BY <1>3, <1>4
<1>6. WriteAt(m, i, x) \in Seq(Block) /\ Len(WriteAt(m, i, x)) = n BY <1>1, <1>5
<1> QED BY <1>4, <1>6 DEF Written

LEMMA InitTypes == Init => TypeInv
<1> SUFFICES ASSUME Init PROVE TypeInv OBVIOUS
<1>1. BufCount \in Nat \ {0} /\ BufSize \in Nat \ {0} /\ MaxRuns \in Nat /\ MaxBlocks \in Nat
  BY DlsAssumption
<1>a. \A s \in Stream : /\ mem[s] = <<>> /\ full[s] = <<>> /\ addr[s] = 0
                        /\ free[s] = [i \in 1 .. BufCount - 1 |-> i + 1]
  BY Zenon DEF Init
<1>b. <<>> \in Seq(Slots) /\ <<>> \in Seq(Block) /\ Len(<<>>) = 0 OBVIOUS
<1>2. [i \in 1 .. BufCount - 1 |-> i + 1] \in Seq(Slots)
  <2>1. [i \in 1 .. BufCount - 1 |-> i + 1] \in [1 .. BufCount - 1 -> Slots]
    BY <1>1, DlsAssumption DEF Slots, Buffer
  <2>2. BufCount - 1 \in Nat BY <1>1
  <2> QED BY <2>1, <2>2
<1>3. [run |-> 0, num |-> 0] \in Block BY <1>1 DEF Block
<1>4. cur \in [Stream -> Slots] /\ idx \in [Stream -> 0 .. BufSize - 1]
  BY <1>1 DEF Init, Slots, Buffer
<1>5. \A s \in Stream : free[s] \in Seq(Slots) /\ full[s] \in Seq(Slots)
  BY <1>2, <1>a, <1>b
<1>6. \A s \in Stream : mem[s] \in Seq(Block) BY <1>a, <1>b
<1>7. block \in [Stream -> [Slots -> Block]] BY <1>3 DEF Init, Slots
<1>8. filled \in [Stream -> 0 .. MaxBlocks + 1] BY <1>1 DEF Init
<1>9. addr \in [Stream -> Nat] /\ overrun \in [Stream -> BOOLEAN]
      /\ starved \in [Stream -> BOOLEAN]
  BY DEF Init
<1>c. /\ hold = <<>> /\ turn = "photo" /\ sub = "PRE" /\ counter = 0 /\ timer = FALSE
      /\ sampling = FALSE /\ laser = FALSE /\ step = "wait" /\ commands = 0 /\ asked = 0
      /\ run = 0 /\ calm = TRUE /\ announced = 0
  BY DEF Init
<1>10. TypeOK
  <2>1. hold = <<>> \/ hold \in Stream \X (Buffer \cup {NULL}) BY <1>c
  <2>2. commands \in 0 .. 5 /\ asked \in 0 .. MaxRuns /\ run \in 0 .. MaxRuns
        /\ counter \in Nat /\ announced \in Nat
    BY <1>1, <1>c
  <2>3. /\ turn \in {"photo", "laser", "log"} /\ sub \in {"PRE", "MAIN", "POST", "DONE"}
        /\ step \in {"wait", "setup", "times", "switches", "indices", "start"}
        /\ timer \in BOOLEAN /\ sampling \in BOOLEAN /\ laser \in BOOLEAN /\ calm \in BOOLEAN
    BY <1>c
  <2> QED BY Zenon, <1>4, <1>5, <1>6, <1>7, <1>8, <1>9, <2>1, <2>2, <2>3 DEF TypeOK, Slots
<1>11. RoomForPart BY DEF Init, RoomForPart
<1>12. RegionReached
  <2> SUFFICES ASSUME NEW s \in Stream PROVE addr[s] <= Len(mem[s]) BY DEF RegionReached
  <2>1. addr[s] = 0 /\ mem[s] = <<>> BY <1>a
  <2> QED BY <2>1, <1>b
<1>13. CommandsCount BY DEF Init, CommandsCount
<1>14. Shapes BY <1>a, Zenon DEF Init, Shapes
<1> QED BY <1>10, <1>11, <1>12, <1>13, <1>14 DEF TypeInv

\* The types by what the steps change together.
BufferTypes ==
    /\ cur \in [Stream -> Slots] /\ idx \in [Stream -> 0 .. BufSize - 1]
    /\ \A s \in Stream : free[s] \in Seq(Slots) /\ full[s] \in Seq(Slots)
    /\ filled \in [Stream -> 0 .. MaxBlocks + 1]
    /\ block \in [Stream -> [Slots -> Block]]
    /\ overrun \in [Stream -> BOOLEAN] /\ starved \in [Stream -> BOOLEAN]
StoreTypes ==
    /\ hold = <<>> \/ hold \in Stream \X Slots
    /\ turn \in {"photo", "laser", "log"}
    /\ addr \in [Stream -> Nat]
    /\ \A s \in Stream : mem[s] \in Seq(Block)
ControlTypes ==
    /\ sub \in {"PRE", "MAIN", "POST", "DONE"} /\ counter \in Nat
    /\ timer \in BOOLEAN /\ sampling \in BOOLEAN /\ laser \in BOOLEAN
    /\ step \in Steps /\ calm \in BOOLEAN /\ announced \in Nat
    /\ commands \in 0 .. 5 /\ asked \in 0 .. MaxRuns /\ run \in 0 .. MaxRuns

LEMMA TypeParts == TypeOK <=> BufferTypes /\ StoreTypes /\ ControlTypes
BY Zenon DEF TypeOK, BufferTypes, StoreTypes, ControlTypes, Slots, Steps

LEMMA StepControl == TypeInv /\ [Next]_vars => ControlTypes' /\ CommandsCount'
<1> SUFFICES ASSUME TypeInv, [Next]_vars PROVE ControlTypes' /\ CommandsCount' OBVIOUS
<1>0. ControlTypes /\ CommandsCount /\ MaxRuns \in Nat BY TypeParts, DlsAssumption DEF TypeInv
<1> USE <1>0 DEF ControlTypes, CommandsCount, Steps, buffers, store, phase, history, task
<1>1. CASE Command BY <1>1 DEF Command
<1>2. CASE TakeCommand BY <1>2 DEF TakeCommand, ExpStep
<1>3. CASE ResetAddresses
  <2>1. /\ step = "setup" /\ step' = "times" /\ run' = run + 1
        /\ UNCHANGED <<sub, counter, timer, sampling, laser, announced, commands, asked>>
    BY <1>3 DEF ResetAddresses, ExpStep
  <2>2. calm' \in BOOLEAN BY <1>3 DEF ResetAddresses
  <2> QED BY <2>1, <2>2
<1>4. CASE ResetTimes BY <1>4 DEF ResetTimes, ExpStep
<1>5. CASE AllOff BY <1>5 DEF AllOff, ExpStep
<1>6. CASE ResetIndices BY <1>6 DEF ResetIndices, ExpStep
<1>7. CASE Start BY <1>7 DEF Start, ExpStep
<1>8. ASSUME NEW s \in Stream, Sample(s) PROVE ControlTypes' /\ CommandsCount'
  BY <1>8 DEF Sample
<1>9. CASE TickPre BY <1>9 DEF TickPre, Ticking
<1>10. CASE TickMain BY <1>10 DEF TickMain, Ticking
<1>11. CASE TickPost
  <2>1. sub' \in {"PRE", "MAIN", "POST", "DONE"} /\ sampling' \in BOOLEAN
    BY <1>11 DEF TickPost
  <2>2. counter' \in Nat BY <1>11 DEF TickPost, Ticking
  <2>3. UNCHANGED <<timer, laser, step, commands, asked, run, calm, announced>>
    BY <1>11 DEF TickPost
  <2> QED BY <2>1, <2>2, <2>3
<1>12. CASE TickDone
  <2>1. /\ timer' = FALSE /\ counter' = counter + 1 /\ announced' = announced + 1
        /\ UNCHANGED <<sub, sampling, laser, step, commands, asked, run, calm>>
    BY <1>12 DEF TickDone
  <2>2. counter' \in Nat /\ announced' \in Nat BY <2>1
  <2>3. timer' \in BOOLEAN BY <2>1, Zenon
  <2> QED BY <2>1, <2>2, <2>3
<1>13. CASE Psram BY <1>13 DEF Psram, PollTimeout, Poll, Store
<1>14. CASE UNCHANGED vars BY <1>14 DEF vars
<1> QED
  BY <1>1, <1>2, <1>3, <1>4, <1>5, <1>6, <1>7, <1>8, <1>9, <1>10, <1>11, <1>12, <1>13, <1>14
  DEF Next, Experiment, Tick

----------------------------------------------------------------------------
(* What a step does to one stream                                          *)

\* The store and the run stay as they are for the stream t.
StoreKept(t) ==
    /\ Held(t)' = Held(t) /\ addr'[t] = addr[t] /\ mem'[t] = mem[t]
    /\ run' = run /\ calm' = calm
BuffersKept(t) == cur'[t] = cur[t] /\ free'[t] = free[t] /\ full'[t] = full[t]
CountsKept(t) == filled'[t] = filled[t] /\ block'[t] = block[t]
FlagsKept(t) == overrun'[t] = overrun[t] /\ starved'[t] = starved[t]

\* At most a sample is taken into the current buffer.
Keeps(t) ==
    /\ StoreKept(t) /\ BuffersKept(t) /\ CountsKept(t) /\ FlagsKept(t)
    /\ \/ idx'[t] = idx[t] \/ idx'[t] = 0
       \/ idx'[t] = idx[t] + 1 /\ idx[t] + 1 < BufSize /\ filled[t] < MaxBlocks

\* The current buffer holds the next block of the run.
Fills(t) ==
    /\ filled[t] < MaxBlocks /\ filled'[t] = filled[t] + 1 /\ idx'[t] = 0
    /\ block'[t] = [block[t] EXCEPT ![cur[t]] = [run |-> run, num |-> filled[t] + 1]]
    /\ StoreKept(t)

Exchanges(t) ==
    /\ Fills(t) /\ FlagsKept(t)
    /\ free[t] # <<>>
    /\ cur'[t] = Head(free[t]) /\ free'[t] = Tail(free[t])
    /\ full'[t] = Append(full[t], cur[t])

Overruns(t) ==
    /\ Fills(t) /\ overrun'[t] = TRUE /\ starved'[t] = starved[t]
    /\ \/ free[t] = <<>> /\ free'[t] = free[t]
       \/ free[t] # <<>> /\ Len(full[t]) = BufCount /\ free'[t] = Tail(free[t])
    /\ cur'[t] = cur[t] /\ full'[t] = full[t]

Dries(t) ==
    /\ Fills(t) /\ overrun'[t] = overrun[t] /\ starved'[t] = TRUE
    /\ cur'[t] = NULL /\ free'[t] = free[t] /\ full'[t] = Append(full[t], cur[t])

Takes(t) ==
    /\ Held(t) = <<>> /\ full[t] # <<>>
    /\ Held(t)' = <<Head(full[t])>> /\ full'[t] = Tail(full[t])
    /\ addr'[t] = addr[t] /\ mem'[t] = mem[t] /\ run' = run /\ calm' = calm
    /\ cur'[t] = cur[t] /\ free'[t] = free[t] /\ idx'[t] = idx[t]
    /\ CountsKept(t) /\ FlagsKept(t)

Stores(t) ==
    \E b \in Slots :
        /\ Held(t) = <<b>> /\ Held(t)' = <<>>
        /\ mem'[t] = WriteAt(mem[t], addr[t], block[t][b]) /\ addr'[t] = addr[t] + 1
        /\ free'[t] = Send(free[t], b)
        /\ cur'[t] = cur[t] /\ full'[t] = full[t] /\ idx'[t] = idx[t]
        /\ run' = run /\ calm' = calm /\ CountsKept(t) /\ FlagsKept(t)

Restarts(t) ==
    /\ run' = run + 1 /\ run < MaxRuns /\ (calm' => full[t] = <<>> /\ Held(t) = <<>>)
    /\ addr'[t] = 0 /\ filled'[t] = 0 /\ overrun'[t] = FALSE
    /\ Held(t)' = Held(t) /\ mem'[t] = mem[t] /\ starved'[t] = starved[t]
    /\ block'[t] = block[t] /\ idx'[t] = idx[t] /\ BuffersKept(t)

StreamStep(t) ==
    Keeps(t) \/ Exchanges(t) \/ Overruns(t) \/ Dries(t) \/ Takes(t) \/ Stores(t) \/ Restarts(t)

\* The variables of the streams are functions of the streams.
Maps ==
    /\ Shapes
    /\ cur = [t \in Stream |-> cur[t]] /\ idx = [t \in Stream |-> idx[t]]
    /\ filled = [t \in Stream |-> filled[t]] /\ block = [t \in Stream |-> block[t]]
    /\ overrun = [t \in Stream |-> overrun[t]] /\ starved = [t \in Stream |-> starved[t]]
    /\ addr = [t \in Stream |-> addr[t]]

LEMMA MapsHold == TypeInv => Maps
<1> SUFFICES ASSUME TypeInv PROVE Maps OBVIOUS
<1>1. BufferTypes /\ StoreTypes /\ Shapes BY TypeParts DEF TypeInv
<1> QED BY <1>1, Zenon DEF Maps, BufferTypes, StoreTypes

\* Only the PSRAM task has a buffer, and only if it runs.
HoldInv == ~PsramRuns => hold = <<>>

LEMMA SampleStream ==
    ASSUME TypeInv, NEW s \in Stream, Sample(s)
    PROVE  Maps' /\ \A t \in Stream : StreamStep(t)
<1> USE DEF store, phase, task
<1>0. BufCount \in Nat \ {0} /\ BufSize \in Nat \ {0} BY DlsAssumption
<1>a. BufferTypes BY TypeParts DEF TypeInv
<1>b. Maps BY MapsHold
<1>1. filled[s] < MaxBlocks /\ UNCHANGED <<store, run, calm, starved>> BY DEF Sample
<1>2. \A t \in Stream : StoreKept(t) BY <1>1 DEF StoreKept, Held
<1>3. CASE idx[s] + 1 < BufSize
  <2>1. idx' = [idx EXCEPT ![s] = @ + 1] /\ UNCHANGED <<cur, free, full, filled, block, overrun>>
    BY <1>3 DEF Sample
  <2>2. \A t \in Stream : Keeps(t)
    BY <1>1, <1>2, <1>3, <1>a, <2>1
    DEF Keeps, BuffersKept, CountsKept, FlagsKept, BufferTypes
  <2>3. Maps' BY <1>1, <1>b, <2>1 DEF Maps, Shapes
  <2> QED BY <2>2, <2>3 DEF StreamStep
<1>4. CASE ~(idx[s] + 1 < BufSize)
  <2>1. /\ idx' = [idx EXCEPT ![s] = 0] /\ filled' = [filled EXCEPT ![s] = @ + 1]
        /\ block' = Filled(s)
    BY <1>4 DEF Sample
  <2>2. \A t \in Stream \ {s} : idx'[t] = idx[t] /\ CountsKept(t)
    BY <1>a, <2>1 DEF CountsKept, Filled, BufferTypes
  <2>3. Fills(s)
    <3>1. idx'[s] = 0 /\ filled'[s] = filled[s] + 1 BY <1>a, <2>1 DEF BufferTypes
    <3>2. block'[s] = [block[s] EXCEPT ![cur[s]] = [run |-> run, num |-> filled[s] + 1]]
      BY <1>a, <2>1, Zenon DEF Filled, BufferTypes
    <3> QED BY <1>1, <1>2, <3>1, <3>2 DEF Fills
  <2>4. idx' = [t \in Stream |-> idx'[t]] /\ filled' = [t \in Stream |-> filled'[t]]
        /\ block' = [t \in Stream |-> block'[t]]
    BY <1>b, <2>1 DEF Maps, Filled
  <2>5. CASE /\ free[s] # <<>>
             /\ Len(full[s]) < BufCount
             /\ cur' = [cur EXCEPT ![s] = Head(free[s])]
             /\ free' = [free EXCEPT ![s] = Tail(@)]
             /\ full' = [full EXCEPT ![s] = Send(@, cur[s])]
             /\ UNCHANGED overrun
    <3>a. Send(full[s], cur[s]) = Append(full[s], cur[s]) BY <2>5 DEF Send
    <3>b. cur'[s] = Head(free[s]) /\ free'[s] = Tail(free[s]) /\ full'[s] = Append(full[s], cur[s])
      BY <1>b, <2>5, <3>a DEF Maps, Shapes
    <3>1. Exchanges(s) BY <1>1, <2>3, <2>5, <3>b DEF Exchanges, FlagsKept
    <3>2. \A t \in Stream \ {s} : Keeps(t)
      BY <1>1, <1>2, <1>b, <2>2, <2>5 DEF Keeps, BuffersKept, FlagsKept, Maps, Shapes
    <3>3. Maps' BY <1>1, <1>b, <2>4, <2>5 DEF Maps, Shapes
    <3> QED BY <3>1, <3>2, <3>3 DEF StreamStep
  <2>6. CASE /\ free[s] = <<>> \/ Len(full[s]) = BufCount
             /\ free' = [free EXCEPT ![s] = IF @ = <<>> THEN @ ELSE Tail(@)]
             /\ overrun' = [overrun EXCEPT ![s] = TRUE]
             /\ UNCHANGED <<cur, full>>
    <3>b. free'[s] = (IF free[s] = <<>> THEN free[s] ELSE Tail(free[s])) /\ overrun'[s] = TRUE
      BY <1>b, <2>6 DEF Maps, Shapes
    <3>1. Overruns(s) BY <1>1, <2>3, <2>6, <3>b DEF Overruns
    <3>2. \A t \in Stream \ {s} : Keeps(t)
      BY <1>1, <1>2, <1>b, <2>2, <2>6 DEF Keeps, BuffersKept, FlagsKept, Maps, Shapes
    <3>3. Maps' BY <1>1, <1>b, <2>4, <2>6 DEF Maps, Shapes
    <3> QED BY <3>1, <3>2, <3>3 DEF StreamStep
  <2> QED BY <1>4, <2>5, <2>6 DEF Sample
<1> QED BY <1>3, <1>4

LEMMA FlushStream ==
    ASSUME TypeInv, Flush, UNCHANGED <<store, run, calm, overrun>>
    PROVE  Maps' /\ \A t \in Stream : StreamStep(t)
<1> USE DEF store
<1>a. BufferTypes /\ RoomForPart BY TypeParts DEF TypeInv
<1>b. Maps BY MapsHold
<1> DEFINE part == {s \in Stream : idx[s] > 0 /\ Len(full[s]) < BufCount}
           dry == {s \in part : free[s] = <<>>}
<1>1. /\ full' = [s \in Stream |-> IF s \in part THEN Send(full[s], cur[s]) ELSE full[s]]
      /\ cur' = [s \in Stream |-> IF s \in dry THEN NULL
                                  ELSE IF s \in part THEN Head(free[s]) ELSE cur[s]]
      /\ free' = [s \in Stream |-> IF s \in part \ dry THEN Tail(free[s]) ELSE free[s]]
      /\ idx' = [s \in Stream |-> IF s \in part THEN 0 ELSE idx[s]]
      /\ block' = [s \in Stream |-> IF s \in part THEN Filled(s)[s] ELSE block[s]]
      /\ filled' = [s \in Stream |-> IF s \in part THEN filled[s] + 1 ELSE filled[s]]
      /\ starved' = [s \in Stream |-> starved[s] \/ s \in dry]
  BY Zenon DEF Flush
<1>2. Maps' BY <1>1, <1>b, Zenon DEF Maps, Shapes
<1>3. ASSUME NEW t \in Stream PROVE StreamStep(t)
  <2>1. StoreKept(t) /\ overrun'[t] = overrun[t] BY DEF StoreKept, Held
  <2>2. CASE t \notin part
    <3>1. t \notin dry BY <2>2
    <3>2. /\ full'[t] = full[t] /\ cur'[t] = cur[t] /\ free'[t] = free[t] /\ idx'[t] = idx[t]
          /\ block'[t] = block[t] /\ filled'[t] = filled[t] /\ starved'[t] = (starved[t] \/ FALSE)
      BY <1>1, <2>2, <3>1, Zenon
    <3>3. starved'[t] = starved[t] BY <1>a, <3>2 DEF BufferTypes
    <3> HIDE DEF part, dry
    <3> QED BY <2>1, <3>2, <3>3 DEF StreamStep, Keeps, BuffersKept, CountsKept, FlagsKept
  <2>3. CASE t \in part
    <3>0. /\ idx[t] > 0 /\ Len(full[t]) < BufCount BY <2>3
    <3>a. Send(full[t], cur[t]) = Append(full[t], cur[t]) BY <3>0 DEF Send
    <3>1. Filled(t)[t] = [block[t] EXCEPT ![cur[t]] = [run |-> run, num |-> filled[t] + 1]]
      BY <1>a, Zenon DEF Filled, BufferTypes
    <3>2. /\ full'[t] = Append(full[t], cur[t]) /\ idx'[t] = 0
          /\ block'[t] = Filled(t)[t] /\ filled'[t] = filled[t] + 1
      BY <1>1, <2>3, <3>a, Zenon
    <3>3. Fills(t) BY <1>a, <2>1, <3>0, <3>1, <3>2 DEF Fills, RoomForPart
    <3>4. CASE free[t] = <<>>
      <4>1. t \in dry BY <2>3, <3>4
      <4>2. cur'[t] = NULL /\ free'[t] = free[t] /\ starved'[t] = TRUE
        BY <1>1, <4>1, Zenon
      <4> HIDE DEF part, dry
      <4> QED BY <2>1, <3>2, <3>3, <4>2 DEF StreamStep, Dries
    <3>5. CASE free[t] # <<>>
      <4>1. t \notin dry /\ t \in part \ dry BY <2>3, <3>5
      <4>2. cur'[t] = Head(free[t]) /\ free'[t] = Tail(free[t])
            /\ starved'[t] = (starved[t] \/ FALSE)
        BY <1>1, <2>3, <4>1, Zenon
      <4>3. starved'[t] = starved[t] BY <1>a, <4>2 DEF BufferTypes
      <4> HIDE DEF part, dry
      <4> QED BY <2>1, <3>2, <3>3, <3>5, <4>2, <4>3 DEF StreamStep, Exchanges, FlagsKept
    <3> QED BY <3>4, <3>5
  <2> QED BY <2>2, <2>3
<1> QED BY <1>2, <1>3

LEMMA PsramStream == TypeInv /\ HoldInv /\ Psram => Maps' /\ \A t \in Stream : StreamStep(t)
<1> SUFFICES ASSUME TypeInv, HoldInv, Psram PROVE Maps' /\ \A t \in Stream : StreamStep(t)
  OBVIOUS
<1> USE DEF phase, task, history
<1>a. BufferTypes /\ StoreTypes BY TypeParts DEF TypeInv
<1>b. Maps BY MapsHold
<1>1. CASE PollTimeout
  <2>1. UNCHANGED <<cur, idx, free, full, filled, block, overrun, starved, hold, addr, mem, run, calm>>
    BY <1>1 DEF PollTimeout, buffers
  <2>2. Maps' BY <1>b, <2>1 DEF Maps, Shapes
  <2> QED BY <2>1, <2>2
    DEF StreamStep, Keeps, StoreKept, BuffersKept, CountsKept, FlagsKept, Held
<1>2. CASE Poll
  <2>1. /\ hold = <<>> /\ turn \in Stream /\ full[turn] # <<>>
        /\ hold' = <<turn, Head(full[turn])>> /\ full' = [full EXCEPT ![turn] = Tail(@)]
        /\ UNCHANGED <<cur, idx, free, filled, block, overrun, starved, addr, mem, run, calm>>
    BY <1>2 DEF Poll
  <2>2. Maps' BY <1>b, <2>1 DEF Maps, Shapes
  <2>3. \A t \in Stream : Held(t) = <<>> BY <2>1 DEF Held
  <2>s. PICK s \in Stream : s = turn BY <2>1
  <2>4. hold' # <<>> /\ hold'[1] = s /\ hold'[2] = Head(full[s]) BY <2>1, <2>s
  <2>5. Takes(s)
    <3>1. Held(s)' = <<Head(full[s])>> BY <2>4 DEF Held
    <3>2. full[s] # <<>> /\ full'[s] = Tail(full[s]) BY <1>b, <2>1, <2>s DEF Maps, Shapes
    <3> QED BY <2>1, <2>3, <3>1, <3>2 DEF Takes, CountsKept, FlagsKept
  <2>6. ASSUME NEW t \in Stream \ {s} PROVE Keeps(t)
    <3>1. Held(t)' = <<>> BY <2>4, <2>6 DEF Held
    <3>2. full'[t] = full[t] BY <1>b, <2>1, <2>s, <2>6 DEF Maps, Shapes
    <3> QED BY <2>1, <2>3, <3>1, <3>2 DEF Keeps, StoreKept, BuffersKept, CountsKept, FlagsKept
  <2> QED BY <2>1, <2>2, <2>5, <2>6 DEF StreamStep
<1>3. CASE Store
  <2>a. hold # <<>> BY <1>3 DEF Store
  <2>s. PICK s \in Stream : s = hold[1] BY <1>a, <2>a DEF StoreTypes
  <2>1. /\ mem' = [mem EXCEPT ![s] = WriteAt(@, addr[s], block[s][hold[2]])]
        /\ addr' = [addr EXCEPT ![s] = @ + 1]
        /\ free' = [free EXCEPT ![s] = Send(@, hold[2])]
        /\ hold' = <<>>
        /\ UNCHANGED <<cur, idx, full, filled, block, overrun, starved, run, calm>>
    BY <1>3, <2>s DEF Store
  <2>2. s \in Stream /\ hold[2] \in Slots BY <1>a, <2>a DEF StoreTypes
  <2>3. Maps' BY <1>b, <2>1 DEF Maps, Shapes
  <2>4. \A t \in Stream : Held(t)' = <<>> BY <2>1 DEF Held
  <2>5. Stores(s)
    <3>1. Held(s) = <<hold[2]>> BY <2>a, <2>s DEF Held
    <3>2. /\ mem'[s] = WriteAt(mem[s], addr[s], block[s][hold[2]]) /\ addr'[s] = addr[s] + 1
          /\ free'[s] = Send(free[s], hold[2])
      BY <1>b, <2>1, <2>2 DEF Maps, Shapes
    <3> QED BY <2>1, <2>2, <2>4, <3>1, <3>2 DEF Stores, CountsKept, FlagsKept
  <2>6. ASSUME NEW t \in Stream \ {s} PROVE Keeps(t)
    <3>1. Held(t) = <<>> BY <2>s, <2>6 DEF Held
    <3>2. mem'[t] = mem[t] /\ addr'[t] = addr[t] /\ free'[t] = free[t]
      BY <1>b, <2>1, <2>2, <2>6 DEF Maps, Shapes
    <3> QED BY <2>1, <2>4, <3>1, <3>2 DEF Keeps, StoreKept, BuffersKept, CountsKept, FlagsKept
  <2> QED BY <2>2, <2>3, <2>5, <2>6 DEF StreamStep
<1> QED BY <1>1, <1>2, <1>3 DEF Psram

LEMMA StreamSteps ==
    TypeInv /\ HoldInv /\ [Next]_vars => Maps' /\ \A t \in Stream : StreamStep(t)
<1> SUFFICES ASSUME TypeInv, HoldInv, [Next]_vars PROVE Maps' /\ \A t \in Stream : StreamStep(t)
  OBVIOUS
<1> USE DEF buffers, store, phase, history, task
<1>a. BufferTypes /\ StoreTypes /\ ControlTypes /\ CommandsCount BY TypeParts DEF TypeInv
<1>b. Maps BY MapsHold
<1>1. ASSUME NEW s \in Stream, Sample(s) PROVE Maps' /\ \A t \in Stream : StreamStep(t)
  BY <1>1, SampleStream
<1>2. ASSUME Flush, UNCHANGED <<store, run, calm, overrun>>
      PROVE Maps' /\ \A t \in Stream : StreamStep(t)
  BY <1>2, FlushStream
<1>3. CASE Psram BY <1>3, PsramStream
<1>4. CASE ResetAddresses
  <2>1. /\ step = "setup" /\ PsramBlocked /\ run' = run + 1
        /\ addr' = [s \in Stream |-> 0] /\ filled' = [s \in Stream |-> 0]
        /\ overrun' = [s \in Stream |-> FALSE]
        /\ UNCHANGED <<cur, idx, free, full, hold, mem, block, starved>>
    BY <1>4 DEF ResetAddresses, ExpStep
  <2>2. calm' => \A s \in Stream : full[s] = <<>> BY <1>4 DEF ResetAddresses
  <2>3. hold = <<>> BY <2>1 DEF PsramBlocked, HoldInv
  <2>4. \A t \in Stream : Held(t) = <<>> /\ Held(t)' = <<>> BY <2>1, <2>3 DEF Held
  <2>5. run < MaxRuns BY <1>a, <2>1, DlsAssumption DEF ControlTypes, CommandsCount
  <2>6. Maps' BY <1>b, <2>1 DEF Maps, Shapes
  <2>7. \A t \in Stream : Restarts(t)
    BY <2>1, <2>2, <2>4, <2>5 DEF Restarts, BuffersKept
  <2> QED BY <2>6, <2>7 DEF StreamStep
<1>5. CASE ResetIndices
  <2>1. /\ idx' = [s \in Stream |-> 0]
        /\ UNCHANGED <<cur, free, full, filled, block, overrun, starved, hold, addr, mem, run, calm>>
    BY <1>5 DEF ResetIndices
  <2>2. Maps' BY <1>b, <2>1 DEF Maps, Shapes
  <2> QED BY <2>1, <2>2
    DEF StreamStep, Keeps, StoreKept, BuffersKept, CountsKept, FlagsKept, Held
<1>6. CASE UNCHANGED <<cur, idx, free, full, filled, block, overrun, starved, hold, addr, mem, run, calm>>
  <2>1. Maps' BY <1>b, <1>6 DEF Maps, Shapes
  <2> QED BY <1>6, <2>1
    DEF StreamStep, Keeps, StoreKept, BuffersKept, CountsKept, FlagsKept, Held
<1>7. CASE TickPost
  <2>1. \/ Flush /\ UNCHANGED <<store, run, calm, overrun>>
        \/ UNCHANGED <<cur, idx, free, full, filled, block, overrun, starved, hold, addr, mem, run, calm>>
    BY <1>7 DEF TickPost
  <2> QED BY <1>2, <1>6, <2>1
<1>8. CASE Command \/ TakeCommand \/ ResetTimes \/ AllOff \/ Start \/ TickPre \/ TickMain
            \/ TickDone \/ UNCHANGED vars
  <2>1. UNCHANGED <<cur, idx, free, full, filled, block, overrun, starved, hold, addr, mem, run, calm>>
    BY <1>8 DEF Command, TakeCommand, ResetTimes, AllOff, Start, TickPre, TickMain, TickDone, vars
  <2> QED BY <1>6, <2>1
<1> QED BY <1>1, <1>3, <1>4, <1>5, <1>7, <1>8 DEF Next, Experiment, Tick

LEMMA StepHold == TypeInv /\ HoldInv /\ [Next]_vars
                    => HoldInv' /\ (hold' = <<>> \/ hold' \in Stream \X Slots)
                         /\ turn' \in {"photo", "laser", "log"}
<1> SUFFICES ASSUME TypeInv, HoldInv, [Next]_vars
             PROVE  HoldInv' /\ (hold' = <<>> \/ hold' \in Stream \X Slots)
                         /\ turn' \in {"photo", "laser", "log"}
  OBVIOUS
<1>a. BufferTypes /\ StoreTypes BY TypeParts DEF TypeInv
<1>1. CASE PollTimeout
  <2>1. hold' = hold /\ turn' = NextTurn[turn] BY <1>1 DEF PollTimeout
  <2> QED BY <1>a, <2>1 DEF StoreTypes, NextTurn, HoldInv
<1>2. CASE Poll
  <2>1. PsramRuns /\ turn \in Stream /\ full[turn] # <<>> /\ hold' = <<turn, Head(full[turn])>>
        /\ turn' = turn
    BY <1>2 DEF Poll
  <2>2. Head(full[turn]) \in Slots
    <3>1. full[turn] \in Seq(Slots) BY <1>a, <2>1 DEF BufferTypes
    <3> QED BY <2>1, <3>1
  <2> QED BY <1>a, <2>1, <2>2 DEF StoreTypes, HoldInv
<1>3. CASE Store
  <2>1. hold' = <<>> /\ turn' = NextTurn[turn] BY <1>3 DEF Store
  <2> QED BY <1>a, <2>1 DEF StoreTypes, NextTurn, HoldInv
<1>4. CASE ~Psram
  <2>1. hold' = hold /\ turn' = turn
    BY <1>4 DEF Next, vars, store, Command, Experiment, TakeCommand, ResetAddresses, ResetTimes,
                AllOff, ResetIndices, Start, Sample, Tick, TickPre, TickMain, TickPost, TickDone
  <2> QED BY <1>a, <2>1 DEF StoreTypes, HoldInv
<1> QED BY <1>1, <1>2, <1>3, <1>4 DEF Psram

\* One stream after its step.
LEMMA StreamTyped ==
    ASSUME TypeInv, NEW t \in Stream, StreamStep(t)
    PROVE  /\ cur'[t] \in Slots /\ idx'[t] \in 0 .. BufSize - 1
           /\ free'[t] \in Seq(Slots) /\ full'[t] \in Seq(Slots)
           /\ filled'[t] \in 0 .. MaxBlocks + 1 /\ (idx'[t] > 0 => filled'[t] < MaxBlocks)
           /\ block'[t] \in [Slots -> Block]
           /\ overrun'[t] \in BOOLEAN /\ starved'[t] \in BOOLEAN
           /\ addr'[t] \in Nat /\ mem'[t] \in Seq(Block) /\ addr'[t] <= Len(mem'[t])
<1>0. /\ BufSize \in Nat \ {0} /\ MaxBlocks \in Nat BY DlsAssumption
<1>1. BufferTypes /\ StoreTypes /\ ControlTypes /\ RoomForPart /\ RegionReached
  BY TypeParts DEF TypeInv
<1>2. /\ cur[t] \in Slots /\ idx[t] \in 0 .. BufSize - 1
      /\ free[t] \in Seq(Slots) /\ full[t] \in Seq(Slots)
      /\ filled[t] \in 0 .. MaxBlocks + 1 /\ (idx[t] > 0 => filled[t] < MaxBlocks)
      /\ block[t] \in [Slots -> Block]
      /\ overrun[t] \in BOOLEAN /\ starved[t] \in BOOLEAN
      /\ addr[t] \in Nat /\ mem[t] \in Seq(Block) /\ addr[t] <= Len(mem[t])
  BY <1>1 DEF BufferTypes, StoreTypes, RoomForPart, RegionReached
<1>3. ASSUME Fills(t)
      PROVE  /\ idx'[t] \in 0 .. BufSize - 1 /\ filled'[t] \in 0 .. MaxBlocks + 1
             /\ (idx'[t] > 0 => filled'[t] < MaxBlocks) /\ block'[t] \in [Slots -> Block]
             /\ addr'[t] \in Nat /\ mem'[t] \in Seq(Block) /\ addr'[t] <= Len(mem'[t])
  <2>1. [run |-> run, num |-> filled[t] + 1] \in Block
    BY <1>0, <1>1, <1>2, <1>3, BlockTyped DEF ControlTypes, Fills
  <2>2. block'[t] \in [Slots -> Block] BY <1>2, <1>3, <2>1 DEF Fills
  <2> QED BY <1>0, <1>2, <1>3, <2>2 DEF Fills, StoreKept
<1>4. \A q \in Seq(Slots) : q # <<>> => Head(q) \in Slots /\ Tail(q) \in Seq(Slots) OBVIOUS
<1>5. Append(full[t], cur[t]) \in Seq(Slots) BY <1>2
<1>6. NULL \in Slots BY DEF Slots
<1>7. CASE Keeps(t)
  BY <1>0, <1>2, <1>7 DEF Keeps, StoreKept, BuffersKept, CountsKept, FlagsKept
<1>8. CASE Exchanges(t)
  BY <1>2, <1>3, <1>4, <1>5, <1>8 DEF Exchanges, FlagsKept
<1>9. CASE Overruns(t)
  <2>1. Fills(t) BY <1>9 DEF Overruns
  <2>2. cur'[t] \in Slots /\ full'[t] \in Seq(Slots) /\ overrun'[t] \in BOOLEAN
        /\ starved'[t] \in BOOLEAN
    BY <1>2, <1>9 DEF Overruns
  <2>3. free'[t] \in Seq(Slots) BY <1>2, <1>4, <1>9 DEF Overruns
  <2> QED BY <1>3, <2>1, <2>2, <2>3
<1>10. CASE Dries(t)
  BY <1>2, <1>3, <1>5, <1>6, <1>10 DEF Dries
<1>11. CASE Takes(t)
  BY <1>2, <1>4, <1>11 DEF Takes, CountsKept, FlagsKept
<1>12. CASE Stores(t)
  <2>1. PICK b \in Slots :
           /\ mem'[t] = WriteAt(mem[t], addr[t], block[t][b]) /\ addr'[t] = addr[t] + 1
           /\ free'[t] = Send(free[t], b)
           /\ cur'[t] = cur[t] /\ full'[t] = full[t] /\ idx'[t] = idx[t]
           /\ CountsKept(t) /\ FlagsKept(t)
    BY <1>12 DEF Stores
  <2>2. free'[t] \in Seq(Slots) BY <1>2, <2>1, SendTyped
  <2>3. block[t][b] \in Block BY <1>2
  <2>4. mem'[t] \in Seq(Block) /\ Len(mem'[t]) = (IF Len(mem[t]) > addr[t] THEN Len(mem[t])
                                                  ELSE addr[t] + 1)
    <3>1. Written(mem'[t], mem[t], addr[t], block[t][b]) BY <1>2, <2>1, <2>3, WriteAtTyped
    <3> QED BY <3>1 DEF Written
  <2>5. addr'[t] \in Nat /\ addr'[t] <= Len(mem'[t])
    <3>1. Len(mem[t]) \in Nat BY <1>2
    <3> QED BY <1>2, <2>1, <2>4, <3>1
  <2> QED BY <1>2, <2>1, <2>2, <2>4, <2>5 DEF CountsKept, FlagsKept
<1>13. CASE Restarts(t)
  <2>1. /\ addr'[t] = 0 /\ filled'[t] = 0 /\ overrun'[t] = FALSE /\ mem'[t] = mem[t]
        /\ starved'[t] = starved[t] /\ block'[t] = block[t] /\ idx'[t] = idx[t] /\ BuffersKept(t)
    BY <1>13 DEF Restarts
  <2>2. Len(mem[t]) \in Nat BY <1>2
  <2>3. addr'[t] \in Nat /\ addr'[t] <= Len(mem'[t]) BY <2>1, <2>2
  <2>4. filled'[t] \in 0 .. MaxBlocks + 1 /\ (idx'[t] > 0 => filled'[t] < MaxBlocks)
    BY <1>0, <1>2, <2>1
  <2> QED BY <1>2, <2>1, <2>3, <2>4 DEF BuffersKept
<1> QED BY <1>7, <1>8, <1>9, <1>10, <1>11, <1>12, <1>13 DEF StreamStep

LEMMA StepTypes == TypeInv /\ HoldInv /\ [Next]_vars => TypeInv' /\ HoldInv'
<1> SUFFICES ASSUME TypeInv, HoldInv, [Next]_vars PROVE TypeInv' /\ HoldInv' OBVIOUS
<1>1. Maps' /\ \A t \in Stream : StreamStep(t) BY StreamSteps
<1>2. ControlTypes' /\ CommandsCount' BY StepControl
<1>3. HoldInv' /\ (hold' = <<>> \/ hold' \in Stream \X Slots) /\ turn' \in {"photo", "laser", "log"}
  BY StepHold
<1>4. \A t \in Stream :
           /\ cur'[t] \in Slots /\ idx'[t] \in 0 .. BufSize - 1
           /\ free'[t] \in Seq(Slots) /\ full'[t] \in Seq(Slots)
           /\ filled'[t] \in 0 .. MaxBlocks + 1 /\ (idx'[t] > 0 => filled'[t] < MaxBlocks)
           /\ block'[t] \in [Slots -> Block]
           /\ overrun'[t] \in BOOLEAN /\ starved'[t] \in BOOLEAN
           /\ addr'[t] \in Nat /\ mem'[t] \in Seq(Block) /\ addr'[t] <= Len(mem'[t])
  BY <1>1, StreamTyped
<1>5. BufferTypes'
  BY <1>1, <1>4, Zenon DEF BufferTypes, Maps
<1>6. StoreTypes' BY <1>1, <1>3, <1>4, Zenon DEF StoreTypes, Maps
<1>7. RoomForPart' /\ RegionReached' BY <1>4 DEF RoomForPart, RegionReached
<1>8. TypeOK'
  BY <1>2, <1>5, <1>6, Zenon DEF TypeOK, BufferTypes, StoreTypes, ControlTypes, Slots, Steps
<1> QED BY <1>1, <1>2, <1>3, <1>7, <1>8 DEF TypeInv, Maps

\* Every variable keeps its type, and no sample is written beyond its buffer.
THEOREM ExperimentTyping == Spec => []TypeOK
<1>1. Init => TypeInv /\ HoldInv BY InitTypes DEF Init, HoldInv
<1>2. TypeInv => TypeOK BY DEF TypeInv
<1> QED BY <1>1, <1>2, StepTypes, PTL DEF Spec

----------------------------------------------------------------------------
(* The buffers of one stream: free and full queues, the one that is held,  *)
(* the current one                                                         *)

Apart(fr, fu, h, c) ==
    /\ \A i, j \in 1 .. Len(fr) : fr[i] = fr[j] /\ fr[i] # NULL => i = j
    /\ \A i, j \in 1 .. Len(fu) : fu[i] = fu[j] /\ fu[i] # NULL => i = j
    /\ \A i \in 1 .. Len(fr), j \in 1 .. Len(fu) : fr[i] # NULL => fr[i] # fu[j]
    /\ \A i \in 1 .. Len(fr), j \in 1 .. Len(h) : fr[i] # NULL => fr[i] # h[j]
    /\ \A i \in 1 .. Len(fu), j \in 1 .. Len(h) : fu[i] # NULL => fu[i] # h[j]
    /\ \A i \in 1 .. Len(fr) : fr[i] # NULL => fr[i] # c
    /\ \A i \in 1 .. Len(fu) : fu[i] # NULL => fu[i] # c
    /\ \A i \in 1 .. Len(h) : h[i] # NULL => h[i] # c

IsIn(b, q) == \E i \in 1 .. Len(q) : q[i] = b

Whole(fr, fu, h, c) ==
    /\ \A b \in Buffer : IsIn(b, fr) \/ IsIn(b, fu) \/ IsIn(b, h) \/ b = c
    /\ ~IsIn(NULL, fr) /\ ~IsIn(NULL, fu) /\ ~IsIn(NULL, h) /\ c # NULL
    /\ Len(fr) + Len(fu) + Len(h) + 1 = BufCount

\* The first element of a queue and the rest, element by element.
LEMMA TailElements ==
    \A q \in Seq(Slots) : q # <<>> =>
        /\ Head(q) = q[1] /\ Head(q) \in Slots /\ Tail(q) \in Seq(Slots)
        /\ Len(q) \in Nat /\ Len(q) > 0 /\ Len(Tail(q)) = Len(q) - 1
        /\ \A i \in 1 .. Len(Tail(q)) : Tail(q)[i] = q[i + 1] /\ i + 1 \in 1 .. Len(q)
        /\ \A i \in 1 .. Len(q) : i = 1 \/ (i - 1 \in 1 .. Len(Tail(q)) /\ q[i] = Tail(q)[i - 1])
OBVIOUS

LEMMA AppendElements ==
    \A q \in Seq(Slots), b \in Slots :
        /\ Append(q, b) \in Seq(Slots) /\ Len(q) \in Nat /\ Len(Append(q, b)) = Len(q) + 1
        /\ Append(q, b)[Len(q) + 1] = b
        /\ \A i \in 1 .. Len(q) : Append(q, b)[i] = q[i] /\ i \in 1 .. Len(Append(q, b))
        /\ \A i \in 1 .. Len(Append(q, b)) : i = Len(q) + 1 \/ i \in 1 .. Len(q)
OBVIOUS

\* What is in a queue once its first element has left or one has been added.
LEMMA TailIn ==
    \A q \in Seq(Slots) : q # <<>> => \A b : IsIn(b, q) <=> b = Head(q) \/ IsIn(b, Tail(q))
<1> SUFFICES ASSUME NEW q \in Seq(Slots), q # <<>>, NEW b
             PROVE  IsIn(b, q) <=> b = Head(q) \/ IsIn(b, Tail(q))
  OBVIOUS
<1> DEFINE r == Tail(q)
<1>1. /\ Head(q) = q[1] /\ 1 \in 1 .. Len(q)
      /\ \A i \in 1 .. Len(r) : r[i] = q[i + 1] /\ i + 1 \in 1 .. Len(q)
      /\ \A i \in 1 .. Len(q) : i = 1 \/ (i - 1 \in 1 .. Len(r) /\ q[i] = r[i - 1])
  BY TailElements
<1> HIDE DEF r
<1>2. IsIn(b, q) => b = q[1] \/ IsIn(b, r) BY <1>1 DEF IsIn
<1>3. b = q[1] => IsIn(b, q) BY <1>1 DEF IsIn
<1>4. IsIn(b, r) => IsIn(b, q) BY <1>1 DEF IsIn
<1> QED BY <1>1, <1>2, <1>3, <1>4 DEF r

LEMMA AppendIn ==
    \A q \in Seq(Slots), b \in Slots : \A x : IsIn(x, Append(q, b)) <=> IsIn(x, q) \/ x = b
BY AppendElements DEF IsIn

\* The full buffer goes to the one queue, the first of the other becomes current.
LEMMA ExchangeApart ==
    ASSUME NEW fr \in Seq(Slots), NEW fu \in Seq(Slots), NEW h \in Seq(Slots), NEW c \in Slots,
           fr # <<>>, Apart(fr, fu, h, c)
    PROVE  Apart(Tail(fr), Append(fu, c), h, Head(fr))
<1> DEFINE r == Tail(fr)  u == Append(fu, c)
<1>1. /\ r \in Seq(Slots) /\ Head(fr) = fr[1] /\ 1 \in 1 .. Len(fr)
      /\ \A i \in 1 .. Len(r) : r[i] = fr[i + 1] /\ i + 1 \in 1 .. Len(fr)
      /\ Len(r) \in Nat
  BY TailElements
<1>2. /\ u \in Seq(Slots) /\ Len(fu) \in Nat
      /\ \A i \in 1 .. Len(u) : (i = Len(fu) + 1 /\ u[i] = c) \/ (i \in 1 .. Len(fu) /\ u[i] = fu[i])
  BY AppendElements
<1> HIDE DEF r, u
<1>3. \A i, j \in 1 .. Len(r) : r[i] = r[j] /\ r[i] # NULL => i = j BY <1>1 DEF Apart
<1>4. \A i, j \in 1 .. Len(u) : u[i] = u[j] /\ u[i] # NULL => i = j BY <1>2 DEF Apart
<1>5. \A i \in 1 .. Len(r), j \in 1 .. Len(u) : r[i] # NULL => r[i] # u[j]
  BY <1>1, <1>2 DEF Apart
<1>6. \A i \in 1 .. Len(r), j \in 1 .. Len(h) : r[i] # NULL => r[i] # h[j] BY <1>1 DEF Apart
<1>7. \A i \in 1 .. Len(u), j \in 1 .. Len(h) : u[i] # NULL => u[i] # h[j] BY <1>2 DEF Apart
<1>8. \A i \in 1 .. Len(r) : r[i] # NULL => r[i] # fr[1] BY <1>1 DEF Apart
<1>9. \A i \in 1 .. Len(u) : u[i] # NULL => u[i] # fr[1] BY <1>1, <1>2 DEF Apart
<1>10. \A i \in 1 .. Len(h) : h[i] # NULL => h[i] # fr[1] BY <1>1 DEF Apart
<1>11. Apart(r, u, h, fr[1])
  BY <1>3, <1>4, <1>5, <1>6, <1>7, <1>8, <1>9, <1>10 DEF Apart
<1> QED BY <1>1, <1>11 DEF r, u

\* The full buffer goes to its queue, and no buffer is current.
LEMMA DryApart ==
    ASSUME NEW fr \in Seq(Slots), NEW fu \in Seq(Slots), NEW h \in Seq(Slots), NEW c \in Slots,
           Apart(fr, fu, h, c)
    PROVE  Apart(fr, Append(fu, c), h, NULL)
<1> DEFINE u == Append(fu, c)
<1>1. /\ u \in Seq(Slots) /\ Len(fu) \in Nat
      /\ \A i \in 1 .. Len(u) : (i = Len(fu) + 1 /\ u[i] = c) \/ (i \in 1 .. Len(fu) /\ u[i] = fu[i])
  BY AppendElements
<1> HIDE DEF u
<1>2. \A i, j \in 1 .. Len(u) : u[i] = u[j] /\ u[i] # NULL => i = j BY <1>1 DEF Apart
<1>3. \A i \in 1 .. Len(fr), j \in 1 .. Len(u) : fr[i] # NULL => fr[i] # u[j] BY <1>1 DEF Apart
<1>4. \A i \in 1 .. Len(u), j \in 1 .. Len(h) : u[i] # NULL => u[i] # h[j] BY <1>1 DEF Apart
<1> QED BY <1>2, <1>3, <1>4 DEF Apart, u

\* A free buffer that nobody has taken leaves its queue.
LEMMA DropApart ==
    ASSUME NEW fr \in Seq(Slots), NEW fu, NEW h, NEW c, fr # <<>>, Apart(fr, fu, h, c)
    PROVE  Apart(Tail(fr), fu, h, c)
<1> DEFINE r == Tail(fr)
<1>1. \A i \in 1 .. Len(r) : r[i] = fr[i + 1] /\ i + 1 \in 1 .. Len(fr)
  BY TailElements
<1> HIDE DEF r
<1>2. \A i, j \in 1 .. Len(r) : r[i] = r[j] /\ r[i] # NULL => i = j BY <1>1 DEF Apart
<1> QED BY <1>1, <1>2 DEF Apart, r

\* The PSRAM task takes the first full buffer.
LEMMA TakeApart ==
    ASSUME NEW fr \in Seq(Slots), NEW fu \in Seq(Slots), NEW c, fu # <<>>, Apart(fr, fu, <<>>, c)
    PROVE  Apart(fr, Tail(fu), <<Head(fu)>>, c)
<1> DEFINE u == Tail(fu)  h == <<Head(fu)>>
<1>1. /\ Head(fu) = fu[1] /\ 1 \in 1 .. Len(fu)
      /\ \A i \in 1 .. Len(u) : u[i] = fu[i + 1] /\ i + 1 \in 1 .. Len(fu)
  BY TailElements
<1>2. \A i \in 1 .. Len(h) : h[i] = fu[1] BY <1>1
<1> HIDE DEF u, h
<1>9. /\ \A i, j \in 1 .. Len(fr) : fr[i] = fr[j] /\ fr[i] # NULL => i = j
      /\ \A i, j \in 1 .. Len(fu) : fu[i] = fu[j] /\ fu[i] # NULL => i = j
      /\ \A i \in 1 .. Len(fr), j \in 1 .. Len(fu) : fr[i] # NULL => fr[i] # fu[j]
      /\ \A i \in 1 .. Len(fr) : fr[i] # NULL => fr[i] # c
      /\ \A i \in 1 .. Len(fu) : fu[i] # NULL => fu[i] # c
  BY Zenon DEF Apart
<1>a. \A i \in 1 .. Len(u) : i \in Int /\ i + 1 # 1 OBVIOUS
<1>3. \A i, j \in 1 .. Len(u) : u[i] = u[j] /\ u[i] # NULL => i = j BY <1>1, <1>9, <1>a
<1>4. \A i \in 1 .. Len(u), j \in 1 .. Len(h) : u[i] # NULL => u[i] # h[j]
  BY <1>1, <1>2, <1>9, <1>a
<1>5. \A i \in 1 .. Len(fr), j \in 1 .. Len(u) : fr[i] # NULL => fr[i] # u[j] BY <1>1, <1>9, <1>a
<1>b. \A i \in 1 .. Len(fr) : fr[i] # NULL => fr[i] # fu[1] BY <1>1, <1>9
<1>6. \A i \in 1 .. Len(fr), j \in 1 .. Len(h) : fr[i] # NULL => fr[i] # h[j] BY <1>2, <1>b
<1>7. ASSUME NEW i \in 1 .. Len(u) PROVE u[i] # NULL => u[i] # c
  <2>1. u[i] = fu[i + 1] /\ i + 1 \in 1 .. Len(fu) BY <1>1
  <2>2. \A j \in 1 .. Len(fu) : fu[j] # NULL => fu[j] # c BY <1>9
  <2> QED BY <2>1, <2>2
<1>8. \A i \in 1 .. Len(h) : h[i] # NULL => h[i] # c BY <1>1, <1>2, <1>9, <1>a
<1>10. Apart(fr, u, h, c) BY <1>3, <1>4, <1>5, <1>6, <1>7, <1>8, <1>9 DEF Apart
<1> QED BY <1>10 DEF u, h

\* The PSRAM task gives its buffer back.
LEMMA GiveApart ==
    ASSUME NEW fr \in Seq(Slots), NEW fu \in Seq(Slots), NEW b \in Slots, NEW c,
           Apart(fr, fu, <<b>>, c)
    PROVE  Apart(Append(fr, b), fu, <<>>, c) /\ Apart(fr, fu, <<>>, c)
<1> DEFINE r == Append(fr, b)  h == <<b>>  e == <<>>
<1>1. /\ Len(fr) \in Nat
      /\ \A i \in 1 .. Len(r) : (i = Len(fr) + 1 /\ r[i] = b) \/ (i \in 1 .. Len(fr) /\ r[i] = fr[i])
  BY AppendElements
<1>2. 1 \in 1 .. Len(h) /\ h[1] = b /\ Len(e) = 0 OBVIOUS
<1>a. Apart(fr, fu, h, c) OBVIOUS
<1> HIDE DEF r, h, e
<1>b. \A i \in 1 .. Len(fr), j \in 1 .. Len(h) : fr[i] # NULL => fr[i] # h[j] BY <1>a, Zenon DEF Apart
<1>3. \A i \in 1 .. Len(fr) : fr[i] # NULL => fr[i] # b BY <1>2, <1>b
<1>c. \A i, j \in 1 .. Len(fr) : fr[i] = fr[j] /\ fr[i] # NULL => i = j BY <1>a, Zenon DEF Apart
<1>4. \A i, j \in 1 .. Len(r) : r[i] = r[j] /\ r[i] # NULL => i = j BY <1>1, <1>3, <1>c
<1>5. \A j \in 1 .. Len(fu) : fu[j] # NULL => fu[j] # b BY <1>2, <1>a DEF Apart
<1>6. \A i \in 1 .. Len(r), j \in 1 .. Len(fu) : r[i] # NULL => r[i] # fu[j]
  BY <1>1, <1>5, <1>a DEF Apart
<1>7. \A i \in 1 .. Len(r) : r[i] # NULL => r[i] # c BY <1>1, <1>2, <1>a DEF Apart
<1>8. Apart(r, fu, e, c) BY <1>2, <1>4, <1>6, <1>7, <1>a DEF Apart
<1>9. Apart(fr, fu, e, c) BY <1>2, <1>a DEF Apart
<1> QED BY <1>8, <1>9 DEF r, e

LEMMA ExchangeWhole ==
    ASSUME NEW fr \in Seq(Slots), NEW fu \in Seq(Slots), NEW h \in Seq(Slots), NEW c \in Slots,
           fr # <<>>, Whole(fr, fu, h, c)
    PROVE  Whole(Tail(fr), Append(fu, c), h, Head(fr))
<1>1. Len(Tail(fr)) = Len(fr) - 1 /\ Len(Append(fu, c)) = Len(fu) + 1
      /\ Len(fr) \in Nat /\ Len(fu) \in Nat /\ Len(h) \in Nat
  BY TailElements, AppendElements
<1>2. \A x : IsIn(x, fr) <=> x = Head(fr) \/ IsIn(x, Tail(fr)) BY TailIn
<1>3. \A x : IsIn(x, Append(fu, c)) <=> IsIn(x, fu) \/ x = c BY AppendIn
<1>4. Len(Tail(fr)) + Len(Append(fu, c)) + Len(h) + 1 = BufCount BY <1>1 DEF Whole
<1> QED BY <1>2, <1>3, <1>4 DEF Whole

LEMMA TakeWhole ==
    ASSUME NEW fr \in Seq(Slots), NEW fu \in Seq(Slots), NEW c, fu # <<>>,
           Whole(fr, fu, <<>>, c)
    PROVE  Whole(fr, Tail(fu), <<Head(fu)>>, c)
<1>1. Len(Tail(fu)) = Len(fu) - 1 /\ Len(<<Head(fu)>>) = 1 /\ Len(<<>>) = 0
      /\ Len(fr) \in Nat /\ Len(fu) \in Nat
  BY TailElements
<1>2. \A x : IsIn(x, fu) <=> x = Head(fu) \/ IsIn(x, Tail(fu)) BY TailIn
<1>3. \A x : (IsIn(x, <<Head(fu)>>) <=> x = Head(fu)) /\ ~IsIn(x, <<>>) BY DEF IsIn
<1>4. Len(fr) + Len(Tail(fu)) + Len(<<Head(fu)>>) + 1 = BufCount BY <1>1 DEF Whole
<1> QED BY <1>2, <1>3, <1>4 DEF Whole

\* There is room for the buffer that the PSRAM task gives back.
LEMMA GiveWhole ==
    ASSUME NEW fr \in Seq(Slots), NEW fu \in Seq(Slots), NEW b \in Slots, NEW c,
           Whole(fr, fu, <<b>>, c)
    PROVE  Send(fr, b) = Append(fr, b) /\ Whole(Append(fr, b), fu, <<>>, c)
<1>1. Len(Append(fr, b)) = Len(fr) + 1 /\ Len(<<b>>) = 1 /\ Len(<<>>) = 0
      /\ Len(fr) \in Nat /\ Len(fu) \in Nat
  BY AppendElements
<1>2. \A x : IsIn(x, Append(fr, b)) <=> IsIn(x, fr) \/ x = b BY AppendIn
<1>3. \A x : (IsIn(x, <<b>>) <=> x = b) /\ ~IsIn(x, <<>>) BY DEF IsIn
<1>4. Len(Append(fr, b)) + Len(fu) + Len(<<>>) + 1 = BufCount BY <1>1 DEF Whole
<1>5. Len(fr) < BufCount BY <1>1 DEF Whole
<1>6. Send(fr, b) = Append(fr, b) BY <1>5 DEF Send
<1> QED BY <1>2, <1>3, <1>4, <1>6 DEF Whole

Conserved(t) ==
    /\ Apart(free[t], full[t], Held(t), cur[t])
    /\ ~starved[t] => Whole(free[t], full[t], Held(t), cur[t])

LEMMA HeldTyped == TypeInv => \A t \in Stream : Held(t) \in Seq(Slots)
<1> SUFFICES ASSUME TypeInv, NEW t \in Stream PROVE Held(t) \in Seq(Slots) OBVIOUS
<1>1. StoreTypes BY TypeParts DEF TypeInv
<1>2. hold # <<>> => hold[2] \in Slots BY <1>1 DEF StoreTypes
<1> QED BY <1>2 DEF Held

LEMMA InitConserved == Init => \A t \in Stream : Conserved(t)
<1> SUFFICES ASSUME Init, NEW t \in Stream PROVE Conserved(t) OBVIOUS
<1> DEFINE fr == [i \in 1 .. BufCount - 1 |-> i + 1]
<1>1. BufCount \in Nat \ {0} BY DlsAssumption
<1>2. free[t] = fr /\ full[t] = <<>> /\ cur[t] = 1 /\ hold = <<>> BY Zenon DEF Init
<1>3. Held(t) = <<>> BY <1>2 DEF Held
<1>4. Len(fr) = BufCount - 1 /\ \A i \in 1 .. Len(fr) : fr[i] = i + 1 BY <1>1
<1> DEFINE e == <<>>
<1>5. Len(e) = 0 OBVIOUS
<1> HIDE DEF fr, e
<1>6. Apart(fr, e, e, 1) BY <1>1, <1>4, <1>5 DEF Apart
<1>7. ASSUME NEW b \in Buffer, b # 1 PROVE IsIn(b, fr)
  <2>1. b - 1 \in 1 .. Len(fr) BY <1>1, <1>4, <1>7 DEF Buffer
  <2>2. fr[b - 1] = b BY <1>4, <1>7, <2>1 DEF Buffer
  <2> QED BY <2>1, <2>2 DEF IsIn
<1>8. ~IsIn(NULL, fr) /\ ~IsIn(NULL, e) BY <1>1, <1>4, <1>5 DEF IsIn, NULL
<1>9. Whole(fr, e, e, 1) BY <1>1, <1>4, <1>5, <1>7, <1>8 DEF Whole, NULL
<1> QED BY <1>2, <1>3, <1>6, <1>9 DEF Conserved, e

LEMMA StepConserved ==
    ASSUME TypeInv, NEW t \in Stream, StreamStep(t), Conserved(t)
    PROVE  Conserved(t)'
<1>1. BufferTypes /\ Held(t) \in Seq(Slots) BY TypeParts, HeldTyped DEF TypeInv
<1>2. /\ free[t] \in Seq(Slots) /\ full[t] \in Seq(Slots) /\ cur[t] \in Slots
      /\ starved[t] \in BOOLEAN
  BY <1>1 DEF BufferTypes
<1>3. Apart(free[t], full[t], Held(t), cur[t])
      /\ (~starved[t] => Whole(free[t], full[t], Held(t), cur[t]))
  BY DEF Conserved
<1> SUFFICES /\ Apart(free'[t], full'[t], Held(t)', cur'[t])
             /\ ~starved'[t] => Whole(free'[t], full'[t], Held(t)', cur'[t])
  BY Zenon DEF Conserved
<1>4. CASE Keeps(t) \/ Restarts(t)
  BY <1>3, <1>4 DEF Keeps, Restarts, StoreKept, BuffersKept, FlagsKept
<1>5. CASE Exchanges(t)
  BY <1>1, <1>2, <1>3, <1>5, ExchangeApart, ExchangeWhole
  DEF Exchanges, Fills, StoreKept, FlagsKept
<1>6. CASE Overruns(t)
  <2>1. /\ cur'[t] = cur[t] /\ full'[t] = full[t] /\ Held(t)' = Held(t) /\ starved'[t] = starved[t]
    BY <1>6 DEF Overruns, Fills, StoreKept
  <2>2. CASE free'[t] = free[t] BY <1>3, <2>1, <2>2
  <2>3. CASE free[t] # <<>> /\ Len(full[t]) = BufCount /\ free'[t] = Tail(free[t])
    <3>1. Apart(Tail(free[t]), full[t], Held(t), cur[t]) BY <1>2, <1>3, <2>3, DropApart
    <3>2. ~Whole(free[t], full[t], Held(t), cur[t])
      <4>1. Len(free[t]) \in Nat /\ Len(full[t]) \in Nat /\ Len(Held(t)) \in Nat BY <1>1, <1>2
      <4> QED BY <2>3, <4>1 DEF Whole
    <3> QED BY <1>3, <2>1, <2>3, <3>1, <3>2
  <2> QED BY <1>6, <2>2, <2>3 DEF Overruns
<1>7. CASE Dries(t)
  BY <1>1, <1>2, <1>3, <1>7, DryApart DEF Dries, Fills, StoreKept
<1>8. CASE Takes(t)
  BY <1>2, <1>3, <1>8, TakeApart, TakeWhole DEF Takes, FlagsKept
<1>9. CASE Stores(t)
  <2>1. PICK b \in Slots :
           /\ Held(t) = <<b>> /\ Held(t)' = <<>> /\ free'[t] = Send(free[t], b)
           /\ cur'[t] = cur[t] /\ full'[t] = full[t] /\ FlagsKept(t)
    BY <1>9 DEF Stores
  <2>2. Apart(Append(free[t], b), full[t], <<>>, cur[t]) /\ Apart(free[t], full[t], <<>>, cur[t])
    BY <1>2, <1>3, <2>1, GiveApart
  <2>3. Apart(free'[t], full'[t], Held(t)', cur'[t]) BY <2>1, <2>2 DEF Send
  <2>4. ~starved[t] => free'[t] = Append(free[t], b)
                        /\ Whole(Append(free[t], b), full[t], <<>>, cur[t])
    BY <1>2, <1>3, <2>1, GiveWhole
  <2> QED BY <2>1, <2>3, <2>4 DEF FlagsKept
<1> QED BY <1>4, <1>5, <1>6, <1>7, <1>8, <1>9 DEF StreamStep

LEMMA ConcatElements ==
    \A q, r \in Seq(Slots) :
        /\ q \o r \in Seq(Slots) /\ Len(q \o r) = Len(q) + Len(r)
        /\ Len(q) \in Nat /\ Len(r) \in Nat
        /\ \A i \in 1 .. Len(q) + Len(r) :
              (q \o r)[i] = IF i <= Len(q) THEN q[i] ELSE r[i - Len(q)]
BY ConcatProperties

\* The queues, the buffer that is held and the current one, one after the other.
LEMMA PlacesElements ==
    ASSUME NEW fr \in Seq(Slots), NEW fu \in Seq(Slots), NEW h \in Seq(Slots), NEW c \in Slots
    PROVE  LET p == fr \o fu \o h \o <<c>>
               a == Len(fr)
               b == Len(fu)
               d == Len(h)
           IN  /\ DOMAIN p = 1 .. a + b + d + 1
               /\ \A i \in 1 .. a + b + d + 1 :
                     p[i] = IF i <= a THEN fr[i]
                            ELSE IF i <= a + b THEN fu[i - a]
                            ELSE IF i <= a + b + d THEN h[i - a - b]
                            ELSE c
<1> DEFINE a == Len(fr)  b == Len(fu)  d == Len(h)  one == <<c>>
           p1 == fr \o fu  p2 == p1 \o h  p == p2 \o one
<1>0. one \in Seq(Slots) /\ Len(one) = 1 /\ one[1] = c OBVIOUS
<1>1. /\ p1 \in Seq(Slots) /\ Len(p1) = a + b /\ a \in Nat /\ b \in Nat /\ d \in Nat
      /\ \A i \in 1 .. a + b : p1[i] = IF i <= a THEN fr[i] ELSE fu[i - a]
  BY ConcatElements
<1> HIDE DEF p1, one
<1>2. /\ p2 \in Seq(Slots) /\ Len(p2) = Len(p1) + d
      /\ \A i \in 1 .. Len(p1) + d : p2[i] = IF i <= Len(p1) THEN p1[i] ELSE h[i - Len(p1)]
  BY <1>1, ConcatElements
<1> HIDE DEF p2
<1>3. /\ p \in Seq(Slots) /\ Len(p) = Len(p2) + 1
      /\ \A i \in 1 .. Len(p2) + 1 : p[i] = IF i <= Len(p2) THEN p2[i] ELSE one[i - Len(p2)]
  <2>1. p2 \in Seq(Slots) /\ one \in Seq(Slots) BY <1>0, <1>2
  <2>2. p = p2 \o one OBVIOUS
  <2> HIDE DEF p, a, b, d
  <2>3. /\ p2 \o one \in Seq(Slots) /\ Len(p2 \o one) = Len(p2) + Len(one)
        /\ \A i \in 1 .. Len(p2) + Len(one) :
              (p2 \o one)[i] = IF i <= Len(p2) THEN p2[i] ELSE one[i - Len(p2)]
    BY <2>1, ConcatElements
  <2> QED BY <1>0, <2>2, <2>3
<1> HIDE DEF p, a, b, d
<1>4. DOMAIN p = 1 .. a + b + d + 1 BY <1>1, <1>2, <1>3
<1>5. ASSUME NEW i \in 1 .. a + b + d + 1
      PROVE  p[i] = IF i <= a THEN fr[i]
                    ELSE IF i <= a + b THEN fu[i - a]
                    ELSE IF i <= a + b + d THEN h[i - a - b]
                    ELSE c
  <2>1. CASE i <= a + b
    <3>1. i \in 1 .. Len(p1) /\ i \in 1 .. Len(p2) BY <1>1, <1>2, <1>5, <2>1
    <3>2. p[i] = p1[i] BY <1>1, <1>2, <1>3, <3>1
    <3> QED BY <1>1, <1>5, <2>1, <3>1, <3>2
  <2>2. CASE i > a + b /\ i <= a + b + d
    <3>1. p[i] = h[i - Len(p1)] BY <1>1, <1>2, <1>3, <1>5, <2>2
    <3> QED BY <1>1, <1>5, <2>2, <3>1
  <2>3. CASE i > a + b + d
    <3>1. i = Len(p2) + 1 BY <1>1, <1>2, <1>5, <2>3
    <3>2. p[i] = one[1] BY <1>1, <1>2, <1>3, <3>1
    <3> QED BY <1>0, <1>1, <1>5, <2>3, <3>2
  <2> QED BY <1>1, <1>5, <2>1, <2>2, <2>3
<1> QED BY <1>4, <1>5 DEF p, p2, p1, one, a, b, d

\* What is in the parts is in the whole, and nowhere twice.
LEMMA PlacesApart ==
    ASSUME NEW fr \in Seq(Slots), NEW fu \in Seq(Slots), NEW h \in Seq(Slots), NEW c \in Slots,
           Apart(fr, fu, h, c), Len(h) <= 1
    PROVE  LET p == fr \o fu \o h \o <<c>>
           IN  \A i, j \in DOMAIN p : p[i] = p[j] /\ p[i] # NULL => i = j
<1> DEFINE a == Len(fr)  b == Len(fu)  d == Len(h)  p == fr \o fu \o h \o <<c>>
<1>1. /\ DOMAIN p = 1 .. a + b + d + 1
      /\ \A i \in 1 .. a + b + d + 1 :
            p[i] = IF i <= a THEN fr[i] ELSE IF i <= a + b THEN fu[i - a]
                   ELSE IF i <= a + b + d THEN h[i - a - b] ELSE c
  BY PlacesElements
<1>2. a \in Nat /\ b \in Nat /\ d \in Nat /\ d <= 1 OBVIOUS
<1>3. /\ \A i, j \in 1 .. a : fr[i] = fr[j] /\ fr[i] # NULL => i = j
      /\ \A i, j \in 1 .. b : fu[i] = fu[j] /\ fu[i] # NULL => i = j
      /\ \A i \in 1 .. a, j \in 1 .. b : fr[i] # NULL => fr[i] # fu[j]
      /\ \A i \in 1 .. a, j \in 1 .. d : fr[i] # NULL => fr[i] # h[j]
      /\ \A i \in 1 .. b, j \in 1 .. d : fu[i] # NULL => fu[i] # h[j]
      /\ \A i \in 1 .. a : fr[i] # NULL => fr[i] # c
      /\ \A i \in 1 .. b : fu[i] # NULL => fu[i] # c
      /\ \A i \in 1 .. d : h[i] # NULL => h[i] # c
  BY DEF Apart
<1> HIDE DEF a, b, d, p
<1>4. ASSUME NEW i \in 1 .. a + b + d + 1
      PROVE  \/ i \in 1 .. a /\ p[i] = fr[i]
             \/ i - a \in 1 .. b /\ p[i] = fu[i - a]
             \/ i - a - b \in 1 .. d /\ p[i] = h[i - a - b]
             \/ i = a + b + d + 1 /\ p[i] = c
  <2>1. p[i] = IF i <= a THEN fr[i] ELSE IF i <= a + b THEN fu[i - a]
               ELSE IF i <= a + b + d THEN h[i - a - b] ELSE c
    BY <1>1
  <2>2. CASE i <= a
    <3>1. i \in 1 .. a BY <1>2, <2>2
    <3> QED BY <2>1, <2>2, <3>1
  <2>3. CASE ~(i <= a) /\ i <= a + b
    <3>1. i - a \in 1 .. b BY <1>2, <2>3
    <3> QED BY <2>1, <2>3, <3>1
  <2>4. CASE ~(i <= a) /\ ~(i <= a + b) /\ i <= a + b + d
    <3>1. i - a - b \in 1 .. d BY <1>2, <2>4
    <3> QED BY <2>1, <2>4, <3>1
  <2>5. CASE ~(i <= a) /\ ~(i <= a + b) /\ ~(i <= a + b + d)
    <3>1. i = a + b + d + 1 BY <1>2, <2>5
    <3> QED BY <2>1, <2>5, <3>1
  <2> QED BY <2>2, <2>3, <2>4, <2>5
<1> SUFFICES ASSUME NEW i \in 1 .. a + b + d + 1, NEW j \in 1 .. a + b + d + 1,
                    p[i] = p[j], p[i] # NULL
             PROVE  i = j
  BY <1>1 DEF p
<1>5. i \in Int /\ j \in Int BY <1>2
<1>j. \/ j \in 1 .. a /\ p[j] = fr[j]
      \/ j - a \in 1 .. b /\ p[j] = fu[j - a]
      \/ j - a - b \in 1 .. d /\ p[j] = h[j - a - b]
      \/ j = a + b + d + 1 /\ p[j] = c
  BY <1>4
<1> DEFINE i1 == i - a  i2 == i - a - b  j1 == j - a  j2 == j - a - b
<1>d. (i1 = j1 <=> i = j) /\ (i2 = j2 <=> i = j) /\ (i2 \in 1 .. d /\ j2 \in 1 .. d => i2 = j2)
  BY <1>2, <1>5
<1>k. \/ j \in 1 .. a /\ p[j] = fr[j]
      \/ j1 \in 1 .. b /\ p[j] = fu[j1]
      \/ j2 \in 1 .. d /\ p[j] = h[j2]
      \/ j = a + b + d + 1 /\ p[j] = c
  BY <1>j
<1>i. \/ i \in 1 .. a /\ p[i] = fr[i]
      \/ i1 \in 1 .. b /\ p[i] = fu[i1]
      \/ i2 \in 1 .. d /\ p[i] = h[i2]
      \/ i = a + b + d + 1 /\ p[i] = c
  BY <1>4
<1> HIDE DEF i1, i2, j1, j2
<1>6. CASE i \in 1 .. a /\ p[i] = fr[i] BY <1>3, <1>k, <1>6
<1>7. CASE i1 \in 1 .. b /\ p[i] = fu[i1] BY <1>3, <1>d, <1>k, <1>7
<1>8. CASE i2 \in 1 .. d /\ p[i] = h[i2] BY <1>3, <1>d, <1>k, <1>8
<1>9. CASE i = a + b + d + 1 /\ p[i] = c BY <1>3, <1>d, <1>k, <1>9
<1> QED BY <1>i, <1>6, <1>7, <1>8, <1>9

Covers(p, fr, fu, h, c) ==
    \A x : IsIn(x, fr) \/ IsIn(x, fu) \/ IsIn(x, h) \/ x = c => \E i \in DOMAIN p : p[i] = x

LEMMA PlacesWhole ==
    ASSUME NEW fr \in Seq(Slots), NEW fu \in Seq(Slots), NEW h \in Seq(Slots), NEW c \in Slots
    PROVE  Covers(fr \o fu \o h \o <<c>>, fr, fu, h, c)
<1> DEFINE a == Len(fr)  b == Len(fu)  d == Len(h)  p == fr \o fu \o h \o <<c>>
<1>1. /\ DOMAIN p = 1 .. a + b + d + 1
      /\ \A i \in 1 .. a + b + d + 1 :
            p[i] = IF i <= a THEN fr[i] ELSE IF i <= a + b THEN fu[i - a]
                   ELSE IF i <= a + b + d THEN h[i - a - b] ELSE c
  BY PlacesElements
<1>2. a \in Nat /\ b \in Nat /\ d \in Nat OBVIOUS
<1> HIDE DEF p
<1> SUFFICES ASSUME NEW x, IsIn(x, fr) \/ IsIn(x, fu) \/ IsIn(x, h) \/ x = c
             PROVE  \E i \in DOMAIN p : p[i] = x
  BY DEF p, Covers
<1>3. IsIn(x, fr) => \E i \in 1 .. a : fr[i] = x BY DEF IsIn
<1>4. IsIn(x, fu) => \E i \in 1 .. b : fu[i] = x BY DEF IsIn
<1>5. IsIn(x, h) => \E i \in 1 .. d : h[i] = x BY DEF IsIn
<1> HIDE DEF a, b, d
<1>6. CASE IsIn(x, fr)
  <2>1. PICK i \in 1 .. a : fr[i] = x BY <1>3, <1>6
  <2>2. i \in 1 .. a + b + d + 1 BY <1>2, <2>1
  <2>3. p[i] = x BY <1>1, <1>2, <2>1, <2>2
  <2> QED BY <1>1, <2>2, <2>3
<1>7. CASE IsIn(x, fu)
  <2>1. PICK i \in 1 .. b : fu[i] = x BY <1>4, <1>7
  <2>2. a + i \in 1 .. a + b + d + 1 /\ ~(a + i <= a) /\ a + i <= a + b /\ (a + i) - a = i
    BY <1>2, <2>1
  <2>3. p[a + i] = x BY <1>1, <1>2, <2>1, <2>2
  <2> QED BY <1>1, <2>2, <2>3
<1>8. CASE IsIn(x, h)
  <2>1. PICK i \in 1 .. d : h[i] = x BY <1>5, <1>8
  <2>2. a + b + i \in 1 .. a + b + d + 1 /\ (a + b + i) - a - b = i BY <1>2, <2>1
  <2>3. p[a + b + i] = x BY <1>1, <1>2, <2>1, <2>2
  <2> QED BY <1>1, <2>2, <2>3
<1>9. CASE x = c
  <2>1. a + b + d + 1 \in 1 .. a + b + d + 1 BY <1>2
  <2>2. p[a + b + d + 1] = c BY <1>1, <1>2, <2>1
  <2> QED BY <1>1, <1>9, <2>1, <2>2
<1> QED BY <1>6, <1>7, <1>8, <1>9

LEMMA ConservedMeans == TypeInv /\ (\A t \in Stream : Conserved(t)) => BuffersConserved
<1> SUFFICES ASSUME TypeInv, NEW s \in Stream, Conserved(s)
             PROVE  /\ \A i, j \in DOMAIN Places(s) :
                          Places(s)[i] = Places(s)[j] /\ Places(s)[i] # NULL => i = j
                    /\ ~starved[s] =>
                          \A b \in Buffer : \E i \in DOMAIN Places(s) : Places(s)[i] = b
  BY DEF BuffersConserved
<1>1. BufferTypes /\ Held(s) \in Seq(Slots) BY TypeParts, HeldTyped DEF TypeInv
<1>2. free[s] \in Seq(Slots) /\ full[s] \in Seq(Slots) /\ cur[s] \in Slots
  BY <1>1 DEF BufferTypes
<1>3. Len(Held(s)) <= 1 BY DEF Held
<1>4. \A i, j \in DOMAIN Places(s) : Places(s)[i] = Places(s)[j] /\ Places(s)[i] # NULL => i = j
  <2>1. Apart(free[s], full[s], Held(s), cur[s]) BY DEF Conserved
  <2> QED BY <1>1, <1>2, <1>3, <2>1, PlacesApart, Zenon DEF Places
<1>5. ASSUME ~starved[s], NEW b \in Buffer PROVE \E i \in DOMAIN Places(s) : Places(s)[i] = b
  <2>a. Whole(free[s], full[s], Held(s), cur[s]) BY <1>5, Zenon DEF Conserved
  <2>1. IsIn(b, free[s]) \/ IsIn(b, full[s]) \/ IsIn(b, Held(s)) \/ b = cur[s]
    BY <2>a, Zenon DEF Whole
  <2>2. Covers(Places(s), free[s], full[s], Held(s), cur[s])
    BY <1>1, <1>2, PlacesWhole, Zenon DEF Places
  <2> QED BY <2>1, <2>2, Zenon DEF Covers
<1> QED BY <1>4, <1>5

BufferInv == TypeInv /\ HoldInv /\ \A t \in Stream : Conserved(t)

LEMMA InitBuffers == Init => BufferInv
<1>1. Init => HoldInv BY DEF Init, HoldInv
<1> QED BY <1>1, InitTypes, InitConserved DEF BufferInv

LEMMA StepBuffers == BufferInv /\ [Next]_vars => BufferInv'
<1> SUFFICES ASSUME BufferInv, [Next]_vars PROVE BufferInv' OBVIOUS
<1>1. TypeInv /\ HoldInv /\ \A t \in Stream : Conserved(t) BY DEF BufferInv
<1>2. TypeInv' /\ HoldInv' BY <1>1, StepTypes
<1>3. \A t \in Stream : StreamStep(t) BY <1>1, StreamSteps
<1>4. \A t \in Stream : Conserved(t)' BY <1>1, <1>3, StepConserved
<1> QED BY <1>2, <1>4 DEF BufferInv

\* No buffer is ever in two places, and none is lost before a flush finds no
\* free one: BuffersConserved holds of every behaviour.
THEOREM BuffersAreConserved == Spec => []BuffersConserved
<1>1. BufferInv => BuffersConserved BY ConservedMeans DEF BufferInv
<1> QED BY <1>1, InitBuffers, StepBuffers, PTL DEF Spec

----------------------------------------------------------------------------
(* The stored region is the run                                            *)

\* The blocks in the buffers of h and then of q.
Blocks(h, q, B) == [i \in DOMAIN (h \o q) |-> B[(h \o q)[i]]]
Waiting(t) == Blocks(Held(t), full[t], block[t])

\* The first n blocks of m and then those of w are of run r, in the order of their
\* numbers, of which f is the last that has been given.
InOrder(m, n, w, r, f) ==
    /\ \A i \in 1 .. n : m[i].run = r /\ m[i].num <= f
    /\ \A i \in 1 .. Len(w) : w[i].run = r /\ w[i].num <= f
    /\ \A i, j \in 1 .. n : i < j => m[i].num < m[j].num
    /\ \A i, j \in 1 .. Len(w) : i < j => w[i].num < w[j].num
    /\ \A i \in 1 .. n, j \in 1 .. Len(w) : m[i].num < w[j].num

KeptInOrder(t) ==
    calm /\ ~starved[t] =>
        /\ InOrder(mem[t], addr[t], Waiting(t), run, filled[t])
        /\ ~overrun[t] => addr[t] + Len(Waiting(t)) = filled[t]

BlockMap == [Slots -> Block]

LEMMA BlocksElements ==
    \A h, q \in Seq(Slots), B \in BlockMap :
        /\ Blocks(h, q, B) \in Seq(Block)
        /\ Len(Blocks(h, q, B)) = Len(h) + Len(q) /\ Len(h) \in Nat /\ Len(q) \in Nat
        /\ \A i \in 1 .. Len(h) + Len(q) :
              Blocks(h, q, B)[i] = B[IF i <= Len(h) THEN h[i] ELSE q[i - Len(h)]]
<1> SUFFICES ASSUME NEW h \in Seq(Slots), NEW q \in Seq(Slots), NEW B \in BlockMap
    PROVE  /\ Blocks(h, q, B) \in Seq(Block)
           /\ Len(Blocks(h, q, B)) = Len(h) + Len(q) /\ Len(h) \in Nat /\ Len(q) \in Nat
           /\ \A i \in 1 .. Len(h) + Len(q) :
                 Blocks(h, q, B)[i] = B[IF i <= Len(h) THEN h[i] ELSE q[i - Len(h)]]
  OBVIOUS
<1> DEFINE p == h \o q  n == Len(h) + Len(q)
<1>1. /\ p \in Seq(Slots) /\ Len(p) = n /\ Len(h) \in Nat /\ Len(q) \in Nat
      /\ \A i \in 1 .. n : p[i] = IF i <= Len(h) THEN h[i] ELSE q[i - Len(h)]
  BY ConcatElements
<1> HIDE DEF p
<1>2. n \in Nat /\ DOMAIN p = 1 .. n /\ \A i \in 1 .. n : p[i] \in Slots BY <1>1
<1> DEFINE w == [i \in DOMAIN p |-> B[p[i]]]
<1>3. w = Blocks(h, q, B) BY DEF Blocks, p
<1> HIDE DEF n
<1>4. w \in [1 .. n -> Block] BY <1>2 DEF BlockMap
<1>5. w \in Seq(Block) /\ Len(w) = n BY <1>2, <1>4
<1>6. \A i \in 1 .. n : w[i] = B[p[i]] BY <1>2
<1> HIDE DEF w
<1> QED BY <1>1, <1>3, <1>5, <1>6 DEF n

\* A block is filled in a buffer that does not wait, and joins those that do.
Joins(h, q, B, c, x, C) ==
    LET w == Blocks(h, q, B)
        v == Blocks(h, Append(q, c), C)
    IN  /\ Blocks(h, q, C) = w
        /\ Len(v) = Len(w) + 1 /\ v[Len(w) + 1] = x
        /\ \A i \in 1 .. Len(w) : v[i] = w[i]

LEMMA BlocksJoin ==
    ASSUME NEW h \in Seq(Slots), NEW q \in Seq(Slots), NEW B \in BlockMap, NEW c \in Slots,
           NEW x \in Block, ~IsIn(c, h), ~IsIn(c, q)
    PROVE  Joins(h, q, B, c, x, [B EXCEPT ![c] = x])
<1> DEFINE C == [B EXCEPT ![c] = x]
           w == Blocks(h, q, B)
           u == Blocks(h, q, C)
           qc == Append(q, c)
           v == Blocks(h, qc, C)
           n == Len(h) + Len(q)
<1>1. C \in BlockMap /\ \A b \in Slots : C[b] = IF b = c THEN x ELSE B[b] BY DEF BlockMap
<1>2. /\ qc \in Seq(Slots) /\ Len(qc) = Len(q) + 1 /\ qc[Len(q) + 1] = c
      /\ Len(h) \in Nat /\ Len(q) \in Nat
      /\ \A i \in 1 .. Len(q) : qc[i] = q[i]
  BY AppendElements
<1> HIDE DEF C, qc
<1>3. /\ w \in Seq(Block) /\ Len(w) = n
      /\ \A i \in 1 .. n : w[i] = B[IF i <= Len(h) THEN h[i] ELSE q[i - Len(h)]]
  BY BlocksElements
<1>4. /\ u \in Seq(Block) /\ Len(u) = n
      /\ \A i \in 1 .. n : u[i] = C[IF i <= Len(h) THEN h[i] ELSE q[i - Len(h)]]
  BY <1>1, BlocksElements
<1>5. /\ v \in Seq(Block) /\ Len(v) = Len(h) + Len(qc)
      /\ \A i \in 1 .. Len(h) + Len(qc) : v[i] = C[IF i <= Len(h) THEN h[i] ELSE qc[i - Len(h)]]
  BY <1>1, <1>2, BlocksElements
<1>6. ASSUME NEW i \in 1 .. n
      PROVE  u[i] = w[i] /\ v[i] = w[i]
  <2>1. CASE i <= Len(h)
    <3>1. i \in 1 .. Len(h) BY <1>2, <2>1
    <3>2. h[i] \in Slots /\ h[i] # c BY <3>1 DEF IsIn
    <3>3. i \in 1 .. Len(h) + Len(qc) BY <1>2
    <3> HIDE DEF u, v, w
    <3>4. u[i] = C[h[i]] /\ w[i] = B[h[i]] BY <1>3, <1>4, <2>1
    <3>5. v[i] = C[h[i]] BY <1>5, <2>1, <3>3
    <3> QED BY <1>1, <3>2, <3>4, <3>5
  <2>2. CASE ~(i <= Len(h))
    <3>1. i - Len(h) \in 1 .. Len(q) BY <1>2, <2>2
    <3>2. q[i - Len(h)] \in Slots /\ q[i - Len(h)] # c BY <3>1 DEF IsIn
    <3>3. i \in 1 .. Len(h) + Len(qc) BY <1>2
    <3> HIDE DEF u, v, w
    <3>4. u[i] = C[q[i - Len(h)]] /\ w[i] = B[q[i - Len(h)]] BY <1>3, <1>4, <2>2
    <3>5. v[i] = C[qc[i - Len(h)]] BY <1>5, <2>2, <3>3
    <3>6. qc[i - Len(h)] = q[i - Len(h)] BY <1>2, <3>1
    <3> QED BY <1>1, <3>2, <3>4, <3>5, <3>6
  <2> QED BY <2>1, <2>2
<1>7. v[n + 1] = x
  <2>1. n + 1 \in 1 .. Len(h) + Len(qc) /\ ~(n + 1 <= Len(h)) /\ (n + 1) - Len(h) = Len(q) + 1
    BY <1>2
  <2> HIDE DEF v, n
  <2>2. v[n + 1] = C[qc[(n + 1) - Len(h)]] BY <1>5, <2>1
  <2> QED BY <1>1, <1>2, <2>1, <2>2
<1>8. Len(v) = n + 1 BY <1>2, <1>5
<1> HIDE DEF u, v, w
<1>9. u = w
  <2>1. n \in Nat BY <1>2
  <2> HIDE DEF n
  <2> QED BY <1>3, <1>4, <1>6, <2>1, SeqEqual
<1> HIDE DEF n
<1>10. /\ u = w /\ Len(v) = Len(w) + 1 /\ v[Len(w) + 1] = x
       /\ \A i \in 1 .. Len(w) : v[i] = w[i]
  BY <1>3, <1>6, <1>7, <1>8, <1>9
<1> QED BY <1>10 DEF u, v, w, C, qc, Joins

\* Taking the first full buffer changes nothing in what waits.
LEMMA BlocksTake ==
    ASSUME NEW q \in Seq(Slots), q # <<>>, NEW B \in BlockMap
    PROVE  Blocks(<<Head(q)>>, Tail(q), B) = Blocks(<<>>, q, B)
<1> DEFINE h == <<Head(q)>>  r == Tail(q)  e == <<>>
           u == Blocks(h, r, B)  w == Blocks(e, q, B)  n == Len(q)
<1>1. /\ r \in Seq(Slots) /\ n \in Nat /\ n > 0 /\ Len(r) = n - 1
      /\ Head(q) = q[1] /\ \A i \in 1 .. n - 1 : r[i] = q[i + 1]
      /\ Head(q) \in Slots
  BY TailElements
<1>2. h \in Seq(Slots) /\ Len(h) = 1 /\ h[1] = q[1] /\ e \in Seq(Slots) /\ Len(e) = 0 BY <1>1
<1> HIDE DEF h, r, e, n
<1>3. /\ u \in Seq(Block) /\ Len(u) = Len(h) + Len(r)
      /\ \A i \in 1 .. Len(h) + Len(r) : u[i] = B[IF i <= Len(h) THEN h[i] ELSE r[i - Len(h)]]
  BY <1>1, <1>2, BlocksElements
<1>4. /\ w \in Seq(Block) /\ Len(w) = Len(e) + Len(q)
      /\ \A i \in 1 .. Len(e) + Len(q) : w[i] = B[IF i <= Len(e) THEN e[i] ELSE q[i - Len(e)]]
  BY <1>2, BlocksElements
<1> HIDE DEF u, w
<1>5. ASSUME NEW i \in 1 .. n PROVE u[i] = w[i]
  <2>1. w[i] = B[q[i]]
    <3>1. i \in 1 .. Len(e) + Len(q) /\ ~(i <= Len(e)) /\ i - Len(e) = i BY <1>1, <1>2 DEF n
    <3> QED BY <1>4, <3>1
  <2>2. i \in 1 .. Len(h) + Len(r) BY <1>1, <1>2
  <2>3. CASE i = 1
    <3>1. u[i] = B[h[1]] BY <1>2, <1>3, <2>2, <2>3
    <3> QED BY <1>2, <2>1, <2>3, <3>1
  <2>4. CASE i # 1
    <3>1. i - 1 \in 1 .. n - 1 /\ ~(i <= 1) /\ (i - 1) + 1 = i BY <1>1, <2>4
    <3>2. u[i] = B[r[i - 1]] BY <1>2, <1>3, <2>2, <3>1
    <3> QED BY <1>1, <2>1, <3>1, <3>2
  <2> QED BY <2>3, <2>4
<1>6. Len(u) = n /\ Len(w) = n BY <1>1, <1>2, <1>3, <1>4 DEF n
<1>7. u = w BY <1>1, <1>3, <1>4, <1>5, <1>6, SeqEqual
<1> QED BY <1>7 DEF u, w, h, r, e

\* The block that is stored is the first of those that wait.
LEMMA BlocksStore ==
    ASSUME NEW q \in Seq(Slots), NEW b \in Slots, NEW B \in BlockMap
    PROVE  LET w == Blocks(<<b>>, q, B)
               v == Blocks(<<>>, q, B)
           IN  /\ Len(w) = Len(v) + 1 /\ w[1] = B[b]
               /\ \A i \in 1 .. Len(v) : v[i] = w[i + 1]
<1> DEFINE h == <<b>>  e == <<>>  w == Blocks(h, q, B)  v == Blocks(e, q, B)
<1>1. h \in Seq(Slots) /\ Len(h) = 1 /\ h[1] = b /\ e \in Seq(Slots) /\ Len(e) = 0
      /\ Len(q) \in Nat
  OBVIOUS
<1> HIDE DEF h, e
<1>2. /\ Len(w) = Len(h) + Len(q)
      /\ \A i \in 1 .. Len(h) + Len(q) : w[i] = B[IF i <= Len(h) THEN h[i] ELSE q[i - Len(h)]]
  BY <1>1, BlocksElements
<1>3. /\ Len(v) = Len(e) + Len(q)
      /\ \A i \in 1 .. Len(e) + Len(q) : v[i] = B[IF i <= Len(e) THEN e[i] ELSE q[i - Len(e)]]
  BY <1>1, BlocksElements
<1> HIDE DEF v, w
<1>4. w[1] = B[b]
  <2>1. 1 \in 1 .. Len(h) + Len(q) /\ 1 <= Len(h) BY <1>1
  <2> QED BY <1>1, <1>2, <2>1
<1>5. ASSUME NEW i \in 1 .. Len(v) PROVE v[i] = w[i + 1]
  <2>1. i \in 1 .. Len(e) + Len(q) /\ ~(i <= Len(e)) /\ i - Len(e) = i BY <1>1, <1>3
  <2>2. i + 1 \in 1 .. Len(h) + Len(q) /\ ~(i + 1 <= Len(h)) /\ (i + 1) - Len(h) = i
    BY <1>1, <1>3
  <2>3. v[i] = B[q[i]] BY <1>3, <2>1
  <2>4. w[i + 1] = B[q[i]] BY <1>2, <2>2
  <2> QED BY <2>3, <2>4
<1>6. Len(w) = Len(v) + 1 BY <1>1, <1>2, <1>3
<1> QED BY <1>4, <1>5, <1>6 DEF v, w, h, e

LEMMA NumIsNat == \A q \in Seq(Block) : \A i \in 1 .. Len(q) : q[i] \in Block /\ q[i].num \in Nat
<1>1. \A x \in Block : x.num \in Nat BY DlsAssumption DEF Block
<1> QED BY <1>1

LEMMA JoinInOrder ==
    ASSUME NEW m \in Seq(Block), NEW n \in Nat, n <= Len(m), NEW w \in Seq(Block), NEW r,
           NEW f \in Nat, InOrder(m, n, w, r, f), NEW v \in Seq(Block),
           Len(v) = Len(w) + 1, v[Len(w) + 1] = [run |-> r, num |-> f + 1],
           \A i \in 1 .. Len(w) : v[i] = w[i]
    PROVE  InOrder(m, n, v, r, f + 1) /\ InOrder(m, n, w, r, f + 1)
<1>1. /\ \A i \in 1 .. n : i \in 1 .. Len(m) /\ m[i].num \in Nat
      /\ \A i \in 1 .. Len(w) : w[i].num \in Nat
      /\ Len(w) \in Nat
  BY NumIsNat
<1>2. \A i \in 1 .. Len(v) : \/ i \in 1 .. Len(w) /\ v[i] = w[i]
                             \/ i = Len(w) + 1 /\ v[i].run = r /\ v[i].num = f + 1
  BY <1>1
<1>3. /\ \A i \in 1 .. n : m[i].run = r /\ m[i].num <= f + 1 /\ m[i].num < f + 1
      /\ \A i \in 1 .. Len(w) : w[i].run = r /\ w[i].num <= f + 1 /\ w[i].num < f + 1
      /\ \A i, j \in 1 .. n : i < j => m[i].num < m[j].num
      /\ \A i, j \in 1 .. Len(w) : i < j => w[i].num < w[j].num
      /\ \A i \in 1 .. n, j \in 1 .. Len(w) : m[i].num < w[j].num
  BY <1>1 DEF InOrder
<1>4. \A i \in 1 .. Len(v) : v[i].run = r /\ v[i].num <= f + 1 BY <1>2, <1>3
<1>5. \A i, j \in 1 .. Len(v) : i < j => v[i].num < v[j].num
  <2> SUFFICES ASSUME NEW i \in 1 .. Len(v), NEW j \in 1 .. Len(v), i < j
               PROVE  v[i].num < v[j].num
    OBVIOUS
  <2>1. i \in 1 .. Len(w) /\ v[i] = w[i] BY <1>1, <1>2
  <2>2. CASE j \in 1 .. Len(w) BY <1>2, <1>3, <2>1, <2>2
  <2>3. CASE j = Len(w) + 1 BY <1>3, <2>1, <2>3
  <2> QED BY <1>2, <2>2, <2>3
<1>6. \A i \in 1 .. n, j \in 1 .. Len(v) : m[i].num < v[j].num BY <1>2, <1>3
<1>7. InOrder(m, n, v, r, f + 1) BY <1>3, <1>4, <1>5, <1>6 DEF InOrder
<1>8. InOrder(m, n, w, r, f + 1) BY <1>3 DEF InOrder
<1> QED BY <1>7, <1>8

LEMMA StoreInOrder ==
    ASSUME NEW m \in Seq(Block), NEW n \in Nat, n <= Len(m), NEW w \in Seq(Block), NEW r,
           NEW f \in Nat, InOrder(m, n, w, r, f), NEW v \in Seq(Block),
           Len(w) = Len(v) + 1, \A i \in 1 .. Len(v) : v[i] = w[i + 1]
    PROVE  InOrder(WriteAt(m, n, w[1]), n + 1, v, r, f)
<1> DEFINE x == w[1]  k == WriteAt(m, n, x)
<1>0. 1 \in 1 .. Len(w) /\ Len(v) \in Nat /\ x \in Block OBVIOUS
<1> HIDE DEF x
<1>1. /\ Len(k) = (IF Len(m) > n THEN Len(m) ELSE n + 1)
      /\ \A i \in 1 .. Len(k) : k[i] = IF i = n + 1 THEN x ELSE m[i]
  <2>1. Written(k, m, n, x) BY <1>0, WriteAtTyped
  <2> HIDE DEF k
  <2> QED BY <2>1 DEF Written
<1> USE DEF x
<1> HIDE DEF k
<1>2. \A i \in 1 .. n + 1 : \/ i \in 1 .. n /\ k[i] = m[i]
                            \/ i = n + 1 /\ k[i] = w[1]
  <2> SUFFICES ASSUME NEW i \in 1 .. n + 1
               PROVE  \/ i \in 1 .. n /\ k[i] = m[i]
                      \/ i = n + 1 /\ k[i] = w[1]
    OBVIOUS
  <2>1. Len(m) \in Nat /\ i \in 1 .. Len(k) BY <1>1
  <2>2. k[i] = IF i = n + 1 THEN x ELSE m[i] BY <1>1, <2>1
  <2>3. i = n + 1 \/ i \in 1 .. n OBVIOUS
  <2>4. i \in 1 .. n => i # n + 1 OBVIOUS
  <2> QED BY <2>2, <2>3, <2>4
<1>3. \A i \in 1 .. Len(v) : i + 1 \in 1 .. Len(w) /\ i + 1 > 1 BY <1>0
<1>4. /\ \A i \in 1 .. n : m[i].run = r /\ m[i].num <= f
      /\ \A i \in 1 .. Len(w) : w[i].run = r /\ w[i].num <= f
      /\ \A i, j \in 1 .. n : i < j => m[i].num < m[j].num
      /\ \A i, j \in 1 .. Len(w) : i < j => w[i].num < w[j].num
      /\ \A i \in 1 .. n, j \in 1 .. Len(w) : m[i].num < w[j].num
  BY DEF InOrder
<1>5. \A i \in 1 .. n + 1 : k[i].run = r /\ k[i].num <= f BY <1>0, <1>2, <1>4
<1>6. \A i \in 1 .. Len(v) : v[i].run = r /\ v[i].num <= f BY <1>3, <1>4
<1>7. \A i, j \in 1 .. n + 1 : i < j => k[i].num < k[j].num
  <2> SUFFICES ASSUME NEW i \in 1 .. n + 1, NEW j \in 1 .. n + 1, i < j
               PROVE  k[i].num < k[j].num
    OBVIOUS
  <2>1. i \in 1 .. n /\ k[i] = m[i] BY <1>2
  <2> QED BY <1>0, <1>2, <1>4, <2>1
<1>8. \A i, j \in 1 .. Len(v) : i < j => v[i].num < v[j].num
  <2> SUFFICES ASSUME NEW i \in 1 .. Len(v), NEW j \in 1 .. Len(v), i < j
               PROVE  v[i].num < v[j].num
    OBVIOUS
  <2>1. i + 1 \in 1 .. Len(w) /\ j + 1 \in 1 .. Len(w) /\ i + 1 < j + 1 BY <1>3
  <2>2. w[i + 1].num < w[j + 1].num BY <1>4, <2>1
  <2> QED BY <2>2
<1>9. \A i \in 1 .. n + 1, j \in 1 .. Len(v) : k[i].num < v[j].num
  <2> SUFFICES ASSUME NEW i \in 1 .. n + 1, NEW j \in 1 .. Len(v)
               PROVE  k[i].num < v[j].num
    OBVIOUS
  <2>1. j + 1 \in 1 .. Len(w) /\ 1 < j + 1 /\ v[j] = w[j + 1] BY <1>3
  <2>2. CASE i \in 1 .. n /\ k[i] = m[i] BY <1>4, <2>1, <2>2
  <2>3. CASE i = n + 1 /\ k[i] = w[1] BY <1>0, <1>4, <2>1, <2>3
  <2> QED BY <1>2, <2>2, <2>3
<1> QED BY <1>5, <1>6, <1>7, <1>8, <1>9 DEF InOrder, k

LEMMA InitKept == Init => \A t \in Stream : KeptInOrder(t)
<1> SUFFICES ASSUME Init, NEW t \in Stream PROVE KeptInOrder(t) OBVIOUS
<1>1. /\ addr[t] = 0 /\ filled[t] = 0 /\ full[t] = <<>> /\ hold = <<>>
  BY Zenon DEF Init
<1>2. Held(t) = <<>> BY <1>1 DEF Held
<1>3. Waiting(t) = <<>>
  <2>1. Waiting(t) = [i \in DOMAIN (<<>> \o <<>>) |-> block[t][(<<>> \o <<>>)[i]]]
    BY <1>1, <1>2 DEF Waiting, Blocks
  <2>2. DOMAIN (<<>> \o <<>>) = {} OBVIOUS
  <2> QED BY <2>1, <2>2
<1> DEFINE e == <<>>
<1>4. Len(e) = 0 OBVIOUS
<1> HIDE DEF e
<1>5. InOrder(mem[t], 0, e, run, 0) BY <1>4 DEF InOrder
<1>6. 0 + Len(e) = 0 BY <1>4
<1> QED BY <1>1, <1>3, <1>5, <1>6 DEF KeptInOrder, e

LEMMA StepKept ==
    ASSUME BufferInv, NEW t \in Stream, StreamStep(t), KeptInOrder(t)
    PROVE  KeptInOrder(t)'
<1>1. /\ TypeInv /\ BufferTypes /\ StoreTypes /\ ControlTypes /\ Held(t) \in Seq(Slots)
      /\ RegionReached
  BY TypeParts, HeldTyped DEF TypeInv, BufferInv
<1>2. /\ free[t] \in Seq(Slots) /\ full[t] \in Seq(Slots) /\ cur[t] \in Slots
      /\ starved[t] \in BOOLEAN /\ overrun[t] \in BOOLEAN /\ block[t] \in BlockMap
      /\ filled[t] \in Nat /\ filled[t] >= 0
      /\ addr[t] \in Nat /\ mem[t] \in Seq(Block) /\ addr[t] <= Len(mem[t])
  BY <1>1, DlsAssumption DEF BufferTypes, StoreTypes, RegionReached, BlockMap
<1>3. /\ Waiting(t) \in Seq(Block) /\ Len(Waiting(t)) = Len(Held(t)) + Len(full[t])
      /\ Len(Held(t)) \in Nat /\ Len(full[t]) \in Nat
  BY <1>1, <1>2, BlocksElements DEF Waiting
<1> SUFFICES ASSUME calm', ~starved'[t]
             PROVE  /\ InOrder(mem'[t], addr'[t], Waiting(t)', run', filled'[t])
                    /\ ~overrun'[t] => addr'[t] + Len(Waiting(t)') = filled'[t]
  BY DEF KeptInOrder
<1>w. Waiting(t)' = Blocks(Held(t)', full'[t], block'[t]) BY DEF Waiting, Blocks
<1>4. ASSUME ~starved[t]
      PROVE  /\ cur[t] # NULL /\ ~IsIn(cur[t], full[t]) /\ ~IsIn(cur[t], Held(t))
  <2>1. Whole(free[t], full[t], Held(t), cur[t]) /\ Apart(free[t], full[t], Held(t), cur[t])
    BY <1>4 DEF BufferInv, Conserved
  <2>2. cur[t] # NULL BY <2>1 DEF Whole
  <2> QED BY <2>1, <2>2 DEF Apart, IsIn
<1>5. ASSUME calm, ~starved[t]
      PROVE  /\ InOrder(mem[t], addr[t], Waiting(t), run, filled[t])
             /\ ~overrun[t] => addr[t] + Len(Waiting(t)) = filled[t]
  BY <1>5 DEF KeptInOrder
<1>6. CASE Keeps(t)
  <2>1. Waiting(t)' = Waiting(t) BY <1>6, <1>w DEF Keeps, StoreKept, BuffersKept, CountsKept, Waiting
  <2> QED BY <1>5, <1>6, <2>1 DEF Keeps, StoreKept, CountsKept, FlagsKept
<1>7. ASSUME Fills(t), ~starved[t], calm
      PROVE  LET v == Blocks(Held(t), Append(full[t], cur[t]), block'[t])
                 w == Blocks(Held(t), full[t], block'[t])
             IN  /\ w = Waiting(t) /\ Len(v) = Len(Waiting(t)) + 1
                 /\ InOrder(mem[t], addr[t], v, run, filled[t] + 1)
                 /\ InOrder(mem[t], addr[t], w, run, filled[t] + 1)
  <2> DEFINE x == [run |-> run, num |-> filled[t] + 1]
             v == Blocks(Held(t), Append(full[t], cur[t]), block'[t])
             w == Blocks(Held(t), full[t], block'[t])
  <2>0. x \in Block BY <1>1, <1>2, <1>7, DlsAssumption, BlockTyped DEF ControlTypes, Fills
  <2>1. block'[t] = [block[t] EXCEPT ![cur[t]] = x] BY <1>7 DEF Fills
  <2>2. /\ w = Waiting(t) /\ Len(v) = Len(Waiting(t)) + 1 /\ v[Len(Waiting(t)) + 1] = x
        /\ \A i \in 1 .. Len(Waiting(t)) : v[i] = Waiting(t)[i]
    <3>1. ~IsIn(cur[t], Held(t)) /\ ~IsIn(cur[t], full[t]) BY <1>4, <1>7
    <3> HIDE DEF x
    <3>2. Joins(Held(t), full[t], block[t], cur[t], x, [block[t] EXCEPT ![cur[t]] = x])
      BY <1>1, <1>2, <2>0, <3>1, BlocksJoin
    <3>3. Joins(Held(t), full[t], block[t], cur[t], x, block'[t]) BY <2>1, <3>2
    <3> QED BY <3>3 DEF Joins, Waiting
  <2>3. v \in Seq(Block)
    <3>1. block'[t] \in BlockMap BY <1>2, <2>0, <2>1 DEF BlockMap
    <3>2. Append(full[t], cur[t]) \in Seq(Slots) BY <1>2
    <3> QED BY <1>1, <3>1, <3>2, BlocksElements
  <2>4. InOrder(mem[t], addr[t], Waiting(t), run, filled[t]) BY <1>5, <1>7
  <2> HIDE DEF v, w
  <2>5. InOrder(mem[t], addr[t], v, run, filled[t] + 1)
        /\ InOrder(mem[t], addr[t], Waiting(t), run, filled[t] + 1)
    BY <1>2, <1>3, <2>2, <2>3, <2>4, JoinInOrder DEF x
  <2> QED BY <2>2, <2>5 DEF v, w
<1>8. CASE Exchanges(t)
  <2>1. /\ Fills(t) /\ ~starved[t] /\ calm /\ Held(t)' = Held(t) /\ mem'[t] = mem[t]
        /\ addr'[t] = addr[t] /\ run' = run /\ filled'[t] = filled[t] + 1
        /\ overrun'[t] = overrun[t] /\ full'[t] = Append(full[t], cur[t])
    BY <1>8 DEF Exchanges, Fills, StoreKept, FlagsKept
  <2> DEFINE v == Blocks(Held(t), Append(full[t], cur[t]), block'[t])
  <2>2. Len(v) = Len(Waiting(t)) + 1 /\ InOrder(mem[t], addr[t], v, run, filled[t] + 1)
    BY <1>7, <2>1
  <2>3. Waiting(t)' = v BY <1>w, <2>1
  <2> HIDE DEF v
  <2>4. ~overrun[t] => addr[t] + Len(Waiting(t)) = filled[t] BY <1>5, <2>1
  <2>5. Len(Waiting(t)) \in Nat BY <1>3
  <2>6. ~overrun[t] => addr[t] + Len(v) = filled[t] + 1 BY <1>2, <2>2, <2>4, <2>5
  <2> QED BY <2>1, <2>2, <2>3, <2>6
<1>9. CASE Overruns(t)
  <2>1. /\ Fills(t) /\ ~starved[t] /\ calm /\ Held(t)' = Held(t) /\ mem'[t] = mem[t]
        /\ addr'[t] = addr[t] /\ run' = run /\ filled'[t] = filled[t] + 1
        /\ overrun'[t] = TRUE /\ full'[t] = full[t]
    BY <1>9 DEF Overruns, Fills, StoreKept
  <2> QED BY <1>7, <1>w, <2>1
<1>10. CASE Dries(t) BY <1>10 DEF Dries
<1>11. CASE Takes(t)
  <2>1. Waiting(t)' = Waiting(t)
    BY <1>2, <1>11, <1>w, BlocksTake DEF Takes, CountsKept, Waiting
  <2> QED BY <1>5, <1>11, <2>1 DEF Takes, CountsKept, FlagsKept
<1>12. CASE Stores(t)
  <2>1. PICK b \in Slots :
           /\ Held(t) = <<b>> /\ Held(t)' = <<>>
           /\ mem'[t] = WriteAt(mem[t], addr[t], block[t][b]) /\ addr'[t] = addr[t] + 1
           /\ full'[t] = full[t] /\ run' = run /\ calm' = calm /\ CountsKept(t) /\ FlagsKept(t)
    BY <1>12 DEF Stores
  <2> DEFINE w == Waiting(t)  v == Blocks(<<>>, full[t], block[t])
  <2>2. Waiting(t)' = v BY <1>w, <2>1 DEF CountsKept
  <2>3. Len(w) = Len(v) + 1 /\ w[1] = block[t][b] /\ \A i \in 1 .. Len(v) : v[i] = w[i + 1]
    BY <1>2, <2>1, BlocksStore DEF Waiting
  <2>4. v \in Seq(Block) /\ Len(v) \in Nat
    <3>1. <<>> \in Seq(Slots) OBVIOUS
    <3>2. v \in Seq(Block) BY <1>2, <3>1, BlocksElements
    <3> QED BY <3>2
  <2>5. /\ InOrder(mem[t], addr[t], w, run, filled[t])
        /\ ~overrun[t] => addr[t] + Len(w) = filled[t]
    BY <1>5, <2>1 DEF FlagsKept
  <2> HIDE DEF w, v
  <2>6. w \in Seq(Block) BY <1>3 DEF w
  <2>7. InOrder(mem'[t], addr[t] + 1, v, run, filled[t])
    <3>1. mem'[t] = WriteAt(mem[t], addr[t], w[1]) BY <2>1, <2>3
    <3>2. InOrder(WriteAt(mem[t], addr[t], w[1]), addr[t] + 1, v, run, filled[t])
      BY <1>2, <2>3, <2>4, <2>5, <2>6, StoreInOrder
    <3> QED BY <3>1, <3>2
  <2>a. Len(w) = Len(v) + 1 BY <2>3
  <2>b. \A x, y, z \in Nat : y = z + 1 => x + y = x + 1 + z OBVIOUS
  <2>c. addr[t] \in Nat /\ Len(v) \in Nat /\ Len(w) \in Nat BY <1>2, <2>4, <2>6
  <2>8. addr[t] + Len(w) = addr[t] + 1 + Len(v) BY <2>a, <2>b, <2>c, Zenon
  <2> QED BY <2>1, <2>2, <2>5, <2>7, <2>8 DEF CountsKept, FlagsKept
<1>13. CASE Restarts(t)
  <2>1. /\ full'[t] = <<>> /\ Held(t)' = <<>> /\ addr'[t] = 0 /\ filled'[t] = 0
        /\ block'[t] = block[t]
    BY <1>13 DEF Restarts, BuffersKept
  <2> DEFINE e == <<>>
  <2>2. e \in Seq(Slots) /\ Len(e) = 0 OBVIOUS
  <2> HIDE DEF e
  <2>b. block[t] \in BlockMap BY <1>2
  <2>a. Len(Blocks(e, e, block[t])) = Len(e) + Len(e)
    BY ONLY <2>b, <2>2, BlocksElements
  <2>3. Len(Blocks(e, e, block[t])) = 0 BY <2>2, <2>a
  <2>4. Len(Waiting(t)') = 0 BY <1>w, <2>1, <2>3 DEF e
  <2>5. InOrder(mem'[t], 0, Waiting(t)', run', 0) BY <2>4 DEF InOrder
  <2> QED BY <2>1, <2>4, <2>5
<1> QED BY <1>6, <1>8, <1>9, <1>10, <1>11, <1>12, <1>13 DEF StreamStep

LEMMA KeptMeans == BufferInv /\ (\A t \in Stream : KeptInOrder(t)) => RunIsKept
<1> SUFFICES ASSUME BufferInv, NEW s \in Stream, KeptInOrder(s), calm, ~starved[s]
             PROVE  /\ \A i \in DOMAIN Kept(s) : Kept(s)[i].run = run
                    /\ \A i, j \in DOMAIN Kept(s) : i < j => Kept(s)[i].num < Kept(s)[j].num
                    /\ ~overrun[s] => Len(Kept(s)) = filled[s]
  BY DEF RunIsKept
<1>1. TypeInv /\ BufferTypes /\ StoreTypes /\ Held(s) \in Seq(Slots) /\ RegionReached
  BY TypeParts, HeldTyped DEF TypeInv, BufferInv
<1>2. /\ full[s] \in Seq(Slots) /\ block[s] \in BlockMap
      /\ addr[s] \in Nat /\ mem[s] \in Seq(Block) /\ addr[s] <= Len(mem[s])
  BY <1>1 DEF BufferTypes, StoreTypes, RegionReached, BlockMap
<1> DEFINE n == addr[s]  m == mem[s]  w == Waiting(s)  h == SubSeq(m, 1, n)  k == h \o w
<1>3. w \in Seq(Block) /\ Len(w) \in Nat BY <1>1, <1>2, BlocksElements DEF Waiting
<1>4. h \in Seq(Block) /\ Len(h) = n /\ \A i \in 1 .. n : h[i] = m[i] BY <1>2
<1>5. InOrder(m, n, w, run, filled[s]) /\ (~overrun[s] => n + Len(w) = filled[s])
  BY DEF KeptInOrder
<1>6. k = Kept(s) BY Zenon DEF Kept, Waiting, Blocks
<1>7. n \in Nat BY <1>2
<1> HIDE DEF n, m, w, h
<1>8. /\ DOMAIN k = 1 .. n + Len(w) /\ Len(k) = n + Len(w)
      /\ \A i \in 1 .. n + Len(w) : k[i] = IF i <= n THEN h[i] ELSE w[i - n]
  <2>1. h \o w \in Seq(Block) BY <1>3, <1>4
  <2>2. /\ Len(h \o w) = Len(h) + Len(w)
        /\ \A i \in 1 .. Len(h) + Len(w) :
              (h \o w)[i] = IF i <= Len(h) THEN h[i] ELSE w[i - Len(h)]
    BY <1>3, <1>4, ConcatProperties
  <2> QED BY <1>4, <2>1, <2>2
<1> HIDE DEF k
<1>9. \A i \in 1 .. n + Len(w) :
         \/ i \in 1 .. n /\ k[i] = m[i]
         \/ i - n \in 1 .. Len(w) /\ k[i] = w[i - n] /\ i > n
  BY <1>3, <1>4, <1>7, <1>8
<1>10. \A i \in 1 .. n + Len(w) : k[i].run = run BY <1>5, <1>9 DEF InOrder
<1>11. ASSUME NEW i \in 1 .. n + Len(w), NEW j \in 1 .. n + Len(w), i < j
       PROVE  k[i].num < k[j].num
  <2>1. CASE j \in 1 .. n /\ k[j] = m[j]
    <3>1. i \in 1 .. n /\ k[i] = m[i] BY <1>7, <1>9, <1>11, <2>1
    <3> QED BY <1>5, <1>11, <2>1, <3>1 DEF InOrder
  <2>2. CASE j - n \in 1 .. Len(w) /\ k[j] = w[j - n]
    <3>1. CASE i \in 1 .. n /\ k[i] = m[i] BY <1>5, <2>2, <3>1 DEF InOrder
    <3>2. CASE i - n \in 1 .. Len(w) /\ k[i] = w[i - n]
      <4>1. i - n < j - n BY <1>3, <1>7, <1>11
      <4> QED BY <1>5, <2>2, <3>2, <4>1 DEF InOrder
    <3> QED BY <1>9, <3>1, <3>2
  <2> QED BY <1>9, <2>1, <2>2
<1> QED BY <1>5, <1>6, <1>8, <1>10, <1>11

KeptInv == BufferInv /\ \A t \in Stream : KeptInOrder(t)

LEMMA StepKeptInv == KeptInv /\ [Next]_vars => KeptInv'
<1> SUFFICES ASSUME KeptInv, [Next]_vars PROVE KeptInv' OBVIOUS
<1>1. BufferInv /\ \A t \in Stream : KeptInOrder(t) BY DEF KeptInv
<1>2. BufferInv' BY <1>1, StepBuffers
<1>3. \A t \in Stream : StreamStep(t) BY <1>1, StreamSteps DEF BufferInv
<1>4. \A t \in Stream : KeptInOrder(t)' BY <1>1, <1>3, StepKept
<1> QED BY <1>2, <1>4 DEF KeptInv

\* A run that began calmly is stored from the base of its region on, in order, and
\* whole when no buffer was overwritten: RunIsKept holds of every behaviour.
THEOREM RunsAreKept == Spec => []RunIsKept
<1>1. Init => KeptInv BY InitBuffers, InitKept DEF KeptInv
<1>2. KeptInv => RunIsKept BY KeptMeans DEF KeptInv
<1> QED BY <1>1, <1>2, StepKeptInv, PTL DEF Spec
=============================================================================
