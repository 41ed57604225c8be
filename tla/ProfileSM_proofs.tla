------------------------- MODULE ProfileSM_proofs -------------------------
(***************************************************************************)
(* Proofs about the temperature control, for every number of profiles and  *)
(* steps, every set of stored profiles and drafts, and all bounds.  One    *)
(* lemma says what the handling of an event does to a machine, the outputs *)
(* and the timer; the invariants follow from it action by action.          *)
(***************************************************************************)
EXTENDS ProfileSM, SequenceTheorems, TLAPS

Machine == [state : State, step : -1 .. 126, timer : Timer]
Held == [on : BOOLEAN, rounds : 0 .. MaxRounds]
Event == {"stop", "enabled", "start", "expired", "none"}

\* No step is in hand in the states before the first one.
StepShown(r) == r.step = -1 <=> r.state \in Preheat \cup {"disabled"}

\* What is left of a running timer, and the rounds for which the thing waited
\* for has held, make up the duration d of the step that machine r is in.
Counted(r, h, d) ==
    /\ r.timer # Expired
    /\ r.state \in Ramp => r.timer.mode = "running"
    /\ r.timer.mode = "running" => h.on /\ h.rounds + r.timer.left >= d

Counts(p, r, h) ==
    /\ r.state \in Soak \cup Ramp
    /\ r.step < NumSteps
    /\ db[p].steps[r.step].duration > 0
    => Counted(r, h, db[p].steps[r.step].duration)

Moves(p, r, h) ==
    /\ machine' = [machine EXCEPT ![p] = r]
    /\ held' = [held EXCEPT ![p] = h]
    /\ r \in Machine /\ h \in Held /\ StepShown(r)

\* p enters the state of r.
Entry(p, r, h) ==
    /\ Moves(p, r, h)
    /\ Counts(p, r, h)
    /\ IF r.state \in Active THEN out' = out ELSE out' = Off

\* What an event does to profile p, whose machine is m.
Effect(p, m, event, r, h) ==
    /\ Moves(p, r, h)
    /\ event = "expired" \/ Counts(p, m, held[p]) => Counts(p, r, h)
    /\ \/ /\ r.state \notin Active /\ out' = Off
          /\ \/ event = "stop" \/ m.state = "error"
             \/ m.state \in Active /\ Ends(m.state, event)
       \/ /\ r.state \in Active /\ out' = out
          /\ \/ m.state \in Active /\ Ends(m.state, event)
             \/ m.state = "disabled" /\ event = "enabled"
       \/ /\ r.state = m.state /\ r.state \in Active /\ r.step = m.step
          /\ Drive(p, m.state)
          /\ ~Ends(m.state, event)
       \/ r = m /\ m.state = "disabled" /\ out' = out /\ event # "enabled"

LEMMA Constants ==
    /\ NumProfiles \in Nat /\ NumProfiles > 0 /\ NumSteps \in Nat /\ NumSteps > 0
    /\ MaxRounds \in Nat /\ MaxCommands \in Nat /\ MaxSaves \in Nat
    /\ QueueLen \in Nat /\ QueueLen > 0 /\ Draft \subseteq ProfileData
BY ProfileAssumption

\* The states, told apart.
LEMMA StateSets ==
    /\ Active \subseteq State /\ Active = Preheat \cup Soak \cup Ramp
    /\ "disabled" \in State \ Active /\ "error" \in State \ Active
    /\ Preheat \cap (Soak \cup Ramp) = {} /\ Soak \cap Ramp = {}
    /\ "heating" \in Ramp /\ "cooling" \in Ramp
    /\ \A s \in State : s \in Active \/ s = "disabled" \/ s = "error"
BY DEF State, Active, Preheat, Soak, Ramp

\* The software timer: its values, and what a tick and a round make of them.
LEMMA Timers ==
    /\ Stopped \in Timer /\ Expired \in Timer /\ Stopped # Expired
    /\ Stopped.mode = "stopped" /\ Expired.mode = "expired"
    /\ \A d \in 0 .. MaxRounds :
          /\ Running(d) \in Timer /\ Running(d) # Expired
          /\ Running(d).mode = "running" /\ Running(d).left = d
    /\ \A t \in Timer :
          /\ t.mode = "running" => t.left \in 0 .. MaxRounds /\ t = Running(t.left)
          /\ t # Expired => t.mode # "expired"
<1>1. \A d : Running(d) = [mode |-> "running", left |-> d]  BY DEF Running
<1>2. Stopped = [mode |-> "stopped", left |-> 0]  BY DEF Stopped
<1>3. Expired = [mode |-> "expired", left |-> 0]  BY DEF Expired
<1>4. Stopped # Expired  BY <1>2, <1>3
<1>5. \A d : Running(d) # Expired  BY <1>1, <1>3
<1>6. \A t \in Timer : t = Stopped \/ t = Expired
                       \/ \E d \in 0 .. MaxRounds : t = Running(d)
  BY DEF Timer
<1>7. Stopped \in Timer /\ Expired \in Timer
      /\ \A d \in 0 .. MaxRounds : Running(d) \in Timer
  BY DEF Timer
<1> QED  BY <1>1, <1>2, <1>3, <1>4, <1>5, <1>6, <1>7

LEMMA TickedTimer ==
    ASSUME NEW t \in Timer
    PROVE  /\ Ticked(t) \in Timer
           /\ Ticked(t) # Expired => Ticked(t) = t
           /\ Ticked(t) = Expired => t = Expired \/ t = Running(0)
BY Timers DEF Ticked

LEMMA ElapsedTimer ==
    ASSUME NEW t \in Timer
    PROVE  /\ Elapsed(t) \in Timer
           /\ t # Expired => Elapsed(t) # Expired
           /\ Elapsed(t).mode = t.mode
           /\ t.mode = "running" => Elapsed(t).left >= t.left - 1
<1>1. MaxRounds \in Nat  BY Constants
<1>2. CASE t.mode = "running" /\ t.left > 0
  <2>1. t.left \in 0 .. MaxRounds  BY <1>2, Timers
  <2>2. t.left - 1 \in 0 .. MaxRounds  BY <1>1, <1>2, <2>1
  <2>3. Elapsed(t) = Running(t.left - 1)  BY <1>2 DEF Elapsed
  <2> QED  BY <1>2, <2>1, <2>2, <2>3, Timers
<1>3. CASE ~(t.mode = "running" /\ t.left > 0)
  <2>1. Elapsed(t) = t  BY <1>3 DEF Elapsed
  <2>2. t.mode = "running" => t.left \in 0 .. MaxRounds  BY Timers
  <2> QED  BY <1>1, <2>1, <2>2
<1> QED  BY <1>2, <1>3

-----------------------------------------------------------------------------
(* Entering a state.                                                       *)

\* A machine that is given values of the right types moves.
LEMMA BecomeMoves ==
    ASSUME TypeOK, NEW p \in Profile, NEW s \in State, NEW k \in -1 .. 126,
           NEW t \in Timer, k = -1 <=> s \in Preheat \cup {"disabled"},
           Become(p, s, k, t), NEW h \in Held, held' = [held EXCEPT ![p] = h]
    PROVE  Moves(p, [state |-> s, step |-> k, timer |-> t], h)
<1> DEFINE r == [state |-> s, step |-> k, timer |-> t]
<1>1. r \in Machine  BY DEF Machine
<1>2. StepShown(r)  BY DEF StepShown
<1>3. machine' = [machine EXCEPT ![p] = r]  BY DEF Become
<1> QED  BY <1>1, <1>2, <1>3 DEF Moves

LEMMA BeginHeld ==
    ASSUME TypeOK, NEW p \in Profile, NEW s, Begin(p, s)
    PROVE  \E h \in Held : /\ held' = [held EXCEPT ![p] = h]
                           /\ h.rounds = 0 /\ (h.on <=> s \in Ramp)
<1>1. 0 \in 0 .. MaxRounds  BY Constants
<1>2. PICK b \in BOOLEAN : b <=> s \in Ramp  OBVIOUS
<1>3. [on |-> b, rounds |-> 0] \in Held  BY <1>1 DEF Held
<1>4. (s \in Ramp) = b  BY <1>2, Zenon
<1>5. held' = [held EXCEPT ![p] = [on |-> b, rounds |-> 0]]
  BY <1>4, Zenon DEF Begin
<1> QED  BY <1>2, <1>3, <1>5

LEMMA OffEntry ==
    ASSUME TypeOK, NEW p \in Profile, NEW s \in {"disabled", "error"},
           NEW k \in -1 .. 126, k = -1 <=> s = "disabled", EnterOff(p, s, k)
    PROVE  \E r, h : Entry(p, r, h) /\ r.state = s
<1>1. PICK h \in Held : held' = [held EXCEPT ![p] = h]
  BY BeginHeld DEF EnterOff
<1> DEFINE r == [state |-> s, step |-> k, timer |-> Stopped]
<1>2. s \in State /\ s \notin Active /\ s \notin Preheat /\ s \notin Soak \cup Ramp
  BY StateSets
<1>3. Moves(p, r, h)
  BY <1>1, <1>2, Timers, BecomeMoves DEF EnterOff
<1>4. Counts(p, r, h)  BY <1>2 DEF Counts
<1>5. out' = Off  BY DEF EnterOff
<1> QED  BY <1>2, <1>3, <1>4, <1>5 DEF Entry

LEMMA PreheatEntry ==
    ASSUME TypeOK, NEW p \in Profile, NEW m \in Machine, m.step = -1,
           EnterPreheat(p, m)
    PROVE  \E r, h : Entry(p, r, h) /\ r.state \in Preheat
<1>1. PICK s \in Preheat : Enter(p, s, m.step, Stopped)  BY DEF EnterPreheat
<1>2. PICK h \in Held : held' = [held EXCEPT ![p] = h]
  BY <1>1, BeginHeld DEF Enter
<1> DEFINE r == [state |-> s, step |-> -1, timer |-> Stopped]
<1>3. s \in State /\ s \in Active /\ s \notin Soak \cup Ramp
  BY <1>1, StateSets
<1>4. -1 \in -1 .. 126  OBVIOUS
<1>5. Become(p, s, -1, Stopped)  BY <1>1 DEF Enter
<1>6. Moves(p, r, h)  BY <1>1, <1>2, <1>3, <1>4, <1>5, Timers, BecomeMoves
<1>7. Counts(p, r, h)  BY <1>3 DEF Counts
<1>8. out' = out  BY <1>1 DEF Enter
<1> QED  BY <1>1, <1>3, <1>6, <1>7, <1>8 DEF Entry

LEMMA RampEntry ==
    ASSUME TypeOK, NEW p \in Profile, NEW s \in Ramp, NEW k \in 0 .. 126,
           NEW d \in 0 .. MaxRounds, NEW t \in Timer,
           k < NumSteps => d = db[p].steps[k].duration, EnterRamp(p, s, k, d, t)
    PROVE  \E r, h : Entry(p, r, h) /\ r.state = s
<1>1. PICK h \in Held : /\ held' = [held EXCEPT ![p] = h]
                        /\ h.rounds = 0 /\ (h.on <=> s \in Ramp)
  BY BeginHeld DEF EnterRamp, Enter
<1> DEFINE u == IF d > 0 THEN Running(d) ELSE t
           r == [state |-> s, step |-> k, timer |-> u]
<1>2. s \in State /\ s \in Active /\ s \notin Preheat /\ s # "disabled"
  BY StateSets
<1>3. u \in Timer  BY Timers
<1>4. Become(p, s, k, u)  BY DEF EnterRamp, Enter
<1>5. k \in -1 .. 126 /\ k # -1  OBVIOUS
<1> HIDE DEF u
<1>6. Moves(p, r, h)  BY <1>1, <1>2, <1>3, <1>4, <1>5, BecomeMoves
<1>7. ASSUME k < NumSteps, d > 0 PROVE Counted(r, h, d)
  <2>1. u = Running(d)  BY <1>7 DEF u
  <2>2. u # Expired /\ u.mode = "running" /\ u.left = d  BY <2>1, Timers
  <2> QED  BY <1>1, <2>2 DEF Counted
<1>8. Counts(p, r, h)  BY <1>7 DEF Counts
<1>9. out' = out  BY DEF EnterRamp, Enter
<1> QED  BY <1>2, <1>6, <1>8, <1>9 DEF Entry

LEMMA SoakEntry ==
    ASSUME TypeOK, NEW p \in Profile, NEW s \in Soak, NEW k \in 0 .. 126,
           EnterSoak(p, s, k)
    PROVE  \E r, h : Entry(p, r, h) /\ r.state = s
<1>1. PICK h \in Held : held' = [held EXCEPT ![p] = h]
  BY BeginHeld DEF EnterSoak, Enter
<1> DEFINE r == [state |-> s, step |-> k, timer |-> Stopped]
<1>2. s \in State /\ s \in Active /\ s \notin Preheat /\ s # "disabled"
      /\ s \notin Ramp
  BY StateSets
<1>3. Become(p, s, k, Stopped)  BY DEF EnterSoak, Enter
<1>4. k \in -1 .. 126 /\ k # -1  OBVIOUS
<1>5. Moves(p, r, h)  BY <1>1, <1>2, <1>3, <1>4, Timers, BecomeMoves
<1>6. \A d : Counted(r, h, d)  BY <1>2, Timers DEF Counted
<1>7. Counts(p, r, h)  BY <1>6 DEF Counts
<1>8. out' = out  BY DEF EnterSoak, Enter
<1> QED  BY <1>2, <1>5, <1>7, <1>8 DEF Entry

\* What a machine reads as its step, within the array and past it.
LEMMA StepRead ==
    ASSUME TypeOK, NEW p \in Profile, NEW k \in 0 .. 126, NEW s \in StepAt(p, k)
    PROVE  /\ s.duration \in 0 .. MaxRounds
           /\ k < NumSteps => s = db[p].steps[k]
<1>1. \A st \in Step : st.duration \in 0 .. MaxRounds  BY ProfileAssumption
<1>2. CASE k < NumSteps
  <2>1. k \in 0 .. NumSteps - 1  BY <1>2, Constants
  <2>2. db[p] \in ProfileData  BY DEF TypeOK
  <2>3. db[p].steps[k] \in Step  BY <2>1, <2>2 DEF ProfileData
  <2>4. s = db[p].steps[k]  BY <1>2 DEF StepAt
  <2> QED  BY <1>1, <2>3, <2>4
<1>3. CASE ~(k < NumSteps)
  <2>1. s \in Garbage  BY <1>3 DEF StepAt
  <2>2. PICK st \in Step : s.duration = st.duration  BY <2>1 DEF Garbage
  <2> QED  BY <1>1, <1>3, <2>2
<1> QED  BY <1>2, <1>3

LEMMA StepEntry ==
    ASSUME TypeOK, NEW p \in Profile, NEW m \in Machine, NEW k \in 0 .. 126,
           EnterStep(p, m, k)
    PROVE  \E r, h : Entry(p, r, h)
<1>1. PICK s \in StepAt(p, k) :
         \/ s.mode = "hold" /\ \E st \in Soak : EnterSoak(p, st, k)
         \/ s.mode = "heat" /\ EnterRamp(p, "heating", k, s.duration, m.timer)
         \/ s.mode = "cool" /\ EnterRamp(p, "cooling", k, s.duration, m.timer)
         \/ s.mode = "none" /\ EnterOff(p, "error", k)
  BY Zenon DEF EnterStep
<1>2. /\ s.duration \in 0 .. MaxRounds
      /\ k < NumSteps => s.duration = db[p].steps[k].duration
  BY StepRead
<1>3. m.timer \in Timer  BY DEF Machine
<1>4. CASE \E st \in Soak : EnterSoak(p, st, k)  BY <1>4, SoakEntry
<1>5. CASE EnterRamp(p, "heating", k, s.duration, m.timer)
  BY <1>2, <1>3, <1>5, RampEntry, StateSets
<1>6. CASE EnterRamp(p, "cooling", k, s.duration, m.timer)
  BY <1>2, <1>3, <1>6, RampEntry, StateSets
<1>7. CASE EnterOff(p, "error", k)
  <2>1. k \in -1 .. 126 /\ k # -1 /\ "error" # "disabled"  OBVIOUS
  <2> QED  BY <1>7, <2>1, OffEntry
<1> QED  BY <1>1, <1>4, <1>5, <1>6, <1>7

\* The step number fits its int8_t: it stays below a number that does.
LEMMA CheckEntry ==
    ASSUME TypeOK, NEW p \in Profile, NEW m \in Machine, EnterProfileCheck(p, m)
    PROVE  \E r, h : Entry(p, r, h)
<1>1. CASE m.step + 1 >= Int8(db[p].count)
  <2>1. EnterOff(p, "disabled", -1)
    BY <1>1 DEF EnterProfileCheck, EnterDisabled
  <2>2. -1 \in -1 .. 126  OBVIOUS
  <2> QED  BY <2>1, <2>2, OffEntry
<1>2. CASE ~(m.step + 1 >= Int8(db[p].count))
  <2>1. db[p].count \in 0 .. 255  BY DEF TypeOK, ProfileData
  <2>2. Int8(db[p].count) \in Int /\ Int8(db[p].count) <= 127
    BY <2>1 DEF Int8
  <2>3. m.step \in -1 .. 126  BY DEF Machine
  <2>4. m.step + 1 \in 0 .. 126  BY <1>2, <2>2, <2>3
  <2>5. EnterStep(p, m, m.step + 1)  BY <1>2 DEF EnterProfileCheck
  <2> QED  BY <2>4, <2>5, StepEntry
<1> QED  BY <1>1, <1>2

-----------------------------------------------------------------------------
(* Staying in a state, and the handling of any event.                      *)

\* The timer of a soak runs only within the band, and for the whole duration.
LEMMA SoakTimers ==
    ASSUME NEW t \in Timer, NEW d \in 0 .. MaxRounds, NEW inBand \in BOOLEAN
    PROVE  /\ SoakTimer(t, d, inBand) \in Timer
           /\ t # Expired => SoakTimer(t, d, inBand) # Expired
           /\ SoakTimer(t, d, inBand).mode = "running" =>
                 /\ inBand
                 /\ SoakTimer(t, d, inBand) \in {t, Running(d)}
<1> DEFINE u == SoakTimer(t, d, inBand)
<1>1. CASE inBand /\ t.mode = "stopped" /\ d > 0
  <2>1. u = Running(d)  BY <1>1 DEF SoakTimer
  <2> QED  BY <1>1, <2>1, Timers
<1>2. CASE ~inBand /\ t.mode = "running"
  <2>1. u = Stopped  BY <1>2 DEF SoakTimer
  <2> QED  BY <2>1, Timers
<1>3. CASE /\ ~(inBand /\ t.mode = "stopped" /\ d > 0)
           /\ ~(~inBand /\ t.mode = "running")
  <2>1. u = t  BY <1>3, Zenon DEF SoakTimer
  <2> QED  BY <1>3, <2>1
<1> QED  BY <1>1, <1>2, <1>3

LEMMA DoSoakEffect ==
    ASSUME TypeOK, NEW p \in Profile, NEW m \in Machine, StepShown(m),
           m.state \in Soak, DoSoak(p, m)
    PROVE  \E r, h : /\ Moves(p, r, h)
                     /\ Counts(p, m, held[p]) => Counts(p, r, h)
                     /\ r.state = m.state /\ r.step = m.step
<1>1. m.state \in State /\ m.step \in -1 .. 126 /\ m.timer \in Timer
  BY DEF Machine
<1>2. m.state \notin Preheat \cup {"disabled"} /\ m.state \notin Ramp
  BY StateSets
<1>3. m.step \in 0 .. 126  BY <1>1, <1>2 DEF StepShown
<1>4. PICK s \in StepAt(p, m.step), inBand \in BOOLEAN :
         /\ Become(p, m.state, m.step, SoakTimer(m.timer, s.duration, inBand))
         /\ held' = [held EXCEPT ![p] =
                       [on |-> inBand, rounds |-> IF inBand THEN @.rounds ELSE 0]]
  BY Zenon DEF DoSoak
<1>5. /\ s.duration \in 0 .. MaxRounds
      /\ m.step < NumSteps => s = db[p].steps[m.step]
  BY <1>3, StepRead
<1> DEFINE u == SoakTimer(m.timer, s.duration, inBand)
           n == IF inBand THEN held[p].rounds ELSE 0
           r == [state |-> m.state, step |-> m.step, timer |-> u]
           h == [on |-> inBand, rounds |-> n]
<1>6. /\ u \in Timer
      /\ m.timer # Expired => u # Expired
      /\ u.mode = "running" => inBand /\ u \in {m.timer, Running(s.duration)}
  BY <1>1, <1>5, SoakTimers
<1>7. held[p] \in Held  BY DEF TypeOK, Held
<1>8. n \in 0 .. MaxRounds /\ (inBand => n = held[p].rounds)
  BY <1>7, Constants DEF Held
<1>9. held' = [held EXCEPT ![p] = h]  BY <1>4
<1>10. Become(p, m.state, m.step, u)  BY <1>4
<1> HIDE DEF u, n
<1>11. h \in Held  BY <1>8 DEF Held
<1>12. Moves(p, r, h)
  <2>1. m.step = -1 <=> m.state \in Preheat \cup {"disabled"}  BY DEF StepShown
  <2> QED  BY <1>1, <1>6, <1>9, <1>10, <1>11, <2>1, BecomeMoves
<1>13. ASSUME Counts(p, m, held[p]) PROVE Counts(p, r, h)
  <2> DEFINE d == db[p].steps[m.step].duration
  <2>1. SUFFICES ASSUME m.step < NumSteps, d > 0 PROVE Counted(r, h, d)
    BY DEF Counts
  <2>2. d = s.duration  BY <1>5, <2>1
  <2>3. Counted(m, held[p], d)  BY <1>13, <2>1 DEF Counts
  <2> HIDE DEF d
  <2>4. u # Expired  BY <1>6, <2>3 DEF Counted
  <2>5. ASSUME u.mode = "running" PROVE h.on /\ h.rounds + u.left >= d
    <3>1. inBand /\ n = held[p].rounds  BY <1>6, <1>8, <2>5
    <3>2. CASE u = m.timer  BY <2>3, <2>5, <3>1, <3>2 DEF Counted
    <3>3. CASE u = Running(s.duration)
      <4>1. u.left = d  BY <1>5, <2>2, <3>3, Timers
      <4>2. d \in Nat /\ n \in Nat  BY <1>5, <1>8, <2>2, Constants
      <4> QED  BY <3>1, <4>1, <4>2
    <3> QED  BY <1>6, <2>5, <3>2, <3>3
  <2> QED  BY <1>2, <2>4, <2>5 DEF Counted
<1> QED  BY <1>12, <1>13

LEMMA StayEffect ==
    ASSUME TypeOK, NEW p \in Profile, NEW m \in Machine, StepShown(m),
           Become(p, m.state, m.step, m.timer), held' = held
    PROVE  Moves(p, m, held[p])
<1>1. m = [state |-> m.state, step |-> m.step, timer |-> m.timer]
      /\ m.state \in State /\ m.step \in -1 .. 126 /\ m.timer \in Timer
  BY DEF Machine
<1>2. held[p] \in Held  BY DEF TypeOK, Held
<1>3. held' = [held EXCEPT ![p] = held[p]]  BY DEF TypeOK
<1>4. m.step = -1 <=> m.state \in Preheat \cup {"disabled"}  BY DEF StepShown
<1>5. Moves(p, [state |-> m.state, step |-> m.step, timer |-> m.timer], held[p])
  BY <1>1, <1>2, <1>3, <1>4, BecomeMoves
<1> QED  BY <1>1, <1>5, Zenon

LEMMA DoEffect ==
    ASSUME TypeOK, NEW p \in Profile, NEW m \in Machine, StepShown(m),
           m.state \in Active, Do(p, m)
    PROVE  \E r, h : /\ Moves(p, r, h)
                     /\ Counts(p, m, held[p]) => Counts(p, r, h)
                     /\ r.state = m.state /\ r.step = m.step
<1>1. CASE m.state \in Soak
  BY <1>1, DoSoakEffect DEF Do
<1>2. CASE m.state \notin Soak
  <2>1. Become(p, m.state, m.step, m.timer) /\ held' = held
    BY <1>2 DEF Do
  <2>2. Moves(p, m, held[p])  BY <2>1, StayEffect
  <2> QED  BY <2>2
<1> QED  BY <1>1, <1>2

\* What profileSM_handle_event (profile_state.c:415) may do.
LEMMA HandleEffect ==
    ASSUME TypeOK, NEW p \in Profile, NEW m \in Machine, StepShown(m),
           NEW event \in Event, HandleEvent(p, m, event)
    PROVE  \E r, h : Effect(p, m, event, r, h)
<1>1. CASE event = "stop" /\ EnterDisabled(p)
  <2>1. -1 \in -1 .. 126  OBVIOUS
  <2>2. PICK r, h : Entry(p, r, h) /\ r.state = "disabled"
    BY <1>1, <2>1, OffEntry DEF EnterDisabled
  <2>3. r.state \notin Active  BY <2>2, StateSets
  <2>4. Moves(p, r, h) /\ Counts(p, r, h) /\ out' = Off  BY <2>2, <2>3 DEF Entry
  <2>5. Effect(p, m, event, r, h)  BY <1>1, <2>3, <2>4 DEF Effect
  <2> QED  BY <2>5
<1>2. CASE m.state = "disabled" /\ event = "enabled" /\ EnterPreheat(p, m)
  <2>1. m.step = -1  BY <1>2 DEF StepShown
  <2>2. PICK r, h : Entry(p, r, h) /\ r.state \in Preheat
    BY <1>2, <2>1, PreheatEntry
  <2> QED  BY <1>2, <2>2, StateSets DEF Entry, Effect
<1>3. CASE /\ m.state = "disabled" /\ event \notin {"enabled", "stop"}
           /\ Become(p, m.state, m.step, m.timer)
           /\ UNCHANGED <<out, held>>
  <2>1. Moves(p, m, held[p])  BY <1>3, StayEffect
  <2>2. Counts(p, m, held[p])  BY <1>3, StateSets DEF Counts
  <2> QED  BY <1>3, <2>1, <2>2 DEF Effect
<1>4. CASE m.state \in Active /\ Ends(m.state, event) /\ EnterProfileCheck(p, m)
  <2>1. PICK r, h : Entry(p, r, h)  BY <1>4, CheckEntry
  <2> QED  BY <1>4, <2>1 DEF Entry, Effect
<1>5. CASE m.state \in Active /\ event # "stop" /\ ~Ends(m.state, event) /\ Do(p, m)
  <2>1. PICK r, h : /\ Moves(p, r, h)
                    /\ Counts(p, m, held[p]) => Counts(p, r, h)
                    /\ r.state = m.state /\ r.step = m.step
    BY <1>5, DoEffect
  <2>2. Drive(p, m.state)  BY <1>5 DEF Do
  <2>3. event # "expired"  BY <1>5 DEF Ends
  <2> QED  BY <1>5, <2>1, <2>2, <2>3 DEF Effect
<1>6. CASE /\ m.state = "error" /\ event # "stop"
           /\ Become(p, m.state, m.step, m.timer)
           /\ out' = Off
           /\ UNCHANGED held
  <2>1. Moves(p, m, held[p])  BY <1>6, StayEffect
  <2>2. Counts(p, m, held[p]) /\ m.state \notin Active
    BY <1>6, StateSets DEF Counts
  <2> QED  BY <1>6, <2>1, <2>2 DEF Effect
<1> QED  BY <1>1, <1>2, <1>3, <1>4, <1>5, <1>6, Zenon DEF HandleEvent

-----------------------------------------------------------------------------
(* Types.                                                                  *)

\* The part of TypeOK that the handling of an event is about.
ControlTypes ==
    /\ machine \in [Profile -> Machine]
    /\ \A p \in Profile : StepShown(machine[p])
    /\ out \in [heater : SUBSET Heater, tec : SUBSET Tec]
    /\ held \in [Profile -> Held]

LEMMA Controls == TypeOK => ControlTypes
BY DEF TypeOK, ControlTypes, Machine, Held, StepShown

LEMMA DriveType ==
    ASSUME TypeOK, NEW p \in Profile, NEW s, Drive(p, s)
    PROVE  out' \in [heater : SUBSET Heater, tec : SUBSET Tec]
<1>1. db[p].heater \in SUBSET Heater /\ db[p].tec \in SUBSET Tec
  BY DEF TypeOK, ProfileData
<1> QED  BY <1>1 DEF Drive, Off

LEMMA HandleTypes ==
    ASSUME TypeOK, NEW p \in Profile, NEW m \in Machine, StepShown(m),
           NEW event \in Event, HandleEvent(p, m, event)
    PROVE  ControlTypes'
<1>1. PICK r, h : Effect(p, m, event, r, h)  BY HandleEffect
<1>2. ControlTypes  BY Controls
<1>3. machine' = [machine EXCEPT ![p] = r] /\ held' = [held EXCEPT ![p] = h]
      /\ r \in Machine /\ h \in Held /\ StepShown(r)
  BY <1>1 DEF Effect, Moves
<1>4. machine' \in [Profile -> Machine] /\ held' \in [Profile -> Held]
  BY <1>2, <1>3 DEF ControlTypes
<1>5. ASSUME NEW q \in Profile PROVE StepShown(machine'[q])
  <2>1. machine'[q] = IF q = p THEN r ELSE machine[q]
    BY <1>2, <1>3 DEF ControlTypes
  <2> QED  BY <1>2, <1>3, <2>1 DEF ControlTypes
<1>6. out' \in [heater : SUBSET Heater, tec : SUBSET Tec]
  <2>1. CASE out' = Off  BY <2>1 DEF Off
  <2>2. CASE out' = out  BY <1>2, <2>2 DEF ControlTypes
  <2>3. CASE Drive(p, m.state)  BY <2>3, DriveType
  <2> QED  BY <1>1, <2>1, <2>2, <2>3 DEF Effect
<1> QED  BY <1>4, <1>5, <1>6 DEF ControlTypes

\* The rest of TypeOK.
OtherTypes ==
    /\ db \in [Profile -> ProfileData]
    /\ queue \in [Profile -> Seq({"auto", "start", "manual"})]
    /\ \A p \in Profile : Len(queue[p]) <= QueueLen
    /\ turn \in Profile
    /\ at \in {"command", "enable", "tick", "delay"}
    /\ saving \subseteq Profile \X Draft
    /\ edited \in [Profile -> BOOLEAN]
    /\ sent \in 0 .. MaxCommands /\ saves \in 0 .. MaxSaves

LEMMA AllTypes == TypeOK <=> ControlTypes /\ OtherTypes
BY DEF TypeOK, ControlTypes, OtherTypes, Machine, Held, StepShown

LEMMA TypeInit == Init => TypeOK
<1> SUFFICES ASSUME Init PROVE TypeOK
  OBVIOUS
<1>1. 0 \in Profile /\ 0 \in 0 .. MaxRounds /\ 0 \in 0 .. MaxCommands
      /\ 0 \in 0 .. MaxSaves /\ 0 <= QueueLen /\ -1 \in -1 .. 126
  BY Constants DEF Profile
<1>2. Stored \in [Profile -> ProfileData]  BY ProfileAssumption
<1>3. ControlTypes
  <2> DEFINE r == [state |-> "disabled", step |-> -1, timer |-> Stopped]
  <2>1. r \in Machine  BY <1>1, Timers, StateSets DEF Machine
  <2>2. StepShown(r)  BY DEF StepShown
  <2>3. [on |-> FALSE, rounds |-> 0] \in Held  BY <1>1 DEF Held
  <2>4. out \in [heater : SUBSET Heater, tec : SUBSET Tec]  BY DEF Init, Off
  <2>5. machine = [p \in Profile |-> r]
        /\ held = [p \in Profile |-> [on |-> FALSE, rounds |-> 0]]
    BY DEF Init
  <2> HIDE DEF r
  <2> QED  BY <2>1, <2>2, <2>3, <2>4, <2>5 DEF ControlTypes
<1>4. OtherTypes
  <2>1. <<>> \in Seq({"auto", "start", "manual"}) /\ Len(<<>>) = 0
    OBVIOUS
  <2>2. queue = [p \in Profile |-> <<>>]  BY DEF Init
  <2>3. queue \in [Profile -> Seq({"auto", "start", "manual"})]
        /\ \A p \in Profile : Len(queue[p]) <= QueueLen
    BY <1>1, <2>1, <2>2
  <2> QED  BY <1>1, <1>2, <2>3 DEF Init, OtherTypes
<1> QED  BY <1>3, <1>4, AllTypes

\* A command taken from the queue leaves a queue.
LEMMA TakenType ==
    ASSUME TypeOK, NEW c, TakeCommand(c)
    PROVE  /\ queue' \in [Profile -> Seq({"auto", "start", "manual"})]
           /\ \A p \in Profile : Len(queue'[p]) <= QueueLen
<1> DEFINE C == {"auto", "start", "manual"}
<1>1. /\ queue \in [Profile -> Seq(C)] /\ turn \in Profile
      /\ \A p \in Profile : Len(queue[p]) <= QueueLen
  BY DEF TypeOK
<1>2. queue[turn] # <<>> /\ queue' = [queue EXCEPT ![turn] = Tail(queue[turn])]
  BY DEF TakeCommand
<1>3. queue[turn] \in Seq(C)  BY <1>1
<1>4. Tail(queue[turn]) \in Seq(C) /\ Len(Tail(queue[turn])) = Len(queue[turn]) - 1
  BY <1>2, <1>3, HeadTailProperties
<1>5. Len(queue[turn]) \in Nat  BY <1>3
<1>6. Len(Tail(queue[turn])) <= QueueLen  BY <1>1, <1>4, <1>5, Constants
<1> HIDE DEF C
<1>7. queue' \in [Profile -> Seq(C)]  BY <1>1, <1>2, <1>4
<1>8. ASSUME NEW p \in Profile PROVE Len(queue'[p]) <= QueueLen
  BY <1>1, <1>2, <1>6
<1> QED  BY <1>7, <1>8 DEF C

\* A profile with half of its fields taken from another is a profile.
LEMMA HalfReplaced ==
    ASSUME NEW x \in ProfileData, NEW d \in ProfileData
    PROVE  /\ [x EXCEPT !.heater = d.heater, !.tec = d.tec] \in ProfileData
           /\ [x EXCEPT !.steps = d.steps, !.count = d.count] \in ProfileData
<1> DEFINE A == SUBSET Heater
           B == SUBSET Tec
           C == [0 .. NumSteps - 1 -> Step]
           D == 0 .. 255
<1>1. ProfileData = [heater : A, tec : B, steps : C, count : D]
  BY DEF ProfileData
<1> HIDE DEF A, B, C, D
<1>2. x \in [heater : A, tec : B, steps : C, count : D]  BY <1>1
<1>3. d.heater \in A /\ d.tec \in B /\ d.steps \in C /\ d.count \in D
  BY <1>1
<1>4. /\ [x EXCEPT !.heater = d.heater, !.tec = d.tec] \in
           [heater : A, tec : B, steps : C, count : D]
      /\ [x EXCEPT !.steps = d.steps, !.count = d.count] \in
           [heater : A, tec : B, steps : C, count : D]
  BY <1>2, <1>3
<1> QED  BY <1>1, <1>4

\* What the two halves of a save make of the stored profiles.
LEMMA MasksSaved ==
    ASSUME TypeOK, NEW p \in Profile, NEW d \in Draft, SaveMasks(p, d)
    PROVE  /\ db' \in [Profile -> ProfileData]
           /\ \A q \in Profile : q # p => db'[q] = db[q]
<1> DEFINE y == [db[p] EXCEPT !.heater = d.heater, !.tec = d.tec]
<1>1. db \in [Profile -> ProfileData] /\ d \in ProfileData
  BY Constants DEF TypeOK
<1>2. y \in ProfileData  BY <1>1, HalfReplaced
<1>3. db' = [db EXCEPT ![p] = y]  BY DEF SaveMasks
<1> HIDE DEF y
<1> QED  BY <1>1, <1>2, <1>3

LEMMA StepsSaved ==
    ASSUME TypeOK, NEW p \in Profile, NEW d \in Draft, SaveSteps(p, d)
    PROVE  /\ db' \in [Profile -> ProfileData]
           /\ \A q \in Profile : q # p => db'[q] = db[q]
<1> DEFINE y == [db[p] EXCEPT !.steps = d.steps, !.count = d.count]
<1>1. db \in [Profile -> ProfileData] /\ d \in ProfileData
  BY Constants DEF TypeOK
<1>2. y \in ProfileData  BY <1>1, HalfReplaced
<1>3. db' = [db EXCEPT ![p] = y]  BY DEF SaveSteps
<1> HIDE DEF y
<1> QED  BY <1>1, <1>2, <1>3

\* The machine of the profile whose turn it is, before and after its timer's
\* tick.
LEMMA TurnMachine ==
    ASSUME TypeOK
    PROVE  /\ turn \in Profile
           /\ machine[turn] \in Machine /\ StepShown(machine[turn])
           /\ [machine[turn] EXCEPT !.timer = Ticked(@)] \in Machine
           /\ StepShown([machine[turn] EXCEPT !.timer = Ticked(@)])
<1>1. turn \in Profile  BY DEF TypeOK
<1>2. machine[turn] \in Machine /\ StepShown(machine[turn])
  BY <1>1, Controls DEF ControlTypes
<1> DEFINE t == Ticked(machine[turn].timer)
<1>3. t \in Timer  BY <1>2, TickedTimer DEF Machine
<1> HIDE DEF t
<1>4. [machine[turn] EXCEPT !.timer = t] \in Machine
      /\ StepShown([machine[turn] EXCEPT !.timer = t])
  BY <1>2, <1>3 DEF Machine, StepShown
<1> QED  BY <1>1, <1>2, <1>4 DEF t

\* A tick handles an event of a machine whose timer was ticked.
LEMMA TickEvent ==
    ASSUME TypeOK, Tick
    PROVE  \E m \in Machine, event \in {"expired", "none"} :
              /\ m = [machine[turn] EXCEPT !.timer = Ticked(@)]
              /\ StepShown(m)
              /\ event = "expired" <=> m.timer = Expired
              /\ HandleEvent(turn, m, event)
<1> DEFINE m == [machine[turn] EXCEPT !.timer = Ticked(@)]
           event == IF m.timer = Expired THEN "expired" ELSE "none"
<1>1. HandleEvent(turn, m, event)  BY DEF Tick
<1>2. m \in Machine /\ StepShown(m)  BY TurnMachine
<1>3. event \in {"expired", "none"} /\ (event = "expired" <=> m.timer = Expired)
  OBVIOUS
<1> HIDE DEF event
<1> QED  BY <1>1, <1>2, <1>3

\* A round passes for the timers and for what is held, and for nothing else.
LEMMA DelayEffect ==
    ASSUME TypeOK, Delay
    PROVE  /\ ControlTypes'
           /\ \A p \in Profile :
                 /\ machine'[p].state = machine[p].state
                 /\ machine'[p].step = machine[p].step
                 /\ machine'[p].timer = Elapsed(machine[p].timer)
                 /\ held'[p].on = held[p].on
                 /\ held'[p].rounds =
                       IF held[p].on /\ held[p].rounds < MaxRounds
                       THEN held[p].rounds + 1 ELSE held[p].rounds
<1>1. ControlTypes  BY Controls
<1>2. /\ machine' = [p \in Profile |-> [machine[p] EXCEPT !.timer = Elapsed(@)]]
      /\ held' = [p \in Profile |->
                     [held[p] EXCEPT !.rounds =
                         IF held[p].on /\ @ < MaxRounds THEN @ + 1 ELSE @]]
      /\ out' = out
  BY DEF Delay
<1>3. ASSUME NEW p \in Profile
      PROVE  /\ machine'[p] \in Machine /\ StepShown(machine'[p])
             /\ machine'[p].state = machine[p].state
             /\ machine'[p].step = machine[p].step
             /\ machine'[p].timer = Elapsed(machine[p].timer)
  <2> DEFINE t == Elapsed(machine[p].timer)
  <2>1. machine[p] \in Machine /\ StepShown(machine[p])
    BY <1>1 DEF ControlTypes
  <2>2. t \in Timer  BY <2>1, ElapsedTimer DEF Machine
  <2>3. machine'[p] = [machine[p] EXCEPT !.timer = t]  BY <1>2
  <2> HIDE DEF t
  <2>4. machine'[p] \in Machine /\ StepShown(machine'[p])
        /\ machine'[p].state = machine[p].state
        /\ machine'[p].step = machine[p].step
        /\ machine'[p].timer = t
    BY <2>1, <2>2, <2>3 DEF Machine, StepShown
  <2> QED  BY <2>4 DEF t
<1>4. ASSUME NEW p \in Profile
      PROVE  /\ held'[p] \in Held
             /\ held'[p].on = held[p].on
             /\ held'[p].rounds =
                   IF held[p].on /\ held[p].rounds < MaxRounds
                   THEN held[p].rounds + 1 ELSE held[p].rounds
  <2> DEFINE n == IF held[p].on /\ held[p].rounds < MaxRounds
                  THEN held[p].rounds + 1 ELSE held[p].rounds
  <2>1. held[p] \in Held  BY <1>1 DEF ControlTypes
  <2>2. n \in 0 .. MaxRounds  BY <2>1, Constants DEF Held
  <2>3. held'[p] = [held[p] EXCEPT !.rounds = n]  BY <1>2
  <2> HIDE DEF n
  <2>4. held'[p] \in Held /\ held'[p].on = held[p].on /\ held'[p].rounds = n
    BY <2>1, <2>2, <2>3 DEF Held
  <2> QED  BY <2>4 DEF n
<1>5. machine' \in [Profile -> Machine] /\ held' \in [Profile -> Held]
  BY <1>2, <1>3, <1>4
<1>6. ControlTypes'  BY <1>1, <1>2, <1>3, <1>5 DEF ControlTypes
<1> QED  BY <1>3, <1>4, <1>6

LEMMA TypeStep == TypeOK /\ [Next]_vars => TypeOK'
<1> SUFFICES ASSUME TypeOK, [Next]_vars PROVE TypeOK'
  OBVIOUS
<1>a. ControlTypes /\ OtherTypes  BY AllTypes
<1>b. SUFFICES ControlTypes' /\ OtherTypes'
  BY DEF TypeOK, ControlTypes, OtherTypes, Machine, Held, StepShown
<1>c. turn \in Profile /\ machine[turn] \in Machine /\ StepShown(machine[turn])
  BY TurnMachine
<1>d. {"stop", "enabled", "start", "expired", "none"} = Event  BY DEF Event
<1>1. ASSUME NEW p \in Profile, NEW c \in {"auto", "start", "manual"}, Send(p, c)
      PROVE  ControlTypes' /\ OtherTypes'
  <2> DEFINE C == {"auto", "start", "manual"}
  <2>1. queue \in [Profile -> Seq(C)] /\ queue[p] \in Seq(C)
        /\ \A q \in Profile : Len(queue[q]) <= QueueLen
    BY <1>a DEF OtherTypes
  <2>2. PICK s \in Seq(C) : queue' = [queue EXCEPT ![p] = s] /\ Len(s) <= QueueLen
    <3>1. CASE Len(queue[p]) < QueueLen
      <4>1. queue' = [queue EXCEPT ![p] = Append(queue[p], c)]
        BY <1>1, <3>1 DEF Send
      <4>2. Append(queue[p], c) \in Seq(C)
            /\ Len(Append(queue[p], c)) = Len(queue[p]) + 1
        BY <2>1, AppendProperties
      <4>3. Len(queue[p]) \in Nat  BY <2>1
      <4>4. Len(Append(queue[p], c)) <= QueueLen
        BY <3>1, <4>2, <4>3, Constants
      <4> QED  BY <4>1, <4>2, <4>4
    <3>2. CASE ~(Len(queue[p]) < QueueLen)
      <4>1. queue' = [queue EXCEPT ![p] = queue[p]]  BY <1>1, <3>2 DEF Send
      <4> QED  BY <2>1, <4>1
    <3> QED  BY <3>1, <3>2
  <2> HIDE DEF C
  <2>3. queue' \in [Profile -> Seq(C)]
        /\ \A q \in Profile : Len(queue'[q]) <= QueueLen
    BY <2>1, <2>2
  <2>4. sent' \in 0 .. MaxCommands
    BY <1>1, <1>a, Constants DEF Send, OtherTypes
  <2>5. ControlTypes'  BY <1>1, <1>a DEF Send, control, ControlTypes
  <2> QED  BY <1>1, <1>a, <2>3, <2>4, <2>5 DEF Send, task, OtherTypes, C
<1>2. ASSUME NEW p \in Profile, NEW d \in Draft, SaveMasks(p, d)
      PROVE  ControlTypes' /\ OtherTypes'
  <2>1. db' \in [Profile -> ProfileData]  BY <1>2, MasksSaved
  <2>2. saves' \in 0 .. MaxSaves
    BY <1>2, <1>a, Constants DEF SaveMasks, OtherTypes
  <2>3. saving' \subseteq Profile \X Draft  BY <1>2 DEF SaveMasks
  <2>4. edited' \in [Profile -> BOOLEAN]  BY <1>2, <1>a DEF SaveMasks, OtherTypes
  <2>5. ControlTypes'  BY <1>2, <1>a DEF SaveMasks, control, ControlTypes
  <2> QED  BY <1>2, <1>a, <2>1, <2>2, <2>3, <2>4, <2>5
           DEF SaveMasks, task, OtherTypes
<1>3. ASSUME NEW p \in Profile, NEW d \in Draft, SaveSteps(p, d)
      PROVE  ControlTypes' /\ OtherTypes'
  <2>1. db' \in [Profile -> ProfileData]  BY <1>3, StepsSaved
  <2>2. edited' \in [Profile -> BOOLEAN]  BY <1>3, <1>a DEF SaveSteps, OtherTypes
  <2>3. ControlTypes'  BY <1>3, <1>a DEF SaveSteps, control, ControlTypes
  <2> QED  BY <1>3, <1>a, <2>1, <2>2, <2>3 DEF SaveSteps, task, OtherTypes
<1>4. CASE NoCommand
  <2>1. ControlTypes'  BY <1>4, <1>a DEF NoCommand, control, ControlTypes
  <2> QED  BY <1>4, <1>a, <2>1 DEF NoCommand, ToTick, console, OtherTypes
<1>5. CASE Validate
  <2>1. /\ queue' \in [Profile -> Seq({"auto", "start", "manual"})]
        /\ \A q \in Profile : Len(queue'[q]) <= QueueLen
    BY <1>5, TakenType DEF Validate
  <2>2. edited' \in [Profile -> BOOLEAN]
    <3>1. CASE Valid
      <4>1. PICK b \in BOOLEAN : edited' = [edited EXCEPT ![turn] = b]
        BY <1>5, <3>1, <1>a, Zenon DEF Validate, OtherTypes
      <4> QED  BY <1>a, <4>1 DEF OtherTypes
    <3>2. CASE ~Valid  BY <1>5, <3>2, <1>a DEF Validate, OtherTypes
    <3> QED  BY <3>1, <3>2
  <2>3. turn' \in Profile /\ at' \in {"command", "enable", "tick", "delay"}
    BY <1>5, <1>c DEF Validate, ToTick
  <2>4. ControlTypes'  BY <1>5, <1>a DEF Validate, control, ControlTypes
  <2> QED  BY <1>5, <1>a, <2>1, <2>2, <2>3, <2>4 DEF Validate, OtherTypes
<1>6. CASE Enable
  <2>1. ControlTypes'  BY <1>6, <1>c, <1>d, HandleTypes DEF Enable
  <2> QED  BY <1>6, <1>a, <2>1 DEF Enable, ToTick, console, OtherTypes
<1>7. CASE Start
  <2>1. ControlTypes'  BY <1>7, <1>c, <1>d, HandleTypes DEF Start
  <2>2. /\ queue' \in [Profile -> Seq({"auto", "start", "manual"})]
        /\ \A q \in Profile : Len(queue'[q]) <= QueueLen
    BY <1>7, TakenType DEF Start
  <2> QED  BY <1>7, <1>a, <2>1, <2>2 DEF Start, ToTick, console, OtherTypes
<1>8. CASE Stop
  <2>1. ControlTypes'  BY <1>8, <1>c, <1>d, HandleTypes DEF Stop
  <2>2. /\ queue' \in [Profile -> Seq({"auto", "start", "manual"})]
        /\ \A q \in Profile : Len(queue'[q]) <= QueueLen
    BY <1>8, TakenType DEF Stop
  <2> QED  BY <1>8, <1>a, <2>1, <2>2 DEF Stop, ToTick, console, OtherTypes
<1>9. CASE Tick
  <2>1. PICK m \in Machine, event \in {"expired", "none"} :
           StepShown(m) /\ HandleEvent(turn, m, event)
    BY <1>9, TickEvent
  <2>2. ControlTypes'  BY <2>1, <1>c, <1>d, HandleTypes
  <2>3. turn' \in Profile /\ at' \in {"command", "enable", "tick", "delay"}
    BY <1>9, <1>c, Constants DEF Tick, Profile
  <2> QED  BY <1>9, <1>a, <2>2, <2>3 DEF Tick, console, OtherTypes
<1>10. CASE Delay
  <2>1. ControlTypes'  BY <1>10, DelayEffect
  <2>2. 0 \in Profile  BY Constants DEF Profile
  <2> QED  BY <1>10, <1>a, <2>1, <2>2 DEF Delay, console, OtherTypes
<1>11. CASE UNCHANGED vars
  BY <1>11, <1>a DEF vars, control, task, console, ControlTypes, OtherTypes
<1> QED  BY <1>1, <1>2, <1>3, <1>4, <1>5, <1>6, <1>7, <1>8, <1>9, <1>10, <1>11
         DEF Next, Console, Task

\* TypeOK: current_step keeps to its int8_t and the machines to their states,
\* whatever is configured, saved and commanded (profile_state.c:135-166).
THEOREM ProfileTyping == Spec => []TypeOK
<1>1. Init => TypeOK  BY TypeInit
<1>2. TypeOK /\ [Next]_vars => TypeOK'  BY TypeStep
<1> QED  BY <1>1, <1>2, PTL DEF Spec

-----------------------------------------------------------------------------
(* The steps of the task that handle an event, taken together.             *)

Handled(m, event, r, h) ==
    /\ Effect(turn, m, event, r, h)
    /\ m.state = machine[turn].state /\ m.step = machine[turn].step
    /\ event = "expired" =>
          /\ at = "tick" /\ m.timer = Expired
          /\ machine[turn].timer \in {Expired, Running(0)}
    /\ event # "expired" => m.timer = machine[turn].timer
    /\ event = "enabled" => at = "enable"
    /\ at = "tick" => event \in {"expired", "none"}
    /\ \A q \in Profile :
          /\ machine'[q] = IF q = turn THEN r ELSE machine[q]
          /\ held'[q] = IF q = turn THEN h ELSE held[q]
    /\ at' # "enable"
    /\ db' = db /\ edited' = edited

LEMMA HandledOnes ==
    ASSUME TypeOK, NEW p \in Profile, NEW m, NEW event, NEW r, NEW h,
           Effect(p, m, event, r, h)
    PROVE  \A q \in Profile :
              /\ machine'[q] = IF q = p THEN r ELSE machine[q]
              /\ held'[q] = IF q = p THEN h ELSE held[q]
<1>1. machine' = [machine EXCEPT ![p] = r] /\ held' = [held EXCEPT ![p] = h]
  BY DEF Effect, Moves
<1>2. machine \in [Profile -> Machine] /\ held \in [Profile -> Held]
  BY Controls DEF ControlTypes
<1> QED  BY <1>1, <1>2

LEMMA HandledStep ==
    ASSUME TypeOK, Enable \/ Start \/ Stop \/ Tick
    PROVE  \E m, event, r, h : Handled(m, event, r, h)
<1>1. turn \in Profile /\ machine[turn] \in Machine /\ StepShown(machine[turn])
  BY TurnMachine
<1>2. {"stop", "enabled", "start", "expired", "none"} = Event  BY DEF Event
<1>3. ASSUME NEW event \in {"stop", "enabled", "start"},
             HandleEvent(turn, machine[turn], event),
             event = "enabled" => at = "enable", at # "tick", at' # "enable",
             db' = db, edited' = edited
      PROVE  \E m, e, r, h : Handled(m, e, r, h)
  <2>1. PICK r, h : Effect(turn, machine[turn], event, r, h)
    BY <1>1, <1>2, <1>3, HandleEffect
  <2>2. \A q \in Profile :
           /\ machine'[q] = IF q = turn THEN r ELSE machine[q]
           /\ held'[q] = IF q = turn THEN h ELSE held[q]
    BY <1>1, <2>1, HandledOnes
  <2>3. Handled(machine[turn], event, r, h)  BY <1>3, <2>1, <2>2 DEF Handled
  <2> QED  BY <2>3
<1>4. CASE Enable
  <2>1. /\ HandleEvent(turn, machine[turn], "enabled") /\ at = "enable"
        /\ at' = "tick" /\ db' = db /\ edited' = edited
    BY <1>4 DEF Enable, ToTick, console
  <2> QED  BY <1>3, <2>1
<1>5. CASE Start
  <2>1. /\ HandleEvent(turn, machine[turn], "start")
        /\ at = "command" /\ at' = "tick" /\ db' = db /\ edited' = edited
    BY <1>5 DEF Start, TakeCommand, ToTick, console
  <2> QED  BY <1>3, <2>1
<1>6. CASE Stop
  <2>1. /\ HandleEvent(turn, machine[turn], "stop")
        /\ at = "command" /\ at' = "tick" /\ db' = db /\ edited' = edited
    BY <1>6 DEF Stop, TakeCommand, ToTick, console
  <2> QED  BY <1>3, <2>1
<1>7. CASE Tick
  <2>1. PICK m \in Machine, event \in {"expired", "none"} :
           /\ m = [machine[turn] EXCEPT !.timer = Ticked(@)]
           /\ StepShown(m)
           /\ event = "expired" <=> m.timer = Expired
           /\ HandleEvent(turn, m, event)
    BY <1>7, TickEvent
  <2>2. PICK r, h : Effect(turn, m, event, r, h)
    BY <1>1, <1>2, <2>1, HandleEffect
  <2>3. \A q \in Profile :
           /\ machine'[q] = IF q = turn THEN r ELSE machine[q]
           /\ held'[q] = IF q = turn THEN h ELSE held[q]
    BY <1>1, <2>2, HandledOnes
  <2> DEFINE t == Ticked(machine[turn].timer)
  <2>4. machine[turn].timer \in Timer  BY <1>1 DEF Machine
  <2>5. /\ t # Expired => t = machine[turn].timer
        /\ t = Expired => machine[turn].timer \in {Expired, Running(0)}
    BY <2>4, TickedTimer
  <2>6. m = [machine[turn] EXCEPT !.timer = t]  BY <2>1
  <2> HIDE DEF t
  <2>7. /\ m.state = machine[turn].state /\ m.step = machine[turn].step
        /\ m.timer = t
    BY <1>1, <2>6 DEF Machine
  <2>8. at = "tick" /\ at' # "enable" /\ db' = db /\ edited' = edited
    BY <1>7 DEF Tick, console
  <2>9. event = "expired" => m.timer = Expired /\ t = Expired
    BY <2>1, <2>7
  <2>10. event # "expired" => t # Expired  BY <2>1, <2>7
  <2>11. event # "enabled" /\ event \in {"expired", "none"}  BY <2>1
  <2>12. Handled(m, event, r, h)
    BY <2>2, <2>3, <2>5, <2>7, <2>8, <2>9, <2>10, <2>11 DEF Handled
  <2> QED  BY <2>12
<1> QED  BY <1>4, <1>5, <1>6, <1>7

\* The steps that leave machines and outputs alone: commands, saves,
\* validation, no command.
Quiet == machine' = machine /\ out' = out /\ held' = held

LEMMA Steps ==
    ASSUME TypeOK, [Next]_vars
    PROVE  \/ \E m, event, r, h : Handled(m, event, r, h)
           \/ Delay
           \/ Validate
           \/ \E p \in Profile, d \in Draft : SaveMasks(p, d) \/ SaveSteps(p, d)
           \/ /\ Quiet /\ db' = db /\ edited' = edited
              /\ at' = "enable" => at = "enable" /\ turn' = turn
<1>1. CASE Enable \/ Start \/ Stop \/ Tick  BY <1>1, HandledStep
<1>2. CASE NoCommand
  BY <1>2 DEF NoCommand, ToTick, control, console, Quiet
<1>3. ASSUME NEW p \in Profile, NEW c, Send(p, c)
      PROVE  /\ Quiet /\ db' = db /\ edited' = edited
             /\ at' = at /\ turn' = turn
  BY <1>3 DEF Send, control, task, Quiet
<1>4. CASE UNCHANGED vars
  BY <1>4 DEF vars, control, task, console, Quiet
<1> QED  BY <1>1, <1>2, <1>3, <1>4 DEF Next, Console, Task

-----------------------------------------------------------------------------
(* Outputs.                                                                *)

\* The outputs serve one purpose at a time.
OneKind == out.heater = {} \/ out.tec = {}

LEMMA OneKindStep == TypeOK /\ OneKind /\ [Next]_vars => OneKind'
<1> SUFFICES ASSUME TypeOK, OneKind, [Next]_vars PROVE OneKind'
  OBVIOUS
<1>1. ASSUME NEW m, NEW event, NEW r, NEW h, Handled(m, event, r, h)
      PROVE  OneKind'
  <2>1. out' = Off \/ out' = out \/ Drive(turn, m.state)
    BY <1>1 DEF Handled, Effect
  <2> QED  BY <2>1 DEF OneKind, Off, Drive
<1>2. CASE out' = out  BY <1>2 DEF OneKind
<1>3. Delay \/ Validate => out' = out  BY DEF Delay, Validate, control
<1>4. \A p \in Profile, d \in Draft :
         SaveMasks(p, d) \/ SaveSteps(p, d) => out' = out
  BY DEF SaveMasks, SaveSteps, control
<1> QED  BY <1>1, <1>2, <1>3, <1>4, Steps DEF Quiet

\* HeatOrCool: no profile heats and cools at once, for each state drives one
\* kind and switches the other off on all channels (app_temperature.c:153-175).
THEOREM HeatingExcludesCooling == Spec => []HeatOrCool
<1>1. Init => OneKind  BY DEF Init, Off, OneKind
<1>2. OneKind => HeatOrCool  BY DEF OneKind, HeatOrCool
<1> QED  BY <1>1, <1>2, OneKindStep, ProfileTyping, PTL DEF Spec

\* DrivenIsOwned, with the profiles that run written out.
Owned ==
    /\ \A c \in out.heater : \E p \in Profile :
          machine[p].state \in Active /\ (edited[p] \/ c \in db[p].heater)
    /\ \A c \in out.tec : \E p \in Profile :
          machine[p].state \in Active /\ (edited[p] \/ c \in db[p].tec)

LEMMA OwnedIsDriven == DrivenIsOwned <=> Owned
BY DEF DrivenIsOwned, Owned

LEMMA OwnedStep == TypeOK /\ Owned /\ [Next]_vars => Owned'
<1> SUFFICES ASSUME TypeOK, Owned, [Next]_vars PROVE Owned'
  OBVIOUS
<1>a. turn \in Profile  BY DEF TypeOK
<1>b. edited \in [Profile -> BOOLEAN]  BY DEF TypeOK
<1>1. ASSUME NEW m, NEW event, NEW r, NEW h, Handled(m, event, r, h)
      PROVE  Owned'
  <2>1. /\ \A q \in Profile : machine'[q] = IF q = turn THEN r ELSE machine[q]
        /\ db' = db /\ edited' = edited /\ m.state = machine[turn].state
    BY <1>1 DEF Handled
  <2>2. CASE out' = Off  BY <2>2 DEF Off, Owned
  <2>3. CASE r.state \in Active /\ out' = out
    <3>1. \A q \in Profile : machine[q].state \in Active
                                 => machine'[q].state \in Active
      BY <2>1, <2>3
    <3> QED  BY <2>1, <2>3, <3>1 DEF Owned
  <2>4. CASE r.state \in Active /\ Drive(turn, m.state)
    <3>1. machine'[turn].state \in Active  BY <1>a, <2>1, <2>4
    <3>2. /\ \A c \in out'.heater : c \in db'[turn].heater
          /\ \A c \in out'.tec : c \in db'[turn].tec
      BY <2>1, <2>4 DEF Drive, Off
    <3> QED  BY <1>a, <3>1, <3>2 DEF Owned
  <2>5. CASE r = m /\ m.state = "disabled" /\ out' = out
    <3>1. \A q \in Profile : machine[q].state \in Active
                                 => machine'[q].state \in Active
      BY <2>1, <2>5, StateSets
    <3> QED  BY <2>1, <2>5, <3>1 DEF Owned
  <2> QED  BY <1>1, <2>2, <2>3, <2>4, <2>5 DEF Handled, Effect
<1>2. CASE Delay
  <2>1. \A q \in Profile : machine'[q].state = machine[q].state
    BY <1>2, DelayEffect
  <2>2. out' = out /\ db' = db /\ edited' = edited  BY <1>2 DEF Delay, console
  <2> QED  BY <2>1, <2>2 DEF Owned
<1>3. CASE Validate
  <2>1. out' = out /\ db' = db /\ machine' = machine
    BY <1>3 DEF Validate, control
  <2>2. \A q \in Profile : machine[q].state \in Active /\ edited[q] => edited'[q]
    BY <1>3, <1>b, StateSets DEF Validate
  <2> QED  BY <2>1, <2>2 DEF Owned
<1>4. ASSUME NEW p \in Profile, NEW d \in Draft, SaveMasks(p, d) \/ SaveSteps(p, d)
      PROVE  Owned'
  <2>1. out' = out /\ machine' = machine
    BY <1>4 DEF SaveMasks, SaveSteps, control
  <2>2. \A q \in Profile : q # p => db'[q] = db[q]
    BY <1>4, MasksSaved, StepsSaved
  <2>3. edited'[p] /\ \A q \in Profile : edited[q] => edited'[q]
    BY <1>4, <1>b DEF SaveMasks, SaveSteps
  <2> QED  BY <2>1, <2>2, <2>3 DEF Owned
<1>5. CASE Quiet /\ db' = db /\ edited' = edited
  BY <1>5 DEF Quiet, Owned
<1> QED  BY <1>1, <1>2, <1>3, <1>4, <1>5, Steps

\* DrivenIsOwned: a channel that is driven belongs to a profile that runs, so
\* nothing stays on when the last profile ends, fails or is stopped
\* (profile_state.c:61-75, :168-172).
THEOREM DrivenChannelsAreOwned == Spec => []DrivenIsOwned
<1>1. Init => Owned  BY DEF Init, Off, Owned
<1> QED  BY <1>1, OwnedIsDriven, OwnedStep, ProfileTyping, PTL DEF Spec

-----------------------------------------------------------------------------
(* Validation.                                                             *)

\* p runs, or is about to be enabled by the command that validated it, and was
\* not written since.
Checked(p) ==
    /\ machine[p].state \in Active \/ (at = "enable" /\ turn = p)
    /\ ~edited[p]

Apart(p, q) ==
    db[p].heater \cap db[q].heater = {} /\ db[p].tec \cap db[q].tec = {}

CheckedApart ==
    \A p, q \in Profile : p # q /\ Checked(p) /\ Checked(q) => Apart(p, q)

LEMMA ApartStep == TypeOK /\ CheckedApart /\ [Next]_vars => CheckedApart'
<1> SUFFICES ASSUME TypeOK, CheckedApart, [Next]_vars PROVE CheckedApart'
  OBVIOUS
<1>a. turn \in Profile  BY DEF TypeOK
<1>b. edited \in [Profile -> BOOLEAN]  BY DEF TypeOK
<1>1. ASSUME \A q \in Profile : Checked(q)' => Checked(q), db' = db
      PROVE  CheckedApart'
  BY <1>1 DEF CheckedApart, Apart
<1>2. ASSUME NEW m, NEW event, NEW r, NEW h, Handled(m, event, r, h)
      PROVE  CheckedApart'
  <2>1. /\ \A q \in Profile : machine'[q] = IF q = turn THEN r ELSE machine[q]
        /\ db' = db /\ edited' = edited /\ at' # "enable"
        /\ m.state = machine[turn].state
        /\ event = "enabled" => at = "enable"
    BY <1>2 DEF Handled
  <2>2. r.state \in Active => m.state \in Active \/ event = "enabled"
    BY <1>2, StateSets DEF Handled, Effect
  <2>3. \A q \in Profile : Checked(q)' => Checked(q)
    BY <2>1, <2>2 DEF Checked
  <2> QED  BY <1>1, <2>1, <2>3
<1>3. CASE Delay
  <2>1. \A q \in Profile : machine'[q].state = machine[q].state
    BY <1>3, DelayEffect
  <2>2. at' # "enable" /\ db' = db /\ edited' = edited
    BY <1>3 DEF Delay, console
  <2>3. \A q \in Profile : Checked(q)' => Checked(q)
    BY <2>1, <2>2 DEF Checked
  <2> QED  BY <1>1, <2>2, <2>3
<1>4. CASE Validate
  <2>1. db' = db /\ machine' = machine  BY <1>4 DEF Validate, control
  <2>2. CASE Valid
    <3>1. \A p, q \in Profile : p # q => Apart(p, q)
      BY <2>2 DEF Valid, Apart
    <3> QED  BY <2>1, <3>1 DEF CheckedApart, Apart
  <2>3. CASE ~Valid
    <3>1. at' # "enable" /\ edited' = edited
      BY <1>4, <2>3 DEF Validate, ToTick
    <3>2. \A q \in Profile : Checked(q)' => Checked(q)
      BY <2>1, <3>1 DEF Checked
    <3> QED  BY <1>1, <2>1, <3>2
  <2> QED  BY <2>2, <2>3
<1>5. ASSUME NEW p \in Profile, NEW d \in Draft, SaveMasks(p, d) \/ SaveSteps(p, d)
      PROVE  CheckedApart'
  <2>1. machine' = machine /\ at' = at /\ turn' = turn
    BY <1>5 DEF SaveMasks, SaveSteps, control, task
  <2>2. \A q \in Profile : q # p => db'[q] = db[q]
    BY <1>5, MasksSaved, StepsSaved
  <2>3. edited' = [edited EXCEPT ![p] = TRUE]  BY <1>5 DEF SaveMasks, SaveSteps
  <2>4. edited'[p] /\ \A q \in Profile : edited[q] => edited'[q]
    BY <1>b, <2>3
  <2>5. \A q \in Profile : Checked(q)' => Checked(q) /\ q # p
    BY <2>1, <2>4 DEF Checked
  <2> QED  BY <2>2, <2>5 DEF CheckedApart, Apart
<1>6. CASE /\ Quiet /\ db' = db /\ edited' = edited
           /\ at' = "enable" => at = "enable" /\ turn' = turn
  <2>1. \A q \in Profile : Checked(q)' => Checked(q)
    BY <1>6 DEF Quiet, Checked
  <2> QED  BY <1>1, <1>6, <2>1
<1> QED  BY <1>2, <1>3, <1>4, <1>5, <1>6, Steps

\* ChannelsDisjoint: validating one profile as it is enabled is enough to keep
\* all that run apart, for who was enabled before was validated against the
\* profiles that stand unwritten (app_temperature.c:91, DB_temp_profile_validation).
THEOREM RunningProfilesAreDisjoint == Spec => []ChannelsDisjoint
<1>1. Init => CheckedApart
  BY StateSets DEF Init, CheckedApart, Checked
<1>2. CheckedApart => ChannelsDisjoint
  BY DEF CheckedApart, Checked, Apart, ChannelsDisjoint
<1> QED  BY <1>1, <1>2, ApartStep, ProfileTyping, PTL DEF Spec

-----------------------------------------------------------------------------
(* Durations.                                                              *)

AllCount == \A p \in Profile : ~edited[p] => Counts(p, machine[p], held[p])

\* A round passes.
LEMMA DelayCounts ==
    ASSUME TypeOK, Delay, NEW p \in Profile, Counts(p, machine[p], held[p])
    PROVE  Counts(p, machine[p], held[p])'
<1> DEFINE d == db[p].steps[machine[p].step].duration
           m == machine[p]
           h == held[p]
<1>1. /\ machine'[p].state = m.state /\ machine'[p].step = m.step
      /\ machine'[p].timer = Elapsed(m.timer)
      /\ held'[p].on = h.on
      /\ held'[p].rounds = IF h.on /\ h.rounds < MaxRounds
                           THEN h.rounds + 1 ELSE h.rounds
  BY DelayEffect
<1>2. db' = db  BY DEF Delay, console
<1>3. SUFFICES ASSUME m.state \in Soak \cup Ramp, m.step < NumSteps, d > 0
               PROVE  Counted(machine'[p], held'[p], d)
  BY <1>1, <1>2 DEF Counts
<1>4. Counted(m, h, d)  BY <1>3 DEF Counts
<1>5. m \in Machine /\ StepShown(m) /\ h \in Held
  BY Controls DEF ControlTypes
<1>6. m.timer \in Timer /\ h.rounds \in 0 .. MaxRounds  BY <1>5 DEF Machine, Held
<1>7. d \in 0 .. MaxRounds
  <2>1. m.step \in -1 .. 126  BY <1>5 DEF Machine
  <2>2. m.state \notin Preheat \cup {"disabled"}  BY <1>3, StateSets
  <2>3. m.step \in 0 .. 126  BY <1>5, <2>1, <2>2 DEF StepShown
  <2>4. db[p].steps[m.step] \in StepAt(p, m.step)  BY <1>3 DEF StepAt
  <2> QED  BY <2>3, <2>4, StepRead
<1> DEFINE t == Elapsed(m.timer)
<1>8. /\ m.timer # Expired => t # Expired
      /\ t.mode = m.timer.mode
      /\ m.timer.mode = "running" => t.left >= m.timer.left - 1
      /\ t.mode = "running" => t.left \in 0 .. MaxRounds
      /\ m.timer.mode = "running" => m.timer.left \in 0 .. MaxRounds
  BY <1>6, ElapsedTimer, Timers
<1> HIDE DEF d, t
<1>9. ASSUME t.mode = "running"
      PROVE  held'[p].on /\ held'[p].rounds + t.left >= d
  <2>1. m.timer.mode = "running"  BY <1>8, <1>9
  <2>2. h.on /\ h.rounds + m.timer.left >= d  BY <1>4, <2>1 DEF Counted
  <2>3. t.left >= m.timer.left - 1 /\ t.left \in 0 .. MaxRounds
        /\ m.timer.left \in 0 .. MaxRounds
    BY <1>8, <1>9, <2>1
  <2>4. held'[p].on  BY <1>1, <2>2
  <2>5. CASE h.rounds < MaxRounds
    <3>1. held'[p].rounds = h.rounds + 1  BY <1>1, <2>2, <2>5
    <3> QED  BY <1>6, <1>7, <2>2, <2>3, <2>4, <3>1, Constants
  <2>6. CASE ~(h.rounds < MaxRounds)
    <3>1. held'[p].rounds = MaxRounds  BY <1>1, <1>6, <2>6, Constants
    <3> QED  BY <1>7, <2>3, <2>4, <3>1, Constants
  <2> QED  BY <2>5, <2>6
<1>10. machine'[p].timer = t  BY <1>1 DEF t
<1>11. machine'[p].timer # Expired  BY <1>4, <1>8, <1>10 DEF Counted
<1>12. machine'[p].state \in Ramp => machine'[p].timer.mode = "running"
  BY <1>1, <1>4, <1>8, <1>10 DEF Counted
<1> QED  BY <1>9, <1>10, <1>11, <1>12 DEF Counted

LEMMA CountStep == TypeOK /\ AllCount /\ [Next]_vars => AllCount'
<1> SUFFICES ASSUME TypeOK, AllCount, [Next]_vars PROVE AllCount'
  OBVIOUS
<1>a. turn \in Profile  BY DEF TypeOK
<1>b. edited \in [Profile -> BOOLEAN]  BY DEF TypeOK
<1>1. ASSUME NEW m, NEW event, NEW r, NEW h, Handled(m, event, r, h)
      PROVE  AllCount'
  <2>1. /\ \A q \in Profile : /\ machine'[q] = IF q = turn THEN r ELSE machine[q]
                              /\ held'[q] = IF q = turn THEN h ELSE held[q]
        /\ db' = db /\ edited' = edited
        /\ m.state = machine[turn].state /\ m.step = machine[turn].step
        /\ event # "expired" => m.timer = machine[turn].timer
    BY <1>1 DEF Handled
  <2>2. event = "expired" \/ Counts(turn, m, held[turn]) => Counts(turn, r, h)
    BY <1>1 DEF Handled, Effect
  <2>3. event # "expired" /\ Counts(turn, machine[turn], held[turn])
            => Counts(turn, m, held[turn])
    BY <2>1 DEF Counts, Counted
  <2>4. ~edited[turn] => Counts(turn, r, h)
    BY <1>a, <2>2, <2>3 DEF AllCount
  <2> QED  BY <2>1, <2>4 DEF AllCount, Counts
<1>2. CASE Delay
  <2>1. edited' = edited  BY <1>2 DEF Delay, console
  <2> QED  BY <1>2, <2>1, DelayCounts DEF AllCount
<1>3. CASE Validate
  <2>1. db' = db /\ machine' = machine /\ held' = held
    BY <1>3 DEF Validate, control
  <2>2. \A q \in Profile : machine[q].state # "disabled" /\ edited[q] => edited'[q]
    BY <1>3, <1>b DEF Validate
  <2>3. \A q \in Profile : machine[q].state = "disabled"
            => Counts(q, machine[q], held[q])
    BY StateSets DEF Counts
  <2> QED  BY <2>1, <2>2, <2>3 DEF AllCount, Counts
<1>4. ASSUME NEW p \in Profile, NEW d \in Draft, SaveMasks(p, d) \/ SaveSteps(p, d)
      PROVE  AllCount'
  <2>1. machine' = machine /\ held' = held
    BY <1>4 DEF SaveMasks, SaveSteps, control
  <2>2. \A q \in Profile : q # p => db'[q] = db[q]
    BY <1>4, MasksSaved, StepsSaved
  <2>3. edited' = [edited EXCEPT ![p] = TRUE]  BY <1>4 DEF SaveMasks, SaveSteps
  <2>4. edited'[p] /\ \A q \in Profile : edited[q] => edited'[q]
    BY <1>b, <2>3
  <2> QED  BY <2>1, <2>2, <2>4 DEF AllCount, Counts
<1>5. CASE Quiet /\ db' = db /\ edited' = edited
  BY <1>5 DEF Quiet, AllCount, Counts
<1> QED  BY <1>1, <1>2, <1>3, <1>4, <1>5, Steps

LEMMA LeftStep == TypeOK /\ AllCount /\ [Next]_vars => LeftInTime
<1> SUFFICES ASSUME TypeOK, AllCount, [Next]_vars, at = "tick", NEW p \in Profile,
                    machine[p].step \in 0 .. NumSteps - 1, ~edited[p],
                    db[p].steps[machine[p].step].duration > 0,
                    machine[p].state \in Soak \cup Ramp,
                    machine'[p].step # machine[p].step
             PROVE  /\ held[p].on
                    /\ held[p].rounds >= db[p].steps[machine[p].step].duration
  BY Zenon DEF LeftInTime
<1> DEFINE d == db[p].steps[machine[p].step].duration
<1>1. Counted(machine[p], held[p], d)
  <2>1. machine[p].step < NumSteps  BY Constants
  <2> QED  BY <2>1 DEF AllCount, Counts
<1>2. ASSUME NEW m, NEW event, NEW r, NEW h, Handled(m, event, r, h)
      PROVE  held[p].on /\ held[p].rounds >= d
  <2>1. /\ \A q \in Profile : machine'[q] = IF q = turn THEN r ELSE machine[q]
        /\ m.state = machine[turn].state /\ m.step = machine[turn].step
        /\ event = "expired" => machine[turn].timer \in {Expired, Running(0)}
        /\ event \in {"expired", "none"}
    BY <1>2 DEF Handled
  <2>2. p = turn /\ r.step # m.step  BY <2>1
  <2>3. /\ m.state \in Active /\ m.state # "disabled" /\ m.state # "error"
        /\ m.state \notin Preheat
    BY <2>1, <2>2, StateSets
  <2>4. Ends(m.state, event)
    BY <1>2, <2>1, <2>2, <2>3 DEF Handled, Effect
  <2>5. event = "expired"  BY <2>3, <2>4 DEF Ends
  <2>6. machine[p].timer = Running(0)  BY <1>1, <2>1, <2>2, <2>5 DEF Counted
  <2>7. machine[p].timer.mode = "running" /\ machine[p].timer.left = 0
    BY <2>6 DEF Running
  <2>8. held[p].on /\ held[p].rounds + 0 >= d  BY <1>1, <2>7 DEF Counted
  <2>9. held[p].rounds \in Nat  BY Constants DEF TypeOK
  <2> QED  BY <2>8, <2>9
<1>3. CASE Delay  BY <1>3 DEF Delay
<1>4. CASE Validate  BY <1>4 DEF Validate, TakeCommand
<1>5. ASSUME machine' = machine PROVE FALSE  BY <1>5
<1>6. \A q \in Profile, s \in Draft :
         SaveMasks(q, s) \/ SaveSteps(q, s) => machine' = machine
  BY DEF SaveMasks, SaveSteps, control
<1> QED  BY <1>2, <1>3, <1>4, <1>5, <1>6, Steps DEF Quiet

\* StepLasts: a tick leaves a timed step only after its whole duration
\* (profile_state.c:252-277), for all durations and whatever came before.
THEOREM TimedStepsLast == Spec => StepLasts
<1>1. Init => AllCount
  <2> SUFFICES ASSUME Init, NEW p \in Profile PROVE Counts(p, machine[p], held[p])
    BY DEF AllCount
  <2>1. machine[p].state = "disabled"  BY DEF Init
  <2> QED  BY <2>1, StateSets DEF Counts
<1> QED  BY <1>1, CountStep, LeftStep, ProfileTyping, PTL DEF Spec, StepLasts
=============================================================================
