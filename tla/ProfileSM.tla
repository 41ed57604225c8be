----------------------------- MODULE ProfileSM -----------------------------
(***************************************************************************)
(* The temperature control of the M0 application                           *)
(* (App_6_Temperature_Control): a state machine per profile, run in turn   *)
(* by one task every 100 ms, and the command line, a task of the same      *)
(* priority, which queues commands and overwrites stored profiles between  *)
(* any two steps of the control task.                                      *)
(*                                                                         *)
(* Temperatures and the PID are abstracted: whether a measurement is below *)
(* a set point, within the band around it, or drives an output is a choice *)
(* made anew each time the code compares.  Time is counted in rounds of    *)
(* the task and a step's duration likewise.  profileData_t.enabled and     *)
(* .start, which the task never reads, are left out.                       *)
(***************************************************************************)
EXTENDS Integers, Sequences

CONSTANTS
    NumProfiles,  \* PROFILE_MAX_NUM (8 in the code)
    NumSteps,     \* PROFILE_MAX_STEP_NUM (10 in the code)
    Heater, Tec,  \* the output channels
    Step,         \* the steps that are configured, as [mode, duration]
    Stored,       \* the profiles in the database when the control starts
    Draft,        \* the profiles that the command line may save later
    QueueLen,     \* length of a command queue (2 in the code)
    MaxCommands,  \* bound: commands sent
    MaxSaves,     \* bound: profiles saved
    MaxRounds     \* bound: rounds that `held' counts, no duration is longer

Profile == 0 .. NumProfiles - 1
Mode == {"hold", "heat", "cool"}

\* profileData_t.  step_count is free of the number of slots: each
\* temp_profile_cfg_step adds one to it, also when it sets a slot again.
ProfileData == [heater : SUBSET Heater, tec : SUBSET Tec,
                steps : [0 .. NumSteps - 1 -> Step], count : 0 .. 255]

ASSUME ProfileAssumption ==
    /\ NumProfiles \in Nat \ {0}
    /\ NumSteps \in Nat \ {0}
    /\ Step \subseteq [mode : Mode, duration : Nat]
    /\ Stored \in [Profile -> ProfileData]
    /\ Draft \subseteq ProfileData
    /\ QueueLen \in Nat \ {0}
    /\ MaxCommands \in Nat
    /\ MaxSaves \in Nat
    /\ MaxRounds \in Nat
    /\ \A s \in Step : s.duration <= MaxRounds

VARIABLES
    db,       \* temp_profiles
    machine,  \* myProfileState: state, current_step and timer of a profile
    out,      \* the heaters and the TECs that are driven
    queue,    \* temperature_command_queue of a profile
    turn, at, \* the profile whose turn it is in the task, and the task's place
    saving,   \* the rest of a DB_temp_profile_write, as a set of <<profile, data>>
    \* History, read by the properties and the bounds only:
    edited,   \* a profile was written since it was validated to be enabled
    held,     \* whether, and for how many rounds, what a step waits for holds
    sent, saves  \* commands sent and profiles saved so far

control == <<machine, out, held>>
task == <<turn, at>>
console == <<db, saving, edited, sent, saves>>
vars == <<control, task, queue, console>>

-----------------------------------------------------------------------------
(* The software timer: sw_timer.c.                                         *)

Stopped == [mode |-> "stopped", left |-> 0]
Running(d) == [mode |-> "running", left |-> d]
Expired == [mode |-> "expired", left |-> 0]

\* sw_timer_tick.
Ticked(t) == IF t = Running(0) THEN Expired ELSE t

\* A round of the task takes time off a running timer.
Elapsed(t) ==
    IF t.mode = "running" /\ t.left > 0 THEN Running(t.left - 1) ELSE t

-----------------------------------------------------------------------------
(* The states: profile_state.c.  m is the machine of p as the handler finds *)
(* it; every operator gives machine, out and held their next values.       *)

Preheat == {"preheat_heat", "preheat_cool"}
Soak == {"soak_heat", "soak_cool"}
Ramp == {"heating", "cooling"}
Active == Preheat \cup Soak \cup Ramp
Heating == {"preheat_heat", "soak_heat", "heating"}
State == Active \cup {"disabled", "error"}

Off == [heater |-> {}, tec |-> {}]

Become(p, s, k, t) ==
    machine' = [machine EXCEPT ![p] = [state |-> s, step |-> k, timer |-> t]]

\* What a new state waits for: a ramp for time, a soak for the band first.
Begin(p, s) == held' = [held EXCEPT ![p] = [on |-> s \in Ramp, rounds |-> 0]]

Enter(p, s, k, t) == Become(p, s, k, t) /\ Begin(p, s) /\ UNCHANGED out

\* Mutant: the TECs are forgotten.
EnterOffHeaters(p, s, k) ==
    Become(p, s, k, Stopped) /\ Begin(p, s) /\ out' = [out EXCEPT !.heater = {}]

\* enter_disabled and enter_error: all_outputs_off writes the channels of
\* every profile.
EnterOff(p, s, k) == Become(p, s, k, Stopped) /\ Begin(p, s) /\ out' = Off

\* Mutant: the step is kept.
EnterDisabledAtStep(p) == EnterOff(p, "disabled", machine[p].step)

EnterDisabled(p) == EnterOff(p, "disabled", -1)

EnterPreheat(p, m) == \E s \in Preheat : Enter(p, s, m.step, Stopped)

\* data->steps[k].  Past the array lies the rest of the memory: any step.
Garbage == [mode : Mode \cup {"none"}, duration : {s.duration : s \in Step}]
StepAt(p, k) == IF k < NumSteps THEN {db[p].steps[k]} ELSE Garbage

\* A ramp starts the timer if it has a duration; else the timer stays as it is.
EnterRamp(p, s, k, duration, t) ==
    Enter(p, s, k, IF duration > 0 THEN Running(duration) ELSE t)

\* A soak stops the timer, which starts when the band is reached.
EnterSoak(p, s, k) == Enter(p, s, k, Stopped)

EnterStep(p, m, k) ==
    \E s \in StepAt(p, k) :
        \/ s.mode = "hold" /\ \E st \in Soak : EnterSoak(p, st, k)
        \/ s.mode = "heat" /\ EnterRamp(p, "heating", k, s.duration, m.timer)
        \/ s.mode = "cool" /\ EnterRamp(p, "cooling", k, s.duration, m.timer)
        \/ s.mode = "none" /\ EnterOff(p, "error", k)

\* current_step and, in this comparison, step_count are int8_t.
Int8(n) == IF n > 127 THEN n - 256 ELSE n

EnterProfileCheck(p, m) ==
    IF m.step + 1 >= Int8(db[p].count)
    THEN EnterDisabled(p)
    ELSE EnterStep(p, m, m.step + 1)

\* heater_set_duty and cooler_set_duty: the channels of the mask get the duty
\* of p, all others zero.  A state drives one kind and switches off the other.
Drive(p, s) ==
    \/ out' = Off
    \/ out' = IF s \in Heating THEN [heater |-> db[p].heater, tec |-> {}]
                               ELSE [heater |-> {}, tec |-> db[p].tec]

\* Mutant: leaving the band does not stop the timer.
SoakTimerRunsOn(t, duration, inBand) ==
    IF inBand /\ t.mode = "stopped" /\ duration > 0 THEN Running(duration) ELSE t

\* Mutant: the timer is started again at each tick.
SoakTimerAgain(t, duration, inBand) ==
    CASE inBand /\ duration > 0 -> Running(duration)
      [] ~inBand /\ t.mode = "running" -> Stopped
      [] OTHER -> t

\* The timer of a soak: it runs while the temperature is within the band.
SoakTimer(t, duration, inBand) ==
    CASE inBand /\ t.mode = "stopped" /\ duration > 0 -> Running(duration)
      [] ~inBand /\ t.mode = "running" -> Stopped
      [] OTHER -> t

DoSoak(p, m) ==
    \E s \in StepAt(p, m.step), inBand \in BOOLEAN :
        /\ Become(p, m.state, m.step, SoakTimer(m.timer, s.duration, inBand))
        /\ held' = [held EXCEPT ![p] =
                       [on |-> inBand, rounds |-> IF inBand THEN @.rounds ELSE 0]]

\* The do_ functions.
Do(p, m) ==
    /\ Drive(p, m.state)
    /\ IF m.state \in Soak
       THEN DoSoak(p, m)
       ELSE Become(p, m.state, m.step, m.timer) /\ UNCHANGED held

\* The events that end an active state s.
Ends(s, event) ==
    event = "expired" \/ (event = "start" /\ s \in Preheat)

\* profileSM_handle_event.
HandleEvent(p, m, event) ==
    \/ event = "stop" /\ EnterDisabled(p)
    \/ m.state = "disabled" /\ event = "enabled" /\ EnterPreheat(p, m)
    \/ /\ m.state = "disabled" /\ event \notin {"enabled", "stop"}
       /\ Become(p, m.state, m.step, m.timer)
       /\ UNCHANGED <<out, held>>
    \/ m.state \in Active /\ Ends(m.state, event) /\ EnterProfileCheck(p, m)
    \/ m.state \in Active /\ event # "stop" /\ ~Ends(m.state, event) /\ Do(p, m)
    \/ /\ m.state = "error" /\ event # "stop"
       /\ Become(p, m.state, m.step, m.timer)
       /\ out' = Off
       /\ UNCHANGED held

-----------------------------------------------------------------------------
Init ==
    /\ db = Stored
    /\ machine = [p \in Profile |->
                     [state |-> "disabled", step |-> -1, timer |-> Stopped]]
    /\ out = Off
    /\ queue = [p \in Profile |-> <<>>]
    /\ turn = 0 /\ at = "command"
    /\ saving = {}
    /\ edited = [p \in Profile |-> FALSE]
    /\ held = [p \in Profile |-> [on |-> FALSE, rounds |-> 0]]
    /\ sent = 0 /\ saves = 0

(* The command line. *)

\* temp_auto_ena, temp_auto_start and temp_manu; a full queue refuses.
Send(p, c) ==
    /\ sent < MaxCommands
    /\ sent' = sent + 1
    /\ queue' = [queue EXCEPT ![p] = IF Len(@) < QueueLen THEN Append(@, c) ELSE @]
    /\ UNCHANGED <<control, task, db, saving, edited, saves>>

\* DB_temp_profile_write copies a structure and may be interrupted: first the
\* masks, which lie in front, then the steps and their number.
SaveMasks(p, d) ==
    /\ saving = {}
    /\ saves < MaxSaves
    /\ saves' = saves + 1
    /\ db' = [db EXCEPT ![p] = [@ EXCEPT !.heater = d.heater, !.tec = d.tec]]
    /\ saving' = {<<p, d>>}
    /\ edited' = [edited EXCEPT ![p] = TRUE]
    /\ UNCHANGED <<control, task, queue, sent>>

SaveSteps(p, d) ==
    /\ <<p, d>> \in saving
    /\ db' = [db EXCEPT ![p] = [@ EXCEPT !.steps = d.steps, !.count = d.count]]
    /\ saving' = {}
    /\ edited' = [edited EXCEPT ![p] = TRUE]
    /\ UNCHANGED <<control, task, queue, sent, saves>>

Console ==
    \E p \in Profile :
        \/ \E c \in {"auto", "start", "manual"} : Send(p, c)
        \/ \E d \in Draft : SaveMasks(p, d) \/ SaveSteps(p, d)

(* App_TemperatureTask. *)

\* Mutant: heaters are not compared.
ValidTecs ==
    \A p, q \in Profile : p # q => db[p].tec \cap db[q].tec = {}

\* DB_temp_profile_validation.  Profiles without outputs share none.
Valid ==
    \A p, q \in Profile :
        p # q => /\ db[p].tec \cap db[q].tec = {}
                 /\ db[p].heater \cap db[q].heater = {}

ToTick == turn' = turn /\ at' = "tick"

NoCommand ==
    /\ at = "command" /\ queue[turn] = <<>>
    /\ ToTick
    /\ UNCHANGED <<control, queue, console>>

\* Mutant: the command is looked at and left in the queue.
TakeCommandPeek(c) ==
    /\ at = "command" /\ queue[turn] # <<>>
    /\ Head(queue[turn]) = c
    /\ UNCHANGED queue

TakeCommand(c) ==
    /\ at = "command" /\ queue[turn] # <<>>
    /\ Head(queue[turn]) = c
    /\ queue' = [queue EXCEPT ![turn] = Tail(@)]

Validate ==
    /\ TakeCommand("auto")
    /\ IF Valid
       THEN /\ turn' = turn /\ at' = "enable"
            /\ edited' = [edited EXCEPT ![turn] =
                              @ /\ machine[turn].state # "disabled"]
       ELSE ToTick /\ UNCHANGED edited
    /\ UNCHANGED <<control, db, saving, sent, saves>>

Enable ==
    /\ at = "enable"
    /\ HandleEvent(turn, machine[turn], "enabled")
    /\ ToTick
    /\ UNCHANGED <<queue, console>>

Start ==
    /\ TakeCommand("start")
    /\ HandleEvent(turn, machine[turn], "start")
    /\ ToTick
    /\ UNCHANGED console

Stop ==
    /\ TakeCommand("manual")
    /\ HandleEvent(turn, machine[turn], "stop")
    /\ ToTick
    /\ UNCHANGED console

\* The timer, then the state; then the next profile, or the delay.
Tick ==
    /\ at = "tick"
    /\ LET m == [machine[turn] EXCEPT !.timer = Ticked(@)]
       IN  HandleEvent(turn, m, IF m.timer = Expired THEN "expired" ELSE "none")
    /\ IF turn + 1 < NumProfiles
       THEN turn' = turn + 1 /\ at' = "command"
       ELSE turn' = turn /\ at' = "delay"
    /\ UNCHANGED <<queue, console>>

\* vTaskDelay, and with it the time of a round.
Delay ==
    /\ at = "delay"
    /\ turn' = 0 /\ at' = "command"
    /\ machine' = [p \in Profile |-> [machine[p] EXCEPT !.timer = Elapsed(@)]]
    /\ held' = [p \in Profile |->
                   [held[p] EXCEPT !.rounds =
                       IF held[p].on /\ @ < MaxRounds THEN @ + 1 ELSE @]]
    /\ UNCHANGED <<out, queue, console>>

Task == NoCommand \/ Validate \/ Enable \/ Start \/ Stop \/ Tick \/ Delay

Next == Console \/ Task

Spec == Init /\ [][Next]_vars

\* The task has the third highest priority and is never suspended.
FairSpec == Spec /\ WF_vars(Task)

-----------------------------------------------------------------------------
(* Properties.                                                             *)

Timer == {Stopped, Expired} \cup {Running(d) : d \in 0 .. MaxRounds}

\* Type invariant.  current_step fits in its int8_t, whatever number of steps
\* a profile is given and whenever it is written.
TypeOK ==
    /\ db \in [Profile -> ProfileData]
    /\ machine \in [Profile -> [state : State, step : -1 .. 126, timer : Timer]]
    /\ \A p \in Profile :
          machine[p].step = -1 <=> machine[p].state \in Preheat \cup {"disabled"}
    /\ out \in [heater : SUBSET Heater, tec : SUBSET Tec]
    /\ queue \in [Profile -> Seq({"auto", "start", "manual"})]
    /\ \A p \in Profile : Len(queue[p]) <= QueueLen
    /\ turn \in Profile
    /\ at \in {"command", "enable", "tick", "delay"}
    /\ saving \subseteq Profile \X Draft
    /\ edited \in [Profile -> BOOLEAN]
    /\ held \in [Profile -> [on : BOOLEAN, rounds : 0 .. MaxRounds]]
    /\ sent \in 0 .. MaxCommands /\ saves \in 0 .. MaxSaves

\* Profiles that run as they were validated never share an output: the
\* validation of one profile (app_temperature.c:91) covers all that run, and
\* also one that is enabled after a profile was written while others ran.
ChannelsDisjoint ==
    \A p, q \in Profile :
        /\ p # q
        /\ machine[p].state \in Active /\ ~edited[p]
        /\ machine[q].state \in Active /\ ~edited[q]
        => /\ db[p].heater \cap db[q].heater = {}
           /\ db[p].tec \cap db[q].tec = {}

\* The heaters and the TECs of a profile never work against each other, from
\* state to state and whatever the other profiles do.
HeatOrCool ==
    \A p \in Profile :
        machine[p].state \in Active /\ ~edited[p] =>
            out.heater \cap db[p].heater = {} \/ out.tec \cap db[p].tec = {}

\* What is driven belongs to a profile that runs, however others stop, end,
\* fail or are written meanwhile.  So all is off when no profile runs.
DrivenIsOwned ==
    LET Runs == {p \in Profile : machine[p].state \in Active} IN
    /\ \A h \in out.heater : \E p \in Runs : edited[p] \/ h \in db[p].heater
    /\ \A t \in out.tec : \E p \in Runs : edited[p] \/ t \in db[p].tec

\* A tick takes p out of its timed step only when what the step waits for has
\* held for the duration.
LeftInTime ==
    at = "tick" =>
      \A p \in Profile :
        LET k == machine[p].step IN
        /\ k \in 0 .. NumSteps - 1
        /\ ~edited[p]
        /\ db[p].steps[k].duration > 0
        /\ machine[p].state \in Soak \cup Ramp
        /\ machine'[p].step # k
        => held[p].on /\ held[p].rounds >= db[p].steps[k].duration

\* A step with a duration is left by the timer only when a ramp has lasted,
\* and a soak was within the band, for that long without a break
\* (profile_state.c:252-256), whatever the steps before it left in the timer.
StepLasts == [][LeftInTime]_vars

\* A stop that was queued is carried out, commands before it first.
StopIsObeyed ==
    \A p \in Profile :
        (\E i \in 1 .. Len(queue[p]) : queue[p][i] = "manual")
            ~> machine[p].state = "disabled"

\* The temperature is out of the band at a tick of a soak of p.
Wander(p) ==
    /\ at = "tick" /\ turn = p
    /\ machine[p].state \in Soak
    /\ machine'[p].state = machine[p].state /\ machine'[p].step = machine[p].step
    /\ ~held'[p].on

\* A profile whose steps all have a duration runs to its end, if the
\* temperature settles and nobody writes it.
ProfileEnds ==
    \A p \in Profile :
        <>[][~Wander(p)]_vars =>
            (/\ machine[p].state \in Soak \cup Ramp
             /\ db[p].count <= NumSteps
             /\ \A k \in 0 .. db[p].count - 1 : db[p].steps[k].duration > 0)
            ~> (machine[p].state \notin Soak \cup Ramp \/ edited[p])

(* A claim of the documentation that the code does not keep.               *)

\* docs/testing/16_temperature_control.md:297: "After executing this command,
\* the system regulates the temperature": each of the profiles that run, so
\* that the turn of one leaves the outputs of the others alone.
OthersLeftAlone ==
    [][\A p \in Profile \ {turn} :
         at = "tick" /\ machine[p].state \in Active /\ ~edited[p] =>
            /\ out'.heater \cap db[p].heater = out.heater \cap db[p].heater
            /\ out'.tec \cap db[p].tec = out.tec \cap db[p].tec]_vars
=============================================================================
