---------------------------- MODULE MCProfileSM ----------------------------
(* Instances of ProfileSM for TLC.                                         *)
EXTENDS ProfileSM

Steps2(a, b) == [k \in 0 .. 1 |-> IF k = 0 THEN a ELSE b]
S(m, d) == [mode |-> m, duration |-> d]
P(h, t, a, b, n) == [heater |-> h, tec |-> t, steps |-> Steps2(a, b), count |-> n]

\* A ramp and a soak of the first profile, a soak of the second.
RampAndSoak == P({"h1"}, {"t1"}, S("heat", 1), S("hold", 2), 2)
SoakTwice == P({"h2"}, {}, S("hold", 1), S("hold", 1), 2)
MainStored == [p \in Profile |-> IF p = 0 THEN RampAndSoak ELSE SoakTwice]

\* A profile that takes the heater of the other, with a step more than slots.
MainDraft == {P({"h1"}, {}, S("cool", 1), S("hold", 1), 3)}

MainStep == [mode : Mode, duration : 0 .. 2]
=============================================================================
