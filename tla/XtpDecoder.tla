----------------------------- MODULE XtpDecoder -----------------------------
(***************************************************************************)
(* The receiving half of xTP framing: xTP_Process polls for a byte and     *)
(* feeds it to the state machine xTP_Read (M1_SysApp/xtp/xtp.c), in the    *)
(* build's configuration (CRC-16, ECC and ARQ on; 8-bit length, no target, *)
(* no segments, no HMAC).  The sender writes frames with xTP_SendEx; the   *)
(* line loses, changes and inserts bytes, and either side may pause.       *)
(*                                                                         *)
(* A byte is a number, or a check byte: ECC and CRC bytes stand for what   *)
(* they were computed over.  A check byte read in the wrong place is any   *)
(* number of Chance; what is read in the place of a CRC matches when a     *)
(* sender computed it over what was received, does not when one computed   *)
(* it over something else, and may match, by its value, when it is data,   *)
(* noise or another check byte.                                            *)
(***************************************************************************)
EXTENDS Integers, Sequences

CONSTANTS
    Frames,      \* bound: the frames that are sent, in this order
    typemethod,  \* the PROT|XFER byte that both sides expect
    Noise,       \* bound: the values of changed and inserted bytes
    Chance,         \* bound: the values that a check byte can have in a wrong place
    MaxFaults,   \* bound: bytes lost, changed or inserted
    MaxLine,     \* bound: bytes received and not yet polled
    Timeout      \* XTP_TIMEOUT_MS (300), in ticks

Frame == [id : 0 .. 255, id_high : 0 .. 255, seq : 0 .. 255, data : Seq(0 .. 255)]

ASSUME DecoderAssumption ==
    /\ Frames \in Seq(Frame)
    /\ \A i, j \in DOMAIN Frames : Frames[i] = Frames[j] => i = j
    /\ typemethod \in 0 .. 255 /\ Noise \cup Chance \subseteq 0 .. 255
    /\ MaxFaults \in Nat /\ MaxLine \in Nat \ {0} /\ Timeout \in Nat

START1 == 192
Starting == 192 .. 207  \* START_BYTE1_MASK
START2 == 222
STOP1 == 218
STOP2 == 237

VARIABLES
    sending, byte_no,  \* the sender: its frame, and the bytes of it that it sent
    line,              \* bytes received and not yet polled
    state,             \* d->state
    covered,           \* the bytes that crc_ctx has seen
    data,              \* d->data
    crc_received,      \* the CRC bytes
    age,               \* now - last_rx_tick, up to Timeout + 1
    accepted,          \* the frames handed on, and how they passed their check
    \* History, read by the properties and the bounds only:
    faults,            \* bytes lost, changed or inserted
    harm,              \* what has happened to the frame being sent: "none" if the
                       \* decoder waited for it, "data" or "other" if one byte of
                       \* its data or of what is checked was changed, else "much"
    before,            \* frames accepted before it
    quiet              \* ticks since the last byte came, up to Timeout + 1

sender == <<sending, byte_no>>
decoder == <<state, covered, data, crc_received>>
history == <<faults, harm, before>>
vars == <<sender, line, decoder, age, accepted, history, quiet>>

-----------------------------------------------------------------------------
(* Bytes and frames                                                        *)

Number(n) == <<"number", n>>

\* The numbers that a byte can be when it is read as b.
Values(b) == IF b[1] = "number" THEN {b[2]} ELSE Chance

\* The outcomes of comparing a byte with the numbers in S.
Is(b, S) == {v \in BOOLEAN : IF v THEN Values(b) \cap S # {} ELSE Values(b) \ S # {}}

Numbers(s) == [i \in DOMAIN s |-> Number(s[i])]

\* xTP_SendEx: the bytes under the CRC, and the frame on the wire.
Covered(f) ==
    LET d == Numbers(f.data) IN
    <<Number(typemethod), Number(f.id), Number(f.id_high), Number(f.seq), Number(Len(d))>>
        \o d \o <<<<"ecc0", d>>, <<"ecc1", d>>>>

Wire(f) ==
    <<Number(START1), Number(START2)>> \o Covered(f)
        \o <<<<"crc1", Covered(f)>>, <<"crc2", Covered(f)>>, Number(STOP1), Number(STOP2)>>

\* The places of the length and of the data in a frame.
LengthAt == 7
DataAt(f) == 8 .. 7 + Len(f.data)

-----------------------------------------------------------------------------

Init ==
    /\ sending = 1 /\ byte_no = 0 /\ line = <<>>
    /\ state = "START1" /\ covered = <<>> /\ data = <<>> /\ crc_received = <<>>
    /\ age = 0 /\ accepted = <<>>
    /\ faults = 0 /\ harm = "much" /\ before = 0 /\ quiet = 0

-----------------------------------------------------------------------------
(* The sender and the line                                                 *)

Sending == sending <= Len(Frames)
Current == Wire(Frames[sending])

Put(b) ==
    /\ Len(line) < MaxLine
    /\ line' = Append(line, b)
    /\ quiet' = 0

\* The next byte of the frame, or the first of the next frame.
NextByte ==
    /\ Sending
    /\ IF byte_no < Len(Current) THEN UNCHANGED sending /\ byte_no' = byte_no + 1
       ELSE sending < Len(Frames) /\ sending' = sending + 1 /\ byte_no' = 1

This == Wire(Frames[sending'])[byte_no']
Ready == line = <<>> /\ state = "START1"

\* The harm that the frame had met before this byte.
Harm == IF byte_no' > 1 THEN harm ELSE IF Ready THEN "none" ELSE "much"
Before == IF byte_no' > 1 THEN before ELSE Len(accepted)

SendByte ==
    /\ NextByte
    /\ Put(This)
    /\ harm' = Harm /\ before' = Before
    /\ UNCHANGED <<decoder, age, accepted, faults>>

Fault == faults < MaxFaults /\ faults' = faults + 1

Lose ==
    /\ Fault /\ NextByte
    /\ harm' = "much" /\ before' = Before
    /\ UNCHANGED <<line, decoder, age, accepted, quiet>>

\* A byte within 192 .. 207 starts a frame too.  A frame of which the type or the
\* rest of the start is changed is searched for another one, as its data may be.
Harmed(v) ==
    IF Harm # "none" THEN "much"
    ELSE IF byte_no' = 1 /\ v \in Starting THEN "none"
    ELSE IF byte_no' \in 1 .. 3 \cup {LengthAt} THEN "much"
    ELSE IF byte_no' \in DataAt(Frames[sending']) THEN "data" ELSE "other"

Change(v) ==
    /\ Fault /\ NextByte
    /\ Number(v) # This
    /\ Put(Number(v))
    /\ harm' = Harmed(v)
    /\ before' = Before
    /\ UNCHANGED <<decoder, age, accepted>>

Insert(v) ==
    /\ Fault
    /\ Put(Number(v))
    /\ harm' = "much"
    /\ UNCHANGED <<sender, decoder, age, accepted, before>>

\* A millisecond passes.
Later(n) == IF n > Timeout THEN n ELSE n + 1

Tick ==
    /\ age' = Later(age) /\ quiet' = Later(quiet)
    /\ harm' = IF byte_no < Len(Current) /\ quiet' > Timeout THEN "much" ELSE harm
    /\ UNCHANGED <<sender, line, decoder, accepted, faults, before>>

-----------------------------------------------------------------------------
(* xTP_Read: what it does with the byte b.                                 *)

\* xTP_Reset.
Reset ==
    /\ state' = "START1" /\ covered' = <<>> /\ data' = <<>> /\ crc_received' = <<>>
    /\ UNCHANGED accepted

Go(place) == state' = place

Start1(b) ==
    /\ state = "START1"
    /\ \E yes \in Is(b, Starting) :
          IF yes THEN /\ Go("START2")
                      /\ covered' = <<>> /\ data' = <<>> /\ crc_received' = <<>>
          ELSE UNCHANGED decoder
    /\ UNCHANGED accepted

Start2(b) ==
    /\ state = "START2"
    /\ \E yes \in Is(b, {START2}) :
          IF yes THEN Go("TYPEMETHOD") /\ UNCHANGED <<covered, data, crc_received, accepted>>
          ELSE Reset

Header(b) ==
    LET next == [TYPEMETHOD |-> "ID", ID |-> "ID_HIGH", ID_HIGH |-> "SEQ", SEQ |-> "LEN"] IN
    /\ state \in DOMAIN next
    /\ \E yes \in (IF state = "TYPEMETHOD" THEN Is(b, {typemethod}) ELSE {TRUE}) :
          IF yes THEN /\ Go(next[state])
                      /\ covered' = Append(covered, b)
                      /\ UNCHANGED <<data, crc_received, accepted>>
          ELSE Reset

\* The length as it was read: covered keeps the number.
Length(b) ==
    /\ state = "LEN"
    /\ \E n \in Values(b) :
          /\ covered' = Append(covered, Number(n))
          /\ Go(IF n > 0 THEN "DATA" ELSE "ECC0")
    /\ UNCHANGED <<data, crc_received, accepted>>

\* The buffer has room for every length that a byte can state.
Data(b) ==
    /\ state = "DATA"
    /\ data' = Append(data, b)
    /\ covered' = Append(covered, b)
    /\ Go(IF Number(Len(data) + 1) = covered[5] THEN "ECC0" ELSE "DATA")
    /\ UNCHANGED <<crc_received, accepted>>

Ecc(b) ==
    /\ state \in {"ECC0", "ECC1"}
    /\ Go(IF state = "ECC0" THEN "ECC1" ELSE "CRC1")
    /\ covered' = Append(covered, b)
    /\ UNCHANGED <<data, crc_received, accepted>>

Crc1(b) ==
    /\ state = "CRC1"
    /\ Go("CRC2")
    /\ crc_received' = <<b>>
    /\ UNCHANGED <<covered, data, accepted>>

\* xTP_ECC_Decode: the data it may leave when it reports a correction.  One
\* wrong byte is put right (see XtpEcc).  Of several it may notice that it
\* cannot correct them, or "correct" some byte.
Garbled == <<"garbled", 0>>

\* Mutant: nothing is corrected.
CorrectionsNone == {}

Corrections ==
    LET ecc == SubSeq(covered, Len(covered) - 1, Len(covered))
        d == ecc[1][2]
        Wrong == {i \in DOMAIN data : data[i] # d[i]}
    IN IF /\ ecc[1][1] = "ecc0" /\ ecc[2][1] = "ecc1" /\ ecc[1][2] = ecc[2][2]
          /\ Len(d) = Len(data) /\ \A i, j \in Wrong : i = j
       THEN IF Wrong = {} THEN {} ELSE {d}
       ELSE IF ecc[1] = <<"ecc0", data>> \/ ecc[2] = <<"ecc1", data>> THEN {}
       ELSE {[data EXCEPT ![i] = Garbled] : i \in DOMAIN data}

\* The CRC bytes are a sender's, over whatever it is.
Computed(crc) == crc[1][1] = "crc1" /\ crc[2][1] = "crc2" /\ crc[1][2] = crc[2][2]

\* Mutant: any check bytes will do.
CrcMatchesAny(crc) == {crc[1][1] = "crc1" /\ crc[2][1] = "crc2"}

\* The outcomes of the comparison, which is by value.  A CRC tells apart what
\* differs: collisions are left out.  Where one byte is right the other one is
\* not: a changed byte has another value, and a byte in the place of an equal one
\* that was lost is no loss of that one.
CrcMatches(crc) ==
    LET one == crc[1] = <<"crc1", covered>>
        two == crc[2] = <<"crc2", covered>>
    IN IF one \/ two \/ Computed(crc) THEN {one /\ two} ELSE BOOLEAN

\* A NACK is sent before the reset (XtpArq has what follows from it).
Crc2(b) ==
    LET crc == Append(crc_received, b) IN
    /\ state = "CRC2"
    /\ \E yes \in CrcMatches(crc) :
          IF yes
          THEN Go("STOP1") /\ crc_received' = crc /\ UNCHANGED <<covered, data, accepted>>
          ELSE \/ /\ ~ \E d \in Corrections : \A i \in DOMAIN d : d[i] # Garbled
                  /\ Reset
               \/ \E d \in Corrections :
                     /\ Go("STOP1")
                     /\ data' = d /\ crc_received' = crc
                     /\ UNCHANGED <<covered, accepted>>

Stop1(b) ==
    /\ state = "STOP1"
    /\ \E yes \in Is(b, {STOP1}) :
          IF yes THEN Go("STOP2") /\ UNCHANGED <<covered, data, crc_received, accepted>>
          ELSE Reset

\* XTP_VALID: the frame is handed on.
Got == [id |-> covered[2], id_high |-> covered[3], seq |-> covered[4], data |-> data,
        repaired |-> SubSeq(covered, 6, 5 + Len(data)) # data,
        checked |-> Computed(crc_received)]

Stop2(b) ==
    /\ state = "STOP2"
    /\ \E yes \in Is(b, {STOP2}) :
          IF yes THEN /\ Go("START1")
                      /\ accepted' = Append(accepted, Got)
                      /\ UNCHANGED <<covered, data, crc_received>>
          ELSE Reset

Read(b) ==
    \/ Start1(b) \/ Start2(b) \/ Header(b) \/ Length(b) \/ Data(b) \/ Ecc(b)
    \/ Crc1(b) \/ Crc2(b) \/ Stop1(b) \/ Stop2(b)

-----------------------------------------------------------------------------
(* xTP_Process                                                             *)

\* Mutant: last_rx_tick is not set.
AgeNever == age

AgeOfByte == 0

PollByte ==
    /\ line # <<>>
    /\ Read(Head(line))
    /\ line' = Tail(line)
    /\ age' = AgeOfByte
    /\ UNCHANGED <<sender, history, quiet>>

\* Mutant: the test of the state is inverted.
PollTimeoutIdle ==
    /\ line = <<>>
    /\ state = "START1"
    /\ age > Timeout
    /\ Reset
    /\ age' = 0
    /\ UNCHANGED <<sender, line, history, quiet>>

\* No byte, for too long.
PollTimeout ==
    /\ line = <<>>
    /\ state # "START1"
    /\ age > Timeout
    /\ Reset
    /\ age' = 0
    /\ UNCHANGED <<sender, line, history, quiet>>

-----------------------------------------------------------------------------

Next ==
    \/ SendByte \/ Lose \/ (\E v \in Noise : Change(v) \/ Insert(v)) \/ Tick
    \/ PollByte \/ PollTimeout

Spec == Init /\ [][Next]_vars

\* The task polls every millisecond.
FairSpec == Spec /\ WF_vars(Tick) /\ WF_vars(PollByte) /\ WF_vars(PollTimeout)

-----------------------------------------------------------------------------
(* Properties                                                              *)

Sent(f) ==
    [id |-> Number(f.id), id_high |-> Number(f.id_high), seq |-> Number(f.seq),
     data |-> Numbers(f.data)]

Carries(a, f) == \A field \in DOMAIN Sent(f) : a[field] = Sent(f)[field]

Checked == {i \in DOMAIN accepted : accepted[i].checked /\ ~accepted[i].repaired}

\* Whatever happens to the line, a frame that is accepted without a repair, and
\* with CRC bytes that some sender computed, is one that was sent, in order and
\* once: no part of one frame is ever taken together with a part of another
\* (xtp.c:238-562).  A frame that data, noise or other check bytes make up, CRC
\* bytes included, passes by its values (xtp.c:443); nothing is claimed of it.
CheckedIsSent ==
    /\ \A i \in Checked :
          \E f \in DOMAIN Frames : f <= sending /\ Carries(accepted[i], Frames[f])
    /\ \A i, j \in Checked : \A f, g \in DOMAIN Frames :
          i < j /\ Carries(accepted[i], Frames[f]) /\ Carries(accepted[j], Frames[g]) => f < g

\* What becomes of a frame that begins when the decoder waits for one and has
\* no long pause in it, when its last byte has been polled, however late the
\* task polls: undamaged it is accepted; with one byte of its data changed it
\* is accepted as it was sent; with one byte of its ids, check bytes or stop
\* changed it is refused (xtp.c:238-562).  Changed starts, types and lengths
\* are left out: they shift what is read, to where the data may hold anything.
FrameOutcome ==
    LET last == accepted[Len(accepted)] IN
    byte_no = Len(Current) /\ line = <<>> /\ harm # "much" =>
        IF harm = "other" THEN Len(accepted) = before
        ELSE /\ Len(accepted) = before + 1
             /\ Carries(last, Frames[sending])
             /\ last.repaired = (harm = "data")

\* A frame is given up for a timeout only when no byte came for that long,
\* however irregularly the task polls.
SilentReset == PollTimeout => quiet > Timeout
TimeoutIsSilence == [][SilentReset]_vars

\* When the sender is done, the decoder ends up waiting for a new frame: no
\* rest of a frame blocks the next one for ever (xtp.c:875-886).
ReadyAgain == <>[](state = "START1")
=============================================================================
