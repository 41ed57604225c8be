------------------------------- MODULE XtpEcc -------------------------------
(***************************************************************************)
(* The error-correcting code of xTP (M1_SysApp/xtp/xtp_ecc.c), byte by     *)
(* byte: one block is encoded, some of its data and check bytes are        *)
(* changed, and it is decoded.  The loop of the decoder, which searches    *)
(* for the place of the wrong byte, is one action per turn.                *)
(***************************************************************************)
EXTENDS Integers, Sequences

CONSTANTS
    Lengths,    \* bound: the lengths of a block
    Blocks(_),  \* bound: the blocks of that length
    Errors,     \* bound: what changed bytes are XORed with
    Places(_)   \* bound: the places of a block of that length that may change

\* A byte is the set of its bits that are 1.
Bits == 0 .. 7
Byte == SUBSET Bits

ASSUME EccAssumption ==
    /\ Lengths \subseteq 1 .. 255
    /\ \A n \in Lengths : Blocks(n) \subseteq [1 .. n -> Byte]
    /\ Errors \subseteq Byte \ {{}}
    /\ \A n \in Lengths : Places(n) \subseteq 1 .. n

VARIABLES
    sent,        \* the data that were encoded
    data,        \* the data that are decoded, in place
    i, ecc,      \* the loop of xTP_ECC_Encode, and what it makes of `sent'
    scc,         \* the same of `data', then the syndromes
    idx, steps,
    result,      \* what xTP_ECC_Decode returns, "none" before it does
    wrong        \* history: the bytes that were changed

vars == <<sent, data, i, ecc, scc, idx, steps, result, wrong>>

-----------------------------------------------------------------------------

Xor(x, y) == (x \ y) \cup (y \ x)

\* Galois LFSR step: a shift to the right, and a 1 that falls out flips the
\* bits of the tap mask 0x8E.
lf_sr(x) == Xor({b \in Bits : b + 1 \in x}, IF 0 \in x THEN {1, 2, 3, 7} ELSE {})

\* The errors of a block of n bytes: what each changed place is XORed with.
\* Places 0 and -1 are those of the check bytes.
Patterns(n) ==
    LET P == Places(n) \cup {0, -1}
    IN UNION {[S -> Errors] : S \in {{}} \cup {{k, l} : k, l \in P}}

At(w, k) == IF k \in DOMAIN w THEN w[k] ELSE {}

Init ==
    /\ \E n \in Lengths : sent \in Blocks(n) /\ wrong \in Patterns(n)
    /\ data = [k \in DOMAIN sent |-> Xor(sent[k], At(wrong, k))]
    /\ i = 0 /\ ecc = <<{}, {}>> /\ scc = <<{}, {}>>
    /\ idx = Len(data) - 255 /\ steps = 0 /\ result = "none"

\* A turn of the loop of xTP_ECC_Encode, with the next byte.
Turn(check, byte) == <<Xor(check[1], byte), lf_sr(Xor(check[2], byte))>>

\* Both ends encode their block.
Encode ==
    /\ i < Len(data)
    /\ i' = i + 1
    /\ ecc' = Turn(ecc, sent[i'])
    /\ scc' = Turn(scc, data[i'])
    /\ UNCHANGED <<sent, data, idx, steps, result, wrong>>

\* The syndromes: what is computed against what is received.
Compare ==
    /\ i = Len(data)
    /\ i' = i + 1
    /\ scc' = [k \in 1 .. 2 |-> Xor(scc[k], Xor(ecc[k], At(wrong, 1 - k)))]
    /\ UNCHANGED <<sent, data, ecc, idx, steps, result, wrong>>

Compared == i > Len(data) /\ result = "none"

Return(r) ==
    /\ Compared
    /\ result' = r
    /\ UNCHANGED <<sent, i, ecc, scc, idx, steps, wrong>>

\* Cases 1 and 2: a syndrome is zero.
Zero ==
    /\ steps = 0 /\ {} \in {scc[1], scc[2]}
    /\ Return(IF scc[1] = scc[2] THEN "OK" ELSE "FAIL_PARITY")
    /\ UNCHANGED data

Searching == Compared /\ scc[1] # {} /\ scc[2] # {}

\* Case 3: a turn of the loop.
Rotate ==
    /\ Searching /\ scc[2] # scc[1] /\ steps < 255
    /\ scc' = [scc EXCEPT ![2] = lf_sr(@)]
    /\ idx' = idx + 1 /\ steps' = steps + 1
    /\ UNCHANGED <<sent, data, i, ecc, result, wrong>>

\* The LFSR has come round, or the place is not in the block.
GiveUp ==
    /\ Searching
    /\ steps >= 255 \/ (scc[1] = scc[2] /\ idx \notin 0 .. Len(data) - 1)
    /\ Return("FAIL_UNCORRECTED")
    /\ UNCHANGED data

\* Mutant: the places are counted from 1.
CorrectNext ==
    /\ Searching /\ scc[1] = scc[2] /\ steps < 255 /\ idx \in 1 .. Len(data)
    /\ data' = [data EXCEPT ![idx] = Xor(@, scc[1])]
    /\ Return("CORRECTED")

Correct ==
    /\ Searching /\ scc[1] = scc[2] /\ steps < 255 /\ idx \in 0 .. Len(data) - 1
    /\ data' = [data EXCEPT ![idx + 1] = Xor(@, scc[1])]
    /\ Return("CORRECTED")

Next == Encode \/ Compare \/ Zero \/ Rotate \/ GiveUp \/ Correct

Spec == Init /\ [][Next]_vars

-----------------------------------------------------------------------------

\* What xTP_ECC_Decode makes of a block (xtp_ecc.h:4): nothing changed is OK;
\* one data byte is found and put right, at every place of blocks of up to 255
\* bytes; one check byte leaves the data alone; two changed bytes are never
\* OK.  That they are detected is more than the code does: see below.
EccOutcome ==
    result # "none" =>
        /\ DOMAIN wrong = {} => result = "OK" /\ data = sent
        /\ (\E k \in DOMAIN sent : DOMAIN wrong = {k}) => result = "CORRECTED" /\ data = sent
        /\ DOMAIN wrong \in {{0}, {-1}} => result = "FAIL_PARITY" /\ data = sent
        /\ result = "OK" => DOMAIN wrong = {}

\* xtp_ecc.h:5 "Detects (but cannot correct) 2+ byte errors.": the decoder
\* does not report a correction of a block that has two wrong data bytes.
TwoErrorsDetected ==
    result # "none" /\ (\E k, l \in DOMAIN sent \cap DOMAIN wrong : k # l) =>
        result \in {"FAIL_PARITY", "FAIL_UNCORRECTED"}
=============================================================================
