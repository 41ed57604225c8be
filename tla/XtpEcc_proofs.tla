---------------------------- MODULE XtpEcc_proofs ----------------------------
(***************************************************************************)
(* Proofs about XtpEcc: the register of the check byte has the full period *)
(* that xtp_ecc.c:5 names, so the loop of the decoder ends at the one      *)
(* place whose byte is wrong.                                              *)
(*                                                                         *)
(*   1. The register bit by bit: what 1, 2, 4, ... 256 steps make of each  *)
(*      bit.  No byte but 0 is its own after 15, 51 or 85 steps, and every *)
(*      byte after 256 steps is what it is after one.                      *)
(*   2. Steps are counted (Pow).  A number of steps that brings a byte     *)
(*      back and is no multiple of 255 would, with an inverse modulo 3, 5  *)
(*      or 17, make 85, 51 or 15 steps bring it back too.                  *)
(*   3. The invariant: what the changed places have added to the check     *)
(*      bytes so far, and that the loop has not met the place it seeks.    *)
(***************************************************************************)
EXTENDS XtpEcc, WellFoundedInduction, TLAPS

-----------------------------------------------------------------------------
(* The register bit by bit.  Map<n>(x, y): y is x after n steps of lf_sr.  *)

Odd(p, q) == ~(p <=> q)

Map1(x, y) ==
    /\ 0 \in y <=> 1 \in x
    /\ 1 \in y <=> Odd(0 \in x, 2 \in x)
    /\ 2 \in y <=> Odd(0 \in x, 3 \in x)
    /\ 3 \in y <=> Odd(0 \in x, 4 \in x)
    /\ 4 \in y <=> 5 \in x
    /\ 5 \in y <=> 6 \in x
    /\ 6 \in y <=> 7 \in x
    /\ 7 \in y <=> 0 \in x

Map2(x, y) ==
    /\ 0 \in y <=> Odd(0 \in x, 2 \in x)
    /\ 1 \in y <=> Odd(Odd(0 \in x, 1 \in x), 3 \in x)
    /\ 2 \in y <=> Odd(Odd(0 \in x, 1 \in x), 4 \in x)
    /\ 3 \in y <=> Odd(1 \in x, 5 \in x)
    /\ 4 \in y <=> 6 \in x
    /\ 5 \in y <=> 7 \in x
    /\ 6 \in y <=> 0 \in x
    /\ 7 \in y <=> 1 \in x

Map4(x, y) ==
    /\ 0 \in y <=> Odd(Odd(1 \in x, 2 \in x), 4 \in x)
    /\ 1 \in y <=> Odd(Odd(2 \in x, 3 \in x), 5 \in x)
    /\ 2 \in y <=> Odd(Odd(Odd(1 \in x, 2 \in x), 3 \in x), 6 \in x)
    /\ 3 \in y <=> Odd(Odd(Odd(0 \in x, 1 \in x), 3 \in x), 7 \in x)
    /\ 4 \in y <=> 0 \in x
    /\ 5 \in y <=> 1 \in x
    /\ 6 \in y <=> Odd(0 \in x, 2 \in x)
    /\ 7 \in y <=> Odd(Odd(0 \in x, 1 \in x), 3 \in x)

Map8(x, y) ==
    /\ 0 \in y <=> Odd(Odd(Odd(0 \in x, 1 \in x), 5 \in x), 6 \in x)
    /\ 1 \in y <=> Odd(Odd(Odd(Odd(0 \in x, 1 \in x), 2 \in x), 6 \in x), 7 \in x)
    /\ 2 \in y <=> Odd(Odd(Odd(Odd(2 \in x, 3 \in x), 5 \in x), 6 \in x), 7 \in x)
    /\ 3 \in y <=> Odd(Odd(Odd(Odd(1 \in x, 3 \in x), 4 \in x), 5 \in x), 7 \in x)
    /\ 4 \in y <=> Odd(Odd(1 \in x, 2 \in x), 4 \in x)
    /\ 5 \in y <=> Odd(Odd(2 \in x, 3 \in x), 5 \in x)
    /\ 6 \in y <=> Odd(Odd(3 \in x, 4 \in x), 6 \in x)
    /\ 7 \in y <=> Odd(Odd(Odd(0 \in x, 4 \in x), 5 \in x), 7 \in x)

Map16(x, y) ==
    /\ 0 \in y <=> Odd(Odd(4 \in x, 6 \in x), 7 \in x)
    /\ 1 \in y <=> Odd(Odd(0 \in x, 5 \in x), 7 \in x)
    /\ 2 \in y <=> Odd(Odd(Odd(0 \in x, 1 \in x), 4 \in x), 7 \in x)
    /\ 3 \in y <=> Odd(Odd(Odd(Odd(Odd(1 \in x, 2 \in x), 4 \in x), 5 \in x), 6 \in x), 7 \in x)
    /\ 4 \in y <=> Odd(Odd(Odd(Odd(0 \in x, 2 \in x), 3 \in x), 4 \in x), 5 \in x)
    /\ 5 \in y <=> Odd(Odd(Odd(Odd(1 \in x, 3 \in x), 4 \in x), 5 \in x), 6 \in x)
    /\ 6 \in y <=> Odd(Odd(Odd(Odd(2 \in x, 4 \in x), 5 \in x), 6 \in x), 7 \in x)
    /\ 7 \in y <=> Odd(Odd(Odd(3 \in x, 5 \in x), 6 \in x), 7 \in x)

Map32(x, y) ==
    /\ 0 \in y <=> Odd(0 \in x, 5 \in x)
    /\ 1 \in y <=> Odd(1 \in x, 6 \in x)
    /\ 2 \in y <=> Odd(Odd(2 \in x, 5 \in x), 7 \in x)
    /\ 3 \in y <=> Odd(Odd(Odd(0 \in x, 3 \in x), 5 \in x), 6 \in x)
    /\ 4 \in y <=> Odd(Odd(Odd(Odd(1 \in x, 4 \in x), 5 \in x), 6 \in x), 7 \in x)
    /\ 5 \in y <=> Odd(Odd(Odd(2 \in x, 5 \in x), 6 \in x), 7 \in x)
    /\ 6 \in y <=> Odd(Odd(3 \in x, 6 \in x), 7 \in x)
    /\ 7 \in y <=> Odd(4 \in x, 7 \in x)

Map64(x, y) ==
    /\ 0 \in y <=> Odd(Odd(Odd(0 \in x, 2 \in x), 6 \in x), 7 \in x)
    /\ 1 \in y <=> Odd(Odd(1 \in x, 3 \in x), 7 \in x)
    /\ 2 \in y <=> Odd(Odd(4 \in x, 6 \in x), 7 \in x)
    /\ 3 \in y <=> Odd(Odd(2 \in x, 5 \in x), 6 \in x)
    /\ 4 \in y <=> Odd(2 \in x, 3 \in x)
    /\ 5 \in y <=> Odd(3 \in x, 4 \in x)
    /\ 6 \in y <=> Odd(Odd(0 \in x, 4 \in x), 5 \in x)
    /\ 7 \in y <=> Odd(Odd(1 \in x, 5 \in x), 6 \in x)

Map128(x, y) ==
    /\ 0 \in y <=> Odd(Odd(1 \in x, 2 \in x), 6 \in x)
    /\ 1 \in y <=> Odd(Odd(2 \in x, 3 \in x), 7 \in x)
    /\ 2 \in y <=> Odd(Odd(Odd(Odd(Odd(0 \in x, 1 \in x), 2 \in x), 3 \in x), 4 \in x), 6 \in x)
    /\ 3 \in y <=> Odd(Odd(Odd(Odd(Odd(0 \in x, 3 \in x), 4 \in x), 5 \in x), 6 \in x), 7 \in x)
    /\ 4 \in y <=> Odd(Odd(Odd(2 \in x, 4 \in x), 5 \in x), 7 \in x)
    /\ 5 \in y <=> Odd(Odd(3 \in x, 5 \in x), 6 \in x)
    /\ 6 \in y <=> Odd(Odd(Odd(0 \in x, 4 \in x), 6 \in x), 7 \in x)
    /\ 7 \in y <=> Odd(Odd(Odd(0 \in x, 1 \in x), 5 \in x), 7 \in x)

LEMMA LfsrMap ==
    ASSUME NEW x \in Byte
    PROVE  lf_sr(x) \in Byte /\ Map1(x, lf_sr(x))
BY DEF lf_sr, Xor, Byte, Bits, Map1, Odd

LEMMA Map2Is ==
    ASSUME NEW x, NEW y, NEW z, Map1(x, y), Map1(y, z)
    PROVE  Map2(x, z)
BY DEF Map1, Map2, Odd

LEMMA Map4Is ==
    ASSUME NEW x, NEW y, NEW z, Map2(x, y), Map2(y, z)
    PROVE  Map4(x, z)
BY DEF Map2, Map4, Odd

LEMMA Map8Is ==
    ASSUME NEW x, NEW y, NEW z, Map4(x, y), Map4(y, z)
    PROVE  Map8(x, z)
BY DEF Map4, Map8, Odd

LEMMA Map16Is ==
    ASSUME NEW x, NEW y, NEW z, Map8(x, y), Map8(y, z)
    PROVE  Map16(x, z)
BY DEF Map8, Map16, Odd

LEMMA Map32Is ==
    ASSUME NEW x, NEW y, NEW z, Map16(x, y), Map16(y, z)
    PROVE  Map32(x, z)
BY DEF Map16, Map32, Odd

LEMMA Map64Is ==
    ASSUME NEW x, NEW y, NEW z, Map32(x, y), Map32(y, z)
    PROVE  Map64(x, z)
BY DEF Map32, Map64, Odd

LEMMA Map128Is ==
    ASSUME NEW x, NEW y, NEW z, Map64(x, y), Map64(y, z)
    PROVE  Map128(x, z)
BY DEF Map64, Map128, Odd

LEMMA Map256Is ==
    ASSUME NEW x, NEW y, NEW z, Map128(x, y), Map128(y, z)
    PROVE  Map1(x, z)
BY DEF Map128, Map1, Odd

\* The register after 15, 51 and 85 steps is what it was only if it is 0.
LEMMA NoFix15 ==
    ASSUME NEW x \in Byte, NEW y, Map16(x, y), Map1(x, y)
    PROVE  x = {}
<1>1. \A b \in Bits : b \notin x BY DEF Map16, Map1, Odd, Bits
<1> QED BY <1>1 DEF Byte

LEMMA NoFix51 ==
    ASSUME NEW x \in Byte, NEW y, NEW z, NEW t, Map1(x, y), Map4(y, z), Map8(z, t), Map64(x, t)
    PROVE  x = {}
<1>1. \A b \in Bits : b \notin x BY DEF Map1, Map4, Map8, Map64, Odd, Bits
<1> QED BY <1>1 DEF Byte

LEMMA NoFix85 ==
    ASSUME NEW x \in Byte, NEW y, NEW z, NEW t, Map1(x, y), Map4(y, z), Map16(z, t), Map64(t, x)
    PROVE  x = {}
<1>1. \A b \in Bits : b \notin x BY DEF Map1, Map4, Map16, Map64, Odd, Bits
<1> QED BY <1>1 DEF Byte

LEMMA LfsrInjective ==
    ASSUME NEW x \in Byte, NEW y \in Byte, lf_sr(x) = lf_sr(y)
    PROVE  x = y
<1>1. Map1(x, lf_sr(x)) /\ Map1(y, lf_sr(x)) BY LfsrMap
<1>2. \A b \in Bits : b \in x <=> b \in y BY <1>1 DEF Map1, Odd, Bits
<1> QED BY <1>2 DEF Byte

-----------------------------------------------------------------------------
(* Bytes under XOR, and the register that adds.                            *)

LEMMA XorFacts ==
    ASSUME NEW x \in Byte, NEW y \in Byte
    PROVE  /\ Xor(x, y) \in Byte /\ Xor(x, y) = Xor(y, x)
           /\ Xor(x, {}) = x /\ Xor({}, x) = x /\ Xor(x, x) = {} /\ {} \in Byte
           /\ Xor(Xor(x, y), y) = x
           /\ Xor(x, y) = {} => x = y
BY DEF Xor, Byte

\* Two sums differ by what their parts differ by.
LEMMA XorOfXors ==
    ASSUME NEW x, NEW y, NEW u, NEW v
    PROVE  Xor(Xor(x, u), Xor(y, v)) = Xor(Xor(x, y), Xor(u, v))
BY DEF Xor

LEMMA XorAssoc ==
    ASSUME NEW x, NEW y, NEW z
    PROVE  Xor(x, Xor(y, z)) = Xor(Xor(x, y), z)
BY DEF Xor

LEMMA LfsrAdds ==
    ASSUME NEW x \in Byte, NEW y \in Byte
    PROVE  lf_sr(Xor(x, y)) = Xor(lf_sr(x), lf_sr(y))
<1> DEFINE z == Xor(x, y)
           a == lf_sr(x)
           c == lf_sr(y)
           d == lf_sr(z)
<1>1. z \in Byte BY XorFacts
<1>2. a \in Byte /\ c \in Byte /\ d \in Byte BY <1>1, LfsrMap
<1>3. Map1(x, a) /\ Map1(y, c) /\ Map1(z, d) BY <1>1, LfsrMap
<1>4. \A b : b \in z <=> Odd(b \in x, b \in y) BY DEF Xor, Odd
<1>5. \A b : b \in Xor(a, c) <=> Odd(b \in a, b \in c) BY DEF Xor, Odd
<1> HIDE DEF z, a, c, d
<1>6. \A b \in Bits : b \in d <=> Odd(b \in a, b \in c) BY <1>3, <1>4 DEF Map1, Odd, Bits
<1>7. Xor(a, c) \in Byte BY <1>2, XorFacts
<1>8. d = Xor(a, c) BY <1>2, <1>5, <1>6, <1>7 DEF Byte
<1> QED BY <1>8 DEF z, a, c, d

LEMMA LfsrZero == lf_sr({}) = {} /\ \A x \in Byte : lf_sr(x) = {} => x = {}
<1>1. lf_sr({}) = {} BY DEF lf_sr, Xor, Bits
<1>2. {} \in Byte BY DEF Byte
<1> QED BY <1>1, <1>2, LfsrInjective

-----------------------------------------------------------------------------
(* The register after n steps.  A run is the register over those steps.    *)

Runs(n, x) ==
    {s \in [0 .. n -> Byte] : s[0] = x /\ \A k \in 0 .. n - 1 : s[k + 1] = lf_sr(s[k])}

Pow(n, x) == (CHOOSE s \in Runs(n, x) : TRUE)[n]

\* A set of numbers has a least element, from which inductions below start.
LEMMA Least ==
    ASSUME NEW S, S \subseteq Nat, S # {}
    PROVE  \E m \in S : \A n \in S : m <= n
<1> DEFINE R == OpToRel(<, Nat)
<1>1. IsWellFoundedOn(R, Nat) BY NatLessThanWellFounded
<1>2. R = {p \in Nat \X Nat : p[1] < p[2]} BY DEF OpToRel
<1> HIDE DEF R
<1>3. \A x, y \in Nat : <<x, y>> \in R <=> x < y BY <1>2
<1>4. \E x \in S : \A y \in S : ~(<<y, x>> \in R) BY <1>1, WFMin
<1>5. PICK m \in S : \A n \in S : ~(<<n, m>> \in R) BY <1>4
<1>6. \A n \in S : m <= n
  <2> TAKE n \in S
  <2>1. n \in Nat /\ m \in Nat OBVIOUS
  <2>2. ~(n < m) BY <1>3, <1>5, <2>1
  <2> QED BY <2>1, <2>2
<1> QED BY <1>6

\* A set that holds 0 and the successor of each of its numbers holds them all.
LEMMA Induct ==
    ASSUME NEW S, 0 \in S, \A n \in Nat : n \in S => n + 1 \in S
    PROVE  Nat \subseteq S
<1> SUFFICES ASSUME Nat \ S # {} PROVE FALSE
  OBVIOUS
<1>1. PICK m \in Nat \ S : \A n \in Nat \ S : m <= n BY Least
<1>2. m - 1 \in Nat BY <1>1
<1>3. m - 1 \in S BY <1>1, <1>2
<1> QED BY <1>1, <1>2, <1>3

LEMMA RunAgrees ==
    ASSUME NEW x, NEW m \in Nat, NEW n \in Nat, NEW s \in Runs(m, x), NEW t \in Runs(n, x), m <= n
    PROVE  \A k \in 0 .. m : s[k] = t[k]
<1> DEFINE S == {k \in Nat : k <= m => s[k] = t[k]}
<1>1. 0 \in S BY DEF Runs
<1>2. ASSUME NEW k \in Nat, k \in S PROVE k + 1 \in S
  <2> SUFFICES ASSUME k + 1 <= m PROVE s[k + 1] = t[k + 1]
    OBVIOUS
  <2>1. k \in 0 .. m - 1 /\ k \in 0 .. n - 1 /\ s[k] = t[k] BY <1>2
  <2> QED BY <2>1 DEF Runs
<1> HIDE DEF S
<1>3. Nat \subseteq S BY <1>1, <1>2, Induct
<1> QED BY <1>3 DEF S

LEMMA RunExists ==
    ASSUME NEW x \in Byte
    PROVE  \A n \in Nat : Runs(n, x) # {}
<1> DEFINE S == {n \in Nat : Runs(n, x) # {}}
<1>1. 0 \in S
  <2> DEFINE s == [k \in 0 .. 0 |-> x]
  <2>1. s \in Runs(0, x) BY DEF Runs
  <2> QED BY <2>1
<1>2. ASSUME NEW n \in Nat, n \in S PROVE n + 1 \in S
  <2>1. PICK s : s \in Runs(n, x) BY <1>2
  <2> DEFINE t == [k \in 0 .. n + 1 |-> IF k = n + 1 THEN lf_sr(s[n]) ELSE s[k]]
  <2>2. s \in [0 .. n -> Byte] /\ s[0] = x /\ \A k \in 0 .. n - 1 : s[k + 1] = lf_sr(s[k])
    BY <2>1 DEF Runs
  <2>3. t \in [0 .. n + 1 -> Byte]
    <3>1. s[n] \in Byte BY <2>2
    <3>2. lf_sr(s[n]) \in Byte BY <3>1, LfsrMap
    <3>3. \A k \in 0 .. n + 1 : k # n + 1 => s[k] \in Byte BY <2>2
    <3> QED BY <3>2, <3>3
  <2>4. t[0] = x BY <2>2
  <2>5. ASSUME NEW k \in 0 .. n PROVE t[k + 1] = lf_sr(t[k])
    <3>1. t[k] = s[k] /\ k + 1 \in 0 .. n + 1 OBVIOUS
    <3>2. CASE k = n BY <3>1, <3>2
    <3>3. CASE k # n
      <4>1. k \in 0 .. n - 1 /\ k + 1 # n + 1 BY <3>3
      <4>2. t[k + 1] = s[k + 1] BY <3>1, <4>1
      <4> QED BY <2>2, <3>1, <4>1, <4>2
    <3> QED BY <3>2, <3>3
  <2>6. n + 1 - 1 = n OBVIOUS
  <2> HIDE DEF t
  <2>7. t \in Runs(n + 1, x) BY <2>3, <2>4, <2>5, <2>6 DEF Runs
  <2> QED BY <2>7
<1> HIDE DEF S
<1>3. Nat \subseteq S BY <1>1, <1>2, Induct
<1> QED BY <1>3 DEF S

LEMMA PowStep ==
    ASSUME NEW x \in Byte, NEW n \in Nat
    PROVE  Pow(n, x) \in Byte /\ Pow(0, x) = x /\ Pow(n + 1, x) = lf_sr(Pow(n, x))
<1>0. \A m \in Nat : \E s : s \in Runs(m, x) /\ s[m] = Pow(m, x)
  <2> TAKE m \in Nat
  <2>1. \E s : s \in Runs(m, x) BY RunExists
  <2>2. (CHOOSE s \in Runs(m, x) : TRUE) \in Runs(m, x) BY <2>1
  <2> QED BY <2>2 DEF Pow
<1>1. PICK s : s \in Runs(n + 1, x) /\ s[n + 1] = Pow(n + 1, x) BY <1>0
<1>2. PICK t : t \in Runs(n, x) /\ t[n] = Pow(n, x) BY <1>0
<1>3. PICK u : u \in Runs(0, x) /\ u[0] = Pow(0, x) BY <1>0
<1>4. t[n] = s[n]
  <2>1. \A k \in 0 .. n : t[k] = s[k] BY <1>1, <1>2, RunAgrees
  <2> QED BY <2>1
<1>5. t[n] \in Byte BY <1>2 DEF Runs
<1>6. u[0] = x BY <1>3 DEF Runs
<1>7. s[n + 1] = lf_sr(s[n]) BY <1>1 DEF Runs
<1> QED BY <1>1, <1>2, <1>3, <1>4, <1>5, <1>6, <1>7

LEMMA PowAdd ==
    ASSUME NEW x \in Byte, NEW n \in Nat
    PROVE  \A m \in Nat : Pow(m + n, x) = Pow(m, Pow(n, x))
<1> DEFINE y == Pow(n, x)
           S == {m \in Nat : Pow(m + n, x) = Pow(m, y)}
<1>1. y \in Byte BY PowStep
<1>2. 0 \in S
  <2>1. Pow(0, y) = y BY <1>1, PowStep
  <2>2. 0 + n = n OBVIOUS
  <2> QED BY <2>1, <2>2
<1>3. ASSUME NEW m \in Nat, m \in S PROVE m + 1 \in S
  <2>1. Pow(m + 1, y) = lf_sr(Pow(m, y)) BY <1>1, PowStep
  <2>2. m + n \in Nat /\ (m + n) + 1 = (m + 1) + n OBVIOUS
  <2>3. Pow((m + n) + 1, x) = lf_sr(Pow(m + n, x)) BY <2>2, PowStep
  <2> QED BY <1>3, <2>1, <2>2, <2>3
<1> HIDE DEF S
<1>4. Nat \subseteq S BY <1>2, <1>3, Induct
<1> QED BY <1>4 DEF S

LEMMA PowZero == \A n \in Nat : Pow(n, {}) = {}
<1> DEFINE S == {n \in Nat : Pow(n, {}) = {}}
<1>1. {} \in Byte BY DEF Byte
<1>2. 0 \in S BY <1>1, PowStep
<1>3. ASSUME NEW n \in Nat, n \in S PROVE n + 1 \in S
  <2>1. Pow(n + 1, {}) = lf_sr(Pow(n, {})) BY <1>1, PowStep
  <2> QED BY <1>3, <2>1, LfsrZero
<1> HIDE DEF S
<1>4. Nat \subseteq S BY <1>2, <1>3, Induct
<1> QED BY <1>4 DEF S

-----------------------------------------------------------------------------
(* The period of the register is 255 from every byte but 0.                *)

LEMMA PowMaps ==
    ASSUME NEW x \in Byte
    PROVE  /\ Map1(x, Pow(1, x)) /\ Map2(x, Pow(2, x)) /\ Map4(x, Pow(4, x))
           /\ Map8(x, Pow(8, x)) /\ Map16(x, Pow(16, x)) /\ Map32(x, Pow(32, x))
           /\ Map64(x, Pow(64, x)) /\ Map128(x, Pow(128, x)) /\ Map1(x, Pow(256, x))
<1>1. \A y \in Byte : Map1(y, Pow(1, y))
  <2> TAKE y \in Byte
  <2>1. Pow(0 + 1, y) = lf_sr(y) BY PowStep
  <2> QED BY <2>1, LfsrMap
<1>2. \A n \in Nat : \A y \in Byte : Pow(n, y) \in Byte /\ Pow(n + n, y) = Pow(n, Pow(n, y))
  BY PowStep, PowAdd
<1>3. \A y \in Byte : Map2(y, Pow(2, y))
  <2> TAKE y \in Byte
  <2>1. Pow(1, y) \in Byte /\ Pow(2, y) = Pow(1, Pow(1, y))
    <3>1. 1 \in Nat /\ 1 + 1 = 2 OBVIOUS
    <3> QED BY <1>2, <3>1
  <2>2. Map1(y, Pow(1, y)) /\ Map1(Pow(1, y), Pow(2, y)) BY <2>1, <1>1
  <2> QED BY <2>2, Map2Is
<1>4. \A y \in Byte : Map4(y, Pow(4, y))
  <2> TAKE y \in Byte
  <2>1. Pow(2, y) \in Byte /\ Pow(4, y) = Pow(2, Pow(2, y))
    <3>1. 2 \in Nat /\ 2 + 2 = 4 OBVIOUS
    <3> QED BY <1>2, <3>1
  <2>2. Map2(y, Pow(2, y)) /\ Map2(Pow(2, y), Pow(4, y)) BY <2>1, <1>3
  <2> QED BY <2>2, Map4Is
<1>5. \A y \in Byte : Map8(y, Pow(8, y))
  <2> TAKE y \in Byte
  <2>1. Pow(4, y) \in Byte /\ Pow(8, y) = Pow(4, Pow(4, y))
    <3>1. 4 \in Nat /\ 4 + 4 = 8 OBVIOUS
    <3> QED BY <1>2, <3>1
  <2>2. Map4(y, Pow(4, y)) /\ Map4(Pow(4, y), Pow(8, y)) BY <2>1, <1>4
  <2> QED BY <2>2, Map8Is
<1>6. \A y \in Byte : Map16(y, Pow(16, y))
  <2> TAKE y \in Byte
  <2>1. Pow(8, y) \in Byte /\ Pow(16, y) = Pow(8, Pow(8, y))
    <3>1. 8 \in Nat /\ 8 + 8 = 16 OBVIOUS
    <3> QED BY <1>2, <3>1
  <2>2. Map8(y, Pow(8, y)) /\ Map8(Pow(8, y), Pow(16, y)) BY <2>1, <1>5
  <2> QED BY <2>2, Map16Is
<1>7. \A y \in Byte : Map32(y, Pow(32, y))
  <2> TAKE y \in Byte
  <2>1. Pow(16, y) \in Byte /\ Pow(32, y) = Pow(16, Pow(16, y))
    <3>1. 16 \in Nat /\ 16 + 16 = 32 OBVIOUS
    <3> QED BY <1>2, <3>1
  <2>2. Map16(y, Pow(16, y)) /\ Map16(Pow(16, y), Pow(32, y)) BY <2>1, <1>6
  <2> QED BY <2>2, Map32Is
<1>8. \A y \in Byte : Map64(y, Pow(64, y))
  <2> TAKE y \in Byte
  <2>1. Pow(32, y) \in Byte /\ Pow(64, y) = Pow(32, Pow(32, y))
    <3>1. 32 \in Nat /\ 32 + 32 = 64 OBVIOUS
    <3> QED BY <1>2, <3>1
  <2>2. Map32(y, Pow(32, y)) /\ Map32(Pow(32, y), Pow(64, y)) BY <2>1, <1>7
  <2> QED BY <2>2, Map64Is
<1>9. \A y \in Byte : Map128(y, Pow(128, y))
  <2> TAKE y \in Byte
  <2>1. Pow(64, y) \in Byte /\ Pow(128, y) = Pow(64, Pow(64, y))
    <3>1. 64 \in Nat /\ 64 + 64 = 128 OBVIOUS
    <3> QED BY <1>2, <3>1
  <2>2. Map64(y, Pow(64, y)) /\ Map64(Pow(64, y), Pow(128, y)) BY <2>1, <1>8
  <2> QED BY <2>2, Map128Is
<1>10. Map1(x, Pow(256, x))
  <2>1. Pow(128, x) \in Byte /\ Pow(256, x) = Pow(128, Pow(128, x))
    <3>1. 128 \in Nat /\ 128 + 128 = 256 OBVIOUS
    <3> QED BY <1>2, <3>1
  <2>2. Map128(x, Pow(128, x)) /\ Map128(Pow(128, x), Pow(256, x)) BY <2>1, <1>9
  <2> QED BY <2>2, Map256Is
<1> QED BY <1>1, <1>3, <1>4, <1>5, <1>6, <1>7, <1>8, <1>9, <1>10

LEMMA Period ==
    ASSUME NEW x \in Byte
    PROVE  Pow(255, x) = x
<1>1. 255 \in Nat /\ 255 + 1 = 256 OBVIOUS
<1>2. Pow(255, x) \in Byte /\ Pow(256, x) = lf_sr(Pow(255, x)) BY <1>1, PowStep
<1>3. Map1(x, Pow(256, x)) /\ Map1(x, lf_sr(x)) BY PowMaps, LfsrMap
<1>4. Pow(256, x) \in Byte /\ lf_sr(x) \in Byte BY <1>2, LfsrMap
<1>5. \A b \in Bits : b \in Pow(256, x) <=> b \in lf_sr(x) BY <1>3 DEF Map1, Bits
<1>6. Pow(256, x) = lf_sr(x) BY <1>4, <1>5 DEF Byte
<1> QED BY <1>2, <1>6, LfsrInjective

\* The register comes back to x after n steps.
Returns(n, x) == Pow(n, x) = x

LEMMA ReturnsAdd ==
    ASSUME NEW x \in Byte, NEW m \in Nat, NEW n \in Nat, Returns(n, x)
    PROVE  Returns(m + n, x) <=> Returns(m, x)
BY PowAdd DEF Returns

LEMMA ReturnsTimes ==
    ASSUME NEW x \in Byte, NEW n \in Nat, Returns(n, x)
    PROVE  \A m \in Nat : Returns(m * n, x)
<1> DEFINE S == {m \in Nat : Returns(m * n, x)}
<1>1. 0 \in S BY PowStep DEF Returns
<1>2. ASSUME NEW m \in Nat, m \in S PROVE m + 1 \in S
  <2>1. (m + 1) * n = n + m * n /\ m * n \in Nat OBVIOUS
  <2>2. Returns(n + m * n, x) BY <1>2, <2>1, ReturnsAdd
  <2> QED BY <2>1, <2>2
<1> HIDE DEF S
<1>3. Nat \subseteq S BY <1>1, <1>2, Induct
<1> QED BY <1>3 DEF S

\* If the register comes back after n steps, and n has an inverse modulo p, it
\* comes back after 255 / p steps already.
Cofactors(p, c) == p * c = 255
HasInverse(n, p) == \E j, t \in Nat : n * j = p * t + 1

LEMMA Reduce ==
    ASSUME NEW x \in Byte, NEW n \in Nat, Returns(n, x), NEW p \in Nat, NEW c \in Nat,
           Cofactors(p, c), HasInverse(n, p)
    PROVE  Returns(c, x)
<1>1. PICK j \in Nat, t \in Nat : n * j = p * t + 1 BY DEF HasInverse
<1>2. (j * c) * n = c + t * 255
  <2>1. (j * c) * n = c * (n * j) OBVIOUS
  <2>2. c * (p * t + 1) = t * (p * c) + c OBVIOUS
  <2> QED BY <1>1, <2>1, <2>2 DEF Cofactors
<1>3. j * c \in Nat /\ t * 255 \in Nat /\ 255 \in Nat OBVIOUS
<1>4. Returns((j * c) * n, x) BY <1>3, ReturnsTimes
<1>5. Returns(t * 255, x) BY <1>3, Period, ReturnsTimes DEF Returns
<1> QED BY <1>2, <1>3, <1>4, <1>5, ReturnsAdd

LEMMA NoReturn ==
    ASSUME NEW x \in Byte, Returns(15, x) \/ Returns(51, x) \/ Returns(85, x)
    PROVE  x = {}
<1>1. \A n \in Nat : \A y \in Byte : Pow(n, y) \in Byte BY PowStep
<1>2. CASE Returns(15, x)
  <2>1. 1 + 15 = 16 /\ 1 \in Nat /\ 15 \in Nat OBVIOUS
  <2>2. Pow(16, x) = Pow(1, x) BY <1>2, <2>1, PowAdd DEF Returns
  <2> QED BY <2>2, PowMaps, NoFix15
<1>3. CASE Returns(51, x)
  <2> DEFINE y == Pow(1, x)
             z == Pow(4, y)
  <2>1. y \in Byte /\ z \in Byte BY <1>1
  <2>2. Pow(64, x) = Pow(13, x)
    <3>1. 13 + 51 = 64 /\ 13 \in Nat /\ 51 \in Nat OBVIOUS
    <3> QED BY <1>3, <3>1, PowAdd DEF Returns
  <2>3. Pow(5, x) = z
    <3>1. 4 + 1 = 5 /\ 4 \in Nat /\ 1 \in Nat OBVIOUS
    <3> QED BY <3>1, PowAdd
  <2>4. Pow(13, x) = Pow(8, z)
    <3>1. 8 + 5 = 13 /\ 8 \in Nat /\ 5 \in Nat OBVIOUS
    <3> QED BY <2>3, <3>1, PowAdd
  <2>5. Map1(x, y) /\ Map4(y, z) /\ Map8(z, Pow(64, x)) /\ Map64(x, Pow(64, x))
    BY <2>1, <2>2, <2>4, PowMaps
  <2> QED BY <2>5, NoFix51
<1>4. CASE Returns(85, x)
  <2> DEFINE y == Pow(1, x)
             z == Pow(4, y)
             t == Pow(16, z)
  <2>1. y \in Byte /\ z \in Byte /\ t \in Byte BY <1>1
  <2>2. Pow(5, x) = z
    <3>1. 4 + 1 = 5 /\ 4 \in Nat /\ 1 \in Nat OBVIOUS
    <3> QED BY <3>1, PowAdd
  <2>3. Pow(21, x) = t
    <3>1. 16 + 5 = 21 /\ 16 \in Nat /\ 5 \in Nat OBVIOUS
    <3> QED BY <2>2, <3>1, PowAdd
  <2>4. Pow(64, t) = x
    <3>1. 64 + 21 = 85 /\ 64 \in Nat /\ 21 \in Nat OBVIOUS
    <3> QED BY <1>4, <2>3, <3>1, PowAdd DEF Returns
  <2>5. Map1(x, y) /\ Map4(y, z) /\ Map16(z, t) /\ Map64(t, x) BY <2>1, <2>4, PowMaps
  <2> QED BY <2>5, NoFix85
<1> QED BY <1>2, <1>3, <1>4

LEMMA DivideBy ==
    ASSUME NEW n \in Nat, NEW p \in Nat \ {0}
    PROVE  \E q \in Nat, r \in 0 .. p - 1 : n = p * q + r
<1>1. n = p * (n \div p) + (n % p) /\ n % p \in 0 .. p - 1 /\ n \div p \in Nat OBVIOUS
<1> QED BY <1>1

\* What has an inverse is the remainder.
LEMMA InverseOfRest ==
    ASSUME NEW p \in Nat, NEW q \in Nat, NEW r \in Nat, HasInverse(r, p)
    PROVE  HasInverse(p * q + r, p)
<1>1. PICK j \in Nat, t \in Nat : r * j = p * t + 1 BY DEF HasInverse
<1>2. (p * q + r) * j = p * (q * j) + r * j /\ p * (q * j) + p * t = p * (q * j + t)
      /\ p * (q * j) \in Nat /\ p * t \in Nat /\ q * j + t \in Nat
  OBVIOUS
<1>3. (p * q + r) * j = p * (q * j + t) + 1 BY <1>1, <1>2
<1> QED BY <1>2, <1>3 DEF HasInverse

LEMMA Inverse3 ==
    ASSUME NEW n \in Nat, \A q \in Nat : n # 3 * q
    PROVE  HasInverse(n, 3)
<1>1. PICK q \in Nat, r \in 0 .. 2 : n = 3 * q + r
  <2>1. 3 \in Nat \ {0} /\ 3 - 1 = 2 OBVIOUS
  <2> QED BY <2>1, DivideBy
<1>2. r \in 1 .. 2
  <2>1. r # 0 BY <1>1
  <2> QED BY <2>1
<1>3. HasInverse(r, 3)
  <2> SUFFICES \E j, t \in Nat : r * j = 3 * t + 1
    BY DEF HasInverse
  <2>1. CASE r = 1
    <3> WITNESS 1 \in Nat, 0 \in Nat
    <3> QED BY <2>1
  <2>2. CASE r = 2
    <3> WITNESS 2 \in Nat, 1 \in Nat
    <3> QED BY <2>2
  <2> QED BY <1>2, <2>1, <2>2
<1>4. 3 \in Nat /\ r \in Nat OBVIOUS
<1> QED BY <1>1, <1>3, <1>4, InverseOfRest

LEMMA Inverse5 ==
    ASSUME NEW n \in Nat, \A q \in Nat : n # 5 * q
    PROVE  HasInverse(n, 5)
<1>1. PICK q \in Nat, r \in 0 .. 4 : n = 5 * q + r
  <2>1. 5 \in Nat \ {0} /\ 5 - 1 = 4 OBVIOUS
  <2> QED BY <2>1, DivideBy
<1>2. r \in 1 .. 4
  <2>1. r # 0 BY <1>1
  <2> QED BY <2>1
<1>3. HasInverse(r, 5)
  <2> SUFFICES \E j, t \in Nat : r * j = 5 * t + 1
    BY DEF HasInverse
  <2>1. CASE r = 1
    <3> WITNESS 1 \in Nat, 0 \in Nat
    <3> QED BY <2>1
  <2>2. CASE r = 2
    <3> WITNESS 3 \in Nat, 1 \in Nat
    <3> QED BY <2>2
  <2>3. CASE r = 3
    <3> WITNESS 2 \in Nat, 1 \in Nat
    <3> QED BY <2>3
  <2>4. CASE r = 4
    <3> WITNESS 4 \in Nat, 3 \in Nat
    <3> QED BY <2>4
  <2> QED BY <1>2, <2>1, <2>2, <2>3, <2>4
<1>4. 5 \in Nat /\ r \in Nat OBVIOUS
<1> QED BY <1>1, <1>3, <1>4, InverseOfRest

LEMMA Inverse17 ==
    ASSUME NEW n \in Nat, \A q \in Nat : n # 17 * q
    PROVE  HasInverse(n, 17)
<1>1. PICK q \in Nat, r \in 0 .. 16 : n = 17 * q + r
  <2>1. 17 \in Nat \ {0} /\ 17 - 1 = 16 OBVIOUS
  <2> QED BY <2>1, DivideBy
<1>2. r \in 1 .. 16
  <2>1. r # 0 BY <1>1
  <2> QED BY <2>1
<1>3. HasInverse(r, 17)
  <2> SUFFICES \E j, t \in Nat : r * j = 17 * t + 1
    BY DEF HasInverse
  <2>1. CASE r = 1
    <3> WITNESS 1 \in Nat, 0 \in Nat
    <3> QED BY <2>1
  <2>2. CASE r = 2
    <3> WITNESS 9 \in Nat, 1 \in Nat
    <3> QED BY <2>2
  <2>3. CASE r = 3
    <3> WITNESS 6 \in Nat, 1 \in Nat
    <3> QED BY <2>3
  <2>4. CASE r = 4
    <3> WITNESS 13 \in Nat, 3 \in Nat
    <3> QED BY <2>4
  <2>5. CASE r = 5
    <3> WITNESS 7 \in Nat, 2 \in Nat
    <3> QED BY <2>5
  <2>6. CASE r = 6
    <3> WITNESS 3 \in Nat, 1 \in Nat
    <3> QED BY <2>6
  <2>7. CASE r = 7
    <3> WITNESS 5 \in Nat, 2 \in Nat
    <3> QED BY <2>7
  <2>8. CASE r = 8
    <3> WITNESS 15 \in Nat, 7 \in Nat
    <3> QED BY <2>8
  <2>9. CASE r = 9
    <3> WITNESS 2 \in Nat, 1 \in Nat
    <3> QED BY <2>9
  <2>10. CASE r = 10
    <3> WITNESS 12 \in Nat, 7 \in Nat
    <3> QED BY <2>10
  <2>11. CASE r = 11
    <3> WITNESS 14 \in Nat, 9 \in Nat
    <3> QED BY <2>11
  <2>12. CASE r = 12
    <3> WITNESS 10 \in Nat, 7 \in Nat
    <3> QED BY <2>12
  <2>13. CASE r = 13
    <3> WITNESS 4 \in Nat, 3 \in Nat
    <3> QED BY <2>13
  <2>14. CASE r = 14
    <3> WITNESS 11 \in Nat, 9 \in Nat
    <3> QED BY <2>14
  <2>15. CASE r = 15
    <3> WITNESS 8 \in Nat, 7 \in Nat
    <3> QED BY <2>15
  <2>16. CASE r = 16
    <3> WITNESS 16 \in Nat, 15 \in Nat
    <3> QED BY <2>16
  <2> QED BY <1>2, <2>1, <2>2, <2>3, <2>4, <2>5, <2>6, <2>7, <2>8, <2>9, <2>10, <2>11, <2>12, <2>13, <2>14, <2>15, <2>16
<1>4. 17 \in Nat /\ r \in Nat OBVIOUS
<1> QED BY <1>1, <1>3, <1>4, InverseOfRest

\* From a byte other than 0 the register does not come back before 255 steps:
\* n would be a multiple of 3, of 5 and of 17.
LEMMA FullPeriod ==
    ASSUME NEW x \in Byte, x # {}, NEW n \in 1 .. 254
    PROVE  Pow(n, x) # x
<1> SUFFICES ASSUME Returns(n, x) PROVE FALSE
  BY DEF Returns
<1>1. n \in Nat OBVIOUS
<1>2. Cofactors(3, 85) /\ Cofactors(5, 51) /\ Cofactors(17, 15) BY DEF Cofactors
<1>3. {3, 5, 17, 15, 51, 85} \subseteq Nat OBVIOUS
<1>4. ASSUME HasInverse(n, 3) \/ HasInverse(n, 5) \/ HasInverse(n, 17) PROVE FALSE
  <2>1. Returns(85, x) \/ Returns(51, x) \/ Returns(15, x) BY <1>1, <1>2, <1>3, <1>4, Reduce
  <2> QED BY <2>1, NoReturn
<1>5. \E a, b, c \in Nat : n = 3 * a /\ n = 5 * b /\ n = 17 * c
  BY <1>1, <1>4, Inverse3, Inverse5, Inverse17
<1> QED BY <1>5

-----------------------------------------------------------------------------
(* The invariant.  At most the places k and l are changed.  What they add  *)
(* to the check bytes of m bytes of data: their error to the first, and to *)
(* the second their error after as many steps as bytes follow, and one.    *)

Parity(k, m) == IF k \in 1 .. m THEN At(wrong, k) ELSE {}
Folded(k, m) == IF k \in 1 .. m THEN Pow(m - k + 1, At(wrong, k)) ELSE {}

Total == Len(sent)
Changed == [k \in DOMAIN sent |-> Xor(sent[k], At(wrong, k))]

\* The two syndromes.
Syndrome0(k, l) == Xor(Xor(Parity(k, Total), Parity(l, Total)), At(wrong, 0))
Syndrome1(k, l) == Xor(Xor(Folded(k, Total), Folded(l, Total)), At(wrong, -1))

TypeInv ==
    /\ Total \in 1 .. 255 /\ sent \in [1 .. Total -> Byte]
    /\ data \in [1 .. Total -> Byte]
    /\ i \in 0 .. Total + 1 /\ steps \in 0 .. 255
    /\ ecc \in [1 .. 2 -> Byte] /\ scc \in [1 .. 2 -> Byte]
    /\ \A k \in Int : At(wrong, k) \in Byte /\ (k \in DOMAIN wrong <=> At(wrong, k) # {})

Pair(k, l) ==
    /\ k \in Int /\ l \in Int /\ k # l
    /\ DOMAIN wrong \in {{}, {k}, {k, l}} /\ DOMAIN wrong \subseteq {-1, 0} \cup 1 .. Total

Encoding(k, l) ==
    /\ Xor(scc[1], ecc[1]) = Xor(Parity(k, i), Parity(l, i))
    /\ Xor(scc[2], ecc[2]) = Xor(Folded(k, i), Folded(l, i))
    /\ steps = 0

\* The loop turns the second syndrome and has not met the first one.
Decoding(k, l) ==
    /\ i = Total + 1
    /\ scc[1] = Syndrome0(k, l) /\ scc[2] = Pow(steps, Syndrome1(k, l))
    /\ \A s \in 0 .. steps - 1 : Pow(s, Syndrome1(k, l)) # Syndrome0(k, l)

Coding(k, l) ==
    result = "none" =>
        /\ data = Changed /\ idx = Total - 255 + steps
        /\ i <= Total => Encoding(k, l)
        /\ i > Total => Decoding(k, l)

IInv ==
    /\ TypeInv /\ \E k, l : Pair(k, l) /\ Coding(k, l)
    /\ result # "none" => i = Total + 1
    /\ EccOutcome

-----------------------------------------------------------------------------
(* What the changed places add                                             *)

LEMMA TermTypes ==
    ASSUME TypeInv
    PROVE  /\ \A k \in Int, m \in Nat : Parity(k, m) \in Byte /\ Folded(k, m) \in Byte
           /\ \A k, l \in Int : Syndrome0(k, l) \in Byte /\ Syndrome1(k, l) \in Byte
<1>1. {} \in Byte BY DEF Byte
<1>2. ASSUME NEW k \in Int, NEW m \in Nat PROVE Parity(k, m) \in Byte /\ Folded(k, m) \in Byte
  <2>1. At(wrong, k) \in Byte BY DEF TypeInv
  <2>2. k \in 1 .. m => m - k + 1 \in Nat OBVIOUS
  <2>3. k \in 1 .. m => Pow(m - k + 1, At(wrong, k)) \in Byte BY <2>1, <2>2, PowStep
  <2> QED BY <1>1, <2>1, <2>3 DEF Parity, Folded
<1>3. ASSUME NEW k \in Int, NEW l \in Int
      PROVE  Syndrome0(k, l) \in Byte /\ Syndrome1(k, l) \in Byte
  <2>1. Total \in Nat /\ At(wrong, 0) \in Byte /\ At(wrong, -1) \in Byte BY DEF TypeInv
  <2>2. /\ Xor(Parity(k, Total), Parity(l, Total)) \in Byte
        /\ Xor(Folded(k, Total), Folded(l, Total)) \in Byte
    BY <1>2, <2>1, XorFacts
  <2> QED BY <2>1, <2>2, XorFacts DEF Syndrome0, Syndrome1
<1> QED BY <1>2, <1>3

\* What the byte m + 1 adds if it is at place k.
Bump(k, m) == IF k = m + 1 THEN At(wrong, k) ELSE {}

LEMMA TermGrows ==
    ASSUME TypeInv, NEW k \in Int, NEW m \in Nat
    PROVE  /\ Bump(k, m) \in Byte
           /\ Parity(k, m + 1) = Xor(Parity(k, m), Bump(k, m))
           /\ Folded(k, m + 1) = lf_sr(Xor(Folded(k, m), Bump(k, m)))
<1> DEFINE w == At(wrong, k)
<1>1. w \in Byte /\ {} \in Byte BY DEF TypeInv, Byte
<1>2. CASE k \in 1 .. m
  <2>1. k \in 1 .. m + 1 /\ k # m + 1 /\ m - k + 1 \in Nat /\ (m + 1) - k + 1 = (m - k + 1) + 1
    BY <1>2
  <2>2. Parity(k, m + 1) = w /\ Parity(k, m) = w /\ Bump(k, m) = {} BY <1>2, <2>1 DEF Parity, Bump
  <2>3. Folded(k, m) = Pow(m - k + 1, w) /\ Folded(k, m + 1) = Pow((m - k + 1) + 1, w)
    BY <1>2, <2>1 DEF Folded
  <2>4. Folded(k, m + 1) = lf_sr(Folded(k, m)) /\ Folded(k, m) \in Byte
    BY <1>1, <2>1, <2>3, PowStep
  <2> QED BY <1>1, <2>2, <2>4, XorFacts
<1>3. CASE k = m + 1
  <2>1. k \in 1 .. m + 1 /\ k \notin 1 .. m /\ (m + 1) - k + 1 = 0 + 1 BY <1>3
  <2>2. Parity(k, m + 1) = w /\ Parity(k, m) = {} /\ Bump(k, m) = w BY <1>3, <2>1 DEF Parity, Bump
  <2>3. Folded(k, m) = {} /\ Folded(k, m + 1) = Pow(0 + 1, w) BY <2>1 DEF Folded
  <2>4. Folded(k, m + 1) = lf_sr(w) BY <1>1, <2>3, PowStep
  <2> QED BY <1>1, <2>2, <2>3, <2>4, XorFacts
<1>4. CASE k \notin 1 .. m + 1
  <2>1. k \notin 1 .. m /\ k # m + 1 BY <1>4
  <2>2. Parity(k, m + 1) = {} /\ Parity(k, m) = {} /\ Bump(k, m) = {}
        /\ Folded(k, m) = {} /\ Folded(k, m + 1) = {}
    BY <1>4, <2>1 DEF Parity, Bump, Folded
  <2> QED BY <1>1, <2>2, XorFacts, LfsrZero
<1> QED BY <1>2, <1>3, <1>4

\* Of two different places the byte m + 1 is at most one.
LEMMA BumpIsError ==
    ASSUME TypeInv, NEW k, NEW l, Pair(k, l), NEW m \in Nat
    PROVE  Xor(Bump(k, m), Bump(l, m)) = At(wrong, m + 1)
<1>1. m + 1 \in Int /\ k \in Int /\ l \in Int /\ k # l /\ {} \in Byte BY DEF Pair, Byte
<1>2. At(wrong, m + 1) \in Byte BY <1>1 DEF TypeInv
<1>3. CASE k = m + 1 BY <1>1, <1>2, <1>3, XorFacts DEF Bump
<1>4. CASE l = m + 1 BY <1>1, <1>2, <1>4, XorFacts DEF Bump
<1>5. CASE k # m + 1 /\ l # m + 1
  <2>1. m + 1 \notin DOMAIN wrong BY <1>5 DEF Pair
  <2>2. At(wrong, m + 1) = {} BY <1>1, <2>1 DEF TypeInv
  <2> QED BY <1>1, <1>5, <2>2, XorFacts DEF Bump
<1> QED BY <1>3, <1>4, <1>5

-----------------------------------------------------------------------------
(* Encoding                                                                *)

\* The operators that an action leaves as they are.
LEMMA TermsStay ==
    ASSUME UNCHANGED <<sent, wrong>>
    PROVE  /\ Total' = Total /\ Changed' = Changed
           /\ \A k, m : Parity(k, m)' = Parity(k, m) /\ Folded(k, m)' = Folded(k, m)
           /\ \A k, l : /\ Syndrome0(k, l)' = Syndrome0(k, l) /\ Syndrome1(k, l)' = Syndrome1(k, l)
                        /\ Pair(k, l)' = Pair(k, l)
           /\ \A k : At(wrong, k)' = At(wrong, k)
BY DEF Total, Changed, Parity, Folded, Syndrome0, Syndrome1, Pair, At

LEMMA PairIs ==
    ASSUME NEW S, NEW a \in S, NEW b \in S
    PROVE  <<a, b>> \in [1 .. 2 -> S] /\ <<a, b>>[1] = a /\ <<a, b>>[2] = b
OBVIOUS

LEMMA EncodeStep ==
    ASSUME IInv, Encode
    PROVE  IInv'
<1> DEFINE d == data[i + 1]
           c == sent[i + 1]
           w == At(wrong, i + 1)
<1>a. TypeInv BY DEF IInv
<1>b. i \in 0 .. Total - 1 /\ i \in Nat /\ i + 1 \in 1 .. Total /\ Len(data) = Total
  <2>1. Len(data) = Total BY <1>a DEF TypeInv
  <2>2. i < Total BY <2>1 DEF Encode
  <2> QED BY <1>a, <2>1, <2>2 DEF TypeInv
<1>c. /\ i' = i + 1 /\ ecc' = Turn(ecc, c) /\ scc' = Turn(scc, d)
      /\ UNCHANGED <<sent, data, idx, steps, result, wrong>>
  BY DEF Encode
<1>d. d \in Byte /\ c \in Byte /\ w \in Byte /\ ecc[1] \in Byte /\ ecc[2] \in Byte
      /\ scc[1] \in Byte /\ scc[2] \in Byte
  BY <1>a, <1>b DEF TypeInv
<1>e. result = "none"
  <2>1. i # Total + 1 BY <1>b
  <2> QED BY <2>1 DEF IInv
<1>1. /\ Xor(ecc[1], c) \in Byte /\ lf_sr(Xor(ecc[2], c)) \in Byte
      /\ Xor(scc[1], d) \in Byte /\ lf_sr(Xor(scc[2], d)) \in Byte
      /\ Xor(ecc[2], c) \in Byte /\ Xor(scc[2], d) \in Byte
  BY <1>d, XorFacts, LfsrMap
<1>2. /\ ecc' \in [1 .. 2 -> Byte] /\ ecc'[1] = Xor(ecc[1], c) /\ ecc'[2] = lf_sr(Xor(ecc[2], c))
      /\ scc' \in [1 .. 2 -> Byte] /\ scc'[1] = Xor(scc[1], d) /\ scc'[2] = lf_sr(Xor(scc[2], d))
  BY <1>c, <1>1, PairIs DEF Turn
<1>3. TypeInv'
  <2>1. i' \in 0 .. Total + 1 BY <1>b, <1>c
  <2>2. DOMAIN wrong' = DOMAIN wrong BY <1>c
  <2> QED BY <1>a, <1>c, <1>2, <2>1, <2>2, TermsStay DEF TypeInv
<1>4. PICK k, l : Pair(k, l) /\ Coding(k, l) BY DEF IInv
<1>5. k \in Int /\ l \in Int BY <1>4 DEF Pair
<1>6. data = Changed /\ idx = Total - 255 + steps /\ Encoding(k, l)
  <2>1. i <= Total BY <1>b
  <2> QED BY <1>4, <1>e, <2>1 DEF Coding
<1>7. Xor(d, c) = w
  <2>1. i + 1 \in DOMAIN sent BY <1>a, <1>b DEF TypeInv
  <2>2. d = Xor(c, w) BY <1>6, <2>1 DEF Changed
  <2>3. Xor(Xor(w, c), c) = w /\ Xor(c, w) = Xor(w, c) BY <1>d, XorFacts
  <2> QED BY <2>2, <2>3
<1> DEFINE pk == Parity(k, i)
           pl == Parity(l, i)
           fk == Folded(k, i)
           fl == Folded(l, i)
           bk == Bump(k, i)
           bl == Bump(l, i)
<1>8. /\ pk \in Byte /\ pl \in Byte /\ fk \in Byte /\ fl \in Byte /\ bk \in Byte /\ bl \in Byte
      /\ Xor(bk, bl) = w /\ Parity(k, i + 1) = Xor(pk, bk) /\ Parity(l, i + 1) = Xor(pl, bl)
      /\ Folded(k, i + 1) = lf_sr(Xor(fk, bk)) /\ Folded(l, i + 1) = lf_sr(Xor(fl, bl))
  BY <1>a, <1>b, <1>4, <1>5, TermTypes, TermGrows, BumpIsError
<1>9. Xor(scc[1], ecc[1]) = Xor(pk, pl) /\ Xor(scc[2], ecc[2]) = Xor(fk, fl) /\ steps = 0
  BY <1>6 DEF Encoding
<1> HIDE DEF d, c, w, pk, pl, fk, fl, bk, bl
<1>10. Xor(scc'[1], ecc'[1]) = Xor(Parity(k, i + 1), Parity(l, i + 1))
  <2>1. Xor(Xor(scc[1], d), Xor(ecc[1], c)) = Xor(Xor(scc[1], ecc[1]), Xor(d, c)) BY XorOfXors
  <2>2. Xor(Xor(pk, bk), Xor(pl, bl)) = Xor(Xor(pk, pl), Xor(bk, bl)) BY XorOfXors
  <2> QED BY <1>2, <1>7, <1>8, <1>9, <2>1, <2>2
<1>11. Xor(scc'[2], ecc'[2]) = Xor(Folded(k, i + 1), Folded(l, i + 1))
  <2>1. Xor(Xor(scc[2], d), Xor(ecc[2], c)) = Xor(Xor(scc[2], ecc[2]), Xor(d, c)) BY XorOfXors
  <2>2. Xor(Xor(fk, bk), Xor(fl, bl)) = Xor(Xor(fk, fl), Xor(bk, bl)) BY XorOfXors
  <2>3. Xor(fk, bk) \in Byte /\ Xor(fl, bl) \in Byte BY <1>8, XorFacts
  <2>4. Xor(scc'[2], ecc'[2]) = lf_sr(Xor(Xor(scc[2], d), Xor(ecc[2], c)))
    BY <1>1, <1>2, LfsrAdds
  <2>5. Xor(Folded(k, i + 1), Folded(l, i + 1)) = lf_sr(Xor(Xor(fk, bk), Xor(fl, bl)))
    BY <1>8, <2>3, LfsrAdds
  <2> QED BY <1>7, <1>8, <1>9, <2>1, <2>2, <2>4, <2>5
<1>12. Encoding(k, l)'
  <2>1. i' = i + 1 /\ steps' = 0 BY <1>c, <1>9
  <2>2. Parity(k, i)' = Parity(k, i + 1) /\ Parity(l, i)' = Parity(l, i + 1)
        /\ Folded(k, i)' = Folded(k, i + 1) /\ Folded(l, i)' = Folded(l, i + 1)
    BY <1>c DEF Parity, Folded, At
  <2> QED BY <1>10, <1>11, <2>1, <2>2 DEF Encoding
<1>13. Coding(k, l)'
  <2>1. Total' = Total /\ Changed' = Changed BY <1>c, TermsStay
  <2>2. ~(i' > Total) BY <1>b, <1>c
  <2> QED BY <1>c, <1>6, <1>12, <2>1, <2>2 DEF Coding
<1>14. Pair(k, l)' BY <1>c, <1>4, TermsStay
<1>15. result' = "none" BY <1>c, <1>e
<1> QED BY <1>3, <1>13, <1>14, <1>15 DEF IInv, EccOutcome

-----------------------------------------------------------------------------
(* Decoding                                                                *)

LEMMA CompareStep ==
    ASSUME IInv, Compare
    PROVE  IInv'
<1>a. TypeInv /\ Len(data) = Total
  <2>1. TypeInv BY DEF IInv
  <2> QED BY <2>1 DEF TypeInv
<1>b. i = Total /\ Total \in Nat /\ i' = Total + 1 /\ UNCHANGED <<sent, data, ecc, idx, steps, result, wrong>>
  BY <1>a DEF Compare, TypeInv
<1>c. result = "none"
  <2>1. i # Total + 1 BY <1>b
  <2> QED BY <2>1 DEF IInv
<1>d. /\ ecc[1] \in Byte /\ ecc[2] \in Byte /\ scc[1] \in Byte /\ scc[2] \in Byte
      /\ At(wrong, 0) \in Byte /\ At(wrong, -1) \in Byte
  BY <1>a DEF TypeInv
<1>1. /\ scc' \in [1 .. 2 -> Byte]
      /\ scc'[1] = Xor(scc[1], Xor(ecc[1], At(wrong, 0)))
      /\ scc'[2] = Xor(scc[2], Xor(ecc[2], At(wrong, -1)))
  <2>1. scc' = [k \in 1 .. 2 |-> Xor(scc[k], Xor(ecc[k], At(wrong, 1 - k)))] BY DEF Compare
  <2>2. ASSUME NEW k \in 1 .. 2 PROVE Xor(scc[k], Xor(ecc[k], At(wrong, 1 - k))) \in Byte
    <3>1. scc[k] \in Byte /\ ecc[k] \in Byte /\ At(wrong, 1 - k) \in Byte BY <1>a DEF TypeInv
    <3>2. Xor(ecc[k], At(wrong, 1 - k)) \in Byte BY <3>1, XorFacts
    <3> QED BY <3>1, <3>2, XorFacts
  <2>3. 1 - 1 = 0 /\ 1 - 2 = -1 OBVIOUS
  <2> QED BY <2>1, <2>2, <2>3
<1>2. TypeInv'
  <2>1. i' \in 0 .. Total + 1 BY <1>b
  <2>2. DOMAIN wrong' = DOMAIN wrong BY <1>b
  <2> QED BY <1>a, <1>b, <1>1, <2>1, <2>2, TermsStay DEF TypeInv
<1>3. PICK k, l : Pair(k, l) /\ Coding(k, l) BY DEF IInv
<1>4. data = Changed /\ idx = Total - 255 + steps /\ Encoding(k, l)
  <2>1. i <= Total BY <1>b
  <2> QED BY <1>3, <1>c, <2>1 DEF Coding
<1>5. scc'[1] = Syndrome0(k, l)
  <2>1. Xor(scc[1], Xor(ecc[1], At(wrong, 0))) = Xor(Xor(scc[1], ecc[1]), At(wrong, 0))
    BY XorAssoc
  <2> QED BY <1>b, <1>1, <1>4, <2>1 DEF Encoding, Syndrome0
<1>6. scc'[2] = Syndrome1(k, l)
  <2>1. Xor(scc[2], Xor(ecc[2], At(wrong, -1))) = Xor(Xor(scc[2], ecc[2]), At(wrong, -1))
    BY XorAssoc
  <2> QED BY <1>b, <1>1, <1>4, <2>1 DEF Encoding, Syndrome1
<1>7. Decoding(k, l)'
  <2>1. k \in Int /\ l \in Int /\ steps = 0 BY <1>3, <1>4 DEF Pair, Encoding
  <2>2. Pow(0, Syndrome1(k, l)) = Syndrome1(k, l) BY <1>a, <2>1, TermTypes, PowStep
  <2>3. Syndrome0(k, l)' = Syndrome0(k, l) /\ Syndrome1(k, l)' = Syndrome1(k, l) /\ Total' = Total
    BY <1>b, TermsStay
  <2>4. \A s \in 0 .. 0 - 1 : FALSE OBVIOUS
  <2> QED BY <1>b, <1>5, <1>6, <2>1, <2>2, <2>3, <2>4 DEF Decoding
<1>8. Coding(k, l)'
  <2>1. Total' = Total /\ Changed' = Changed BY <1>b, TermsStay
  <2>2. ~(i' <= Total) BY <1>b
  <2> QED BY <1>b, <1>4, <1>7, <2>1, <2>2 DEF Coding
<1>9. Pair(k, l)' /\ result' = "none" BY <1>b, <1>c, <1>3, TermsStay
<1> QED BY <1>2, <1>8, <1>9 DEF IInv, EccOutcome

\* What holds when the decoder looks at the syndromes.
LEMMA Deciding ==
    ASSUME IInv, Compared
    PROVE  /\ TypeInv /\ Len(data) = Total /\ i = Total + 1 /\ result = "none" /\ data = Changed
           /\ idx = Total - 255 + steps /\ \E k, l : Pair(k, l) /\ Decoding(k, l)
<1>1. TypeInv BY DEF IInv
<1>2. Len(data) = Total /\ Total \in Nat /\ i \in 0 .. Total + 1 BY <1>1 DEF TypeInv
<1>3. i > Total /\ result = "none" BY <1>2 DEF Compared
<1>4. PICK k, l : Pair(k, l) /\ Coding(k, l) BY DEF IInv
<1>5. data = Changed /\ idx = Total - 255 + steps /\ Decoding(k, l) BY <1>3, <1>4 DEF Coding
<1>6. i = Total + 1 BY <1>2, <1>3
<1> QED BY <1>1, <1>2, <1>3, <1>4, <1>5, <1>6

LEMMA RotateStep ==
    ASSUME IInv, Rotate
    PROVE  IInv'
<1>a. Compared /\ UNCHANGED <<sent, data, i, ecc, result, wrong>>
      /\ scc' = [scc EXCEPT ![2] = lf_sr(@)] /\ idx' = idx + 1 /\ steps' = steps + 1
      /\ scc[2] # scc[1] /\ steps < 255
  BY DEF Rotate, Searching
<1>1. TypeInv /\ i = Total + 1 /\ result = "none" /\ data = Changed
      /\ idx = Total - 255 + steps
  BY <1>a, Deciding
<1>2. PICK k, l : Pair(k, l) /\ Decoding(k, l) BY <1>a, Deciding
<1>3. steps \in Nat /\ steps + 1 \in 0 .. 255 /\ Total \in Nat BY <1>a, <1>1 DEF TypeInv
<1>4. scc' \in [1 .. 2 -> Byte] /\ scc'[1] = scc[1] /\ scc'[2] = lf_sr(scc[2])
  <2>1. scc \in [1 .. 2 -> Byte] /\ scc[2] \in Byte BY <1>1 DEF TypeInv
  <2>2. lf_sr(scc[2]) \in Byte BY <2>1, LfsrMap
  <2> QED BY <1>a, <2>1, <2>2
<1>5. TypeInv'
  <2>1. DOMAIN wrong' = DOMAIN wrong BY <1>a
  <2> QED BY <1>a, <1>1, <1>3, <1>4, <2>1, TermsStay DEF TypeInv
<1> DEFINE a == Syndrome0(k, l)
           b == Syndrome1(k, l)
<1>6. a' = a /\ b' = b /\ Total' = Total /\ Changed' = Changed /\ Pair(k, l)' BY <1>a, <1>2, TermsStay
<1>7. b \in Byte BY <1>1, <1>2, TermTypes DEF Pair
<1>8. scc[1] = a /\ scc[2] = Pow(steps, b) /\ \A s \in 0 .. steps - 1 : Pow(s, b) # a
  BY <1>2 DEF Decoding
<1>9. Decoding(k, l)'
  <2> HIDE DEF a, b
  <2>1. scc'[2] = Pow(steps', b) BY <1>a, <1>3, <1>4, <1>7, <1>8, PowStep
  <2>2. ASSUME NEW s \in 0 .. steps' - 1 PROVE Pow(s, b) # a
    <3>1. s \in 0 .. steps - 1 \/ s = steps BY <1>a, <1>3, <2>2
    <3> QED BY <1>a, <1>8, <3>1
  <2>3. scc'[1] = a BY <1>4, <1>8
  <2> USE DEF a, b
  <2> QED BY <1>a, <1>1, <1>6, <2>1, <2>2, <2>3 DEF Decoding
<1>10. Coding(k, l)'
  <2>1. ~(i' <= Total) /\ idx' = Total - 255 + steps' BY <1>a, <1>1, <1>3
  <2> QED BY <1>a, <1>1, <1>6, <1>9, <2>1 DEF Coding
<1> QED BY <1>a, <1>1, <1>5, <1>6, <1>10 DEF IInv, EccOutcome

-----------------------------------------------------------------------------
(* The syndromes of the errors there can be                                *)

LEMMA Unchanged ==
    ASSUME TypeInv, NEW k, NEW l, Pair(k, l), DOMAIN wrong = {}
    PROVE  Syndrome0(k, l) = {} /\ Syndrome1(k, l) = {} /\ Changed = sent
<1>1. \A j \in Int : At(wrong, j) = {} BY DEF TypeInv
<1>2. k \in Int /\ l \in Int /\ Total \in Nat /\ {} \in Byte BY DEF Pair, TypeInv, Byte
<1>3. At(wrong, k) = {} /\ At(wrong, l) = {} /\ At(wrong, 0) = {} /\ At(wrong, -1) = {} BY <1>1, <1>2
<1>4. Parity(k, Total) = {} /\ Parity(l, Total) = {} BY <1>3 DEF Parity
<1>5. \A j \in 1 .. Total : Total - j + 1 \in Nat BY <1>2
<1>6. Folded(k, Total) = {} /\ Folded(l, Total) = {} BY <1>3, <1>5, PowZero DEF Folded
<1>7. Xor({}, {}) = {} BY <1>2, XorFacts
<1>8. Changed = sent
  <2>1. \A j \in 1 .. Total : Xor(sent[j], At(wrong, j)) = sent[j]
    <3> TAKE j \in 1 .. Total
    <3>1. j \in Int /\ sent[j] \in Byte BY <1>2 DEF TypeInv
    <3> QED BY <1>1, <1>2, <3>1, XorFacts
  <2>2. Changed = [j \in 1 .. Total |-> Xor(sent[j], At(wrong, j))] BY DEF Changed, TypeInv
  <2> QED BY <2>1, <2>2 DEF TypeInv
<1> QED BY <1>3, <1>4, <1>6, <1>7, <1>8 DEF Syndrome0, Syndrome1

\* One place, whichever of the two it is.
LEMMA OnePlace ==
    ASSUME TypeInv, NEW k, NEW l, Pair(k, l), NEW j, DOMAIN wrong = {j}
    PROVE  /\ j \in Int /\ At(wrong, j) \in Byte /\ At(wrong, j) # {}
           /\ \A h \in Int \ {j} : At(wrong, h) = {}
           /\ Xor(Parity(k, Total), Parity(l, Total)) = Parity(j, Total)
           /\ Xor(Folded(k, Total), Folded(l, Total)) = Folded(j, Total)
<1>1. k \in Int /\ l \in Int /\ k # l /\ Total \in Nat /\ {} \in Byte BY DEF Pair, TypeInv, Byte
<1>2. j = k
  <2>1. {j} = {k} \/ {j} = {k, l} BY DEF Pair
  <2> QED BY <1>1, <2>1
<1>3. \A h \in Int : h # k => At(wrong, h) = {} BY <1>2 DEF TypeInv
<1>4. At(wrong, k) \in Byte /\ At(wrong, k) # {} BY <1>1, <1>2 DEF TypeInv
<1>5. At(wrong, l) = {} BY <1>1, <1>3
<1>6. Parity(l, Total) = {} BY <1>5 DEF Parity
<1>7. Folded(l, Total) = {}
  <2>1. l \in 1 .. Total => Total - l + 1 \in Nat BY <1>1
  <2> QED BY <1>5, <2>1, PowZero DEF Folded
<1>8. Parity(k, Total) \in Byte /\ Folded(k, Total) \in Byte BY <1>1, TermTypes
<1> QED BY <1>1, <1>2, <1>3, <1>4, <1>6, <1>7, <1>8, XorFacts

LEMMA DataChanged ==
    ASSUME TypeInv, NEW k, NEW l, Pair(k, l), NEW j \in 1 .. Total, DOMAIN wrong = {j}
    PROVE  /\ Syndrome0(k, l) = At(wrong, j) /\ Syndrome1(k, l) = Pow(Total - j + 1, At(wrong, j))
           /\ At(wrong, j) \in Byte /\ At(wrong, j) # {}
           /\ [Changed EXCEPT ![j] = Xor(@, At(wrong, j))] = sent
<1> DEFINE w == At(wrong, j)
<1>1. w \in Byte /\ w # {} /\ \A h \in Int \ {j} : At(wrong, h) = {} BY OnePlace
<1>2. Total \in Nat /\ 0 \in Int \ {j} /\ -1 \in Int \ {j} /\ {} \in Byte BY DEF TypeInv, Byte
<1>3. At(wrong, 0) = {} /\ At(wrong, -1) = {} BY <1>1, <1>2
<1>4. Parity(j, Total) = w /\ Folded(j, Total) = Pow(Total - j + 1, w) BY DEF Parity, Folded
<1>5. Pow(Total - j + 1, w) \in Byte
  <2>1. Total - j + 1 \in Nat BY <1>2
  <2> QED BY <1>1, <2>1, PowStep
<1>6. Syndrome0(k, l) = w
  <2>1. Xor(Parity(k, Total), Parity(l, Total)) = w BY <1>4, OnePlace
  <2>2. Xor(w, {}) = w BY <1>1, <1>2, XorFacts
  <2> QED BY <1>3, <2>1, <2>2 DEF Syndrome0
<1>7. Syndrome1(k, l) = Pow(Total - j + 1, w)
  <2>1. Xor(Folded(k, Total), Folded(l, Total)) = Pow(Total - j + 1, w) BY <1>4, OnePlace
  <2>2. Xor(Pow(Total - j + 1, w), {}) = Pow(Total - j + 1, w) BY <1>2, <1>5, XorFacts
  <2> QED BY <1>3, <2>1, <2>2 DEF Syndrome1
<1>8. [Changed EXCEPT ![j] = Xor(@, w)] = sent
  <2>1. Changed = [h \in 1 .. Total |-> Xor(sent[h], At(wrong, h))] BY DEF Changed, TypeInv
  <2>2. Changed[j] = Xor(sent[j], w) /\ sent[j] \in Byte BY <2>1 DEF TypeInv
  <2>3. Xor(Changed[j], w) = sent[j] BY <1>1, <2>2, XorFacts
  <2>4. ASSUME NEW h \in 1 .. Total, h # j PROVE Changed[h] = sent[h]
    <3>1. h \in Int \ {j} /\ sent[h] \in Byte BY <1>2, <2>4 DEF TypeInv
    <3>2. Xor(sent[h], {}) = sent[h] BY <1>2, <3>1, XorFacts
    <3> QED BY <1>1, <2>1, <3>1, <3>2
  <2> QED BY <2>1, <2>3, <2>4 DEF TypeInv
<1> QED BY <1>1, <1>6, <1>7, <1>8

LEMMA CheckChanged ==
    ASSUME TypeInv, NEW k, NEW l, Pair(k, l), NEW j \in {0, -1}, DOMAIN wrong = {j}
    PROVE  /\ Syndrome0(k, l) = {} <=> j = -1
           /\ Syndrome1(k, l) = {} <=> j = 0
           /\ Changed = sent
<1> DEFINE w == At(wrong, j)
<1>1. w \in Byte /\ w # {} /\ \A h \in Int \ {j} : At(wrong, h) = {} BY OnePlace
<1>2. Total \in Nat /\ {} \in Byte /\ j \notin 1 .. Total BY DEF TypeInv, Byte
<1>3. Parity(j, Total) = {} /\ Folded(j, Total) = {} BY <1>2 DEF Parity, Folded
<1>4. Syndrome0(k, l) = Xor({}, At(wrong, 0)) /\ Syndrome1(k, l) = Xor({}, At(wrong, -1))
  BY <1>3, OnePlace DEF Syndrome0, Syndrome1
<1>5. Xor({}, w) = w /\ Xor({}, {}) = {} BY <1>1, <1>2, XorFacts
<1>6. 0 \in Int /\ -1 \in Int /\ 0 # -1 OBVIOUS
<1>7. Changed = sent
  <2>1. Changed = [h \in 1 .. Total |-> Xor(sent[h], At(wrong, h))] BY DEF Changed, TypeInv
  <2>2. ASSUME NEW h \in 1 .. Total PROVE Xor(sent[h], At(wrong, h)) = sent[h]
    <3>1. h \in Int \ {j} /\ sent[h] \in Byte BY <1>2, <2>2 DEF TypeInv
    <3> QED BY <1>1, <1>2, <3>1, XorFacts
  <2> QED BY <2>1, <2>2 DEF TypeInv
<1>8. CASE j = 0
  <2>1. At(wrong, -1) = {} BY <1>1, <1>6, <1>8
  <2> QED BY <1>1, <1>4, <1>5, <1>6, <1>7, <1>8, <2>1
<1>9. CASE j = -1
  <2>1. At(wrong, 0) = {} BY <1>1, <1>6, <1>9
  <2> QED BY <1>1, <1>4, <1>5, <1>6, <1>7, <1>9, <2>1
<1> QED BY <1>8, <1>9

\* Fewer than 255 steps can be undone by the others.
LEMMA PowBack ==
    ASSUME NEW x \in Byte, NEW m \in 0 .. 255
    PROVE  Pow(255 - m, Pow(m, x)) = x
<1>1. 255 - m \in Nat /\ m \in Nat /\ (255 - m) + m = 255 OBVIOUS
<1> QED BY <1>1, PowAdd, Period

LEMMA PowNotZero ==
    ASSUME NEW x \in Byte, x # {}, NEW m \in 0 .. 255
    PROVE  Pow(m, x) # {}
<1>1. 255 - m \in Nat OBVIOUS
<1>2. Pow(255 - m, {}) = {} BY <1>1, PowZero
<1>3. Pow(255 - m, Pow(m, x)) = x BY PowBack
<1> QED BY <1>2, <1>3

LEMMA PowDiffers ==
    ASSUME NEW x \in Byte, x # {}, NEW m \in 1 .. 255, NEW n \in 1 .. 255, m < n
    PROVE  Pow(m, x) # Pow(n, x)
<1> DEFINE d == 255 - n
<1>1. d \in Nat /\ m \in Nat /\ n \in 0 .. 255 /\ d + m \in 1 .. 254 OBVIOUS
<1>2. Pow(d, Pow(n, x)) = x BY <1>1, PowBack
<1>3. Pow(d, Pow(m, x)) = Pow(d + m, x)
  <2> HIDE DEF d
  <2> QED BY <1>1, PowAdd
<1>4. Pow(d + m, x) # x
  <2> HIDE DEF d
  <2> QED BY <1>1, FullPeriod
<1> QED BY <1>2, <1>3, <1>4

LEMMA OrderedPlaces ==
    ASSUME TypeInv, NEW k, NEW l, Pair(k, l), DOMAIN wrong = {k, l}, k < l
    PROVE  ~(Syndrome0(k, l) = {} /\ Syndrome1(k, l) = {})
<1> DEFINE e == At(wrong, k)
           f == At(wrong, l)
<1>1. k \in {-1, 0} \cup 1 .. Total /\ l \in {-1, 0} \cup 1 .. Total /\ Total \in 1 .. 255
  BY DEF Pair, TypeInv
<1>2. e \in Byte /\ f \in Byte /\ e # {} /\ f # {} BY <1>1 DEF TypeInv
<1>3. \A h \in Int \ {k, l} : At(wrong, h) = {} BY DEF TypeInv
<1>4. {} \in Byte /\ Xor({}, {}) = {} BY XorFacts DEF Byte
<1>5. /\ \A x \in Byte : Xor(x, {}) = x /\ Xor({}, x) = x
      /\ \A x, y \in Byte : Xor(x, y) \in Byte /\ (Xor(x, y) = {} => x = y)
  BY XorFacts
<1> HIDE DEF e, f
<1>6. CASE k = -1
  <2>1. k \notin 1 .. Total BY <1>6
  <2>2. Parity(k, Total) = {} BY <2>1 DEF Parity
  <2>3. CASE l = 0
    <3>1. l \notin 1 .. Total BY <2>3
    <3>2. Parity(l, Total) = {} BY <3>1 DEF Parity
    <3>3. Syndrome0(k, l) = f BY <1>2, <1>4, <1>5, <2>2, <2>3, <3>2 DEF Syndrome0, f
    <3> QED BY <1>2, <3>3
  <2>4. CASE l \in 1 .. Total
    <3>1. Parity(l, Total) = f BY <2>4 DEF Parity, f
    <3>2. 0 \in Int \ {k, l} BY <1>6, <2>4
    <3>3. At(wrong, 0) = {} BY <1>3, <3>2
    <3>4. Syndrome0(k, l) = f BY <1>2, <1>5, <2>2, <3>1, <3>3 DEF Syndrome0
    <3> QED BY <1>2, <3>4
  <2> QED BY <1>1, <1>6, <2>3, <2>4
<1>7. CASE k = 0
  <2>1. k \notin 1 .. Total /\ l \in 1 .. Total /\ -1 \in Int \ {k, l} BY <1>1, <1>7
  <2>2. Total - l + 1 \in 0 .. 255 /\ Total - l + 1 \in Nat BY <1>1, <2>1
  <2>3. Folded(k, Total) = {} /\ Folded(l, Total) = Pow(Total - l + 1, f) BY <2>1 DEF Folded, f
  <2>4. At(wrong, -1) = {} BY <1>3, <2>1
  <2>5. Pow(Total - l + 1, f) \in Byte /\ Pow(Total - l + 1, f) # {}
    BY <1>2, <2>2, PowStep, PowNotZero
  <2>6. Syndrome1(k, l) = Pow(Total - l + 1, f) BY <1>5, <2>3, <2>4, <2>5 DEF Syndrome1
  <2> QED BY <2>5, <2>6
<1>8. CASE k \in 1 .. Total
  <2>1. l \in 1 .. Total /\ -1 \in Int \ {k, l} /\ 0 \in Int \ {k, l} BY <1>1, <1>8
  <2> DEFINE m == Total - l + 1
             n == Total - k + 1
  <2>2. m \in 1 .. 255 /\ n \in 1 .. 255 /\ m \in Nat /\ n \in Nat /\ m < n BY <1>1, <1>8, <2>1
  <2>3. Parity(k, Total) = e /\ Parity(l, Total) = f BY <1>8, <2>1 DEF Parity, e, f
  <2>4. Folded(k, Total) = Pow(n, e) /\ Folded(l, Total) = Pow(m, f) BY <1>8, <2>1 DEF Folded, e, f
  <2>5. At(wrong, 0) = {} /\ At(wrong, -1) = {} BY <1>3, <2>1
  <2> HIDE DEF m, n
  <2>6. Pow(n, e) \in Byte /\ Pow(m, f) \in Byte BY <1>2, <2>2, PowStep
  <2>7. Syndrome0(k, l) = Xor(e, f) /\ Syndrome1(k, l) = Xor(Pow(n, e), Pow(m, f))
    <3>1. Xor(e, f) \in Byte /\ Xor(Pow(n, e), Pow(m, f)) \in Byte BY <1>2, <1>5, <2>6
    <3>2. Xor(Xor(e, f), {}) = Xor(e, f) BY <1>5, <3>1
    <3>3. Xor(Xor(Pow(n, e), Pow(m, f)), {}) = Xor(Pow(n, e), Pow(m, f)) BY <1>5, <3>1
    <3> QED BY <2>3, <2>4, <2>5, <3>2, <3>3 DEF Syndrome0, Syndrome1
  <2>8. e = f => Pow(n, e) # Pow(m, f) BY <1>2, <2>2, PowDiffers
  <2> QED BY <1>2, <1>5, <2>6, <2>7, <2>8
<1> QED BY <1>1, <1>6, <1>7, <1>8

\* Two changed places leave a syndrome that is not zero.
LEMMA TwoPlaces ==
    ASSUME TypeInv, NEW k, NEW l, Pair(k, l), DOMAIN wrong = {k, l}
    PROVE  ~(Syndrome0(k, l) = {} /\ Syndrome1(k, l) = {})
<1>1. k \in Int /\ l \in Int /\ k # l /\ Total \in Nat BY DEF Pair, TypeInv
<1>2. CASE k < l BY <1>2, OrderedPlaces
<1>3. CASE l < k
  <2>1. {l, k} = {k, l} OBVIOUS
  <2>2. Pair(l, k) BY <2>1 DEF Pair
  <2>3. ~(Syndrome0(l, k) = {} /\ Syndrome1(l, k) = {}) BY <1>3, <2>1, <2>2, OrderedPlaces
  <2>4. Parity(k, Total) \in Byte /\ Parity(l, Total) \in Byte
        /\ Folded(k, Total) \in Byte /\ Folded(l, Total) \in Byte
    BY <1>1, TermTypes
  <2>5. Syndrome0(l, k) = Syndrome0(k, l) /\ Syndrome1(l, k) = Syndrome1(k, l)
    BY <2>4, XorFacts DEF Syndrome0, Syndrome1
  <2> QED BY <2>3, <2>5
<1> QED BY <1>1, <1>2, <1>3

-----------------------------------------------------------------------------
(* The results of the decoder                                              *)

\* The pairs of places stand for nothing, one data byte, one check byte or two.
LEMMA FourCases ==
    ASSUME TypeInv, NEW k, NEW l, Pair(k, l)
    PROVE  \/ DOMAIN wrong = {} \/ \E j \in 1 .. Total : DOMAIN wrong = {j}
           \/ \E j \in {0, -1} : DOMAIN wrong = {j} \/ DOMAIN wrong = {k, l}
<1>1. CASE DOMAIN wrong = {k}
  <2>1. k \in {-1, 0} \cup 1 .. Total BY <1>1 DEF Pair
  <2> QED BY <1>1, <2>1
<1> QED BY <1>1 DEF Pair

LEMMA Finish ==
    ASSUME IInv, Compared, UNCHANGED <<sent, i, ecc, scc, idx, steps, wrong>>,
           data' \in [1 .. Total -> Byte], result' # "none", EccOutcome'
    PROVE  IInv'
<1>1. TypeInv /\ i = Total + 1 BY Deciding
<1>2. PICK k, l : Pair(k, l) BY Deciding
<1>3. Total' = Total /\ Pair(k, l)' BY <1>2, TermsStay
<1>4. TypeInv'
  <2>1. DOMAIN wrong' = DOMAIN wrong OBVIOUS
  <2> QED BY <1>1, <1>3, <2>1, TermsStay DEF TypeInv
<1>5. Coding(k, l)' BY DEF Coding
<1> QED BY <1>1, <1>3, <1>4, <1>5 DEF IInv

LEMMA ZeroStep ==
    ASSUME IInv, Zero
    PROVE  IInv'
<1>a. /\ Compared /\ steps = 0 /\ {} \in {scc[1], scc[2]}
      /\ result' = IF scc[1] = scc[2] THEN "OK" ELSE "FAIL_PARITY"
      /\ UNCHANGED <<sent, i, ecc, scc, idx, steps, wrong>> /\ data' = data
  BY DEF Zero, Return
<1>b. TypeInv /\ data = Changed BY <1>a, Deciding
<1>c. PICK k, l : Pair(k, l) /\ Decoding(k, l) BY <1>a, Deciding
<1>1. Total \in 1 .. 255 /\ DOMAIN sent = 1 .. Total BY <1>b DEF TypeInv
<1>2. scc[1] = Syndrome0(k, l) /\ scc[2] = Syndrome1(k, l)
  <2>1. Syndrome1(k, l) \in Byte BY <1>b, <1>c, TermTypes DEF Pair
  <2>2. Pow(0, Syndrome1(k, l)) = Syndrome1(k, l) BY <2>1, PowStep
  <2> QED BY <1>a, <1>c, <2>2 DEF Decoding
<1>3. ASSUME DOMAIN wrong = {} PROVE result' = "OK" /\ data' = sent
  BY <1>a, <1>b, <1>c, <1>2, <1>3, Unchanged
<1>4. ASSUME NEW j \in 1 .. Total, DOMAIN wrong = {j} PROVE FALSE
  <2> DEFINE e == At(wrong, j)
  <2>1. scc[1] = e /\ scc[2] = Pow(Total - j + 1, e) /\ e \in Byte /\ e # {}
    BY <1>b, <1>c, <1>2, <1>4, DataChanged
  <2>2. Total - j + 1 \in 0 .. 255 BY <1>1
  <2>3. Pow(Total - j + 1, e) # {} BY <2>1, <2>2, PowNotZero
  <2> QED BY <1>a, <2>1, <2>3
<1>5. ASSUME NEW j \in {0, -1}, DOMAIN wrong = {j} PROVE result' = "FAIL_PARITY" /\ data' = sent
  <2>1. scc[1] = {} <=> j = -1 BY <1>b, <1>c, <1>2, <1>5, CheckChanged
  <2>2. scc[2] = {} <=> j = 0 BY <1>b, <1>c, <1>2, <1>5, CheckChanged
  <2>3. Changed = sent BY <1>b, <1>c, <1>5, CheckChanged
  <2>4. 0 # -1 OBVIOUS
  <2> QED BY <1>a, <1>b, <2>1, <2>2, <2>3, <2>4
<1>6. ASSUME result' = "OK" PROVE DOMAIN wrong = {}
  <2>1. scc[1] = {} /\ scc[2] = {} BY <1>a, <1>6
  <2>2. DOMAIN wrong # {k, l} BY <1>b, <1>c, <1>2, <2>1, TwoPlaces
  <2> QED BY <1>b, <1>c, <1>4, <1>5, <1>6, <2>2, FourCases
<1>7. EccOutcome'
  <2>1. \A j \in DOMAIN sent : DOMAIN wrong # {j} BY <1>1, <1>4
  <2> QED BY <1>a, <1>3, <1>5, <1>6, <2>1 DEF EccOutcome
<1>8. data' \in [1 .. Total -> Byte] /\ result' # "none" BY <1>a, <1>b DEF TypeInv
<1> QED BY <1>a, <1>7, <1>8, Finish

\* While it searches there is one wrong data byte, or two wrong bytes.  The
\* search for one wrong byte ends at its place, and before the register is round.
LEMMA Located ==
    ASSUME IInv, Searching
    PROVE  /\ DOMAIN wrong # {} /\ DOMAIN wrong \notin {{0}, {-1}}
           /\ \A j \in 1 .. Total : DOMAIN wrong = {j} =>
                /\ scc[1] = At(wrong, j) /\ steps < 255
                /\ scc[1] = scc[2] => idx = j - 1
<1>a. Compared /\ scc[1] # {} /\ scc[2] # {} BY DEF Searching
<1>b. TypeInv /\ idx = Total - 255 + steps BY <1>a, Deciding
<1>c. PICK k, l : Pair(k, l) /\ Decoding(k, l) BY <1>a, Deciding
<1>d. steps \in 0 .. 255 /\ steps \in Nat /\ Total \in 1 .. 255 BY <1>b DEF TypeInv
<1> DEFINE a == Syndrome0(k, l)
           b == Syndrome1(k, l)
<1>e. scc[1] = a /\ scc[2] = Pow(steps, b) /\ \A s \in 0 .. steps - 1 : Pow(s, b) # a
  BY <1>c DEF Decoding
<1>1. a # {} /\ b # {} BY <1>a, <1>d, <1>e, PowZero
<1>2. DOMAIN wrong # {} BY <1>b, <1>c, <1>1, Unchanged
<1>3. DOMAIN wrong \notin {{0}, {-1}}
  <2> SUFFICES ASSUME NEW j \in {0, -1}, DOMAIN wrong = {j} PROVE FALSE
    OBVIOUS
  <2> QED BY <1>b, <1>c, <1>1, CheckChanged
<1>4. ASSUME NEW j \in 1 .. Total, DOMAIN wrong = {j}
      PROVE  scc[1] = At(wrong, j) /\ steps < 255 /\ (scc[1] = scc[2] => idx = j - 1)
  <2> DEFINE e == At(wrong, j)
             m == Total - j + 1
  <2>1. a = e /\ b = Pow(m, e) /\ e \in Byte /\ e # {} BY <1>b, <1>c, <1>4, DataChanged
  <2>2. m \in 1 .. 255 /\ m \in 0 .. 255 /\ m \in Nat /\ 255 - m \in Nat BY <1>d
  <2>3. idx = j - 1 <=> steps + m = 255 BY <1>b, <1>d
  <2> HIDE DEF a, b, e, m
  <2>4. Pow(255 - m, b) = a BY <2>1, <2>2, PowBack
  <2>5. steps <= 255 - m
    <3>1. 255 - m \notin 0 .. steps - 1 BY <1>e, <2>4
    <3> QED BY <1>d, <2>2, <3>1
  <2>6. steps < 255 BY <1>d, <2>2, <2>5
  <2>7. ASSUME scc[1] = scc[2] PROVE steps + m = 255
    <3>1. Pow(steps + m, e) = Pow(steps, Pow(m, e)) BY <1>d, <2>1, <2>2, PowAdd
    <3>2. Pow(steps + m, e) = e BY <1>e, <2>1, <2>7, <3>1
    <3>3. steps + m \notin 1 .. 254 BY <2>1, <3>2, FullPeriod
    <3> QED BY <1>d, <2>2, <2>5, <3>3
  <2> QED BY <1>e, <2>1, <2>3, <2>6, <2>7 DEF e
<1> QED BY <1>2, <1>3, <1>4

LEMMA GiveUpStep ==
    ASSUME IInv, GiveUp
    PROVE  IInv'
<1>a. /\ Searching /\ Compared
      /\ steps >= 255 \/ (scc[1] = scc[2] /\ idx \notin 0 .. Len(data) - 1)
      /\ result' = "FAIL_UNCORRECTED"
      /\ UNCHANGED <<sent, i, ecc, scc, idx, steps, wrong>> /\ data' = data
  BY DEF GiveUp, Return, Searching
<1>b. TypeInv /\ Len(data) = Total BY <1>a, Deciding
<1>1. Total \in 1 .. 255 /\ DOMAIN sent = 1 .. Total /\ steps \in 0 .. 255 BY <1>b DEF TypeInv
<1>2. ASSUME NEW j \in 1 .. Total, DOMAIN wrong = {j} PROVE FALSE
  <2>1. steps < 255 /\ (scc[1] = scc[2] => idx = j - 1) BY <1>a, <1>2, Located
  <2>2. j - 1 \in 0 .. Total - 1 /\ ~(steps >= 255) BY <1>1, <2>1
  <2> QED BY <1>a, <1>b, <2>1, <2>2
<1>3. DOMAIN wrong # {} /\ DOMAIN wrong \notin {{0}, {-1}} BY <1>a, Located
<1>4. EccOutcome' BY <1>a, <1>1, <1>2, <1>3 DEF EccOutcome
<1>5. data' \in [1 .. Total -> Byte] /\ result' # "none" BY <1>a, <1>b DEF TypeInv
<1> QED BY <1>a, <1>4, <1>5, Finish

LEMMA CorrectStep ==
    ASSUME IInv, Correct
    PROVE  IInv'
<1>a. /\ Searching /\ Compared /\ scc[1] = scc[2] /\ idx \in 0 .. Len(data) - 1
      /\ data' = [data EXCEPT ![idx + 1] = Xor(@, scc[1])] /\ result' = "CORRECTED"
      /\ UNCHANGED <<sent, i, ecc, scc, idx, steps, wrong>>
  BY DEF Correct, Return, Searching
<1>b. TypeInv /\ Len(data) = Total /\ data = Changed BY <1>a, Deciding
<1>c. PICK k, l : Pair(k, l) BY <1>a, Deciding
<1>1. Total \in 1 .. 255 /\ DOMAIN sent = 1 .. Total BY <1>b DEF TypeInv
<1>2. ASSUME NEW j \in 1 .. Total, DOMAIN wrong = {j} PROVE data' = sent
  <2>1. scc[1] = At(wrong, j) /\ idx = j - 1 BY <1>a, <1>2, Located
  <2>2. idx + 1 = j BY <2>1
  <2>3. [Changed EXCEPT ![j] = Xor(@, At(wrong, j))] = sent BY <1>b, <1>c, <1>2, DataChanged
  <2> QED BY <1>a, <1>b, <2>1, <2>2, <2>3
<1>3. DOMAIN wrong # {} /\ DOMAIN wrong \notin {{0}, {-1}} BY <1>a, Located
<1>4. EccOutcome' BY <1>a, <1>1, <1>2, <1>3 DEF EccOutcome
<1>5. data' \in [1 .. Total -> Byte] /\ result' # "none"
  <2>1. idx + 1 \in 1 .. Total BY <1>a, <1>b, <1>1
  <2>2. data \in [1 .. Total -> Byte] /\ data[idx + 1] \in Byte /\ scc[1] \in Byte
    BY <1>b, <2>1 DEF TypeInv
  <2>3. Xor(data[idx + 1], scc[1]) \in Byte BY <2>2, XorFacts
  <2> QED BY <1>a, <2>2, <2>3
<1> QED BY <1>a, <1>4, <1>5, Finish

-----------------------------------------------------------------------------
(* The theorems                                                            *)

\* The places of Patterns are a pair, of which one or both may be without a change.
Placed(n, k, l) ==
    /\ k # l /\ DOMAIN wrong \in {{}, {k}, {k, l}} /\ DOMAIN wrong \subseteq {-1, 0} \cup 1 .. n
    /\ wrong \in [DOMAIN wrong -> Errors]

LEMMA InitHolds == Init => IInv
<1> SUFFICES ASSUME Init PROVE IInv
  OBVIOUS
<1>a. PICK n \in Lengths : sent \in Blocks(n) /\ wrong \in Patterns(n) BY DEF Init
<1>b. n \in 1 .. 255 /\ sent \in [1 .. n -> Byte] /\ Errors \subseteq Byte \ {{}}
      /\ Places(n) \subseteq 1 .. n
  BY <1>a, EccAssumption
<1>c. /\ data = [k \in DOMAIN sent |-> Xor(sent[k], At(wrong, k))] /\ i = 0
      /\ ecc = <<{}, {}>> /\ scc = <<{}, {}>> /\ idx = Len(data) - 255 /\ steps = 0
      /\ result = "none"
  BY DEF Init
<1>d. Total = n /\ DOMAIN sent = 1 .. n BY <1>b DEF Total
<1>1. \E k, l \in Int : Placed(n, k, l)
  <2> DEFINE P == Places(n) \cup {0, -1}
  <2>1. PICK S \in {{}} \cup {{k, l} : k, l \in P} : wrong \in [S -> Errors] BY <1>a DEF Patterns
  <2>2. DOMAIN wrong = S /\ P \subseteq {-1, 0} \cup 1 .. n /\ P \subseteq Int BY <1>b, <2>1
  <2> HIDE DEF P
  <2>3. CASE S = {}
    <3>1. 0 \in Int /\ 1 \in Int /\ 0 # 1 OBVIOUS
    <3>2. Placed(n, 0, 1) BY <2>1, <2>2, <2>3, <3>1 DEF Placed
    <3> QED BY <3>1, <3>2
  <2>4. CASE S # {}
    <3>1. PICK k \in P, l \in P : S = {k, l} BY <2>1, <2>4
    <3>2. CASE k # l
      <4>1. Placed(n, k, l) BY <2>1, <2>2, <3>1, <3>2 DEF Placed
      <4> QED BY <2>2, <4>1
    <3>3. CASE k = l
      <4>1. S = {k} /\ k \in Int BY <2>2, <3>1, <3>3
      <4>2. k + 1 \in Int /\ k # k + 1 BY <4>1
      <4>3. Placed(n, k, k + 1) BY <2>1, <2>2, <3>1, <4>1, <4>2 DEF Placed
      <4> QED BY <4>1, <4>2, <4>3
    <3> QED BY <3>2, <3>3
  <2> QED BY <2>3, <2>4
<1>2. PICK k \in Int, l \in Int : Pair(k, l) /\ wrong \in [DOMAIN wrong -> Errors]
  BY <1>1, <1>d DEF Pair, Placed
<1>3. \A j : At(wrong, j) \in Byte /\ (j \in DOMAIN wrong <=> At(wrong, j) # {})
  <2>1. {} \in Byte BY DEF Byte
  <2> QED BY <1>b, <1>2, <2>1 DEF At
<1>4. data = Changed /\ data \in [1 .. n -> Byte] /\ Len(data) = n
  <2>1. data = [j \in 1 .. n |-> Xor(sent[j], At(wrong, j))] BY <1>c, <1>d
  <2>2. \A j \in 1 .. n : Xor(sent[j], At(wrong, j)) \in Byte BY <1>b, <1>3, XorFacts
  <2>3. data \in [1 .. n -> Byte] BY <2>1, <2>2
  <2> QED BY <1>b, <1>c, <2>3 DEF Changed
<1>5. TypeInv
  <2>1. {} \in Byte BY DEF Byte
  <2>2. <<{}, {}>> \in [1 .. 2 -> Byte] BY <2>1, PairIs
  <2>3. 0 \in 0 .. n + 1 /\ 0 \in 0 .. 255 BY <1>b
  <2> QED BY <1>b, <1>c, <1>d, <1>3, <1>4, <2>2, <2>3 DEF TypeInv
<1>6. Encoding(k, l)
  <2>1. {} \in Byte BY DEF Byte
  <2>2. Xor({}, {}) = {} BY <2>1, XorFacts
  <2>3. k \notin 1 .. 0 /\ l \notin 1 .. 0 OBVIOUS
  <2>4. Parity(k, 0) = {} /\ Parity(l, 0) = {} /\ Folded(k, 0) = {} /\ Folded(l, 0) = {}
    BY <2>3 DEF Parity, Folded
  <2> QED BY <1>c, <2>2, <2>4 DEF Encoding
<1>7. Coding(k, l)
  <2>1. idx = Total - 255 + steps /\ ~(i > Total) BY <1>b, <1>c, <1>d, <1>4
  <2> QED BY <1>4, <1>6, <2>1 DEF Coding
<1> QED BY <1>c, <1>2, <1>5, <1>7 DEF IInv, EccOutcome

LEMMA NextHolds == IInv /\ [Next]_vars => IInv'
<1> SUFFICES ASSUME IInv, [Next]_vars PROVE IInv'
  OBVIOUS
<1>1. CASE Encode BY <1>1, EncodeStep
<1>2. CASE Compare BY <1>2, CompareStep
<1>3. CASE Zero BY <1>3, ZeroStep
<1>4. CASE Rotate BY <1>4, RotateStep
<1>5. CASE GiveUp BY <1>5, GiveUpStep
<1>6. CASE Correct BY <1>6, CorrectStep
<1>7. CASE UNCHANGED vars
  <2>1. UNCHANGED <<sent, data, i, ecc, scc, idx, steps, result, wrong>> BY <1>7 DEF vars
  <2>2. DOMAIN wrong' = DOMAIN wrong BY <2>1
  <2>3. TypeInv' /\ EccOutcome' BY <2>1, <2>2, TermsStay DEF IInv, TypeInv, EccOutcome
  <2>4. PICK k, l : Pair(k, l) /\ Coding(k, l) BY DEF IInv
  <2>5. Encoding(k, l)' <=> Encoding(k, l)
    BY <2>1, TermsStay DEF Encoding, Parity, Folded, At
  <2>6. Decoding(k, l)' <=> Decoding(k, l) BY <2>1, TermsStay DEF Decoding
  <2>7. Pair(k, l)' /\ Coding(k, l)' BY <2>1, <2>4, <2>5, <2>6, TermsStay DEF Coding
  <2>8. (result # "none" => i = Total + 1)' BY <2>1, TermsStay DEF IInv
  <2> QED BY <2>3, <2>7, <2>8 DEF IInv
<1> QED BY <1>1, <1>2, <1>3, <1>4, <1>5, <1>6, <1>7 DEF Next

\* The register that folds the data into the second check byte (lf_sr) has
\* period 255, as xtp_ecc.c:5 says: from every byte but 0 it comes back after
\* 255 steps and not before, so each of the 255 places of a block leaves its
\* own signature and the loop at :59 needs no more than 254 turns.
THEOREM RegisterPeriod ==
    \A x \in Byte \ {{}}, n \in 1 .. 255 : Pow(n, x) = x <=> n = 255
<1> TAKE x \in Byte \ {{}}, n \in 1 .. 255
<1>1. CASE n = 255 BY <1>1, Period
<1>2. CASE n # 255
  <2>1. n \in 1 .. 254 BY <1>2
  <2> QED BY <1>2, <2>1, FullPeriod
<1> QED BY <1>1, <1>2

\* The data and the check bytes are bytes, and the loop at xtp_ecc.c:59 turns at
\* most 255 times, from every block of 1 to 255 bytes.
THEOREM EccTyping == Spec => []TypeInv
<1>1. IInv => TypeInv BY DEF IInv
<1> QED BY <1>1, InitHolds, NextHolds, PTL DEF Spec

\* Whatever the data, of 1 to 255 bytes, and whatever bytes are changed to what,
\* xTP_ECC_Decode says OK of nothing but an unchanged block, puts right one wrong
\* data byte wherever it is, and leaves the data alone for one wrong check byte
\* (xtp_ecc.h:4-5).
THEOREM BlocksAreCorrected == Spec => []EccOutcome
<1>1. IInv => EccOutcome BY DEF IInv
<1> QED BY <1>1, InitHolds, NextHolds, PTL DEF Spec

=============================================================================
