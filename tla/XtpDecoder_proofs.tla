-------------------------- MODULE XtpDecoder_proofs --------------------------
(***************************************************************************)
(* Proofs about XtpDecoder, for any frames, any faults of the line and any *)
(* pauses: a timeout means silence; a frame that is accepted without a     *)
(* repair, under check bytes that a sender computed, was sent, in order    *)
(* and once; and a frame that follows no                                   *)
(* disturbance is accepted if nothing was done to it, and repaired or      *)
(* refused if one of its bytes was changed.                                *)
(***************************************************************************)
EXTENDS XtpDecoder, SequenceTheorems, TLAPS

-----------------------------------------------------------------------------
(* Frames and bytes                                                        *)

FrameNo == DOMAIN Frames

\* The second CRC byte of a frame, which is the last that depends on it.
Stamp(f) == <<"crc2", Covered(Frames[f])>>
StampAt(f) == 11 + Len(Frames[f].data)

\* Every byte that can be on the line.
NumberByte == {Number(n) : n \in Nat}
EccByte == {<<k, Numbers(Frames[f].data)>> : k \in {"ecc0", "ecc1"}, f \in FrameNo}
CrcByte == {<<k, Covered(Frames[f])>> : k \in {"crc1", "crc2"}, f \in FrameNo}
PlainByte == NumberByte \cup EccByte
Byte == PlainByte \cup CrcByte

\* Sequences put together.
LEMMA Joined ==
    ASSUME NEW S, NEW s \in Seq(S), NEW t \in Seq(S)
    PROVE  /\ s \o t \in Seq(S)
           /\ Len(s \o t) = Len(s) + Len(t)
           /\ \A i \in 1 .. Len(s) : (s \o t)[i] = s[i]
           /\ \A i \in 1 .. Len(t) : (s \o t)[Len(s) + i] = t[i]
BY ConcatProperties

LEMMA PartOf ==
    ASSUME NEW S, NEW s, NEW m \in Int, NEW n \in Int, \A i \in m .. n : s[i] \in S
    PROVE  /\ SubSeq(s, m, n) \in Seq(S)
           /\ Len(SubSeq(s, m, n)) = IF m <= n THEN n - m + 1 ELSE 0
           /\ \A i \in 1 .. n - m + 1 : SubSeq(s, m, n)[i] = s[m + i - 1]
BY SubSeqProperties

LEMMA SmallIsNat == \A n \in 0 .. 255 : n \in Nat
OBVIOUS

LEMMA FrameTypes ==
    ASSUME NEW f \in FrameNo
    PROVE  /\ Frames[f] \in Frame
           /\ Frames[f].id \in Nat /\ Frames[f].id_high \in Nat /\ Frames[f].seq \in Nat
           /\ Frames[f].data \in Seq(0 .. 255)
<1> DEFINE r == Frames[f]
<1>1. r \in Frame BY DecoderAssumption DEF FrameNo
<1> HIDE DEF r
<1>2. r.id \in 0 .. 255 /\ r.id_high \in 0 .. 255 /\ r.seq \in 0 .. 255
      /\ r.data \in Seq(0 .. 255)
  BY <1>1 DEF Frame
<1>3. r.id \in Nat /\ r.id_high \in Nat /\ r.seq \in Nat BY <1>2, SmallIsNat
<1> QED BY <1>1, <1>2, <1>3 DEF r

LEMMA NumbersTypes ==
    ASSUME NEW f \in FrameNo
    PROVE  /\ Numbers(Frames[f].data) \in Seq(NumberByte)
           /\ Len(Numbers(Frames[f].data)) = Len(Frames[f].data)
           /\ Len(Frames[f].data) \in Nat
           /\ \A i \in 1 .. Len(Frames[f].data) :
                 Numbers(Frames[f].data)[i] = Number(Frames[f].data[i])
<1> DEFINE s == Frames[f].data
<1>1. s \in Seq(0 .. 255) BY FrameTypes
<1> HIDE DEF s
<1>2. Len(s) \in Nat /\ DOMAIN s = 1 .. Len(s) BY <1>1
<1>3. \A i \in 1 .. Len(s) : s[i] \in Nat
  <2>1. \A i \in 1 .. Len(s) : s[i] \in 0 .. 255 BY <1>1, ElementOfSeq
  <2> QED BY <2>1, SmallIsNat
<1>4. \A i \in 1 .. Len(s) : Number(s[i]) \in NumberByte
  BY <1>3, Zenon DEF NumberByte
<1>5. Numbers(s) = [i \in 1 .. Len(s) |-> Number(s[i])] BY <1>2 DEF Numbers
<1>6. Numbers(s) \in Seq(NumberByte) /\ Len(Numbers(s)) = Len(s)
  BY <1>2, <1>4, <1>5
<1> QED BY <1>2, <1>5, <1>6 DEF s

\* What the CRC of a frame covers.
LEMMA CoveredParts ==
    ASSUME NEW f \in FrameNo
    PROVE  LET c == Covered(Frames[f])
               d == Numbers(Frames[f].data)
           IN /\ c \in Seq(PlainByte)
              /\ Len(c) = 7 + Len(d)
              /\ c[2] = Number(Frames[f].id) /\ c[3] = Number(Frames[f].id_high)
              /\ c[4] = Number(Frames[f].seq)
              /\ \A i \in 1 .. Len(d) : c[5 + i] = d[i]
<1> DEFINE d == Numbers(Frames[f].data)
           h == <<Number(typemethod), Number(Frames[f].id), Number(Frames[f].id_high),
                  Number(Frames[f].seq), Number(Len(d))>>
           e == <<<<"ecc0", d>>, <<"ecc1", d>>>>
<1>1. d \in Seq(PlainByte) /\ Len(d) \in Nat
  <2>1. d \in Seq(NumberByte) BY NumbersTypes
  <2> HIDE DEF d
  <2> QED BY <2>1 DEF PlainByte
<1>2. typemethod \in Nat BY DecoderAssumption
<1>3. \A n \in Nat : Number(n) \in PlainByte BY DEF PlainByte, NumberByte
<1>4. <<"ecc0", d>> \in PlainByte /\ <<"ecc1", d>> \in PlainByte BY DEF PlainByte, EccByte
<1>5. Number(typemethod) \in PlainByte /\ Number(Frames[f].id) \in PlainByte
      /\ Number(Frames[f].id_high) \in PlainByte /\ Number(Frames[f].seq) \in PlainByte
      /\ Number(Len(d)) \in PlainByte
  BY <1>1, <1>2, <1>3, FrameTypes
<1>6. Covered(Frames[f]) = h \o d \o e BY DEF Covered
<1>7. h[2] = Number(Frames[f].id) /\ h[3] = Number(Frames[f].id_high)
      /\ h[4] = Number(Frames[f].seq) /\ Len(h) = 5 /\ Len(e) = 2
  OBVIOUS
<1> HIDE DEF d
<1>8. h \in Seq(PlainByte) BY <1>5
<1>9. e \in Seq(PlainByte) BY <1>4
<1> DEFINE hd == h \o d
<1> HIDE DEF h, e
<1>10. hd \in Seq(PlainByte) /\ Len(hd) = 5 + Len(d)
       /\ (\A i \in 1 .. 5 : hd[i] = h[i]) /\ (\A i \in 1 .. Len(d) : hd[5 + i] = d[i])
  <2>1. /\ hd \in Seq(PlainByte) /\ Len(hd) = Len(h) + Len(d)
        /\ \A i \in 1 .. Len(h) : hd[i] = h[i]
        /\ \A i \in 1 .. Len(d) : hd[Len(h) + i] = d[i]
    BY <1>1, <1>8, Joined
  <2> QED BY <1>7, <2>1
<1> HIDE DEF hd
<1>11. hd \o e \in Seq(PlainByte) /\ Len(hd \o e) = 5 + Len(d) + 2
       /\ (\A i \in 1 .. 5 + Len(d) : (hd \o e)[i] = hd[i])
  <2>1. /\ hd \o e \in Seq(PlainByte) /\ Len(hd \o e) = Len(hd) + Len(e)
        /\ \A i \in 1 .. Len(hd) : (hd \o e)[i] = hd[i]
    <3>1. hd \in Seq(PlainByte) BY <1>10
    <3> HIDE DEF hd
    <3> QED BY <1>9, <3>1, Joined
  <2> QED BY <1>7, <1>10, <2>1
<1>12. Covered(Frames[f]) = hd \o e BY <1>6 DEF hd
<1>13. \A i \in 1 .. Len(d) : 5 + i \in 1 .. 5 + Len(d) BY <1>1
<1>14. \A i \in 1 .. 5 : i \in 1 .. 5 + Len(d) BY <1>1
<1>15. Len(Covered(Frames[f])) = 7 + Len(d) BY <1>1, <1>11, <1>12
<1> QED BY <1>7, <1>10, <1>11, <1>12, <1>13, <1>14, <1>15 DEF d

\* No two frames are covered alike, so none is stamped like another.
LEMMA CoveredIsFrame ==
    ASSUME NEW f \in FrameNo, NEW g \in FrameNo,
           Carries([id |-> Number(Frames[f].id), id_high |-> Number(Frames[f].id_high),
                    seq |-> Number(Frames[f].seq), data |-> Numbers(Frames[f].data)],
                   Frames[g])
    PROVE  f = g
<1>1. Number(Frames[f].id) = Number(Frames[g].id)
      /\ Number(Frames[f].id_high) = Number(Frames[g].id_high)
      /\ Number(Frames[f].seq) = Number(Frames[g].seq)
      /\ Numbers(Frames[f].data) = Numbers(Frames[g].data)
  BY DEF Carries, Sent
<1>2. Frames[f].id = Frames[g].id /\ Frames[f].id_high = Frames[g].id_high
      /\ Frames[f].seq = Frames[g].seq
  BY <1>1 DEF Number
<1>3. Len(Frames[f].data) = Len(Frames[g].data) BY <1>1, NumbersTypes
<1>4. \A i \in 1 .. Len(Frames[f].data) : Frames[f].data[i] = Frames[g].data[i]
  BY <1>1, <1>3, NumbersTypes DEF Number
<1>5. Frames[f].data = Frames[g].data
  <2> DEFINE s == Frames[f].data
             t == Frames[g].data
  <2>1. s \in Seq(0 .. 255) /\ t \in Seq(0 .. 255) BY FrameTypes
  <2>2. Len(s) = Len(t) /\ \A i \in 1 .. Len(s) : s[i] = t[i] BY <1>3, <1>4
  <2> HIDE DEF s, t
  <2>3. s = t BY <2>1, <2>2
  <2> QED BY <2>3 DEF s, t
<1>6. Frames[f] = Frames[g] BY <1>2, <1>5, FrameTypes DEF Frame
<1> QED BY <1>6, DecoderAssumption DEF FrameNo

LEMMA StampIsFrame ==
    ASSUME NEW f \in FrameNo, NEW g \in FrameNo, Covered(Frames[f]) = Covered(Frames[g])
    PROVE  f = g
<1> DEFINE c == Covered(Frames[f])
           d == Numbers(Frames[f].data)
           e == Numbers(Frames[g].data)
<1>1. Len(c) = 7 + Len(d) /\ Len(c) = 7 + Len(e) BY CoveredParts
<1>2. c[2] = Number(Frames[f].id) /\ c[3] = Number(Frames[f].id_high)
      /\ c[4] = Number(Frames[f].seq)
      /\ (\A i \in 1 .. Len(d) : c[5 + i] = d[i])
  BY CoveredParts
<1>3. c[2] = Number(Frames[g].id) /\ c[3] = Number(Frames[g].id_high)
      /\ c[4] = Number(Frames[g].seq)
      /\ (\A i \in 1 .. Len(e) : c[5 + i] = e[i])
  BY CoveredParts
<1>4. d \in Seq(NumberByte) /\ e \in Seq(NumberByte) BY NumbersTypes
<1> HIDE DEF c, d, e
<1>5. Len(d) = Len(e) BY <1>1, <1>4
<1>6. d = e BY <1>2, <1>3, <1>4, <1>5
<1>7. Number(Frames[f].id) = Number(Frames[g].id)
      /\ Number(Frames[f].id_high) = Number(Frames[g].id_high)
      /\ Number(Frames[f].seq) = Number(Frames[g].seq)
  BY <1>2, <1>3
<1>8. Numbers(Frames[f].data) = Numbers(Frames[g].data) BY <1>6 DEF d, e
<1> QED BY <1>7, <1>8, CoveredIsFrame DEF Carries, Sent

LEMMA ChanceIsNat == Chance \subseteq Nat
BY DecoderAssumption, SmallIsNat

\* What is read in a byte.
LEMMA ByteKinds ==
    ASSUME NEW b \in Byte
    PROVE  /\ b # Garbled
           /\ Values(b) \subseteq Nat
           /\ b[1] \in {"ecc0", "ecc1"} => b[2] \in Seq(NumberByte)
           /\ b[1] = "crc2" => \E f \in FrameNo : b = Stamp(f)
<1>1. CASE b \in NumberByte
  <2>1. PICK n \in Nat : b = Number(n) BY <1>1 DEF NumberByte
  <2> QED BY <2>1 DEF Number, Garbled, Values
<1>2. CASE b \in EccByte
  <2>1. PICK k \in {"ecc0", "ecc1"}, f \in FrameNo : b = <<k, Numbers(Frames[f].data)>>
    BY <1>2 DEF EccByte
  <2>2. Numbers(Frames[f].data) \in Seq(NumberByte) BY NumbersTypes
  <2>3. b[1] \in {"ecc0", "ecc1"} /\ b[2] = Numbers(Frames[f].data) BY <2>1
  <2>4. b[1] # "garbled" /\ b[1] # "number" /\ b[1] # "crc2" BY <2>3
  <2>5. b # Garbled BY <2>4 DEF Garbled
  <2>6. Values(b) \subseteq Nat BY <2>4, ChanceIsNat DEF Values
  <2> QED BY <2>2, <2>3, <2>4, <2>5, <2>6
<1>3. CASE b \in CrcByte
  <2>1. PICK k \in {"crc1", "crc2"}, f \in FrameNo : b = <<k, Covered(Frames[f])>>
    BY <1>3 DEF CrcByte
  <2>2. b[1] = k BY <2>1
  <2>3. b[1] # "garbled" /\ b[1] # "number" /\ b[1] \notin {"ecc0", "ecc1"} BY <2>2
  <2>4. b # Garbled BY <2>3 DEF Garbled
  <2>5. Values(b) \subseteq Nat BY <2>3, ChanceIsNat DEF Values
  <2>6. k = "crc2" => b = Stamp(f) BY <2>1 DEF Stamp
  <2> QED BY <2>2, <2>3, <2>4, <2>5, <2>6
<1> QED BY <1>1, <1>2, <1>3 DEF Byte, PlainByte

LEMMA PlainIsNoStamp == ASSUME NEW b \in PlainByte PROVE b[1] # "crc2"
BY DEF PlainByte, NumberByte, EccByte, Number

\* The bytes of a frame: its stamp is in one place.
LEMMA WireBytes ==
    ASSUME NEW f \in FrameNo
    PROVE  /\ Len(Wire(Frames[f])) = 13 + Len(Frames[f].data)
           /\ \A k \in 1 .. 13 + Len(Frames[f].data) :
                 /\ Wire(Frames[f])[k] \in Byte
                 /\ Wire(Frames[f])[k][1] = "crc2" =>
                       k = StampAt(f) /\ Wire(Frames[f])[k] = Stamp(f)
<1> DEFINE n == Len(Frames[f].data)
           s == <<Number(START1), Number(START2)>>
           c == Covered(Frames[f])
           t == <<<<"crc1", c>>, <<"crc2", c>>, Number(STOP1), Number(STOP2)>>
<1>1. n \in Nat BY NumbersTypes
<1>2. c \in Seq(PlainByte) /\ Len(c) = 7 + n BY NumbersTypes, CoveredParts
<1>3. Number(START1) \in Byte /\ Number(START2) \in Byte
      /\ Number(STOP1) \in Byte /\ Number(STOP2) \in Byte
  BY DEF Byte, PlainByte, NumberByte, START1, START2, STOP1, STOP2
<1>4. <<"crc1", c>> \in Byte /\ <<"crc2", c>> \in Byte BY DEF Byte, CrcByte
<1>5. Wire(Frames[f]) = s \o c \o t BY DEF Wire
<1>6. Len(s) = 2 /\ Len(t) = 4 /\ s[1] = Number(START1) /\ s[2] = Number(START2)
      /\ t[1] = <<"crc1", c>> /\ t[2] = Stamp(f)
      /\ t[3] = Number(STOP1) /\ t[4] = Number(STOP2)
  BY DEF Stamp
<1>7. \A i \in 1 .. 2 : s[i][1] # "crc2" BY <1>6 DEF Number
<1>8. \A i \in 1 .. 4 : t[i][1] = "crc2" => i = 2 BY <1>6 DEF Number
<1>9. s \in Seq(Byte) BY <1>3
<1>10. t \in Seq(Byte) BY <1>3, <1>4
<1> DEFINE sc == s \o c
<1> HIDE DEF n, s, c, t
<1>11. c \in Seq(Byte) BY <1>2 DEF Byte
<1>12. \A i \in 1 .. Len(c) : c[i][1] # "crc2" BY <1>2, PlainIsNoStamp
<1>13. sc \in Seq(Byte) /\ Len(sc) = 9 + n
       /\ (\A i \in 1 .. 2 : sc[i] = s[i]) /\ (\A i \in 1 .. 7 + n : sc[2 + i] = c[i])
  <2>1. /\ sc \in Seq(Byte) /\ Len(sc) = Len(s) + Len(c)
        /\ \A i \in 1 .. Len(s) : sc[i] = s[i]
        /\ \A i \in 1 .. Len(c) : sc[Len(s) + i] = c[i]
    BY <1>9, <1>11, Joined
  <2>2. Len(s) + Len(c) = 9 + n BY <1>1, <1>2, <1>6
  <2> QED BY <1>2, <1>6, <2>1, <2>2
<1> DEFINE w == sc \o t
<1> HIDE DEF sc
<1>14. w \in Seq(Byte) /\ Len(w) = 9 + n + 4
       /\ (\A i \in 1 .. 9 + n : w[i] = sc[i]) /\ (\A i \in 1 .. 4 : w[9 + n + i] = t[i])
  <2>1. /\ w \in Seq(Byte) /\ Len(w) = Len(sc) + Len(t)
        /\ \A i \in 1 .. Len(sc) : w[i] = sc[i]
        /\ \A i \in 1 .. Len(t) : w[Len(sc) + i] = t[i]
    <3>1. sc \in Seq(Byte) BY <1>13
    <3> QED BY <1>10, <3>1, Joined DEF w
  <2> QED BY <1>6, <1>13, <2>1
<1>15. Wire(Frames[f]) = w BY <1>5 DEF sc
<1> HIDE DEF w
<1> SUFFICES ASSUME NEW k \in 1 .. 13 + n
             PROVE  w[k] \in Byte /\ (w[k][1] = "crc2" => k = 11 + n /\ w[k] = Stamp(f))
  BY <1>1, <1>14, <1>15 DEF n, StampAt
<1>16. w[k] \in Byte BY <1>1, <1>14
<1>17. CASE k <= 2
  <2>1. k \in 1 .. 2 /\ k \in 1 .. 9 + n BY <1>1, <1>17
  <2>2. w[k] = s[k] BY <1>13, <1>14, <2>1
  <2> QED BY <1>7, <1>16, <2>1, <2>2
<1>18. CASE k > 2 /\ k <= 9 + n
  <2>1. k - 2 \in 1 .. 7 + n /\ k \in 1 .. 9 + n /\ k = 2 + (k - 2) BY <1>1, <1>18
  <2>2. w[k] = c[k - 2] BY <1>13, <1>14, <2>1
  <2> QED BY <1>2, <1>12, <1>16, <2>1, <2>2
<1>19. CASE k > 9 + n
  <2>1. k - 9 - n \in 1 .. 4 /\ k = 9 + n + (k - 9 - n) BY <1>1, <1>19
  <2>2. w[k] = t[k - 9 - n] BY <1>14, <2>1
  <2>3. w[k][1] = "crc2" => k - 9 - n = 2 BY <1>8, <2>1, <2>2
  <2>4. k - 9 - n = 2 => k = 11 + n BY <1>1
  <2> QED BY <1>6, <1>16, <2>2, <2>3, <2>4
<1> QED BY <1>1, <1>17, <1>18, <1>19

-----------------------------------------------------------------------------
(* The types, and what the decoder has read in each state                  *)

Handed == [id : Byte, id_high : Byte, seq : Byte, data : Seq(Byte \cup {Garbled}),
           repaired : BOOLEAN, checked : BOOLEAN]

Types ==
    /\ sending \in Nat \ {0} /\ byte_no \in Nat
    /\ age \in Nat /\ quiet \in Nat
    /\ line \in Seq(Byte)
    /\ covered \in Seq(Byte)
    /\ data \in Seq(Byte \cup {Garbled})
    /\ accepted \in Seq(Handed)

\* The data has been read, and covered after the five bytes of the header.
DataRead ==
    /\ data \in Seq(Byte)
    /\ \A i \in 1 .. Len(data) : covered[5 + i] = data[i]

Shape ==
    /\ state \in {"START2", "TYPEMETHOD"} => covered = <<>> /\ data = <<>>
    /\ state = "ID" => Len(covered) = 1 /\ data = <<>>
    /\ state = "ID_HIGH" => Len(covered) = 2 /\ data = <<>>
    /\ state = "SEQ" => Len(covered) = 3 /\ data = <<>>
    /\ state = "LEN" => Len(covered) = 4 /\ data = <<>>
    /\ state \in {"DATA", "ECC0"} => Len(covered) = 5 + Len(data) /\ DataRead
    /\ state = "ECC1" => Len(covered) = 6 + Len(data) /\ DataRead
    /\ state \in {"CRC1", "CRC2"} => Len(covered) = 7 + Len(data) /\ DataRead
    /\ state = "CRC2" => \E first \in Byte : crc_received = <<first>>
    /\ state \in {"STOP1", "STOP2"} => Len(covered) >= 7

\* Since the task has read everything that came, it has waited no longer than
\* the line has been quiet.
Silence == line = <<>> => age <= quiet

TypeInv == Types /\ Shape /\ Silence

LEMMA InitTypes == Init => TypeInv
<1> SUFFICES ASSUME Init PROVE TypeInv OBVIOUS
<1>1. line \in Seq(Byte) /\ covered \in Seq(Byte) /\ data \in Seq(Byte \cup {Garbled})
      /\ accepted \in Seq(Handed)
  BY EmptySeq DEF Init
<1>2. Shape BY DEF Init, Shape
<1> QED BY <1>1, <1>2 DEF Init, TypeInv, Types, Silence

\* A byte goes to the end of the line.
LEMMA PutTypes ==
    ASSUME Types, NEW b \in Byte, Put(b)
    PROVE  line' \in Seq(Byte) /\ line' # <<>> /\ quiet' = 0
<1>1. line' = Append(line, b) /\ quiet' = 0 BY DEF Put
<1>2. line \in Seq(Byte) BY DEF Types
<1>3. line' \in Seq(Byte) /\ Len(line') = Len(line) + 1 BY <1>1, <1>2
<1>4. Len(line) \in Nat BY <1>2
<1>5. line' # <<>> BY <1>3, <1>4
<1> QED BY <1>1, <1>3, <1>5

LEMMA NextByteTypes ==
    ASSUME Types, NextByte
    PROVE  /\ sending' \in FrameNo /\ sending' \in Nat \ {0} /\ byte_no' \in Nat
           /\ byte_no' \in 1 .. 13 + Len(Frames[sending'].data)
           /\ This \in Byte
<1>1. Frames \in Seq(Frame) BY DecoderAssumption
<1>2. sending \in 1 .. Len(Frames) BY <1>1 DEF Types, NextByte, Sending
<1>3. sending \in FrameNo BY <1>1, <1>2 DEF FrameNo
<1>4. Len(Frames[sending].data) \in Nat
      /\ Len(Current) = 13 + Len(Frames[sending].data)
  BY <1>3, NumbersTypes, WireBytes DEF Current
<1>5. CASE byte_no < Len(Current)
  <2>1. sending' = sending /\ byte_no' = byte_no + 1 BY <1>5 DEF NextByte
  <2>2. byte_no' \in 1 .. 13 + Len(Frames[sending'].data)
    BY <1>4, <1>5, <2>1 DEF Types
  <2>3. sending' \in FrameNo BY <1>3, <2>1
  <2>4. byte_no' \in Nat BY <2>1 DEF Types
  <2>5. This \in Byte BY <2>2, <2>3, WireBytes DEF This
  <2> QED BY <1>2, <2>1, <2>2, <2>3, <2>4, <2>5
<1>6. CASE ~(byte_no < Len(Current))
  <2>1. sending < Len(Frames) /\ sending' = sending + 1 /\ byte_no' = 1
    BY <1>6 DEF NextByte
  <2>2. sending' \in FrameNo BY <1>1, <1>2, <2>1 DEF FrameNo
  <2>3. Len(Frames[sending'].data) \in Nat BY <2>2, NumbersTypes
  <2>4. byte_no' \in 1 .. 13 + Len(Frames[sending'].data) BY <2>1, <2>3
  <2> QED BY <1>2, <2>1, <2>2, <2>4, WireBytes DEF This
<1> QED BY <1>5, <1>6

LEMMA NoiseIsByte == ASSUME NEW v \in Noise PROVE Number(v) \in Byte
<1>1. v \in Nat BY DecoderAssumption, SmallIsNat
<1> QED BY <1>1 DEF Byte, PlainByte, NumberByte

\* What the line and the clock do to the decoder: nothing.
LEMMA TypesBeforeDecoder ==
    ASSUME TypeInv,
           SendByte \/ Lose \/ (\E v \in Noise : Change(v) \/ Insert(v)) \/ Tick
    PROVE  TypeInv' /\ UNCHANGED <<decoder, accepted>>
<1> USE DEF TypeInv
<1>1. UNCHANGED <<state, covered, data, crc_received, accepted>>
  BY DEF SendByte, Lose, Change, Insert, Tick, decoder
<1>2. Shape' BY <1>1, Zenon DEF Shape, DataRead
<1>3. SUFFICES Types' /\ Silence' BY <1>1, <1>2 DEF decoder
<1>4. CASE SendByte
  <2>1. NextByte /\ Put(This) /\ age' = age BY <1>4 DEF SendByte
  <2>2. This \in Byte /\ sending' \in Nat \ {0} /\ byte_no' \in Nat BY <2>1, NextByteTypes
  <2>3. line' \in Seq(Byte) /\ line' # <<>> /\ quiet' = 0 BY <2>1, <2>2, PutTypes
  <2> QED BY <1>1, <2>1, <2>2, <2>3 DEF Types, Silence
<1>5. CASE Lose
  <2>1. NextByte /\ age' = age /\ line' = line /\ quiet' = quiet BY <1>5 DEF Lose
  <2>2. sending' \in Nat \ {0} /\ byte_no' \in Nat BY <2>1, NextByteTypes
  <2> QED BY <1>1, <2>1, <2>2 DEF Types, Silence
<1>6. ASSUME NEW v \in Noise, Change(v) PROVE Types' /\ Silence'
  <2>1. NextByte /\ Put(Number(v)) /\ age' = age BY <1>6 DEF Change
  <2>2. sending' \in Nat \ {0} /\ byte_no' \in Nat BY <2>1, NextByteTypes
  <2>3. line' \in Seq(Byte) /\ line' # <<>> /\ quiet' = 0
    BY <2>1, NoiseIsByte, PutTypes
  <2> QED BY <1>1, <2>1, <2>2, <2>3 DEF Types, Silence
<1>7. ASSUME NEW v \in Noise, Insert(v) PROVE Types' /\ Silence'
  <2>1. Put(Number(v)) /\ age' = age /\ sending' = sending /\ byte_no' = byte_no
    BY <1>7 DEF Insert, sender
  <2>2. line' \in Seq(Byte) /\ line' # <<>> /\ quiet' = 0
    BY <2>1, NoiseIsByte, PutTypes
  <2> QED BY <1>1, <2>1, <2>2 DEF Types, Silence
<1>8. CASE Tick
  <2>1. age' = Later(age) /\ quiet' = Later(quiet) /\ line' = line
        /\ sending' = sending /\ byte_no' = byte_no
    BY <1>8 DEF Tick, sender
  <2>2. age' \in Nat /\ quiet' \in Nat /\ (age <= quiet => age' <= quiet')
    BY <2>1, DecoderAssumption DEF Types, Later
  <2> QED BY <1>1, <2>1, <2>2 DEF Types, Silence
<1> QED BY <1>4, <1>5, <1>6, <1>7, <1>8

\* Reading a byte keeps the types and the shapes of the decoder's variables.
Decoded == /\ covered \in Seq(Byte) /\ data \in Seq(Byte \cup {Garbled})
           /\ accepted \in Seq(Handed) /\ Shape

LEMMA ResetDecoded == ASSUME Decoded, Reset PROVE Decoded'
<1>1. covered' = <<>> /\ data' = <<>> /\ state' = "START1" /\ accepted' = accepted
  BY DEF Reset
<1>2. covered' \in Seq(Byte) /\ data' \in Seq(Byte \cup {Garbled}) BY <1>1, EmptySeq
<1> QED BY <1>1, <1>2 DEF Decoded, Shape

\* One more byte is covered.
LEMMA AppendCovered ==
    ASSUME covered \in Seq(Byte), NEW b \in Byte, covered' = Append(covered, b)
    PROVE  /\ covered' \in Seq(Byte) /\ Len(covered') = Len(covered) + 1
           /\ \A i \in 1 .. Len(covered) : covered'[i] = covered[i]
           /\ covered'[Len(covered) + 1] = b
BY AppendProperties

LEMMA DataKept ==
    ASSUME Decoded, DataRead, NEW b \in Byte, covered' = Append(covered, b),
           Len(covered) >= 5 + Len(data), data' = data
    PROVE  DataRead'
<1>1. covered \in Seq(Byte) /\ data \in Seq(Byte) BY DEF Decoded, DataRead
<1>2. \A i \in 1 .. Len(covered) : covered'[i] = covered[i] BY <1>1, AppendCovered
<1>3. Len(data) \in Nat /\ Len(covered) \in Nat BY <1>1
<1>4. \A i \in 1 .. Len(data) : 5 + i \in 1 .. Len(covered) BY <1>3
<1> QED BY <1>2, <1>4 DEF DataRead

LEMMA Start1Decoded == ASSUME Decoded, NEW b \in Byte, Start1(b) PROVE Decoded'
<1>1. PICK yes \in Is(b, Starting) :
         IF yes THEN /\ state' = "START2"
                     /\ covered' = <<>> /\ data' = <<>>
         ELSE UNCHANGED decoder
  BY DEF Start1, Go
<1>2. accepted' = accepted /\ state = "START1" BY DEF Start1
<1>3. CASE yes
  <2>1. covered' \in Seq(Byte) /\ data' \in Seq(Byte \cup {Garbled})
    BY <1>1, <1>3, EmptySeq
  <2> QED BY <1>1, <1>2, <1>3, <2>1 DEF Decoded, Shape
<1>4. CASE ~yes
  BY <1>1, <1>2, <1>4 DEF Decoded, Shape, decoder
<1> QED BY <1>3, <1>4

LEMMA Start2Decoded == ASSUME Decoded, NEW b \in Byte, Start2(b) PROVE Decoded'
<1>1. CASE Reset BY <1>1, ResetDecoded
<1>2. CASE state' = "TYPEMETHOD" /\ UNCHANGED <<covered, data, accepted>> /\ state = "START2"
  BY <1>2 DEF Decoded, Shape
<1> QED BY <1>1, <1>2 DEF Start2, Go

LEMMA HeaderDecoded == ASSUME Decoded, NEW b \in Byte, Header(b) PROVE Decoded'
<1> DEFINE next == [TYPEMETHOD |-> "ID", ID |-> "ID_HIGH", ID_HIGH |-> "SEQ", SEQ |-> "LEN"]
<1>1. CASE Reset BY <1>1, ResetDecoded
<1>2. CASE ~Reset
  <2>1. state \in {"TYPEMETHOD", "ID", "ID_HIGH", "SEQ"} BY DEF Header
  <2>2. state' = next[state] /\ covered' = Append(covered, b)
        /\ UNCHANGED <<data, accepted>>
    BY <1>2 DEF Header, Go
  <2>3. covered' \in Seq(Byte) /\ Len(covered') = Len(covered) + 1
    BY <2>2, AppendCovered DEF Decoded
  <2>4. state = "TYPEMETHOD" => state' = "ID" /\ Len(covered) = 0 /\ data = <<>>
    BY <2>2, EmptySeq DEF Decoded, Shape
  <2>5. state = "ID" => state' = "ID_HIGH" /\ Len(covered) = 1 /\ data = <<>>
    BY <2>2 DEF Decoded, Shape
  <2>6. state = "ID_HIGH" => state' = "SEQ" /\ Len(covered) = 2 /\ data = <<>>
    BY <2>2 DEF Decoded, Shape
  <2>7. state = "SEQ" => state' = "LEN" /\ Len(covered) = 3 /\ data = <<>>
    BY <2>2 DEF Decoded, Shape
  <2>8. Shape' BY <2>1, <2>2, <2>3, <2>4, <2>5, <2>6, <2>7 DEF Shape
  <2> QED BY <2>2, <2>3, <2>8 DEF Decoded
<1> QED BY <1>1, <1>2

LEMMA LengthDecoded == ASSUME Decoded, NEW b \in Byte, Length(b) PROVE Decoded'
<1>1. PICK n \in Values(b) :
         /\ covered' = Append(covered, Number(n))
         /\ state' = IF n > 0 THEN "DATA" ELSE "ECC0"
  BY DEF Length, Go
<1>2. UNCHANGED <<data, accepted>> /\ Len(covered) = 4 /\ data = <<>>
  BY DEF Length, Decoded, Shape
<1>3. n \in Nat BY ByteKinds
<1>4. Number(n) \in Byte BY <1>3 DEF Byte, PlainByte, NumberByte
<1>5. covered' \in Seq(Byte) /\ Len(covered') = 5
  BY <1>1, <1>2, <1>4, AppendCovered DEF Decoded
<1>6. DataRead' BY <1>2, EmptySeq DEF DataRead
<1>7. Len(data') = 0 /\ state' \in {"DATA", "ECC0"} BY <1>1, <1>2
<1>8. Shape' BY <1>5, <1>6, <1>7 DEF Shape
<1> QED BY <1>2, <1>5, <1>8 DEF Decoded

LEMMA DataDecoded == ASSUME Decoded, NEW b \in Byte, Data(b) PROVE Decoded'
<1>1. data' = Append(data, b) /\ covered' = Append(covered, b) /\ accepted' = accepted
      /\ state' \in {"DATA", "ECC0"} /\ state = "DATA"
  BY DEF Data, Go
<1>2. Len(covered) = 5 + Len(data) /\ data \in Seq(Byte)
      /\ \A i \in 1 .. Len(data) : covered[5 + i] = data[i]
  BY <1>1 DEF Decoded, Shape, DataRead
<1>3. covered \in Seq(Byte) BY DEF Decoded
<1>4. covered' \in Seq(Byte) /\ Len(covered') = Len(covered) + 1
      /\ (\A i \in 1 .. Len(covered) : covered'[i] = covered[i])
      /\ covered'[Len(covered) + 1] = b
  BY <1>1, <1>3, AppendCovered
<1>5. data' \in Seq(Byte) /\ Len(data') = Len(data) + 1
      /\ (\A i \in 1 .. Len(data) : data'[i] = data[i]) /\ data'[Len(data) + 1] = b
  BY <1>1, <1>2, AppendProperties
<1>6. Len(data) \in Nat BY <1>2
<1>7. \A i \in 1 .. Len(data') : covered'[5 + i] = data'[i]
  <2> SUFFICES ASSUME NEW i \in 1 .. Len(data') PROVE covered'[5 + i] = data'[i] OBVIOUS
  <2>1. CASE i = Len(data) + 1
    <3>1. 5 + i = Len(covered) + 1 BY <1>2, <1>6, <2>1
    <3> QED BY <1>4, <1>5, <2>1, <3>1
  <2>2. CASE i # Len(data) + 1
    <3>1. i \in 1 .. Len(data) /\ 5 + i \in 1 .. Len(covered) BY <1>2, <1>5, <1>6, <2>2
    <3> QED BY <1>2, <1>4, <1>5, <3>1
  <2> QED BY <2>1, <2>2
<1>8. DataRead' BY <1>5, <1>7 DEF DataRead
<1>9. Len(covered') = 5 + Len(data') BY <1>2, <1>4, <1>5, <1>6
<1>10. Shape' BY <1>1, <1>8, <1>9 DEF Shape
<1>11. data' \in Seq(Byte \cup {Garbled}) BY <1>5
<1> QED BY <1>1, <1>4, <1>10, <1>11 DEF Decoded

LEMMA EccDecoded == ASSUME Decoded, NEW b \in Byte, Ecc(b) PROVE Decoded'
<1>1. covered' = Append(covered, b) /\ UNCHANGED <<data, accepted>>
      /\ ((state = "ECC0" /\ state' = "ECC1") \/ (state = "ECC1" /\ state' = "CRC1"))
  BY DEF Ecc, Go
<1>2. DataRead BY <1>1 DEF Decoded, Shape
<1>3. data \in Seq(Byte) /\ Len(data) \in Nat BY <1>2 DEF DataRead
<1>4. covered' \in Seq(Byte) /\ Len(covered') = Len(covered) + 1
  BY <1>1, AppendCovered DEF Decoded
<1>5. /\ state = "ECC0" => Len(covered) = 5 + Len(data)
      /\ state = "ECC1" => Len(covered) = 6 + Len(data)
  BY DEF Decoded, Shape
<1>6. DataRead' BY <1>1, <1>2, <1>3, <1>5, DataKept
<1>7. Len(data') = Len(data) BY <1>1
<1>8. /\ state = "ECC0" => Len(covered') = 6 + Len(data')
      /\ state = "ECC1" => Len(covered') = 7 + Len(data')
  BY <1>3, <1>4, <1>5, <1>7
<1>9. Shape' BY <1>1, <1>6, <1>8 DEF Shape
<1> QED BY <1>1, <1>4, <1>9 DEF Decoded

LEMMA Crc1Decoded == ASSUME Decoded, NEW b \in Byte, Crc1(b) PROVE Decoded'
<1>1. UNCHANGED <<covered, data, accepted>> /\ state = "CRC1" /\ state' = "CRC2"
      /\ crc_received' = <<b>>
  BY DEF Crc1, Go
<1> QED BY <1>1 DEF Decoded, Shape, DataRead

\* A correction is not what was read.
LEMMA CorrectionChanges ==
    ASSUME Decoded, state = "CRC2", NEW d \in Corrections
    PROVE  /\ d \in Seq(Byte \cup {Garbled})
           /\ SubSeq(covered, 6, 5 + Len(d)) # d
<1> DEFINE ecc == SubSeq(covered, Len(covered) - 1, Len(covered))
           e == ecc[1][2]
           Wrong == {i \in DOMAIN data : data[i] # e[i]}
<1>1. covered \in Seq(Byte) /\ Len(covered) = 7 + Len(data) /\ DataRead
  BY DEF Decoded, Shape
<1>2. data \in Seq(Byte) /\ (\A i \in 1 .. Len(data) : covered[5 + i] = data[i])
      /\ Len(data) \in Nat
  BY <1>1 DEF DataRead
<1>3. DOMAIN data = 1 .. Len(data) BY <1>2
<1>4. ASSUME NEW x, Len(x) = Len(data), NEW i \in 1 .. Len(data), data[i] # x[i]
      PROVE  SubSeq(covered, 6, 5 + Len(x)) # x
  <2> DEFINE part == SubSeq(covered, 6, 5 + Len(data))
  <2>1. 6 \in 1 .. Len(covered) + 1 /\ 5 + Len(data) \in 5 .. Len(covered) BY <1>1, <1>2
  <2>2. part[i] = covered[5 + i]
    BY <1>1, <1>2, <2>1, SubSeqProperties
  <2>3. part[i] # x[i] BY <1>2, <1>4, <2>2
  <2> QED BY <1>4, <2>3
<1>5. \/ /\ ecc[1][1] = "ecc0" /\ Len(e) = Len(data) /\ Wrong # {} /\ d = e
      \/ \E i \in DOMAIN data : d = [data EXCEPT ![i] = Garbled]
  BY DEF Corrections
<1>6. CASE ecc[1][1] = "ecc0" /\ Len(e) = Len(data) /\ Wrong # {} /\ d = e
  <2>1. ecc[1] = covered[Len(covered) - 1] BY <1>1, <1>2, SubSeqProperties
  <2>2. ecc[1] \in Byte BY <1>1, <1>2, <2>1, ElementOfSeq
  <2>3. e \in Seq(NumberByte) BY <1>6, <2>2, ByteKinds
  <2>4. PICK i \in 1 .. Len(data) : data[i] # e[i] BY <1>3, <1>6
  <2> HIDE DEF e
  <2>5. e \in Seq(Byte \cup {Garbled}) BY <2>3 DEF Byte, PlainByte
  <2> QED BY <1>4, <1>6, <2>4, <2>5
<1>7. CASE \E i \in DOMAIN data : d = [data EXCEPT ![i] = Garbled]
  <2>1. PICK i \in 1 .. Len(data) : d = [data EXCEPT ![i] = Garbled] BY <1>3, <1>7
  <2>2. data \in Seq(Byte \cup {Garbled}) BY <1>2
  <2>3. d \in Seq(Byte \cup {Garbled}) /\ Len(d) = Len(data) /\ d[i] = Garbled
    BY <2>1, <2>2, ExceptSeq
  <2>4. data[i] \in Byte BY <1>2, ElementOfSeq
  <2>5. data[i] # d[i] BY <2>3, <2>4, ByteKinds
  <2> QED BY <1>4, <2>3, <2>5
<1> QED BY <1>5, <1>6, <1>7

LEMMA Crc2Decoded == ASSUME Decoded, NEW b \in Byte, Crc2(b) PROVE Decoded'
<1>1. state = "CRC2" /\ Len(covered) = 7 + Len(data) /\ data \in Seq(Byte)
  BY DEF Crc2, Decoded, Shape, DataRead
<1>2. Len(covered) >= 7 BY <1>1
<1>3. CASE Reset BY <1>3, ResetDecoded
<1>4. CASE state' = "STOP1" /\ UNCHANGED <<covered, data, accepted>>
  BY <1>2, <1>4 DEF Decoded, Shape
<1>5. ASSUME NEW d \in Corrections, state' = "STOP1", data' = d,
             UNCHANGED <<covered, accepted>>
      PROVE  Decoded'
  <2>1. d \in Seq(Byte \cup {Garbled}) BY <1>1, CorrectionChanges
  <2> QED BY <1>2, <1>5, <2>1 DEF Decoded, Shape
<1>6. PICK yes \in CrcMatches(Append(crc_received, b)) :
         IF yes THEN state' = "STOP1" /\ UNCHANGED <<covered, data, accepted>>
         ELSE \/ Reset
              \/ \E d \in Corrections : /\ state' = "STOP1" /\ data' = d
                                       /\ UNCHANGED <<covered, accepted>>
  BY DEF Crc2, Go
<1> QED BY <1>3, <1>4, <1>5, <1>6

LEMMA Stop1Decoded == ASSUME Decoded, NEW b \in Byte, Stop1(b) PROVE Decoded'
<1>1. CASE Reset BY <1>1, ResetDecoded
<1>2. CASE state = "STOP1" /\ state' = "STOP2" /\ UNCHANGED <<covered, data, accepted>>
  BY <1>2 DEF Decoded, Shape
<1> QED BY <1>1, <1>2 DEF Stop1, Go

LEMMA GotIsHanded == ASSUME Decoded, state = "STOP2" PROVE Got \in Handed
<1>1. covered \in Seq(Byte) /\ Len(covered) >= 7 BY DEF Decoded, Shape
<1>2. covered[2] \in Byte /\ covered[3] \in Byte /\ covered[4] \in Byte
  BY <1>1, ElementOfSeq
<1>3. data \in Seq(Byte \cup {Garbled}) BY DEF Decoded
<1>4. Computed(crc_received) \in BOOLEAN BY DEF Computed
<1> DEFINE changed == SubSeq(covered, 6, 5 + Len(data)) # data
<1>5. changed \in BOOLEAN OBVIOUS
<1>6. Got = [id |-> covered[2], id_high |-> covered[3], seq |-> covered[4], data |-> data,
             repaired |-> changed, checked |-> Computed(crc_received)]
  BY DEF Got
<1> HIDE DEF changed
<1> QED BY <1>2, <1>3, <1>4, <1>5, <1>6, Zenon DEF Handed

LEMMA Stop2Decoded == ASSUME Decoded, NEW b \in Byte, Stop2(b) PROVE Decoded'
<1>1. CASE Reset BY <1>1, ResetDecoded
<1>2. CASE state' = "START1" /\ accepted' = Append(accepted, Got)
           /\ UNCHANGED <<covered, data>> /\ state = "STOP2"
  <2>1. accepted' \in Seq(Handed) BY <1>2, GotIsHanded, AppendProperties DEF Decoded
  <2> QED BY <1>2, <2>1 DEF Decoded, Shape
<1> QED BY <1>1, <1>2 DEF Stop2, Go

LEMMA ReadDecoded == ASSUME Decoded, NEW b \in Byte, Read(b) PROVE Decoded'
BY Start1Decoded, Start2Decoded, HeaderDecoded, LengthDecoded, DataDecoded, EccDecoded,
   Crc1Decoded, Crc2Decoded, Stop1Decoded, Stop2Decoded
   DEF Read

\* The oldest byte is taken off the line.
LEMMA TakenTypes ==
    ASSUME Types, line # <<>>
    PROVE  /\ Head(line) \in Byte /\ Tail(line) \in Seq(Byte)
           /\ Len(line) \in Nat /\ Len(line) > 0
           /\ Head(line) = line[1] /\ Len(Tail(line)) = Len(line) - 1
           /\ \A i \in 1 .. Len(Tail(line)) : Tail(line)[i] = line[i + 1]
<1>1. line \in Seq(Byte) BY DEF Types
<1> QED BY <1>1, EmptySeq, HeadTailProperties

LEMMA TypesStep == TypeInv /\ [Next]_vars => TypeInv'
<1> SUFFICES ASSUME TypeInv, [Next]_vars PROVE TypeInv' OBVIOUS
<1> USE DEF TypeInv
<1>0. Decoded BY DEF Decoded, Types
<1>1. CASE SendByte \/ Lose \/ (\E v \in Noise : Change(v) \/ Insert(v)) \/ Tick
  BY <1>1, TypesBeforeDecoder
<1>2. CASE PollByte
  <2>1. line # <<>> /\ Read(Head(line)) /\ line' = Tail(line) /\ age' = 0
        /\ UNCHANGED <<sending, byte_no, quiet>>
    BY <1>2 DEF PollByte, AgeOfByte, sender
  <2>2. Head(line) \in Byte /\ line' \in Seq(Byte) BY <2>1, TakenTypes
  <2>3. Decoded' BY <1>0, <2>1, <2>2, ReadDecoded
  <2>4. Types' BY <2>1, <2>2, <2>3 DEF Types, Decoded
  <2>5. Silence' BY <2>1 DEF Silence, Types
  <2> QED BY <2>3, <2>4, <2>5 DEF Decoded
<1>3. CASE PollTimeout
  <2>1. Reset /\ age' = 0 /\ UNCHANGED <<sending, byte_no, line, quiet>>
    BY <1>3 DEF PollTimeout, sender
  <2>2. Decoded' BY <1>0, <2>1, ResetDecoded
  <2>3. Types' BY <2>1, <2>2 DEF Types, Decoded
  <2>4. Silence' BY <2>1 DEF Silence, Types
  <2> QED BY <2>2, <2>3, <2>4 DEF Decoded
<1>4. CASE UNCHANGED vars
  <2>1. UNCHANGED <<sending, byte_no, line, state, covered, data, crc_received, age, accepted,
                    quiet>>
    BY <1>4 DEF vars, sender, decoder
  <2>2. Types' BY <2>1, Zenon DEF Types
  <2>3. Shape' BY <2>1, Zenon DEF Shape, DataRead
  <2>4. Silence' BY <2>1 DEF Silence
  <2> QED BY <2>2, <2>3, <2>4
<1> QED BY <1>1, <1>2, <1>3, <1>4 DEF Next

LEMMA TypesAlways == Spec => []TypeInv
BY InitTypes, TypesStep, PTL DEF Spec

\* A frame is given up for a timeout only after that much silence:
\* TimeoutIsSilence holds of every behaviour, however irregularly the task polls.
THEOREM TimeoutMeansSilence == Spec => TimeoutIsSilence
<1>1. ASSUME TypeInv PROVE SilentReset
  <2> SUFFICES ASSUME PollTimeout PROVE quiet > Timeout BY DEF SilentReset
  <2>1. line = <<>> /\ age > Timeout BY DEF PollTimeout
  <2>2. age <= quiet /\ age \in Nat /\ quiet \in Nat /\ Timeout \in Nat
    BY <1>1, <2>1, DecoderAssumption DEF TypeInv, Types, Silence
  <2> QED BY <2>1, <2>2
<1>2. TypeInv => [SilentReset]_vars BY <1>1
<1> QED BY <1>2, TypesAlways, PTL DEF TimeoutIsSilence, Spec

-----------------------------------------------------------------------------
(* Frames that are accepted as checked, unrepaired                         *)

Stopping == {"STOP1", "STOP2"}

\* The data is what was read.
Unaltered == SubSeq(covered, 6, 5 + Len(data)) = data

\* And the CRC bytes are a sender's.
Vouched == Unaltered /\ Computed(crc_received)

\* Frame f has been handed on; is whole in the decoder and waits for its stop
\* bytes; has its stamp on the line; has its stamp behind the sender.
Accepted(f) == \E i \in Checked : Carries(accepted[i], Frames[f])
Held(f) ==
    /\ state \in Stopping /\ Vouched
    /\ covered = Covered(Frames[f]) /\ data = Numbers(Frames[f].data)
OnLine(f) == \E i \in DOMAIN line : line[i] = Stamp(f)
Passed(f) == f < sending \/ (f = sending /\ byte_no >= StampAt(f))

\* Frames go from the sender over the line and the decoder to the task, and
\* none overtakes another.
LineQueue ==
    /\ \A f \in FrameNo : OnLine(f) => Passed(f)
    /\ \A i, j \in DOMAIN line : \A f, g \in FrameNo :
          i < j /\ line[i] = Stamp(f) /\ line[j] = Stamp(g) => f < g
HeldFirst ==
    \A f \in FrameNo : Held(f) => Passed(f) /\ \A g \in FrameNo : OnLine(g) => f < g
AcceptedFirst ==
    \A f \in FrameNo : Accepted(f) =>
        Passed(f) /\ \A g \in FrameNo : OnLine(g) \/ Held(g) => f < g

\* What the decoder holds checked and unrepaired is a frame, and so is what it accepts.
HeldIsFrame == state \in Stopping /\ Vouched => \E f \in FrameNo : Held(f)
AcceptedIsFrame ==
    \A i \in Checked : \E f \in FrameNo : Carries(accepted[i], Frames[f])
AcceptedInOrder ==
    \A i, j \in Checked : \A f, g \in FrameNo :
        i < j /\ Carries(accepted[i], Frames[f]) /\ Carries(accepted[j], Frames[g]) => f < g

Handing == AcceptedIsFrame /\ AcceptedInOrder
OrderInv == LineQueue /\ HeldFirst /\ AcceptedFirst /\ HeldIsFrame /\ Handing

LEMMA InitOrder == Init => OrderInv
<1> SUFFICES ASSUME Init PROVE OrderInv OBVIOUS
<1>1. line = <<>> /\ accepted = <<>> /\ state = "START1" BY DEF Init
<1>2. DOMAIN line = {} /\ Checked = {} BY <1>1 DEF Checked
<1> QED
  BY <1>1, <1>2 DEF OrderInv, LineQueue, HeldFirst, AcceptedFirst, HeldIsFrame, Handing,
     AcceptedIsFrame, AcceptedInOrder, Accepted, Held, OnLine, Stopping

\* A frame is not passed before the ones that precede it.
LEMMA PassedBefore ==
    ASSUME Types, NEW f \in FrameNo, NEW g \in FrameNo, Passed(g), ~Passed(f)
    PROVE  g < f
<1>1. f \in Nat /\ g \in Nat BY DecoderAssumption DEF FrameNo
<1>2. StampAt(f) \in Nat BY NumbersTypes DEF StampAt
<1> QED BY <1>1, <1>2 DEF Passed, Types

\* The steps of the sender and the line.
Sends(b) ==
    /\ line' = Append(line, b)
    /\ \A f \in FrameNo : b = Stamp(f) => Passed(f)' /\ ~Passed(f)

SenderStep ==
    /\ UNCHANGED <<decoder, accepted>>
    /\ \A f \in FrameNo : Passed(f) => Passed(f)'
    /\ line' = line \/ \E b \in Byte : Sends(b)

\* The sender goes forward, and passes the stamp of a frame once.
LEMMA SenderAdvances ==
    ASSUME Types, NextByte
    PROVE  /\ \A f \in FrameNo : Passed(f) => Passed(f)'
           /\ \A f \in FrameNo : This = Stamp(f) => Passed(f)' /\ ~Passed(f)
<1>1. sending' \in FrameNo /\ byte_no' \in 1 .. 13 + Len(Frames[sending'].data)
  BY NextByteTypes
<1>2. \A f \in FrameNo : f \in Nat BY DecoderAssumption DEF FrameNo
<1>3. \A f \in FrameNo : StampAt(f) \in Nat /\ StampAt(f) > 10 BY NumbersTypes DEF StampAt
<1>4. (sending' = sending /\ byte_no' = byte_no + 1) \/ (sending' = sending + 1 /\ byte_no' = 1)
  BY DEF NextByte
<1>5. \A f \in FrameNo : Passed(f) => Passed(f)'
  BY <1>2, <1>3, <1>4 DEF Passed, Types
<1>6. ASSUME NEW f \in FrameNo, This = Stamp(f) PROVE Passed(f)' /\ ~Passed(f)
  <2>1. Stamp(f)[1] = "crc2" BY DEF Stamp
  <2>2. byte_no' = StampAt(sending') /\ This = Stamp(sending')
    BY <1>1, <1>6, <2>1, WireBytes DEF This
  <2>3. Covered(Frames[f]) = Covered(Frames[sending']) BY <1>6, <2>2 DEF Stamp
  <2>4. f = sending' BY <1>1, <2>3, StampIsFrame
  <2>5. sending' = sending /\ byte_no' = byte_no + 1 BY <1>1, <1>3, <1>4, <2>2
  <2> QED BY <1>2, <1>3, <2>2, <2>4, <2>5 DEF Passed, Types
<1> QED BY <1>5, <1>6

LEMMA NumberIsNoStamp == ASSUME NEW v, NEW f PROVE Number(v) # Stamp(f)
<1>1. Number(v)[1] = "number" /\ Stamp(f)[1] = "crc2" BY DEF Number, Stamp
<1> QED BY <1>1

LEMMA SenderSteps ==
    ASSUME TypeInv,
           SendByte \/ Lose \/ (\E v \in Noise : Change(v) \/ Insert(v)) \/ Tick
    PROVE  SenderStep
<1>1. UNCHANGED <<decoder, accepted>> /\ Types BY TypesBeforeDecoder DEF TypeInv
<1>2. CASE SendByte
  <2>1. NextByte /\ Put(This) BY <1>2 DEF SendByte
  <2>2. This \in Byte /\ line' = Append(line, This)
    BY <1>1, <2>1, NextByteTypes DEF Put
  <2>3. Sends(This) BY <1>1, <2>1, <2>2, SenderAdvances DEF Sends
  <2> QED BY <1>1, <2>1, <2>2, <2>3, SenderAdvances DEF SenderStep
<1>3. CASE Lose
  <2>1. NextByte /\ line' = line BY <1>3 DEF Lose
  <2> QED BY <1>1, <2>1, SenderAdvances DEF SenderStep
<1>4. ASSUME NEW v \in Noise, Change(v) PROVE SenderStep
  <2>1. NextByte /\ line' = Append(line, Number(v)) BY <1>4 DEF Change, Put
  <2>2. Number(v) \in Byte BY NoiseIsByte
  <2>3. Sends(Number(v)) BY <2>1, NumberIsNoStamp DEF Sends
  <2> QED BY <1>1, <2>1, <2>2, <2>3, SenderAdvances DEF SenderStep
<1>5. ASSUME NEW v \in Noise, Insert(v) PROVE SenderStep
  <2>1. line' = Append(line, Number(v)) /\ UNCHANGED <<sending, byte_no>>
    BY <1>5 DEF Insert, Put, sender
  <2>2. Number(v) \in Byte BY NoiseIsByte
  <2>3. Sends(Number(v)) BY <2>1, NumberIsNoStamp DEF Sends
  <2>4. \A f \in FrameNo : Passed(f) => Passed(f)' BY <2>1 DEF Passed
  <2> QED BY <1>1, <2>2, <2>3, <2>4 DEF SenderStep
<1>6. CASE Tick
  <2>1. line' = line /\ UNCHANGED <<sending, byte_no>> BY <1>6 DEF Tick, sender
  <2>2. \A f \in FrameNo : Passed(f) => Passed(f)' BY <2>1 DEF Passed
  <2> QED BY <1>1, <2>1, <2>2 DEF SenderStep
<1> QED BY <1>2, <1>3, <1>4, <1>5, <1>6

\* The step of the sender keeps the order.
LEMMA SenderOrder == ASSUME Types, OrderInv, SenderStep PROVE OrderInv'
<1> USE DEF OrderInv
<1>1. UNCHANGED <<state, covered, data, crc_received, accepted>> BY DEF SenderStep, decoder
<1>2. Vouched' = Vouched /\ \A f \in FrameNo : Held(f)' = Held(f)
  BY <1>1 DEF Held, Vouched, Unaltered, Computed
<1>3. Checked' = Checked BY <1>1 DEF Checked
<1>4. \A f \in FrameNo : Accepted(f)' = Accepted(f) BY <1>1, <1>3 DEF Accepted
<1>5. Handing' BY <1>1, <1>3 DEF Handing, AcceptedIsFrame, AcceptedInOrder
<1>6. HeldIsFrame' BY <1>1, <1>2 DEF HeldIsFrame
<1>7. \A f \in FrameNo : Passed(f) => Passed(f)' BY DEF SenderStep
<1>8. CASE line' = line
  <2>1. \A f \in FrameNo : OnLine(f)' = OnLine(f) BY <1>8 DEF OnLine
  <2>2. LineQueue' BY <1>7, <1>8, <2>1 DEF LineQueue
  <2>3. HeldFirst' BY <1>2, <1>7, <2>1 DEF HeldFirst
  <2>4. AcceptedFirst' BY <1>2, <1>4, <1>7, <2>1 DEF AcceptedFirst
  <2> QED BY <1>5, <1>6, <2>2, <2>3, <2>4
<1>9. CASE \E b \in Byte : Sends(b)
  <2>1. PICK b \in Byte : Sends(b) BY <1>9
  <2>2. line \in Seq(Byte) /\ Len(line) \in Nat /\ DOMAIN line = 1 .. Len(line)
    BY LenProperties DEF Types
  <2>3. line' \in Seq(Byte) /\ Len(line') = Len(line) + 1
        /\ (\A i \in 1 .. Len(line) : line'[i] = line[i]) /\ line'[Len(line) + 1] = b
    BY <2>1, <2>2, AppendProperties DEF Sends
  <2>4. DOMAIN line' = 1 .. Len(line) + 1 BY <2>3, LenProperties
  <2>5. \A f \in FrameNo : OnLine(f)' => OnLine(f) \/ (b = Stamp(f) /\ Passed(f)' /\ ~Passed(f))
    <3> SUFFICES ASSUME NEW f \in FrameNo, OnLine(f)'
                 PROVE  OnLine(f) \/ (b = Stamp(f) /\ Passed(f)' /\ ~Passed(f))
      OBVIOUS
    <3>1. PICK i \in 1 .. Len(line) + 1 : line'[i] = Stamp(f) BY <2>4 DEF OnLine
    <3>2. CASE i = Len(line) + 1 BY <2>1, <2>3, <3>1, <3>2 DEF Sends
    <3>3. CASE i # Len(line) + 1
      <4>1. i \in DOMAIN line /\ line[i] = Stamp(f) BY <2>2, <2>3, <3>1, <3>3
      <4> QED BY <4>1 DEF OnLine
    <3> QED BY <3>2, <3>3
  <2>6. LineQueue'
    <3>1. \A f \in FrameNo : OnLine(f)' => Passed(f)' BY <1>7, <2>5 DEF LineQueue
    <3>2. ASSUME NEW i \in 1 .. Len(line) + 1, NEW j \in 1 .. Len(line) + 1,
                 NEW f \in FrameNo, NEW g \in FrameNo,
                 i < j, line'[i] = Stamp(f), line'[j] = Stamp(g)
          PROVE  f < g
      <4>1. i \in DOMAIN line /\ line[i] = Stamp(f) BY <2>2, <2>3, <3>2
      <4>2. CASE j \in DOMAIN line
        <5>1. line[j] = Stamp(g) BY <2>2, <2>3, <3>2, <4>2
        <5> QED BY <3>2, <4>1, <4>2, <5>1 DEF LineQueue
      <4>3. CASE j \notin DOMAIN line
        <5>1. b = Stamp(g) BY <2>2, <2>3, <3>2, <4>3
        <5>2. ~Passed(g) BY <2>1, <5>1 DEF Sends
        <5>3. Passed(f) BY <4>1 DEF LineQueue, OnLine
        <5> QED BY <5>2, <5>3, PassedBefore
      <4> QED BY <4>2, <4>3
    <3> QED BY <2>4, <3>1, <3>2 DEF LineQueue
  <2>7. HeldFirst' BY <1>2, <1>7, <2>5, PassedBefore DEF HeldFirst
  <2>8. AcceptedFirst' BY <1>2, <1>4, <1>7, <2>5, PassedBefore DEF AcceptedFirst
  <2> QED BY <1>5, <1>6, <2>6, <2>7, <2>8
<1> QED BY <1>8, <1>9 DEF SenderStep

\* The steps of the decoder, as far as its frames are concerned.
Forgets == accepted' = accepted /\ state' \notin Stopping
Completes(b) ==
    /\ state = "CRC2" /\ state' = "STOP1" /\ UNCHANGED <<covered, accepted>>
    /\ crc_received' = Append(crc_received, b)
    /\ (TRUE \in CrcMatches(crc_received') /\ data' = data) \/ \E d \in Corrections : data' = d
Keeps ==
    /\ state \in Stopping /\ state' \in Stopping
    /\ UNCHANGED <<covered, data, crc_received, accepted>>
Hands == state \in Stopping /\ state' = "START1" /\ accepted' = Append(accepted, Got)

ReadStep(b) == Forgets \/ Completes(b) \/ Keeps \/ Hands

LEMMA ReadSteps == ASSUME NEW b, Read(b) PROVE ReadStep(b)
<1> USE DEF Stopping, Go
<1>1. CASE Reset BY <1>1 DEF Reset, ReadStep, Forgets
<1>2. CASE ~Reset
  <2>1. CASE Start1(b) BY <2>1 DEF Start1, decoder, ReadStep, Forgets
  <2>2. CASE Start2(b) BY <1>2, <2>2 DEF Start2, ReadStep, Forgets
  <2>3. CASE Header(b) BY <1>2, <2>3 DEF Header, ReadStep, Forgets
  <2>4. CASE Length(b) BY <2>4 DEF Length, ReadStep, Forgets
  <2>5. CASE Data(b) BY <2>5 DEF Data, ReadStep, Forgets
  <2>6. CASE Ecc(b) BY <2>6 DEF Ecc, ReadStep, Forgets
  <2>7. CASE Crc1(b) BY <2>7 DEF Crc1, ReadStep, Forgets
  <2>8. CASE Crc2(b)
    <3>1. PICK yes \in CrcMatches(Append(crc_received, b)) :
             IF yes THEN /\ state' = "STOP1" /\ crc_received' = Append(crc_received, b)
                         /\ UNCHANGED <<covered, data, accepted>>
             ELSE \E d \in Corrections :
                     /\ state' = "STOP1" /\ data' = d /\ crc_received' = Append(crc_received, b)
                     /\ UNCHANGED <<covered, accepted>>
      BY <1>2, <2>8 DEF Crc2
    <3>2. yes => TRUE \in CrcMatches(Append(crc_received, b))
      <4>1. yes \in BOOLEAN BY <3>1 DEF CrcMatches
      <4> QED BY <3>1, <4>1
    <3>3. Completes(b) BY <2>8, <3>1, <3>2 DEF Crc2, Completes
    <3> QED BY <3>3 DEF ReadStep
  <2>9. CASE Stop1(b) BY <1>2, <2>9 DEF Stop1, ReadStep, Keeps
  <2>10. CASE Stop2(b) BY <1>2, <2>10 DEF Stop2, ReadStep, Hands
  <2> QED
    BY <2>1, <2>2, <2>3, <2>4, <2>5, <2>6, <2>7, <2>8, <2>9, <2>10 DEF Read
<1> QED BY <1>1, <1>2

\* No two frames are carried or held alike.
LEMMA CarriedIsFrame ==
    ASSUME NEW a, NEW f \in FrameNo, NEW g \in FrameNo,
           Carries(a, Frames[f]), Carries(a, Frames[g])
    PROVE  f = g
<1>1. /\ a.id = Number(Frames[f].id) /\ a.id_high = Number(Frames[f].id_high)
      /\ a.seq = Number(Frames[f].seq) /\ a.data = Numbers(Frames[f].data)
  BY DEF Carries, Sent
<1>2. /\ a.id = Number(Frames[g].id) /\ a.id_high = Number(Frames[g].id_high)
      /\ a.seq = Number(Frames[g].seq) /\ a.data = Numbers(Frames[g].data)
  BY DEF Carries, Sent
<1>3. Carries([id |-> Number(Frames[f].id), id_high |-> Number(Frames[f].id_high),
               seq |-> Number(Frames[f].seq), data |-> Numbers(Frames[f].data)], Frames[g])
  BY <1>1, <1>2 DEF Carries, Sent
<1> QED BY <1>3, CoveredIsFrame

LEMMA HeldIsOne ==
    ASSUME NEW f \in FrameNo, NEW g \in FrameNo, Held(f), Held(g)
    PROVE  f = g
BY StampIsFrame DEF Held

\* What is handed on is the frame that is held.
LEMMA GotCarries ==
    ASSUME NEW f \in FrameNo, Held(f)
    PROVE  Carries(Got, Frames[f])
<1>1. /\ covered[2] = Number(Frames[f].id) /\ covered[3] = Number(Frames[f].id_high)
      /\ covered[4] = Number(Frames[f].seq) /\ data = Numbers(Frames[f].data)
  BY CoveredParts DEF Held
<1>2. /\ Got.id = covered[2] /\ Got.id_high = covered[3] /\ Got.seq = covered[4]
      /\ Got.data = data
  BY DEF Got
<1> QED BY <1>1, <1>2 DEF Carries, Sent

\* The second CRC byte joins the first.
LEMMA AppendToOne ==
    ASSUME NEW x, NEW y
    PROVE  Append(<<x>>, y)[1] = x /\ Append(<<x>>, y)[2] = y
<1> DEFINE T == {x, y}
           s == <<x>>
<1>1. s \in Seq(T) /\ Len(s) = 1 /\ s[1] = x /\ y \in T OBVIOUS
<1> HIDE DEF T, s
<1>2. /\ \A i \in 1 .. Len(s) : Append(s, y)[i] = s[i]
      /\ Append(s, y)[Len(s) + 1] = y
  BY <1>1, AppendProperties
<1>3. Append(s, y)[1] = s[1] BY <1>1, <1>2
<1>4. Append(s, y)[2] = y BY <1>1, <1>2
<1>5. Append(s, y)[1] = x /\ Append(s, y)[2] = y BY <1>1, <1>3, <1>4
<1> QED BY <1>5 DEF s

\* A frame whose CRC matches is the one that was stamped.
LEMMA MatchIsFrame ==
    ASSUME Decoded, state = "CRC2", NEW b \in Byte, NEW crc, crc = Append(crc_received, b),
           TRUE \in CrcMatches(crc), Computed(crc)
    PROVE  \E f \in FrameNo : /\ b = Stamp(f) /\ Unaltered /\ covered = Covered(Frames[f])
                              /\ data = Numbers(Frames[f].data)
<1>0. PICK first \in Byte : crc_received = <<first>> BY DEF Decoded, Shape
<1>1. b = <<"crc2", covered>>
  <2>1. crc = Append(<<first>>, b) BY <1>0
  <2>2. crc[2] = b BY <2>1, AppendToOne
  <2>3. crc[2] = <<"crc2", covered>> BY DEF CrcMatches
  <2> QED BY <2>2, <2>3
<1>2. b[1] = "crc2" BY <1>1
<1>3. PICK f \in FrameNo : b = Stamp(f) BY <1>2, ByteKinds
<1>4. covered = Covered(Frames[f]) BY <1>1, <1>3 DEF Stamp
<1> DEFINE d == Numbers(Frames[f].data)
<1>5. d \in Seq(NumberByte) /\ Len(covered) = 7 + Len(d)
      /\ (\A i \in 1 .. Len(d) : covered[5 + i] = d[i])
  BY <1>4, NumbersTypes, CoveredParts
<1>6. Len(covered) = 7 + Len(data) /\ data \in Seq(Byte)
      /\ (\A i \in 1 .. Len(data) : covered[5 + i] = data[i])
  BY DEF Decoded, Shape, DataRead
<1> HIDE DEF d
<1>7. d \in Seq(Byte) BY <1>5 DEF Byte, PlainByte
<1>8. Len(d) = Len(data) BY <1>5, <1>6
<1>9. data = d BY <1>5, <1>6, <1>7, <1>8, SeqEqual
<1>10. Unaltered
  <2> DEFINE n == 5 + Len(data)
             part == SubSeq(covered, 6, n)
  <2>1. covered \in Seq(Byte) /\ Len(data) \in Nat BY <1>6 DEF Decoded
  <2>2. n \in Int /\ 6 \in Int /\ \A i \in 6 .. n : covered[i] \in Byte
    BY <1>6, <2>1, ElementOfSeq
  <2> HIDE DEF n
  <2>3. /\ part \in Seq(Byte)
        /\ Len(part) = IF 6 <= n THEN n - 6 + 1 ELSE 0
        /\ \A i \in 1 .. n - 6 + 1 : part[i] = covered[6 + i - 1]
    BY <2>2, PartOf
  <2> HIDE DEF part
  <2>4. Len(part) = Len(data) BY <2>1, <2>3 DEF n
  <2>5. \A i \in 1 .. Len(data) : part[i] = covered[5 + i]
    <3> SUFFICES ASSUME NEW i \in 1 .. Len(data) PROVE part[i] = covered[5 + i] OBVIOUS
    <3>1. i \in 1 .. n - 6 + 1 /\ 6 + i - 1 = 5 + i BY <2>1 DEF n
    <3> QED BY <2>3, <3>1
  <2>6. \A i \in 1 .. Len(data) : part[i] = data[i] BY <1>6, <2>5
  <2>7. part = data BY <1>6, <2>3, <2>4, <2>6, SeqEqual
  <2> QED BY <2>7 DEF part, n, Unaltered
<1> QED BY <1>3, <1>4, <1>9, <1>10 DEF d

\* What is left of the line when its oldest byte is taken.
LEMMA TakenLine ==
    ASSUME Types, LineQueue, line # <<>>, line' = Tail(line), UNCHANGED <<sending, byte_no>>
    PROVE  /\ \A f \in FrameNo : OnLine(f)' => OnLine(f)
           /\ \A f, g \in FrameNo : Head(line) = Stamp(f) /\ OnLine(g)' => f < g
           /\ \A f \in FrameNo : Head(line) = Stamp(f) => OnLine(f)
           /\ \A f \in FrameNo : Passed(f)' = Passed(f)
           /\ LineQueue'
<1>1. line \in Seq(Byte) /\ line' \in Seq(Byte) /\ Len(line) \in Nat /\ Len(line) > 0
      /\ Head(line) = line[1] /\ Len(line') = Len(line) - 1
      /\ (\A i \in 1 .. Len(line') : line'[i] = line[i + 1])
  BY TakenTypes DEF Types
<1>2. DOMAIN line = 1 .. Len(line) /\ DOMAIN line' = 1 .. Len(line) - 1
  BY <1>1, LenProperties
<1>3. \A i \in DOMAIN line' : i + 1 \in DOMAIN line /\ 1 < i + 1 /\ line'[i] = line[i + 1]
  BY <1>1, <1>2
<1>4. 1 \in DOMAIN line BY <1>1, <1>2
<1>5. \A f \in FrameNo : OnLine(f)' => OnLine(f) BY <1>3 DEF OnLine
<1>6. \A f \in FrameNo : Head(line) = Stamp(f) => OnLine(f) BY <1>1, <1>4 DEF OnLine
<1>7. ASSUME NEW f \in FrameNo, NEW g \in FrameNo, Head(line) = Stamp(f), OnLine(g)'
      PROVE  f < g
  <2>1. PICK i \in DOMAIN line' : line'[i] = Stamp(g) BY <1>7 DEF OnLine
  <2>2. i + 1 \in DOMAIN line /\ 1 < i + 1 /\ line[i + 1] = Stamp(g) BY <1>3, <2>1
  <2> QED BY <1>1, <1>4, <1>7, <2>2 DEF LineQueue
<1>8. \A f \in FrameNo : Passed(f)' = Passed(f) BY DEF Passed
<1>9. \A i, j \in DOMAIN line' : \A f, g \in FrameNo :
         i < j /\ line'[i] = Stamp(f) /\ line'[j] = Stamp(g) => f < g
  <2>1. \A i, j \in DOMAIN line' : i < j => i + 1 < j + 1 BY <1>2
  <2> QED BY <1>3, <2>1 DEF LineQueue
<1>10. LineQueue' BY <1>5, <1>8, <1>9 DEF LineQueue
<1> QED BY <1>5, <1>6, <1>7, <1>8, <1>10

\* A step of the decoder keeps the order.
LEMMA ForgetsOrder ==
    ASSUME Types, OrderInv, line # <<>>, line' = Tail(line), UNCHANGED <<sending, byte_no>>,
           Forgets
    PROVE  OrderInv'
<1> USE DEF OrderInv
<1>1. Checked' = Checked /\ accepted' = accepted BY DEF Forgets, Checked
<1>2. \A f \in FrameNo : Accepted(f)' = Accepted(f) BY <1>1 DEF Accepted
<1>3. \A f \in FrameNo : ~Held(f)' BY DEF Forgets, Held
<1>4. HeldFirst' BY <1>3 DEF HeldFirst
<1>5. AcceptedFirst' BY <1>2, <1>3, TakenLine DEF AcceptedFirst
<1>6. HeldIsFrame' BY DEF HeldIsFrame, Forgets
<1>7. Handing' BY <1>1 DEF Handing, AcceptedIsFrame, AcceptedInOrder
<1> QED BY <1>4, <1>5, <1>6, <1>7, TakenLine

LEMMA KeepsOrder ==
    ASSUME Types, OrderInv, line # <<>>, line' = Tail(line), UNCHANGED <<sending, byte_no>>,
           Keeps
    PROVE  OrderInv'
<1> USE DEF OrderInv
<1>1. Checked' = Checked /\ accepted' = accepted BY DEF Keeps, Checked
<1>2. \A f \in FrameNo : Accepted(f)' = Accepted(f) BY <1>1 DEF Accepted
<1>3. Vouched' = Vouched /\ \A f \in FrameNo : Held(f)' = Held(f)
  BY DEF Keeps, Held, Vouched, Unaltered, Computed
<1>4. HeldFirst' BY <1>3, TakenLine DEF HeldFirst
<1>5. AcceptedFirst' BY <1>2, <1>3, TakenLine DEF AcceptedFirst
<1>6. HeldIsFrame' BY <1>3 DEF HeldIsFrame, Keeps
<1>7. Handing' BY <1>1 DEF Handing, AcceptedIsFrame, AcceptedInOrder
<1> QED BY <1>4, <1>5, <1>6, <1>7, TakenLine

LEMMA CompletesOrder ==
    ASSUME Types, Decoded, OrderInv, line # <<>>, line' = Tail(line),
           UNCHANGED <<sending, byte_no>>, Completes(Head(line))
    PROVE  OrderInv'
<1> USE DEF OrderInv
<1>1. Checked' = Checked /\ accepted' = accepted /\ covered' = covered
      /\ state = "CRC2" /\ state' \in Stopping
  BY DEF Completes, Checked, Stopping
<1>2. \A f \in FrameNo : Accepted(f)' = Accepted(f) BY <1>1 DEF Accepted
<1>3. Handing' BY <1>1 DEF Handing, AcceptedIsFrame, AcceptedInOrder
<1>4. Head(line) \in Byte BY TakenTypes
<1> DEFINE matches == TRUE \in CrcMatches(crc_received') /\ data' = data
<1>5. CASE matches /\ Computed(crc_received')
  <2>1. PICK f \in FrameNo : /\ Head(line) = Stamp(f) /\ Unaltered
                             /\ covered = Covered(Frames[f])
                             /\ data = Numbers(Frames[f].data)
    <3>1. PICK crc : crc = crc_received' OBVIOUS
    <3>2. crc = Append(crc_received, Head(line)) BY <3>1 DEF Completes
    <3>3. TRUE \in CrcMatches(crc) /\ Computed(crc) BY <1>5, <3>1
    <3> QED BY <1>1, <1>4, <3>2, <3>3, MatchIsFrame
  <2>2. Vouched' BY <1>1, <1>5, <2>1 DEF Unaltered, Vouched
  <2>3. Held(f)' BY <1>1, <1>5, <2>1, <2>2 DEF Held
  <2>4. \A g \in FrameNo : Held(g)' => g = f
    BY <1>1, <2>1, StampIsFrame DEF Held
  <2>5. OnLine(f) /\ Passed(f) /\ Passed(f)' BY <2>1, TakenLine DEF LineQueue
  <2>6. \A g \in FrameNo : OnLine(g)' => f < g BY <2>1, TakenLine
  <2>7. HeldFirst' BY <2>4, <2>5, <2>6 DEF HeldFirst
  <2>8. \A e \in FrameNo : Accepted(e) => e < f BY <2>5 DEF AcceptedFirst
  <2>9. AcceptedFirst' BY <1>2, <2>4, <2>8, TakenLine DEF AcceptedFirst
  <2>10. HeldIsFrame' BY <2>3 DEF HeldIsFrame
  <2> QED BY <1>3, <2>7, <2>9, <2>10, TakenLine
<1>6. CASE (\E d \in Corrections : data' = d) \/ ~Computed(crc_received')
  <2>1. ~Vouched'
    <3>1. CASE \E d \in Corrections : data' = d
      <4>1. ~Unaltered' BY <1>1, <3>1, CorrectionChanges DEF Unaltered
      <4> QED BY <4>1 DEF Vouched
    <3>2. CASE ~Computed(crc_received') BY <3>2 DEF Vouched, Computed
    <3> QED BY <1>6, <3>1, <3>2
  <2>2. \A g \in FrameNo : ~Held(g)' BY <2>1 DEF Held
  <2>3. HeldFirst' BY <2>2 DEF HeldFirst
  <2>4. AcceptedFirst' BY <1>2, <2>2, TakenLine DEF AcceptedFirst
  <2>5. HeldIsFrame' BY <2>1 DEF HeldIsFrame
  <2> QED BY <1>3, <2>3, <2>4, <2>5, TakenLine
<1> QED BY <1>5, <1>6 DEF Completes

LEMMA HandsOrder ==
    ASSUME Types, OrderInv, line # <<>>, line' = Tail(line), UNCHANGED <<sending, byte_no>>,
           Hands, accepted' \in Seq(Handed)
    PROVE  OrderInv'
<1> USE DEF OrderInv
<1> DEFINE last == Len(accepted) + 1
<1>1. accepted \in Seq(Handed) /\ Len(accepted) \in Nat /\ DOMAIN accepted = 1 .. Len(accepted)
  BY LenProperties DEF Types
<1>2. accepted' = Append(accepted, Got) /\ state \in Stopping /\ state' \notin Stopping
  BY DEF Hands, Stopping
<1>3. Len(accepted') = last /\ accepted'[last] = Got
      /\ (\A i \in 1 .. Len(accepted) : accepted'[i] = accepted[i])
  BY <1>1, <1>2
<1>4. DOMAIN accepted' = 1 .. last BY <1>3, LenProperties
<1>5. \A i \in 1 .. last : i = last \/ (i # last /\ i \in DOMAIN accepted /\ i < last)
  BY <1>1
<1>6. (Got.checked /\ ~Got.repaired) <=> Vouched BY DEF Got, Vouched, Unaltered
<1>7. \A f \in FrameNo : ~Held(f)' BY <1>2 DEF Held
<1>8. HeldFirst' BY <1>7 DEF HeldFirst
<1>9. HeldIsFrame' BY <1>2 DEF HeldIsFrame
<1>10. \A i \in Checked' : i = last \/ (i \in Checked /\ i < last)
  BY <1>1, <1>3, <1>4, <1>5 DEF Checked
<1>11. last \in Checked' <=> Vouched BY <1>1, <1>3, <1>4, <1>6 DEF Checked
<1>12. \A i \in Checked : accepted'[i] = accepted[i] BY <1>1, <1>3 DEF Checked
<1> HIDE DEF last
<1>13. CASE Vouched
  <2>1. PICK f \in FrameNo : Held(f) BY <1>2, <1>13 DEF HeldIsFrame
  <2>2. Carries(Got, Frames[f]) BY <2>1, GotCarries
  <2>3. \A g \in FrameNo : Carries(Got, Frames[g]) => g = f BY <2>2, CarriedIsFrame
  <2>4. \A g \in FrameNo : Accepted(g)' => Accepted(g) \/ g = f
    BY <1>3, <1>10, <1>12, <2>3 DEF Accepted
  <2>5. Passed(f) /\ \A g \in FrameNo : OnLine(g) => f < g BY <2>1 DEF HeldFirst
  <2>6. AcceptedFirst' BY <1>7, <2>4, <2>5, TakenLine DEF AcceptedFirst
  <2>7. AcceptedIsFrame'
    BY <1>3, <1>10, <1>12, <2>2 DEF AcceptedIsFrame, Handing
  <2>8. ASSUME NEW i \in Checked', NEW j \in Checked', NEW g \in FrameNo, NEW h \in FrameNo,
               i < j, Carries(accepted'[i], Frames[g]), Carries(accepted'[j], Frames[h])
        PROVE  g < h
    <3>1. i \in Checked
      <4>1. j = last \/ j < last BY <1>10
      <4>2. i \in Nat /\ j \in Nat /\ last \in Nat
        BY <1>1, <1>4 DEF Checked, last
      <4>3. i # last BY <2>8, <4>1, <4>2
      <4> QED BY <1>10, <4>3
    <3>2. Carries(accepted[i], Frames[g]) BY <1>12, <2>8, <3>1
    <3>3. CASE j \in Checked
      <4>1. Carries(accepted[j], Frames[h]) BY <1>12, <2>8, <3>3
      <4> QED BY <2>8, <3>1, <3>2, <3>3, <4>1 DEF Handing, AcceptedInOrder
    <3>4. CASE j = last
      <4>1. h = f BY <1>3, <2>3, <2>8, <3>4
      <4>2. Accepted(g) BY <3>1, <3>2 DEF Accepted
      <4> QED BY <2>1, <4>1, <4>2 DEF AcceptedFirst
    <3> QED BY <1>10, <3>3, <3>4
  <2>9. AcceptedInOrder' BY <2>8 DEF AcceptedInOrder
  <2> QED BY <1>8, <1>9, <2>6, <2>7, <2>9, TakenLine DEF Handing
<1>14. CASE ~Vouched
  <2>1. \A i \in Checked' : i \in Checked /\ accepted'[i] = accepted[i]
    BY <1>10, <1>11, <1>12, <1>14
  <2>2. \A g \in FrameNo : Accepted(g)' => Accepted(g) BY <2>1 DEF Accepted
  <2>3. AcceptedFirst' BY <1>7, <2>2, TakenLine DEF AcceptedFirst
  <2>4. Handing' BY <2>1 DEF Handing, AcceptedIsFrame, AcceptedInOrder
  <2> QED BY <1>8, <1>9, <2>3, <2>4, TakenLine
<1> QED BY <1>13, <1>14

LEMMA OrderStep == TypeInv /\ OrderInv /\ [Next]_vars => OrderInv'
<1> SUFFICES ASSUME TypeInv, OrderInv, [Next]_vars PROVE OrderInv' OBVIOUS
<1>1. Types /\ Decoded BY DEF TypeInv, Types, Decoded
<1>2. CASE SendByte \/ Lose \/ (\E v \in Noise : Change(v) \/ Insert(v)) \/ Tick
  BY <1>1, <1>2, SenderSteps, SenderOrder
<1>3. CASE PollByte
  <2>1. line # <<>> /\ Read(Head(line)) /\ line' = Tail(line)
        /\ UNCHANGED <<sending, byte_no>>
    BY <1>3 DEF PollByte, sender
  <2>2. Head(line) \in Byte BY <1>1, <2>1, TakenTypes
  <2>3. Decoded' BY <1>1, <2>1, <2>2, ReadDecoded
  <2>4. ReadStep(Head(line)) BY <2>1, ReadSteps
  <2> QED
    BY <1>1, <2>1, <2>3, <2>4, ForgetsOrder, KeepsOrder, CompletesOrder, HandsOrder
    DEF ReadStep, Decoded
<1>4. CASE PollTimeout \/ UNCHANGED vars
  <2>1. UNCHANGED <<sending, byte_no, line, accepted>>
    BY <1>4 DEF PollTimeout, Reset, sender, vars
  <2>2. state' \notin Stopping \/ UNCHANGED <<state, covered, data, crc_received>>
    BY <1>4 DEF PollTimeout, Reset, vars, decoder, Stopping
  <2>3. \A f \in FrameNo : Passed(f)' = Passed(f) /\ OnLine(f)' = OnLine(f)
    BY <2>1 DEF Passed, OnLine
  <2>4. Checked' = Checked BY <2>1 DEF Checked
  <2>5. \A f \in FrameNo : Accepted(f)' = Accepted(f) BY <2>1, <2>4 DEF Accepted
  <2>6. \A f \in FrameNo : Held(f)' => Held(f) BY <2>2 DEF Held, Vouched, Unaltered, Computed
  <2>7. LineQueue' BY <2>1, <2>3 DEF OrderInv, LineQueue
  <2>8. HeldFirst' /\ AcceptedFirst'
    BY <2>3, <2>5, <2>6 DEF OrderInv, HeldFirst, AcceptedFirst
  <2>9. HeldIsFrame'
    <3>1. CASE state' \notin Stopping BY <3>1 DEF HeldIsFrame
    <3>2. CASE UNCHANGED <<state, covered, data, crc_received>>
      <4>1. Vouched' = Vouched /\ \A f \in FrameNo : Held(f)' = Held(f)
        BY <3>2 DEF Held, Vouched, Unaltered, Computed
      <4> QED BY <3>2, <4>1 DEF OrderInv, HeldIsFrame
    <3> QED BY <2>2, <3>1, <3>2
  <2>10. Handing' BY <2>1, <2>4 DEF OrderInv, Handing, AcceptedIsFrame, AcceptedInOrder
  <2> QED BY <2>7, <2>8, <2>9, <2>10 DEF OrderInv
<1> QED BY <1>2, <1>3, <1>4 DEF Next

\* Every frame that is accepted without a repair and with CRC bytes that a sender
\* computed was sent, in order and once: CheckedIsSent holds of every behaviour,
\* whatever the line does.
THEOREM CheckedFramesWereSent == Spec => []CheckedIsSent
<1>1. OrderInv /\ TypeInv => CheckedIsSent
  <2> SUFFICES ASSUME OrderInv, TypeInv PROVE CheckedIsSent OBVIOUS
  <2>1. \A i \in Checked : \E f \in FrameNo : Carries(accepted[i], Frames[f])
    BY DEF OrderInv, Handing, AcceptedIsFrame
  <2>2. \A f \in FrameNo : Accepted(f) => f <= sending
    <3>1. \A f \in FrameNo : f \in Nat BY DecoderAssumption DEF FrameNo
    <3> QED BY <3>1 DEF OrderInv, AcceptedFirst, Passed, TypeInv, Types
  <2>3. \A i \in Checked :
           \E f \in DOMAIN Frames : f <= sending /\ Carries(accepted[i], Frames[f])
    BY <2>1, <2>2 DEF Accepted, FrameNo
  <2> QED BY <2>3 DEF CheckedIsSent, OrderInv, Handing, AcceptedInOrder, FrameNo
<1> QED BY <1>1, InitTypes, TypesStep, InitOrder, OrderStep, PTL DEF Spec

-----------------------------------------------------------------------------
(* What becomes of one frame                                               *)

N(f) == Len(Frames[f].data)
W(f) == Wire(Frames[f])
Sum(f) == Covered(Frames[f])
Sound(f) == Numbers(Frames[f].data)

\* The places in frame f where the one changed byte can be.
HitAt(f, h) ==
    CASE h = "none" -> {0}
      [] h = "data" -> 8 .. 7 + N(f)
      [] h = "other" -> (4 .. 6) \cup (8 + N(f) .. 13 + N(f))

\* Of m bytes of frame f, the first came as x and the one at j as v.
Hit(f, h, m, x, j, v) ==
    /\ h \in {"none", "data", "other"} /\ x \in Starting /\ j \in HitAt(f, h) /\ j <= m
    /\ j # 0 => v \in Noise /\ Number(v) # W(f)[j]

Came(f, x, j, v, k) ==
    IF k = 1 THEN Number(x) ELSE IF k = j THEN Number(v) ELSE W(f)[k]

\* Where the decoder is when it has read c bytes of the frame.
Place(f, c) ==
    LET n == N(f)
        first == <<"START1", "START2", "TYPEMETHOD", "ID", "ID_HIGH", "SEQ", "LEN">>
        last == <<"ECC0", "ECC1", "CRC1", "CRC2", "STOP1", "STOP2", "START1">>
    IN IF c < 7 THEN first[c + 1] ELSE IF c < 7 + n THEN "DATA" ELSE last[c - 6 - n]

\* The frame has been refused.
Refused(f, h, j, c) == h = "other" /\ j <= c /\ c >= 11 + N(f)

\* The decoder has covered what came.
CoveredLen(f, c) == IF c <= 2 THEN 0 ELSE IF c <= 9 + N(f) THEN c - 2 ELSE 7 + N(f)
ReadSoFar(f, x, j, v, c) ==
    /\ Len(covered) = CoveredLen(f, c)
    /\ \A k \in 1 .. Len(covered) : covered[k] = Came(f, x, j, v, k + 2)

Gives(a, f, h) == Carries(a, Frames[f]) /\ a.repaired = (h = "data")

DecoderAt(f, h, x, j, v, c) ==
    IF Refused(f, h, j, c) THEN state = "START1"
    ELSE /\ state = Place(f, c)
         /\ c \in 1 .. 10 + N(f) => ReadSoFar(f, x, j, v, c)
         /\ c = 10 + N(f) => crc_received = <<Came(f, x, j, v, c)>>
         /\ c \in 11 + N(f) .. 12 + N(f) => Gives(Got, f, h)

Outcome(f, h, c) ==
    IF h = "other" \/ c < 13 + N(f) THEN Len(accepted) = before
    ELSE Len(accepted) = before + 1 /\ Gives(accepted[Len(accepted)], f, h)

\* The bytes that wait come after the c that were read.
Waiting(f, x, j, v, c, m) ==
    /\ Len(line) = m - c /\ c \in 0 .. m
    /\ \A i \in 1 .. Len(line) : line[i] = Came(f, x, j, v, c + i)

\* The sender has sent m bytes of frame f, and the decoder has read c of them.
FrameAt(f, h, x, j, v, c, m) ==
    /\ sending = f /\ harm = h /\ byte_no = m
    /\ Hit(f, h, m, x, j, v)
    /\ quiet > Timeout => m = 13 + N(f)
    /\ Waiting(f, x, j, v, c, m)
    /\ DecoderAt(f, h, x, j, v, c)
    /\ Outcome(f, h, c)

Following ==
    harm # "much" =>
        \E f \in FrameNo : \E h \in {"none", "data", "other"}, m \in 1 .. 13 + N(f) :
            \E c \in 0 .. m, x \in Starting, j \in 0 .. m, v \in Noise \cup {0} :
                FrameAt(f, h, x, j, v, c, m)

LEMMA FrameLen == ASSUME NEW f \in FrameNo PROVE N(f) \in Nat
BY NumbersTypes DEF N

LEMMA Places ==
    ASSUME NEW f \in FrameNo
    PROVE  /\ Place(f, 0) = "START1" /\ Place(f, 1) = "START2" /\ Place(f, 2) = "TYPEMETHOD"
           /\ Place(f, 3) = "ID" /\ Place(f, 4) = "ID_HIGH" /\ Place(f, 5) = "SEQ"
           /\ Place(f, 6) = "LEN"
           /\ \A c \in 7 .. 6 + N(f) : Place(f, c) = "DATA"
           /\ Place(f, 7 + N(f)) = "ECC0" /\ Place(f, 8 + N(f)) = "ECC1"
           /\ Place(f, 9 + N(f)) = "CRC1" /\ Place(f, 10 + N(f)) = "CRC2"
           /\ Place(f, 11 + N(f)) = "STOP1" /\ Place(f, 12 + N(f)) = "STOP2"
           /\ Place(f, 13 + N(f)) = "START1"
<1>1. N(f) \in Nat BY FrameLen
<1>2. ASSUME NEW i \in 1 .. 7
      PROVE  Place(f, 6 + N(f) + i)
             = <<"ECC0", "ECC1", "CRC1", "CRC2", "STOP1", "STOP2", "START1">>[i]
  <2>1. ~(6 + N(f) + i < 7) /\ ~(6 + N(f) + i < 7 + N(f)) /\ (6 + N(f) + i) - 6 - N(f) = i
    BY <1>1
  <2> QED BY <2>1 DEF Place
<1>3. 7 + N(f) = 6 + N(f) + 1 /\ 8 + N(f) = 6 + N(f) + 2 /\ 9 + N(f) = 6 + N(f) + 3
      /\ 10 + N(f) = 6 + N(f) + 4 /\ 11 + N(f) = 6 + N(f) + 5 /\ 12 + N(f) = 6 + N(f) + 6
      /\ 13 + N(f) = 6 + N(f) + 7
  BY <1>1
<1>4. 1 \in 1 .. 7 /\ 2 \in 1 .. 7 /\ 3 \in 1 .. 7 /\ 4 \in 1 .. 7 /\ 5 \in 1 .. 7
      /\ 6 \in 1 .. 7 /\ 7 \in 1 .. 7
  OBVIOUS
<1>5. /\ Place(f, 7 + N(f)) = "ECC0" /\ Place(f, 8 + N(f)) = "ECC1"
      /\ Place(f, 9 + N(f)) = "CRC1" /\ Place(f, 10 + N(f)) = "CRC2"
      /\ Place(f, 11 + N(f)) = "STOP1" /\ Place(f, 12 + N(f)) = "STOP2"
      /\ Place(f, 13 + N(f)) = "START1"
  <2> HIDE DEF Place
  <2> QED BY <1>2, <1>3, <1>4
<1>6. /\ Place(f, 0) = "START1" /\ Place(f, 1) = "START2" /\ Place(f, 2) = "TYPEMETHOD"
      /\ Place(f, 3) = "ID" /\ Place(f, 4) = "ID_HIGH" /\ Place(f, 5) = "SEQ"
      /\ Place(f, 6) = "LEN"
  BY DEF Place
<1>7. \A c \in 7 .. 6 + N(f) : Place(f, c) = "DATA" BY <1>1 DEF Place
<1> QED BY <1>5, <1>6, <1>7

\* A number is compared as it is.
LEMMA IsNumber ==
    ASSUME NEW m, NEW S, NEW yes \in Is(Number(m), S)
    PROVE  yes \in BOOLEAN /\ (yes <=> m \in S)
<1>1. Values(Number(m)) = {m} BY DEF Values, Number
<1>2. yes \in BOOLEAN /\ IF yes THEN {m} \cap S # {} ELSE {m} \ S # {} BY <1>1 DEF Is
<1> QED BY <1>2

\* What is where in a frame.
LEMMA WireParts ==
    ASSUME NEW f \in FrameNo
    PROVE  /\ Len(W(f)) = 13 + N(f)
           /\ W(f)[1] = Number(START1) /\ W(f)[2] = Number(START2)
           /\ \A k \in 1 .. 7 + N(f) : W(f)[k + 2] = Sum(f)[k]
           /\ W(f)[10 + N(f)] = <<"crc1", Sum(f)>> /\ W(f)[11 + N(f)] = <<"crc2", Sum(f)>>
           /\ W(f)[12 + N(f)] = Number(STOP1) /\ W(f)[13 + N(f)] = Number(STOP2)
<1> DEFINE n == N(f)
           s == <<Number(START1), Number(START2)>>
           c == Sum(f)
           t == <<<<"crc1", c>>, <<"crc2", c>>, Number(STOP1), Number(STOP2)>>
           sc == s \o c
           w == sc \o t
<1>1. n \in Nat BY FrameLen
<1>2. c \in Seq(Byte) /\ Len(c) = 7 + n
  BY NumbersTypes, CoveredParts DEF N, Sum, Byte
<1>3. s \in Seq(Byte)
  BY DEF Byte, PlainByte, NumberByte, START1, START2
<1>4. t \in Seq(Byte)
  <2>1. Number(STOP1) \in Byte /\ Number(STOP2) \in Byte
    BY DEF Byte, PlainByte, NumberByte, STOP1, STOP2
  <2>2. <<"crc1", c>> \in Byte /\ <<"crc2", c>> \in Byte BY DEF Byte, CrcByte, Sum
  <2> HIDE DEF c
  <2> QED BY <2>1, <2>2
<1>5. W(f) = w BY DEF W, Wire, Sum
<1>6. Len(s) = 2 /\ Len(t) = 4 /\ s[1] = Number(START1) /\ s[2] = Number(START2)
      /\ t[1] = <<"crc1", c>> /\ t[2] = <<"crc2", c>>
      /\ t[3] = Number(STOP1) /\ t[4] = Number(STOP2)
  OBVIOUS
<1> HIDE DEF n, s, c, t
<1>7. sc \in Seq(Byte) /\ Len(sc) = Len(s) + Len(c)
      /\ (\A i \in 1 .. Len(s) : sc[i] = s[i]) /\ (\A i \in 1 .. Len(c) : sc[Len(s) + i] = c[i])
  <2>1. c \in Seq(Byte) BY <1>2
  <2> QED BY <1>3, <2>1, Joined
<1>8. Len(sc) = 9 + n BY <1>1, <1>2, <1>6, <1>7
<1> HIDE DEF sc
<1>9. Len(w) = Len(sc) + Len(t)
      /\ (\A i \in 1 .. Len(sc) : w[i] = sc[i]) /\ (\A i \in 1 .. Len(t) : w[Len(sc) + i] = t[i])
  <2>1. sc \in Seq(Byte) BY <1>7
  <2> QED BY <1>4, <2>1, Joined
<1> HIDE DEF w
<1>10. w[1] = s[1] /\ w[2] = s[2]
  <2>1. 1 \in 1 .. Len(s) /\ 2 \in 1 .. Len(s) /\ 1 \in 1 .. Len(sc) /\ 2 \in 1 .. Len(sc)
    BY <1>1, <1>6, <1>8
  <2> QED BY <1>7, <1>9, <2>1
<1>11. ASSUME NEW k \in 1 .. 7 + n PROVE w[k + 2] = c[k]
  <2>1. k \in 1 .. Len(c) /\ Len(s) + k = k + 2 /\ k + 2 \in 1 .. Len(sc)
    BY <1>1, <1>2, <1>6, <1>8
  <2>2. sc[k + 2] = c[k] BY <1>7, <2>1
  <2> QED BY <1>9, <2>1, <2>2
<1>12. w[10 + n] = t[1] /\ w[11 + n] = t[2] /\ w[12 + n] = t[3] /\ w[13 + n] = t[4]
  <2>1. 10 + n = Len(sc) + 1 /\ 11 + n = Len(sc) + 2 /\ 12 + n = Len(sc) + 3
        /\ 13 + n = Len(sc) + 4
    BY <1>1, <1>8
  <2>2. 1 \in 1 .. Len(t) /\ 2 \in 1 .. Len(t) /\ 3 \in 1 .. Len(t) /\ 4 \in 1 .. Len(t)
    BY <1>6
  <2> QED BY <1>9, <2>1, <2>2
<1>13. Len(w) = 13 + n BY <1>1, <1>6, <1>8, <1>9
<1> QED BY <1>5, <1>6, <1>10, <1>11, <1>12, <1>13 DEF n, c

LEMMA SumParts ==
    ASSUME NEW f \in FrameNo
    PROVE  /\ Sum(f) \in Seq(PlainByte) /\ Len(Sum(f)) = 7 + N(f)
           /\ Sum(f)[1] = Number(typemethod)
           /\ Sum(f)[2] = Number(Frames[f].id) /\ Sum(f)[3] = Number(Frames[f].id_high)
           /\ Sum(f)[4] = Number(Frames[f].seq) /\ Sum(f)[5] = Number(N(f))
           /\ \A i \in 1 .. N(f) : Sum(f)[5 + i] = Sound(f)[i]
           /\ Sum(f)[6 + N(f)] = <<"ecc0", Sound(f)>>
           /\ Sum(f)[7 + N(f)] = <<"ecc1", Sound(f)>>
           /\ Sound(f) \in Seq(NumberByte) /\ Len(Sound(f)) = N(f)
<1> DEFINE d == Sound(f)
           h == <<Number(typemethod), Number(Frames[f].id), Number(Frames[f].id_high),
                  Number(Frames[f].seq), Number(Len(d))>>
           e == <<<<"ecc0", d>>, <<"ecc1", d>>>>
           hd == h \o d
<1>1. d \in Seq(NumberByte) /\ Len(d) = N(f) /\ N(f) \in Nat BY NumbersTypes DEF N, Sound
<1>2. Sum(f) = hd \o e BY DEF Sum, Covered, Sound
<1>3. /\ Sum(f) \in Seq(PlainByte) /\ Len(Sum(f)) = 7 + N(f)
      /\ Sum(f)[2] = Number(Frames[f].id) /\ Sum(f)[3] = Number(Frames[f].id_high)
      /\ Sum(f)[4] = Number(Frames[f].seq)
      /\ \A i \in 1 .. N(f) : Sum(f)[5 + i] = d[i]
  BY <1>1, CoveredParts DEF Sum, Sound
<1>4. h \in Seq({h[1], h[2], h[3], h[4], h[5]}) /\ Len(h) = 5
      /\ h[1] = Number(typemethod) /\ h[5] = Number(Len(d))
  OBVIOUS
<1>5. e \in Seq({e[1], e[2]}) /\ Len(e) = 2 /\ e[1] = <<"ecc0", d>> /\ e[2] = <<"ecc1", d>>
  OBVIOUS
<1> HIDE DEF d, h, e
<1> DEFINE S == {h[1], h[2], h[3], h[4], h[5]} \cup NumberByte \cup {e[1], e[2]}
<1>6. h \in Seq(S) /\ d \in Seq(S) /\ e \in Seq(S) BY <1>1, <1>4, <1>5
<1> HIDE DEF S
<1>7. hd \in Seq(S) /\ Len(hd) = Len(h) + Len(d) /\ (\A i \in 1 .. Len(h) : hd[i] = h[i])
  BY <1>6, Joined
<1> HIDE DEF hd
<1>8. (\A i \in 1 .. Len(hd) : (hd \o e)[i] = hd[i])
      /\ (\A i \in 1 .. Len(e) : (hd \o e)[Len(hd) + i] = e[i])
  BY <1>6, <1>7, Joined
<1>9. 1 \in 1 .. Len(h) /\ 5 \in 1 .. Len(h) /\ 1 \in 1 .. Len(hd) /\ 5 \in 1 .. Len(hd)
      /\ 1 \in 1 .. Len(e) /\ 2 \in 1 .. Len(e)
      /\ 6 + N(f) = Len(hd) + 1 /\ 7 + N(f) = Len(hd) + 2
  BY <1>1, <1>4, <1>5, <1>7
<1>10. Sum(f)[1] = h[1] /\ Sum(f)[5] = h[5] BY <1>2, <1>7, <1>8, <1>9
<1>11. Sum(f)[6 + N(f)] = e[1] /\ Sum(f)[7 + N(f)] = e[2] BY <1>2, <1>8, <1>9
<1> QED BY <1>1, <1>3, <1>4, <1>5, <1>10, <1>11 DEF d

\* Where the changed byte is, and what it came as.
LEMMA HitPlace ==
    ASSUME NEW f \in FrameNo, NEW h, NEW m \in Nat, NEW x, NEW j, NEW v, Hit(f, h, m, x, j, v)
    PROVE  /\ j \in Nat /\ j <= m
           /\ h = "none" => j = 0
           /\ h = "data" => j \in 8 .. 7 + N(f)
           /\ h = "other" => j \in 4 .. 6 \/ j \in 8 + N(f) .. 13 + N(f)
           /\ h \in {"none", "data", "other"}
<1>1. N(f) \in Nat BY FrameLen
<1>2. h \in {"none", "data", "other"} /\ j \in HitAt(f, h) /\ j <= m BY DEF Hit
<1>3. h = "none" => j = 0 BY <1>2 DEF HitAt
<1>4. h = "data" => j \in 8 .. 7 + N(f) BY <1>2 DEF HitAt
<1>5. h = "other" => j \in 4 .. 6 \/ j \in 8 + N(f) .. 13 + N(f)
  <2>1. h = "other" => j \in (4 .. 6) \cup (8 + N(f) .. 13 + N(f)) BY <1>2 DEF HitAt
  <2> QED BY <2>1
<1>6. j \in Nat BY <1>1, <1>2, <1>3, <1>4, <1>5
<1> QED BY <1>2, <1>3, <1>4, <1>5, <1>6

LEMMA HitByte ==
    ASSUME NEW f \in FrameNo, NEW h, NEW m \in Nat, NEW x, NEW j, NEW v, Hit(f, h, m, x, j, v)
    PROVE  j # 0 => Came(f, x, j, v, j) = Number(v) /\ Number(v) # W(f)[j]
<1>1. N(f) \in Nat BY FrameLen
<1>2. j # 1 BY <1>1, HitPlace
<1>3. j # 0 => Number(v) # W(f)[j] BY DEF Hit
<1> QED BY <1>2, <1>3 DEF Came

\* What comes where.
LEMMA CameParts ==
    ASSUME NEW f \in FrameNo, NEW h, NEW m \in Nat, NEW x, NEW j, NEW v, Hit(f, h, m, x, j, v)
    PROVE  \A k \in 2 .. 13 + N(f) : k # j => Came(f, x, j, v, k) = W(f)[k]
<1>1. N(f) \in Nat BY FrameLen
<1> QED BY <1>1 DEF Came

\* The first bytes and the length come as they were sent.
LEMMA CameStart ==
    ASSUME NEW f \in FrameNo, NEW h, NEW m \in Nat, NEW x, NEW j, NEW v, Hit(f, h, m, x, j, v)
    PROVE  /\ x \in Starting /\ Came(f, x, j, v, 1) = Number(x)
           /\ Came(f, x, j, v, 2) = Number(START2)
           /\ Came(f, x, j, v, 3) = Number(typemethod)
           /\ Came(f, x, j, v, 7) = Number(N(f))
           /\ Came(f, x, j, v, 12 + N(f)) = Number(IF j = 12 + N(f) THEN v ELSE STOP1)
           /\ Came(f, x, j, v, 13 + N(f)) = Number(IF j = 13 + N(f) THEN v ELSE STOP2)
<1>1. N(f) \in Nat BY FrameLen
<1>2. j # 2 /\ j # 3 /\ j # 7
  <2>1. j = 0 \/ j \in 8 .. 7 + N(f) \/ j \in 4 .. 6 \/ j \in 8 + N(f) .. 13 + N(f)
    BY HitPlace
  <2> QED BY <1>1, <2>1
<1>3. 2 \in 2 .. 13 + N(f) /\ 3 \in 2 .. 13 + N(f) /\ 7 \in 2 .. 13 + N(f)
      /\ 12 + N(f) \in 2 .. 13 + N(f) /\ 13 + N(f) \in 2 .. 13 + N(f)
      /\ 12 + N(f) # 0 /\ 13 + N(f) # 0
  BY <1>1
<1>4. W(f)[3] = Sum(f)[1] /\ W(f)[7] = Sum(f)[5]
  <2>1. 1 \in 1 .. 7 + N(f) /\ 5 \in 1 .. 7 + N(f) /\ 3 = 1 + 2 /\ 7 = 5 + 2 BY <1>1
  <2> QED BY <2>1, WireParts
<1>5. x \in Starting BY DEF Hit
<1>6. Came(f, x, j, v, 1) = Number(x) BY DEF Came
<1>7. Came(f, x, j, v, 2) = W(f)[2] /\ Came(f, x, j, v, 3) = W(f)[3]
      /\ Came(f, x, j, v, 7) = W(f)[7]
  BY <1>2, <1>3, CameParts
<1>8. Came(f, x, j, v, 12 + N(f)) = IF j = 12 + N(f) THEN Number(v) ELSE W(f)[12 + N(f)]
  BY <1>3, CameParts, HitByte
<1>9. Came(f, x, j, v, 13 + N(f)) = IF j = 13 + N(f) THEN Number(v) ELSE W(f)[13 + N(f)]
  BY <1>3, CameParts, HitByte
<1> QED BY <1>4, <1>5, <1>6, <1>7, <1>8, <1>9, SumParts, WireParts

\* A byte more is covered.
LEMMA ReadMore ==
    ASSUME NEW f \in FrameNo, NEW x, NEW j, NEW v, NEW c \in 2 .. 8 + N(f), Decoded,
           ReadSoFar(f, x, j, v, c), NEW b \in Byte, b = Came(f, x, j, v, c + 1),
           covered' = Append(covered, b)
    PROVE  ReadSoFar(f, x, j, v, c + 1)'
<1>1. N(f) \in Nat BY FrameLen
<1>2. Len(covered) = c - 2 /\ CoveredLen(f, c + 1) = c - 1
      /\ \A k \in 1 .. Len(covered) : covered[k] = Came(f, x, j, v, k + 2)
  BY <1>1 DEF ReadSoFar, CoveredLen
<1>3. /\ Len(covered') = Len(covered) + 1
      /\ \A i \in 1 .. Len(covered) : covered'[i] = covered[i]
      /\ covered'[Len(covered) + 1] = b
  BY AppendCovered DEF Decoded
<1>4. \A k \in 1 .. Len(covered') :
         k \in 1 .. Len(covered) \/ (k = Len(covered) + 1 /\ k + 2 = c + 1)
  BY <1>1, <1>2, <1>3
<1>5. \A k \in 1 .. Len(covered') : covered'[k] = Came(f, x, j, v, k + 2)
  BY <1>2, <1>3, <1>4
<1>6. Len(covered') = CoveredLen(f, c + 1) BY <1>1, <1>2, <1>3
<1> QED BY <1>5, <1>6 DEF ReadSoFar

\* Early in a frame, the decoder is where it should be.
LEMMA EarlyStep ==
    ASSUME NEW f \in FrameNo, NEW h, NEW x, NEW j, NEW v, NEW c \in Nat, c < 9 + N(f),
           state' = Place(f, c + 1), ReadSoFar(f, x, j, v, c + 1)'
    PROVE  DecoderAt(f, h, x, j, v, c + 1)'
<1>1. N(f) \in Nat BY FrameLen
<1>2. ~Refused(f, h, j, c + 1) /\ c + 1 # 10 + N(f)
      /\ c + 1 \notin 11 + N(f) .. 12 + N(f)
  BY <1>1 DEF Refused
<1> QED BY <1>2 DEF DecoderAt

LEMMA EarlyPlace ==
    ASSUME NEW f \in FrameNo, NEW h, NEW x, NEW j, NEW v, NEW c \in Nat, c < 11 + N(f),
           DecoderAt(f, h, x, j, v, c)
    PROVE  /\ state = Place(f, c)
           /\ c # 0 => ReadSoFar(f, x, j, v, c)
           /\ c = 10 + N(f) => crc_received = <<Came(f, x, j, v, c)>>
<1>1. N(f) \in Nat BY FrameLen
<1>2. ~Refused(f, h, j, c) /\ (c # 0 => c \in 1 .. 10 + N(f)) BY <1>1 DEF Refused
<1> QED BY <1>2 DEF DecoderAt

\* The start, the header and the length are read.
LEMMA StartStep ==
    ASSUME NEW f \in FrameNo, NEW h, NEW m \in Nat, NEW x, NEW j, NEW v, Hit(f, h, m, x, j, v),
           NEW c \in 0 .. 1, DecoderAt(f, h, x, j, v, c), Decoded,
           Read(Came(f, x, j, v, c + 1))
    PROVE  DecoderAt(f, h, x, j, v, c + 1)' /\ accepted' = accepted
<1> DEFINE b == Came(f, x, j, v, c + 1)
<1>1. N(f) \in Nat BY FrameLen
<1>2. c \in Nat /\ c < 9 + N(f) /\ c < 11 + N(f) BY <1>1
<1>3. state = Place(f, c) /\ (c # 0 => ReadSoFar(f, x, j, v, c)) BY <1>2, EarlyPlace
<1>4. CASE c = 0
  <2>1. state = "START1" BY <1>3, <1>4, Places
  <2>2. b = Number(x) /\ x \in Starting BY <1>4, CameStart
  <2>3. Start1(b) BY <2>1 DEF Read, Start2, Header, Length, Data, Ecc, Crc1, Crc2, Stop1, Stop2
  <2>4. PICK yes \in Is(b, Starting) :
           yes => state' = "START2" /\ covered' = <<>>
    BY <2>3 DEF Start1, Go
  <2>5. yes BY <2>2, <2>4, IsNumber
  <2>6. state' = Place(f, c + 1) BY <1>4, <2>4, <2>5, Places
  <2>7. ReadSoFar(f, x, j, v, c + 1)'
    <3>1. Len(covered') = 0 /\ CoveredLen(f, c + 1) = 0
      BY <1>4, <2>4, <2>5 DEF CoveredLen
    <3> QED BY <3>1 DEF ReadSoFar
  <2> QED BY <1>2, <2>3, <2>6, <2>7, EarlyStep DEF Start1
<1>5. CASE c = 1
  <2>1. state = "START2" BY <1>3, <1>5, Places
  <2>2. b = Number(START2) BY <1>5, CameStart
  <2>3. Start2(b) BY <2>1 DEF Read, Start1, Header, Length, Data, Ecc, Crc1, Crc2, Stop1, Stop2
  <2>4. PICK yes \in Is(b, {START2}) :
           yes => state' = "TYPEMETHOD" /\ covered' = covered /\ accepted' = accepted
    BY <2>3 DEF Start2, Go
  <2>5. yes BY <2>2, <2>4, IsNumber
  <2>6. state' = Place(f, c + 1) BY <1>5, <2>4, <2>5, Places
  <2>7. ReadSoFar(f, x, j, v, c + 1)'
    <3>1. Len(covered) = 0 /\ covered' = covered
      BY <1>3, <1>5, <2>4, <2>5 DEF CoveredLen, ReadSoFar
    <3>2. CoveredLen(f, c + 1) = 0 BY <1>5 DEF CoveredLen
    <3> QED BY <3>1, <3>2 DEF ReadSoFar
  <2> QED BY <1>2, <2>4, <2>5, <2>6, <2>7, EarlyStep
<1> QED BY <1>4, <1>5

LEMMA HeaderStep ==
    ASSUME NEW f \in FrameNo, NEW h, NEW m \in Nat, NEW x, NEW j, NEW v, Hit(f, h, m, x, j, v),
           NEW c \in 2 .. 5, DecoderAt(f, h, x, j, v, c), Decoded,
           Came(f, x, j, v, c + 1) \in Byte, Read(Came(f, x, j, v, c + 1))
    PROVE  DecoderAt(f, h, x, j, v, c + 1)' /\ accepted' = accepted
<1> DEFINE b == Came(f, x, j, v, c + 1)
           next == [TYPEMETHOD |-> "ID", ID |-> "ID_HIGH", ID_HIGH |-> "SEQ", SEQ |-> "LEN"]
<1>1. N(f) \in Nat BY FrameLen
<1>2. c \in Nat /\ c < 9 + N(f) /\ c < 11 + N(f) /\ c # 0 /\ c \in 2 .. 8 + N(f) BY <1>1
<1>3. state = Place(f, c) /\ ReadSoFar(f, x, j, v, c) BY <1>2, EarlyPlace
<1>4. c = 2 \/ c = 3 \/ c = 4 \/ c = 5 OBVIOUS
<1>5. state \in {"TYPEMETHOD", "ID", "ID_HIGH", "SEQ"} /\ (state = "TYPEMETHOD" => c = 2)
  BY <1>3, <1>4, Places
<1>6. Header(b)
  BY <1>5 DEF Read, Start1, Start2, Length, Data, Ecc, Crc1, Crc2, Stop1, Stop2
<1>7. PICK yes \in (IF state = "TYPEMETHOD" THEN Is(b, {typemethod}) ELSE {TRUE}) :
         yes => state' = next[state] /\ covered' = Append(covered, b) /\ accepted' = accepted
  BY <1>6 DEF Header, Go
<1>8. yes
  <2>1. state = "TYPEMETHOD" => b = Number(typemethod) BY <1>5, CameStart
  <2> HIDE DEF b
  <2>2. CASE state = "TYPEMETHOD" BY <1>7, <2>1, <2>2, IsNumber
  <2>3. CASE state # "TYPEMETHOD" BY <1>7, <2>3
  <2> QED BY <2>2, <2>3
<1>9. state' = Place(f, c + 1) BY <1>3, <1>4, <1>7, <1>8, Places
<1>10. ReadSoFar(f, x, j, v, c + 1)' BY <1>2, <1>3, <1>7, <1>8, ReadMore
<1> QED BY <1>2, <1>7, <1>8, <1>9, <1>10, EarlyStep

LEMMA LengthStep ==
    ASSUME NEW f \in FrameNo, NEW h, NEW m \in Nat, NEW x, NEW j, NEW v, Hit(f, h, m, x, j, v),
           DecoderAt(f, h, x, j, v, 6), Decoded,
           Came(f, x, j, v, 7) \in Byte, Read(Came(f, x, j, v, 7))
    PROVE  DecoderAt(f, h, x, j, v, 7)' /\ accepted' = accepted
<1> DEFINE b == Came(f, x, j, v, 7)
<1>1. N(f) \in Nat BY FrameLen
<1>2. 6 \in Nat /\ 6 < 9 + N(f) /\ 6 < 11 + N(f) /\ 6 \in 2 .. 8 + N(f) /\ 6 # 0 BY <1>1
<1>3. state = Place(f, 6) /\ ReadSoFar(f, x, j, v, 6) BY <1>2, EarlyPlace
<1>4. state = "LEN" BY <1>3, Places
<1>5. Length(b)
  BY <1>4 DEF Read, Start1, Start2, Header, Data, Ecc, Crc1, Crc2, Stop1, Stop2
<1>6. PICK n \in Values(b) :
         covered' = Append(covered, Number(n)) /\ state' = IF n > 0 THEN "DATA" ELSE "ECC0"
  BY <1>5 DEF Length, Go
<1>7. b = Number(N(f)) BY CameStart
<1>8. n = N(f)
  <2>1. Values(Number(N(f))) = {N(f)} BY DEF Values, Number
  <2> HIDE DEF b
  <2> QED BY <1>6, <1>7, <2>1
<1>9. state' = Place(f, 7)
  <2>1. CASE N(f) = 0
    <3>1. 7 = 7 + N(f) /\ ~(n > 0) BY <1>8, <2>1
    <3> QED BY <1>6, <3>1, Places
  <2>2. CASE N(f) # 0
    <3>1. 7 \in 7 .. 6 + N(f) /\ n > 0 BY <1>1, <1>8, <2>2
    <3> QED BY <1>6, <3>1, Places
  <2> QED BY <2>1, <2>2
<1>10. covered' = Append(covered, b) BY <1>6, <1>7, <1>8
<1>11. 7 = 6 + 1 OBVIOUS
<1>12. ReadSoFar(f, x, j, v, 7)' BY <1>2, <1>3, <1>10, <1>11, ReadMore
<1> QED BY <1>2, <1>5, <1>9, <1>11, <1>12, EarlyStep DEF Length

\* The data and the ECC bytes are read.
LEMMA DataStep ==
    ASSUME NEW f \in FrameNo, NEW h, NEW m \in Nat, NEW x, NEW j, NEW v, Hit(f, h, m, x, j, v),
           NEW c \in 7 .. 6 + N(f), DecoderAt(f, h, x, j, v, c), Decoded,
           Came(f, x, j, v, c + 1) \in Byte, Read(Came(f, x, j, v, c + 1))
    PROVE  DecoderAt(f, h, x, j, v, c + 1)' /\ accepted' = accepted
<1> DEFINE b == Came(f, x, j, v, c + 1)
<1>1. N(f) \in Nat BY FrameLen
<1>2. c \in Nat /\ c < 9 + N(f) /\ c < 11 + N(f) /\ c # 0 /\ c \in 2 .. 8 + N(f) BY <1>1
<1>3. state = Place(f, c) /\ ReadSoFar(f, x, j, v, c) BY <1>2, EarlyPlace
<1>4. state = "DATA" BY <1>3, Places
<1>5. Data(b)
  BY <1>4 DEF Read, Start1, Start2, Header, Length, Ecc, Crc1, Crc2, Stop1, Stop2
<1>6. covered' = Append(covered, b) /\ accepted' = accepted
      /\ state' = IF Number(Len(data) + 1) = covered[5] THEN "ECC0" ELSE "DATA"
  BY <1>5 DEF Data, Go
<1>7. Len(covered) = c - 2 /\ covered[5] = Number(N(f))
  <2>1. CoveredLen(f, c) = c - 2 BY <1>1 DEF CoveredLen
  <2>2. Len(covered) = c - 2 BY <1>3, <2>1 DEF ReadSoFar
  <2>3. 5 \in 1 .. Len(covered) /\ 5 + 2 = 7 BY <2>2
  <2>4. covered[5] = Came(f, x, j, v, 7) BY <1>3, <2>3 DEF ReadSoFar
  <2> QED BY <2>2, <2>4, CameStart
<1>8. Len(data) = c - 7
  <2>1. Len(covered) = 5 + Len(data) /\ data \in Seq(Byte)
    BY <1>4 DEF Decoded, Shape, DataRead
  <2>2. Len(data) \in Nat BY <2>1
  <2> QED BY <1>2, <1>7, <2>1, <2>2
<1>9. Number(Len(data) + 1) = covered[5] <=> c + 1 = 7 + N(f)
  <2>1. Number(Len(data) + 1) = Number(N(f)) <=> Len(data) + 1 = N(f) BY DEF Number
  <2> QED BY <1>1, <1>7, <1>8, <2>1
<1>10. state' = Place(f, c + 1)
  <2>1. CASE c + 1 = 7 + N(f) BY <1>6, <1>9, <2>1, Places
  <2>2. CASE c + 1 # 7 + N(f)
    <3>1. c + 1 \in 7 .. 6 + N(f) BY <1>1, <2>2
    <3>2. state' = "DATA" BY <1>6, <1>9, <2>2
    <3> QED BY <3>1, <3>2, Places
  <2> QED BY <2>1, <2>2
<1>11. ReadSoFar(f, x, j, v, c + 1)' BY <1>2, <1>3, <1>6, ReadMore
<1> QED BY <1>2, <1>6, <1>10, <1>11, EarlyStep

LEMMA EccStep ==
    ASSUME NEW f \in FrameNo, NEW h, NEW m \in Nat, NEW x, NEW j, NEW v, Hit(f, h, m, x, j, v),
           NEW c \in 7 + N(f) .. 8 + N(f), DecoderAt(f, h, x, j, v, c), Decoded,
           Came(f, x, j, v, c + 1) \in Byte, Read(Came(f, x, j, v, c + 1))
    PROVE  DecoderAt(f, h, x, j, v, c + 1)' /\ accepted' = accepted
<1> DEFINE b == Came(f, x, j, v, c + 1)
<1>1. N(f) \in Nat BY FrameLen
<1>2. c \in Nat /\ c < 9 + N(f) /\ c < 11 + N(f) /\ c # 0 /\ c \in 2 .. 8 + N(f) BY <1>1
<1>3. state = Place(f, c) /\ ReadSoFar(f, x, j, v, c) BY <1>2, EarlyPlace
<1>4. c = 7 + N(f) \/ c = 8 + N(f) BY <1>1
<1>5. state \in {"ECC0", "ECC1"} BY <1>3, <1>4, Places
<1>6. Ecc(b)
  BY <1>5 DEF Read, Start1, Start2, Header, Length, Data, Crc1, Crc2, Stop1, Stop2
<1>7. covered' = Append(covered, b) /\ accepted' = accepted
      /\ state' = IF state = "ECC0" THEN "ECC1" ELSE "CRC1"
  BY <1>6 DEF Ecc, Go
<1>8. state' = Place(f, c + 1)
  <2>1. CASE c = 7 + N(f)
    <3>1. c + 1 = 8 + N(f) BY <1>1, <2>1
    <3> QED BY <1>3, <1>7, <2>1, <3>1, Places
  <2>2. CASE c = 8 + N(f)
    <3>1. c + 1 = 9 + N(f) BY <1>1, <2>2
    <3>2. state = "ECC1" BY <1>3, <2>2, Places
    <3> QED BY <1>7, <3>1, <3>2, Places
  <2> QED BY <1>4, <2>1, <2>2
<1>9. ReadSoFar(f, x, j, v, c + 1)' BY <1>2, <1>3, <1>7, ReadMore
<1> QED BY <1>2, <1>7, <1>8, <1>9, EarlyStep

\* The first CRC byte is kept.
LEMMA CrcStep ==
    ASSUME NEW f \in FrameNo, NEW h, NEW m \in Nat, NEW x, NEW j, NEW v, Hit(f, h, m, x, j, v),
           NEW c \in Nat, c = 9 + N(f), DecoderAt(f, h, x, j, v, c), Decoded,
           Read(Came(f, x, j, v, c + 1))
    PROVE  DecoderAt(f, h, x, j, v, c + 1)' /\ accepted' = accepted
<1> DEFINE b == Came(f, x, j, v, c + 1)
<1>1. N(f) \in Nat BY FrameLen
<1>2. c < 11 + N(f) /\ c # 0 /\ c + 1 = 10 + N(f) BY <1>1
<1>3. state = Place(f, c) /\ ReadSoFar(f, x, j, v, c) BY <1>2, EarlyPlace
<1>4. state = "CRC1" BY <1>3, Places
<1>5. Crc1(b)
  BY <1>4 DEF Read, Start1, Start2, Header, Length, Data, Ecc, Crc2, Stop1, Stop2
<1>6. covered' = covered /\ accepted' = accepted /\ crc_received' = <<b>> /\ state' = "CRC2"
  BY <1>5 DEF Crc1, Go
<1>7. state' = Place(f, c + 1) BY <1>2, <1>6, Places
<1>8. CoveredLen(f, c) = CoveredLen(f, c + 1) BY <1>1 DEF CoveredLen
<1>9. ReadSoFar(f, x, j, v, c + 1)' BY <1>3, <1>6, <1>8 DEF ReadSoFar
<1>10. ~Refused(f, h, j, c + 1) /\ c + 1 \notin 11 + N(f) .. 12 + N(f)
  BY <1>1, <1>2 DEF Refused
<1> QED BY <1>6, <1>7, <1>9, <1>10 DEF DecoderAt

\* What the decoder holds when it compares the CRC: all that came between the
\* start and the CRC, and the data in it.
Whole(f, x, j, v) ==
    /\ covered \in Seq(Byte) /\ Len(covered) = 7 + N(f)
    /\ \A k \in 1 .. 7 + N(f) : covered[k] = Came(f, x, j, v, k + 2)
    /\ data \in Seq(Byte) /\ Len(data) = N(f)
    /\ \A i \in 1 .. N(f) : data[i] = covered[5 + i]
    /\ crc_received = <<Came(f, x, j, v, 10 + N(f))>>

LEMMA WholeRead ==
    ASSUME NEW f \in FrameNo, NEW h, NEW x, NEW j, NEW v,
           DecoderAt(f, h, x, j, v, 10 + N(f)), Decoded
    PROVE  Whole(f, x, j, v) /\ state = "CRC2"
<1>1. N(f) \in Nat BY FrameLen
<1>2. 10 + N(f) \in Nat /\ 10 + N(f) < 11 + N(f) /\ 10 + N(f) # 0 BY <1>1
<1>3. state = Place(f, 10 + N(f)) /\ ReadSoFar(f, x, j, v, 10 + N(f))
      /\ crc_received = <<Came(f, x, j, v, 10 + N(f))>>
  BY <1>2, EarlyPlace
<1>4. state = "CRC2" BY <1>3, Places
<1>5. CoveredLen(f, 10 + N(f)) = 7 + N(f) BY <1>1 DEF CoveredLen
<1>6. covered \in Seq(Byte) /\ Len(covered) = 7 + Len(data) /\ DataRead
  BY <1>4 DEF Decoded, Shape
<1>7. data \in Seq(Byte) /\ (\A i \in 1 .. Len(data) : covered[5 + i] = data[i])
  BY <1>6 DEF DataRead
<1>8. Len(covered) = 7 + N(f)
      /\ \A k \in 1 .. Len(covered) : covered[k] = Came(f, x, j, v, k + 2)
  BY <1>3, <1>5 DEF ReadSoFar
<1>9. Len(data) = N(f)
  <2>1. Len(data) \in Nat BY <1>7
  <2> QED BY <1>1, <1>6, <1>8, <2>1
<1> QED BY <1>3, <1>4, <1>6, <1>7, <1>8, <1>9 DEF Whole

\* Where the changed byte is, if it is covered: elsewhere, what is covered is
\* what was sent.
LEMMA WholeSum ==
    ASSUME NEW f \in FrameNo, NEW h, NEW m \in Nat, NEW x, NEW j, NEW v, Hit(f, h, m, x, j, v),
           Whole(f, x, j, v)
    PROVE  /\ \A k \in 1 .. 7 + N(f) : k + 2 # j => covered[k] = Sum(f)[k]
           /\ j \in 3 .. 9 + N(f) => covered # Sum(f) /\ covered[j - 2] # Sum(f)[j - 2]
           /\ j \notin 3 .. 9 + N(f) => covered = Sum(f)
<1>0. j # 0 => Came(f, x, j, v, j) = Number(v) /\ Number(v) # W(f)[j] BY HitByte
<1>1. N(f) \in Nat BY FrameLen
<1>2. ASSUME NEW k \in 1 .. 7 + N(f), k + 2 # j PROVE covered[k] = Sum(f)[k]
  <2>1. k + 2 \in 2 .. 13 + N(f) BY <1>1
  <2>2. Came(f, x, j, v, k + 2) = W(f)[k + 2] BY <1>2, <2>1, CameParts
  <2> QED BY <2>2, WireParts DEF Whole
<1>3. ASSUME j \in 3 .. 9 + N(f) PROVE covered[j - 2] # Sum(f)[j - 2]
  <2>1. PICK k \in 1 .. 7 + N(f) : j = k + 2
    <3>1. j - 2 \in 1 .. 7 + N(f) /\ j = (j - 2) + 2 BY <1>1, <1>3
    <3> QED BY <3>1
  <2>2. j # 0 /\ j - 2 = k BY <1>1, <2>1
  <2>3. Came(f, x, j, v, j) = Number(v) /\ Number(v) # W(f)[j] BY <1>0, <2>2
  <2>4. covered[k] # W(f)[k + 2] BY <2>1, <2>3 DEF Whole
  <2> QED BY <2>2, <2>4, WireParts
<1>4. ASSUME j \notin 3 .. 9 + N(f) PROVE covered = Sum(f)
  <2>1. \A k \in 1 .. 7 + N(f) : k + 2 \in 3 .. 9 + N(f) BY <1>1
  <2>2. \A k \in 1 .. 7 + N(f) : covered[k] = Sum(f)[k] BY <1>2, <1>4, <2>1
  <2>3. Sum(f) \in Seq(Byte) /\ Len(Sum(f)) = 7 + N(f) BY SumParts DEF Byte
  <2>4. covered \in Seq(Byte) /\ Len(covered) = 7 + N(f) BY DEF Whole
  <2> QED BY <2>2, <2>3, <2>4, SeqEqual
<1> QED BY <1>2, <1>3, <1>4

\* The data that was sent is the data that was read, but for the changed byte.
LEMMA WholeData ==
    ASSUME NEW f \in FrameNo, NEW h, NEW m \in Nat, NEW x, NEW j, NEW v, Hit(f, h, m, x, j, v),
           Whole(f, x, j, v)
    PROVE  /\ DOMAIN data = 1 .. N(f)
           /\ \A i \in 1 .. N(f) : 7 + i # j => data[i] = Sound(f)[i]
           /\ h = "data" => j - 7 \in 1 .. N(f) /\ data[j - 7] # Sound(f)[j - 7]
           /\ h # "data" => data = Sound(f)
<1>1. N(f) \in Nat BY FrameLen
<1>2. ASSUME NEW i \in 1 .. N(f), 7 + i # j PROVE data[i] = Sound(f)[i]
  <2>1. 5 + i \in 1 .. 7 + N(f) /\ (5 + i) + 2 # j BY <1>1, <1>2, HitPlace
  <2>2. covered[5 + i] = Sum(f)[5 + i] BY <2>1, WholeSum
  <2> QED BY <2>2, SumParts DEF Whole
<1>3. ASSUME h = "data" PROVE j - 7 \in 1 .. N(f) /\ data[j - 7] # Sound(f)[j - 7]
  <2>1. PICK i \in 1 .. N(f) : j = 7 + i
    <3>1. j \in 8 .. 7 + N(f) BY <1>3, HitPlace
    <3>2. j - 7 \in 1 .. N(f) /\ j = 7 + (j - 7) BY <1>1, <3>1
    <3> QED BY <3>2
  <2>2. j - 7 = i /\ j - 2 = 5 + i /\ j \in 3 .. 9 + N(f) BY <1>1, <2>1
  <2>3. covered[5 + i] # Sum(f)[5 + i]
    <3>1. j \in 3 .. 9 + N(f) => covered[j - 2] # Sum(f)[j - 2] BY WholeSum
    <3> QED BY <2>2, <3>1
  <2> QED BY <2>2, <2>3, SumParts DEF Whole
<1>4. ASSUME h # "data" PROVE data = Sound(f)
  <2>1. j = 0 \/ j \in 4 .. 6 \/ j \in 8 + N(f) .. 13 + N(f) BY <1>4, HitPlace
  <2>2. \A i \in 1 .. N(f) : 7 + i # j BY <1>1, <2>1
  <2>3. \A i \in 1 .. N(f) : data[i] = Sound(f)[i] BY <1>2, <2>2
  <2>4. Sound(f) \in Seq(Byte) /\ Len(Sound(f)) = N(f) BY SumParts DEF Byte, PlainByte
  <2>5. data \in Seq(Byte) /\ Len(data) = N(f) BY DEF Whole
  <2> QED BY <2>3, <2>4, <2>5, SeqEqual
<1>5. DOMAIN data = 1 .. N(f) BY DEF Whole
<1> QED BY <1>2, <1>3, <1>4, <1>5

LEMMA LastTwo ==
    ASSUME NEW s \in Seq(Byte), NEW n \in Nat, Len(s) = 7 + n
    PROVE  /\ SubSeq(s, Len(s) - 1, Len(s))[1] = s[6 + n]
           /\ SubSeq(s, Len(s) - 1, Len(s))[2] = s[7 + n]
<1> DEFINE low == 6 + n
           top == 7 + n
<1>1. Len(s) - 1 = low /\ Len(s) = top OBVIOUS
<1>2. low \in Int /\ top \in Int /\ low + 1 - 1 = low /\ low + 2 - 1 = top
      /\ 1 \in 1 .. top - low + 1 /\ 2 \in 1 .. top - low + 1
  OBVIOUS
<1>3. \A i \in low .. top : s[i] \in Byte
  <2>1. \A i \in low .. top : i \in 1 .. Len(s) OBVIOUS
  <2> HIDE DEF low, top
  <2> QED BY <2>1, ElementOfSeq
<1> HIDE DEF low, top
<1>4. \A i \in 1 .. top - low + 1 : SubSeq(s, low, top)[i] = s[low + i - 1]
  BY <1>2, <1>3, PartOf
<1>5. SubSeq(s, low, top)[1] = s[low] /\ SubSeq(s, low, top)[2] = s[top] BY <1>2, <1>4
<1> QED BY <1>1, <1>5 DEF low, top

\* What the decoder makes of the ECC bytes: one wrong byte of the data is put
\* right; a fault that is not in the data is not laid on the data.
LEMMA OneIsCorrected ==
    ASSUME NEW f \in FrameNo, NEW h, NEW m \in Nat, NEW x, NEW j, NEW v, Hit(f, h, m, x, j, v),
           Whole(f, x, j, v)
    PROVE  /\ h = "data" => Corrections = {Sound(f)}
           /\ h # "data" => Corrections = {}
<1> DEFINE ecc == SubSeq(covered, Len(covered) - 1, Len(covered))
           d == Sound(f)
           Wrong == {i \in DOMAIN data : data[i] # ecc[1][2][i]}
<1>1. N(f) \in Nat BY FrameLen
<1>2. ecc[1] = covered[6 + N(f)] /\ ecc[2] = covered[7 + N(f)]
  <2>1. covered \in Seq(Byte) /\ Len(covered) = 7 + N(f) BY DEF Whole
  <2> QED BY <1>1, <2>1, LastTwo
<1>3. 6 + N(f) \in 1 .. 7 + N(f) /\ 7 + N(f) \in 1 .. 7 + N(f)
      /\ (6 + N(f)) + 2 = 8 + N(f) /\ (7 + N(f)) + 2 = 9 + N(f)
  BY <1>1
<1>4. j # 8 + N(f) => ecc[1] = <<"ecc0", d>>
  <2>1. ASSUME j # 8 + N(f) PROVE covered[6 + N(f)] = Sum(f)[6 + N(f)]
    <3>1. 6 + N(f) \in 1 .. 7 + N(f) /\ (6 + N(f)) + 2 # j BY <1>3, <2>1
    <3>2. \A i \in 1 .. 7 + N(f) : i + 2 # j => covered[i] = Sum(f)[i] BY WholeSum
    <3> QED BY <3>1, <3>2
  <2> QED BY <1>2, <2>1, SumParts
<1>5. j # 9 + N(f) => ecc[2] = <<"ecc1", d>>
  <2>1. ASSUME j # 9 + N(f) PROVE covered[7 + N(f)] = Sum(f)[7 + N(f)]
    <3>1. 7 + N(f) \in 1 .. 7 + N(f) /\ (7 + N(f)) + 2 # j BY <1>3, <2>1
    <3>2. \A i \in 1 .. 7 + N(f) : i + 2 # j => covered[i] = Sum(f)[i] BY WholeSum
    <3> QED BY <3>1, <3>2
  <2> QED BY <1>2, <2>1, SumParts
<1>6. Len(d) = N(f) /\ Len(data) = N(f) BY SumParts DEF Whole
<1>7. CASE h = "data"
  <2>1. j \in 8 .. 7 + N(f) BY <1>7, HitPlace
  <2>2. j # 8 + N(f) /\ j # 9 + N(f) BY <1>1, <2>1
  <2>3. ecc[1] = <<"ecc0", d>> /\ ecc[2] = <<"ecc1", d>> BY <1>4, <1>5, <2>2
  <2>4. PICK i \in 1 .. N(f) : j = 7 + i /\ data[i] # d[i]
    <3>1. j - 7 \in 1 .. N(f) /\ data[j - 7] # d[j - 7] BY <1>7, WholeData
    <3>2. j = 7 + (j - 7) BY <1>1, <2>1
    <3> QED BY <3>1, <3>2
  <2>5. \A k \in 1 .. N(f) : k # i => data[k] = d[k]
    <3>1. \A k \in 1 .. N(f) : k # i => 7 + k # j BY <1>1, <2>4
    <3> QED BY <3>1, WholeData
  <2>6. ecc[1][1] = "ecc0" /\ ecc[2][1] = "ecc1" /\ ecc[1][2] = d /\ ecc[2][2] = d BY <2>3
  <2> HIDE DEF ecc, d
  <2>7. DOMAIN data = 1 .. N(f) BY WholeData
  <2>8. Wrong = {i} BY <2>4, <2>5, <2>6, <2>7
  <2>9. Corrections = {d}
    <3> HIDE DEF Wrong
    <3>1. Corrections =
             IF /\ ecc[1][1] = "ecc0" /\ ecc[2][1] = "ecc1" /\ ecc[1][2] = ecc[2][2]
                /\ Len(ecc[1][2]) = Len(data) /\ \A p, q \in Wrong : p = q
             THEN IF Wrong = {} THEN {} ELSE {ecc[1][2]}
             ELSE IF ecc[1] = <<"ecc0", data>> \/ ecc[2] = <<"ecc1", data>> THEN {}
             ELSE {[data EXCEPT ![p] = Garbled] : p \in DOMAIN data}
      BY DEF Corrections, ecc, Wrong
    <3> QED BY <1>6, <2>6, <2>8, <3>1
  <2> QED BY <1>7, <2>9 DEF d
<1>8. CASE h # "data"
  <2>1. data = d BY <1>8, WholeData
  <2>2. ecc[1] = <<"ecc0", data>> \/ ecc[2] = <<"ecc1", data>>
    <3>1. j # 8 + N(f) \/ j # 9 + N(f) BY <1>1
    <3> QED BY <1>4, <1>5, <2>1, <3>1
  <2>3. ecc[1][1] = "ecc0" => j # 8 + N(f)
    <3>1. j = 8 + N(f) => covered[6 + N(f)] = Number(v)
      <4>1. j = 8 + N(f) => j # 0 BY <1>1
      <4>2. covered[6 + N(f)] = Came(f, x, j, v, 8 + N(f)) BY <1>3 DEF Whole
      <4> QED BY <4>1, <4>2, HitByte
    <3>2. Number(v)[1] # "ecc0" BY DEF Number
    <3> QED BY <1>2, <3>1, <3>2
  <2>4. ecc[1][1] = "ecc0" => ecc[1][2] = data
    <3>1. ecc[1] = <<"ecc0", d>> => ecc[1][2] = d OBVIOUS
    <3> QED BY <1>4, <2>1, <2>3, <3>1
  <2>5. ecc[1][1] = "ecc0" => Wrong = {} BY <2>4
  <2> HIDE DEF ecc, Wrong
  <2>6. Corrections =
           IF /\ ecc[1][1] = "ecc0" /\ ecc[2][1] = "ecc1" /\ ecc[1][2] = ecc[2][2]
              /\ Len(ecc[1][2]) = Len(data) /\ \A p, q \in Wrong : p = q
           THEN IF Wrong = {} THEN {} ELSE {ecc[1][2]}
           ELSE IF ecc[1] = <<"ecc0", data>> \/ ecc[2] = <<"ecc1", data>> THEN {}
           ELSE {[data EXCEPT ![p] = Garbled] : p \in DOMAIN data}
    BY DEF Corrections, ecc, Wrong
  <2> QED BY <1>8, <2>2, <2>5, <2>6
<1> QED BY <1>7, <1>8

\* A frame with the ids of f and its data, and what was read in its place.
LEMMA HeldGives ==
    ASSUME NEW f \in FrameNo, NEW h, NEW c, NEW e, NEW g, NEW k,
           g = [id |-> c[2], id_high |-> c[3], seq |-> c[4], data |-> e,
                repaired |-> SubSeq(c, 6, 5 + Len(e)) # e, checked |-> k],
           c[2] = Sum(f)[2], c[3] = Sum(f)[3], c[4] = Sum(f)[4], e = Sound(f),
           c \in Seq(Byte), Len(c) = 7 + N(f),
           (\E i \in 1 .. N(f) : c[5 + i] # Sound(f)[i]) <=> h = "data"
    PROVE  Gives(g, f, h)
<1>1. N(f) \in Nat BY FrameLen
<1>2. Carries(g, Frames[f])
  <2>1. g.id = Number(Frames[f].id) /\ g.id_high = Number(Frames[f].id_high)
        /\ g.seq = Number(Frames[f].seq) /\ g.data = Numbers(Frames[f].data)
    BY SumParts DEF Sound
  <2> QED BY <2>1 DEF Carries, Sent
<1>3. e \in Seq(Byte) /\ Len(e) = N(f) BY SumParts DEF Byte, PlainByte
<1> DEFINE part == SubSeq(c, 6, 5 + N(f))
<1>4. part \in Seq(Byte) /\ Len(part) = N(f) /\ \A i \in 1 .. N(f) : part[i] = c[5 + i]
  <2>1. \A i \in 6 .. 5 + N(f) : c[i] \in Byte
    <3>1. \A i \in 1 .. Len(c) : c[i] \in Byte BY ElementOfSeq
    <3>2. \A i \in 6 .. 5 + N(f) : i \in 1 .. Len(c) BY <1>1
    <3> QED BY <3>1, <3>2
  <2> DEFINE top == 5 + N(f)
  <2>2. top \in Int /\ 6 \in Int /\ top - 6 + 1 = N(f)
        /\ (IF 6 <= top THEN top - 6 + 1 ELSE 0) = N(f)
        /\ \A i \in 1 .. N(f) : 6 + i - 1 = 5 + i
    <3>1. PICK n \in Nat : n = N(f) BY <1>1
    <3>2. 5 + n \in Int /\ 5 + n - 6 + 1 = n OBVIOUS
    <3>3. (IF 6 <= 5 + n THEN n ELSE 0) = n OBVIOUS
    <3>4. \A i \in 1 .. n : 6 + i - 1 = 5 + i OBVIOUS
    <3> QED BY <3>1, <3>2, <3>3, <3>4
  <2> HIDE DEF top
  <2>3. \A i \in 6 .. top : c[i] \in Byte BY <2>1 DEF top
  <2>4. SubSeq(c, 6, top) \in Seq(Byte)
        /\ Len(SubSeq(c, 6, top)) = (IF 6 <= top THEN top - 6 + 1 ELSE 0)
        /\ \A i \in 1 .. top - 6 + 1 : SubSeq(c, 6, top)[i] = c[6 + i - 1]
    BY <2>2, <2>3, PartOf
  <2>5. part = SubSeq(c, 6, top) BY DEF top
  <2> HIDE DEF part
  <2> QED BY <2>2, <2>4, <2>5
<1>5. part # e <=> h = "data"
  <2> HIDE DEF part
  <2>1. part = e <=> \A i \in 1 .. N(f) : part[i] = e[i] BY <1>3, <1>4, SeqEqual
  <2> QED BY <1>4, <2>1
<1>6. g.repaired = (h = "data") BY <1>3, <1>5
<1> QED BY <1>2, <1>6 DEF Gives

\* The CRC matches what came undamaged; else the ECC has its say.
LEMMA MatchStep ==
    ASSUME NEW f \in FrameNo, NEW h, NEW m \in Nat, NEW x, NEW j, NEW v, Hit(f, h, m, x, j, v),
           DecoderAt(f, h, x, j, v, 10 + N(f)), Decoded, Decoded',
           Read(Came(f, x, j, v, 11 + N(f)))
    PROVE  DecoderAt(f, h, x, j, v, 11 + N(f))' /\ accepted' = accepted
<1> DEFINE b == Came(f, x, j, v, 11 + N(f))
<1>1. N(f) \in Nat BY FrameLen
<1>2. Whole(f, x, j, v) /\ state = "CRC2" BY WholeRead
<1>3. Crc2(b)
  BY <1>2 DEF Read, Start1, Start2, Header, Length, Data, Ecc, Crc1, Stop1, Stop2
<1>4. accepted' = accepted BY <1>3 DEF Crc2, Reset
<1> DEFINE first == Came(f, x, j, v, 10 + N(f))
           crc == Append(crc_received, b)
<1>5. crc[1] = first /\ crc[2] = b
  <2>1. crc_received = <<first>> BY <1>2 DEF Whole
  <2>2. crc = Append(<<first>>, b) BY <2>1
  <2> HIDE DEF first, b, crc
  <2> QED BY <2>2, AppendToOne
<1>6. 10 + N(f) \in 2 .. 13 + N(f) /\ 11 + N(f) \in 2 .. 13 + N(f)
      /\ 10 + N(f) # 0 /\ 11 + N(f) # 0
  BY <1>1
<1>7. j # 10 + N(f) => first = <<"crc1", Sum(f)>>
  <2>1. \A k \in 2 .. 13 + N(f) : k # j => Came(f, x, j, v, k) = W(f)[k] BY CameParts
  <2>2. j # 10 + N(f) => Came(f, x, j, v, 10 + N(f)) = W(f)[10 + N(f)] BY <1>6, <2>1
  <2> QED BY <2>2, WireParts
<1>8. j # 11 + N(f) => b = <<"crc2", Sum(f)>>
  <2>1. \A k \in 2 .. 13 + N(f) : k # j => Came(f, x, j, v, k) = W(f)[k] BY CameParts
  <2>2. j # 11 + N(f) => b = W(f)[11 + N(f)] BY <1>6, <2>1
  <2> QED BY <2>2, WireParts
<1>9. j \in {10 + N(f), 11 + N(f)} => Came(f, x, j, v, j) = Number(v)
  <2>1. j # 0 => Came(f, x, j, v, j) = Number(v) BY HitByte
  <2> QED BY <1>6, <2>1
<1>10. CrcMatches(crc) = {j \notin 3 .. 11 + N(f)}
  <2> HIDE DEF b, first, crc
  <2>0. crc[1] = first /\ crc[2] = b BY <1>5
  <2>1. CASE j = 10 + N(f)
    <3>1. first = Number(v) BY <1>9, <2>1 DEF first
    <3>2. first # <<"crc1", covered>> BY <3>1 DEF Number
    <3>3. j \in 3 .. 11 + N(f) /\ j \notin 3 .. 9 + N(f) BY <1>1, <2>1
    <3>4. covered = Sum(f) /\ j # 11 + N(f) BY <1>1, <1>2, <2>1, <3>3, WholeSum
    <3>5. b = <<"crc2", covered>> BY <1>8, <3>4
    <3> QED BY <2>0, <3>2, <3>3, <3>5 DEF CrcMatches
  <2>2. CASE j = 11 + N(f)
    <3>1. b = Number(v) BY <1>9, <2>2 DEF b
    <3>2. b # <<"crc2", covered>> BY <3>1 DEF Number
    <3>3. j \in 3 .. 11 + N(f) /\ j \notin 3 .. 9 + N(f) BY <1>1, <2>2
    <3>4. covered = Sum(f) /\ j # 10 + N(f)
      <4>1. covered = Sum(f) BY <1>2, <3>3, WholeSum
      <4>2. j # 10 + N(f) BY <1>1, <2>2
      <4> QED BY <4>1, <4>2
    <3>5. first = <<"crc1", covered>> BY <1>7, <3>4
    <3> QED BY <2>0, <3>2, <3>3, <3>5 DEF CrcMatches
  <2>3. CASE j # 10 + N(f) /\ j # 11 + N(f)
    <3>1. first = <<"crc1", Sum(f)>> /\ b = <<"crc2", Sum(f)>> BY <1>7, <1>8, <2>3
    <3>2. Computed(crc) BY <2>0, <3>1 DEF Computed
    <3>3. CrcMatches(crc) = {covered = Sum(f)} BY <2>0, <3>1, <3>2 DEF CrcMatches
    <3>4. covered = Sum(f) <=> j \notin 3 .. 9 + N(f) BY <1>2, WholeSum
    <3>5. j \in 3 .. 9 + N(f) <=> j \in 3 .. 11 + N(f)
      <4>1. j \in Nat BY HitPlace
      <4> QED BY <1>1, <2>3, <4>1
    <3> QED BY <3>3, <3>4, <3>5
  <2> QED BY <2>1, <2>2, <2>3
<1> HIDE DEF crc
<1>0. (j \notin 3 .. 11 + N(f) => CrcMatches(crc) = {TRUE})
      /\ (j \in 3 .. 11 + N(f) => CrcMatches(crc) = {FALSE})
  BY <1>10
<1> USE DEF crc
<1>11. Place(f, 11 + N(f)) = "STOP1" BY Places
<1>12. 11 + N(f) \notin 1 .. 10 + N(f) /\ 11 + N(f) # 10 + N(f) /\ 11 + N(f) >= 11 + N(f)
  BY <1>1
<1>13. covered \in Seq(Byte) /\ Len(covered) = 7 + N(f) BY <1>2 DEF Whole
<1>14. (h # "other" /\ j \notin {4, 5, 6}) \/ h = "other" BY <1>1, HitPlace
<1>15. ASSUME j \notin {4, 5, 6}
       PROVE  covered[2] = Sum(f)[2] /\ covered[3] = Sum(f)[3] /\ covered[4] = Sum(f)[4]
  <2>1. \A i \in 1 .. 7 + N(f) : i + 2 # j => covered[i] = Sum(f)[i] BY <1>2, WholeSum
  <2>2. 2 \in 1 .. 7 + N(f) /\ 3 \in 1 .. 7 + N(f) /\ 4 \in 1 .. 7 + N(f)
        /\ 2 + 2 # j /\ 3 + 2 # j /\ 4 + 2 # j
    BY <1>1, <1>15
  <2> QED BY <2>1, <2>2
<1>16. (\E i \in 1 .. N(f) : covered[5 + i] # Sound(f)[i]) <=> h = "data"
  <2>1. \A i \in 1 .. N(f) : data[i] = covered[5 + i] BY <1>2 DEF Whole
  <2>2. h # "data" => data = Sound(f) BY <1>2, WholeData
  <2>3. h = "data" => j - 7 \in 1 .. N(f) /\ data[j - 7] # Sound(f)[j - 7] BY <1>2, WholeData
  <2> QED BY <2>1, <2>2, <2>3
<1>17. ASSUME covered' = covered, data' = Sound(f), state' = "STOP1", j \notin {4, 5, 6},
              ~(h = "other" /\ j <= 11 + N(f))
       PROVE  DecoderAt(f, h, x, j, v, 11 + N(f))'
  <2>1. Got' = [id |-> covered[2], id_high |-> covered[3], seq |-> covered[4],
                data |-> Sound(f),
                repaired |-> SubSeq(covered, 6, 5 + Len(Sound(f))) # Sound(f),
                checked |-> Computed(crc_received)']
    BY <1>17 DEF Got
  <2>2. Gives(Got', f, h) BY <1>13, <1>15, <1>16, <1>17, <2>1, HeldGives
  <2>3. Gives(Got, f, h)' BY <2>2 DEF Gives, Carries
  <2>4. ~Refused(f, h, j, 11 + N(f)) BY <1>17 DEF Refused
  <2> QED BY <1>11, <1>12, <1>17, <2>3, <2>4 DEF DecoderAt
<1>18. CASE h = "none"
  <2>1. j = 0 BY <1>18, HitPlace
  <2>0. j \notin 3 .. 11 + N(f) BY <1>1, <2>1
  <2> HIDE DEF crc
  <2>2. CrcMatches(crc) = {TRUE} BY <1>0, <2>0
  <2> USE DEF crc
  <2>3. state' = "STOP1" /\ covered' = covered /\ data' = data BY <1>3, <2>2 DEF Crc2, Go
  <2>4. data = Sound(f) BY <1>2, <1>18, WholeData
  <2> QED BY <1>4, <1>17, <1>18, <2>1, <2>3, <2>4
<1>19. CASE h = "data"
  <2>1. j \in 8 .. 7 + N(f) BY <1>19, HitPlace
  <2>2. j \in 3 .. 11 + N(f) /\ j \notin {4, 5, 6} BY <1>1, <2>1
  <2>3. CrcMatches(crc) = {FALSE} BY <1>0, <2>2
  <2>4. Corrections = {Sound(f)} BY <1>2, <1>19, OneIsCorrected
  <2>5. \A i \in DOMAIN Sound(f) : Sound(f)[i] # Garbled
    <3>1. Sound(f) \in Seq(NumberByte) BY SumParts
    <3>2. \A i \in DOMAIN Sound(f) : Sound(f)[i] \in NumberByte BY <3>1, ElementOfSeq
    <3>3. \A e \in NumberByte : e # Garbled BY DEF NumberByte, Number, Garbled
    <3> QED BY <3>2, <3>3
  <2>6. state' = "STOP1" /\ covered' = covered /\ data' = Sound(f)
    BY <1>3, <2>3, <2>4, <2>5 DEF Crc2, Go
  <2> QED BY <1>4, <1>17, <1>19, <2>2, <2>6
<1>20. CASE h = "other" /\ j <= 11 + N(f)
  <2>1. j \in 4 .. 6 \/ j \in 8 + N(f) .. 13 + N(f) BY <1>20, HitPlace
  <2>2. j \in 3 .. 11 + N(f) BY <1>1, <1>20, <2>1
  <2>3. CrcMatches(crc) = {FALSE} BY <1>0, <2>2
  <2>4. Corrections = {} BY <1>2, <1>20, OneIsCorrected
  <2>5. state' = "START1" BY <1>3, <2>3, <2>4 DEF Crc2, Reset
  <2>6. Refused(f, h, j, 11 + N(f)) BY <1>12, <1>20 DEF Refused
  <2> QED BY <1>4, <2>5, <2>6 DEF DecoderAt
<1>21. CASE h = "other" /\ ~(j <= 11 + N(f))
  <2>1. j \in Nat BY HitPlace
  <2>2. j \notin 3 .. 11 + N(f) /\ j \notin {4, 5, 6} BY <1>1, <1>21, <2>1
  <2>3. CrcMatches(crc) = {TRUE} BY <1>0, <2>2
  <2>4. state' = "STOP1" /\ covered' = covered /\ data' = data BY <1>3, <2>3 DEF Crc2, Go
  <2>5. data = Sound(f) BY <1>2, <1>21, WholeData
  <2> QED BY <1>4, <1>17, <1>21, <2>2, <2>4, <2>5
<1>22. h \in {"none", "data", "other"} BY HitPlace
<1> QED BY <1>18, <1>19, <1>20, <1>21, <1>22

\* The stop bytes: the frame is handed on when both are right.
LEMMA StopStep ==
    ASSUME NEW f \in FrameNo, NEW h, NEW m \in Nat, NEW x, NEW j, NEW v, Hit(f, h, m, x, j, v),
           NEW c \in 11 + N(f) .. 12 + N(f), ~Refused(f, h, j, c),
           DecoderAt(f, h, x, j, v, c), accepted \in Seq(Handed),
           Read(Came(f, x, j, v, c + 1))
    PROVE  /\ DecoderAt(f, h, x, j, v, c + 1)'
           /\ c = 12 + N(f) /\ h # "other" =>
                  /\ Len(accepted') = Len(accepted) + 1
                  /\ Gives(accepted'[Len(accepted')], f, h)
           /\ c # 12 + N(f) \/ h = "other" => accepted' = accepted
<1> DEFINE b == Came(f, x, j, v, c + 1)
<1>1. N(f) \in Nat BY FrameLen
<1>2. state = Place(f, c) /\ Gives(Got, f, h) BY DEF DecoderAt
<1>3. h = "other" => j > c
  <2>1. h = "other" => ~(j <= c) BY <1>1 DEF Refused
  <2>2. j \in Nat BY HitPlace
  <2> QED BY <1>1, <2>1, <2>2
<1>4. h # "other" => j <= 7 + N(f)
  <2>1. h \in {"none", "data", "other"} /\ (h = "none" => j = 0)
        /\ (h = "data" => j \in 8 .. 7 + N(f))
    BY HitPlace
  <2> QED BY <1>1, <2>1
<1>5. j # 0 => Number(v) # W(f)[j] BY HitByte
<1>6. CASE c = 11 + N(f)
  <2>1. state = "STOP1" BY <1>2, <1>6, Places
  <2>2. Stop1(b)
    BY <2>1 DEF Read, Start1, Start2, Header, Length, Data, Ecc, Crc1, Crc2, Stop2
  <2>3. PICK yes \in Is(b, {STOP1}) :
           IF yes THEN state' = "STOP2" /\ UNCHANGED <<covered, data, crc_received, accepted>>
           ELSE Reset
    BY <2>2 DEF Stop1, Go
  <2>4. c + 1 = 12 + N(f) /\ c # 12 + N(f) BY <1>1, <1>6
  <2>5. b = Number(IF j = 12 + N(f) THEN v ELSE STOP1) BY <2>4, CameStart
  <2>6. accepted' = accepted BY <2>3 DEF Reset
  <2>7. CASE j = 12 + N(f)
    <3>1. Number(v) # Number(STOP1) BY <1>1, <1>5, <2>7, WireParts
    <3>2. v # STOP1 BY <3>1
    <3>3. ~yes
      <4>1. b = Number(v) BY <2>5, <2>7
      <4> HIDE DEF b
      <4> QED BY <2>3, <3>2, <4>1, IsNumber
    <3>4. state' = "START1" BY <2>3, <3>3 DEF Reset
    <3>5. h = "other" BY <1>1, <1>4, <2>7
    <3>6. Refused(f, h, j, c + 1) BY <1>1, <2>4, <2>7, <3>5 DEF Refused
    <3> QED BY <2>4, <2>6, <3>4, <3>6 DEF DecoderAt
  <2>8. CASE j # 12 + N(f)
    <3>1. yes
      <4>1. b = Number(STOP1) BY <2>5, <2>8
      <4> HIDE DEF b
      <4> QED BY <2>3, <4>1, IsNumber
    <3>2. state' = Place(f, c + 1) BY <2>3, <2>4, <3>1, Places
    <3>3. Got' = Got BY <2>3, <3>1 DEF Got, Computed
    <3>4. Gives(Got, f, h)' BY <1>2, <3>3 DEF Gives, Carries
    <3>5. ~Refused(f, h, j, c + 1)
      <4>1. j \in Nat BY HitPlace
      <4>2. h = "other" => ~(j <= c + 1) BY <1>1, <1>3, <2>4, <2>8, <4>1
      <4> QED BY <4>2 DEF Refused
    <3>6. c + 1 \notin 1 .. 10 + N(f) /\ c + 1 # 10 + N(f) BY <1>1, <2>4
    <3> QED BY <2>4, <2>6, <3>2, <3>4, <3>5, <3>6 DEF DecoderAt
  <2> QED BY <2>7, <2>8
<1>7. CASE c = 12 + N(f)
  <2>1. state = "STOP2" BY <1>2, <1>7, Places
  <2>2. Stop2(b)
    BY <2>1 DEF Read, Start1, Start2, Header, Length, Data, Ecc, Crc1, Crc2, Stop1
  <2>3. PICK yes \in Is(b, {STOP2}) :
           IF yes THEN state' = "START1" /\ accepted' = Append(accepted, Got) ELSE Reset
    BY <2>2 DEF Stop2, Go
  <2>4. c + 1 = 13 + N(f) BY <1>1, <1>7
  <2>5. b = Number(IF j = 13 + N(f) THEN v ELSE STOP2) BY <2>4, CameStart
  <2>6. DecoderAt(f, h, x, j, v, c + 1)'
    <3>1. state' = "START1" BY <2>3 DEF Reset
    <3>2. state' = Place(f, c + 1) BY <2>4, <3>1, Places
    <3>3. c + 1 \notin 1 .. 10 + N(f) /\ c + 1 # 10 + N(f)
          /\ c + 1 \notin 11 + N(f) .. 12 + N(f)
      BY <1>1, <2>4
    <3> QED BY <3>1, <3>2, <3>3 DEF DecoderAt
  <2>7. CASE h = "other"
    <3>1. j \in 4 .. 6 \/ j \in 8 + N(f) .. 13 + N(f) BY <2>7, HitPlace
    <3>2. j = 13 + N(f) BY <1>1, <1>3, <1>7, <2>7, <3>1
    <3>3. Number(v) # Number(STOP2) BY <1>1, <1>5, <3>2, WireParts
    <3>4. v # STOP2 BY <3>3
    <3>5. ~yes
      <4>1. b = Number(v) BY <2>5, <3>2
      <4> HIDE DEF b
      <4> QED BY <2>3, <3>4, <4>1, IsNumber
    <3> QED BY <2>3, <2>6, <2>7, <3>5 DEF Reset
  <2>8. CASE h # "other"
    <3>1. j # 13 + N(f) BY <1>1, <1>4, <2>8
    <3>2. yes
      <4>1. b = Number(STOP2) BY <2>5, <3>1
      <4> HIDE DEF b
      <4> QED BY <2>3, <4>1, IsNumber
    <3>3. accepted' = Append(accepted, Got) BY <2>3, <3>2
    <3>4. Len(accepted') = Len(accepted) + 1 /\ accepted'[Len(accepted) + 1] = Got
      BY <3>3
    <3> QED BY <1>2, <1>7, <2>6, <2>8, <3>4
  <2> QED BY <2>7, <2>8
<1> QED BY <1>1, <1>6, <1>7

\* What is left of a refused frame is passed over.
LEMMA RefusedStep ==
    ASSUME NEW f \in FrameNo, NEW h, NEW m \in Nat, NEW x, NEW j, NEW v, Hit(f, h, m, x, j, v),
           NEW c \in 11 + N(f) .. 12 + N(f), Refused(f, h, j, c),
           DecoderAt(f, h, x, j, v, c), Read(Came(f, x, j, v, c + 1))
    PROVE  DecoderAt(f, h, x, j, v, c + 1)' /\ accepted' = accepted
<1> DEFINE b == Came(f, x, j, v, c + 1)
<1>1. N(f) \in Nat BY FrameLen
<1>2. state = "START1" BY DEF DecoderAt
<1>3. h = "other" /\ j <= c /\ j \in Nat BY HitPlace DEF Refused
<1>4. b = Number(STOP1) \/ b = Number(STOP2)
  <2>1. CASE c = 11 + N(f)
    <3>1. j # 12 + N(f) /\ c + 1 = 12 + N(f) BY <1>1, <1>3, <2>1
    <3> QED BY <3>1, CameStart
  <2>2. CASE c = 12 + N(f)
    <3>1. j # 13 + N(f) /\ c + 1 = 13 + N(f) BY <1>1, <1>3, <2>2
    <3> QED BY <3>1, CameStart
  <2> QED BY <1>1, <2>1, <2>2
<1>5. Start1(b)
  BY <1>2 DEF Read, Start2, Header, Length, Data, Ecc, Crc1, Crc2, Stop1, Stop2
<1>6. PICK yes \in Is(b, Starting) : ~yes => state' = state
  BY <1>5 DEF Start1, decoder
<1>7. STOP1 \notin Starting /\ STOP2 \notin Starting BY DEF STOP1, STOP2, Starting
<1>8. ~yes
  <2> HIDE DEF b
  <2> QED BY <1>4, <1>6, <1>7, IsNumber
<1>9. state' = "START1" BY <1>2, <1>6, <1>8
<1>10. Refused(f, h, j, c + 1) BY <1>1, <1>3 DEF Refused
<1> QED BY <1>5, <1>9, <1>10 DEF DecoderAt, Start1

\* A byte of the frame is read.
LEMMA FrameRead ==
    ASSUME NEW f \in FrameNo, NEW h, NEW m \in Nat, NEW x, NEW j, NEW v, Hit(f, h, m, x, j, v),
           NEW c \in 0 .. 12 + N(f), DecoderAt(f, h, x, j, v, c), Outcome(f, h, c),
           Decoded, Decoded', before' = before,
           Came(f, x, j, v, c + 1) \in Byte, Read(Came(f, x, j, v, c + 1))
    PROVE  DecoderAt(f, h, x, j, v, c + 1)' /\ Outcome(f, h, c + 1)'
<1>1. N(f) \in Nat BY FrameLen
<1>2. Len(accepted) = before BY <1>1 DEF Outcome
<1>3. ASSUME accepted' = accepted, h = "other" \/ c < 12 + N(f)
      PROVE  Outcome(f, h, c + 1)'
  <2>1. h = "other" \/ c + 1 < 13 + N(f) BY <1>1, <1>3
  <2> QED BY <1>2, <1>3, <2>1 DEF Outcome
<1>4. CASE c \in 0 .. 1
  <2>1. c < 12 + N(f) BY <1>1, <1>4
  <2> QED BY <1>3, <1>4, <2>1, StartStep
<1>5. CASE c \in 2 .. 5
  <2>1. c < 12 + N(f) BY <1>1, <1>5
  <2> QED BY <1>3, <1>5, <2>1, HeaderStep
<1>6. CASE c = 6
  <2>1. c < 12 + N(f) BY <1>1, <1>6
  <2>2. 6 + 1 = 7 OBVIOUS
  <2> QED BY <1>3, <1>6, <2>1, <2>2, LengthStep
<1>7. CASE c \in 7 .. 6 + N(f)
  <2>1. c < 12 + N(f) BY <1>1, <1>7
  <2> QED BY <1>3, <1>7, <2>1, DataStep
<1>8. CASE c \in 7 + N(f) .. 8 + N(f)
  <2>1. c < 12 + N(f) BY <1>1, <1>8
  <2> QED BY <1>3, <1>8, <2>1, EccStep
<1>9. CASE c = 9 + N(f)
  <2>1. c < 12 + N(f) /\ c \in Nat BY <1>1, <1>9
  <2> QED BY <1>3, <1>9, <2>1, CrcStep
<1>10. CASE c = 10 + N(f)
  <2>1. c < 12 + N(f) /\ c + 1 = 11 + N(f) BY <1>1, <1>10
  <2>2. DecoderAt(f, h, x, j, v, 11 + N(f))' /\ accepted' = accepted
    BY <1>10, <2>1, MatchStep
  <2> QED BY <1>3, <2>1, <2>2
<1>11. CASE c \in 11 + N(f) .. 12 + N(f) /\ Refused(f, h, j, c)
  <2>1. h = "other" BY <1>11 DEF Refused
  <2> QED BY <1>3, <1>11, <2>1, RefusedStep
<1>12. CASE c \in 11 + N(f) .. 12 + N(f) /\ ~Refused(f, h, j, c)
  <2>1. accepted \in Seq(Handed) BY DEF Decoded
  <2>2. /\ DecoderAt(f, h, x, j, v, c + 1)'
        /\ c = 12 + N(f) /\ h # "other" =>
               /\ Len(accepted') = Len(accepted) + 1
               /\ Gives(accepted'[Len(accepted')], f, h)
        /\ c # 12 + N(f) \/ h = "other" => accepted' = accepted
    BY <1>12, <2>1, StopStep
  <2>3. CASE c = 12 + N(f) /\ h # "other"
    <3>1. ~(c + 1 < 13 + N(f)) BY <1>1, <2>3
    <3>2. Gives(accepted'[Len(accepted')], f, h) BY <2>2, <2>3
    <3>3. Gives(accepted[Len(accepted)], f, h)' BY <3>2 DEF Gives, Carries
    <3>4. Len(accepted') = before' + 1 BY <1>2, <2>2, <2>3
    <3> QED BY <2>2, <2>3, <3>1, <3>3, <3>4 DEF Outcome
  <2>4. CASE ~(c = 12 + N(f) /\ h # "other")
    <3>1. h = "other" \/ c < 12 + N(f) BY <1>1, <1>12, <2>4
    <3> QED BY <1>3, <2>2, <2>4, <3>1
  <2> QED BY <2>3, <2>4
<1>13. \/ c \in 0 .. 1 \/ c \in 2 .. 5 \/ c = 6 \/ c \in 7 .. 6 + N(f)
       \/ c \in 7 + N(f) .. 8 + N(f) \/ c = 9 + N(f) \/ c = 10 + N(f)
       \/ c \in 11 + N(f) .. 12 + N(f)
  BY <1>1
<1> QED BY <1>4, <1>5, <1>6, <1>7, <1>8, <1>9, <1>10, <1>11, <1>12, <1>13

LEMMA FramePolled ==
    ASSUME NEW f \in FrameNo, NEW h, NEW m \in 1 .. 13 + N(f), NEW x, NEW j, NEW v,
           NEW c \in 0 .. m, FrameAt(f, h, x, j, v, c, m), TypeInv, TypeInv', PollByte
    PROVE  c + 1 \in 0 .. m /\ FrameAt(f, h, x, j, v, c + 1, m)'
<1>1. N(f) \in Nat /\ m \in Nat BY FrameLen
<1>2. Types /\ Decoded /\ Decoded' BY DEF TypeInv, Types, Decoded
<1>3. line # <<>> /\ Read(Head(line)) /\ line' = Tail(line)
      /\ UNCHANGED <<sending, byte_no, harm, before, quiet>>
  BY DEF PollByte, sender, history
<1>4. /\ Head(line) \in Byte
      /\ Len(line) \in Nat /\ Len(line) > 0 /\ Head(line) = line[1]
      /\ Len(line') = Len(line) - 1
      /\ \A i \in 1 .. Len(line') : line'[i] = line[i + 1]
  BY <1>2, <1>3, TakenTypes
<1>5. Len(line) = m - c /\ \A i \in 1 .. Len(line) : line[i] = Came(f, x, j, v, c + i)
  BY DEF FrameAt, Waiting
<1>6. c + 1 \in 0 .. m /\ c \in 0 .. 12 + N(f) BY <1>1, <1>4, <1>5
<1>7. Head(line) = Came(f, x, j, v, c + 1)
  <2>1. 1 \in 1 .. Len(line) BY <1>4
  <2> QED BY <1>4, <1>5, <2>1
<1>8. Hit(f, h, m, x, j, v) /\ DecoderAt(f, h, x, j, v, c) /\ Outcome(f, h, c)
  BY DEF FrameAt
<1>9. DecoderAt(f, h, x, j, v, c + 1)' /\ Outcome(f, h, c + 1)'
  BY <1>1, <1>2, <1>3, <1>4, <1>6, <1>7, <1>8, FrameRead
<1>10. Waiting(f, x, j, v, c + 1, m)'
  <2>1. Len(line') = m - (c + 1) BY <1>1, <1>4, <1>5
  <2>2. \A i \in 1 .. Len(line') : line'[i] = Came(f, x, j, v, (c + 1) + i)
    <3> SUFFICES ASSUME NEW i \in 1 .. Len(line')
                 PROVE  line'[i] = Came(f, x, j, v, (c + 1) + i)
      OBVIOUS
    <3>1. i + 1 \in 1 .. Len(line) /\ c + (i + 1) = (c + 1) + i BY <1>4
    <3> QED BY <1>4, <1>5, <3>1
  <2> QED BY <1>6, <2>1, <2>2 DEF Waiting
<1> QED BY <1>3, <1>6, <1>8, <1>9, <1>10 DEF FrameAt

\* The next byte of the frame is put on the line, as it is or, if none was
\* changed before, changed.
LEMMA FramePut ==
    ASSUME NEW f \in FrameNo, NEW h, NEW m \in Nat, NEW x, NEW j, NEW v, NEW c \in 0 .. m,
           FrameAt(f, h, x, j, v, c, m), m + 1 \in 1 .. 13 + N(f), line \in Seq(Byte),
           NEW g, NEW k, NEW u, Hit(f, g, m + 1, x, k, u),
           (g = h /\ k = j /\ u = v) \/ (h = "none" /\ k = m + 1),
           NEW b, b = Came(f, x, k, u, m + 1), b \in Byte, Put(b),
           sending' = f, byte_no' = m + 1, harm' = g, UNCHANGED <<decoder, accepted, before>>
    PROVE  FrameAt(f, g, x, k, u, c, m + 1)'
<1>1. N(f) \in Nat BY FrameLen
<1>2. Hit(f, h, m, x, j, v) /\ Waiting(f, x, j, v, c, m) /\ DecoderAt(f, h, x, j, v, c)
      /\ Outcome(f, h, c)
  BY DEF FrameAt
<1>3. line' = Append(line, b) /\ quiet' = 0 BY DEF Put
<1>4. UNCHANGED <<state, covered, data, crc_received, accepted, before>> BY DEF decoder
<1>5. \A i \in 1 .. m : Came(f, x, k, u, i) = Came(f, x, j, v, i)
  <2>1. CASE k = j /\ u = v BY <2>1
  <2>2. CASE h = "none" /\ k = m + 1
    <3>1. j = 0 BY <1>2, <2>2, HitPlace
    <3> QED BY <2>2, <3>1 DEF Came
  <2> QED BY <2>1, <2>2
<1>6. Waiting(f, x, k, u, c, m + 1)'
  <2>1. Len(line) = m - c /\ \A i \in 1 .. Len(line) : line[i] = Came(f, x, j, v, c + i)
    BY <1>2 DEF Waiting
  <2>2. Len(line') = Len(line) + 1 /\ (\A i \in 1 .. Len(line) : line'[i] = line[i])
        /\ line'[Len(line) + 1] = b
    BY <1>3, AppendProperties
  <2>3. Len(line') = (m + 1) - c BY <2>1, <2>2
  <2>4. \A i \in 1 .. Len(line') : line'[i] = Came(f, x, k, u, c + i)
    <3> SUFFICES ASSUME NEW i \in 1 .. Len(line') PROVE line'[i] = Came(f, x, k, u, c + i)
      OBVIOUS
    <3>1. CASE i = Len(line) + 1
      <4>1. c + i = m + 1 BY <2>1, <3>1
      <4> QED BY <2>2, <3>1, <4>1
    <3>2. CASE i # Len(line) + 1
      <4>1. i \in 1 .. Len(line) /\ c + i \in 1 .. m BY <2>1, <2>2, <3>2
      <4> QED BY <1>5, <2>1, <2>2, <4>1
    <3> QED BY <3>1, <3>2
  <2>5. c \in 0 .. m + 1 OBVIOUS
  <2> QED BY <2>3, <2>4, <2>5 DEF Waiting
<1>7. Refused(f, g, k, c) <=> Refused(f, h, j, c)
  <2>1. CASE g = h /\ k = j BY <2>1
  <2>2. CASE h = "none" /\ k = m + 1
    <3>1. ~(k <= c) BY <2>2
    <3> QED BY <2>2, <3>1 DEF Refused
  <2> QED BY <2>1, <2>2
<1>8. c \in 11 + N(f) .. 13 + N(f) => (g = "data" <=> h = "data")
  <2>1. CASE g = h BY <2>1
  <2>2. CASE h = "none" /\ k = m + 1
    <3>1. g = "data" => k \in 8 .. 7 + N(f) BY HitPlace
    <3>2. c \in 11 + N(f) .. 13 + N(f) => k > 7 + N(f) BY <1>1, <2>2
    <3> QED BY <1>1, <2>2, <3>1, <3>2
  <2> QED BY <2>1, <2>2
<1>9. DecoderAt(f, g, x, k, u, c)'
  <2>1. CASE Refused(f, h, j, c) BY <1>2, <1>4, <1>7, <2>1 DEF DecoderAt
  <2>2. CASE ~Refused(f, h, j, c)
    <3>1. state' = Place(f, c) BY <1>2, <1>4, <2>2 DEF DecoderAt
    <3>2. c \in 1 .. 10 + N(f) => ReadSoFar(f, x, k, u, c)'
      <4> SUFFICES ASSUME c \in 1 .. 10 + N(f) PROVE ReadSoFar(f, x, k, u, c)' OBVIOUS
      <4>1. Len(covered) = CoveredLen(f, c)
            /\ \A i \in 1 .. Len(covered) : covered[i] = Came(f, x, j, v, i + 2)
        BY <1>2, <2>2 DEF DecoderAt, ReadSoFar
      <4>2. \A i \in 1 .. CoveredLen(f, c) : i + 2 \in 1 .. m BY <1>1 DEF CoveredLen
      <4>3. \A i \in 1 .. Len(covered) : covered[i] = Came(f, x, k, u, i + 2)
        BY <1>5, <4>1, <4>2
      <4> QED BY <1>4, <4>1, <4>3 DEF ReadSoFar
    <3>3. c = 10 + N(f) => crc_received' = <<Came(f, x, k, u, c)>>
      <4>1. c = 10 + N(f) => crc_received = <<Came(f, x, j, v, c)>> /\ c \in 1 .. m
        BY <1>1, <1>2, <2>2 DEF DecoderAt
      <4> QED BY <1>4, <1>5, <4>1
    <3>4. c \in 11 + N(f) .. 12 + N(f) => Gives(Got, f, g)'
      <4> SUFFICES ASSUME c \in 11 + N(f) .. 12 + N(f) PROVE Gives(Got, f, g)' OBVIOUS
      <4>1. Gives(Got, f, h) BY <1>2, <2>2 DEF DecoderAt
      <4>2. g = "data" <=> h = "data" BY <1>1, <1>8
      <4>3. Got' = Got BY <1>4 DEF Got
      <4> QED BY <4>1, <4>2, <4>3 DEF Gives, Carries
    <3> QED BY <1>7, <2>2, <3>1, <3>2, <3>3, <3>4 DEF DecoderAt
  <2> QED BY <2>1, <2>2
<1>10. Outcome(f, g, c)'
  <2>1. c < 13 + N(f) BY <1>1
  <2> QED BY <1>2, <1>4, <2>1 DEF Outcome
<1>11. ~(quiet' > Timeout) BY <1>3, DecoderAssumption
<1> QED BY <1>6, <1>9, <1>10, <1>11 DEF FrameAt

\* The first byte of a frame, for which the decoder waits.
LEMMA FrameBegins ==
    ASSUME NEW f \in FrameNo, NEW x \in Starting, Ready, Put(Number(x)), accepted \in Seq(Handed),
           sending' = f, byte_no' = 1, harm' = "none", before' = Len(accepted),
           UNCHANGED <<decoder, accepted>>
    PROVE  FrameAt(f, "none", x, 0, 0, 0, 1)'
<1>1. N(f) \in Nat BY FrameLen
<1>2. line = <<>> /\ state = "START1" BY DEF Ready
<1>3. line' = Append(line, Number(x)) /\ quiet' = 0 BY DEF Put
<1>4. Hit(f, "none", 1, x, 0, 0) BY DEF Hit, HitAt
<1>5. Waiting(f, x, 0, 0, 0, 1)'
  <2>1. Len(line') = 1 /\ line'[1] = Number(x) BY <1>2, <1>3
  <2>2. Came(f, x, 0, 0, 0 + 1) = Number(x) BY DEF Came
  <2>3. \A i \in 1 .. 1 : i = 1 OBVIOUS
  <2> QED BY <2>1, <2>2, <2>3 DEF Waiting
<1>6. DecoderAt(f, "none", x, 0, 0, 0)'
  <2>1. state' = Place(f, 0) BY <1>2, Places DEF decoder
  <2>2. 0 \notin 1 .. 10 + N(f) /\ 0 # 10 + N(f) /\ 0 \notin 11 + N(f) .. 12 + N(f) BY <1>1
  <2>3. ~Refused(f, "none", 0, 0) BY DEF Refused
  <2> QED BY <2>1, <2>2, <2>3 DEF DecoderAt
<1>7. Outcome(f, "none", 0)'
  <2>1. 0 < 13 + N(f) BY <1>1
  <2> QED BY <2>1 DEF Outcome
<1>8. ~(quiet' > Timeout) BY <1>3, DecoderAssumption
<1> QED BY <1>4, <1>5, <1>6, <1>7, <1>8 DEF FrameAt

\* DecoderAt is about the decoder alone.
LEMMA Same ==
    ASSUME NEW f, NEW h, NEW x, NEW j, NEW v, NEW c, DecoderAt(f, h, x, j, v, c),
           UNCHANGED <<state, covered, data, crc_received>>
    PROVE  DecoderAt(f, h, x, j, v, c)'
<1>1. ReadSoFar(f, x, j, v, c) => ReadSoFar(f, x, j, v, c)' BY DEF ReadSoFar
<1>2. Gives(Got, f, h) => Gives(Got, f, h)' BY DEF Got, Gives, Carries
<1> QED BY <1>1, <1>2 DEF DecoderAt

\* One frame follows from one that the sender goes on with, or begins.
LEMMA FollowingNow ==
    ASSUME Following, harm # "much"
    PROVE  \E f \in FrameNo, h \in {"none", "data", "other"} : \E m \in 1 .. 13 + N(f) :
              \E c \in 0 .. m, x \in Starting, j \in 0 .. m, v \in Noise \cup {0} :
                  FrameAt(f, h, x, j, v, c, m)
BY DEF Following

LEMMA FollowingThen ==
    ASSUME NEW f \in FrameNo, NEW h, NEW m \in 1 .. 13 + N(f), NEW c \in 0 .. m,
           NEW x \in Starting, NEW j, NEW v \in Noise \cup {0}, FrameAt(f, h, x, j, v, c, m)'
    PROVE  Following'
<1>1. Hit(f, h, m, x, j, v) BY DEF FrameAt
<1>2. m \in Nat BY FrameLen
<1>3. h \in {"none", "data", "other"} BY <1>1 DEF Hit
<1>4. j \in 0 .. m
  <2>1. j \in Nat /\ j <= m BY <1>1, <1>2, HitPlace
  <2> QED BY <1>2, <2>1
<1> QED BY <1>3, <1>4 DEF Following

\* What NextByte does to a frame that is followed.
LEMMA NextOfFrame ==
    ASSUME Types, NEW f \in FrameNo, NEW h, NEW m \in 1 .. 13 + N(f), NEW x, NEW j, NEW v,
           NEW c, FrameAt(f, h, x, j, v, c, m), NextByte, byte_no' > 1
    PROVE  /\ m + 1 \in 1 .. 13 + N(f) /\ sending' = f /\ byte_no' = m + 1
           /\ This = W(f)[m + 1] /\ Harm = h /\ Before = before
<1>1. N(f) \in Nat BY FrameLen
<1>2. sending = f /\ byte_no = m /\ harm = h BY DEF FrameAt
<1>3. Len(Current) = 13 + N(f) BY <1>2, WireParts DEF Current, W
<1>4. byte_no < Len(Current) /\ sending' = f /\ byte_no' = m + 1
  <2>1. byte_no < Len(Current) BY DEF NextByte
  <2> QED BY <1>2, <2>1 DEF NextByte
<1>5. m + 1 \in 1 .. 13 + N(f) BY <1>1, <1>2, <1>3, <1>4
<1>6. This = W(f)[m + 1] BY <1>4 DEF This, W
<1> QED BY <1>2, <1>4, <1>5, <1>6 DEF Harm, Before

LEMMA SendByteFollows == ASSUME TypeInv, Following, SendByte PROVE Following'
<1>1. NextByte /\ Put(This) /\ harm' = Harm /\ before' = Before
      /\ UNCHANGED <<decoder, accepted>>
  BY DEF SendByte
<1>2. Types /\ line \in Seq(Byte) /\ accepted \in Seq(Handed) BY DEF TypeInv, Types
<1>3. sending' \in FrameNo /\ byte_no' \in Nat /\ This \in Byte
      /\ byte_no' \in 1 .. 13 + N(sending')
  BY <1>1, <1>2, NextByteTypes DEF N
<1>4. SUFFICES ASSUME harm' # "much" PROVE Following' BY DEF Following
<1>5. CASE byte_no' > 1
  <2>1. harm # "much" BY <1>1, <1>4, <1>5 DEF Harm
  <2>2. PICK f \in FrameNo, h \in {"none", "data", "other"} : \E m \in 1 .. 13 + N(f) :
           \E c \in 0 .. m, x \in Starting, j \in 0 .. m, v \in Noise \cup {0} :
               FrameAt(f, h, x, j, v, c, m)
    BY <2>1, FollowingNow
  <2>3. PICK m \in 1 .. 13 + N(f) :
           \E c \in 0 .. m, x \in Starting, j \in 0 .. m, v \in Noise \cup {0} :
               FrameAt(f, h, x, j, v, c, m)
    BY <2>2
  <2>4. PICK c \in 0 .. m, x \in Starting, j \in 0 .. m, v \in Noise \cup {0} :
           FrameAt(f, h, x, j, v, c, m)
    BY <2>3
  <2>5. /\ m + 1 \in 1 .. 13 + N(f) /\ sending' = f /\ byte_no' = m + 1
        /\ This = W(f)[m + 1] /\ Harm = h /\ Before = before
    BY <1>1, <1>2, <1>5, <2>4, NextOfFrame
  <2>6. N(f) \in Nat /\ m \in Nat BY FrameLen
  <2>7. Hit(f, h, m, x, j, v) BY <2>4 DEF FrameAt
  <2>8. Hit(f, h, m + 1, x, j, v)
    <3>1. j <= m + 1 BY <2>6
    <3> QED BY <2>7, <3>1 DEF Hit
  <2>9. This = Came(f, x, j, v, m + 1)
    <3>1. m + 1 # 1 /\ m + 1 # j BY <2>6
    <3> QED BY <2>5, <3>1 DEF Came
  <2>10. harm' = h /\ before' = before BY <1>1, <2>5
  <2>11. FrameAt(f, h, x, j, v, c, m + 1)'
    <3>1. UNCHANGED <<decoder, accepted, before>> BY <1>1, <2>10
    <3> QED BY <1>1, <1>2, <1>3, <2>4, <2>5, <2>6, <2>8, <2>9, <2>10, <3>1, FramePut
  <2>12. c \in 0 .. m + 1 BY <2>6
  <2> QED BY <2>5, <2>11, <2>12, FollowingThen
<1>6. CASE ~(byte_no' > 1)
  <2>1. byte_no' = 1 BY <1>3, <1>6
  <2>2. Harm = "none" /\ Ready /\ Before = Len(accepted)
    BY <1>1, <1>4, <1>6 DEF Harm, Before
  <2>3. This = Number(START1) BY <1>3, <2>1, WireParts DEF This, W
  <2>4. START1 \in Starting BY DEF START1, Starting
  <2>5. PICK f \in FrameNo : f = sending' BY <1>3
  <2>6. Put(Number(START1)) BY <1>1, <2>3
  <2>7. FrameAt(f, "none", START1, 0, 0, 0, 1)'
    BY <1>1, <1>2, <2>1, <2>2, <2>4, <2>5, <2>6, FrameBegins
  <2>8. 1 \in 1 .. 13 + N(f) /\ 0 \in 0 .. 1 BY FrameLen
  <2> QED BY <2>4, <2>7, <2>8, FollowingThen
<1> QED BY <1>5, <1>6

LEMMA ChangeFollows ==
    ASSUME TypeInv, Following, NEW u \in Noise, Change(u) PROVE Following'
<1>1. NextByte /\ Put(Number(u)) /\ harm' = Harmed(u) /\ before' = Before
      /\ Number(u) # This /\ UNCHANGED <<decoder, accepted>>
  BY DEF Change
<1>2. Types /\ line \in Seq(Byte) /\ accepted \in Seq(Handed) BY DEF TypeInv, Types
<1>3. sending' \in FrameNo /\ byte_no' \in Nat /\ byte_no' \in 1 .. 13 + N(sending')
  BY <1>1, <1>2, NextByteTypes DEF N
<1>4. SUFFICES ASSUME harm' # "much" PROVE Following' BY DEF Following
<1>5. Harm = "none" BY <1>1, <1>4 DEF Harmed
<1>6. CASE byte_no' > 1
  <2>1. harm # "much" BY <1>5, <1>6 DEF Harm
  <2>2. PICK f \in FrameNo, h \in {"none", "data", "other"} : \E m \in 1 .. 13 + N(f) :
           \E c \in 0 .. m, x \in Starting, j \in 0 .. m, v \in Noise \cup {0} :
               FrameAt(f, h, x, j, v, c, m)
    BY <2>1, FollowingNow
  <2>3. PICK m \in 1 .. 13 + N(f) :
           \E c \in 0 .. m, x \in Starting, j \in 0 .. m, v \in Noise \cup {0} :
               FrameAt(f, h, x, j, v, c, m)
    BY <2>2
  <2>4. PICK c \in 0 .. m, x \in Starting, j \in 0 .. m, v \in Noise \cup {0} :
           FrameAt(f, h, x, j, v, c, m)
    BY <2>3
  <2>5. /\ m + 1 \in 1 .. 13 + N(f) /\ sending' = f /\ byte_no' = m + 1
        /\ This = W(f)[m + 1] /\ Harm = h /\ Before = before
    BY <1>1, <1>2, <1>6, <2>4, NextOfFrame
  <2>6. N(f) \in Nat /\ m \in Nat BY FrameLen
  <2>7. h = "none" BY <1>5, <2>5
  <2> DEFINE g == harm'
             k == m + 1
  <2>8. k \notin 1 .. 3 \cup {7} /\ g = IF k \in 8 .. 7 + N(f) THEN "data" ELSE "other"
    <3>1. byte_no' # 1 BY <1>3, <1>6
    <3>2. byte_no' \notin 1 .. 3 \cup {7} BY <1>1, <1>4, <3>1 DEF Harmed, LengthAt
    <3>3. harm' = IF byte_no' \in DataAt(Frames[sending']) THEN "data" ELSE "other"
      BY <1>1, <1>5, <3>1, <3>2 DEF Harmed, LengthAt
    <3> QED BY <2>5, <3>2, <3>3 DEF DataAt, N
  <2>9. PICK a \in {"data", "other"} : a = harm' BY <2>8
  <2>10. k \in HitAt(f, a)
    <3>1. a = "data" => k \in 8 .. 7 + N(f) BY <2>8, <2>9
    <3>2. a = "other" => k \in (4 .. 6) \cup (8 + N(f) .. 13 + N(f))
      <4>1. a = "other" => k \notin 8 .. 7 + N(f) BY <2>8, <2>9
      <4> QED BY <2>5, <2>6, <2>8, <4>1
    <3> QED BY <3>1, <3>2 DEF HitAt
  <2>11. Hit(f, a, k, x, k, u) BY <1>1, <2>5, <2>6, <2>10 DEF Hit
  <2>12. Number(u) = Came(f, x, k, u, k)
    <3>1. k # 1 BY <2>6
    <3> QED BY <3>1 DEF Came
  <2>13. Number(u) \in Byte BY NoiseIsByte
  <2>14. UNCHANGED <<decoder, accepted, before>> BY <1>1, <2>5
  <2>15. FrameAt(f, a, x, k, u, c, m + 1)'
    BY <1>1, <1>2, <2>4, <2>5, <2>6, <2>7, <2>9, <2>11, <2>12, <2>13, <2>14, FramePut
  <2>16. c \in 0 .. m + 1 BY <2>6
  <2> QED BY <2>5, <2>15, <2>16, FollowingThen
<1>7. CASE ~(byte_no' > 1)
  <2>1. byte_no' = 1 BY <1>3, <1>7
  <2>2. Ready /\ Before = Len(accepted) BY <1>5, <1>7 DEF Harm, Before
  <2>3. u \in Starting /\ harm' = "none"
    <3>1. byte_no' \in 1 .. 3 \cup {LengthAt} BY <2>1
    <3> QED BY <1>1, <1>4, <1>5, <2>1, <3>1 DEF Harmed
  <2>4. PICK f \in FrameNo : f = sending' BY <1>3
  <2>5. FrameAt(f, "none", u, 0, 0, 0, 1)'
    BY <1>1, <1>2, <2>1, <2>2, <2>3, <2>4, FrameBegins
  <2>6. 1 \in 1 .. 13 + N(f) /\ 0 \in 0 .. 1 BY FrameLen
  <2> QED BY <2>3, <2>5, <2>6, FollowingThen
<1> QED BY <1>6, <1>7

\* Time passes: a frame that is followed has no long pause in it.
LEMMA TickFollows == ASSUME TypeInv, Following, Tick PROVE Following'
<1>1. UNCHANGED <<sending, byte_no, line, state, covered, data, crc_received, accepted, before>>
      /\ harm' = IF byte_no < Len(Current) /\ quiet' > Timeout THEN "much" ELSE harm
  BY DEF Tick, sender, decoder
<1>2. SUFFICES ASSUME harm' # "much" PROVE Following' BY DEF Following
<1>3. harm # "much" /\ harm' = harm /\ ~(byte_no < Len(Current) /\ quiet' > Timeout)
  BY <1>1, <1>2
<1>4. PICK f \in FrameNo, h \in {"none", "data", "other"} : \E m \in 1 .. 13 + N(f) :
         \E c \in 0 .. m, x \in Starting, j \in 0 .. m, v \in Noise \cup {0} :
             FrameAt(f, h, x, j, v, c, m)
  BY <1>3, FollowingNow
<1>5. PICK m \in 1 .. 13 + N(f) :
         \E c \in 0 .. m, x \in Starting, j \in 0 .. m, v \in Noise \cup {0} :
             FrameAt(f, h, x, j, v, c, m)
  BY <1>4
<1>6. PICK c \in 0 .. m, x \in Starting, j \in 0 .. m, v \in Noise \cup {0} :
         FrameAt(f, h, x, j, v, c, m)
  BY <1>5
<1>7. N(f) \in Nat BY FrameLen
<1>8. quiet' > Timeout => m = 13 + N(f)
  <2>1. sending = f /\ byte_no = m BY <1>6 DEF FrameAt
  <2>2. Len(Current) = 13 + N(f) BY <2>1, WireParts DEF Current, W
  <2> QED BY <1>3, <1>7, <2>1, <2>2
<1>9. FrameAt(f, h, x, j, v, c, m)'
  <2>1. Waiting(f, x, j, v, c, m)' BY <1>1, <1>6 DEF FrameAt, Waiting
  <2>2. DecoderAt(f, h, x, j, v, c)' BY <1>1, <1>6, Same DEF FrameAt
  <2>3. Outcome(f, h, c)' BY <1>1, <1>6 DEF FrameAt, Outcome
  <2> QED BY <1>1, <1>3, <1>6, <1>8, <2>1, <2>2, <2>3 DEF FrameAt
<1> QED BY <1>9, FollowingThen

LEMMA PollByteFollows ==
    ASSUME TypeInv, TypeInv', Following, PollByte PROVE Following'
<1>1. harm' = harm BY DEF PollByte, history
<1>2. SUFFICES ASSUME harm # "much" PROVE Following' BY <1>1 DEF Following
<1>3. PICK f \in FrameNo, h \in {"none", "data", "other"} : \E m \in 1 .. 13 + N(f) :
         \E c \in 0 .. m, x \in Starting, j \in 0 .. m, v \in Noise \cup {0} :
             FrameAt(f, h, x, j, v, c, m)
  BY <1>2, FollowingNow
<1>4. PICK m \in 1 .. 13 + N(f) :
         \E c \in 0 .. m, x \in Starting, j \in 0 .. m, v \in Noise \cup {0} :
             FrameAt(f, h, x, j, v, c, m)
  BY <1>3
<1>5. PICK c \in 0 .. m, x \in Starting, j \in 0 .. m, v \in Noise \cup {0} :
         FrameAt(f, h, x, j, v, c, m)
  BY <1>4
<1>6. c + 1 \in 0 .. m /\ FrameAt(f, h, x, j, v, c + 1, m)' BY <1>5, FramePolled
<1> QED BY <1>6, FollowingThen

\* No frame that is followed is given up for a timeout.
LEMMA PollTimeoutFollows == ASSUME TypeInv, Following, PollTimeout PROVE Following'
<1>1. harm' = harm /\ line = <<>> /\ state # "START1" /\ age > Timeout
  BY DEF PollTimeout, history
<1>2. SUFFICES ASSUME harm # "much" PROVE FALSE BY <1>1 DEF Following
<1>3. PICK f \in FrameNo, h \in {"none", "data", "other"} : \E m \in 1 .. 13 + N(f) :
         \E c \in 0 .. m, x \in Starting, j \in 0 .. m, v \in Noise \cup {0} :
             FrameAt(f, h, x, j, v, c, m)
  BY <1>2, FollowingNow
<1>4. PICK m \in 1 .. 13 + N(f) :
         \E c \in 0 .. m, x \in Starting, j \in 0 .. m, v \in Noise \cup {0} :
             FrameAt(f, h, x, j, v, c, m)
  BY <1>3
<1>5. PICK c \in 0 .. m, x \in Starting, j \in 0 .. m, v \in Noise \cup {0} :
         FrameAt(f, h, x, j, v, c, m)
  BY <1>4
<1>6. N(f) \in Nat BY FrameLen
<1>7. quiet > Timeout
  <2>1. age <= quiet /\ age \in Nat /\ quiet \in Nat /\ Timeout \in Nat
    BY <1>1, DecoderAssumption DEF TypeInv, Types, Silence
  <2> QED BY <1>1, <2>1
<1>8. m = 13 + N(f) BY <1>5, <1>7 DEF FrameAt
<1>9. c = m
  <2>1. Len(line) = m - c BY <1>5 DEF FrameAt, Waiting
  <2>2. Len(line) = 0 BY <1>1
  <2> QED BY <1>6, <2>1, <2>2
<1>10. state = "START1"
  <2>1. DecoderAt(f, h, x, j, v, 13 + N(f)) BY <1>5, <1>8, <1>9 DEF FrameAt
  <2> QED BY <2>1, Places DEF DecoderAt
<1> QED BY <1>1, <1>10

LEMMA FollowingStep == TypeInv /\ TypeInv' /\ Following /\ [Next]_vars => Following'
<1> SUFFICES ASSUME TypeInv, TypeInv', Following, [Next]_vars PROVE Following' OBVIOUS
<1>1. CASE SendByte BY <1>1, SendByteFollows
<1>2. CASE Lose BY <1>2 DEF Lose, Following
<1>3. ASSUME NEW v \in Noise, Change(v) PROVE Following' BY <1>3, ChangeFollows
<1>4. ASSUME NEW v \in Noise, Insert(v) PROVE Following' BY <1>4 DEF Insert, Following
<1>5. CASE Tick BY <1>5, TickFollows
<1>6. CASE PollByte BY <1>6, PollByteFollows
<1>7. CASE PollTimeout BY <1>7, PollTimeoutFollows
<1>8. CASE UNCHANGED vars
  <2>1. UNCHANGED <<sending, byte_no, line, state, covered, data, crc_received, accepted,
                    harm, before, quiet>>
    BY <1>8 DEF vars, sender, decoder, history
  <2>2. SUFFICES ASSUME harm # "much" PROVE Following' BY <2>1 DEF Following
  <2>3. PICK f \in FrameNo, h \in {"none", "data", "other"} : \E m \in 1 .. 13 + N(f) :
           \E c \in 0 .. m, x \in Starting, j \in 0 .. m, v \in Noise \cup {0} :
               FrameAt(f, h, x, j, v, c, m)
    BY <2>2, FollowingNow
  <2>4. PICK m \in 1 .. 13 + N(f) :
           \E c \in 0 .. m, x \in Starting, j \in 0 .. m, v \in Noise \cup {0} :
               FrameAt(f, h, x, j, v, c, m)
    BY <2>3
  <2>5. PICK c \in 0 .. m, x \in Starting, j \in 0 .. m, v \in Noise \cup {0} :
           FrameAt(f, h, x, j, v, c, m)
    BY <2>4
  <2>6. Waiting(f, x, j, v, c, m)' BY <2>1, <2>5 DEF FrameAt, Waiting
  <2>7. DecoderAt(f, h, x, j, v, c)' BY <2>1, <2>5, Same DEF FrameAt
  <2>8. Outcome(f, h, c)' BY <2>1, <2>5 DEF FrameAt, Outcome
  <2>9. FrameAt(f, h, x, j, v, c, m)' BY <2>1, <2>5, <2>6, <2>7, <2>8 DEF FrameAt
  <2> QED BY <2>9, FollowingThen
<1> QED BY <1>1, <1>2, <1>3, <1>4, <1>5, <1>6, <1>7, <1>8 DEF Next

\* What becomes of every frame that the decoder waited for, whatever the line
\* did before it and however late the task polls: FrameOutcome holds of every
\* behaviour, for any frames, any changed bytes and any length of data.
THEOREM OutcomeOfFrame == Spec => []FrameOutcome
<1>1. Init => Following BY DEF Init, Following
<1>2. Following => FrameOutcome
  <2> SUFFICES ASSUME Following, byte_no = Len(Current), line = <<>>, harm # "much"
               PROVE  /\ harm = "other" => Len(accepted) = before
                      /\ harm # "other" =>
                            /\ Len(accepted) = before + 1
                            /\ Carries(accepted[Len(accepted)], Frames[sending])
                            /\ accepted[Len(accepted)].repaired = (harm = "data")
    BY DEF FrameOutcome
  <2>1. PICK f \in FrameNo, h \in {"none", "data", "other"} : \E m \in 1 .. 13 + N(f) :
           \E c \in 0 .. m, x \in Starting, j \in 0 .. m, v \in Noise \cup {0} :
               FrameAt(f, h, x, j, v, c, m)
    BY FollowingNow
  <2>2. PICK m \in 1 .. 13 + N(f) :
           \E c \in 0 .. m, x \in Starting, j \in 0 .. m, v \in Noise \cup {0} :
               FrameAt(f, h, x, j, v, c, m)
    BY <2>1
  <2>3. PICK c \in 0 .. m, x \in Starting, j \in 0 .. m, v \in Noise \cup {0} :
           FrameAt(f, h, x, j, v, c, m)
    BY <2>2
  <2>4. N(f) \in Nat BY FrameLen
  <2>5. sending = f /\ harm = h /\ byte_no = m BY <2>3 DEF FrameAt
  <2>6. m = 13 + N(f) BY <2>5, WireParts DEF Current, W
  <2>7. c = m
    <3>1. Len(line) = m - c BY <2>3 DEF FrameAt, Waiting
    <3>2. Len(line) = 0 OBVIOUS
    <3> QED BY <2>4, <3>1, <3>2
  <2>8. Outcome(f, h, 13 + N(f)) /\ ~(13 + N(f) < 13 + N(f))
    BY <2>3, <2>4, <2>6, <2>7 DEF FrameAt
  <2>9. CASE h = "other" BY <2>5, <2>8, <2>9 DEF Outcome
  <2>10. CASE h # "other" BY <2>5, <2>8, <2>10 DEF Outcome, Gives
  <2> QED BY <2>5, <2>9, <2>10
<1> QED BY <1>1, <1>2, InitTypes, TypesStep, FollowingStep, PTL DEF Spec

=============================================================================
