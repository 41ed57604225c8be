---------------------------- MODULE Uart_proofs ----------------------------
(***************************************************************************)
(* Proofs about Uart, for any set of writers, any size of the rings and    *)
(* any bytes: its types; that transmission never stalls; that one writer's *)
(* bytes leave in order and once; that received bytes are read in order    *)
(* and once.                                                               *)
(***************************************************************************)
EXTENDS Uart, SequenceTheorems, TLAPS

-----------------------------------------------------------------------------
(* The inductive invariant                                                 *)

\* tx_busy is set only while the interrupt is enabled or about to be.
BusyIsServed == tx_busy => txie \/ \E w \in Writer : pc[w] \in {"ready", "send", "enable"}

\* A writer in its loop has bytes left, and WriteByte writes one only.
Putting == {"head", "room", "wait", "store", "commit"}
InCall ==
    \A w \in Writer :
        /\ length[w] <= made[w]
        /\ ~many[w] => length[w] <= 1
        /\ pc[w] \in Putting => written[w] < length[w]

IInv == TypeOK /\ InCall /\ BusyIsServed /\ NoStall

-----------------------------------------------------------------------------
(* Lemmas                                                                  *)

\* An index stays in its ring.
LEMMA WrapInSlot == ASSUME NEW i \in Slot PROVE Wrap(i + 1) \in Slot
BY UartAssumption DEF Wrap, Slot

\* The bytes that a writer offers are values of the rings.
LEMMA ByteIsValue == ASSUME TypeOK, InCall, NEW w \in Writer PROVE Byte(w) \in ByteValue
<1>1. length[w] \in Nat /\ written[w] \in Nat /\ made[w] \in Nat BY DEF TypeOK
<1>2. length[w] <= made[w] BY DEF InCall
<1>3. made[w] - length[w] + written[w] + 1 \in Nat BY <1>1, <1>2
<1> QED BY <1>3 DEF Byte, ByteValue

LEMMA InitTypeOK == Init => TypeOK
<1> SUFFICES ASSUME Init PROVE TypeOK OBVIOUS
<1>1. 0 \in Slot /\ Patience \in Nat BY UartAssumption DEF Slot
<1>2. Zero \in ByteValue BY DEF ByteValue
<1>3. slot \in [Ring -> [Slot -> ByteValue]] BY <1>2 DEF Init
<1>4. thr \in Seq(ByteValue) /\ Len(thr) <= 1 BY DEF Init
<1>5. accepted \in Seq(ByteValue) /\ sent \in Seq(ByteValue)
      /\ stored \in Seq(ByteValue) /\ got \in Seq(ByteValue)
  BY DEF Init
<1>6. pc \in [Writer -> WriterPlace] BY DEF Init, WriterPlace
<1>7. tries \in [Writer -> 0 .. Patience] BY <1>1 DEF Init
<1> QED BY <1>1, <1>2, <1>3, <1>4, <1>5, <1>6, <1>7 DEF Init, TypeOK

\* What a step leaves alone keeps its type.
LEMMA TypeStutter == TypeOK /\ UNCHANGED vars => TypeOK'
BY DEF TypeOK, vars, rings, port, call, writers, reader, reception

\* The types after a step of a writer.
LEMMA TypeWrite ==
    ASSUME TypeOK, InCall, NEW w \in Writer, Write(w)
    PROVE  TypeOK'
<1> USE DEF rings, port, call, writers, reader, reception
<1>0. Size \in Nat /\ Size > 1 /\ Patience \in Nat BY UartAssumption
<1>a. pc \in [Writer -> WriterPlace] /\ idx \in [Writer -> Slot] /\ head["tx"] \in Slot
      /\ tail["tx"] \in Slot /\ load \in Loads
  BY DEF TypeOK, Ring
<1>b. Wrap(head["tx"] + 1) \in Slot /\ Wrap(idx[w] + 1) \in Slot BY <1>a, WrapInSlot
<1>c. Byte(w) \in ByteValue BY ByteIsValue
<1>1. ASSUME NEW n \in 1 .. load[w], NEW m \in BOOLEAN, Call(w, n, m) PROVE TypeOK'
  <2>1. load[w] \in Nat BY <1>a, UartAssumption
  <2>2. n \in Nat BY <2>1
  <2>3. pc' \in [Writer -> WriterPlace] BY <1>a, <1>1 DEF Call, Goto, WriterPlace
  <2>4. length' \in [Writer -> Nat] /\ written' \in [Writer -> Nat]
        /\ made' \in [Writer -> Nat]
    BY <1>1, <2>2 DEF Call, TypeOK
  <2>5. many' \in [Writer -> BOOLEAN] BY <1>1 DEF Call, TypeOK
  <2>6. tries' \in [Writer -> 0 .. Patience] BY <1>0, <1>1 DEF Call, TypeOK
  <2> QED BY <1>1, <2>3, <2>4, <2>5, <2>6 DEF Call, TypeOK
<1>2. CASE LoadHead(w)
  <2>1. pc' \in [Writer -> WriterPlace] BY <1>a, <1>2 DEF LoadHead, Goto, WriterPlace
  <2>2. idx' \in [Writer -> Slot] BY <1>a, <1>b, <1>2 DEF LoadHead
  <2> QED BY <1>2, <2>1, <2>2 DEF LoadHead, TypeOK
<1>3. CASE HasRoom(w)
  <2>1. pc' \in [Writer -> WriterPlace] BY <1>a, <1>3 DEF HasRoom, Goto, WriterPlace
  <2> QED BY <1>3, <2>1 DEF HasRoom, TypeOK
<1>4. CASE NoRoom(w)
  <2>1. pc' \in [Writer -> WriterPlace] BY <1>a, <1>4 DEF NoRoom, Goto, WriterPlace
  <2> QED BY <1>4, <2>1 DEF NoRoom, TypeOK
<1>5. CASE Retry(w)
  <2>1. pc' \in [Writer -> WriterPlace] BY <1>a, <1>5 DEF Retry, Goto, WriterPlace
  <2>2. tries' \in [Writer -> 0 .. Patience] BY <1>0, <1>5 DEF Retry, TypeOK
  <2> QED BY <1>5, <2>1, <2>2 DEF Retry, TypeOK
<1>6. CASE GiveUp(w)
  <2>1. pc' \in [Writer -> WriterPlace] BY <1>a, <1>6 DEF GiveUp, Goto, WriterPlace
  <2> QED BY <1>6, <2>1 DEF GiveUp, TypeOK
<1>7. CASE Store(w)
  <2>1. pc' \in [Writer -> WriterPlace] BY <1>a, <1>7 DEF Store, Goto, WriterPlace
  <2>2. slot' \in [Ring -> [Slot -> ByteValue]]
    <3>1. slot["tx"] \in [Slot -> ByteValue] BY DEF TypeOK, Ring
    <3>2. [slot["tx"] EXCEPT ![head["tx"]] = Byte(w)] \in [Slot -> ByteValue]
      BY <1>a, <1>c, <3>1
    <3> QED BY <1>7, <3>2 DEF Store, TypeOK
  <2> QED BY <1>7, <2>1, <2>2 DEF Store, TypeOK
<1>8. CASE Commit(w)
  <2>1. pc' \in [Writer -> WriterPlace] BY <1>a, <1>8 DEF Commit, Goto, WriterPlace
  <2>2. head' \in [Ring -> Slot] BY <1>a, <1>8 DEF Commit, TypeOK
  <2>3. written' \in [Writer -> Nat] BY <1>8 DEF Commit, TypeOK
  <2>4. tries' \in [Writer -> 0 .. Patience] BY <1>0, <1>8 DEF Commit, TypeOK
  <2>5. accepted' \in Seq(ByteValue) BY <1>c, <1>8 DEF Commit, TypeOK
  <2> QED BY <1>8, <2>1, <2>2, <2>3, <2>4, <2>5 DEF Commit, TypeOK
<1>9. CASE Test(w)
  <2>1. pc' \in [Writer -> WriterPlace] BY <1>a, <1>9 DEF Test, Goto, WriterPlace
  <2> QED BY <1>9, <2>1 DEF Test, TypeOK
<1>10. CASE LoadTail(w)
  <2>1. pc' \in [Writer -> WriterPlace] BY <1>a, <1>10 DEF LoadTail, Goto, WriterPlace
  <2>2. idx' \in [Writer -> Slot] BY <1>a, <1>10 DEF LoadTail
  <2> QED BY <1>10, <2>1, <2>2 DEF LoadTail, TypeOK
<1>11. CASE NotEmpty(w)
  <2>1. pc' \in [Writer -> WriterPlace] BY <1>a, <1>11 DEF NotEmpty, Goto, WriterPlace
  <2> QED BY <1>11, <2>1 DEF NotEmpty, TypeOK
<1>12. CASE Take(w)
  <2>1. pc' \in [Writer -> WriterPlace] BY <1>a, <1>12 DEF Take, Goto, WriterPlace
  <2>2. slot["tx"][idx[w]] \in ByteValue BY <1>a DEF TypeOK, Ring
  <2>3. data' \in [Writer -> ByteValue] BY <1>12, <2>2 DEF Take, TypeOK
  <2> QED BY <1>12, <2>1, <2>3 DEF Take, TypeOK
<1>13. CASE Release(w)
  <2>1. pc' \in [Writer -> WriterPlace] BY <1>a, <1>13 DEF Release, Goto, WriterPlace
  <2>2. tail' \in [Ring -> Slot] BY <1>b, <1>13 DEF Release, TypeOK
  <2> QED BY <1>13, <2>1, <2>2 DEF Release, TypeOK
<1>14. CASE SetBusy(w)
  <2>1. pc' \in [Writer -> WriterPlace] BY <1>a, <1>14 DEF SetBusy, Goto, WriterPlace
  <2> QED BY <1>14, <2>1 DEF SetBusy, TypeOK
<1>15. CASE Ready(w)
  <2>1. pc' \in [Writer -> WriterPlace] BY <1>a, <1>15 DEF Ready, Goto, WriterPlace
  <2> QED BY <1>15, <2>1 DEF Ready, TypeOK
<1>16. CASE Send(w)
  <2>1. pc' \in [Writer -> WriterPlace] BY <1>a, <1>16 DEF Send, Goto, WriterPlace
  <2>2. data[w] \in ByteValue BY DEF TypeOK
  <2>3. thr' \in Seq(ByteValue) /\ Len(thr') <= 1 BY <1>16, <2>2 DEF Send
  <2> QED BY <1>16, <2>1, <2>3 DEF Send, TypeOK
<1>17. CASE Enable(w)
  <2>1. pc' \in [Writer -> WriterPlace] BY <1>a, <1>17 DEF Enable, Goto, WriterPlace
  <2> QED BY <1>17, <2>1 DEF Enable, TypeOK
<1> QED
  BY <1>1, <1>2, <1>3, <1>4, <1>5, <1>6, <1>7, <1>8, <1>9, <1>10, <1>11, <1>12, <1>13,
     <1>14, <1>15, <1>16, <1>17 DEF Write, Step

\* The types after a step of the hardware or of the reader.
LEMMA TypeOthers ==
    ASSUME TypeOK, Shift \/ TxInterrupt \/ RxInterrupt \/ Read
    PROVE  TypeOK'
<1> USE DEF rings, port, call, writers, reader, reception
<1>a. head \in [Ring -> Slot] /\ tail \in [Ring -> Slot]
      /\ slot \in [Ring -> [Slot -> ByteValue]] /\ ridx \in Slot
  BY DEF TypeOK
<1>b. Wrap(head["rx"] + 1) \in Slot /\ Wrap(tail["tx"] + 1) \in Slot /\ Wrap(ridx + 1) \in Slot
  <2>1. head["rx"] \in Slot /\ tail["tx"] \in Slot BY <1>a DEF Ring
  <2> QED BY <1>a, <2>1, WrapInSlot
<1>c. ASSUME TxNext \/ TxDone \/ TxNotReady
      PROVE  /\ tail' \in [Ring -> Slot] /\ thr' \in Seq(ByteValue) /\ Len(thr') <= 1
             /\ tx_busy' \in BOOLEAN /\ txie' \in BOOLEAN /\ meddled' \in BOOLEAN
             /\ sent' \in Seq(ByteValue)
  <2>1. CASE TxNext
    <3>1. slot["tx"][tail["tx"]] \in ByteValue BY <1>a DEF Ring
    <3>2. thr' \in Seq(ByteValue) /\ Len(thr') <= 1 BY <2>1, <3>1 DEF TxNext
    <3>3. tail' \in [Ring -> Slot] BY <1>a, <1>b, <2>1 DEF TxNext
    <3>4. meddled' \in BOOLEAN BY <2>1 DEF TxNext
    <3> QED BY <2>1, <3>2, <3>3, <3>4 DEF TxNext, TypeOK
  <2>2. CASE TxDone
    <3>1. meddled' \in BOOLEAN BY <2>2 DEF TxDone
    <3> QED BY <2>2, <3>1 DEF TxDone, TypeOK
  <2>3. CASE TxNotReady BY <2>3 DEF TxNotReady, TypeOK
  <2> QED BY <1>c, <2>1, <2>2, <2>3
<1>1. CASE Shift
  <2>1. sent' \in Seq(ByteValue) BY <1>1 DEF Shift, TypeOK
  <2>2. thr' \in Seq(ByteValue) /\ Len(thr') <= 1 BY <1>1 DEF Shift
  <2> QED BY <1>1, <2>1, <2>2 DEF Shift, TypeOK
<1>2. CASE TxInterrupt
  <2>1. TxNext \/ TxDone BY <1>2 DEF TxInterrupt
  <2> HIDE DEF port, rings
  <2>2. /\ tail' \in [Ring -> Slot] /\ thr' \in Seq(ByteValue) /\ Len(thr') <= 1
        /\ tx_busy' \in BOOLEAN /\ txie' \in BOOLEAN /\ meddled' \in BOOLEAN
        /\ sent' \in Seq(ByteValue)
    BY <1>c, <2>1
  <2> QED BY <1>2, <2>2 DEF TxInterrupt, TypeOK
<1>3. CASE RxInterrupt
  <2>1. TxNext \/ TxDone \/ TxNotReady BY <1>3 DEF RxInterrupt
  <2>2. /\ tail' \in [Ring -> Slot] /\ thr' \in Seq(ByteValue) /\ Len(thr') <= 1
        /\ tx_busy' \in BOOLEAN /\ txie' \in BOOLEAN /\ meddled' \in BOOLEAN
        /\ sent' \in Seq(ByteValue)
    BY <1>c, <2>1
  <2>3. arrived' \in Nat BY <1>3 DEF RxInterrupt, TypeOK
  <2>4. <<"rx", arrived + 1>> \in ByteValue BY DEF TypeOK, ByteValue
  <2>5. RxPut \/ UNCHANGED <<slot, head, stored>> BY <1>3 DEF RxInterrupt, RxLost, RxError
  <2>6. head' \in [Ring -> Slot]
    <3>1. CASE RxPut BY <1>a, <1>b, <3>1 DEF RxPut
    <3> QED BY <1>a, <2>5, <3>1
  <2>7. slot' \in [Ring -> [Slot -> ByteValue]]
    <3>1. CASE RxPut
      <4>1. head["rx"] \in Slot /\ slot["rx"] \in [Slot -> ByteValue] BY <1>a DEF Ring
      <4>2. [slot["rx"] EXCEPT ![head["rx"]] = <<"rx", arrived + 1>>] \in [Slot -> ByteValue]
        BY <2>4, <4>1
      <4> QED BY <1>a, <3>1, <4>2 DEF RxPut
    <3> QED BY <1>a, <2>5, <3>1
  <2>8. stored' \in Seq(ByteValue)
    <3>1. CASE RxPut BY <2>4, <3>1 DEF RxPut, TypeOK
    <3> QED BY <2>5, <3>1 DEF TypeOK
  <2> QED BY <1>3, <2>2, <2>3, <2>6, <2>7, <2>8 DEF RxInterrupt, TypeOK
<1>4. CASE Read
  <2>1. CASE ReadNotEmpty
    <3>1. ridx' \in Slot BY <1>a, <2>1 DEF ReadNotEmpty, Ring
    <3> QED BY <1>4, <2>1, <3>1 DEF Read, ReadNotEmpty, ReaderGoto, TypeOK
  <2>2. CASE ReadTake
    <3>1. slot["rx"][ridx] \in ByteValue BY <1>a DEF Ring
    <3> QED BY <1>4, <2>2, <3>1 DEF Read, ReadTake, ReaderGoto, TypeOK
  <2>3. CASE ReadRelease
    <3>1. tail' \in [Ring -> Slot] BY <1>a, <1>b, <2>3 DEF ReadRelease
    <3>2. got' \in Seq(ByteValue) BY <2>3 DEF ReadRelease, TypeOK
    <3> QED BY <1>4, <2>3, <3>1, <3>2 DEF Read, ReadRelease, ReaderGoto, TypeOK
  <2> QED BY <1>4, <2>1, <2>2, <2>3 DEF Read
<1> QED BY <1>1, <1>2, <1>3, <1>4

-----------------------------------------------------------------------------
(* The calls of a writer                                                   *)

\* The actions of a writer, by name.
LEMMA WriteCases ==
    ASSUME NEW w \in Writer, Write(w)
    PROVE  \/ \E n \in 1 .. load[w], m \in BOOLEAN : Call(w, n, m)
           \/ LoadHead(w) \/ HasRoom(w) \/ NoRoom(w) \/ Retry(w) \/ GiveUp(w)
           \/ Store(w) \/ Commit(w) \/ Test(w) \/ LoadTail(w) \/ NotEmpty(w) \/ Take(w)
           \/ Release(w) \/ SetBusy(w) \/ Ready(w) \/ Send(w) \/ Enable(w)
BY DEF Write, Step

\* InCall speaks of one writer at a time.
InCallOf(w) ==
    /\ length[w] <= made[w]
    /\ ~many[w] => length[w] <= 1
    /\ pc[w] \in Putting => written[w] < length[w]

LEMMA InCallWrite ==
    ASSUME TypeOK, InCall, NEW w \in Writer, Write(w)
    PROVE  InCall'
<1> USE DEF call
<1>a. /\ pc \in [Writer -> WriterPlace] /\ length \in [Writer -> Nat]
      /\ written \in [Writer -> Nat] /\ made \in [Writer -> Nat]
      /\ many \in [Writer -> BOOLEAN] /\ load[w] \in Nat
  BY UartAssumption DEF TypeOK
<1>b. InCallOf(w) BY DEF InCall, InCallOf
<1>1. ASSUME NEW n \in 1 .. load[w], NEW m \in BOOLEAN, Call(w, n, m) PROVE InCall'
  <2>1. n \in Nat /\ n > 0 /\ (~m => n = 1) BY <1>a, <1>1 DEF Call
  <2> QED BY <1>a, <1>1, <2>1 DEF Call, Goto, InCall
<1>2. CASE LoadHead(w) BY <1>a, <1>b, <1>2 DEF LoadHead, Goto, InCall, InCallOf, Putting
<1>3. CASE HasRoom(w) BY <1>a, <1>b, <1>3 DEF HasRoom, Goto, InCall, InCallOf, Putting
<1>4. CASE NoRoom(w) BY <1>a, <1>b, <1>4 DEF NoRoom, Goto, InCall, InCallOf, Putting
<1>5. CASE Retry(w) BY <1>a, <1>b, <1>5 DEF Retry, Goto, InCall, InCallOf, Putting
<1>6. CASE GiveUp(w) BY <1>a, <1>b, <1>6 DEF GiveUp, Goto, InCall, InCallOf, Putting
<1>7. CASE Store(w) BY <1>a, <1>b, <1>7 DEF Store, Goto, InCall, InCallOf, Putting
<1>8. CASE Commit(w) BY <1>a, <1>b, <1>8 DEF Commit, Goto, InCall, InCallOf, Putting
<1>9. CASE Test(w) BY <1>a, <1>b, <1>9 DEF Test, Goto, InCall, InCallOf, Putting
<1>10. CASE LoadTail(w) BY <1>a, <1>b, <1>10 DEF LoadTail, Goto, InCall, InCallOf, Putting
<1>11. CASE NotEmpty(w) BY <1>a, <1>b, <1>11 DEF NotEmpty, Goto, InCall, InCallOf, Putting
<1>12. CASE Take(w) BY <1>a, <1>b, <1>12 DEF Take, Goto, InCall, InCallOf, Putting
<1>13. CASE Release(w) BY <1>a, <1>b, <1>13 DEF Release, Goto, InCall, InCallOf, Putting
<1>14. CASE SetBusy(w) BY <1>a, <1>b, <1>14 DEF SetBusy, Goto, InCall, InCallOf, Putting
<1>15. CASE Ready(w) BY <1>a, <1>b, <1>15 DEF Ready, Goto, InCall, InCallOf, Putting
<1>16. CASE Send(w) BY <1>a, <1>b, <1>16 DEF Send, Goto, InCall, InCallOf, Putting
<1>17. CASE Enable(w) BY <1>a, <1>b, <1>17 DEF Enable, Goto, InCall, InCallOf, Putting
<1> QED
  BY <1>1, <1>2, <1>3, <1>4, <1>5, <1>6, <1>7, <1>8, <1>9, <1>10, <1>11, <1>12, <1>13,
     <1>14, <1>15, <1>16, <1>17, WriteCases

-----------------------------------------------------------------------------
(* Transmission does not stall                                             *)

\* The other writers are where they were, and the ring is as it was.
OthersStay(w) ==
    \A v \in Writer \ {w} : pc'[v] = pc[v] /\ idx'[v] = idx[v] /\ written'[v] = written[v]
RingStays == head'["tx"] = head["tx"] /\ tail'["tx"] = tail["tx"] /\ (txie => txie')

\* A step of w that leaves the ring alone stalls nothing if w stays bound to
\* start the transmitter, or was not.
LEMMA StallKeep ==
    ASSUME NoStall, NEW w \in Writer, OthersStay(w), RingStays, Sure(w) => Sure(w)'
    PROVE  NoStall'
<1> SUFFICES ASSUME ~Empty("tx"), ~txie' PROVE \E v \in Writer : Sure(v)'
  BY DEF NoStall, RingStays, Empty
<1>1. PICK v \in Writer : Sure(v) BY DEF NoStall, RingStays
<1>2. CASE v = w BY <1>1, <1>2
<1>3. CASE v # w BY <1>1, <1>3 DEF OthersStay, RingStays, Sure
<1> QED BY <1>2, <1>3

\* The same of the flag.
LEMMA BusyKeep ==
    ASSUME BusyIsServed, NEW w \in Writer, OthersStay(w), tx_busy' => tx_busy, txie => txie',
           pc[w] \in {"ready", "send", "enable"} =>
                txie' \/ pc'[w] \in {"ready", "send", "enable"}
    PROVE  BusyIsServed'
<1> SUFFICES ASSUME tx_busy, ~txie' PROVE \E v \in Writer : pc'[v] \in {"ready", "send", "enable"}
  BY DEF BusyIsServed
<1>1. PICK v \in Writer : pc[v] \in {"ready", "send", "enable"} BY DEF BusyIsServed
<1>2. CASE v = w BY <1>1, <1>2
<1>3. CASE v # w BY <1>1, <1>3 DEF OthersStay
<1> QED BY <1>2, <1>3

LEMMA BusyWrite ==
    ASSUME TypeOK, BusyIsServed, NEW w \in Writer, Write(w)
    PROVE  BusyIsServed'
<1> USE DEF rings, port, call
<1>a. pc \in [Writer -> WriterPlace] /\ idx \in [Writer -> Slot] /\ written \in [Writer -> Nat]
  BY DEF TypeOK
<1>1. ASSUME NEW n \in 1 .. load[w], NEW m \in BOOLEAN, Call(w, n, m) PROVE BusyIsServed'
  <2>1. OthersStay(w) BY <1>a, <1>1 DEF Call, Goto, OthersStay
  <2>2. pc[w] = "idle" /\ tx_busy' = tx_busy /\ txie' = txie BY <1>1 DEF Call, Goto
  <2> QED BY <2>1, <2>2, BusyKeep
<1>2. CASE LoadHead(w)
  <2>1. OthersStay(w) BY <1>a, <1>2 DEF LoadHead, Goto, OthersStay
  <2>2. pc[w] \notin {"ready", "send", "enable"} /\ tx_busy' = tx_busy /\ txie' = txie
    BY <1>2 DEF LoadHead, Goto
  <2> QED BY <2>1, <2>2, BusyKeep
<1>3. CASE HasRoom(w)
  <2>1. OthersStay(w) BY <1>a, <1>3 DEF HasRoom, Goto, OthersStay
  <2>2. pc[w] \notin {"ready", "send", "enable"} /\ tx_busy' = tx_busy /\ txie' = txie
    BY <1>3 DEF HasRoom, Goto
  <2> QED BY <2>1, <2>2, BusyKeep
<1>4. CASE NoRoom(w)
  <2>1. OthersStay(w) BY <1>a, <1>4 DEF NoRoom, Goto, OthersStay
  <2>2. pc[w] \notin {"ready", "send", "enable"} /\ tx_busy' = tx_busy /\ txie' = txie
    BY <1>4 DEF NoRoom, Goto
  <2> QED BY <2>1, <2>2, BusyKeep
<1>5. CASE Retry(w)
  <2>1. OthersStay(w) BY <1>a, <1>5 DEF Retry, Goto, OthersStay
  <2>2. pc[w] \notin {"ready", "send", "enable"} /\ tx_busy' = tx_busy /\ txie' = txie
    BY <1>5 DEF Retry, Goto
  <2> QED BY <2>1, <2>2, BusyKeep
<1>6. CASE GiveUp(w)
  <2>1. OthersStay(w) BY <1>a, <1>6 DEF GiveUp, Goto, OthersStay
  <2>2. pc[w] \notin {"ready", "send", "enable"} /\ tx_busy' = tx_busy /\ txie' = txie
    BY <1>6 DEF GiveUp, Goto
  <2> QED BY <2>1, <2>2, BusyKeep
<1>7. CASE Store(w)
  <2>1. OthersStay(w) BY <1>a, <1>7 DEF Store, Goto, OthersStay
  <2>2. pc[w] \notin {"ready", "send", "enable"} /\ tx_busy' = tx_busy /\ txie' = txie
    BY <1>7 DEF Store, Goto
  <2> QED BY <2>1, <2>2, BusyKeep
<1>8. CASE Commit(w)
  <2>1. OthersStay(w) BY <1>a, <1>8 DEF Commit, Goto, OthersStay
  <2>2. pc[w] \notin {"ready", "send", "enable"} /\ tx_busy' = tx_busy /\ txie' = txie
    BY <1>8 DEF Commit, Goto
  <2> QED BY <2>1, <2>2, BusyKeep
<1>9. CASE Test(w)
  <2>1. OthersStay(w) BY <1>a, <1>9 DEF Test, Goto, OthersStay
  <2>2. pc[w] \notin {"ready", "send", "enable"} /\ tx_busy' = tx_busy /\ txie' = txie
    BY <1>9 DEF Test, Goto
  <2> QED BY <2>1, <2>2, BusyKeep
<1>10. CASE LoadTail(w)
  <2>1. OthersStay(w) BY <1>a, <1>10 DEF LoadTail, Goto, OthersStay
  <2>2. pc[w] \notin {"ready", "send", "enable"} /\ tx_busy' = tx_busy /\ txie' = txie
    BY <1>10 DEF LoadTail, Goto
  <2> QED BY <2>1, <2>2, BusyKeep
<1>11. CASE NotEmpty(w)
  <2>1. OthersStay(w) BY <1>a, <1>11 DEF NotEmpty, Goto, OthersStay
  <2>2. pc[w] \notin {"ready", "send", "enable"} /\ tx_busy' = tx_busy /\ txie' = txie
    BY <1>11 DEF NotEmpty, Goto
  <2> QED BY <2>1, <2>2, BusyKeep
<1>12. CASE Take(w)
  <2>1. OthersStay(w) BY <1>a, <1>12 DEF Take, Goto, OthersStay
  <2>2. pc[w] \notin {"ready", "send", "enable"} /\ tx_busy' = tx_busy /\ txie' = txie
    BY <1>12 DEF Take, Goto
  <2> QED BY <2>1, <2>2, BusyKeep
<1>13. CASE Release(w)
  <2>1. OthersStay(w) BY <1>a, <1>13 DEF Release, Goto, OthersStay
  <2>2. pc[w] \notin {"ready", "send", "enable"} /\ tx_busy' = tx_busy /\ txie' = txie
    BY <1>13 DEF Release, Goto
  <2> QED BY <2>1, <2>2, BusyKeep
<1>14. CASE SetBusy(w)
  <2>1. pc'[w] = "ready" BY <1>a, <1>14 DEF SetBusy, Goto
  <2> QED BY <2>1 DEF BusyIsServed
<1>15. CASE Ready(w)
  <2>1. OthersStay(w) BY <1>a, <1>15 DEF Ready, Goto, OthersStay
  <2>2. pc'[w] \in {"ready", "send", "enable"} BY <1>a, <1>15 DEF Ready, Goto
  <2>3. tx_busy' = tx_busy /\ txie' = txie BY <1>15 DEF Ready
  <2> QED BY <2>1, <2>2, <2>3, BusyKeep
<1>16. CASE Send(w)
  <2>1. OthersStay(w) BY <1>a, <1>16 DEF Send, Goto, OthersStay
  <2>2. pc'[w] \in {"ready", "send", "enable"} BY <1>a, <1>16 DEF Send, Goto
  <2>3. tx_busy' = tx_busy /\ txie' = txie BY <1>16 DEF Send
  <2> QED BY <2>1, <2>2, <2>3, BusyKeep
<1>17. CASE Enable(w) BY <1>17 DEF Enable, BusyIsServed
<1> QED
  BY <1>1, <1>2, <1>3, <1>4, <1>5, <1>6, <1>7, <1>8, <1>9, <1>10, <1>11, <1>12, <1>13,
     <1>14, <1>15, <1>16, <1>17, WriteCases

LEMMA StallWrite ==
    ASSUME TypeOK, InCall, BusyIsServed, NoStall, NEW w \in Writer, Write(w)
    PROVE  NoStall'
<1> USE DEF rings, port, call
<1>a. /\ pc \in [Writer -> WriterPlace] /\ idx \in [Writer -> Slot]
      /\ written \in [Writer -> Nat] /\ head \in [Ring -> Slot] /\ tail \in [Ring -> Slot]
      /\ length \in [Writer -> Nat]
  BY DEF TypeOK
<1>1. ASSUME NEW n \in 1 .. load[w], NEW m \in BOOLEAN, Call(w, n, m) PROVE NoStall'
  <2>1. OthersStay(w) BY <1>a, <1>1 DEF Call, Goto, OthersStay
  <2>2. RingStays /\ ~Sure(w) BY <1>1 DEF Call, Goto, RingStays, Sure
  <2> QED BY <2>1, <2>2, StallKeep
<1>2. CASE LoadHead(w)
  <2>1. OthersStay(w) BY <1>a, <1>2 DEF LoadHead, Goto, OthersStay
  <2>2. RingStays BY <1>2 DEF LoadHead, RingStays
  <2>3. Sure(w) => Sure(w)' BY <1>a, <1>2 DEF LoadHead, Goto, Sure
  <2> QED BY <2>1, <2>2, <2>3, StallKeep
<1>3. CASE HasRoom(w)
  <2>1. OthersStay(w) BY <1>a, <1>3 DEF HasRoom, Goto, OthersStay
  <2>2. RingStays BY <1>3 DEF HasRoom, RingStays
  <2>3. Sure(w) => Sure(w)' BY <1>a, <1>3 DEF HasRoom, Goto, Sure
  <2> QED BY <2>1, <2>2, <2>3, StallKeep
<1>4. CASE NoRoom(w)
  <2>1. OthersStay(w) BY <1>a, <1>4 DEF NoRoom, Goto, OthersStay
  <2>2. RingStays BY <1>4 DEF NoRoom, RingStays
  <2>3. Sure(w) => Sure(w)' BY <1>a, <1>4 DEF NoRoom, Goto, Sure, InCall, Putting
  <2> QED BY <2>1, <2>2, <2>3, StallKeep
<1>5. CASE Retry(w)
  <2>1. OthersStay(w) BY <1>a, <1>5 DEF Retry, Goto, OthersStay
  <2>2. RingStays BY <1>5 DEF Retry, RingStays
  <2>3. Sure(w) => Sure(w)' BY <1>a, <1>5 DEF Retry, Goto, Sure
  <2> QED BY <2>1, <2>2, <2>3, StallKeep
<1>6. CASE GiveUp(w)
  <2>1. OthersStay(w) BY <1>a, <1>6 DEF GiveUp, Goto, OthersStay
  <2>2. RingStays BY <1>6 DEF GiveUp, RingStays
  <2>3. Sure(w) => Sure(w)' BY <1>a, <1>6 DEF GiveUp, Goto, Sure
  <2> QED BY <2>1, <2>2, <2>3, StallKeep
<1>7. CASE Store(w)
  <2>1. OthersStay(w) BY <1>a, <1>7 DEF Store, Goto, OthersStay
  <2>2. RingStays BY <1>7 DEF Store, RingStays
  <2>3. Sure(w) => Sure(w)' BY <1>a, <1>7 DEF Store, Goto, Sure
  <2> QED BY <2>1, <2>2, <2>3, StallKeep
\* A byte was put: w is bound to start the transmitter.
<1>8. CASE Commit(w)
  <2>1. pc'[w] \in {"test", "head"} /\ written'[w] > 0 BY <1>a, <1>8 DEF Commit, Goto
  <2>2. Sure(w)' BY <2>1 DEF Sure
  <2> QED BY <2>2 DEF NoStall
\* The flag is set: the interrupt is enabled, or another writer is about to.
<1>9. CASE Test(w)
  <2>1. OthersStay(w) BY <1>a, <1>9 DEF Test, Goto, OthersStay
  <2>2. RingStays BY <1>9 DEF Test, RingStays
  <2>3. CASE tx_busy
    <3>1. CASE txie BY <1>9, <3>1 DEF Test, NoStall
    <3>2. CASE ~txie
      <4>1. PICK v \in Writer : pc[v] \in {"ready", "send", "enable"}
        BY <2>3, <3>2 DEF BusyIsServed
      <4>2. v # w BY <1>9, <4>1 DEF Test, Goto
      <4>3. Sure(v)' BY <2>1, <4>1, <4>2 DEF OthersStay, Sure
      <4> QED BY <4>3 DEF NoStall
    <3> QED BY <3>1, <3>2
  <2>4. CASE ~tx_busy
    <3>1. Sure(w)' BY <1>a, <1>9, <2>4 DEF Test, Goto, Sure
    <3> QED BY <2>1, <2>2, <3>1, StallKeep
  <2> QED BY <2>3, <2>4
\* Only an empty ring will stop w at its next step.
<1>10. CASE LoadTail(w)
  <2>1. CASE Empty("tx") BY <1>10, <2>1 DEF LoadTail, NoStall, Empty
  <2>2. CASE ~Empty("tx")
    <3>1. Sure(w)' BY <1>a, <1>10, <2>2 DEF LoadTail, Goto, Empty, Sure
    <3> QED BY <3>1 DEF NoStall
  <2> QED BY <2>1, <2>2
<1>11. CASE NotEmpty(w)
  <2>1. OthersStay(w) BY <1>a, <1>11 DEF NotEmpty, Goto, OthersStay
  <2>2. RingStays BY <1>11 DEF NotEmpty, RingStays
  <2>3. Sure(w) => Sure(w)' BY <1>a, <1>11 DEF NotEmpty, Goto, Sure
  <2> QED BY <2>1, <2>2, <2>3, StallKeep
<1>12. CASE Take(w)
  <2>1. OthersStay(w) BY <1>a, <1>12 DEF Take, Goto, OthersStay
  <2>2. RingStays BY <1>12 DEF Take, RingStays
  <2>3. Sure(w) => Sure(w)' BY <1>a, <1>12 DEF Take, Goto, Sure
  <2> QED BY <2>1, <2>2, <2>3, StallKeep
<1>13. CASE Release(w)
  <2>1. Sure(w)' BY <1>a, <1>13 DEF Release, Goto, Sure
  <2> QED BY <2>1 DEF NoStall
<1>14. CASE SetBusy(w)
  <2>1. OthersStay(w) BY <1>a, <1>14 DEF SetBusy, Goto, OthersStay
  <2>2. RingStays BY <1>14 DEF SetBusy, RingStays
  <2>3. Sure(w) => Sure(w)' BY <1>a, <1>14 DEF SetBusy, Goto, Sure
  <2> QED BY <2>1, <2>2, <2>3, StallKeep
<1>15. CASE Ready(w)
  <2>1. OthersStay(w) BY <1>a, <1>15 DEF Ready, Goto, OthersStay
  <2>2. RingStays BY <1>15 DEF Ready, RingStays
  <2>3. Sure(w) => Sure(w)' BY <1>a, <1>15 DEF Ready, Goto, Sure
  <2> QED BY <2>1, <2>2, <2>3, StallKeep
<1>16. CASE Send(w)
  <2>1. OthersStay(w) BY <1>a, <1>16 DEF Send, Goto, OthersStay
  <2>2. RingStays BY <1>16 DEF Send, RingStays
  <2>3. Sure(w) => Sure(w)' BY <1>a, <1>16 DEF Send, Goto, Sure
  <2> QED BY <2>1, <2>2, <2>3, StallKeep
<1>17. CASE Enable(w) BY <1>17 DEF Enable, NoStall
<1> QED
  BY <1>1, <1>2, <1>3, <1>4, <1>5, <1>6, <1>7, <1>8, <1>9, <1>10, <1>11, <1>12, <1>13,
     <1>14, <1>15, <1>16, <1>17, WriteCases

\* The interrupt disables itself only when the ring is empty.
LEMMA StallOthers ==
    ASSUME TypeOK, BusyIsServed, NoStall, Shift \/ TxInterrupt \/ RxInterrupt \/ Read
    PROVE  BusyIsServed' /\ NoStall'
<1>a. head \in [Ring -> Slot] /\ tail \in [Ring -> Slot] BY DEF TypeOK
<1>b. pc' = pc /\ idx' = idx /\ written' = written
  BY DEF Shift, TxInterrupt, RxInterrupt, Read, writers, call
<1>c. head'["tx"] = head["tx"]
  <2>2. CASE Shift \/ TxInterrupt BY <2>2 DEF Shift, TxInterrupt, rings
  <2>3. CASE RxInterrupt
    <3>1. RxPut \/ head' = head BY <2>3 DEF RxInterrupt, RxLost, RxError
    <3>2. CASE RxPut BY <1>a, <3>2 DEF RxPut, Ring
    <3> QED BY <3>1, <3>2
  <2>4. CASE Read BY <2>4 DEF Read, ReadNotEmpty, ReadTake, ReadRelease, rings
  <2> QED BY <2>2, <2>3, <2>4
<1>1. CASE TxDone
  <2>1. Empty("tx")' BY <1>a, <1>c, <1>1 DEF TxDone, Empty
  <2> QED BY <1>1, <2>1 DEF TxDone, BusyIsServed, NoStall
<1>2. CASE txie' = txie /\ tx_busy' = tx_busy /\ (~Empty("tx")' => ~Empty("tx"))
  <2>1. BusyIsServed' BY <1>b, <1>2 DEF BusyIsServed
  <2>2. \A w \in Writer : Sure(w)' <=> Sure(w) BY <1>b, <1>c DEF Sure
  <2>3. NoStall' BY <1>2, <2>2 DEF NoStall
  <2> QED BY <2>1, <2>3
<1>3. CASE TxNext BY <1>a, <1>c, <1>2, <1>3 DEF TxNext, Empty
<1>4. CASE TxNotReady BY <1>a, <1>c, <1>2, <1>4 DEF TxNotReady, Empty, port
<1>5. CASE Shift BY <1>2, <1>5 DEF Shift, Empty, rings
<1>6. CASE Read
  <2>1. tail'["tx"] = tail["tx"]
    BY <1>a, <1>6 DEF Read, ReadNotEmpty, ReadTake, ReadRelease, rings, Ring
  <2> QED BY <1>2, <1>6, <1>c, <2>1 DEF Read, Empty, port
<1> QED BY <1>1, <1>3, <1>4, <1>5, <1>6 DEF TxInterrupt, RxInterrupt

-----------------------------------------------------------------------------

LEMMA InitIInv == Init => IInv
<1> SUFFICES ASSUME Init PROVE IInv OBVIOUS
<1>1. TypeOK BY InitTypeOK
<1>2. InCall
  <2>1. ASSUME NEW w \in Writer
        PROVE  length[w] <= made[w] /\ (~many[w] => length[w] <= 1)
                /\ (pc[w] \in Putting => written[w] < length[w])
    <3>1. pc[w] = "idle" /\ length[w] = 0 /\ made[w] = 0 BY DEF Init
    <3> QED BY <3>1 DEF Putting
  <2> QED BY <2>1 DEF InCall
<1>3. BusyIsServed /\ NoStall BY DEF Init, BusyIsServed, NoStall, Empty, Ring
<1> QED BY <1>1, <1>2, <1>3 DEF IInv

LEMMA NextIInv == IInv /\ [Next]_vars => IInv'
<1> SUFFICES ASSUME IInv, [Next]_vars PROVE IInv' OBVIOUS
<1> USE DEF IInv
<1>1. ASSUME NEW w \in Writer, Write(w) PROVE IInv'
  BY <1>1, TypeWrite, InCallWrite, BusyWrite, StallWrite
<1>2. CASE Shift \/ TxInterrupt \/ RxInterrupt \/ Read
  <2>1. InCall' BY <1>2 DEF InCall, Shift, TxInterrupt, RxInterrupt, Read, writers, call
  <2> QED BY <1>2, <2>1, TypeOthers, StallOthers
<1>3. CASE UNCHANGED vars
  <2>1. TypeOK' BY <1>3, TypeStutter
  <2>2. InCall' BY <1>3 DEF InCall, vars, writers, call
  <2>3. BusyIsServed' /\ NoStall'
    BY <1>3 DEF BusyIsServed, NoStall, Empty, Sure, vars, rings, port, writers, call
  <2> QED BY <2>1, <2>2, <2>3
<1> QED BY <1>1, <1>2, <1>3 DEF Next

\* The types, for any writers and sizes: above all, an index of a ring is
\* never out of range, whatever interleaves (ring_buffer.c:28-74).
THEOREM TypeCorrect == Spec => []TypeOK
<1>1. IInv => TypeOK BY DEF IInv
<1> QED BY <1>1, InitIInv, NextIInv, PTL DEF Spec

\* Bytes never lie in the transmit ring with the interrupt disabled and no
\* writer on its way to enable it, for any number of writers and any bytes
\* received meanwhile (uart_irq.c:126-132 and 228-246).
THEOREM TransmissionNeverStalls == Spec => []NoStall
<1>1. IInv => NoStall BY DEF IInv
<1> QED BY <1>1, InitIInv, NextIInv, PTL DEF Spec
-----------------------------------------------------------------------------
(* The receive ring loses and repeats nothing                              *)

\* The contents of a ring with head h, tail t and slots s.
Held(h, t) == (h - t + Size) % Size
Place(t, k) == (t + k - 1) % Size
Elements(h, t, s) == [k \in 1 .. Held(h, t) |-> s[Place(t, k)]]

LEMMA ContentsAreElements ==
    \A r \in Ring : Contents(r) = Elements(head[r], tail[r], slot[r])
BY DEF Contents, Count, Elements, Held, Place

LEMMA HeldIs ==
    ASSUME NEW h \in Slot, NEW t \in Slot
    PROVE  /\ Held(h, t) = IF h >= t THEN h - t ELSE h - t + Size
           /\ Held(h, t) \in 0 .. Size - 1
<1>0. Size \in Nat /\ Size > 1 /\ h \in Nat /\ t \in Nat /\ h < Size /\ t < Size
  BY UartAssumption DEF Slot
<1>1. CASE h >= t BY <1>0, <1>1 DEF Held
<1>2. CASE h < t BY <1>0, <1>2 DEF Held
<1> QED BY <1>0, <1>1, <1>2

LEMMA PlaceIs ==
    ASSUME NEW t \in Slot, NEW k \in 1 .. Size
    PROVE  /\ Place(t, k) = IF t + k - 1 < Size THEN t + k - 1 ELSE t + k - 1 - Size
           /\ Place(t, k) \in Slot
<1>0. Size \in Nat /\ Size > 1 /\ k \in Nat /\ t \in Nat /\ t < Size
  BY UartAssumption DEF Slot
<1>1. CASE t + k - 1 < Size BY <1>0, <1>1 DEF Place, Slot
<1>2. CASE t + k - 1 >= Size BY <1>0, <1>2 DEF Place, Slot
<1> QED BY <1>0, <1>1, <1>2

LEMMA ElementsAreSeq ==
    ASSUME NEW h \in Slot, NEW t \in Slot, NEW s \in [Slot -> ByteValue]
    PROVE  /\ Elements(h, t, s) \in Seq(ByteValue)
           /\ Len(Elements(h, t, s)) = Held(h, t)
           /\ \A k \in 1 .. Held(h, t) : Elements(h, t, s)[k] = s[Place(t, k)]
<1>1. Held(h, t) \in Nat /\ Held(h, t) <= Size BY HeldIs, UartAssumption
<1>2. \A k \in 1 .. Held(h, t) : s[Place(t, k)] \in ByteValue
  BY <1>1, PlaceIs, UartAssumption
<1> HIDE DEF Held, Place
<1> QED BY <1>1, <1>2 DEF Elements

\* RingBuffer_Put appends.
LEMMA PutAppends ==
    ASSUME NEW h \in Slot, NEW t \in Slot, NEW s \in [Slot -> ByteValue], NEW v \in ByteValue,
           Wrap(h + 1) # t
    PROVE  Elements(Wrap(h + 1), t, [s EXCEPT ![h] = v]) = Append(Elements(h, t, s), v)
<1> DEFINE h1 == Wrap(h + 1)
           s1 == [s EXCEPT ![h] = v]
           n == Held(h, t)
<1>0. Size \in Nat /\ Size > 1 /\ h \in Nat /\ t \in Nat /\ h < Size /\ t < Size
  BY UartAssumption DEF Slot
<1>1. h1 \in Slot /\ h1 = IF h + 1 = Size THEN 0 ELSE h + 1 BY <1>0, WrapInSlot DEF Wrap
<1>2. n = (IF h >= t THEN h - t ELSE h - t + Size) /\ n \in 0 .. Size - 1 BY HeldIs
<1>3. Held(h1, t) = IF h1 >= t THEN h1 - t ELSE h1 - t + Size BY <1>1, HeldIs
<1>4. Held(h1, t) = n + 1 BY <1>0, <1>1, <1>2, <1>3
<1>5. s1 \in [Slot -> ByteValue] OBVIOUS
<1>6. /\ Elements(h, t, s) \in Seq(ByteValue) /\ Len(Elements(h, t, s)) = n
      /\ \A k \in 1 .. n : Elements(h, t, s)[k] = s[Place(t, k)]
  BY ElementsAreSeq
<1>7. /\ Elements(h1, t, s1) \in Seq(ByteValue) /\ Len(Elements(h1, t, s1)) = n + 1
      /\ \A k \in 1 .. n + 1 : Elements(h1, t, s1)[k] = s1[Place(t, k)]
  <2> HIDE DEF h1, s1
  <2>1. h1 \in Slot BY <1>1
  <2>2. /\ Elements(h1, t, s1) \in Seq(ByteValue) /\ Len(Elements(h1, t, s1)) = Held(h1, t)
        /\ \A k \in 1 .. Held(h1, t) : Elements(h1, t, s1)[k] = s1[Place(t, k)]
    BY <1>5, <2>1, ElementsAreSeq
  <2> HIDE DEF n
  <2> QED BY <1>4, <2>2
<1>8. ASSUME NEW k \in 1 .. n PROVE Place(t, k) # h /\ Place(t, k) \in Slot
  BY <1>0, <1>2, PlaceIs
<1>9. Place(t, n + 1) = h BY <1>0, <1>2, PlaceIs
<1> DEFINE old == Elements(h, t, s)
           new == Elements(h1, t, s1)
<1>10. /\ Append(old, v) \in Seq(ByteValue) /\ Len(Append(old, v)) = n + 1
       /\ \A k \in 1 .. n : Append(old, v)[k] = old[k]
       /\ Append(old, v)[n + 1] = v
  BY <1>6, AppendProperties
<1>11. ASSUME NEW k \in 1 .. n + 1 PROVE new[k] = Append(old, v)[k]
  <2>1. CASE k = n + 1 BY <1>7, <1>9, <1>10, <2>1
  <2>2. CASE k # n + 1
    <3>1. k \in 1 .. n BY <1>2, <2>2
    <3>2. s1[Place(t, k)] = s[Place(t, k)] BY <1>8, <3>1
    <3> QED BY <1>6, <1>7, <1>10, <3>1, <3>2
  <2> QED BY <2>1, <2>2
<1> HIDE DEF n, h1, s1, old, new
<1> QED BY <1>7, <1>10, <1>11, SeqEqual DEF new, old, h1, s1

\* RingBuffer_Get takes the first.
LEMMA GetTakesFirst ==
    ASSUME NEW h \in Slot, NEW t \in Slot, NEW s \in [Slot -> ByteValue], h # t
    PROVE  Elements(h, t, s) = <<s[t]>> \o Elements(h, Wrap(t + 1), s)
<1> DEFINE t1 == Wrap(t + 1)
           n == Held(h, t)
<1>0. Size \in Nat /\ Size > 1 /\ h \in Nat /\ t \in Nat /\ h < Size /\ t < Size
  BY UartAssumption DEF Slot
<1>1. t1 \in Slot /\ t1 = IF t + 1 = Size THEN 0 ELSE t + 1 BY <1>0, WrapInSlot DEF Wrap
<1>2. n = (IF h >= t THEN h - t ELSE h - t + Size) /\ n \in 1 .. Size - 1 BY <1>0, HeldIs
<1>3. Held(h, t1) = IF h >= t1 THEN h - t1 ELSE h - t1 + Size BY <1>1, HeldIs
<1>4. Held(h, t1) = n - 1 BY <1>0, <1>1, <1>2, <1>3
<1> DEFINE all == Elements(h, t, s)
           rest == Elements(h, t1, s)
<1>5. all \in Seq(ByteValue) /\ Len(all) = n /\ \A k \in 1 .. n : all[k] = s[Place(t, k)]
  BY ElementsAreSeq
<1>6. rest \in Seq(ByteValue) /\ Len(rest) = n - 1 /\ \A k \in 1 .. n - 1 : rest[k] = s[Place(t1, k)]
  <2> HIDE DEF t1, rest
  <2>1. t1 \in Slot BY <1>1
  <2>2. /\ rest \in Seq(ByteValue) /\ Len(rest) = Held(h, t1)
        /\ \A k \in 1 .. Held(h, t1) : rest[k] = s[Place(t1, k)]
    BY <2>1, ElementsAreSeq DEF rest
  <2> HIDE DEF n
  <2> QED BY <1>4, <2>2
<1>7. Place(t, 1) = t
  <2>1. 1 \in 1 .. Size BY <1>0
  <2>2. Place(t, 1) = IF t + 1 - 1 < Size THEN t + 1 - 1 ELSE t + 1 - 1 - Size
    BY <2>1, PlaceIs
  <2> QED BY <1>0, <2>2
<1>8. ASSUME NEW k \in 2 .. n PROVE Place(t, k) = Place(t1, k - 1)
  <2>1. k \in 1 .. Size /\ k - 1 \in 1 .. Size /\ k \in Nat BY <1>0, <1>2
  <2>2. Place(t, k) = IF t + k - 1 < Size THEN t + k - 1 ELSE t + k - 1 - Size
    BY <2>1, PlaceIs
  <2>3. Place(t1, k - 1) = IF t1 + (k - 1) - 1 < Size THEN t1 + (k - 1) - 1
                           ELSE t1 + (k - 1) - 1 - Size
    <3> HIDE DEF t1
    <3> QED BY <1>1, <2>1, PlaceIs
  <2> HIDE DEF t1, n
  <2> QED BY <1>0, <1>1, <2>1, <2>2, <2>3
<1>9. <<s[t]>> \in Seq(ByteValue) /\ Len(<<s[t]>>) = 1 /\ <<s[t]>>[1] = s[t] OBVIOUS
<1>10. /\ <<s[t]>> \o rest \in Seq(ByteValue) /\ Len(<<s[t]>> \o rest) = n
       /\ \A k \in 1 .. n : (<<s[t]>> \o rest)[k] = IF k <= 1 THEN <<s[t]>>[k] ELSE rest[k - 1]
  <2> HIDE DEF rest, n
  <2> QED BY <1>2, <1>6, <1>9, ConcatProperties
<1>11. ASSUME NEW k \in 1 .. n PROVE all[k] = (<<s[t]>> \o rest)[k]
  <2>1. CASE k = 1 BY <1>2, <1>5, <1>7, <1>9, <1>10, <2>1
  <2>2. CASE k # 1
    <3>1. k \in 2 .. n /\ k - 1 \in 1 .. n - 1 BY <1>2, <2>2
    <3> HIDE DEF all, rest, n, t1
    <3>2. all[k] = s[Place(t, k)] BY <1>5
    <3>3. rest[k - 1] = s[Place(t1, k - 1)] BY <1>6, <3>1
    <3>4. ~(k <= 1) /\ k \in 1 .. n BY <1>2, <3>1
    <3>5. (<<s[t]>> \o rest)[k] = rest[k - 1] BY <1>10, <3>4
    <3>6. Place(t, k) = Place(t1, k - 1) BY <1>8, <3>1
    <3> QED BY <3>2, <3>3, <3>5, <3>6
  <2> QED BY <2>1, <2>2
<1> HIDE DEF all, rest, n, t1
<1> QED BY <1>5, <1>10, <1>11, SeqEqual DEF all, rest, t1

\* The order of two concatenations does not matter.
LEMMA Concatenated ==
    ASSUME NEW S, NEW p \in Seq(S), NEW q \in Seq(S), NEW r \in Seq(S)
    PROVE  (p \o q) \o r = p \o (q \o r)
<1> DEFINE pq == p \o q
           qr == q \o r
           left == pq \o r
           right == p \o qr
<1>0. Len(p) \in Nat /\ Len(q) \in Nat /\ Len(r) \in Nat OBVIOUS
<1>1. /\ pq \in Seq(S) /\ Len(pq) = Len(p) + Len(q)
      /\ \A i \in 1 .. Len(p) + Len(q) : pq[i] = IF i <= Len(p) THEN p[i] ELSE q[i - Len(p)]
  BY ConcatProperties
<1>2. /\ qr \in Seq(S) /\ Len(qr) = Len(q) + Len(r)
      /\ \A i \in 1 .. Len(q) + Len(r) : qr[i] = IF i <= Len(q) THEN q[i] ELSE r[i - Len(q)]
  BY ConcatProperties
<1> HIDE DEF pq, qr
<1>3. /\ left \in Seq(S) /\ Len(left) = Len(pq) + Len(r)
      /\ \A i \in 1 .. Len(pq) + Len(r) :
            left[i] = IF i <= Len(pq) THEN pq[i] ELSE r[i - Len(pq)]
  <2>1. pq \in Seq(S) BY <1>1
  <2> QED BY <2>1, ConcatProperties
<1>4. /\ right \in Seq(S) /\ Len(right) = Len(p) + Len(qr)
      /\ \A i \in 1 .. Len(p) + Len(qr) :
            right[i] = IF i <= Len(p) THEN p[i] ELSE qr[i - Len(p)]
  <2>1. qr \in Seq(S) BY <1>2
  <2> QED BY <2>1, ConcatProperties
<1> HIDE DEF left, right
<1>5. Len(left) = Len(right) BY <1>0, <1>1, <1>2, <1>3, <1>4
<1>6. ASSUME NEW i \in 1 .. Len(left) PROVE left[i] = right[i]
  <2>0. i \in Nat /\ i >= 1 /\ i <= Len(p) + Len(q) + Len(r) BY <1>0, <1>1, <1>3
  <2>1. CASE i <= Len(p) BY <1>0, <1>1, <1>2, <1>3, <1>4, <2>0, <2>1
  <2>2. CASE i > Len(p) /\ i <= Len(p) + Len(q)
    <3>1. i - Len(p) \in 1 .. Len(q) + Len(r) /\ i - Len(p) <= Len(q) /\ ~(i <= Len(p))
      BY <1>0, <2>0, <2>2
    <3>2. left[i] = q[i - Len(p)] BY <1>0, <1>1, <1>3, <2>0, <2>2, <3>1
    <3>3. right[i] = q[i - Len(p)] BY <1>0, <1>2, <1>4, <2>0, <3>1
    <3> QED BY <3>2, <3>3
  <2>3. CASE i > Len(p) + Len(q)
    <3>1. /\ i - Len(p) \in 1 .. Len(q) + Len(r) /\ ~(i - Len(p) <= Len(q)) /\ ~(i <= Len(p))
          /\ (i - Len(p)) - Len(q) = i - (Len(p) + Len(q))
      BY <1>0, <2>0, <2>3
    <3>2. left[i] = r[i - (Len(p) + Len(q))] BY <1>0, <1>1, <1>3, <2>0, <2>3
    <3>3. i \in 1 .. Len(p) + Len(qr) BY <1>0, <1>2, <2>0
    <3>4. right[i] = qr[i - Len(p)] BY <1>4, <3>1, <3>3
    <3>5. qr[i - Len(p)] = r[(i - Len(p)) - Len(q)] BY <1>2, <3>1
    <3> QED BY <3>1, <3>2, <3>4, <3>5
  <2> QED BY <1>0, <2>0, <2>1, <2>2, <2>3
<1>7. left = right BY <1>3, <1>4, <1>5, <1>6, SeqEqual
<1> QED BY <1>7 DEF left, right, pq, qr

\* A byte between two sequences belongs to either.
LEMMA AppendMoves ==
    \A p, q \in Seq(ByteValue), v \in ByteValue :
        /\ Append(p \o q, v) = p \o Append(q, v)
        /\ p \o (<<v>> \o q) = Append(p, v) \o q
<1> SUFFICES ASSUME NEW p \in Seq(ByteValue), NEW q \in Seq(ByteValue), NEW v \in ByteValue
             PROVE  /\ Append(p \o q, v) = p \o Append(q, v)
                    /\ p \o (<<v>> \o q) = Append(p, v) \o q
  OBVIOUS
<1> DEFINE S == ByteValue
           one == <<v>>
<1>1. one \in Seq(S) /\ p \o q \in Seq(S) OBVIOUS
<1>2. Append(p \o q, v) = (p \o q) \o one BY <1>1, AppendIsConcat, Zenon
<1>3. Append(q, v) = q \o one BY AppendIsConcat, Zenon
<1>4. Append(p, v) = p \o one BY AppendIsConcat, Zenon
<1> HIDE DEF one, S
<1>a. p \in Seq(S) /\ q \in Seq(S) BY DEF S
<1>b. one \in Seq(S) BY <1>1
<1>5. (p \o q) \o one = p \o (q \o one) BY <1>b, <1>a, Concatenated, SMTT(30)
<1>6. (p \o one) \o q = p \o (one \o q) BY <1>b, <1>a, Concatenated, SMTT(30)
<1>7. Append(p \o q, v) = p \o Append(q, v) BY <1>2, <1>3, <1>5
<1>8. p \o (one \o q) = Append(p, v) \o q BY <1>4, <1>6
<1> QED BY <1>7, <1>8 DEF one

\* The reader's copies agree with the ring, and what it reads is there.
Reading ==
    /\ rpc # "start" => ridx = tail["rx"] /\ ~Empty("rx")
    /\ rpc = "release" => rdata = slot["rx"][tail["rx"]]

ReceiveInv == TypeOK /\ Reading /\ ReceivedInOrder

RxStays ==
    /\ head'["rx"] = head["rx"] /\ tail'["rx"] = tail["rx"] /\ slot'["rx"] = slot["rx"]
    /\ stored' = stored

LEMMA StaysReceived ==
    ASSUME ReceiveInv, RxStays, reader' = reader
    PROVE  Reading' /\ ReceivedInOrder'
<1>1. Reading' BY DEF ReceiveInv, Reading, RxStays, Empty, reader
<1>2. Contents("rx")' = Contents("rx") BY DEF Contents, Count, RxStays
<1>3. ReceivedInOrder'
  BY <1>2 DEF ReceiveInv, ReceivedInOrder, RxStays, reader
<1> QED BY <1>1, <1>3

\* A writer and the transmit callback touch the other ring only.
LEMMA WriteStays ==
    ASSUME TypeOK, NEW w \in Writer, Write(w)
    PROVE  RxStays /\ reader' = reader
<1>a. head \in [Ring -> Slot] /\ tail \in [Ring -> Slot] /\ slot \in [Ring -> [Slot -> ByteValue]]
  BY DEF TypeOK
<1>b. "rx" \in Ring /\ "tx" \in Ring BY DEF Ring
<1>1. reader' = reader /\ stored' = stored
  BY DEF Write, Call, Step, LoadHead, HasRoom, NoRoom, Retry, GiveUp, Store, Commit, Test,
         LoadTail, NotEmpty, Take, Release, SetBusy, Ready, Send, Enable, reception
<1>2. head'["rx"] = head["rx"]
  BY <1>a, <1>b DEF Write, Call, Step, LoadHead, HasRoom, NoRoom, Retry, GiveUp, Store,
         Commit, Test, LoadTail, NotEmpty, Take, Release, SetBusy, Ready, Send, Enable, rings
<1>3. tail'["rx"] = tail["rx"]
  BY <1>a, <1>b DEF Write, Call, Step, LoadHead, HasRoom, NoRoom, Retry, GiveUp, Store,
         Commit, Test, LoadTail, NotEmpty, Take, Release, SetBusy, Ready, Send, Enable, rings
<1>4. slot'["rx"] = slot["rx"]
  <2>1. slot' = slot \/ Store(w)
    BY DEF Write, Call, Step, LoadHead, HasRoom, NoRoom, Retry, GiveUp, Commit, Test,
         LoadTail, NotEmpty, Take, Release, SetBusy, Ready, Send, Enable, rings
  <2>2. CASE Store(w) BY <1>a, <1>b, <2>2 DEF Store
  <2> QED BY <2>1, <2>2
<1> QED BY <1>1, <1>2, <1>3, <1>4 DEF RxStays

LEMMA TxStays ==
    ASSUME TypeOK, TxNext \/ TxDone \/ TxNotReady
    PROVE  tail'["rx"] = tail["rx"]
<1>1. tail \in [Ring -> Slot] /\ "rx" \in Ring BY DEF TypeOK, Ring
<1> QED BY <1>1 DEF TxNext, TxDone, TxNotReady

LEMMA PutReceived ==
    ASSUME ReceiveInv, RxPut, tail'["rx"] = tail["rx"], reader' = reader
    PROVE  Reading' /\ ReceivedInOrder'
<1> DEFINE h == head["rx"]
           t == tail["rx"]
           s == slot["rx"]
           b == <<"rx", arrived + 1>>
<1>a. head \in [Ring -> Slot] /\ slot \in [Ring -> [Slot -> ByteValue]] /\ tail \in [Ring -> Slot]
      /\ arrived \in Nat /\ got \in Seq(ByteValue) /\ stored \in Seq(ByteValue)
  BY DEF ReceiveInv, TypeOK
<1>b. "rx" \in Ring BY DEF Ring
<1>0. h \in Slot /\ t \in Slot /\ s \in [Slot -> ByteValue] /\ b \in ByteValue
  BY <1>a, <1>b DEF ByteValue
<1>1. Wrap(h + 1) # t BY DEF RxPut, Full
<1>2. head'["rx"] = Wrap(h + 1) BY <1>a, <1>b DEF RxPut
<1>3. slot'["rx"] = [s EXCEPT ![h] = b]
  <2>1. slot' = [slot EXCEPT !["rx"] = [@ EXCEPT ![head["rx"]] = b]] BY DEF RxPut
  <2> QED BY <1>a, <1>b, <2>1
<1>4. stored' = Append(stored, b) BY DEF RxPut
<1>5. Reading'
  <2>1. rpc' # "start" => ridx' = tail'["rx"] /\ ~Empty("rx")'
    BY <1>1, <1>2 DEF ReceiveInv, Reading, Empty, reader
  <2>2. rpc' = "release" => rdata' = slot'["rx"][tail'["rx"]]
    <3>1. rpc = "release" => rdata = s[t] /\ t # h BY DEF ReceiveInv, Reading, Empty
    <3>2. t # h => [s EXCEPT ![h] = b][t] = s[t] BY <1>0
    <3> QED BY <1>3, <3>1, <3>2 DEF reader
  <2> QED BY <2>1, <2>2 DEF Reading
<1>6. ReceivedInOrder'
  <2>1. Contents("rx") = Elements(h, t, s) BY <1>b, ContentsAreElements
  <2>2. Contents("rx")' = Elements(Wrap(h + 1), t, [s EXCEPT ![h] = b])
    BY <1>2, <1>3 DEF Contents, Count, Elements, Held, Place
  <2> HIDE DEF h, t, s, b
  <2>3. Elements(Wrap(h + 1), t, [s EXCEPT ![h] = b]) = Append(Elements(h, t, s), b)
    BY <1>0, <1>1, PutAppends
  <2>4. Elements(h, t, s) \in Seq(ByteValue) BY <1>0, ElementsAreSeq
  <2>5. stored = got \o Elements(h, t, s) BY <2>1 DEF ReceiveInv, ReceivedInOrder
  <2>6. Append(got \o Elements(h, t, s), b) = got \o Append(Elements(h, t, s), b)
    <3> DEFINE E == Elements(h, t, s)
    <3> HIDE DEF E
    <3>1. E \in Seq(ByteValue) BY <2>4 DEF E
    <3>2. Append(got \o E, b) = got \o Append(E, b) BY <1>0, <1>a, <3>1, AppendMoves
    <3> QED BY <3>2 DEF E
  <2>7. got' = got BY DEF reader
  <2> QED BY <1>4, <2>2, <2>3, <2>5, <2>6, <2>7 DEF ReceivedInOrder
<1> QED BY <1>5, <1>6

LEMMA ReadReceived ==
    ASSUME ReceiveInv, Read
    PROVE  Reading' /\ ReceivedInOrder'
<1>a. head \in [Ring -> Slot] /\ slot \in [Ring -> [Slot -> ByteValue]] /\ tail \in [Ring -> Slot]
      /\ got \in Seq(ByteValue) /\ stored \in Seq(ByteValue)
  BY DEF ReceiveInv, TypeOK
<1>b. "rx" \in Ring BY DEF Ring
<1>c. stored' = stored BY DEF Read, reception
<1>1. CASE ReadNotEmpty \/ ReadTake
  <2>1. head' = head /\ tail' = tail /\ slot' = slot /\ got' = got
    BY <1>1 DEF ReadNotEmpty, ReadTake, rings
  <2>2. Reading'
    BY <1>1, <2>1 DEF ReceiveInv, Reading, ReadNotEmpty, ReadTake, ReaderGoto, Empty
  <2>3. Contents("rx")' = Contents("rx") BY <2>1 DEF Contents, Count
  <2> QED BY <1>c, <2>1, <2>2, <2>3 DEF ReceiveInv, ReceivedInOrder
<1>2. CASE ReadRelease
  <2> DEFINE h == head["rx"]
             t == tail["rx"]
             s == slot["rx"]
  <2>0. h \in Slot /\ t \in Slot /\ s \in [Slot -> ByteValue] BY <1>a, <1>b
  <2>1. ridx = t /\ h # t /\ rdata = s[t]
    BY <1>2 DEF ReadRelease, ReaderGoto, ReceiveInv, Reading, Empty
  <2>2. tail'["rx"] = Wrap(t + 1) BY <1>2, <1>a, <1>b, <2>1 DEF ReadRelease
  <2>3. head' = head /\ slot' = slot /\ rpc' = "start" BY <1>2 DEF ReadRelease, ReaderGoto
  <2>4. got' = Append(got, s[t]) BY <1>2, <2>1 DEF ReadRelease
  <2>5. Reading' BY <2>3 DEF Reading
  <2>6. Contents("rx") = Elements(h, t, s) BY <1>b, ContentsAreElements
  <2>7. Contents("rx")' = Elements(h, Wrap(t + 1), s)
    BY <2>2, <2>3 DEF Contents, Count, Elements, Held, Place
  <2> HIDE DEF h, t, s
  <2>8. Elements(h, t, s) = <<s[t]>> \o Elements(h, Wrap(t + 1), s)
    BY <2>0, <2>1, GetTakesFirst
  <2>9. Elements(h, Wrap(t + 1), s) \in Seq(ByteValue)
    <3>1. Wrap(t + 1) \in Slot BY <2>0, WrapInSlot
    <3> QED BY <2>0, <3>1, ElementsAreSeq
  <2>10. stored = got \o (<<s[t]>> \o Elements(h, Wrap(t + 1), s))
    BY <2>6, <2>8 DEF ReceiveInv, ReceivedInOrder
  <2>11. got \o (<<s[t]>> \o Elements(h, Wrap(t + 1), s))
           = Append(got, s[t]) \o Elements(h, Wrap(t + 1), s)
    <3> DEFINE E == Elements(h, Wrap(t + 1), s)
               x == s[t]
    <3>1. x \in ByteValue BY <2>0
    <3>2. E \in Seq(ByteValue) BY <2>9
    <3> HIDE DEF E, x
    <3>3. got \o (<<x>> \o E) = Append(got, x) \o E BY <1>a, <3>1, <3>2, AppendMoves
    <3> QED BY <3>3 DEF E, x
  <2>12. ReceivedInOrder' BY <1>c, <2>4, <2>7, <2>10, <2>11 DEF ReceivedInOrder
  <2> QED BY <2>5, <2>12
<1> QED BY <1>1, <1>2 DEF Read

LEMMA InitReceived == Init => ReceiveInv
<1> SUFFICES ASSUME Init PROVE ReceiveInv OBVIOUS
<1>1. Reading BY DEF Init, Reading
<1>2. ReceivedInOrder
  <2>1. head["rx"] = 0 /\ tail["rx"] = 0 BY DEF Init, Ring
  <2>2. Count("rx") = 0 BY <2>1, UartAssumption DEF Count
  <2>3. Contents("rx") = <<>> BY <2>2 DEF Contents
  <2> QED BY <2>3 DEF Init, ReceivedInOrder
<1> QED BY <1>1, <1>2, InitTypeOK DEF ReceiveInv

LEMMA NextReceived == IInv /\ ReceiveInv /\ [Next]_vars => ReceiveInv'
<1> SUFFICES ASSUME IInv, ReceiveInv, [Next]_vars PROVE ReceiveInv' OBVIOUS
<1>1. SUFFICES Reading' /\ ReceivedInOrder'
  <2>1. TypeOK' BY NextIInv DEF IInv
  <2> QED BY <2>1 DEF ReceiveInv
<1>2. TypeOK BY DEF IInv
<1>3. CASE \E w \in Writer : Write(w) BY <1>2, <1>3, WriteStays, StaysReceived
<1>4. CASE Shift \/ TxInterrupt
  <2>1. tail'["rx"] = tail["rx"]
    BY <1>2, <1>4, TxStays DEF Shift, TxInterrupt, rings
  <2>2. RxStays /\ reader' = reader
    BY <1>4, <2>1 DEF RxStays, Shift, TxInterrupt, rings, reader, reception
  <2> QED BY <2>2, StaysReceived
<1>5. CASE RxInterrupt
  <2>1. tail'["rx"] = tail["rx"] /\ reader' = reader
    BY <1>2, <1>5, TxStays DEF RxInterrupt, reader
  <2>2. CASE RxPut BY <2>1, <2>2, PutReceived
  <2>3. CASE RxLost \/ RxError
    <3>1. RxStays BY <2>1, <2>3 DEF RxStays, RxLost, RxError
    <3> QED BY <2>1, <3>1, StaysReceived
  <2> QED BY <1>5, <2>2, <2>3 DEF RxInterrupt
<1>6. CASE Read BY <1>6, ReadReceived
<1>7. CASE UNCHANGED vars
  <2>1. RxStays /\ reader' = reader BY <1>7 DEF vars, rings, reader, reception, RxStays
  <2> QED BY <2>1, StaysReceived
<1> QED BY <1>3, <1>4, <1>5, <1>6, <1>7 DEF Next

\* What the reader of the receive ring has taken, followed by what lies in
\* it, is what was put into it, with no lock and for rings of any size
\* (ring_buffer.c:28-74).
THEOREM ReceptionInOrder == Spec => []ReceivedInOrder
<1>1. ReceiveInv => ReceivedInOrder BY DEF ReceiveInv
<1> QED BY <1>1, InitIInv, NextIInv, InitReceived, NextReceived, PTL DEF Spec

-----------------------------------------------------------------------------
(* With one writer, the bytes are sent in order                            *)

\* Only w writes.
OnlyWriter(w) == \A v \in Writer \ {w} : load[v] = 0
OthersIdle(w) == \A v \in Writer \ {w} : pc[v] = "idle"

Starting == {"tail", "any", "take", "release", "busy"}
Started == {"ready", "send", "enable"}

\* Where w starts the transmitter, the interrupt is disabled; the flag tells
\* w before it and the callback after it who takes from the ring.
Exclusive(w) ==
    /\ txie => tx_busy /\ pc[w] \notin Starting \cup Started
    /\ ~txie /\ pc[w] # "enable" => thr = <<>>
    /\ pc[w] \in Starting => ~tx_busy
    /\ pc[w] \in Started => tx_busy

\* The copies that w holds agree with the ring.
Copies(w) ==
    /\ pc[w] \in {"any", "take", "release"} => idx[w] = tail["tx"]
    /\ pc[w] \in {"take", "release"} => ~Empty("tx")
    /\ pc[w] = "release" => data[w] = slot["tx"][tail["tx"]]
    /\ pc[w] \in {"room", "store", "commit"} => idx[w] = Wrap(head["tx"] + 1)
    /\ pc[w] \in {"store", "commit"} => ~Full("tx")
    /\ pc[w] = "commit" => slot["tx"][head["tx"]] = Byte(w)

Hand(w) == IF pc[w] \in {"busy", "ready", "send"} THEN <<data[w]>> ELSE <<>>

Ordered(w) == accepted = sent \o thr \o Hand(w) \o Contents("tx")

SoloInv ==
    \A w \in Writer : OnlyWriter(w) =>
        OthersIdle(w) /\ (~meddled => Exclusive(w) /\ Copies(w) /\ Ordered(w))

\* What a step of w does to its place.
LEMMA GoneTo ==
    ASSUME TypeOK, NEW w \in Writer, NEW from, NEW to, Goto(w, from, to)
    PROVE  /\ pc[w] = from /\ pc'[w] = to
           /\ \A v \in Writer \ {w} : pc'[v] = pc[v]
<1>1. pc \in [Writer -> WriterPlace] BY DEF TypeOK
<1> QED BY <1>1 DEF Goto

SoloState(w) == Exclusive(w) /\ Copies(w) /\ Ordered(w)

\* The ring is as it was.
TxKept ==
    head'["tx"] = head["tx"] /\ tail'["tx"] = tail["tx"] /\ slot'["tx"] = slot["tx"]

LEMMA OrderedStays ==
    ASSUME NEW w, Ordered(w), TxKept, UNCHANGED <<accepted, sent, thr>>, Hand(w)' = Hand(w)
    PROVE  Ordered(w)'
<1>1. Contents("tx")' = Contents("tx") BY DEF Contents, Count, TxKept
<1> QED BY <1>1 DEF Ordered

\* Of the sequences in Ordered.
LEMMA OrderedTypes ==
    ASSUME TypeOK
    PROVE  /\ Contents("tx") = Elements(head["tx"], tail["tx"], slot["tx"])
           /\ Contents("tx") \in Seq(ByteValue)
           /\ head["tx"] \in Slot /\ tail["tx"] \in Slot /\ slot["tx"] \in [Slot -> ByteValue]
           /\ accepted \in Seq(ByteValue) /\ sent \in Seq(ByteValue) /\ thr \in Seq(ByteValue)
           /\ \A w \in Writer : data[w] \in ByteValue /\ Hand(w) \in Seq(ByteValue)
<1>1. "tx" \in Ring BY DEF Ring
<1>2. head["tx"] \in Slot /\ tail["tx"] \in Slot /\ slot["tx"] \in [Slot -> ByteValue]
  BY <1>1 DEF TypeOK
<1>3. Contents("tx") = Elements(head["tx"], tail["tx"], slot["tx"])
  BY <1>1, ContentsAreElements
<1>4. Contents("tx") \in Seq(ByteValue) BY <1>2, <1>3, ElementsAreSeq
<1>5. accepted \in Seq(ByteValue) /\ sent \in Seq(ByteValue) /\ thr \in Seq(ByteValue)
  BY DEF TypeOK
<1>6. \A w \in Writer : data[w] \in ByteValue BY DEF TypeOK
<1>7. ASSUME NEW w \in Writer PROVE Hand(w) \in Seq(ByteValue)
  <2>1. <<data[w]>> \in Seq(ByteValue) /\ <<>> \in Seq(ByteValue) BY <1>6
  <2> QED BY <2>1 DEF Hand
<1> QED BY <1>2, <1>3, <1>4, <1>5, <1>6, <1>7

\* A byte moves on from the head of one sequence to the end of another.
LEMMA ByteMoves ==
    ASSUME NEW S, NEW p \in Seq(S), NEW q \in Seq(S), NEW v \in S
    PROVE  /\ p \o (<<v>> \o q) = (p \o <<v>>) \o q
           /\ p \o <<>> = p
<1> DEFINE one == <<v>>
<1>1. one \in Seq(S) OBVIOUS
<1> HIDE DEF one
<1>2. (p \o one) \o q = p \o (one \o q) BY <1>1, Concatenated
<1>3. p \o <<>> = p BY ConcatEmptySeq
<1> QED BY <1>2, <1>3 DEF one

\* The byte that RingBuffer_Put stores is not yet in the ring.
LEMMA StoreHidden ==
    ASSUME NEW h \in Slot, NEW t \in Slot, NEW s \in [Slot -> ByteValue], NEW v \in ByteValue
    PROVE  Elements(h, t, [s EXCEPT ![h] = v]) = Elements(h, t, s)
<1> DEFINE s1 == [s EXCEPT ![h] = v]
           n == Held(h, t)
<1>0. Size \in Nat /\ Size > 1 /\ h \in Nat /\ t \in Nat /\ h < Size /\ t < Size
  BY UartAssumption DEF Slot
<1>1. n = (IF h >= t THEN h - t ELSE h - t + Size) /\ n \in 0 .. Size - 1 BY HeldIs
<1> HIDE DEF n
<1>2. ASSUME NEW k \in 1 .. n PROVE Place(t, k) \in Slot /\ Place(t, k) # h
  <2>1. k \in 1 .. Size BY <1>0, <1>1
  <2>2. Place(t, k) = (IF t + k - 1 < Size THEN t + k - 1 ELSE t + k - 1 - Size)
        /\ Place(t, k) \in Slot
    BY <2>1, PlaceIs
  <2>3. k \in Nat /\ k >= 1 /\ k <= n BY <1>0, <1>1
  <2> QED BY <1>0, <1>1, <2>2, <2>3
<1>3. \A k \in 1 .. n : s1[Place(t, k)] = s[Place(t, k)] BY <1>2
<1> HIDE DEF s1
<1> QED BY <1>3 DEF Elements, s1, n

\* Each step of w keeps what it holds while no callback meddles.
LEMMA SoloWrite ==
    ASSUME TypeOK, InCall, NEW w \in Writer, Write(w), ~meddled, SoloState(w)
    PROVE  SoloState(w)'
<1> USE DEF rings, port, call
<1>a. Exclusive(w) /\ Copies(w) /\ Ordered(w) BY DEF SoloState
<1>b. pc \in [Writer -> WriterPlace] /\ idx \in [Writer -> Slot] /\ data \in [Writer -> ByteValue]
      /\ head \in [Ring -> Slot] /\ tail \in [Ring -> Slot]
      /\ slot \in [Ring -> [Slot -> ByteValue]] /\ "tx" \in Ring
      /\ tx_busy \in BOOLEAN /\ txie \in BOOLEAN
  BY DEF TypeOK, Ring
<1>0. ASSUME NEW n \in 1 .. load[w], NEW m \in BOOLEAN, Call(w, n, m) PROVE SoloState(w)'
  <2>1. pc[w] = "idle" /\ pc'[w] = "head" BY <1>0, GoneTo DEF Call
  <2>2. UNCHANGED <<rings, port, idx, data, accepted>> BY <1>0 DEF Call
  <2>3. Exclusive(w)' BY <1>a, <2>1, <2>2 DEF Exclusive, Starting, Started
  <2>4. Copies(w)' BY <2>1 DEF Copies
  <2>5. Ordered(w)' BY <1>a, <2>1, <2>2, OrderedStays DEF Hand, TxKept
  <2> QED BY <2>3, <2>4, <2>5 DEF SoloState
<1>1. CASE LoadHead(w)
  <2>1. pc[w] = "head" /\ pc'[w] = "room"
    BY <1>1, GoneTo DEF LoadHead
  <2>2. UNCHANGED <<rings, port, data, accepted>> /\ idx'[w] = Wrap(head["tx"] + 1)
    BY <1>b, <1>1 DEF LoadHead
  <2>3. Exclusive(w)' BY <1>a, <2>1, <2>2 DEF Exclusive, Starting, Started
  <2>4. Copies(w)' BY <1>a, <2>1, <2>2 DEF Copies, Empty, Full
  <2>5. Ordered(w)' BY <1>a, <2>1, <2>2, OrderedStays DEF Hand, TxKept, Exclusive, Starting, Started
  <2> QED BY <2>3, <2>4, <2>5 DEF SoloState
<1>2. CASE HasRoom(w)
  <2>1. pc[w] = "room" /\ pc'[w] = "store"
    BY <1>2, GoneTo DEF HasRoom
  <2>2. UNCHANGED <<rings, port, idx, data, accepted>> /\ idx[w] # tail["tx"]
    BY <1>b, <1>2 DEF HasRoom
  <2>3. Exclusive(w)' BY <1>a, <2>1, <2>2 DEF Exclusive, Starting, Started
  <2>4. Copies(w)' BY <1>a, <2>1, <2>2 DEF Copies, Empty, Full
  <2>5. Ordered(w)' BY <1>a, <2>1, <2>2, OrderedStays DEF Hand, TxKept, Exclusive, Starting, Started
  <2> QED BY <2>3, <2>4, <2>5 DEF SoloState
<1>3. CASE NoRoom(w)
  <2>1. pc[w] = "room" /\ pc'[w] = (IF many[w] THEN "wait" ELSE "idle")
    BY <1>3, GoneTo DEF NoRoom
  <2>2. UNCHANGED <<rings, port, idx, data, accepted>>
    BY <1>b, <1>3 DEF NoRoom
  <2>3. Exclusive(w)' BY <1>a, <2>1, <2>2 DEF Exclusive, Starting, Started
  <2>4. Copies(w)' BY <1>a, <2>1, <2>2 DEF Copies, Empty, Full
  <2>5. Ordered(w)' BY <1>a, <2>1, <2>2, OrderedStays DEF Hand, TxKept, Exclusive, Starting, Started
  <2> QED BY <2>3, <2>4, <2>5 DEF SoloState
<1>4. CASE Retry(w)
  <2>1. pc[w] = "wait" /\ pc'[w] = "head"
    BY <1>4, GoneTo DEF Retry
  <2>2. UNCHANGED <<rings, port, idx, data, accepted>>
    BY <1>b, <1>4 DEF Retry
  <2>3. Exclusive(w)' BY <1>a, <2>1, <2>2 DEF Exclusive, Starting, Started
  <2>4. Copies(w)' BY <1>a, <2>1, <2>2 DEF Copies, Empty, Full
  <2>5. Ordered(w)' BY <1>a, <2>1, <2>2, OrderedStays DEF Hand, TxKept, Exclusive, Starting, Started
  <2> QED BY <2>3, <2>4, <2>5 DEF SoloState
<1>5. CASE GiveUp(w)
  <2>1. pc[w] = "wait" /\ pc'[w] = (IF written[w] > 0 THEN "test" ELSE "idle")
    BY <1>5, GoneTo DEF GiveUp
  <2>2. UNCHANGED <<rings, port, idx, data, accepted>>
    BY <1>b, <1>5 DEF GiveUp
  <2>3. Exclusive(w)' BY <1>a, <2>1, <2>2 DEF Exclusive, Starting, Started
  <2>4. Copies(w)' BY <1>a, <2>1, <2>2 DEF Copies, Empty, Full
  <2>5. Ordered(w)' BY <1>a, <2>1, <2>2, OrderedStays DEF Hand, TxKept, Exclusive, Starting, Started
  <2> QED BY <2>3, <2>4, <2>5 DEF SoloState
<1>6. CASE Test(w)
  <2>1. pc[w] = "test" /\ pc'[w] = (IF tx_busy THEN "idle" ELSE "tail")
    BY <1>6, GoneTo DEF Test
  <2>2. UNCHANGED <<rings, port, idx, data, accepted>>
    BY <1>b, <1>6 DEF Test
  <2>3. Exclusive(w)' BY <1>a, <2>1, <2>2 DEF Exclusive, Starting, Started
  <2>4. Copies(w)' BY <1>a, <2>1, <2>2 DEF Copies, Empty, Full
  <2>5. Ordered(w)' BY <1>a, <2>1, <2>2, OrderedStays DEF Hand, TxKept, Exclusive, Starting, Started
  <2> QED BY <2>3, <2>4, <2>5 DEF SoloState
<1>7. CASE LoadTail(w)
  <2>1. pc[w] = "tail" /\ pc'[w] = "any"
    BY <1>7, GoneTo DEF LoadTail
  <2>2. UNCHANGED <<rings, port, data, accepted>> /\ idx'[w] = tail["tx"]
    BY <1>b, <1>7 DEF LoadTail
  <2>3. Exclusive(w)' BY <1>a, <2>1, <2>2 DEF Exclusive, Starting, Started
  <2>4. Copies(w)' BY <1>a, <2>1, <2>2 DEF Copies, Empty, Full
  <2>5. Ordered(w)' BY <1>a, <2>1, <2>2, OrderedStays DEF Hand, TxKept, Exclusive, Starting, Started
  <2> QED BY <2>3, <2>4, <2>5 DEF SoloState
<1>8. CASE NotEmpty(w)
  <2>1. pc[w] = "any" /\ pc'[w] = (IF idx[w] = head["tx"] THEN "idle" ELSE "take")
    BY <1>8, GoneTo DEF NotEmpty
  <2>2. UNCHANGED <<rings, port, idx, data, accepted>>
    BY <1>b, <1>8 DEF NotEmpty
  <2>3. Exclusive(w)' BY <1>a, <2>1, <2>2 DEF Exclusive, Starting, Started
  <2>4. Copies(w)' BY <1>a, <2>1, <2>2 DEF Copies, Empty, Full
  <2>5. Ordered(w)' BY <1>a, <2>1, <2>2, OrderedStays DEF Hand, TxKept, Exclusive, Starting, Started
  <2> QED BY <2>3, <2>4, <2>5 DEF SoloState
<1>9. CASE Take(w)
  <2>1. pc[w] = "take" /\ pc'[w] = "release"
    BY <1>9, GoneTo DEF Take
  <2>2. UNCHANGED <<rings, port, idx, accepted>> /\ data'[w] = slot["tx"][idx[w]]
    BY <1>b, <1>9 DEF Take
  <2>3. Exclusive(w)' BY <1>a, <2>1, <2>2 DEF Exclusive, Starting, Started
  <2>4. Copies(w)' BY <1>a, <2>1, <2>2 DEF Copies, Empty, Full
  <2>5. Ordered(w)' BY <1>a, <2>1, <2>2, OrderedStays DEF Hand, TxKept, Exclusive, Starting, Started
  <2> QED BY <2>3, <2>4, <2>5 DEF SoloState
<1>10. CASE SetBusy(w)
  <2>1. pc[w] = "busy" /\ pc'[w] = "ready"
    BY <1>10, GoneTo DEF SetBusy
  <2>2. UNCHANGED <<rings, txie, thr, sent, idx, data, accepted>> /\ tx_busy' = TRUE
    BY <1>b, <1>10 DEF SetBusy
  <2>3. Exclusive(w)' BY <1>a, <2>1, <2>2 DEF Exclusive, Starting, Started
  <2>4. Copies(w)' BY <1>a, <2>1, <2>2 DEF Copies, Empty, Full
  <2>5. Ordered(w)' BY <1>a, <2>1, <2>2, OrderedStays DEF Hand, TxKept, Exclusive, Starting, Started
  <2> QED BY <2>3, <2>4, <2>5 DEF SoloState
<1>11. CASE Ready(w)
  <2>1. pc[w] = "ready" /\ pc'[w] = (IF thr = <<>> THEN "send" ELSE "enable")
    BY <1>11, GoneTo DEF Ready
  <2>2. UNCHANGED <<rings, port, idx, data, accepted>>
    BY <1>b, <1>11 DEF Ready
  <2>3. Exclusive(w)' BY <1>a, <2>1, <2>2 DEF Exclusive, Starting, Started
  <2>4. Copies(w)' BY <1>a, <2>1, <2>2 DEF Copies, Empty, Full
  <2>5. Ordered(w)' BY <1>a, <2>1, <2>2, OrderedStays DEF Hand, TxKept, Exclusive, Starting, Started
  <2> QED BY <2>3, <2>4, <2>5 DEF SoloState
<1>12. CASE Enable(w)
  <2>1. pc[w] = "enable" /\ pc'[w] = "idle"
    BY <1>12, GoneTo DEF Enable
  <2>2. UNCHANGED <<rings, tx_busy, thr, sent, idx, data, accepted>> /\ txie' = TRUE
    BY <1>b, <1>12 DEF Enable
  <2>3. Exclusive(w)' BY <1>a, <2>1, <2>2 DEF Exclusive, Starting, Started
  <2>4. Copies(w)' BY <1>a, <2>1, <2>2 DEF Copies, Empty, Full
  <2>5. Ordered(w)' BY <1>a, <2>1, <2>2, OrderedStays DEF Hand, TxKept, Exclusive, Starting, Started
  <2> QED BY <2>3, <2>4, <2>5 DEF SoloState
<1>13. CASE Store(w)
  <2> DEFINE h == head["tx"]
             t == tail["tx"]
             s == slot["tx"]
  <2>1. pc[w] = "store" /\ pc'[w] = "commit" BY <1>13, GoneTo DEF Store
  <2>2. /\ UNCHANGED <<head, tail, port, idx, data, call, made, accepted>>
        /\ slot'["tx"] = [s EXCEPT ![h] = Byte(w)]
    BY <1>b, <1>13 DEF Store
  <2>3. h \in Slot /\ t \in Slot /\ s \in [Slot -> ByteValue] /\ Byte(w) \in ByteValue
    BY <1>b, ByteIsValue
  <2>4. Exclusive(w)' BY <1>a, <2>1, <2>2 DEF Exclusive, Starting, Started
  <2>5. Byte(w)' = Byte(w) BY <2>2 DEF Byte
  <2>6. slot'["tx"][h] = Byte(w) BY <2>2, <2>3
  <2>7. Copies(w)' BY <1>a, <2>1, <2>2, <2>5, <2>6 DEF Copies, Full
  <2>8. Contents("tx")' = Contents("tx")
    <3>1. Contents("tx") = Elements(h, t, s) BY OrderedTypes
    <3>2. Contents("tx")' = Elements(h, t, [s EXCEPT ![h] = Byte(w)])
      BY <2>2 DEF Contents, Count, Elements, Held, Place
    <3> HIDE DEF h, t, s
    <3> QED BY <2>3, <3>1, <3>2, StoreHidden
  <2>9. Hand(w)' = Hand(w) BY <2>1 DEF Hand
  <2>10. Ordered(w)' BY <1>a, <2>2, <2>8, <2>9 DEF Ordered
  <2> QED BY <2>4, <2>7, <2>10 DEF SoloState
<1>14. CASE Commit(w)
  <2> DEFINE h == head["tx"]
             t == tail["tx"]
             s == slot["tx"]
             b == Byte(w)
  <2>1. pc[w] = "commit" /\ pc'[w] = (IF written[w] + 1 = length[w] THEN "test" ELSE "head")
    BY <1>14, GoneTo DEF Commit
  <2>2. /\ UNCHANGED <<tail, slot, port, idx, data>> /\ head'["tx"] = idx[w]
        /\ accepted' = Append(accepted, b)
    BY <1>b, <1>14 DEF Commit
  <2>3. idx[w] = Wrap(h + 1) /\ Wrap(h + 1) # t /\ s[h] = b BY <1>a, <2>1 DEF Copies, Full
  <2>4. Exclusive(w)' BY <1>a, <2>1, <2>2 DEF Exclusive, Starting, Started
  <2>5. Copies(w)' BY <2>1 DEF Copies
  <2>6. h \in Slot /\ t \in Slot /\ s \in [Slot -> ByteValue] /\ b \in ByteValue
    BY <1>b, ByteIsValue
  <2>7. Hand(w) = <<>> /\ Hand(w)' = <<>> BY <2>1 DEF Hand
  <2>8. Contents("tx") = Elements(h, t, s) /\ Contents("tx") \in Seq(ByteValue) BY OrderedTypes
  <2>9. Contents("tx")' = Elements(Wrap(h + 1), t, s)
    BY <2>2, <2>3 DEF Contents, Count, Elements, Held, Place
  <2> HIDE DEF h, t, s, b
  <2>10. [s EXCEPT ![h] = b] = s BY <2>3, <2>6
  <2>11. Elements(Wrap(h + 1), t, s) = Append(Elements(h, t, s), b)
    BY <2>3, <2>6, <2>10, PutAppends
  <2> DEFINE p == sent \o thr \o <<>>
             E == Contents("tx")
  <2>12. p \in Seq(ByteValue)
    <3>1. sent \in Seq(ByteValue) /\ thr \in Seq(ByteValue) BY OrderedTypes
    <3> QED BY <3>1
  <2>13. accepted = p \o E BY <1>a, <2>7 DEF Ordered
  <2>14. Append(p \o E, b) = p \o Append(E, b)
    <3>1. E \in Seq(ByteValue) BY <2>8
    <3> HIDE DEF p, E
    <3> QED BY <2>6, <2>12, <3>1, AppendMoves
  <2>15. Ordered(w)' BY <2>2, <2>7, <2>8, <2>9, <2>11, <2>13, <2>14 DEF Ordered
  <2> QED BY <2>4, <2>5, <2>15 DEF SoloState
<1>15. CASE Release(w)
  <2> DEFINE h == head["tx"]
             t == tail["tx"]
             s == slot["tx"]
  <2>1. pc[w] = "release" /\ pc'[w] = "busy" BY <1>15, GoneTo DEF Release
  <2>2. UNCHANGED <<head, slot, port, idx, data, accepted>> /\ tail'["tx"] = Wrap(idx[w] + 1)
    BY <1>b, <1>15 DEF Release
  <2>3. idx[w] = t /\ h # t /\ data[w] = s[t] BY <1>a, <2>1 DEF Copies, Empty
  <2>4. Exclusive(w)' BY <1>a, <2>1, <2>2 DEF Exclusive, Starting, Started
  <2>5. Copies(w)' BY <2>1 DEF Copies
  <2>6. h \in Slot /\ t \in Slot /\ s \in [Slot -> ByteValue] BY <1>b
  <2>7. Hand(w) = <<>> /\ Hand(w)' = <<s[t]>> BY <2>1, <2>2, <2>3 DEF Hand
  <2>8. Contents("tx") = Elements(h, t, s) BY OrderedTypes
  <2>9. Contents("tx")' = Elements(h, Wrap(t + 1), s)
    BY <2>2, <2>3 DEF Contents, Count, Elements, Held, Place
  <2> HIDE DEF h, t, s
  <2>10. Elements(h, t, s) = <<s[t]>> \o Elements(h, Wrap(t + 1), s)
    BY <2>3, <2>6, GetTakesFirst
  <2>11. Elements(h, Wrap(t + 1), s) \in Seq(ByteValue)
    <3>1. Wrap(t + 1) \in Slot BY <2>6, WrapInSlot
    <3> QED BY <2>6, <3>1, ElementsAreSeq
  <2> DEFINE p == sent \o thr
             E == Elements(h, Wrap(t + 1), s)
             x == s[t]
  <2>12. p \in Seq(ByteValue)
    <3>1. sent \in Seq(ByteValue) /\ thr \in Seq(ByteValue) BY OrderedTypes
    <3> QED BY <3>1
  <2>13. (p \o <<>>) \o (<<x>> \o E) = (p \o <<x>>) \o E
    <3>1. E \in Seq(ByteValue) /\ x \in ByteValue BY <2>6, <2>11
    <3> HIDE DEF p, E, x
    <3> QED BY <2>12, <3>1, ByteMoves
  <2>14. accepted = (p \o <<>>) \o (<<x>> \o E) BY <1>a, <2>7, <2>8, <2>10 DEF Ordered
  <2>15. Ordered(w)' BY <2>2, <2>7, <2>9, <2>13, <2>14 DEF Ordered
  <2> QED BY <2>4, <2>5, <2>15 DEF SoloState
<1>16. CASE Send(w)
  <2>1. pc[w] = "send" /\ pc'[w] = "enable" BY <1>16, GoneTo DEF Send
  <2>2. UNCHANGED <<rings, tx_busy, txie, sent, data, accepted>> /\ thr' = <<data[w]>>
    BY <1>16 DEF Send
  <2>3. ~txie /\ thr = <<>> BY <1>a, <2>1 DEF Exclusive, Started
  <2>4. Exclusive(w)' BY <1>a, <2>1, <2>2 DEF Exclusive, Starting, Started
  <2>5. Copies(w)' BY <2>1 DEF Copies
  <2>6. Hand(w) = <<data[w]>> /\ Hand(w)' = <<>> BY <2>1 DEF Hand
  <2>7. Contents("tx")' = Contents("tx") BY <2>2 DEF Contents, Count
  <2>8. sent \o <<>> = sent /\ sent \o <<data[w]>> \o <<>> = sent \o <<data[w]>>
    <3> DEFINE p == sent \o <<data[w]>>
    <3>1. sent \in Seq(ByteValue) /\ data[w] \in ByteValue BY OrderedTypes
    <3>2. p \in Seq(ByteValue) BY <3>1
    <3> HIDE DEF p
    <3>3. sent \o <<>> = sent /\ p \o <<>> = p BY <3>1, <3>2, ConcatEmptySeq
    <3> QED BY <3>3 DEF p
  <2>9. Ordered(w)' BY <1>a, <2>2, <2>3, <2>6, <2>7, <2>8 DEF Ordered
  <2> QED BY <2>4, <2>5, <2>9 DEF SoloState
<1> QED
  BY <1>0, <1>1, <1>2, <1>3, <1>4, <1>5, <1>6, <1>7, <1>8, <1>9, <1>10, <1>11, <1>12,
     <1>13, <1>14, <1>15, <1>16, WriteCases

\* The interrupt takes a byte, or finds none; a byte received leaves the
\* transmit ring alone.
TxRingOf == UNCHANGED <<pc, idx, data, length, written, made, accepted>>
            /\ head'["tx"] = head["tx"] /\ slot'["tx"] = slot["tx"]

LEMMA SoloTxNext ==
    ASSUME TypeOK, NEW w \in Writer, TxNext, TxRingOf, ~meddled', SoloState(w)
    PROVE  SoloState(w)'
<1> DEFINE h == head["tx"]
           t == tail["tx"]
           s == slot["tx"]
<1>a. Exclusive(w) /\ Copies(w) /\ Ordered(w) BY DEF SoloState
<1>b. txie /\ thr = <<>> /\ h # t /\ thr' = <<s[t]>> /\ UNCHANGED <<tx_busy, txie, sent>>
  BY DEF TxNext, TXRDY, Empty
<1>c. tail \in [Ring -> Slot] /\ "tx" \in Ring BY DEF TypeOK, Ring
<1>d. tail'["tx"] = Wrap(t + 1) BY <1>c DEF TxNext
<1>e. UNCHANGED <<pc, idx, data, length, written, made, accepted>>
      /\ head'["tx"] = h /\ slot'["tx"] = s
  BY DEF TxRingOf
<1>1. pc[w] \notin Starting \cup Started BY <1>a, <1>b DEF Exclusive
<1>2. Exclusive(w)' BY <1>a, <1>b, <1>e, <1>1 DEF Exclusive
<1>3. h \in Slot /\ t \in Slot /\ s \in [Slot -> ByteValue] BY OrderedTypes
<1>4. Wrap(h + 1) # Wrap(t + 1)
  <2> HIDE DEF h, t, s
  <2>1. Size \in Nat /\ h \in Nat /\ t \in Nat /\ h < Size /\ t < Size
    BY <1>3, UartAssumption DEF Slot
  <2> QED BY <1>b, <2>1 DEF Wrap
<1>5. Copies(w)'
  <2>1. Byte(w)' = Byte(w) BY <1>e DEF Byte
  <2> QED BY <1>a, <1>d, <1>e, <1>1, <1>4, <2>1 DEF Copies, Full, Starting, Started
<1>6. Hand(w) = <<>> /\ Hand(w)' = <<>> BY <1>1, <1>e DEF Hand, Starting, Started
<1>7. Contents("tx") = Elements(h, t, s) BY OrderedTypes
<1>8. Contents("tx")' = Elements(h, Wrap(t + 1), s)
  BY <1>d, <1>e DEF Contents, Count, Elements, Held, Place
<1> HIDE DEF h, t, s
<1>9. Elements(h, t, s) = <<s[t]>> \o Elements(h, Wrap(t + 1), s) BY <1>b, <1>3, GetTakesFirst
<1>10. Elements(h, Wrap(t + 1), s) \in Seq(ByteValue)
  <2>1. Wrap(t + 1) \in Slot BY <1>3, WrapInSlot
  <2> QED BY <1>3, <2>1, ElementsAreSeq
<1> DEFINE E == Elements(h, Wrap(t + 1), s)
           x == s[t]
<1>11. sent \in Seq(ByteValue) /\ x \in ByteValue /\ E \in Seq(ByteValue)
  BY <1>3, <1>10, OrderedTypes
<1>12. accepted = ((sent \o <<>>) \o <<>>) \o (<<x>> \o E)
  BY <1>a, <1>b, <1>6, <1>7, <1>9 DEF Ordered
<1>13. ((sent \o <<>>) \o <<>>) \o (<<x>> \o E) = ((sent \o <<x>>) \o <<>>) \o E
  <2> HIDE DEF E, x
  <2>1. sent \o <<>> = sent BY <1>11, ByteMoves
  <2>2. sent \o (<<x>> \o E) = (sent \o <<x>>) \o E BY <1>11, ByteMoves
  <2>3. sent \o <<x>> \in Seq(ByteValue) BY <1>11
  <2>4. (sent \o <<x>>) \o <<>> = sent \o <<x>> BY <2>3, ConcatEmptySeq
  <2> QED BY <2>1, <2>2, <2>4
<1>14. Ordered(w)' BY <1>b, <1>e, <1>6, <1>8, <1>12, <1>13 DEF Ordered
<1> QED BY <1>2, <1>5, <1>14 DEF SoloState

LEMMA SoloTxOther ==
    ASSUME TypeOK, NEW w \in Writer, TxDone \/ TxNotReady, TxRingOf, ~meddled', SoloState(w)
    PROVE  SoloState(w)'
<1>a. Exclusive(w) /\ Copies(w) /\ Ordered(w) BY DEF SoloState
<1>b. UNCHANGED <<tail, thr, sent>> BY DEF TxDone, TxNotReady, port
<1>e. UNCHANGED <<pc, idx, data, length, written, made, accepted>>
      /\ head'["tx"] = head["tx"] /\ slot'["tx"] = slot["tx"]
  BY DEF TxRingOf
<1>1. Exclusive(w)'
  <2>1. CASE TxDone
    <3>1. txie' = FALSE /\ tx_busy' = FALSE /\ thr = <<>> /\ (txie \/ ~tx_busy)
      BY <2>1 DEF TxDone, TXRDY
    <3> QED BY <1>a, <1>b, <1>e, <3>1 DEF Exclusive
  <2>2. CASE TxNotReady
    <3>1. UNCHANGED <<tx_busy, txie>> BY <2>2 DEF TxNotReady, port
    <3> QED BY <1>a, <1>b, <1>e, <3>1 DEF Exclusive
  <2> QED BY <2>1, <2>2
<1>2. Copies(w)'
  <2>1. Byte(w)' = Byte(w) BY <1>e DEF Byte
  <2> QED BY <1>a, <1>b, <1>e, <2>1 DEF Copies, Empty, Full
<1>3. Hand(w)' = Hand(w) BY <1>e DEF Hand
<1>4. Ordered(w)' BY <1>a, <1>b, <1>e, <1>3, OrderedStays DEF TxKept
<1> QED BY <1>1, <1>2, <1>4 DEF SoloState

LEMMA SoloOthers ==
    ASSUME TypeOK, NEW w \in Writer, Shift \/ TxInterrupt \/ RxInterrupt \/ Read \/ UNCHANGED vars,
           ~meddled', SoloState(w)
    PROVE  SoloState(w)'
<1>a. Exclusive(w) /\ Copies(w) /\ Ordered(w) BY DEF SoloState
<1>b. head \in [Ring -> Slot] /\ tail \in [Ring -> Slot] /\ slot \in [Ring -> [Slot -> ByteValue]]
      /\ "tx" \in Ring /\ "rx" \in Ring
  BY DEF TypeOK, Ring
<1>1. CASE Shift
  <2>1. /\ UNCHANGED <<rings, tx_busy, txie, pc, idx, data, length, written, made, accepted>>
        /\ sent' = sent \o thr /\ thr' = <<>>
    BY <1>1 DEF Shift, writers, call
  <2>2. Exclusive(w)' BY <1>a, <2>1 DEF Exclusive
  <2>3. Copies(w)'
    <3>1. Byte(w)' = Byte(w) BY <2>1 DEF Byte
    <3> QED BY <1>a, <2>1, <3>1 DEF Copies, Empty, Full, rings
  <2>4. Hand(w)' = Hand(w) /\ Contents("tx")' = Contents("tx")
    BY <2>1 DEF Hand, Contents, Count, rings
  <2>5. (sent \o thr) \o <<>> = sent \o thr
    <3> DEFINE p == sent \o thr
    <3>1. sent \in Seq(ByteValue) /\ thr \in Seq(ByteValue) BY OrderedTypes
    <3>2. p \in Seq(ByteValue) BY <3>1
    <3> HIDE DEF p
    <3>3. p \o <<>> = p BY <3>2, ConcatEmptySeq
    <3> QED BY <3>3 DEF p
  <2>6. Ordered(w)' BY <1>a, <2>1, <2>4, <2>5 DEF Ordered
  <2> QED BY <2>2, <2>3, <2>6 DEF SoloState
<1>2. CASE TxInterrupt
  <2>1. TxRingOf BY <1>2 DEF TxInterrupt, TxRingOf, writers, call
  <2> QED BY <1>2, <2>1, SoloTxNext, SoloTxOther DEF TxInterrupt
<1>3. CASE RxInterrupt
  <2>1. head'["tx"] = head["tx"] /\ slot'["tx"] = slot["tx"]
    BY <1>b, <1>3 DEF RxInterrupt, RxPut, RxLost, RxError
  <2>2. TxRingOf BY <1>3, <2>1 DEF RxInterrupt, TxRingOf, writers, call
  <2> QED BY <1>3, <2>2, SoloTxNext, SoloTxOther DEF RxInterrupt
<1>4. CASE Read \/ UNCHANGED vars
  <2>1. UNCHANGED <<port, pc, idx, data, length, written, made, accepted>>
    BY <1>4 DEF Read, writers, call, vars
  <2>2. TxKept
    BY <1>b, <1>4 DEF Read, ReadNotEmpty, ReadTake, ReadRelease, rings, vars, TxKept
  <2>3. Exclusive(w)' BY <1>a, <2>1 DEF Exclusive, port
  <2>4. Copies(w)'
    <3>1. Byte(w)' = Byte(w) BY <2>1 DEF Byte
    <3> QED BY <1>a, <2>1, <2>2, <3>1 DEF Copies, Empty, Full, TxKept
  <2>5. Hand(w)' = Hand(w) BY <2>1 DEF Hand
  <2>6. Ordered(w)' BY <1>a, <2>1, <2>2, <2>5, OrderedStays DEF port
  <2> QED BY <2>3, <2>4, <2>6 DEF SoloState
<1> QED BY <1>1, <1>2, <1>3, <1>4

\* A writer with nothing to write takes no step.
LEMMA IdleStays ==
    ASSUME TypeOK, NEW v \in Writer, load[v] = 0, pc[v] = "idle", Write(v)
    PROVE  FALSE
<1>1. \A n \in 1 .. load[v] : FALSE OBVIOUS
<1> QED BY <1>1, WriteCases DEF LoadHead, HasRoom, NoRoom, Retry, GiveUp, Store, Commit, Test,
      LoadTail, NotEmpty, Take, Release, SetBusy, Ready, Send, Enable, Goto

LEMMA NextSolo == IInv /\ SoloInv /\ [Next]_vars => SoloInv'
<1> SUFFICES ASSUME IInv, SoloInv, [Next]_vars, NEW w \in Writer, OnlyWriter(w)'
             PROVE  OthersIdle(w)' /\ (~meddled' => SoloState(w)')
  BY DEF SoloInv, SoloState
<1>1. TypeOK /\ InCall BY DEF IInv
<1>2. load' = load
  BY WriteCases DEF Next, Shift, TxInterrupt, RxInterrupt, Read, vars, writers, Call, LoadHead,
     HasRoom, NoRoom, Retry, GiveUp, Store, Commit, Test, LoadTail, NotEmpty, Take, Release,
     SetBusy, Ready, Send, Enable
<1>3. OnlyWriter(w) BY <1>2 DEF OnlyWriter
<1>4. OthersIdle(w) /\ (~meddled => SoloState(w)) BY <1>3 DEF SoloInv, SoloState
<1>5. ~meddled' => ~meddled
  BY WriteCases DEF Next, Shift, TxInterrupt, RxInterrupt, Read, vars, port, Call, LoadHead,
     HasRoom, NoRoom, Retry, GiveUp, Store, Commit, Test, LoadTail, NotEmpty, Take, Release,
     SetBusy, Ready, Send, Enable, TxNext, TxDone, TxNotReady
<1>6. ASSUME NEW v \in Writer, Write(v) PROVE OthersIdle(w)' /\ (~meddled' => SoloState(w)')
  <2>1. v = w BY <1>1, <1>3, <1>4, <1>6, IdleStays DEF OnlyWriter, OthersIdle
  <2>2. OthersIdle(w)'
    <3>1. \A u \in Writer \ {w} : pc'[u] = pc[u]
      BY <1>1, <1>6, <2>1, WriteCases, GoneTo DEF Call, LoadHead,
         HasRoom, NoRoom, Retry, GiveUp, Store, Commit, Test, LoadTail, NotEmpty, Take, Release,
         SetBusy, Ready, Send, Enable
    <3> QED BY <1>4, <3>1 DEF OthersIdle
  <2> QED BY <1>1, <1>4, <1>5, <1>6, <2>1, <2>2, SoloWrite
<1>7. CASE Shift \/ TxInterrupt \/ RxInterrupt \/ Read \/ UNCHANGED vars
  <2>1. pc' = pc BY <1>7 DEF Shift, TxInterrupt, RxInterrupt, Read, vars, writers
  <2>2. OthersIdle(w)' BY <1>4, <2>1 DEF OthersIdle
  <2> QED BY <1>1, <1>4, <1>5, <1>7, <2>2, SoloOthers
<1> QED BY <1>6, <1>7 DEF Next

LEMMA InitSolo == Init => SoloInv
<1> SUFFICES ASSUME Init, NEW w \in Writer
             PROVE  OthersIdle(w) /\ Exclusive(w) /\ Copies(w) /\ Ordered(w)
  BY DEF SoloInv
<1>1. pc[w] = "idle" /\ ~txie /\ ~tx_busy /\ thr = <<>> BY DEF Init
<1>2. OthersIdle(w) BY DEF Init, OthersIdle
<1>3. Exclusive(w) BY <1>1 DEF Exclusive, Starting, Started
<1>4. Copies(w) BY <1>1 DEF Copies
<1>5. Ordered(w)
  <2>1. head["tx"] = 0 /\ tail["tx"] = 0 BY DEF Init, Ring
  <2>2. Count("tx") = 0 BY <2>1, UartAssumption DEF Count
  <2>3. Contents("tx") = <<>> BY <2>2 DEF Contents
  <2>4. Hand(w) = <<>> BY <1>1 DEF Hand
  <2>5. accepted = <<>> /\ sent = <<>> BY DEF Init
  <2>6. <<>> \o <<>> \o <<>> \o <<>> = <<>> OBVIOUS
  <2> QED BY <1>1, <2>3, <2>4, <2>5, <2>6 DEF Ordered
<1> QED BY <1>2, <1>3, <1>4, <1>5

\* With one writer, a ring of any size and any bytes, every byte that was put
\* is sent once and in order, until a received byte runs the transmit callback
\* in the middle of StartTx or of a Put (uart_irq.c:108-135 and 215-250).
THEOREM TransmissionInOrder == Spec => []SoloInOrder
<1>1. SoloInv => SoloInOrder
  <2> SUFFICES ASSUME SoloInv, Solo, ~meddled
               PROVE  accepted = sent \o thr \o InHand \o Contents("tx")
    BY DEF SoloInOrder
  <2>1. PICK w \in Writer : OnlyWriter(w) BY DEF Solo, OnlyWriter
  <2>2. OthersIdle(w) /\ Ordered(w) BY <2>1 DEF SoloInv
  <2>3. \A v \in Writer : pc[v] \in {"busy", "ready", "send"} => v = w BY <2>2 DEF OthersIdle
  <2>4. InHand = Hand(w)
    <3>1. CASE pc[w] \in {"busy", "ready", "send"}
      <4>1. (CHOOSE v \in Writer : pc[v] \in {"busy", "ready", "send"}) = w BY <2>3, <3>1
      <4> QED BY <3>1, <4>1 DEF InHand, Hand
    <3>2. CASE pc[w] \notin {"busy", "ready", "send"}
      <4>1. ~\E v \in Writer : pc[v] \in {"busy", "ready", "send"} BY <2>3, <3>2
      <4> QED BY <3>2, <4>1 DEF InHand, Hand
    <3> QED BY <3>1, <3>2
  <2> QED BY <2>2, <2>4 DEF Ordered
<1> QED BY <1>1, InitIInv, NextIInv, InitSolo, NextSolo, PTL DEF Spec
=============================================================================
