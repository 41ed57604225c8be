---------------------------- MODULE Dmesg_proofs ----------------------------
(***************************************************************************)
(* Proofs about Dmesg, for any size of the buffer and of a header, any     *)
(* messages and any number of calls: the types, whatever the tasks do; and *)
(* while no two calls of writers overlap, that the buffer is laid out as a *)
(* queue of entries, that the counts are true, that a reader shows what is *)
(* logged, and that the log is the one of LogService.                      *)
(***************************************************************************)
EXTENDS Dmesg, SequenceTheorems, WellFoundedInduction, TLAPS

-----------------------------------------------------------------------------
(* Types                                                                   *)

WriterPlace == {"idle", "test", "evict", "advance", "count", "guard", "check",
                "store", "commit", "add"}
ReaderPlace == {"idle", "count", "offset", "header", "copy", "show"}

\* A writer in a call has a length to write and bytes of its entry left; a
\* reader in a call has entries left to show and bytes left to copy.
InCall(t) ==
    /\ pc[t] # "idle" => len[t] \in 1 .. MsgMax
    /\ pc[t] = "store" => stored[t] < Header + len[t]
InRead ==
    /\ rpc \in {"offset", "header", "copy", "show"} => left > 0
    /\ rpc = "copy" => rlen > 0 /\ Len(text) < rlen

TypeInv == TypeOK /\ (\A t \in Writer : InCall(t)) /\ InRead

LEMMA Sizes ==
    /\ Size \in Nat /\ Header \in Nat /\ MsgMax \in Nat /\ Header > 0 /\ MsgMax > 0
    /\ Header + MsgMax < Size /\ Slack \in Nat /\ Word \in Nat /\ Size < Word
    /\ MaxCalls \in Nat /\ MaxReads \in Nat
    /\ \A l \in Lengths : l \in 1 .. MsgMax
    /\ \A n \in Asked : n \in Nat /\ n > 0
BY DmesgAssumption

\* An offset stays in the buffer.
LEMMA ModType == \A i \in Int, m \in Nat \ {0} : i % m \in 0 .. m - 1
OBVIOUS

LEMMA AtType == \A o \in Int, k \in Int : At(o, k) \in Offset
<1> SUFFICES ASSUME NEW o \in Int, NEW k \in Int PROVE (o + k) % Size \in 0 .. Size - 1
  BY DEF At, Offset
<1>1. o + k \in Int /\ Size \in Nat \ {0} BY Sizes
<1> HIDE DEF At
<1> QED BY <1>1, ModType

\* The types of what the calls share, of the reader, and of the writers.
Shared ==
    /\ memory \in [Offset -> Cell]
    /\ write_offset \in Offset /\ read_offset \in Offset
    /\ log_count \in 0 .. Word - 1
    /\ total_writes \in Nat /\ dropped_messages \in Nat
    /\ written \in Seq(1 .. MsgMax) /\ gone \in Nat /\ forgot \in BOOLEAN
    /\ calls \in 0 .. MaxCalls /\ disturbed \in BOOLEAN
OfReader ==
    /\ rpc \in ReaderPlace
    /\ roff \in Offset /\ skip \in Nat /\ left \in Nat /\ rlen \in 0 .. MsgMax
    /\ text \in Seq(Cell) /\ Len(text) <= MsgMax /\ reads \in 0 .. MaxReads
    /\ shown \in Seq(Seq(Cell)) /\ from \in Nat /\ at \in Nat
Locals ==
    /\ pc \in [Writer -> WriterPlace] /\ len \in [Writer -> 0 .. MsgMax]
    /\ eviction_count \in [Writer -> Nat] /\ off \in [Writer -> Offset]
    /\ stored \in [Writer -> 0 .. Header + MsgMax]

LEMMA TypeParts ==
    /\ TypeOK <=> Shared /\ OfReader /\ Locals
    /\ TypeOK' <=> Shared' /\ OfReader' /\ Locals'
BY Zenon DEF TypeOK, Shared, OfReader, Locals, WriterPlace, ReaderPlace

LEMMA InitTypes == Init => TypeInv
<1> SUFFICES ASSUME Init PROVE TypeInv OBVIOUS
<1> USE Sizes DEF Init
<1>1. memory \in [Offset -> Cell] BY DEF Offset, Cell
<1>2. 0 \in Offset BY DEF Offset
<1>3. \A t \in Writer : InCall(t) BY DEF InCall
<1>4. InRead BY DEF InRead
<1>5. text \in Seq(Cell) /\ Len(text) <= MsgMax /\ shown \in Seq(Seq(Cell))
      /\ written \in Seq(1 .. MsgMax)
  OBVIOUS
<1>6. 0 \in 0 .. Word - 1 /\ 0 \in 0 .. MaxCalls /\ 0 \in 0 .. MaxReads /\ 0 \in 0 .. MsgMax
      /\ 0 \in 0 .. Header + MsgMax
  OBVIOUS
<1>7. Shared BY <1>1, <1>2, <1>5, <1>6 DEF Shared
<1>8. OfReader BY <1>2, <1>5, <1>6 DEF OfReader, ReaderPlace
<1>9. Locals BY <1>2, <1>6 DEF Locals, WriterPlace
<1> QED BY <1>3, <1>4, <1>7, <1>8, <1>9, TypeParts DEF TypeInv

\* A writer's step leaves the reader's variables alone, and keeps the types.
LEMMA ReaderStays ==
    ASSUME TypeInv, UNCHANGED reader
    PROVE  OfReader' /\ InRead'
<1>1. OfReader /\ InRead BY TypeParts DEF TypeInv
<1> QED BY <1>1 DEF reader, OfReader, InRead

Only(t) == \A u \in Writer \ {t} : pc'[u] = pc[u] /\ len'[u] = len[u] /\ stored'[u] = stored[u]

LEMMA CallsStay ==
    ASSUME TypeInv, NEW t \in Writer, Only(t), InCall(t)'
    PROVE  \A u \in Writer : InCall(u)'
BY DEF TypeInv, Only, InCall

LEMMA TypeWrite ==
    ASSUME TypeInv, NEW t \in Writer, WriterNext(t)
    PROVE  Shared' /\ Locals' /\ InCall(t)'
<1> USE DEF offsets, stats, history, Goto
<1>a. Shared /\ Locals /\ InCall(t) BY TypeParts DEF TypeInv
<1>b. /\ pc[t] \in WriterPlace /\ len[t] \in 0 .. MsgMax /\ eviction_count[t] \in Nat
      /\ off[t] \in Offset /\ stored[t] \in 0 .. Header + MsgMax
  BY <1>a DEF Locals
<1>1. ASSUME NEW l \in Lengths, Call(t, l) PROVE Shared' /\ Locals' /\ InCall(t)'
  <2>1. l \in 1 .. MsgMax /\ calls' \in 0 .. MaxCalls BY <1>1, <1>a, Sizes DEF Call, Shared
  <2>2. Shared' BY <1>1, <1>a, <2>1 DEF Call, Shared
  <2>3. Locals' BY <1>1, <1>a, <2>1, Sizes DEF Call, Locals, WriterPlace
  <2> QED BY <1>1, <1>a, <2>1, <2>2, <2>3 DEF Call, InCall, Locals
<1>2. CASE Clear(t)
  <2>1. calls' \in 0 .. MaxCalls /\ 0 \in Offset /\ 0 \in 0 .. Word - 1 /\ Len(written) \in Nat
    BY <1>2, <1>a, Sizes DEF Clear, Shared, Offset
  <2>2. Shared' BY <1>2, <1>a, <2>1 DEF Clear, AllLeave, Shared
  <2> QED BY <1>2, <1>a, <2>2 DEF Clear, Locals, InCall
<1>3. CASE Test(t) BY <1>3, <1>a DEF Test, Shared, Locals, WriterPlace, InCall
<1>4. CASE Evicting(t)
  <2>5. UNCHANGED <<memory, write_offset, total_writes, len, eviction_count, stored, calls>>
    BY <1>4 DEF Evicting
  <2>6. CASE log_count = 0
    <3>1. Goto(t, "evict", "guard")
          /\ UNCHANGED <<off, read_offset, log_count, dropped_messages, history, disturbed>>
      BY <1>4, <2>6 DEF Evicting, Evict
    <3>2. Shared' BY <1>a, <2>5, <3>1 DEF Shared
    <3>3. Locals' BY <1>a, <2>5, <3>1 DEF Locals, WriterPlace
    <3> QED BY <1>a, <2>5, <3>1, <3>2, <3>3 DEF Locals, InCall
  <2> SUFFICES ASSUME log_count # 0 PROVE Shared' /\ Locals' /\ InCall(t)' BY <2>6
  <2>1. PICK l \in LengthAt(read_offset) :
          IF Valid(l)
          THEN /\ Goto(t, "evict", "advance")
               /\ off' = [off EXCEPT ![t] = At(read_offset, Header + l)]
               /\ UNCHANGED <<read_offset, log_count, dropped_messages, history, disturbed>>
          ELSE /\ Goto(t, "evict", "guard")
               /\ read_offset' = write_offset
               /\ log_count' = 0
               /\ dropped_messages' = dropped_messages + 1
               /\ AllLeave
               /\ UNCHANGED <<off, written>>
    BY <1>4 DEF Evicting, Evict
  <2>2. UNCHANGED <<memory, write_offset, total_writes, len, eviction_count, stored, calls>>
    BY <2>5
  <2>3. CASE Valid(l)
    <3>1. At(read_offset, Header + l) \in Offset
      <4>1. l \in Int /\ Header + l \in Int /\ read_offset \in Int
        BY <2>3, <1>a, Sizes DEF Valid, Shared, Offset
      <4> QED BY <4>1, AtType
    <3>2. Goto(t, "evict", "advance") /\ off' = [off EXCEPT ![t] = At(read_offset, Header + l)]
          /\ UNCHANGED <<read_offset, log_count, dropped_messages, history, disturbed>>
      BY <2>1, <2>3
    <3>3. Shared' BY <1>a, <2>2, <3>2 DEF Shared
    <3>4. Locals' BY <1>a, <2>2, <3>1, <3>2 DEF Locals, WriterPlace
    <3> QED BY <1>a, <2>2, <3>2, <3>3, <3>4 DEF Locals, InCall
  <2>4. CASE ~Valid(l)
    <3>1. 0 \in 0 .. Word - 1 /\ Len(written) \in Nat BY <1>a, Sizes DEF Shared
    <3>2. Goto(t, "evict", "guard") /\ read_offset' = write_offset /\ log_count' = 0
          /\ dropped_messages' = dropped_messages + 1 /\ AllLeave /\ UNCHANGED <<off, written>>
      BY <2>1, <2>4
    <3>3. Shared' BY <1>a, <2>2, <3>1, <3>2 DEF Shared, AllLeave
    <3>4. Locals' BY <1>a, <2>2, <3>2 DEF Locals, WriterPlace
    <3> QED BY <1>a, <2>2, <3>2, <3>3, <3>4 DEF Locals, InCall
  <2> QED BY <2>3, <2>4
<1>5. CASE Advance(t)
  <2>1. Shared' BY <1>5, <1>a, <1>b DEF Advance, OldestLeaves, Shared
  <2>2. Locals' BY <1>5, <1>a DEF Advance, Locals, WriterPlace
  <2> QED BY <1>5, <1>a, <2>1, <2>2 DEF Advance, Locals, InCall
<1>6. CASE Count(t)
  <2>1. (log_count - 1) % Word \in 0 .. Word - 1
    <3>1. log_count - 1 \in Int /\ Word \in Nat \ {0} BY <1>a, Sizes DEF Shared
    <3> QED BY <3>1, ModType
  <2> QED BY <1>6, <1>a, <2>1 DEF Count, Shared, Locals, WriterPlace, InCall
<1>7. CASE Guard(t)
  <2> DEFINE n == eviction_count[t] + 1
  <2>1. n \in Nat /\ eviction_count' = [eviction_count EXCEPT ![t] = n]
        /\ UNCHANGED <<memory, total_writes, len, off, stored, calls, written>>
    BY <1>7, <1>b DEF Guard
  <2>2. CASE n > (log_count + Slack) % Word
    <3>1. 0 \in Offset /\ 0 \in 0 .. Word - 1 /\ Len(written) \in Nat
      BY <1>a, Sizes DEF Shared, Offset
    <3>2. Goto(t, "guard", "idle") /\ write_offset' = 0 /\ read_offset' = 0 /\ log_count' = 0
          /\ dropped_messages' = dropped_messages + 1 /\ AllLeave
      BY <1>7, <2>2 DEF Guard
    <3> HIDE DEF n
    <3> QED BY <1>a, <2>1, <3>1, <3>2 DEF Shared, Locals, WriterPlace, InCall, AllLeave
  <2>3. CASE ~(n > (log_count + Slack) % Word)
    <3>1. Goto(t, "guard", "test")
          /\ UNCHANGED <<offsets, log_count, dropped_messages, gone, forgot, disturbed>>
      BY <1>7, <2>3 DEF Guard
    <3> HIDE DEF n
    <3> QED BY <1>a, <2>1, <3>1 DEF Shared, Locals, WriterPlace, InCall
  <2> QED BY <2>2, <2>3
<1>8. CASE Check(t)
  <2>1. 0 \in 0 .. Header + MsgMax /\ dropped_messages' \in Nat
    BY <1>8, <1>a, <1>b, Sizes DEF Check, Shared
  <2>2. Shared' BY <1>8, <1>a, <2>1 DEF Check, Shared
  <2>3. Locals' BY <1>8, <1>a, <2>1 DEF Check, Shared, Locals, WriterPlace
  <2>4. InCall(t)' BY <1>8, <1>a, <1>b, Sizes DEF Check, InCall, Locals
  <2> QED BY <2>2, <2>3, <2>4
<1>9. CASE StoreByte(t)
  <2> DEFINE k == stored[t] + 1
  <2>1. /\ Goto(t, "store", IF k = Need(t) THEN "commit" ELSE "store")
        /\ memory' = [memory EXCEPT ![off[t]] = <<Len(written) + 1, k, len[t]>>]
        /\ off' = [off EXCEPT ![t] = At(@, 1)]
        /\ stored' = [stored EXCEPT ![t] = k]
        /\ UNCHANGED <<offsets, log_count, stats, len, eviction_count, calls, history, disturbed>>
    BY <1>9 DEF StoreByte
  <2>2. len[t] \in 1 .. MsgMax /\ k \in 1 .. Header + len[t] /\ k <= Header + MsgMax /\ k \in Nat
    BY <1>a, <1>b, <2>1, Sizes DEF InCall
  <2>3. At(off[t], 1) \in Offset BY <1>b, Sizes, AtType DEF Offset
  <2>4. <<Len(written) + 1, k, len[t]>> \in Cell
    <3>1. Len(written) \in Nat BY <1>a DEF Shared
    <3>2. Len(written) + 1 \in Nat \ {0} BY <3>1
    <3>3. k \in 1 .. Header + MsgMax BY <2>2, Sizes
    <3> HIDE DEF k
    <3> QED BY <2>2, <3>2, <3>3 DEF Cell
  <2> HIDE DEF k
  <2>5. Shared' BY <1>a, <1>b, <2>1, <2>4 DEF Shared
  <2>6. Locals'
    <3>1. k \in 0 .. Header + MsgMax BY <2>2, Sizes
    <3> QED BY <1>a, <2>1, <2>3, <3>1 DEF Locals, WriterPlace
  <2>7. InCall(t)' BY <1>a, <1>b, <2>1, <2>2, Sizes DEF InCall, Locals, Need
  <2> QED BY <2>5, <2>6, <2>7
<1>10. CASE Commit(t)
  <2>1. len[t] \in 1 .. MsgMax BY <1>10, <1>a DEF Commit, InCall
  <2>2. written' \in Seq(1 .. MsgMax) BY <1>10, <1>a, <2>1 DEF Commit, Shared
  <2>3. Shared' BY <1>10, <1>a, <1>b, <2>2 DEF Commit, Shared
  <2>4. Locals' BY <1>10, <1>a DEF Commit, Locals, WriterPlace
  <2> QED BY <1>10, <1>a, <2>3, <2>4 DEF Commit, Locals, InCall
<1>11. CASE Add(t)
  <2>1. (log_count + 1) % Word \in 0 .. Word - 1
    <3>1. log_count + 1 \in Int /\ Word \in Nat \ {0} BY <1>a, Sizes DEF Shared
    <3> QED BY <3>1, ModType
  <2> QED BY <1>11, <1>a, <2>1 DEF Add, Shared, Locals, WriterPlace, InCall
<1> QED
  BY <1>1, <1>2, <1>3, <1>4, <1>5, <1>6, <1>7, <1>8, <1>9, <1>10, <1>11
  DEF WriterNext, Write

LEMMA WriterOnly ==
    ASSUME TypeInv, NEW t \in Writer, WriterNext(t)
    PROVE  Only(t)
<1>1. Locals BY TypeParts DEF TypeInv
<1> QED
  BY <1>1 DEF Only, Locals, Goto, WriterNext, Write, Call, Test, Evicting, Evict, Advance, Count,
     Guard, Check, StoreByte, Commit, Add, Clear

LEMMA TypeWriter ==
    ASSUME TypeInv, NEW t \in Writer, WriterNext(t)
    PROVE  TypeInv'
<1>1. Shared' /\ Locals' /\ InCall(t)' BY TypeWrite
<1>2. UNCHANGED reader
  BY Zenon DEF WriterNext, Write, Call, Test, Evicting, Advance, Count, Guard, Check, StoreByte,
     Commit, Add, Clear
<1>3. Only(t) BY WriterOnly
<1> QED BY <1>1, <1>2, <1>3, ReaderStays, CallsStay, TypeParts DEF TypeInv

LEMMA TypeReader ==
    ASSUME TypeInv, ReaderStep \/ ReaderCall
    PROVE  TypeInv'
<1>a. Shared /\ OfReader /\ InRead /\ Locals BY TypeParts DEF TypeInv
<1>b. /\ UNCHANGED <<memory, offsets, log_count, stats, writer, history>>
      /\ disturbed' \in BOOLEAN
  <2>1. UNCHANGED <<memory, offsets, log_count, stats, writer, history>>
    BY DEF ReaderStep, ReaderCall
  <2>2. disturbed \in BOOLEAN BY <1>a DEF Shared
  <2>3. \/ disturbed' = FALSE \/ disturbed' = Evicted \/ disturbed' = (disturbed \/ Evicted)
        \/ disturbed' = disturbed
    BY Zenon DEF ReaderStep, ReaderCall, GetLogs, GetLogsCount, GetLatestN, GetLatestOffset, Skip,
       ReadHeader, CopyByte, Show
  <2>4. Evicted \in BOOLEAN BY DEF Evicted
  <2> QED BY <2>1, <2>2, <2>3, <2>4
<1>1. Shared' BY <1>a, <1>b DEF offsets, stats, writer, history, Shared
<1>2. Locals' /\ \A t \in Writer : InCall(t)' BY <1>a, <1>b DEF writer, Locals, TypeInv, InCall
<1>c. read_offset \in Offset /\ log_count \in Nat /\ gone \in Nat BY <1>a, Sizes DEF Shared
<1> USE DEF ReaderGoto, ReaderPlace
<1>3. OfReader' /\ InRead'
  <2>1. CASE GetLogs
    <3>1. gone + 1 \in Nat /\ <<>> \in Seq(Seq(Cell)) BY <1>c
    <3>2. rpc' = "count" /\ UNCHANGED <<left, text, rlen>> /\ skip' = 0 /\ roff' = read_offset
          /\ reads < MaxReads /\ reads' = reads + 1 /\ shown' = <<>> /\ from' = gone + 1
          /\ at' = gone + 1
      BY <2>1 DEF GetLogs, Begin
    <3>3. reads' \in 0 .. MaxReads BY <1>a, <3>2, Sizes DEF OfReader
    <3> QED BY <1>a, <1>c, <3>1, <3>2, <3>3 DEF OfReader, InRead
  <2>2. ASSUME NEW n \in Asked, GetLatestN(n) PROVE OfReader' /\ InRead'
    <3>1. n \in Nat /\ n > 0 BY Sizes
    <3>2. rpc' = "offset" /\ UNCHANGED <<roff, text, rlen>> /\ log_count > 0
          /\ left' = (IF n <= log_count THEN n ELSE log_count) /\ skip' = log_count - left'
          /\ reads < MaxReads /\ reads' = reads + 1 /\ shown' = <<>> /\ from' = gone + 1 + skip'
          /\ at' = gone + 1
      BY <2>2 DEF GetLatestN, Begin, MinOf
    <3>3. left' \in Nat /\ left' > 0 /\ skip' \in Nat BY <3>1, <3>2, <1>c
    <3>4. from' \in Nat /\ at' \in Nat /\ <<>> \in Seq(Seq(Cell)) BY <3>2, <3>3, <1>c
    <3>5. reads' \in 0 .. MaxReads BY <1>a, <3>2, Sizes DEF OfReader
    <3>6. OfReader' BY <1>a, <3>2, <3>3, <3>4, <3>5 DEF OfReader
    <3> QED BY <3>2, <3>3, <3>6 DEF InRead
  <2>3. CASE GetLogsCount BY <2>3, <1>a, <1>c DEF GetLogsCount, OfReader, InRead
  <2>4. CASE GetLatestOffset BY <2>4, <1>a, <1>c DEF GetLatestOffset, OfReader, InRead
  <2>5. \A l : Valid(l) => At(roff, Header + l) \in Offset /\ At(roff, Header) \in Offset
                        /\ l \in 1 .. MsgMax
    <3> TAKE l
    <3> SUFFICES ASSUME Valid(l)
                 PROVE  At(roff, Header + l) \in Offset /\ At(roff, Header) \in Offset
      BY DEF Valid
    <3>1. Header + l \in Int /\ Header \in Int /\ roff \in Int
      BY Sizes, <1>a DEF Valid, OfReader, Offset
    <3> QED BY <3>1, AtType
  <2>6. CASE Skip
    <3>1. PICK l \in LengthAt(roff) :
            IF Valid(l)
            THEN /\ ReaderGoto("header", "header")
                 /\ roff' = At(roff, Header + l)
                 /\ skip' = skip - 1
                 /\ at' = at + 1
            ELSE ReaderGoto("header", "idle") /\ UNCHANGED <<roff, skip, at>>
      BY <2>6 DEF Skip
    <3>2. skip > 0 /\ UNCHANGED <<left, text, rlen, reads, shown, from>> BY <2>6 DEF Skip
    <3> QED BY <3>1, <3>2, <1>a, <2>5 DEF OfReader, InRead
  <2>7. CASE ReadHeader
    <3>1. PICK l \in LengthAt(roff) :
            IF Valid(l)
            THEN /\ ReaderGoto("header", "copy")
                 /\ roff' = At(roff, Header)
                 /\ rlen' = l
            ELSE ReaderGoto("header", "idle") /\ UNCHANGED <<roff, rlen>>
      BY <2>7 DEF ReadHeader
    <3>2. text' = <<>> /\ UNCHANGED <<skip, left, reads, shown, from, at>>
      BY <2>7 DEF ReadHeader
    <3>3. text' \in Seq(Cell) /\ Len(text') = 0 BY <3>2
    <3> QED BY <3>1, <3>2, <3>3, <1>a, <2>5, Sizes DEF OfReader, InRead
  <2>8. CASE CopyByte
    <3>1. At(roff, 1) \in Offset
      <4>1. roff \in Int BY <1>a DEF OfReader, Offset
      <4> QED BY <4>1, AtType
    <3>2. memory[roff] \in Cell BY <1>a DEF Shared, OfReader
    <3>3. /\ rpc = "copy" /\ rpc' = (IF Len(text) + 1 = rlen THEN "show" ELSE "copy")
          /\ text' = Append(text, memory[roff]) /\ roff' = At(roff, 1)
          /\ UNCHANGED <<skip, left, rlen, reads, shown, from, at>>
      BY <2>8 DEF CopyByte
    <3>4. /\ left > 0 /\ rlen \in 1 .. MsgMax /\ Len(text) < rlen /\ text \in Seq(Cell)
          /\ Len(text) \in Nat
      BY <3>3, <1>a DEF InRead, OfReader
    <3>5. text' \in Seq(Cell) /\ Len(text') = Len(text) + 1 BY <3>2, <3>3, <3>4
    <3>6. OfReader' BY <3>1, <3>3, <3>4, <3>5, <1>a, Sizes DEF OfReader
    <3> QED BY <3>3, <3>4, <3>5, <3>6 DEF InRead
  <2>9. CASE Show BY <2>9, <1>a DEF Show, OfReader, InRead
  <2> QED
    BY <2>1, <2>2, <2>3, <2>4, <2>6, <2>7, <2>8, <2>9 DEF ReaderStep, ReaderCall
<1> QED BY <1>1, <1>2, <1>3, TypeParts DEF TypeInv

LEMMA TypeStep == TypeInv /\ [Next]_vars => TypeInv'
<1> SUFFICES ASSUME TypeInv, [Next]_vars PROVE TypeInv' OBVIOUS
<1>1. ASSUME NEW t \in Writer, WriterNext(t) PROVE TypeInv' BY <1>1, TypeWriter
<1>2. CASE ReaderCall \/ ReaderStep BY <1>2, TypeReader
<1>3. CASE UNCHANGED vars
  <2>1. UNCHANGED <<memory, write_offset, read_offset, log_count, total_writes, dropped_messages>>
        /\ UNCHANGED <<written, gone, forgot, calls, disturbed>>
        /\ UNCHANGED <<pc, len, eviction_count, off, stored>> /\ UNCHANGED reader
    BY <1>3 DEF vars, offsets, stats, writer, history
  <2>2. Shared' /\ Locals' /\ \A t \in Writer : InCall(t)'
    BY <2>1, TypeParts DEF TypeInv, Shared, Locals, InCall
  <2> QED BY <2>1, <2>2, ReaderStays, TypeParts DEF TypeInv
<1> QED BY <1>1, <1>2, <1>3 DEF Next

\* The variables keep their types whatever the tasks do, so every offset that
\* dmesg.c computes lies in the buffer (dmesg.c:62-184, 300-402).
THEOREM TypeCorrect == Spec => []TypeOK
<1>1. Init => TypeInv BY InitTypes
<1>2. TypeInv /\ [Next]_vars => TypeInv' BY TypeStep
<1>3. TypeInv => TypeOK BY DEF TypeInv
<1> QED BY <1>1, <1>2, <1>3, PTL DEF Spec

-----------------------------------------------------------------------------
(* Offsets as remainders of positions                                      *)

LEMMA MultNegative == \A s \in Nat, q \in Int : q <= -1 => s * q <= -s
OBVIOUS

\* Every position is a number of turns round the buffer and an offset.
LEMMA DivMod ==
    ASSUME NEW s \in Nat \ {0}, NEW a \in Nat
    PROVE  \E q \in Nat : \E r \in 0 .. s - 1 : a = s * q + r /\ a % s = r
<1> DEFINE q == a \div s
           r == a % s
<1>1. q \in Int /\ r \in 0 .. s - 1 /\ a = s * q + r
  <2>1. r \in 0 .. s - 1 OBVIOUS
  <2>2. q \in Int OBVIOUS
  <2>3. a = s * q + r OBVIOUS
  <2> QED BY <2>1, <2>2, <2>3
<1> HIDE DEF q, r
<1>2. q \in Nat
  <2> SUFFICES ASSUME q <= -1 PROVE FALSE BY <1>1
  <2>1. s * q <= -s BY <1>1, MultNegative
  <2> QED BY <1>1, <2>1
<1> QED BY <1>1, <1>2 DEF r

LEMMA ModUnique ==
    ASSUME NEW s \in Nat \ {0}, NEW q \in Nat, NEW r \in 0 .. s - 1
    PROVE  (s * q + r) % s = r
OBVIOUS

LEMMA MultStep == \A s \in Nat, q, d \in Nat : d >= q + 1 => s * d >= s * q + s
OBVIOUS

\* A remainder may be taken before or after an addition.
LEMMA ModAdd ==
    ASSUME NEW s \in Nat \ {0}, NEW a \in Nat, NEW k \in Nat
    PROVE  ((a % s) + k) % s = (a + k) % s
<1>1. PICK q \in Nat, r \in 0 .. s - 1 : a = s * q + r /\ a % s = r BY DivMod
<1>2. r + k \in Nat OBVIOUS
<1>3. PICK u \in Nat, v \in 0 .. s - 1 : r + k = s * u + v /\ (r + k) % s = v BY <1>2, DivMod
<1>4. a + k = s * (q + u) + v BY <1>1, <1>3
<1>5. q + u \in Nat OBVIOUS
<1>6. (a + k) % s = v BY <1>4, <1>5, ModUnique
<1> QED BY <1>1, <1>3, <1>6

\* Positions less than one turn apart have different offsets.
LEMMA ModDiff ==
    ASSUME NEW s \in Nat \ {0}, NEW a \in Nat, NEW b \in Nat, a < b, b < a + s
    PROVE  a % s # b % s
<1> SUFFICES ASSUME a % s = b % s PROVE FALSE OBVIOUS
<1>1. PICK q \in Nat, r \in 0 .. s - 1 : a = s * q + r /\ a % s = r BY DivMod
<1>2. PICK u \in Nat, v \in 0 .. s - 1 : b = s * u + v /\ b % s = v BY DivMod
<1>3. r = v BY <1>1, <1>2
<1>a. s * q \in Nat /\ s * u \in Nat OBVIOUS
<1>4. s * q < s * u /\ s * u < s * q + s BY <1>1, <1>2, <1>3, <1>a
<1>5. CASE u <= q
  <2>1. s * u <= s * q BY <1>5
  <2> QED BY <2>1, <1>4, <1>a
<1>6. CASE u >= q + 1
  <2>1. s * u >= s * q + s BY <1>6, MultStep
  <2> QED BY <2>1, <1>4, <1>a
<1> QED BY <1>5, <1>6

\* The distance of two such positions, from their offsets.
LEMMA ModSpan ==
    ASSUME NEW s \in Nat \ {0}, NEW a \in Nat, NEW b \in Nat, a <= b, b < a + s
    PROVE  /\ a % s \in 0 .. s - 1 /\ b % s \in 0 .. s - 1
           /\ IF a % s <= b % s THEN (b % s) - (a % s) = b - a ELSE (b % s) - (a % s) = b - a - s
<1>1. PICK q \in Nat, r \in 0 .. s - 1 : a = s * q + r /\ a % s = r BY DivMod
<1>2. PICK u \in Nat, v \in 0 .. s - 1 : b = s * u + v /\ b % s = v BY DivMod
<1>a. s * q \in Nat /\ s * u \in Nat OBVIOUS
<1>3. CASE u = q
  <2>1. b - a = v - r BY <1>1, <1>2, <1>3, <1>a
  <2> QED BY <1>1, <1>2, <2>1
<1>4. CASE u = q + 1
  <2>1. s * u = s * q + s BY <1>4
  <2>2. b - a = v - r + s BY <1>1, <1>2, <2>1, <1>a
  <2>3. v < r BY <2>2
  <2>4. a % s = r /\ b % s = v BY <1>1, <1>2
  <2>5. ~(a % s <= b % s) BY <2>3, <2>4
  <2>6. v - r = b - a - s BY <2>2
  <2>7. (b % s) - (a % s) = b - a - s BY <2>4, <2>6
  <2> QED BY <2>4, <2>5, <2>7
<1>5. CASE u <= q - 1
  <2>1. s * q >= s * u + s BY <1>5, MultStep
  <2> QED BY <1>1, <1>2, <2>1, <1>a
<1>6. CASE u >= q + 2
  <2>1. s * u >= s * (q + 1) + s BY <1>6, MultStep
  <2>2. s * (q + 1) = s * q + s OBVIOUS
  <2> QED BY <1>1, <1>2, <2>1, <2>2, <1>a
<1> QED BY <1>3, <1>4, <1>5, <1>6

-----------------------------------------------------------------------------
(* What dmesg.h:45 asks of the callers: no task takes a step of a call     *)
(* while another one is in a call.  Nothing is asked of the reader.        *)

Alone(t) == \A u \in Writer \ {t} : pc[u] = "idle"
InTurn == \A t \in Writer : WriterNext(t) => Alone(t)
CallsInTurn == [][InTurn]_vars

-----------------------------------------------------------------------------
(* The layout of the log when w is the writer that may be in a call.  p[n] *)
(* is the position of entry n in a buffer without end: its offset is       *)
(* p[n] % Size, and entry n + 1 begins where entry n ends.                 *)

Last == Len(written)
Ends(n) == Header + written[n]

\* From the oldest entry on, the entries follow each other, fill less than one
\* turn of the buffer, and their bytes are there.
Layout(p) ==
    /\ gone <= Last
    /\ read_offset = p[gone + 1] % Size /\ write_offset = p[Last + 1] % Size
    /\ p[Last + 1] < p[gone + 1] + Size
    /\ \A i \in gone + 1 .. Last : p[i + 1] = p[i] + Ends(i)
    /\ \A i, j \in gone + 1 .. Last + 1 : i <= j => p[i] + (j - i) <= p[j]
    /\ \A i \in gone + 1 .. Last : \A k \in 1 .. Ends(i) :
          memory[(p[i] + k - 1) % Size] = <<i, k, written[i]>>

\* The evictions that a call has yet to add to the statistics.
Behind(w) ==
    CASE pc[w] \in {"test", "evict", "advance", "check"} -> eviction_count[w]
      [] pc[w] \in {"count", "guard"} -> eviction_count[w] + 1
      [] OTHER -> 0

Counts(w) ==
    /\ log_count = Last - gone + (IF pc[w] = "count" THEN 1 ELSE IF pc[w] = "add" THEN -1 ELSE 0)
    /\ total_writes = Last - (IF pc[w] = "add" THEN 1 ELSE 0)
    /\ forgot \/ gone = dropped_messages + Behind(w)
    /\ Last + (IF pc[w] \in {"idle", "add"} THEN 0 ELSE 1) <= calls
    /\ pc[w] \in {"evict", "advance", "add"} => gone < Last

\* What a call has done: it has found the end of the oldest entry, or it has
\* room for its own and stores it behind the newest.
Progress(w, p) ==
    /\ pc[w] # "idle" => len[w] \in Lengths
    /\ pc[w] = "advance" => off[w] = p[gone + 2] % Size
    /\ pc[w] \in {"store", "commit"} =>
          /\ p[Last + 1] + Need(w) < p[gone + 1] + Size
          /\ off[w] = (p[Last + 1] + stored[w]) % Size
          /\ \A k \in 1 .. stored[w] :
                memory[(p[Last + 1] + k - 1) % Size] = <<Last + 1, k, len[w]>>
    /\ pc[w] = "commit" => stored[w] = Need(w)

\* The bytes of a text, and the first k of them.
TextOf(n, k) == [b \in 1 .. k |-> <<n, Header + b, written[n]>>]

\* A reader that nothing disturbed stands at an entry of the log, or at its
\* end before it has read the count.
Reading(p) ==
    ~disturbed /\ rpc # "idle" =>
        /\ gone < at /\ at + skip = from + Len(shown)
        /\ rpc = "count" => at = gone + 1 /\ skip = 0 /\ roff = p[at] % Size
        /\ rpc = "offset" => at = gone + 1 /\ skip + left <= Last - gone
        /\ rpc \in {"header", "copy", "show"} => at + skip + left <= Last + 1
        /\ rpc = "header" => roff = p[at] % Size
        /\ rpc = "copy" => /\ skip = 0 /\ rlen = written[at] /\ text = TextOf(at, Len(text))
                           /\ roff = (p[at] + Header + Len(text)) % Size
        /\ rpc = "show" => /\ skip = 0 /\ text = TextOf(at, written[at])
                           /\ roff = p[at + 1] % Size

Seen ==
    ~disturbed =>
        \A i \in 1 .. Len(shown) :
            LET n == from + i - 1 IN n \in 1 .. Last /\ shown[i] = TextOf(n, written[n])

Placed(w, p) ==
    /\ Layout(p) /\ Counts(w) /\ Progress(w, p) /\ Reading(p) /\ Seen

IInv(w) == TypeInv /\ \E p \in [Nat -> Nat] : Placed(w, p)

LogInv == \E w \in Writer : Alone(w) /\ IInv(w)

-----------------------------------------------------------------------------
(* What the layout says                                                    *)

LEMMA LayoutTypes ==
    ASSUME TypeInv, NEW p \in [Nat -> Nat], Layout(p)
    PROVE  /\ Last \in Nat /\ gone \in 0 .. Last
           /\ \A i \in Nat : p[i] \in Nat
           /\ \A i \in 1 .. Last : written[i] \in 1 .. MsgMax /\ Ends(i) \in Nat
           /\ p[gone + 1] \in Nat /\ p[Last + 1] \in Nat
           /\ Last - gone <= p[Last + 1] - p[gone + 1] /\ p[gone + 1] <= p[Last + 1]
           /\ Last - gone < Size
<1>1. written \in Seq(1 .. MsgMax) /\ gone \in Nat BY TypeParts DEF TypeInv, Shared
<1>2. Last \in Nat /\ gone \in 0 .. Last BY <1>1 DEF Last, Layout
<1>3. \A i \in 1 .. Last : written[i] \in 1 .. MsgMax /\ Ends(i) \in Nat
  <2> TAKE i \in 1 .. Last
  <2>1. written[i] \in 1 .. MsgMax BY <1>1, ElementOfSeq DEF Last
  <2>2. Header \in Nat /\ MsgMax \in Nat BY Sizes
  <2>3. Header + written[i] \in Nat BY <2>1, <2>2
  <2> QED BY <2>1, <2>3 DEF Ends
<1>4. p[gone + 1] \in Nat /\ p[Last + 1] \in Nat BY <1>2
<1>5. p[gone + 1] + (Last + 1 - (gone + 1)) <= p[Last + 1]
  <2>1. gone + 1 \in gone + 1 .. Last + 1 /\ Last + 1 \in gone + 1 .. Last + 1
        /\ gone + 1 <= Last + 1
    BY <1>2
  <2>2. \A i, j \in gone + 1 .. Last + 1 : i <= j => p[i] + (j - i) <= p[j] BY DEF Layout
  <2> HIDE DEF Last
  <2> QED BY <1>2, <1>4, <2>1, <2>2
<1>6. p[Last + 1] < p[gone + 1] + Size BY DEF Layout
<1> QED BY <1>2, <1>3, <1>4, <1>5, <1>6, Sizes

\* What follows an entry of the log.
LEMMA Follows ==
    ASSUME TypeInv, NEW p \in [Nat -> Nat], Layout(p), NEW i \in gone + 1 .. Last
    PROVE  /\ i \in 1 .. Last /\ p[i] \in Nat /\ p[i + 1] \in Nat
           /\ written[i] \in 1 .. MsgMax /\ Ends(i) = Header + written[i]
           /\ p[gone + 1] <= p[i] /\ p[i + 1] = p[i] + Ends(i) /\ p[i + 1] <= p[Last + 1]
<1>1. Last \in Nat /\ gone \in 0 .. Last /\ \A j \in Nat : p[j] \in Nat BY LayoutTypes
<1>2. i \in 1 .. Last /\ i \in Nat /\ i + 1 \in Nat BY <1>1
<1>3. written[i] \in 1 .. MsgMax BY <1>2, LayoutTypes
<1>4. p[gone + 1] + (i - (gone + 1)) <= p[i] /\ p[i + 1] + (Last + 1 - (i + 1)) <= p[Last + 1]
  <2>1. /\ gone + 1 \in gone + 1 .. Last + 1 /\ Last + 1 \in gone + 1 .. Last + 1
        /\ i \in gone + 1 .. Last + 1 /\ i + 1 \in gone + 1 .. Last + 1
        /\ gone + 1 <= i /\ i + 1 <= Last + 1
    BY <1>1
  <2>2. \A k, j \in gone + 1 .. Last + 1 : k <= j => p[k] + (j - k) <= p[j] BY DEF Layout
  <2> QED BY <1>1, <1>2, <2>1, <2>2
<1>5. p[i + 1] = p[i] + Ends(i) BY DEF Layout
<1>6. p[gone + 1] \in Nat /\ p[i] \in Nat /\ p[i + 1] \in Nat /\ p[Last + 1] \in Nat
  BY <1>1, <1>2
<1> QED BY <1>1, <1>2, <1>3, <1>4, <1>5, <1>6 DEF Ends

\* The space is what the entries leave, less one byte.
LEMMA Space ==
    ASSUME TypeInv, NEW p \in [Nat -> Nat], Layout(p)
    PROVE  get_available_space = Size - 1 - (p[Last + 1] - p[gone + 1])
<1> DEFINE a == p[gone + 1]
           b == p[Last + 1]
<1>1. a \in Nat /\ b \in Nat /\ a <= b /\ b < a + Size /\ Size \in Nat \ {0}
  <2>1. b < a + Size BY DEF Layout
  <2> QED BY <2>1, LayoutTypes, Sizes
<1>2. read_offset = a % Size /\ write_offset = b % Size BY DEF Layout
<1> HIDE DEF a, b
<1>3. /\ a % Size \in 0 .. Size - 1 /\ b % Size \in 0 .. Size - 1
      /\ IF a % Size <= b % Size THEN (b % Size) - (a % Size) = b - a
                                 ELSE (b % Size) - (a % Size) = b - a - Size
  BY <1>1, ModSpan
<1>4. get_available_space = Size - 1 - (b - a)
  BY <1>1, <1>2, <1>3 DEF get_available_space
<1> QED BY <1>4 DEF a, b

\* The readers of a header find the length of the entry and the next entry.
LEMMA HeaderAt ==
    ASSUME TypeInv, NEW p \in [Nat -> Nat], Layout(p), NEW i \in gone + 1 .. Last
    PROVE  /\ LengthAt(p[i] % Size) = {written[i]} /\ Valid(written[i])
           /\ At(p[i] % Size, Header + written[i]) = p[i + 1] % Size
           /\ At(p[i] % Size, Header) = (p[i] + Header) % Size
<1>2. Size \in Nat \ {0} /\ Header \in Nat \ {0} /\ Header - 1 \in Nat /\ MsgMax \in Nat
  BY Sizes
<1>1. p[i] \in Nat /\ p[i + 1] = p[i] + (Header + written[i]) /\ written[i] \in 1 .. MsgMax
      /\ Ends(i) = Header + written[i] /\ i \in 1 .. Last /\ written[i] \in Nat
  <2>1. p[i] \in Nat /\ p[i + 1] = p[i] + Ends(i) /\ written[i] \in 1 .. MsgMax
        /\ Ends(i) = Header + written[i] /\ i \in 1 .. Last
    BY Follows
  <2> QED BY <2>1, <1>2
<1>3. \A k \in Nat : At(p[i] % Size, k) = (p[i] + k) % Size BY <1>1, <1>2, ModAdd DEF At
<1>4. memory[At(p[i] % Size, Header - 1)] = <<i, Header, written[i]>>
  <2>1. Header \in 1 .. Ends(i) BY <1>1, <1>2
  <2>2. memory[(p[i] + Header - 1) % Size] = <<i, Header, written[i]>> BY <2>1 DEF Layout
  <2>3. p[i] + (Header - 1) = p[i] + Header - 1 BY <1>1, <1>2
  <2> QED BY <1>2, <1>3, <2>2, <2>3
<1>5. LengthAt(p[i] % Size) = {written[i]}
  <2>1. <<i, Header, written[i]>> # Zero BY <1>2 DEF Zero
  <2> QED BY <1>4, <2>1 DEF LengthAt
<1>6. At(p[i] % Size, Header + written[i]) = p[i + 1] % Size
  <2>1. Header + written[i] \in Nat /\ p[i] + (Header + written[i]) = p[i + 1] BY <1>1, <1>2
  <2> QED BY <1>3, <2>1
<1>7. At(p[i] % Size, Header) = (p[i] + Header) % Size BY <1>2, <1>3
<1> QED BY <1>1, <1>5, <1>6, <1>7 DEF Valid

\* The layout stands while nobody moves an offset or stores a byte.
LEMMA LayoutStays ==
    ASSUME NEW p \in [Nat -> Nat], Layout(p),
           UNCHANGED <<memory, offsets, written, gone>>
    PROVE  Layout(p)'
BY DEF Layout, Last, Ends, offsets

\* So does what the reader has reached, while its log is left alone.
LEMMA ReadingStays ==
    ASSUME NEW p \in [Nat -> Nat], Reading(p), Seen, UNCHANGED <<reader, written, gone, disturbed>>
    PROVE  Reading(p)' /\ Seen'
<1>1. /\ UNCHANGED <<rpc, roff, skip, left, text, rlen, shown, from, at>>
      /\ UNCHANGED <<written, gone, disturbed>>
  BY DEF reader
<1>2. Reading(p)' BY <1>1 DEF Reading, Last, TextOf
<1>3. Seen'
  <2>1. \A n, k : TextOf(n, k)' = TextOf(n, k) BY <1>1 DEF TextOf
  <2> QED BY <1>1, <2>1 DEF Seen, Last
<1> QED BY <1>2, <1>3

-----------------------------------------------------------------------------
(* The steps of the writer                                                 *)

LEMMA InitPlaced ==
    ASSUME NEW w \in Writer, Init
    PROVE  \E p \in [Nat -> Nat] : Placed(w, p)
<1> DEFINE p == [i \in Nat |-> 0]
<1>1. p \in [Nat -> Nat] /\ p[1] = 0 OBVIOUS
<1>2. Last = 0 /\ gone = 0 /\ pc[w] = "idle" /\ rpc = "idle" /\ Len(shown) = 0 BY DEF Init, Last
<1> HIDE DEF p
<1>3. Layout(p)
  <2>1. Size \in Nat \ {0} /\ 0 \in 0 .. Size - 1 BY Sizes
  <2>2. 0 % Size = 0 BY <2>1
  <2>3. read_offset = 0 /\ write_offset = 0 BY DEF Init
  <2>4. gone + 1 = 1 /\ Last + 1 = 1 /\ gone <= Last BY <1>2
  <2>5. \A i \in gone + 1 .. Last : FALSE BY <1>2
  <2>6. \A i \in gone + 1 .. Last + 1 : i = 1 BY <1>2
  <2>7. \A i, j \in gone + 1 .. Last + 1 : i <= j => p[i] + (j - i) <= p[j]
    BY <1>1, <2>4, <2>6
  <2>8. /\ read_offset = p[gone + 1] % Size /\ write_offset = p[Last + 1] % Size
        /\ p[Last + 1] < p[gone + 1] + Size
    BY <1>1, <2>1, <2>2, <2>3, <2>4
  <2> QED BY <2>4, <2>5, <2>7, <2>8 DEF Layout
<1>4. Counts(w)
  <2>1. log_count = 0 /\ total_writes = 0 /\ dropped_messages = 0 /\ calls = 0 BY DEF Init
  <2>2. Behind(w) = 0 BY <1>2 DEF Behind
  <2> QED BY <1>2, <2>1, <2>2 DEF Counts
<1>5. Progress(w, p) BY <1>2 DEF Progress
<1>6. Reading(p) BY <1>2 DEF Reading
<1>7. Seen BY <1>2 DEF Seen
<1> QED BY <1>1, <1>3, <1>4, <1>5, <1>6, <1>7 DEF Placed

\* The values of a writer's variables, and what a step at one place does to pc.
LEMMA WriterTypes ==
    ASSUME TypeInv, NEW w \in Writer
    PROVE  /\ pc \in [Writer -> WriterPlace] /\ len \in [Writer -> 0 .. MsgMax]
           /\ eviction_count \in [Writer -> Nat] /\ off \in [Writer -> Offset]
           /\ stored \in [Writer -> 0 .. Header + MsgMax]
           /\ eviction_count[w] \in Nat /\ off[w] \in Offset /\ stored[w] \in Nat
           /\ len[w] \in Nat /\ Need(w) \in Nat
           /\ log_count \in 0 .. Word - 1 /\ total_writes \in Nat /\ dropped_messages \in Nat
           /\ calls \in Nat /\ forgot \in BOOLEAN /\ disturbed \in BOOLEAN
           /\ memory \in [Offset -> Cell] /\ written \in Seq(1 .. MsgMax)
<1>1. Shared /\ Locals BY TypeParts DEF TypeInv
<1>2. eviction_count[w] \in Nat /\ off[w] \in Offset /\ stored[w] \in Nat /\ len[w] \in Nat
  <2>1. len[w] \in 0 .. MsgMax /\ stored[w] \in 0 .. Header + MsgMax BY <1>1 DEF Locals
  <2> QED BY <1>1, <2>1, Sizes DEF Locals
<1>3. Need(w) \in Nat BY <1>2, Sizes DEF Need
<1> QED BY <1>1, <1>2, <1>3, Sizes DEF Shared, Locals

LEMMA GoneTo ==
    ASSUME TypeInv, NEW w \in Writer, NEW a, NEW b, Goto(w, a, b)
    PROVE  pc[w] = a /\ pc'[w] = b
BY WriterTypes DEF Goto

\* A step that moves no offset and stores no byte.
LEMMA Quiet ==
    ASSUME NEW w \in Writer, NEW p \in [Nat -> Nat], Placed(w, p),
           UNCHANGED <<memory, offsets, written, gone, reader, disturbed>>,
           Counts(w)', Progress(w, p)'
    PROVE  Placed(w, p)'
<1>1. Layout(p)' BY LayoutStays DEF Placed
<1>2. Reading(p)' /\ Seen' BY ReadingStays DEF Placed
<1> QED BY <1>1, <1>2 DEF Placed

LEMMA CallPlaced ==
    ASSUME TypeInv, NEW w \in Writer, NEW p \in [Nat -> Nat], Placed(w, p),
           NEW l \in Lengths, Call(w, l)
    PROVE  Placed(w, p)'
<1>1. pc[w] = "idle" /\ pc'[w] = "test" BY GoneTo DEF Call
<1>2. /\ calls' = calls + 1 /\ len'[w] = l /\ eviction_count'[w] = 0
      /\ UNCHANGED <<memory, offsets, log_count, stats, off, stored, reader, history, disturbed>>
  BY WriterTypes DEF Call
<1>3. Counts(w)'
  <2>1. Counts(w) /\ calls \in Nat /\ Last \in Nat BY WriterTypes, LayoutTypes DEF Placed
  <2>2. Last' = Last BY <1>2 DEF Last, history
  <2>3. Behind(w) = 0 /\ Behind(w)' = 0 BY <1>1, <1>2 DEF Behind
  <2> QED BY <1>1, <1>2, <2>1, <2>2, <2>3 DEF Counts, stats, history
<1>4. Progress(w, p)' BY <1>1, <1>2 DEF Progress
<1> QED BY <1>2, <1>3, <1>4, Quiet DEF history

LEMMA TestPlaced ==
    ASSUME TypeInv, NEW w \in Writer, NEW p \in [Nat -> Nat], Placed(w, p), Test(w)
    PROVE  Placed(w, p)'
<1>1. pc[w] = "test" /\ pc'[w] = (IF get_available_space < Need(w) /\ log_count > 0
                                  THEN "evict" ELSE "check")
  BY GoneTo DEF Test
<1>2. UNCHANGED <<memory, offsets, log_count, stats, len, eviction_count, off, stored, calls,
                  reader, history, disturbed>>
  BY DEF Test
<1>3. Counts(w)'
  <2>1. Counts(w) /\ Last \in Nat /\ gone \in Nat BY LayoutTypes DEF Placed
  <2>2. Last' = Last BY <1>2 DEF Last, history
  <2>3. Behind(w)' = Behind(w) BY <1>1, <1>2 DEF Behind
  <2>4. pc'[w] = "evict" => gone < Last BY <1>1, <2>1 DEF Counts
  <2> QED BY <1>1, <1>2, <2>1, <2>2, <2>3, <2>4 DEF Counts, stats, history
<1>4. Progress(w, p)' BY <1>1, <1>2 DEF Progress, Placed
<1> QED BY <1>2, <1>3, <1>4, Quiet DEF history

LEMMA CountPlaced ==
    ASSUME TypeInv, NEW w \in Writer, NEW p \in [Nat -> Nat], Placed(w, p), Count(w)
    PROVE  Placed(w, p)'
<1>1. pc[w] = "count" /\ pc'[w] = "guard" BY GoneTo DEF Count
<1>2. /\ UNCHANGED <<memory, offsets, stats, len, eviction_count, off, stored, calls, reader,
                     history, disturbed>>
      /\ log_count' = (log_count - 1) % Word
  BY DEF Count
<1>3. Counts(w)'
  <2>1. Counts(w) /\ Last \in Nat /\ gone \in 0 .. Last /\ Last - gone < Size
    BY LayoutTypes DEF Placed
  <2>2. Last' = Last BY <1>2 DEF Last, history
  <2>3. Behind(w)' = Behind(w) BY <1>1, <1>2 DEF Behind
  <2>4. log_count' = Last - gone
    <3>1. log_count - 1 = Last - gone BY <1>1, <2>1, WriterTypes DEF Counts
    <3>2. Last - gone \in 0 .. Word - 1 BY <2>1, Sizes
    <3>3. (Last - gone) % Word = Last - gone BY <3>2, Sizes
    <3> QED BY <1>2, <3>1, <3>3
  <2> QED BY <1>1, <1>2, <2>1, <2>2, <2>3, <2>4 DEF Counts, stats, history
<1>4. Progress(w, p)' BY <1>1, <1>2 DEF Progress, Placed
<1> QED BY <1>2, <1>3, <1>4, Quiet DEF history

LEMMA AddPlaced ==
    ASSUME TypeInv, NEW w \in Writer, NEW p \in [Nat -> Nat], Placed(w, p), Add(w)
    PROVE  Placed(w, p)'
<1>1. pc[w] = "add" /\ pc'[w] = "idle" BY GoneTo DEF Add
<1>2. /\ UNCHANGED <<memory, offsets, dropped_messages, len, eviction_count, off, stored, calls,
                     reader, history, disturbed>>
      /\ log_count' = (log_count + 1) % Word /\ total_writes' = total_writes + 1
  BY DEF Add
<1>3. Counts(w)'
  <2>1. Counts(w) /\ Last \in Nat /\ gone \in 0 .. Last /\ Last - gone < Size
    BY LayoutTypes DEF Placed
  <2>2. Last' = Last BY <1>2 DEF Last, history
  <2>3. Behind(w)' = Behind(w) BY <1>1, <1>2 DEF Behind
  <2>4. log_count' = Last - gone
    <3>1. log_count + 1 = Last - gone BY <1>1, <2>1, WriterTypes DEF Counts
    <3>2. Last - gone \in 0 .. Word - 1 BY <2>1, Sizes
    <3>3. (Last - gone) % Word = Last - gone BY <3>2, Sizes
    <3> QED BY <1>2, <3>1, <3>3
  <2>5. total_writes' = Last BY <1>1, <1>2, <2>1, WriterTypes DEF Counts
  <2> QED BY <1>1, <1>2, <2>1, <2>2, <2>3, <2>4, <2>5 DEF Counts, history
<1>4. Progress(w, p)' BY <1>1, <1>2 DEF Progress, Placed
<1> QED BY <1>2, <1>3, <1>4, Quiet DEF history

LEMMA CheckPlaced ==
    ASSUME TypeInv, NEW w \in Writer, NEW p \in [Nat -> Nat], Placed(w, p), Check(w)
    PROVE  Placed(w, p)'
<1>1. pc[w] = "check"
      /\ pc'[w] = (IF get_available_space < Need(w) THEN "idle" ELSE "store")
  BY GoneTo DEF Check
<1>2. /\ UNCHANGED <<memory, offsets, log_count, total_writes, len, eviction_count, calls, reader,
                     history, disturbed>>
      /\ dropped_messages' = dropped_messages + eviction_count[w]
      /\ off'[w] = write_offset /\ stored'[w] = 0
  BY WriterTypes DEF Check
<1>3. Counts(w)'
  <2>1. Counts(w) /\ Last \in Nat /\ gone \in 0 .. Last BY LayoutTypes DEF Placed
  <2>2. Last' = Last BY <1>2 DEF Last, history
  <2>3. Behind(w) = eviction_count[w] /\ Behind(w)' = 0 BY <1>1, <1>2 DEF Behind
  <2>4. forgot \/ gone = dropped_messages' + 0 BY <1>2, <2>1, <2>3, WriterTypes DEF Counts
  <2>5. pc'[w] \in {"idle", "store"} BY <1>1
  <2>6. /\ log_count = Last - gone /\ total_writes = Last /\ Last + 1 <= calls
    BY <1>1, <2>1, WriterTypes DEF Counts
  <2>7. calls \in Nat BY WriterTypes
  <2> QED BY <1>2, <2>1, <2>2, <2>3, <2>4, <2>5, <2>6, <2>7 DEF Counts, history
<1>4. Progress(w, p)'
  <2>1. Progress(w, p) /\ Layout(p) BY DEF Placed
  <2>2. Last' = Last /\ gone' = gone /\ memory' = memory /\ len' = len /\ Need(w)' = Need(w)
    BY <1>2 DEF Last, history, Need
  <2>3. CASE pc'[w] = "idle" BY <2>3 DEF Progress
  <2>4. CASE pc'[w] = "store"
    <3>1. get_available_space = Size - 1 - (p[Last + 1] - p[gone + 1]) BY <2>1, Space
    <3>2. ~(get_available_space < Need(w)) BY <1>1, <2>4
    <3>3. p[Last + 1] \in Nat /\ p[gone + 1] \in Nat BY <2>1, LayoutTypes
    <3>4. p[Last + 1] + Need(w) < p[gone + 1] + Size
      <4>1. Need(w) \in Nat /\ Size \in Nat BY WriterTypes, Sizes
      <4>2. Need(w) <= Size - 1 - (p[Last + 1] - p[gone + 1])
        BY <3>1, <3>2, <3>3, <4>1
      <4> QED BY <3>3, <4>1, <4>2
    <3>5. write_offset = (p[Last + 1] + 0) % Size BY <2>1, <3>3 DEF Layout
    <3>6. \A k \in 1 .. 0 : FALSE OBVIOUS
    <3>7. len[w] \in Lengths BY <1>1, <2>1 DEF Progress
    <3> QED BY <1>2, <2>2, <2>4, <3>4, <3>5, <3>6, <3>7 DEF Progress
  <2> QED BY <1>1, <2>3, <2>4
<1> QED BY <1>2, <1>3, <1>4, Quiet DEF history

\* The oldest entry is whole, so its eviction finds where it ends: the branch
\* for an invalid length is never taken, and neither is that for an empty log.
LEMMA EvictPlaced ==
    ASSUME TypeInv, NEW w \in Writer, NEW p \in [Nat -> Nat], Placed(w, p), Evicting(w)
    PROVE  Placed(w, p)'
<1>a. Layout(p) /\ Counts(w) /\ Progress(w, p) BY DEF Placed
<1>b. pc[w] = "evict"
  BY WriterTypes DEF Evicting, Evict, Goto
<1>c. gone < Last /\ Last \in Nat /\ gone \in 0 .. Last BY <1>a, <1>b, LayoutTypes DEF Counts
<1>g. log_count # 0 BY <1>a, <1>b, <1>c, WriterTypes DEF Counts
<1>d. gone + 1 \in gone + 1 .. Last /\ gone + 2 = gone + 1 + 1 BY <1>c
<1>e. read_offset = p[gone + 1] % Size BY <1>a DEF Layout
<1>f. /\ LengthAt(read_offset) = {written[gone + 1]} /\ Valid(written[gone + 1])
      /\ At(read_offset, Header + written[gone + 1]) = p[gone + 2] % Size
  BY <1>a, <1>d, <1>e, HeaderAt
<1>1. /\ Goto(w, "evict", "advance")
      /\ off' = [off EXCEPT ![w] = At(read_offset, Header + written[gone + 1])]
      /\ UNCHANGED <<read_offset, log_count, dropped_messages, history, disturbed>>
  BY <1>f, <1>g DEF Evicting, Evict
<1>2. UNCHANGED <<memory, write_offset, total_writes, len, eviction_count, stored, calls, reader>>
  BY DEF Evicting
<1>3. pc'[w] = "advance" /\ off'[w] = p[gone + 2] % Size BY <1>1, <1>f, GoneTo, WriterTypes
<1>4. Last' = Last /\ gone' = gone BY <1>1 DEF Last, history
<1>5. Counts(w)'
  <2>1. Behind(w)' = Behind(w) BY <1>b, <1>2, <1>3 DEF Behind
  <2> QED BY <1>a, <1>b, <1>c, <1>1, <1>2, <1>3, <1>4, <2>1 DEF Counts, history
<1>6. Progress(w, p)' BY <1>a, <1>b, <1>2, <1>3, <1>4 DEF Progress
<1> QED BY <1>1, <1>2, <1>5, <1>6, Quiet DEF history, offsets

\* What is left of the log without its oldest entry is laid out as before.
LEMMA AdvancePlaced ==
    ASSUME TypeInv, NEW w \in Writer, NEW p \in [Nat -> Nat], Placed(w, p), Advance(w)
    PROVE  Placed(w, p)'
<1>a. Layout(p) /\ Counts(w) /\ Progress(w, p) /\ Reading(p) /\ Seen BY DEF Placed
<1>b. pc[w] = "advance" /\ pc'[w] = "count" BY GoneTo DEF Advance
<1>c. gone < Last /\ Last \in Nat /\ gone \in 0 .. Last /\ gone \in Nat
  BY <1>a, <1>b, LayoutTypes DEF Counts
<1>1. /\ UNCHANGED <<memory, write_offset, log_count, stats, len, eviction_count, off, stored,
                     calls, reader, written, forgot>>
      /\ read_offset' = off[w] /\ gone' = gone + 1
      /\ disturbed' = (disturbed \/ (rpc # "idle" /\ at = gone + 1))
  BY DEF Advance, OldestLeaves
<1>2. Last' = Last /\ \A n : Ends(n)' = Ends(n) BY <1>1 DEF Last, Ends
<1>3. Layout(p)'
  <2>1. p[gone + 1] <= p[gone + 2] /\ p[gone + 1] \in Nat /\ p[gone + 2] \in Nat
    <3>1. gone + 1 \in gone + 1 .. Last /\ gone + 1 + 1 = gone + 2 BY <1>c
    <3>2. p[gone + 1] \in Nat /\ p[gone + 2] = p[gone + 1] + Ends(gone + 1)
          /\ Ends(gone + 1) = Header + written[gone + 1] /\ written[gone + 1] \in 1 .. MsgMax
          /\ p[gone + 2] \in Nat
      BY <1>a, <3>1, Follows
    <3> QED BY <3>2, Sizes
  <2>2. gone' + 1 = gone + 2 /\ gone' <= Last' BY <1>1, <1>2, <1>c
  <2>3. read_offset' = p[gone' + 1] % Size BY <1>a, <1>b, <1>1, <2>2 DEF Progress
  <2>4. write_offset' = p[Last' + 1] % Size BY <1>a, <1>1, <1>2 DEF Layout
  <2>5. p[Last' + 1] < p[gone' + 1] + Size
    <3>1. p[Last + 1] < p[gone + 1] + Size BY <1>a DEF Layout
    <3>2. p[Last + 1] \in Nat BY <1>a, LayoutTypes
    <3> QED BY <1>2, <2>1, <2>2, <3>1, <3>2, Sizes
  <2>6. \A i \in gone' + 1 .. Last' : i \in gone + 1 .. Last BY <1>1, <1>2, <1>c
  <2>7. \A i \in gone' + 1 .. Last' + 1 : i \in gone + 1 .. Last + 1 BY <1>1, <1>2, <1>c
  <2>8. \A i \in gone' + 1 .. Last' : p[i + 1] = p[i] + Ends(i)'
    BY <1>a, <1>2, <2>6 DEF Layout
  <2>9. \A i, j \in gone' + 1 .. Last' + 1 : i <= j => p[i] + (j - i) <= p[j]
    BY <1>a, <2>7 DEF Layout
  <2>10. \A i \in gone' + 1 .. Last' : \A k \in 1 .. Ends(i)' :
           memory'[(p[i] + k - 1) % Size] = <<i, k, written'[i]>>
    BY <1>a, <1>1, <1>2, <2>6 DEF Layout
  <2> QED BY <2>2, <2>3, <2>4, <2>5, <2>8, <2>9, <2>10 DEF Layout
<1>4. Counts(w)'
  <2>1. Behind(w)' = Behind(w) + 1 BY <1>b, <1>1, WriterTypes DEF Behind
  <2>2. forgot' \/ gone' = dropped_messages' + Behind(w)'
    <3>1. forgot \/ gone = dropped_messages + Behind(w) BY <1>a DEF Counts
    <3>2. Behind(w) \in Nat /\ dropped_messages \in Nat BY <1>b, WriterTypes DEF Behind
    <3> QED BY <1>1, <1>c, <2>1, <3>1, <3>2 DEF stats
  <2>3. log_count = Last - gone /\ total_writes = Last /\ Last + 1 <= calls
    BY <1>a, <1>b, <1>c, WriterTypes DEF Counts
  <2> QED BY <1>b, <1>c, <1>1, <1>2, <2>2, <2>3 DEF Counts, stats
<1>5. Progress(w, p)' BY <1>a, <1>b, <1>1 DEF Progress
<1>6. Reading(p)'
  <2>1. CASE disturbed' \/ rpc' = "idle" BY <2>1 DEF Reading
  <2>2. CASE ~disturbed' /\ rpc' # "idle"
    <3>1. /\ UNCHANGED <<rpc, roff, skip, left, text, rlen, shown, from, at, written>>
          /\ ~disturbed /\ rpc # "idle" /\ at # gone + 1
      BY <1>1, <2>2 DEF reader
    <3>2. at \in Nat BY TypeParts DEF TypeInv, OfReader
    <3>3. gone' < at BY <1>a, <1>c, <1>1, <3>1, <3>2 DEF Reading
    <3>4. rpc \notin {"count", "offset"} BY <1>a, <3>1 DEF Reading
    <3>5. \A n, k : TextOf(n, k)' = TextOf(n, k) BY <3>1 DEF TextOf
    <3> QED BY <1>a, <1>2, <3>1, <3>3, <3>4, <3>5 DEF Reading
  <2> QED BY <2>1, <2>2
<1>7. Seen'
  <2>1. CASE disturbed' BY <2>1 DEF Seen
  <2>2. CASE ~disturbed'
    <3>1. UNCHANGED <<shown, from, written>> /\ ~disturbed BY <1>1, <2>2 DEF reader
    <3>2. \A n, k : TextOf(n, k)' = TextOf(n, k) BY <3>1 DEF TextOf
    <3> QED BY <1>a, <1>2, <3>1, <3>2 DEF Seen
  <2> QED BY <2>1, <2>2
<1> QED BY <1>3, <1>4, <1>5, <1>6, <1>7 DEF Placed

\* After a reset the log is empty, and begins at the start of the buffer.
LEMMA ResetPlaced ==
    ASSUME TypeInv, NEW w \in Writer, NEW p \in [Nat -> Nat], Placed(w, p),
           read_offset' = 0, write_offset' = 0, AllLeave, UNCHANGED <<reader, written>>,
           log_count' = 0, pc'[w] = "idle", pc[w] \in {"idle", "guard"},
           calls' >= calls, calls' \in Nat, UNCHANGED total_writes
    PROVE  \E q \in [Nat -> Nat] : Placed(w, q)'
<1>a. Layout(p) /\ Counts(w) /\ Seen BY DEF Placed
<1>b. Last \in Nat /\ gone \in 0 .. Last /\ Last + 1 \in Nat BY <1>a, LayoutTypes
<1>1. gone' = Last /\ forgot' = TRUE /\ disturbed' = (disturbed \/ rpc # "idle") /\ Last' = Last
  BY DEF AllLeave, Last
<1>2. PICK q \in [Nat -> Nat] : q[Last + 1] = 0
  <2>1. [p EXCEPT ![Last + 1] = 0] \in [Nat -> Nat] BY <1>b
  <2>2. [p EXCEPT ![Last + 1] = 0][Last + 1] = 0 BY <1>b
  <2> QED BY <2>1, <2>2
<1>3. Layout(q)'
  <2>1. 0 % Size = 0 /\ Size \in Nat /\ Size > 0
    <3>1. Size \in Nat \ {0} /\ 0 \in 0 .. Size - 1 BY Sizes
    <3> QED BY <3>1
  <2>2. \A i \in gone' + 1 .. Last' : FALSE BY <1>b, <1>1
  <2>3. \A i \in gone' + 1 .. Last' + 1 : i = Last + 1 BY <1>b, <1>1
  <2>4. gone' <= Last' BY <1>b, <1>1
  <2>5. /\ read_offset' = q[gone' + 1] % Size /\ write_offset' = q[Last' + 1] % Size
        /\ q[Last' + 1] < q[gone' + 1] + Size
    BY <1>1, <1>2, <2>1
  <2>6. \A i, j \in gone' + 1 .. Last' + 1 : i <= j => q[i] + (j - i) <= q[j]
    <3> TAKE i, j \in gone' + 1 .. Last' + 1
    <3>1. i = Last + 1 /\ j = Last + 1 BY <2>3
    <3> QED BY <1>b, <1>2, <3>1
  <2>7. \A i \in gone' + 1 .. Last' : q[i + 1] = q[i] + Ends(i)' BY <2>2
  <2>8. \A i \in gone' + 1 .. Last' : \A k \in 1 .. Ends(i)' :
          memory'[(q[i] + k - 1) % Size] = <<i, k, written'[i]>>
    BY <2>2
  <2> QED BY <2>4, <2>5, <2>6, <2>7, <2>8 DEF Layout
<1>4. Counts(w)'
  <2>1. Last <= calls /\ calls \in Nat /\ total_writes = Last
    <3>1. calls \in Nat /\ pc[w] # "add" BY WriterTypes
    <3>2. total_writes = Last - 0 BY <1>a, <3>1 DEF Counts
    <3>3. Last + 0 <= calls \/ Last + 1 <= calls BY <1>a DEF Counts
    <3> QED BY <1>b, <3>1, <3>2, <3>3
  <2>2. Last <= calls' BY <1>b, <2>1
  <2> QED BY <1>b, <1>1, <2>1, <2>2 DEF Counts
<1>5. Progress(w, q)' BY DEF Progress
<1>6. Reading(q)' BY <1>1 DEF Reading, reader
<1>7. Seen'
  <2>1. CASE disturbed' BY <2>1 DEF Seen
  <2>2. CASE ~disturbed'
    <3>1. UNCHANGED <<shown, from, written>> /\ ~disturbed BY <1>1, <2>2 DEF reader
    <3>2. \A n, k : TextOf(n, k)' = TextOf(n, k) BY <3>1 DEF TextOf
    <3> QED BY <1>a, <1>1, <3>1, <3>2 DEF Seen
  <2> QED BY <2>1, <2>2
<1>8. Placed(w, q)' BY <1>3, <1>4, <1>5, <1>6, <1>7 DEF Placed
<1> QED BY <1>2, <1>8

LEMMA ClearPlaced ==
    ASSUME TypeInv, NEW w \in Writer, NEW p \in [Nat -> Nat], Placed(w, p), Clear(w)
    PROVE  \E q \in [Nat -> Nat] : Placed(w, q)'
<1>1. /\ pc[w] = "idle" /\ pc' = pc /\ calls' = calls + 1 /\ write_offset' = 0 /\ read_offset' = 0
      /\ log_count' = 0 /\ AllLeave /\ UNCHANGED <<stats, reader, written>>
  BY DEF Clear
<1>2. calls \in Nat BY WriterTypes
<1> QED BY <1>1, <1>2, ResetPlaced DEF stats

LEMMA GuardPlaced ==
    ASSUME TypeInv, NEW w \in Writer, NEW p \in [Nat -> Nat], Placed(w, p), Guard(w)
    PROVE  \E q \in [Nat -> Nat] : Placed(w, q)'
<1> DEFINE n == eviction_count[w] + 1
<1>1. /\ eviction_count' = [eviction_count EXCEPT ![w] = n]
      /\ UNCHANGED <<memory, total_writes, len, off, stored, calls, reader, written>>
  BY DEF Guard
<1>2. CASE n > (log_count + Slack) % Word
  <2>1. /\ Goto(w, "guard", "idle") /\ write_offset' = 0 /\ read_offset' = 0 /\ log_count' = 0
        /\ AllLeave
    BY <1>2 DEF Guard
  <2>2. pc[w] = "guard" /\ pc'[w] = "idle" BY <2>1, GoneTo
  <2>3. calls' = calls /\ calls \in Nat BY <1>1, WriterTypes
  <2> QED BY <1>1, <2>1, <2>2, <2>3, ResetPlaced
<1>3. CASE ~(n > (log_count + Slack) % Word)
  <2>1. /\ Goto(w, "guard", "test")
        /\ UNCHANGED <<offsets, log_count, dropped_messages, gone, forgot, disturbed>>
    BY <1>3 DEF Guard
  <2>2. pc[w] = "guard" /\ pc'[w] = "test" BY <2>1, GoneTo
  <2>3. eviction_count'[w] = n BY <1>1, WriterTypes
  <2>4. Counts(w)'
    <3>1. Last' = Last BY <1>1 DEF Last
    <3>2. Behind(w)' = Behind(w) BY <2>2, <2>3 DEF Behind
    <3>3. Counts(w) /\ Last \in Nat /\ gone \in Nat BY LayoutTypes DEF Placed
    <3> QED BY <1>1, <2>1, <2>2, <3>1, <3>2, <3>3 DEF Counts
  <2>5. Progress(w, p)' BY <1>1, <2>2 DEF Progress, Placed
  <2>6. Placed(w, p)' BY <1>1, <2>1, <2>4, <2>5, Quiet DEF offsets
  <2> QED BY <2>6
<1> QED BY <1>2, <1>3

\* A byte goes behind the newest entry, where it overwrites none of the log.
LEMMA StorePlaced ==
    ASSUME TypeInv, NEW w \in Writer, NEW p \in [Nat -> Nat], Placed(w, p), StoreByte(w)
    PROVE  Placed(w, p)'
<1> DEFINE k == stored[w] + 1
           end == p[Last + 1]
<1>a. Layout(p) /\ Counts(w) /\ Progress(w, p) /\ Reading(p) /\ Seen BY DEF Placed
<1>b. pc[w] = "store" /\ pc'[w] = (IF k = Need(w) THEN "commit" ELSE "store")
  BY GoneTo DEF StoreByte
<1>c. Last \in Nat /\ gone \in 0 .. Last /\ end \in Nat /\ p[gone + 1] \in Nat
      /\ \A i \in Nat : p[i] \in Nat
  BY <1>a, LayoutTypes
<1>d. k \in Nat /\ k >= 1 /\ Need(w) \in Nat /\ k <= Need(w)
  <2>1. stored[w] \in Nat /\ len[w] \in Nat /\ Need(w) \in Nat BY WriterTypes
  <2>2. stored[w] < Need(w) BY <1>b DEF TypeInv, InCall, Need
  <2> QED BY <2>1, <2>2
<1>e. off[w] = (end + (k - 1)) % Size /\ end + Need(w) < p[gone + 1] + Size
  <2>1. stored[w] = k - 1 BY WriterTypes
  <2> QED BY <1>a, <1>b, <2>1 DEF Progress
<1>f. Size \in Nat \ {0} BY Sizes
<1>1. /\ memory' = [memory EXCEPT ![off[w]] = <<Last + 1, k, len[w]>>]
      /\ off'[w] = At(off[w], 1) /\ stored'[w] = k
      /\ UNCHANGED <<offsets, log_count, stats, len, eviction_count, calls, reader, history,
                     disturbed>>
  BY WriterTypes DEF StoreByte, Last
<1> HIDE DEF k
<1>2. Last' = Last /\ gone' = gone /\ written' = written /\ (\A n : Ends(n)' = Ends(n))
      /\ Need(w)' = Need(w)
  BY <1>1 DEF Last, history, Ends, Need
<1>3. ASSUME NEW a \in Nat, p[gone + 1] <= a, a < end + (k - 1)
      PROVE  memory'[a % Size] = memory[a % Size]
  <2>1. end + (k - 1) \in Nat /\ end + (k - 1) < a + Size BY <1>c, <1>d, <1>e, <1>f, <1>3
  <2>2. a % Size # off[w] BY <1>e, <1>f, <1>3, <2>1, ModDiff
  <2>3. memory \in [Offset -> Cell] BY WriterTypes
  <2>4. a % Size \in Offset BY <1>f, ModType DEF Offset
  <2> QED BY <1>1, <2>2, <2>3, <2>4
<1>4. memory'[(end + k - 1) % Size] = <<Last + 1, k, len[w]>>
  <2>1. off[w] \in Offset /\ memory \in [Offset -> Cell] BY WriterTypes
  <2>2. end + k - 1 = end + (k - 1) BY <1>c, <1>d
  <2> QED BY <1>1, <1>e, <2>1, <2>2
<1>5. Layout(p)'
  <2>1. \A i \in gone + 1 .. Last : \A b \in 1 .. Ends(i) :
          memory'[(p[i] + b - 1) % Size] = <<i, b, written[i]>>
    <3> SUFFICES ASSUME NEW i \in gone + 1 .. Last, NEW b \in 1 .. Ends(i)
                 PROVE  memory'[(p[i] + b - 1) % Size] = <<i, b, written[i]>>
      OBVIOUS
    <3>1. p[i] \in Nat /\ p[gone + 1] <= p[i] /\ p[i + 1] = p[i] + Ends(i) /\ p[i + 1] <= end
          /\ Ends(i) = Header + written[i] /\ written[i] \in 1 .. MsgMax /\ p[i + 1] \in Nat
      BY <1>a, Follows
    <3>2. Ends(i) \in Nat BY <3>1, Sizes
    <3> DEFINE a == p[i] + b - 1
    <3>3. a \in Nat /\ p[gone + 1] <= a /\ a < end + (k - 1) BY <1>c, <1>d, <3>1, <3>2
    <3> HIDE DEF a
    <3>4. memory'[a % Size] = memory[a % Size] BY <1>3, <3>3
    <3>5. memory[(p[i] + b - 1) % Size] = <<i, b, written[i]>> BY <1>a DEF Layout
    <3> QED BY <3>4, <3>5 DEF a
  <2>2. UNCHANGED <<read_offset, write_offset>> BY <1>1 DEF offsets
  <2> QED BY <1>a, <1>2, <2>1, <2>2 DEF Layout
<1>6. Counts(w)'
  <2>1. Behind(w)' = 0 /\ Behind(w) = 0 BY <1>b DEF Behind
  <2>2. pc'[w] \in {"store", "commit"} BY <1>b
  <2> QED BY <1>a, <1>b, <1>1, <1>2, <2>1, <2>2 DEF Counts, stats, history
<1>7. Progress(w, p)'
  <2>1. off'[w] = (end + k) % Size
    <3>1. end + (k - 1) \in Nat /\ end + (k - 1) + 1 = end + k BY <1>c, <1>d
    <3>2. At(off[w], 1) = (end + (k - 1) + 1) % Size BY <1>e, <1>f, <3>1, ModAdd DEF At
    <3> QED BY <1>1, <3>1, <3>2
  <2>2. \A b \in 1 .. k : memory'[(end + b - 1) % Size] = <<Last + 1, b, len[w]>>
    <3> SUFFICES ASSUME NEW b \in 1 .. k
                 PROVE  memory'[(end + b - 1) % Size] = <<Last + 1, b, len[w]>>
      OBVIOUS
    <3>1. CASE b = k BY <1>4, <3>1
    <3>2. CASE b # k
      <4> DEFINE a == end + b - 1
      <4>1. stored[w] = k - 1 BY WriterTypes DEF k
      <4>2. b \in 1 .. stored[w] BY <1>d, <3>2, <4>1
      <4>3. a \in Nat /\ p[gone + 1] <= a /\ a < end + (k - 1)
        <5>1. p[gone + 1] <= end BY <1>a, LayoutTypes
        <5> QED BY <1>c, <1>d, <3>2, <5>1
      <4> HIDE DEF a
      <4>4. memory'[a % Size] = memory[a % Size] BY <1>3, <4>3
      <4>5. memory[(end + b - 1) % Size] = <<Last + 1, b, len[w]>>
        BY <1>a, <1>b, <4>2 DEF Progress
      <4> QED BY <4>4, <4>5 DEF a
    <3> QED BY <3>1, <3>2
  <2>3. len[w] \in Lengths BY <1>a, <1>b DEF Progress
  <2>4. pc'[w] \in {"store", "commit"} /\ (pc'[w] = "commit" => k = Need(w)) BY <1>b
  <2>5. len' = len BY <1>1
  <2> QED BY <1>e, <1>1, <1>2, <2>1, <2>2, <2>3, <2>4, <2>5 DEF Progress
<1>8. Reading(p)' /\ Seen' BY <1>a, <1>1, ReadingStays DEF history
<1> QED BY <1>5, <1>6, <1>7, <1>8 DEF Placed

\* The stored entry becomes the newest of the log.
LEMMA CommitPlaced ==
    ASSUME TypeInv, NEW w \in Writer, NEW p \in [Nat -> Nat], Placed(w, p), Commit(w)
    PROVE  \E q \in [Nat -> Nat] : Placed(w, q)'
<1>a. Layout(p) /\ Counts(w) /\ Progress(w, p) /\ Reading(p) /\ Seen BY DEF Placed
<1>b. pc[w] = "commit" /\ pc'[w] = "add" BY GoneTo DEF Commit
<1>c. Last \in Nat /\ gone \in 0 .. Last /\ p[Last + 1] \in Nat /\ p[gone + 1] \in Nat
      /\ p[gone + 1] <= p[Last + 1] /\ \A i \in Nat : p[i] \in Nat
  BY <1>a, LayoutTypes
<1>d. Need(w) \in Nat /\ Need(w) = Header + len[w] /\ len[w] \in 1 .. MsgMax /\ stored[w] = Need(w)
      /\ Need(w) >= 1
  <2>1. stored[w] = Need(w) /\ Need(w) \in Nat BY <1>a, <1>b, WriterTypes DEF Progress
  <2>2. len[w] \in 1 .. MsgMax BY <1>b DEF TypeInv, InCall
  <2> QED BY <2>1, <2>2, Sizes DEF Need
<1>1. /\ write_offset' = off[w] /\ written' = Append(written, len[w])
      /\ UNCHANGED <<memory, read_offset, log_count, stats, len, eviction_count, off, stored,
                     calls, reader, gone, forgot, disturbed>>
  BY DEF Commit
<1>e. PICK m \in Nat : m = Last + 1 BY <1>c
<1>2. /\ Last' = Last + 1 /\ written'[m] = len[w]
      /\ \A n \in 1 .. Last : written'[n] = written[n] /\ Ends(n)' = Ends(n)
      /\ Ends(m)' = Need(w)
  <2>1. written \in Seq(1 .. MsgMax) BY WriterTypes
  <2>2. Last' = Last + 1 BY <1>1, <1>d, <2>1 DEF Last
  <2>3. written'[m] = len[w] BY <1>1, <1>d, <1>e, <2>1 DEF Last
  <2>4. \A n \in 1 .. Last : written'[n] = written[n] BY <1>1, <1>d, <2>1, AppendProperties DEF Last
  <2> QED BY <1>d, <2>2, <2>3, <2>4 DEF Ends
<1>3. PICK q \in [Nat -> Nat] :
        /\ q[Last + 2] = p[Last + 1] + Need(w)
        /\ \A i \in 1 .. Last + 1 : q[i] = p[i]
  <2> DEFINE r == [p EXCEPT ![Last + 2] = p[Last + 1] + Need(w)]
  <2>1. r \in [Nat -> Nat] /\ r[Last + 2] = p[Last + 1] + Need(w) BY <1>c, <1>d
  <2>2. \A i \in 1 .. Last + 1 : r[i] = p[i] BY <1>c
  <2> HIDE DEF r
  <2> QED BY <2>1, <2>2
<1>4. q[gone + 1] = p[gone + 1] /\ q[Last + 1] = p[Last + 1] BY <1>c, <1>3
<1>5. Layout(q)'
  <2>1. gone' <= Last' BY <1>1, <1>2, <1>c
  <2>2. read_offset' = q[gone' + 1] % Size BY <1>a, <1>1, <1>4 DEF Layout
  <2>a. Last' + 1 = Last + 2 BY <1>2, <1>c
  <2>3. write_offset' = q[Last' + 1] % Size
    BY <1>a, <1>b, <1>d, <1>1, <1>3, <2>a DEF Progress
  <2>4. q[Last' + 1] < q[gone' + 1] + Size
    <3>1. p[Last + 1] + Need(w) < p[gone + 1] + Size BY <1>a, <1>b DEF Progress
    <3> QED BY <1>1, <1>3, <1>4, <2>a, <3>1
  <2>5. \A i \in gone + 1 .. Last + 1 : i \in gone + 1 .. Last \/ i = Last + 1 BY <1>c
  <2>6. \A i \in gone + 1 .. Last + 1 : q[i + 1] = q[i] + Ends(i)'
    <3> TAKE i \in gone + 1 .. Last + 1
    <3>1. CASE i = Last + 1
      <4>1. i + 1 = Last + 2 BY <1>c, <3>1
      <4> QED BY <1>2, <1>3, <1>4, <1>e, <3>1, <4>1
    <3>2. CASE i # Last + 1
      <4>1. i \in gone + 1 .. Last /\ i \in 1 .. Last /\ i + 1 \in 1 .. Last + 1
            /\ i \in 1 .. Last + 1
        BY <1>c, <3>2
      <4>2. p[i + 1] = p[i] + Ends(i) BY <1>a, <4>1 DEF Layout
      <4> QED BY <1>2, <1>3, <4>1, <4>2
    <3> QED BY <3>1, <3>2
  <2>7. \A i, j \in gone + 1 .. Last + 2 : i <= j => q[i] + (j - i) <= q[j]
    <3> SUFFICES ASSUME NEW i \in gone + 1 .. Last + 2, NEW j \in gone + 1 .. Last + 2, i <= j
                 PROVE  q[i] + (j - i) <= q[j]
      OBVIOUS
    <3>a. \A k, l \in gone + 1 .. Last + 1 : k <= l => p[k] + (l - k) <= p[l]
      BY <1>a DEF Layout
    <3>b. q[i] \in Nat /\ q[j] \in Nat BY <1>c
    <3>1. CASE j # Last + 2
      <4>1. i \in gone + 1 .. Last + 1 /\ j \in gone + 1 .. Last + 1
            /\ i \in 1 .. Last + 1 /\ j \in 1 .. Last + 1
        BY <1>c, <3>1
      <4>2. p[i] + (j - i) <= p[j] BY <3>a, <4>1
      <4> QED BY <1>3, <4>1, <4>2
    <3>2. CASE i = Last + 2
      <4>1. i = j BY <1>c, <3>2
      <4> QED BY <3>b, <4>1
    <3>3. CASE j = Last + 2 /\ i # Last + 2
      <4>1. i \in gone + 1 .. Last + 1 /\ Last + 1 \in gone + 1 .. Last + 1 /\ i <= Last + 1
            /\ i \in 1 .. Last + 1
        BY <1>c, <3>3
      <4>2. p[i] + (Last + 1 - i) <= p[Last + 1] BY <1>c, <3>a, <4>1
      <4>3. q[i] = p[i] /\ p[i] \in Nat /\ q[j] = p[Last + 1] + Need(w)
        BY <1>3, <1>c, <3>3, <4>1
      <4> QED BY <1>c, <1>d, <3>3, <4>1, <4>2, <4>3
    <3> QED BY <3>1, <3>2, <3>3
  <2>8. \A i \in gone + 1 .. Last + 1 : \A k \in 1 .. Ends(i)' :
           memory'[(q[i] + k - 1) % Size] = <<i, k, written'[i]>>
    <3> SUFFICES ASSUME NEW i \in gone + 1 .. Last + 1, NEW k \in 1 .. Ends(i)'
                 PROVE  memory'[(q[i] + k - 1) % Size] = <<i, k, written'[i]>>
      OBVIOUS
    <3>1. CASE i = Last + 1
      <4>1. k \in 1 .. stored[w] BY <1>2, <1>d, <1>e, <3>1
      <4>2. memory[(p[Last + 1] + k - 1) % Size] = <<Last + 1, k, len[w]>>
        BY <1>a, <1>b, <4>1 DEF Progress
      <4> QED BY <1>1, <1>2, <1>4, <1>e, <3>1, <4>2
    <3>2. CASE i # Last + 1
      <4>1. i \in gone + 1 .. Last /\ i \in 1 .. Last /\ i \in 1 .. Last + 1 BY <1>c, <3>2
      <4>2. k \in 1 .. Ends(i) BY <1>2, <4>1
      <4>3. memory[(p[i] + k - 1) % Size] = <<i, k, written[i]>> BY <1>a, <4>1, <4>2 DEF Layout
      <4> QED BY <1>1, <1>2, <1>3, <4>1, <4>3
    <3> QED BY <3>1, <3>2
  <2>9. gone' = gone BY <1>1
  <2> QED BY <1>2, <2>1, <2>2, <2>3, <2>4, <2>6, <2>7, <2>8, <2>9, <2>a DEF Layout
<1>6. Counts(w)'
  <2>1. log_count = Last - gone /\ total_writes = Last /\ Last + 1 <= calls
    BY <1>a, <1>b, <1>c, WriterTypes DEF Counts
  <2>2. Behind(w)' = 0 /\ Behind(w) = 0 BY <1>b DEF Behind
  <2>3. forgot \/ gone = dropped_messages + 0 BY <1>a, <2>2 DEF Counts
  <2>4. calls \in Nat BY WriterTypes
  <2> QED BY <1>b, <1>c, <1>1, <1>2, <2>1, <2>2, <2>3, <2>4 DEF Counts, stats
<1>7. Progress(w, q)' BY <1>a, <1>b, <1>1 DEF Progress
<1>8. \A n \in 1 .. Last : \A k : TextOf(n, k)' = TextOf(n, k) BY <1>2 DEF TextOf
<1>9. Reading(q)'
  <2>1. CASE disturbed' \/ rpc' = "idle" BY <2>1 DEF Reading
  <2>2. CASE ~disturbed' /\ rpc' # "idle"
    <3>1. /\ UNCHANGED <<rpc, roff, skip, left, text, rlen, shown, from, at, gone>>
          /\ ~disturbed /\ rpc # "idle"
      BY <1>1, <2>2 DEF reader
    <3>2. OfReader /\ InRead BY TypeParts DEF TypeInv
    <3>3. at \in Nat /\ skip \in Nat /\ left \in Nat BY <3>2 DEF OfReader
    <3>4. gone < at /\ at + skip = from + Len(shown) BY <1>a, <3>1 DEF Reading
    <3>5. CASE rpc = "count"
      <4>1. at = gone + 1 /\ skip = 0 /\ roff = p[at] % Size BY <1>a, <3>1, <3>5 DEF Reading
      <4> QED BY <1>4, <3>1, <3>4, <3>5, <4>1 DEF Reading
    <3>6. CASE rpc = "offset"
      <4>1. at = gone + 1 /\ skip + left <= Last - gone BY <1>a, <3>1, <3>6 DEF Reading
      <4>2. skip + left <= Last' - gone BY <1>2, <1>c, <3>3, <4>1
      <4> QED BY <3>1, <3>4, <3>6, <4>1, <4>2 DEF Reading
    <3>7. CASE rpc \in {"header", "copy", "show"}
      <4>1. at + skip + left <= Last + 1 /\ left > 0 BY <1>a, <3>1, <3>2, <3>7 DEF Reading, InRead
      <4>2. at \in 1 .. Last /\ at \in 1 .. Last + 1 /\ at + 1 \in 1 .. Last + 1
        BY <1>c, <3>3, <3>4, <4>1
      <4>3. q[at] = p[at] /\ q[at + 1] = p[at + 1] /\ written'[at] = written[at]
            /\ \A k : TextOf(at, k)' = TextOf(at, k)
        BY <1>2, <1>3, <1>8, <3>1, <4>2 DEF TextOf
      <4>4. at + skip + left <= Last' + 1 BY <1>2, <1>c, <3>3, <4>1
      <4>5. rpc = "header" => roff = q[at] % Size BY <1>a, <3>1, <4>3 DEF Reading
      <4>6. rpc = "copy" => /\ skip = 0 /\ rlen = written'[at] /\ text = TextOf(at, Len(text))'
                            /\ roff = (q[at] + Header + Len(text)) % Size
        BY <1>a, <3>1, <4>3 DEF Reading
      <4>7. rpc = "show" => /\ skip = 0 /\ text = TextOf(at, written[at])'
                            /\ roff = q[at + 1] % Size
        BY <1>a, <3>1, <4>3 DEF Reading
      <4> QED BY <3>1, <3>4, <3>7, <4>4, <4>5, <4>6, <4>7 DEF Reading
    <3> QED BY <3>1, <3>2, <3>5, <3>6, <3>7 DEF OfReader, ReaderPlace
  <2> QED BY <2>1, <2>2
<1>10. Seen'
  <2>1. CASE disturbed' BY <2>1 DEF Seen
  <2>2. CASE ~disturbed'
    <3>1. UNCHANGED <<shown, from>> /\ ~disturbed BY <1>1, <2>2 DEF reader
    <3> SUFFICES ASSUME NEW i \in 1 .. Len(shown)
                 PROVE  LET n == from + i - 1 IN
                        n \in 1 .. Last' /\ shown[i] = TextOf(n, written[n])'
      BY <3>1 DEF Seen
    <3>2. PICK n \in 1 .. Last : n = from + i - 1 /\ shown[i] = TextOf(n, written[n])
      <4>1. \A j \in 1 .. Len(shown) : LET l == from + j - 1 IN
              l \in 1 .. Last /\ shown[j] = TextOf(l, written[l])
        BY <1>a, <3>1 DEF Seen
      <4> QED BY <4>1
    <3>3. n \in 1 .. Last'
      <4>1. Last' = Last + 1 /\ Last \in Nat BY <1>2, <1>c
      <4> QED BY <4>1
    <3>4. TextOf(n, written[n])' = TextOf(n, written[n]) BY <1>2, <3>2 DEF TextOf
    <3> QED BY <3>1, <3>2, <3>3, <3>4
  <2> QED BY <2>1, <2>2
<1>11. Placed(w, q)' BY <1>5, <1>6, <1>7, <1>9, <1>10 DEF Placed
<1> QED BY <1>11

-----------------------------------------------------------------------------
(* The steps of the reader                                                 *)

LEMMA WriterStays ==
    ASSUME NEW w \in Writer, NEW p \in [Nat -> Nat], Placed(w, p),
           UNCHANGED <<memory, offsets, log_count, stats, writer, history>>
    PROVE  Layout(p)' /\ Counts(w)' /\ Progress(w, p)'
<1>1. /\ UNCHANGED <<memory, offsets, log_count, total_writes, dropped_messages>>
      /\ UNCHANGED <<pc, len, eviction_count, off, stored, calls, written, gone, forgot>>
  BY DEF stats, writer, history
<1>2. Layout(p)' BY <1>1, LayoutStays DEF Placed
<1>3. Last' = Last /\ Behind(w)' = Behind(w) BY <1>1 DEF Last, Behind
<1>4. Counts(w)' BY <1>1, <1>3 DEF Counts, Placed
<1>5. Progress(w, p)' BY <1>1, <1>3 DEF Progress, Placed, Need
<1> QED BY <1>2, <1>4, <1>5

\* While no eviction is halfway, log_count counts no more than the log holds.
LEMMA CountBound ==
    ASSUME TypeInv, NEW w \in Writer, NEW p \in [Nat -> Nat], Placed(w, p), ~Evicted
    PROVE  log_count <= Last - gone
<1>1. pc[w] # "count" BY DEF Evicted
<1>2. Last \in Nat /\ gone \in Nat BY LayoutTypes DEF Placed
<1> QED BY <1>1, <1>2 DEF Placed, Counts

\* A text grows by its next byte.
LEMMA TextGrows ==
    ASSUME NEW n, NEW m \in Nat
    PROVE  /\ Append(TextOf(n, m), <<n, Header + (m + 1), written[n]>>) = TextOf(n, m + 1)
           /\ Len(TextOf(n, m + 1)) = m + 1
<1> DEFINE s == TextOf(n, m)
           e == <<n, Header + (m + 1), written[n]>>
<1>1. Len(s) = m /\ \A b \in 1 .. m : s[b] = <<n, Header + b, written[n]>> BY DEF TextOf
<1>2. DOMAIN s = 1 .. m BY DEF TextOf
<1>3. Append(s, e) = [b \in 1 .. m + 1 |-> IF b = m + 1 THEN e ELSE s[b]] BY <1>1
<1>4. \A b \in 1 .. m + 1 : b # m + 1 => b \in 1 .. m OBVIOUS
<1>5. Append(s, e) = TextOf(n, m + 1) BY <1>1, <1>3, <1>4 DEF TextOf
<1>6. Len(TextOf(n, m + 1)) = m + 1 BY DEF TextOf
<1> QED BY <1>5, <1>6

LEMMA LastOrBefore == \A m \in Nat : \A i \in 1 .. m + 1 : i = m + 1 \/ i \in 1 .. m
OBVIOUS

LEMMA ReaderPlaced ==
    ASSUME TypeInv, NEW w \in Writer, NEW p \in [Nat -> Nat], Placed(w, p),
           ReaderStep \/ ReaderCall
    PROVE  Placed(w, p)'
<1>a. Layout(p) /\ Reading(p) /\ Seen BY DEF Placed
<1>b. UNCHANGED <<memory, offsets, log_count, stats, writer, history>>
  BY DEF ReaderStep, ReaderCall
<1>c. UNCHANGED <<memory, read_offset, written, gone>> /\ Last' = Last
      /\ \A n, k : TextOf(n, k)' = TextOf(n, k)
  <2>1. UNCHANGED <<memory, read_offset, written, gone>> BY <1>b DEF offsets, history
  <2> QED BY <2>1 DEF Last, TextOf
<1>d. Last \in Nat /\ gone \in 0 .. Last /\ gone \in Nat /\ log_count \in Nat
  <2>1. log_count \in Nat BY WriterTypes, Sizes
  <2> QED BY <1>a, <2>1, LayoutTypes
<1>o. read_offset = p[gone + 1] % Size BY <1>a DEF Layout
<1>e. OfReader /\ InRead BY TypeParts DEF TypeInv
<1>s. text \in Seq(Cell) /\ shown \in Seq(Seq(Cell)) BY <1>e DEF OfReader
<1>f. skip \in Nat /\ left \in Nat /\ at \in Nat /\ from \in Nat BY <1>e DEF OfReader
<1>l. Len(text) \in Nat BY <1>s, LenProperties
<1>m. PICK z \in Nat : z = Len(shown) BY <1>s, LenProperties
<1>g. ASSUME ~disturbed, rpc \in {"header", "copy", "show"}
      PROVE  /\ at \in gone + 1 .. Last /\ at \in 1 .. Last /\ left > 0
             /\ at + skip + left <= Last + 1 /\ gone < at /\ at + skip = from + Len(shown)
             /\ p[at] \in Nat /\ p[at + 1] = p[at] + Ends(at) /\ written[at] \in 1 .. MsgMax
             /\ Ends(at) = Header + written[at] /\ p[at + 1] \in Nat
  <2>1. /\ gone < at /\ at + skip = from + Len(shown) /\ at + skip + left <= Last + 1 /\ left > 0
    BY <1>a, <1>e, <1>g DEF Reading, InRead
  <2>2. at \in gone + 1 .. Last BY <1>d, <1>f, <2>1
  <2> QED BY <1>a, <2>1, <2>2, Follows
<1>h. ASSUME UNCHANGED <<shown, from>>, disturbed' \/ ~disturbed PROVE Seen'
  <2>2. CASE disturbed' BY <2>2 DEF Seen
  <2>3. CASE ~disturbed'
    <3>1. \A n : TextOf(n, written[n])' = TextOf(n, written[n]) BY <1>c DEF TextOf
    <3> QED BY <1>a, <1>c, <1>h, <2>3, <3>1 DEF Seen
  <2> QED BY <2>2, <2>3
<1> USE DEF ReaderGoto
<1>1. Reading(p)' /\ Seen'
  <2>1. CASE GetLogs
    <3>1. /\ rpc' = "count" /\ roff' = read_offset /\ skip' = 0 /\ shown' = <<>>
          /\ from' = gone + 1 /\ at' = gone + 1
      BY <2>1 DEF GetLogs, Begin
    <3>2. Len(shown') = 0 BY <3>1
    <3>3. Reading(p)' BY <1>c, <1>d, <1>o, <3>1, <3>2 DEF Reading
    <3>4. Seen' BY <3>2 DEF Seen
    <3> QED BY <3>3, <3>4
  <2>2. ASSUME NEW n \in Asked, GetLatestN(n) PROVE Reading(p)' /\ Seen'
    <3>1. /\ rpc' = "offset" /\ left' = (IF n <= log_count THEN n ELSE log_count)
          /\ skip' = log_count - left' /\ shown' = <<>> /\ at' = gone + 1
          /\ from' = gone + 1 + skip' /\ disturbed' = Evicted
      BY <2>2 DEF GetLatestN, Begin, MinOf
    <3>2. Len(shown') = 0 BY <3>1
    <3>3. n \in Nat BY Sizes
    <3>4. left' \in Nat /\ skip' \in Nat /\ skip' + left' = log_count BY <1>d, <3>1, <3>3
    <3>5. disturbed' \/ log_count <= Last - gone BY <3>1, CountBound
    <3>6. Reading(p)' BY <1>c, <1>d, <3>1, <3>2, <3>4, <3>5 DEF Reading
    <3>7. Seen' BY <3>2 DEF Seen
    <3> QED BY <3>6, <3>7
  <2>3. CASE GetLogsCount
    <3>1. /\ rpc = "count" /\ rpc' = (IF log_count = 0 THEN "idle" ELSE "header")
          /\ left' = log_count /\ UNCHANGED <<roff, skip, text, rlen, shown, from, at>>
          /\ disturbed' = (disturbed \/ Evicted)
      BY <2>3 DEF GetLogsCount
    <3>2. Seen' BY <1>h, <3>1
    <3>3. CASE disturbed' \/ rpc' = "idle" BY <3>2, <3>3 DEF Reading
    <3>4. CASE ~disturbed' /\ rpc' # "idle"
      <4>1. ~disturbed /\ ~Evicted /\ rpc' = "header" BY <3>1, <3>4
      <4>2. /\ gone < at /\ at + skip = from + Len(shown) /\ at = gone + 1 /\ roff = p[at] % Size
            /\ skip = 0
        BY <1>a, <3>1, <4>1 DEF Reading
      <4>3. log_count <= Last - gone BY <4>1, CountBound
      <4>4. at + skip + log_count <= Last + 1 BY <1>d, <4>2, <4>3
      <4>5. Reading(p)' BY <1>c, <3>1, <4>1, <4>2, <4>4 DEF Reading
      <4> QED BY <3>2, <4>5
    <3> QED BY <3>3, <3>4
  <2>4. CASE GetLatestOffset
    <3>1. /\ rpc = "offset" /\ rpc' = "header" /\ roff' = read_offset
          /\ UNCHANGED <<skip, left, text, rlen, shown, from, at, disturbed>>
      BY <2>4 DEF GetLatestOffset
    <3>2. Seen' BY <1>h, <3>1
    <3>3. CASE disturbed' BY <3>2, <3>3 DEF Reading
    <3>4. CASE ~disturbed'
      <4>1. /\ gone < at /\ at + skip = from + Len(shown) /\ at = gone + 1
            /\ skip + left <= Last - gone
        BY <1>a, <3>1, <3>4 DEF Reading
      <4>2. at + skip + left <= Last + 1 BY <1>d, <1>f, <4>1
      <4>3. Reading(p)' BY <1>c, <1>d, <1>o, <3>1, <4>1, <4>2 DEF Reading
      <4> QED BY <3>2, <4>3
    <3> QED BY <3>3, <3>4
  <2>5. ASSUME ~disturbed, rpc = "header"
        PROVE  /\ roff = p[at] % Size /\ LengthAt(roff) = {written[at]} /\ Valid(written[at])
               /\ At(roff, Header + written[at]) = p[at + 1] % Size
               /\ At(roff, Header) = (p[at] + Header) % Size
    <3>1. roff = p[at] % Size BY <1>a, <2>5 DEF Reading
    <3>2. at \in gone + 1 .. Last BY <1>g, <2>5
    <3> QED BY <1>a, <3>1, <3>2, HeaderAt
  <2>6. CASE Skip
    <3>1. skip > 0 /\ UNCHANGED <<left, text, rlen, reads, shown, from, disturbed>>
          /\ rpc = "header"
      BY <2>6 DEF Skip
    <3>2. Seen' BY <1>h, <3>1
    <3>3. CASE disturbed' BY <3>2, <3>3 DEF Reading
    <3>4. CASE ~disturbed'
      <4>1. ~disturbed BY <3>1, <3>4
      <4>2. LengthAt(roff) = {written[at]} /\ Valid(written[at])
            /\ At(roff, Header + written[at]) = p[at + 1] % Size
        BY <2>5, <3>1, <4>1
      <4>3. rpc' = "header" /\ roff' = p[at + 1] % Size /\ skip' = skip - 1 /\ at' = at + 1
        BY <2>6, <4>2 DEF Skip
      <4>4. /\ gone < at /\ at + skip = from + Len(shown) /\ at + skip + left <= Last + 1
        BY <1>g, <3>1, <4>1
      <4>5. gone < at' /\ at' + skip' = from + Len(shown) /\ at' + skip' + left <= Last + 1
        <5>1. at' = at + 1 /\ skip' = skip - 1 /\ skip > 0 BY <3>1, <4>3
        <5>2. at + skip = from + z /\ gone < at /\ at + skip + left <= Last + 1 BY <1>m, <4>4
        <5>3. /\ at + 1 + (skip - 1) = from + z /\ gone < at + 1
              /\ at + 1 + (skip - 1) + left <= Last + 1
          BY <1>d, <1>f, <5>2
        <5> QED BY <1>m, <5>1, <5>3
      <4>6. Reading(p)' BY <1>c, <3>1, <4>3, <4>5 DEF Reading
      <4> QED BY <3>2, <4>6
    <3> QED BY <3>3, <3>4
  <2>7. CASE ReadHeader
    <3>1. skip = 0 /\ text' = <<>> /\ rpc = "header"
          /\ UNCHANGED <<skip, left, reads, shown, from, at, disturbed>>
      BY <2>7 DEF ReadHeader
    <3>2. Seen' BY <1>h, <3>1
    <3>3. CASE disturbed' BY <3>2, <3>3 DEF Reading
    <3>4. CASE ~disturbed'
      <4>1. ~disturbed BY <3>1, <3>4
      <4>2. LengthAt(roff) = {written[at]} /\ Valid(written[at])
            /\ At(roff, Header) = (p[at] + Header) % Size
        BY <2>5, <3>1, <4>1
      <4>3. rpc' = "copy" /\ roff' = (p[at] + Header) % Size /\ rlen' = written[at]
        BY <2>7, <4>2 DEF ReadHeader
      <4>4. Len(text') = 0 BY <3>1
      <4>5. /\ gone < at /\ at + skip = from + Len(shown) /\ at + skip + left <= Last + 1
            /\ p[at] \in Nat
        BY <1>g, <3>1, <4>1
      <4>6. text' = TextOf(at, Len(text))'
        <5>1. TextOf(at, Len(text))'
                = [b \in 1 .. Len(text') |-> <<at', Header + b, written'[at']>>]
          BY DEF TextOf
        <5>2. TextOf(at, Len(text))' = [b \in 1 .. 0 |-> <<at', Header + b, written'[at']>>]
          BY <4>4, <5>1
        <5>3. \A b \in 1 .. 0 : FALSE OBVIOUS
        <5>4. TextOf(at, Len(text))' = <<>> BY <5>2, <5>3
        <5> QED BY <3>1, <5>4
      <4>7. roff' = (p[at] + Header + Len(text')) % Size
        <5>1. p[at] + Header + 0 = p[at] + Header
          <6>1. p[at] \in Nat /\ Header \in Nat BY <4>5, Sizes
          <6> QED BY <6>1
        <5> QED BY <4>3, <4>4, <5>1
      <4>8. Reading(p)' BY <1>c, <3>1, <4>3, <4>5, <4>6, <4>7 DEF Reading
      <4> QED BY <3>2, <4>8
    <3> QED BY <3>3, <3>4
  <2>8. CASE CopyByte
    <3>1. /\ rpc = "copy" /\ rpc' = (IF Len(text) + 1 = rlen THEN "show" ELSE "copy")
          /\ text' = Append(text, memory[roff]) /\ roff' = At(roff, 1)
          /\ UNCHANGED <<skip, left, rlen, reads, shown, from, at, disturbed>>
      BY <2>8 DEF CopyByte
    <3>2. Seen' BY <1>h, <3>1
    <3>3. CASE disturbed' BY <3>2, <3>3 DEF Reading
    <3>4. CASE ~disturbed'
      <4>1. ~disturbed BY <3>1, <3>4
      <4>2. /\ gone < at /\ at + skip = from + Len(shown) /\ at + skip + left <= Last + 1
            /\ p[at] \in Nat /\ at \in gone + 1 .. Last /\ written[at] \in 1 .. MsgMax
            /\ Ends(at) = Header + written[at] /\ p[at + 1] = p[at] + Ends(at)
        BY <1>g, <3>1, <4>1
      <4>3. /\ skip = 0 /\ rlen = written[at] /\ text = TextOf(at, Len(text))
            /\ roff = (p[at] + Header + Len(text)) % Size /\ Len(text) < rlen
        BY <1>a, <1>e, <3>1, <4>1 DEF Reading, InRead
      <4>4. PICK m \in Nat : m = Len(text) BY <1>l
      <4>a. /\ p[at] \in Nat /\ Header \in Nat \ {0} /\ written[at] \in Nat
            /\ m + 1 <= written[at] /\ Ends(at) = Header + written[at]
        <5>1. m < written[at] BY <4>3, <4>4
        <5>2. p[at] \in Nat /\ written[at] \in 1 .. MsgMax /\ Ends(at) = Header + written[at]
          BY <4>2
        <5> QED BY <5>1, <5>2, Sizes
      <4>5. memory[roff] = <<at, Header + (m + 1), written[at]>>
        <5>1. Header + (m + 1) \in 1 .. Ends(at) BY <4>a
        <5>2. memory[(p[at] + (Header + (m + 1)) - 1) % Size]
              = <<at, Header + (m + 1), written[at]>>
          BY <1>a, <4>2, <5>1 DEF Layout
        <5>3. p[at] + (Header + (m + 1)) - 1 = p[at] + Header + m BY <4>a
        <5> QED BY <4>3, <4>4, <5>2, <5>3
      <4>6. text' = TextOf(at, m + 1)
        <5>1. text' = Append(TextOf(at, m), <<at, Header + (m + 1), written[at]>>)
          BY <3>1, <4>3, <4>4, <4>5
        <5> QED BY <5>1, TextGrows
      <4>7. Len(text') = m + 1 BY <4>6, TextGrows
      <4>8. roff' = (p[at] + Header + (m + 1)) % Size
        <5>1. p[at] + Header + m \in Nat /\ p[at] + Header + m + 1 = p[at] + Header + (m + 1)
              /\ Size \in Nat \ {0}
          BY <4>a, Sizes
        <5>2. At(roff, 1) = (p[at] + Header + m + 1) % Size
          BY <4>3, <4>4, <5>1, ModAdd DEF At
        <5> QED BY <3>1, <5>1, <5>2
      <4>9. TextOf(at, Len(text))' = TextOf(at, m + 1) BY <1>c, <3>1, <4>7 DEF TextOf
      <4>10. CASE Len(text) + 1 = rlen
        <5>1. rpc' = "show" /\ m + 1 = written[at] BY <3>1, <4>3, <4>4, <4>10
        <5>2. TextOf(at, written[at])' = TextOf(at, m + 1) BY <1>c, <3>1, <5>1 DEF TextOf
        <5>3. p[at] + Header + (m + 1) = p[at + 1]
          <6>1. p[at + 1] = p[at] + Ends(at) BY <4>2
          <6> QED BY <4>a, <5>1, <6>1
        <5>4. Reading(p)'
          BY <1>c, <3>1, <4>2, <4>3, <4>6, <4>8, <5>1, <5>2, <5>3 DEF Reading
        <5> QED BY <3>2, <5>4
      <4>11. CASE Len(text) + 1 # rlen
        <5>1. rpc' = "copy" BY <3>1, <4>11
        <5>2. Reading(p)'
          BY <1>c, <3>1, <4>2, <4>3, <4>6, <4>7, <4>8, <4>9, <5>1 DEF Reading
        <5> QED BY <3>2, <5>2
      <4> QED BY <4>10, <4>11
    <3> QED BY <3>3, <3>4
  <2>9. CASE Show
    <3>1. /\ rpc = "show" /\ rpc' = (IF left = 1 THEN "idle" ELSE "header")
          /\ shown' = Append(shown, text) /\ left' = left - 1 /\ at' = at + 1
          /\ UNCHANGED <<roff, skip, text, rlen, reads, from, disturbed>>
      BY <2>9 DEF Show
    <3>2. CASE disturbed' BY <3>2 DEF Reading, Seen
    <3>3. CASE ~disturbed'
      <4>1. ~disturbed BY <3>1, <3>3
      <4>2. /\ gone < at /\ at + skip = from + Len(shown) /\ at + skip + left <= Last + 1
            /\ left > 0 /\ at \in 1 .. Last
        BY <1>g, <3>1, <4>1
      <4>3. skip = 0 /\ text = TextOf(at, written[at]) /\ roff = p[at + 1] % Size
        BY <1>a, <3>1, <4>1 DEF Reading
      <4>4. Len(shown') = Len(shown) + 1 BY <1>s, <3>1
      <4>5. Reading(p)'
        <5>1. gone < at' /\ at' + skip = from + Len(shown') /\ at' + skip + left' <= Last + 1
          <6>1. at' = at + 1 /\ left' = left - 1 BY <3>1
          <6>2. gone < at /\ at + skip + left <= Last + 1 BY <4>2
          <6>3. at + skip = from + z BY <1>m, <4>2
          <6>4. /\ at + 1 + skip = from + (z + 1) /\ gone < at + 1
                /\ at + 1 + skip + (left - 1) <= Last + 1
            BY <1>d, <1>f, <6>2, <6>3
          <6> QED BY <1>m, <4>4, <6>1, <6>4
        <5> QED BY <1>c, <3>1, <4>3, <5>1 DEF Reading
      <4>6. Seen'
        <5>1. \A i \in 1 .. Len(shown) : shown'[i] = shown[i] BY <1>s, <3>1
        <5>2. shown'[Len(shown) + 1] = text BY <1>s, <3>1
        <5> SUFFICES ASSUME NEW i \in 1 .. Len(shown) + 1
                     PROVE  LET n == from + i - 1 IN
                            n \in 1 .. Last /\ shown'[i] = TextOf(n, written[n])
          <6>1. \A n : TextOf(n, written[n])' = TextOf(n, written[n]) BY <1>c DEF TextOf
          <6> QED BY <1>c, <3>1, <4>4, <6>1 DEF Seen
        <5>3. CASE i = Len(shown) + 1
          <6>1. from + i - 1 = at BY <1>f, <1>m, <4>2, <4>3, <5>3
          <6> QED BY <4>2, <4>3, <5>2, <5>3, <6>1
        <5>4. CASE i # Len(shown) + 1
          <6>1. i \in 1 .. Len(shown) BY <1>m, <5>4, LastOrBefore, Zenon
          <6> QED BY <1>a, <4>1, <5>1, <6>1 DEF Seen
        <5> QED BY <5>3, <5>4
      <4> QED BY <4>5, <4>6
    <3> QED BY <3>2, <3>3
  <2> QED BY <2>1, <2>2, <2>3, <2>4, <2>6, <2>7, <2>8, <2>9 DEF ReaderStep, ReaderCall
<1> QED BY <1>b, <1>1, WriterStays DEF Placed

-----------------------------------------------------------------------------
(* The inductive invariant, and what it shows                              *)

LEMMA WriterPlaced ==
    ASSUME TypeInv, NEW w \in Writer, NEW p \in [Nat -> Nat], Placed(w, p), WriterNext(w)
    PROVE  \E q \in [Nat -> Nat] : Placed(w, q)'
<1>1. ASSUME NEW l \in Lengths, Call(w, l) PROVE Placed(w, p)' BY <1>1, CallPlaced
<1>2. Test(w) => Placed(w, p)' BY TestPlaced
<1>3. Evicting(w) => Placed(w, p)' BY EvictPlaced
<1>4. Advance(w) => Placed(w, p)' BY AdvancePlaced
<1>5. Count(w) => Placed(w, p)' BY CountPlaced
<1>6. Check(w) => Placed(w, p)' BY CheckPlaced
<1>7. StoreByte(w) => Placed(w, p)' BY StorePlaced
<1>8. Add(w) => Placed(w, p)' BY AddPlaced
<1>9. Guard(w) \/ Commit(w) \/ Clear(w) => \E q \in [Nat -> Nat] : Placed(w, q)'
  BY GuardPlaced, CommitPlaced, ClearPlaced
<1> QED BY <1>1, <1>2, <1>3, <1>4, <1>5, <1>6, <1>7, <1>8, <1>9 DEF WriterNext, Write

\* Between calls the layout is the same for every writer.
LEMMA TurnPasses ==
    ASSUME NEW w \in Writer, IInv(w), pc[w] = "idle", NEW t \in Writer, pc[t] = "idle"
    PROVE  IInv(t)
<1>1. PICK p \in [Nat -> Nat] : Placed(w, p) BY DEF IInv
<1>2. Behind(w) = 0 /\ Behind(t) = 0 BY DEF Behind
<1>3. Counts(t) BY <1>1, <1>2 DEF Placed, Counts
<1>4. Progress(t, p) BY DEF Progress
<1>5. Placed(t, p) BY <1>1, <1>3, <1>4 DEF Placed
<1> QED BY <1>5 DEF IInv

\* The writer that takes a step may be taken for the one that is in a call.
LEMMA TurnOf ==
    ASSUME NEW w \in Writer, Alone(w), IInv(w), NEW t \in Writer, Alone(t)
    PROVE  IInv(t)
<1>1. CASE t = w BY <1>1
<1>2. CASE t # w
  <2>1. pc[w] = "idle" /\ pc[t] = "idle" BY <1>2 DEF Alone
  <2> QED BY <2>1, TurnPasses
<1> QED BY <1>1, <1>2

LEMMA InvStep ==
    ASSUME LogInv, [Next]_vars, [InTurn]_vars
    PROVE  LogInv'
<1>1. PICK w \in Writer : Alone(w) /\ IInv(w) BY DEF LogInv
<1>2. TypeInv /\ TypeInv' BY <1>1, TypeStep DEF IInv
<1>3. PICK p \in [Nat -> Nat] : Placed(w, p) BY <1>1 DEF IInv
<1>4. CASE UNCHANGED vars
  <2>1. UNCHANGED <<memory, offsets, log_count, stats, writer, history>>
        /\ UNCHANGED <<reader, written, gone, disturbed, pc>>
    BY <1>4 DEF vars, history, writer
  <2>2. Layout(p)' /\ Counts(w)' /\ Progress(w, p)' BY <1>3, <2>1, WriterStays
  <2>3. Reading(p)' /\ Seen' BY <1>3, <2>1, ReadingStays DEF Placed
  <2>4. Placed(w, p)' BY <2>2, <2>3 DEF Placed
  <2>5. Alone(w)' BY <1>1, <2>1 DEF Alone
  <2> QED BY <1>2, <2>4, <2>5 DEF LogInv, IInv
<1>5. ASSUME NEW t \in Writer, WriterNext(t), InTurn PROVE LogInv'
  <2>1. Alone(t) BY <1>5 DEF InTurn
  <2>2. IInv(t) BY <1>1, <2>1, TurnOf
  <2>3. PICK r \in [Nat -> Nat] : Placed(t, r) BY <2>2 DEF IInv
  <2>4. \E q \in [Nat -> Nat] : Placed(t, q)' BY <1>2, <1>5, <2>3, WriterPlaced
  <2>5. Only(t) BY <1>2, <1>5, WriterOnly
  <2>6. Alone(t)' BY <2>1, <2>5 DEF Alone, Only
  <2> QED BY <1>2, <2>4, <2>6 DEF LogInv, IInv
<1>6. CASE ReaderCall \/ ReaderStep
  <2>1. Placed(w, p)' BY <1>2, <1>3, <1>6, ReaderPlaced
  <2>2. UNCHANGED pc BY <1>6 DEF ReaderCall, ReaderStep, writer
  <2>3. Alone(w)' BY <1>1, <2>2 DEF Alone
  <2> QED BY <1>2, <2>1, <2>3 DEF LogInv, IInv
<1> QED BY <1>4, <1>5, <1>6 DEF Next

LEMMA InvInit ==
    ASSUME Writer # {}, Init
    PROVE  LogInv
<1>1. PICK w \in Writer : TRUE OBVIOUS
<1>2. IInv(w) BY InitTypes, InitPlaced DEF IInv
<1>3. Alone(w) BY DEF Alone, Init
<1> QED BY <1>2, <1>3 DEF LogInv

LEMMA Invariant ==
    ASSUME Writer # {}
    PROVE  Spec /\ CallsInTurn => []LogInv
<1>1. Init => LogInv BY InvInit
<1>2. LogInv /\ [Next]_vars /\ [InTurn]_vars => LogInv' BY InvStep
<1> QED BY <1>1, <1>2, PTL DEF Spec, CallsInTurn

\* One writer is always in turn, so the hypothesis is about several only.
LEMMA OneInTurn ==
    ASSUME NEW w, Writer = {w}
    PROVE  Spec => CallsInTurn
<1>1. InTurn BY DEF InTurn, Alone
<1> QED BY <1>1, PTL DEF CallsInTurn

\* While calls do not overlap, log_count is between them the number of entries
\* in the log, and until the log is reset the statistics add up: evictions,
\* the guard, Dmesg_Clear and the wrap of the counter included (dmesg.c:62-297).
THEOREM CountsAreTrue ==
    ASSUME Writer # {}
    PROVE  Spec /\ CallsInTurn => []CountIsTrue
<1>1. LogInv => CountIsTrue
  <2> SUFFICES ASSUME LogInv, \A t \in Writer : pc[t] = "idle"
               PROVE  /\ log_count = Len(written) - gone
                      /\ forgot \/ total_writes = log_count + dropped_messages
    BY DEF CountIsTrue
  <2>1. PICK w \in Writer : IInv(w) /\ pc[w] = "idle" BY DEF LogInv
  <2>2. PICK p \in [Nat -> Nat] : Placed(w, p) BY <2>1 DEF IInv
  <2>3. Counts(w) /\ Behind(w) = 0 BY <2>1, <2>2 DEF Placed, Behind
  <2>4. Last \in Nat /\ gone \in Nat BY <2>1, <2>2, LayoutTypes DEF IInv, Placed
  <2>5. dropped_messages \in Nat BY <2>1, WriterTypes DEF IInv
  <2>6. log_count = Last - gone /\ total_writes = Last BY <2>1, <2>3, <2>4 DEF Counts
  <2>7. forgot \/ gone = dropped_messages BY <2>3, <2>5 DEF Counts
  <2> QED BY <2>4, <2>5, <2>6, <2>7 DEF Last
<1> QED BY <1>1, Invariant, PTL

\* While calls of writers do not overlap, a reader that no eviction has reached
\* shows the entries it was asked for, whole and in order, whatever the tasks
\* write while it sleeps between two of them (dmesg.c:300-402).
THEOREM ReaderShowsLog ==
    ASSUME Writer # {}
    PROVE  Spec /\ CallsInTurn => []ShownIsLog
<1>1. LogInv => ShownIsLog BY DEF LogInv, IInv, Placed, Seen, ShownIsLog, TextOf
<1> QED BY <1>1, Invariant, PTL

-----------------------------------------------------------------------------
(* What the readers parse is what was written: the entries of the log, by  *)
(* number and length, are those that a parse from header to header finds.  *)

\* A set of numbers has a least element, from which inductions below start.
LEMMA Least ==
    ASSUME NEW S, S \subseteq Nat, S # {}
    PROVE  \E m \in S : \A n \in S : m <= n
<1> DEFINE R == OpToRel(<, Nat)
<1>1. IsWellFoundedOn(R, Nat) BY NatLessThanWellFounded
<1>2. R = {p \in Nat \X Nat : p[1] < p[2]} BY DEF OpToRel
<1> HIDE DEF R
<1>3. \A x, y \in Nat : <<x, y>> \in R <=> x < y BY <1>2
<1>4. \E x \in S : \A y \in S : ~(<<y, x>> \in R) BY <1>1, WFMin
<1>5. PICK m \in S : \A n \in S : ~(<<n, m>> \in R) BY <1>4
<1>6. \A n \in S : m <= n
  <2> TAKE n \in S
  <2>1. n \in Nat /\ m \in Nat OBVIOUS
  <2>2. ~(n < m) BY <1>3, <1>5, <2>1
  <2> QED BY <2>1, <2>2
<1> QED BY <1>6

\* The entries of the log from number i on.
EntriesFrom(i) == [k \in 1 .. Last + 1 - i |-> <<i + k - 1, written[i + k - 1]>>]

\* An entry and those behind it.
LEMMA EntriesSplit ==
    ASSUME Last \in Nat, NEW i \in Nat, i <= Last
    PROVE  EntriesFrom(i) = <<<<i, written[i]>>>> \o EntriesFrom(i + 1)
<1> DEFINE s == <<<<i, written[i]>>>>
           r == EntriesFrom(i + 1)
<1>1. PICK n \in Nat : n = Last - i OBVIOUS
<1>2. Last + 1 - (i + 1) = n /\ Last + 1 - i = n + 1 BY <1>1
<1>3. r = [k \in 1 .. n |-> <<i + 1 + k - 1, written[i + 1 + k - 1]>>] BY <1>2 DEF EntriesFrom
<1>4. EntriesFrom(i) = [k \in 1 .. n + 1 |-> <<i + k - 1, written[i + k - 1]>>]
  BY <1>2 DEF EntriesFrom
<1>5. Len(r) = n
  <2> HIDE DEF r
  <2> QED BY <1>3
<1>6. Len(s) = 1 /\ s[1] = <<i, written[i]>> OBVIOUS
<1> HIDE DEF r, s
<1>7. s \o r = [k \in 1 .. n + 1 |-> IF k <= 1 THEN s[k] ELSE r[k - 1]]
  <2> DEFINE E == {<<i + k - 1, written[i + k - 1]>> : k \in Nat}
  <2>1. s \in Seq(E)
    <3>1. <<i, written[i]>> \in E
      <4>1. 1 \in Nat /\ i + 1 - 1 = i OBVIOUS
      <4> QED BY <4>1
    <3> HIDE DEF E
    <3> QED BY <3>1 DEF s
  <2>2. r \in Seq(E)
    <3>1. \A k \in 1 .. n : r[k] \in E
      <4> TAKE k \in 1 .. n
      <4>1. k + 1 \in Nat /\ i + (k + 1) - 1 = i + 1 + k - 1 OBVIOUS
      <4>2. r[k] = <<i + (k + 1) - 1, written[i + (k + 1) - 1]>> BY <1>3, <4>1
      <4> QED BY <4>1, <4>2
    <3> HIDE DEF E
    <3>2. r \in [1 .. n -> E] BY <1>3, <3>1
    <3>3. n \in Nat BY <1>1
    <3> QED BY <3>2, <3>3, SeqDef
  <2> HIDE DEF E
  <2>3. /\ s \o r \in Seq(E) /\ Len(s \o r) = Len(s) + Len(r)
        /\ \A k \in 1 .. Len(s) + Len(r) :
              (s \o r)[k] = IF k <= Len(s) THEN s[k] ELSE r[k - Len(s)]
    BY <2>1, <2>2, ConcatProperties
  <2>4. Len(s) + Len(r) = n + 1 BY <1>1, <1>5, <1>6
  <2>5. s \o r = [k \in 1 .. n + 1 |-> (s \o r)[k]]
    <3> DEFINE x == s \o r
    <3>1. x \in Seq(E) /\ Len(x) = n + 1 BY <2>3, <2>4
    <3> HIDE DEF x
    <3>2. x = [k \in 1 .. n + 1 |-> x[k]] BY <3>1
    <3> QED BY <3>2 DEF x
  <2> QED BY <1>6, <2>3, <2>4, <2>5
<1>8. \A k \in 1 .. n + 1 : (IF k <= 1 THEN s[k] ELSE r[k - 1]) = <<i + k - 1, written[i + k - 1]>>
  <2> TAKE k \in 1 .. n + 1
  <2>1. CASE k = 1
    <3>1. i + k - 1 = i BY <2>1
    <3> QED BY <1>6, <2>1, <3>1
  <2>2. CASE k # 1
    <3>1. k - 1 \in 1 .. n /\ i + 1 + (k - 1) - 1 = i + k - 1 /\ ~(k <= 1) BY <2>2
    <3>2. r[k - 1] = <<i + 1 + (k - 1) - 1, written[i + 1 + (k - 1) - 1]>> BY <1>3, <3>1
    <3> QED BY <3>1, <3>2
  <2> QED BY <2>1, <2>2
<1> QED BY <1>4, <1>7, <1>8 DEF r, s

LEMMA UsedBytes ==
    ASSUME TypeInv, NEW p \in [Nat -> Nat], Layout(p)
    PROVE  Used = p[Last + 1] - p[gone + 1] /\ Used \in 0 .. Size - 1
<1> DEFINE a == p[gone + 1]
           b == p[Last + 1]
<1>1. a \in Nat /\ b \in Nat /\ a <= b /\ b < a + Size /\ Size \in Nat \ {0}
  <2>1. b < a + Size BY DEF Layout
  <2> QED BY <2>1, LayoutTypes, Sizes
<1>2. read_offset = a % Size /\ write_offset = b % Size BY DEF Layout
<1> HIDE DEF a, b
<1>3. /\ a % Size \in 0 .. Size - 1 /\ b % Size \in 0 .. Size - 1
      /\ IF a % Size <= b % Size THEN (b % Size) - (a % Size) = b - a
                                 ELSE (b % Size) - (a % Size) = b - a - Size
  BY <1>1, ModSpan
<1>4. PICK d \in 0 .. Size - 1 : d = b - a BY <1>1
<1>5. (Size * 1 + d) % Size = d /\ (Size * 0 + d) % Size = d BY <1>1, ModUnique
<1>6. write_offset - read_offset + Size = d + Size \/ write_offset - read_offset + Size = d
  BY <1>1, <1>2, <1>3, <1>4
<1>7. Size * 1 + d = d + Size /\ Size * 0 + d = d BY <1>1
<1>8. Used = d BY <1>5, <1>6, <1>7 DEF Used
<1> QED BY <1>4, <1>8 DEF a, b

\* The offset at which a parse looks, and each byte behind it.
LEMMA LooksAt ==
    ASSUME TypeInv, NEW p \in [Nat -> Nat], Layout(p), NEW d \in 0 .. Used, NEW a \in Nat,
           a = p[Last + 1] - d, NEW k \in Nat
    PROVE  At(At(read_offset, Used - d), k) = (a + k) % Size
<1>1. p[gone + 1] \in Nat /\ p[Last + 1] \in Nat /\ Size \in Nat \ {0} BY LayoutTypes, Sizes
<1>2. Used = p[Last + 1] - p[gone + 1] /\ Used \in Nat /\ Used - d \in Nat
  <2>1. Used = p[Last + 1] - p[gone + 1] /\ Used \in 0 .. Size - 1 BY UsedBytes
  <2> QED BY <1>1, <2>1
<1>3. p[gone + 1] + (Used - d) = a BY <1>1, <1>2
<1>4. read_offset = p[gone + 1] % Size BY DEF Layout
<1>5. At(read_offset, Used - d) = a % Size
  <2>1. ((p[gone + 1] % Size) + (Used - d)) % Size = (p[gone + 1] + (Used - d)) % Size
    BY <1>1, <1>2, ModAdd
  <2> QED BY <1>3, <1>4, <2>1 DEF At
<1>6. ((a % Size) + k) % Size = (a + k) % Size BY <1>1, ModAdd
<1> QED BY <1>5, <1>6 DEF At

\* The entries do not share a position.
LEMMA Distinct ==
    ASSUME TypeInv, NEW p \in [Nat -> Nat], Layout(p),
           NEW i \in gone + 1 .. Last + 1, NEW j \in gone + 1 .. Last + 1, p[i] = p[j]
    PROVE  i = j
<1>1. Last \in Nat /\ gone \in Nat /\ \A n \in Nat : p[n] \in Nat BY LayoutTypes
<1>2. i \in Nat /\ j \in Nat /\ p[i] \in Nat /\ p[j] \in Nat BY <1>1
<1>3. \A k, n \in gone + 1 .. Last + 1 : k <= n => p[k] + (n - k) <= p[n] BY DEF Layout
<1>4. i <= j => p[i] + (j - i) <= p[j] BY <1>3
<1>5. j <= i => p[j] + (i - j) <= p[i] BY <1>3
<1> QED BY <1>2, <1>4, <1>5

\* A position in the log that begins no entry lies inside one, and the byte
\* there is not the first of its entry.
LEMMA InsideEntry ==
    ASSUME TypeInv, NEW p \in [Nat -> Nat], Layout(p), NEW a \in Nat,
           p[gone + 1] <= a, a < p[Last + 1], \A i \in gone + 1 .. Last + 1 : a # p[i]
    PROVE  memory[a % Size][2] # 1
<1>1. Last \in Nat /\ gone \in Nat /\ gone <= Last /\ \A n \in Nat : p[n] \in Nat BY LayoutTypes
<1> DEFINE S == {i \in gone + 1 .. Last + 1 : a < p[i]}
<1>2. S \subseteq Nat BY <1>1
<1>3. Last + 1 \in S BY <1>1
<1>4. PICK m \in S : \A n \in S : m <= n BY <1>2, <1>3, Least
<1>5. m # gone + 1 BY <1>1
<1>6. PICK i \in gone + 1 .. Last : m = i + 1 BY <1>1, <1>5
<1>7. i \notin S
  <2>1. ~(i + 1 <= i) BY <1>1
  <2> HIDE DEF S
  <2> QED BY <1>4, <1>6, <2>1
<1>8. i \in gone + 1 .. Last + 1 BY <1>1
<1>9. p[i] \in Nat /\ p[i] < a /\ a < p[i + 1] BY <1>1, <1>6, <1>7, <1>8
<1>10. p[i + 1] = p[i] + Ends(i) /\ Ends(i) \in Nat
  <2>1. p[i + 1] = p[i] + Ends(i) /\ Ends(i) = Header + written[i] /\ written[i] \in 1 .. MsgMax
    BY Follows
  <2> QED BY <2>1, Sizes
<1>11. PICK k \in 1 .. Ends(i) : k = a - p[i] + 1 BY <1>9, <1>10
<1>12. p[i] + k - 1 = a /\ k # 1 BY <1>9, <1>11
<1>13. memory[(p[i] + k - 1) % Size] = <<i, k, written[i]>> BY DEF Layout
<1> QED BY <1>12, <1>13

\* The rule of ParseLast, and what it finds: where an entry begins, the entries
\* from there on, and nothing anywhere else.
Parse(f, d) ==
    IF d = 0 THEN <<>>
    ELSE LET here == At(read_offset, Used - d)
             cell == memory[At(here, Header - 1)]
             cost == Header + cell[3]
         IN IF /\ cell # Zero /\ cost <= d
               /\ \A k \in 1 .. cost : memory[At(here, k - 1)] = <<cell[1], k, cell[3]>>
            THEN <<<<cell[1], cell[3]>>>> \o f[d - cost]
            ELSE <<Zero>>

Begins(p, d) == {i \in gone + 1 .. Last + 1 : p[i] = p[Last + 1] - d}
Found(p) ==
    [d \in 0 .. Used |->
       IF Begins(p, d) # {} THEN EntriesFrom(CHOOSE i \in Begins(p, d) : TRUE) ELSE <<Zero>>]

LEMMA FoundAt ==
    ASSUME TypeInv, NEW p \in [Nat -> Nat], Layout(p), NEW d \in 0 .. Used,
           NEW i \in gone + 1 .. Last + 1, p[i] = p[Last + 1] - d
    PROVE  Found(p)[d] = EntriesFrom(i)
<1>1. i \in Begins(p, d) BY DEF Begins
<1>2. \A j \in Begins(p, d) : j = i BY Distinct DEF Begins
<1>3. (CHOOSE j \in Begins(p, d) : TRUE) = i BY <1>1, <1>2
<1> QED BY <1>1, <1>3 DEF Found

LEMMA FoundParses ==
    ASSUME TypeInv, NEW p \in [Nat -> Nat], Layout(p), NEW d \in 0 .. Used
    PROVE  Found(p)[d] = Parse(Found(p), d)
<1> DEFINE here == At(read_offset, Used - d)
           cell == memory[At(here, Header - 1)]
           cost == Header + cell[3]
<1>1. Last \in Nat /\ gone \in 0 .. Last /\ p[Last + 1] \in Nat /\ p[gone + 1] \in Nat
      /\ p[gone + 1] <= p[Last + 1] /\ (\A n \in Nat : p[n] \in Nat)
  BY LayoutTypes
<1>2. Used = p[Last + 1] - p[gone + 1] BY UsedBytes
<1>3. PICK a \in Nat : a = p[Last + 1] - d /\ p[gone + 1] <= a /\ a <= p[Last + 1] BY <1>1, <1>2
<1>4. \A k \in Nat : At(here, k) = (a + k) % Size BY <1>3, LooksAt
<1>h. Header \in Nat /\ Header - 1 \in Nat /\ Header > 0 /\ MsgMax \in Nat BY Sizes
<1> HIDE DEF here
<1>5. CASE d = 0
  <2>1. p[Last + 1] = p[Last + 1] - d /\ Last + 1 \in gone + 1 .. Last + 1 BY <1>1, <1>5
  <2>2. Found(p)[d] = EntriesFrom(Last + 1) BY <2>1, FoundAt
  <2>3. EntriesFrom(Last + 1) = <<>>
    <3>1. Last + 1 - (Last + 1) = 0 BY <1>1
    <3>2. \A k \in 1 .. 0 : FALSE OBVIOUS
    <3> QED BY <3>1, <3>2 DEF EntriesFrom
  <2> QED BY <1>5, <2>2, <2>3 DEF Parse
<1>6. CASE d # 0 /\ \E i \in gone + 1 .. Last + 1 : a = p[i]
  <2>1. PICK i \in gone + 1 .. Last + 1 : a = p[i] BY <1>6
  <2>2. i # Last + 1
    <3>1. d \in Nat /\ d # 0 BY <1>1, <1>2, <1>6
    <3> QED BY <1>1, <1>3, <2>1, <3>1
  <2>3. i \in gone + 1 .. Last /\ i \in Nat BY <1>1, <2>2
  <2>4. /\ p[i + 1] = p[i] + Ends(i) /\ Ends(i) = Header + written[i] /\ p[i + 1] <= p[Last + 1]
        /\ written[i] \in 1 .. MsgMax /\ p[i + 1] \in Nat
    BY <2>3, Follows
  <2>5. written[i] \in Nat /\ Ends(i) \in Nat BY <2>4, <1>h
  <2>6. \A k \in 1 .. Ends(i) : memory[At(here, k - 1)] = <<i, k, written[i]>>
    <3> TAKE k \in 1 .. Ends(i)
    <3>1. k - 1 \in Nat /\ a + (k - 1) = p[i] + k - 1 BY <2>1, <2>5
    <3>2. At(here, k - 1) = (p[i] + k - 1) % Size BY <1>4, <3>1
    <3>3. memory[(p[i] + k - 1) % Size] = <<i, k, written[i]>> BY <2>3 DEF Layout
    <3> QED BY <3>2, <3>3
  <2>7. cell = <<i, Header, written[i]>>
    <3>1. Header \in 1 .. Ends(i) BY <2>4, <2>5, <1>h
    <3> QED BY <2>6, <3>1
  <2> HIDE DEF cell
  <2>8. cell # Zero /\ cell[1] = i /\ cell[3] = written[i] /\ cost = Ends(i)
    BY <1>h, <2>4, <2>7 DEF Zero
  <2> HIDE DEF cost
  <2>9. cost <= d /\ d - cost \in 0 .. Used /\ p[i + 1] = p[Last + 1] - (d - cost)
    <3>1. p[i] = p[Last + 1] - d /\ p[i] \in Nat BY <1>3, <2>1
    <3>2. d \in Nat /\ d <= Used /\ Used \in Nat BY <1>1, <1>2
    <3>3. cost \in Nat /\ p[i + 1] = p[i] + cost BY <2>4, <2>5, <2>8
    <3> QED BY <1>1, <2>4, <3>1, <3>2, <3>3
  <2>10. \A k \in 1 .. cost : memory[At(here, k - 1)] = <<cell[1], k, cell[3]>> BY <2>6, <2>8
  <2>11. Parse(Found(p), d) = <<<<cell[1], cell[3]>>>> \o Found(p)[d - cost]
    BY <1>6, <2>8, <2>9, <2>10 DEF Parse, here, cell, cost
  <2>12. Found(p)[d] = EntriesFrom(i) BY <1>3, <2>1, FoundAt
  <2>13. Found(p)[d - cost] = EntriesFrom(i + 1)
    <3>1. i + 1 \in gone + 1 .. Last + 1 BY <1>1, <2>3
    <3> QED BY <2>9, <3>1, FoundAt
  <2>14. EntriesFrom(i) = <<<<i, written[i]>>>> \o EntriesFrom(i + 1)
    <3>1. Last \in Nat /\ i <= Last BY <1>1, <2>3
    <3> QED BY <2>3, <3>1, EntriesSplit
  <2> QED BY <2>8, <2>11, <2>12, <2>13, <2>14
<1>7. CASE d # 0 /\ \A i \in gone + 1 .. Last + 1 : a # p[i]
  <2>1. d \in Nat /\ d # 0 /\ a < p[Last + 1] BY <1>1, <1>2, <1>3, <1>7
  <2>2. memory[a % Size][2] # 1 BY <1>3, <1>7, <2>1, InsideEntry
  <2>3. Found(p)[d] = <<Zero>>
    <3>1. Begins(p, d) = {} BY <1>3, <1>7 DEF Begins
    <3> QED BY <3>1 DEF Found
  <2>4. ASSUME cell # Zero, \A k \in 1 .. cost : memory[At(here, k - 1)] = <<cell[1], k, cell[3]>>
        PROVE  FALSE
    <3>1. cell \in Cell
      <4>1. At(here, Header - 1) \in Offset
        <5>1. At(here, Header - 1) = (a + (Header - 1)) % Size BY <1>4, <1>h
        <5>2. a + (Header - 1) \in Int /\ Size \in Nat \ {0} BY <1>h, Sizes
        <5> QED BY <5>1, <5>2, ModType DEF Offset
      <4>2. memory \in [Offset -> Cell] BY TypeParts DEF TypeInv, Shared
      <4> QED BY <4>1, <4>2
    <3>2. cell[3] \in Nat
      <4> HIDE DEF cell
      <4>1. cell \in (Nat \ {0}) \X (1 .. Header + MsgMax) \X (1 .. MsgMax)
        BY <2>4, <3>1 DEF Cell
      <4>2. cell[3] \in 1 .. MsgMax BY <4>1
      <4> QED BY <4>2
    <3>3. 1 \in 1 .. cost /\ 1 - 1 = 0 BY <1>h, <3>2
    <3>4. memory[At(here, 0)] = <<cell[1], 1, cell[3]>> BY <2>4, <3>3
    <3>5. At(here, 0) = a % Size
      <4>1. a + 0 = a BY <1>3
      <4> QED BY <1>4, <4>1
    <3> QED BY <2>2, <3>4, <3>5
  <2> QED BY <1>7, <2>3, <2>4 DEF Parse, here, cell, cost
<1> QED BY <1>3, <1>5, <1>6, <1>7
LEMMA HeaderLength ==
    ASSUME TypeInv, NEW o \in Int, memory[At(o, Header - 1)] # Zero
    PROVE  memory[At(o, Header - 1)][3] \in 1 .. MsgMax
<1>1. At(o, Header - 1) \in Offset
  <2>1. o + (Header - 1) \in Int /\ Size \in Nat \ {0} BY Sizes
  <2> QED BY <2>1, ModType DEF At, Offset
<1>2. memory \in [Offset -> Cell] BY TypeParts DEF TypeInv, Shared
<1> DEFINE cell == memory[At(o, Header - 1)]
<1>3. cell \in Cell /\ cell # Zero BY <1>1, <1>2
<1> HIDE DEF cell
<1>4. cell \in (Nat \ {0}) \X (1 .. Header + MsgMax) \X (1 .. MsgMax) BY <1>3 DEF Cell
<1>5. cell[3] \in 1 .. MsgMax BY <1>4
<1> QED BY <1>5 DEF cell

\* A parse is determined by its rule: what it finds from a header on it takes
\* from a place nearer to the end.
LEMMA ParseLastFound ==
    ASSUME TypeInv, NEW p \in [Nat -> Nat], Layout(p)
    PROVE  ParseLast = Found(p)
<1>u. Used \in Nat
  <2>1. Used \in 0 .. Size - 1 BY UsedBytes
  <2> QED BY <2>1, Sizes
<1>1. Found(p) = [d \in 0 .. Used |-> Parse(Found(p), d)]
  <2>1. \A d \in 0 .. Used : Found(p)[d] = Parse(Found(p), d) BY FoundParses
  <2>2. Found(p) = [d \in 0 .. Used |-> Found(p)[d]] BY DEF Found
  <2> HIDE DEF Found
  <2> QED BY <2>1, <2>2
<1>2. ParseLast = [d \in 0 .. Used |-> Parse(ParseLast, d)]
  <2>1. \E f : f = [d \in 0 .. Used |-> Parse(f, d)] BY <1>1
  <2>2. ParseLast = CHOOSE f : f = [d \in 0 .. Used |-> Parse(f, d)] BY DEF ParseLast, Parse
  <2> QED BY <2>1, <2>2
<1> DEFINE f == ParseLast
           g == Found(p)
           S == {d \in 0 .. Used : f[d] # g[d]}
<1>3. ASSUME S # {} PROVE FALSE
  <2>1. S \subseteq Nat BY <1>u
  <2> HIDE DEF S
  <2>2. PICK m \in S : \A n \in S : m <= n BY <1>3, <2>1, Least
  <2> USE DEF S
  <2>3. m \in 0 .. Used /\ m \in Nat /\ f[m] # g[m] BY <1>u
  <2>4. \A n \in 0 .. Used : n < m => f[n] = g[n]
    <3> SUFFICES ASSUME NEW n \in 0 .. Used, n < m, f[n] # g[n] PROVE FALSE
      OBVIOUS
    <3>1. n \in S OBVIOUS
    <3>2. m <= n BY <2>2, <3>1
    <3>3. n \in Nat BY <1>u
    <3> HIDE DEF S, f, g
    <3> QED BY <2>3, <3>2, <3>3
  <2> DEFINE here == At(read_offset, Used - m)
             cell == memory[At(here, Header - 1)]
             cost == Header + cell[3]
  <2>5. ASSUME cell # Zero, cost <= m PROVE m - cost \in 0 .. Used /\ m - cost < m
    <3>1. here \in Int
      <4>1. read_offset \in Offset BY TypeParts DEF TypeInv, Shared
      <4>2. Size \in Nat \ {0} /\ read_offset \in Int BY <4>1, Sizes DEF Offset
      <4>3. read_offset + (Used - m) \in Int BY <1>u, <2>3, <4>2
      <4>4. here \in Offset BY <4>2, <4>3, ModType DEF At, Offset
      <4> HIDE DEF here
      <4> QED BY <4>2, <4>4 DEF Offset
    <3> HIDE DEF here
    <3>2. cell[3] \in 1 .. MsgMax BY <2>5, <3>1, HeaderLength
    <3> HIDE DEF cell
    <3>3. cost \in Nat /\ cost > 0 BY <3>2, Sizes
    <3> HIDE DEF cost
    <3> QED BY <1>u, <2>3, <2>5, <3>3
  <2>6. f[m] = Parse(f, m) /\ g[m] = Parse(g, m)
    <3> HIDE DEF f, g
    <3> QED BY <1>1, <1>2, <2>3 DEF f, g
  <2>7. Parse(f, m) = Parse(g, m)
    <3> HIDE DEF f, g
    <3>1. CASE m = 0 BY <3>1 DEF Parse
    <3>2. CASE cell # Zero /\ cost <= m
      <4>1. f[m - cost] = g[m - cost] BY <2>4, <2>5, <3>2
      <4> QED BY <4>1 DEF Parse
    <3>3. CASE ~(cell # Zero /\ cost <= m) BY <3>3 DEF Parse
    <3> QED BY <3>2, <3>3
  <2> HIDE DEF f, g
  <2> QED BY <2>3, <2>6, <2>7
<1>4. \A d \in 0 .. Used : f[d] = g[d] BY <1>3
<1>5. f = [d \in 0 .. Used |-> f[d]] BY <1>2
<1>6. g = [d \in 0 .. Used |-> g[d]] BY <1>1
<1> HIDE DEF f, g
<1>7. f = g BY <1>4, <1>5, <1>6
<1> QED BY <1>7 DEF f, g

LEMMA ParsedIs ==
    ASSUME TypeInv, NEW p \in [Nat -> Nat], Layout(p)
    PROVE  Parsed = EntriesFrom(gone + 1)
<1>1. Used = p[Last + 1] - p[gone + 1] /\ Used \in 0 .. Size - 1 BY UsedBytes
<1>2. Last \in Nat /\ gone \in 0 .. Last /\ p[Last + 1] \in Nat /\ p[gone + 1] \in Nat
  BY LayoutTypes
<1>3. Used \in 0 .. Used /\ gone + 1 \in gone + 1 .. Last + 1
  <2>1. Used \in Nat BY <1>1, Sizes
  <2> QED BY <1>2, <2>1
<1>4. p[gone + 1] = p[Last + 1] - Used BY <1>1, <1>2
<1>5. Found(p)[Used] = EntriesFrom(gone + 1) BY <1>3, <1>4, FoundAt
<1> QED BY <1>5, ParseLastFound DEF Parsed

-----------------------------------------------------------------------------
(* The log is the queue of LogService                                      *)

\* A sum is determined by its rule.
Sums(f, c, n) == \A k \in 0 .. n : f[k] = IF k = 0 THEN 0 ELSE f[k - 1] + c[k]

LEMMA SumDetermined ==
    ASSUME NEW n \in Nat, NEW c, NEW f, NEW g, Sums(f, c, n), Sums(g, c, n)
    PROVE  f[n] = g[n]
<1> DEFINE S == {k \in 0 .. n : f[k] # g[k]}
<1>1. ASSUME S # {} PROVE FALSE
  <2>1. S \subseteq Nat OBVIOUS
  <2> HIDE DEF S
  <2>2. PICK m \in S : \A k \in S : m <= k BY <1>1, <2>1, Least
  <2> USE DEF S
  <2>3. m \in 0 .. n /\ f[m] # g[m] OBVIOUS
  <2>4. m # 0 BY <2>3 DEF Sums
  <2>5. m - 1 \in 0 .. n /\ ~(m <= m - 1) BY <2>3, <2>4
  <2>6. f[m - 1] = g[m - 1]
    <3>1. m - 1 \notin S
      <4> HIDE DEF S
      <4> QED BY <2>2, <2>5
    <3> QED BY <2>5, <3>1
  <2>7. f[m] = f[m - 1] + c[m] /\ g[m] = g[m - 1] + c[m] BY <2>3, <2>4 DEF Sums
  <2> QED BY <2>3, <2>6, <2>7
<1> QED BY <1>1

\* The entries of the log take the bytes between the two offsets.
LEMMA TotalIs ==
    ASSUME TypeInv, NEW p \in [Nat -> Nat], Layout(p)
    PROVE  Log!Total = p[Last + 1] - p[gone + 1]
<1>1. Last \in Nat /\ gone \in 0 .. Last /\ \A i \in Nat : p[i] \in Nat BY LayoutTypes
<1>2. PICK n \in Nat : n = Last - gone BY <1>1
<1>3. Parsed = [k \in 1 .. n |-> <<gone + 1 + k - 1, written[gone + 1 + k - 1]>>]
  <2>1. Last + 1 - (gone + 1) = n BY <1>1, <1>2
  <2> QED BY <2>1, ParsedIs DEF EntriesFrom
<1>4. Len(Parsed) = n BY <1>3
<1> DEFINE c == [k \in 1 .. n |-> CostOf(Parsed[k])]
           g == [k \in 0 .. n |-> p[gone + 1 + k] - p[gone + 1]]
           f == Log!Sum
<1>5. \A k \in 0 .. n : g[k] = IF k = 0 THEN 0 ELSE g[k - 1] + c[k]
  <2> TAKE k \in 0 .. n
  <2>1. CASE k = 0
    <3>1. gone + 1 + 0 = gone + 1 /\ p[gone + 1] \in Nat BY <1>1
    <3>2. p[gone + 1 + k] - p[gone + 1] = 0 BY <2>1, <3>1
    <3> QED BY <2>1, <3>2
  <2>2. CASE k # 0
    <3>1. k \in 1 .. n /\ k - 1 \in 0 .. n BY <2>2
    <3>2. PICK i \in gone + 1 .. Last : i = gone + k BY <1>1, <1>2, <3>1
    <3>3. gone + 1 + k = i + 1 /\ gone + 1 + (k - 1) = i /\ gone + 1 + k - 1 = i BY <1>1, <3>2
    <3>4. /\ p[i] \in Nat /\ p[i + 1] \in Nat /\ p[i + 1] = p[i] + Ends(i)
          /\ Ends(i) = Header + written[i] /\ written[i] \in 1 .. MsgMax /\ i \in 1 .. Last
      BY <3>2, Follows
    <3>5. Parsed[k] = <<i, written[i]>> BY <1>3, <3>1, <3>3
    <3>6. CostOf(Parsed[k]) = Header + written[i] BY <3>5 DEF CostOf
    <3>7. g[k] = p[i + 1] - p[gone + 1] /\ g[k - 1] = p[i] - p[gone + 1] BY <3>1, <3>3
    <3>8. c[k] = Header + written[i] BY <3>1, <3>6
    <3> HIDE DEF c, g
    <3>9. p[gone + 1] \in Nat /\ written[i] \in Nat /\ Header \in Nat BY <1>1, <3>4, Sizes
    <3> QED BY <2>2, <3>4, <3>7, <3>8, <3>9
  <2> QED BY <2>1, <2>2
<1>6. \A k \in 0 .. n : f[k] = IF k = 0 THEN 0 ELSE f[k - 1] + c[k]
  <2>g. g = [k \in 0 .. n |-> g[k]] OBVIOUS
  <2> HIDE DEF g
  <2>1. \A k \in 0 .. n : k # 0 => c[k] = CostOf(Parsed[k]) OBVIOUS
  <2> HIDE DEF c
  <2> DEFINE Rule(h) == [k \in 0 .. Len(Parsed) |-> IF k = 0 THEN 0
                                                    ELSE h[k - 1] + CostOf(Parsed[k])]
  <2>2. \A h : Rule(h) = [k \in 0 .. n |-> IF k = 0 THEN 0 ELSE h[k - 1] + c[k]]
    BY <1>4, <2>1
  <2>3. f = CHOOSE h : h = Rule(h) BY DEF Log!Sum
  <2> HIDE DEF Rule, f
  <2>4. g = Rule(g) BY <1>5, <2>g, <2>2
  <2>5. f = Rule(f) BY <2>3, <2>4
  <2> QED BY <2>2, <2>5
<1> HIDE DEF c, f, g
<1>7. f[n] = g[n]
  <2>1. Sums(f, c, n) /\ Sums(g, c, n) BY <1>5, <1>6 DEF Sums
  <2> QED BY <2>1, SumDetermined
<1>8. Log!Total = f[n] BY <1>4 DEF Log!Total, f
<1>9. g[n] = p[Last + 1] - p[gone + 1]
  <2>1. gone + 1 + n = Last + 1 /\ n \in 0 .. n BY <1>1, <1>2
  <2> QED BY <2>1 DEF g
<1> QED BY <1>7, <1>8, <1>9

\* What the parse shows of a state.
ShowsLog == Parsed = EntriesFrom(gone + 1) /\ Log!Total <= Size - 1

LEMMA Shows ==
    ASSUME NEW w
    PROVE  IInv(w) => ShowsLog
<1> SUFFICES ASSUME IInv(w) PROVE ShowsLog
  OBVIOUS
<1>1. PICK p \in [Nat -> Nat] : Placed(w, p) BY DEF IInv
<1>2. TypeInv /\ Layout(p) BY <1>1 DEF IInv, Placed
<1>3. Parsed = EntriesFrom(gone + 1) BY <1>2, ParsedIs
<1>4. Log!Total = p[Last + 1] - p[gone + 1] BY <1>2, TotalIs
<1>5. Used = p[Last + 1] - p[gone + 1] /\ Used \in 0 .. Size - 1 BY <1>2, UsedBytes
<1>6. Log!Total <= Size - 1 BY <1>4, <1>5, Sizes
<1> QED BY <1>3, <1>6 DEF ShowsLog
\* A sequence with an element more, or without its first.
LEMMA AppendIs ==
    ASSUME NEW n \in Nat, NEW E, NEW s \in [1 .. n -> E], NEW e, NEW G, NEW u \in [1 .. n + 1 -> G],
           u[n + 1] = e, \A k \in 1 .. n : u[k] = s[k]
    PROVE  u = Append(s, e)
<1> DEFINE F == E \cup {e}
           t == Append(s, e)
<1>1. s \in Seq(F) /\ Len(s) = n /\ e \in F
  <2>1. s \in [1 .. n -> F] OBVIOUS
  <2> HIDE DEF F
  <2>2. s \in Seq(F) /\ Len(s) = n BY <2>1
  <2> QED BY <2>2 DEF F
<1> HIDE DEF F
<1>2. t \in Seq(F) /\ Len(t) = n + 1 /\ t[n + 1] = e /\ \A k \in 1 .. n : t[k] = s[k]
  BY <1>1, AppendProperties
<1> HIDE DEF t
<1>3. t = [k \in 1 .. n + 1 |-> t[k]] BY <1>2
<1>4. \A k \in 1 .. n + 1 : t[k] = u[k]
  <2>1. \A k \in 1 .. n + 1 : k # n + 1 => k \in 1 .. n OBVIOUS
  <2> QED BY <1>2, <2>1
<1> QED BY <1>3, <1>4 DEF t

LEMMA TailIs ==
    ASSUME NEW n \in Nat, NEW E, NEW s \in [1 .. n + 1 -> E]
    PROVE  Tail(s) = [k \in 1 .. n |-> s[k + 1]] /\ s # <<>>
<1>1. s \in Seq(E) /\ Len(s) = n + 1 OBVIOUS
<1>2. Len(s) - 1 = n /\ s # <<>> BY <1>1
<1>3. /\ Tail(s) \in Seq(E) /\ Len(Tail(s)) = n
      /\ \A k \in 1 .. Len(Tail(s)) : Tail(s)[k] = s[k + 1]
  BY <1>1, <1>2, HeadTailProperties
<1> DEFINE t == Tail(s)
<1> HIDE DEF t
<1>4. t \in Seq(E) /\ Len(t) = n /\ \A k \in 1 .. n : t[k] = s[k + 1] BY <1>3 DEF t
<1>5. t = [k \in 1 .. n |-> t[k]] BY <1>4
<1>6. t = [k \in 1 .. n |-> s[k + 1]] BY <1>4, <1>5
<1> QED BY <1>2, <1>6 DEF t

\* The log is left alone, loses its oldest entry, or loses them all.
LEMMA LogStays ==
    ASSUME ShowsLog, ShowsLog', UNCHANGED <<written, gone>>
    PROVE  Parsed' = Parsed
<1>1. Last' = Last BY DEF Last
<1>2. EntriesFrom(gone + 1)' = EntriesFrom(gone + 1) BY <1>1 DEF EntriesFrom
<1> QED BY <1>2 DEF ShowsLog

LEMMA LogDrops ==
    ASSUME ShowsLog, ShowsLog', gone \in Nat, Last \in Nat, gone < Last,
           gone' = gone + 1, UNCHANGED written
    PROVE  Log!DropOldest
<1>1. PICK n \in Nat : n + 1 = Last - gone
  <2>1. Last - gone - 1 \in Nat /\ (Last - gone - 1) + 1 = Last - gone OBVIOUS
  <2> QED BY <2>1
<1>2. Last' = Last BY DEF Last
<1>3. Last + 1 - (gone + 1) = n + 1 /\ Last' + 1 - (gone' + 1) = n BY <1>1, <1>2
<1> DEFINE s == Parsed
           e == [k \in 1 .. n + 1 |-> <<gone + 1 + k - 1, written[gone + 1 + k - 1]>>]
<1>4. s = e BY <1>3 DEF ShowsLog, EntriesFrom
<1>5. s' = [k \in 1 .. n |-> <<gone' + 1 + k - 1, written'[gone' + 1 + k - 1]>>]
  BY <1>3 DEF ShowsLog, EntriesFrom
<1>6. Tail(e) = [k \in 1 .. n |-> e[k + 1]] /\ e # <<>>
  <2> DEFINE E == {e[k] : k \in 1 .. n + 1}
  <2>1. e \in [1 .. n + 1 -> E] OBVIOUS
  <2> HIDE DEF e, E
  <2> QED BY <2>1, TailIs
<1>8. \A k \in 1 .. n : e[k + 1] = <<gone' + 1 + k - 1, written'[gone' + 1 + k - 1]>>
  <2> TAKE k \in 1 .. n
  <2>1. gone' + 1 + k - 1 = gone + 1 + (k + 1) - 1 /\ k + 1 \in 1 .. n + 1 OBVIOUS
  <2> QED BY <2>1
<1> HIDE DEF e
<1>9. s' = Tail(e) BY <1>5, <1>6, <1>8
<1> QED BY <1>4, <1>6, <1>9 DEF Log!DropOldest

LEMMA LogEmpties ==
    ASSUME ShowsLog', Last \in Nat, gone' = Last, UNCHANGED written
    PROVE  Log!Reset
<1>1. Last' = Last BY DEF Last
<1>2. Last' + 1 - (gone' + 1) = 0 BY <1>1
<1>3. Parsed' = [k \in 1 .. 0 |-> <<gone' + 1 + k - 1, written'[gone' + 1 + k - 1]>>]
  BY <1>2 DEF ShowsLog, EntriesFrom
<1>4. \A k \in 1 .. 0 : FALSE OBVIOUS
<1> QED BY <1>3, <1>4 DEF Log!Reset

\* An entry is added behind the newest, and there was room for it.
LEMMA LogGrows ==
    ASSUME TypeInv, ShowsLog, ShowsLog', gone \in 0 .. Last, Last \in Nat,
           NEW l \in Lengths, Last + 1 <= MaxCalls, UNCHANGED gone, written' = Append(written, l)
    PROVE  Log!Append1
<1>1. PICK n \in Nat : n = Last - gone OBVIOUS
<1>2. PICK m \in Nat : m = Last + 1 OBVIOUS
<1>w. written \in Seq(1 .. MsgMax) /\ l \in 1 .. MsgMax
  BY TypeParts, Sizes DEF TypeInv, Shared
<1>3. Last' = m
  BY <1>2, <1>w DEF Last
<1>4. written'[m] = l /\ \A j \in 1 .. Last : written'[j] = written[j]
  BY <1>2, <1>w, AppendProperties DEF Last
<1>5. Last + 1 - (gone + 1) = n /\ Last' + 1 - (gone' + 1) = n + 1 BY <1>1, <1>2, <1>3
<1>6. Parsed = [k \in 1 .. n |-> <<gone + 1 + k - 1, written[gone + 1 + k - 1]>>]
  BY <1>5 DEF ShowsLog, EntriesFrom
<1>7. Parsed' = [k \in 1 .. n + 1 |-> <<gone + 1 + k - 1, written'[gone + 1 + k - 1]>>]
  BY <1>5 DEF ShowsLog, EntriesFrom
<1> DEFINE s == Parsed
           u == Parsed'
           e == <<m, l>>
<1>8. \E E : s \in [1 .. n -> E]
  <2> DEFINE E == {<<gone + 1 + k - 1, written[gone + 1 + k - 1]>> : k \in 1 .. n}
  <2>1. s \in [1 .. n -> E] BY <1>6
  <2> HIDE DEF s, E
  <2> QED BY <2>1
<1>9. \E G : u \in [1 .. n + 1 -> G]
  <2> DEFINE G == {<<gone + 1 + k - 1, written'[gone + 1 + k - 1]>> : k \in 1 .. n + 1}
  <2>1. u \in [1 .. n + 1 -> G] BY <1>7
  <2> HIDE DEF u, G
  <2> QED BY <2>1
<1>10. u[n + 1] = e /\ \A k \in 1 .. n : u[k] = s[k]
  <2>1. gone + 1 + (n + 1) - 1 = m /\ n + 1 \in 1 .. n + 1 BY <1>1, <1>2
  <2>2. u[n + 1] = e BY <1>4, <1>7, <2>1
  <2>3. \A k \in 1 .. n : k \in 1 .. n + 1 /\ gone + 1 + k - 1 \in 1 .. Last BY <1>1
  <2>4. \A k \in 1 .. n : u[k] = s[k] BY <1>4, <1>6, <1>7, <2>3
  <2> QED BY <2>2, <2>4
<1>11. u = Append(s, e)
  <2>1. PICK E, G : s \in [1 .. n -> E] /\ u \in [1 .. n + 1 -> G] BY <1>8, <1>9
  <2> HIDE DEF s, u, e
  <2> QED BY <1>10, <2>1, AppendIs
<1>12. e \in Numbered BY <1>2, Sizes DEF Numbered
<1>13. (Log!Total)' <= Size - 1 BY DEF ShowsLog
<1> HIDE DEF e
<1> QED BY <1>11, <1>12, <1>13 DEF Log!Append1

LEMMA ResetLog ==
    ASSUME TypeInv, ShowsLog', AllLeave, UNCHANGED written
    PROVE  Log!Reset
<1>1. gone' = Last /\ Last \in Nat BY TypeParts DEF AllLeave, Last, TypeInv, Shared
<1> QED BY <1>1, LogEmpties

LEMMA WriterRefines ==
    ASSUME NEW w \in Writer, IInv(w), ShowsLog, ShowsLog', WriterNext(w)
    PROVE  Log!Next \/ Parsed' = Parsed
<1>1. TypeInv BY DEF IInv
<1>2. PICK p \in [Nat -> Nat] : Layout(p) /\ Counts(w) /\ Progress(w, p) BY DEF IInv, Placed
<1>3. Last \in Nat /\ gone \in 0 .. Last /\ gone \in Nat
  <2>1. Last \in Nat /\ gone \in 0 .. Last BY <1>1, <1>2, LayoutTypes
  <2> QED BY <2>1
<1>4. ASSUME NEW l \in Lengths, Call(w, l) PROVE Parsed' = Parsed
  <2>1. UNCHANGED <<written, gone>> BY <1>4 DEF Call, history
  <2> QED BY <2>1, LogStays
<1>5. CASE Test(w) \/ Count(w) \/ Check(w) \/ StoreByte(w) \/ Add(w)
  <2>1. UNCHANGED <<written, gone>> BY <1>5 DEF Test, Count, Check, StoreByte, Add, history
  <2> QED BY <2>1, LogStays
<1>6. CASE Evicting(w)
  <2>1. UNCHANGED history \/ (AllLeave /\ UNCHANGED written) BY <1>6 DEF Evicting, Evict
  <2>2. CASE UNCHANGED history
    <3>1. UNCHANGED <<written, gone>> BY <2>2 DEF history
    <3> QED BY <3>1, LogStays
  <2>3. CASE AllLeave /\ UNCHANGED written
    <3>1. Log!Reset BY <1>1, <2>3, ResetLog
    <3> QED BY <3>1 DEF Log!Next
  <2> QED BY <2>1, <2>2, <2>3
<1>7. CASE Advance(w)
  <2>1. gone' = gone + 1 /\ UNCHANGED written BY <1>7 DEF Advance, OldestLeaves
  <2>2. gone < Last BY <1>2, <1>7 DEF Advance, Goto, Counts
  <2>3. Log!DropOldest BY <1>3, <2>1, <2>2, LogDrops
  <2> QED BY <2>3 DEF Log!Next
<1>8. CASE Guard(w)
  <2>1. (AllLeave \/ UNCHANGED gone) /\ UNCHANGED written BY <1>8 DEF Guard
  <2>2. CASE UNCHANGED gone
    <3>1. UNCHANGED <<written, gone>> BY <2>1, <2>2
    <3> QED BY <3>1, LogStays
  <2>3. CASE AllLeave
    <3>1. Log!Reset BY <1>1, <2>1, <2>3, ResetLog
    <3> QED BY <3>1 DEF Log!Next
  <2> QED BY <2>1, <2>2, <2>3
<1>9. CASE Commit(w)
  <2>1. pc[w] = "commit" /\ UNCHANGED gone /\ written' = Append(written, len[w])
    BY <1>9 DEF Commit, Goto
  <2>2. len[w] \in Lengths BY <1>2, <2>1 DEF Progress
  <2>3. Last + 1 <= MaxCalls
    <3>1. Last + 1 <= calls BY <1>2, <2>1 DEF Counts
    <3>2. calls \in 0 .. MaxCalls BY <1>1, TypeParts DEF TypeInv, Shared
    <3> QED BY <1>3, <3>1, <3>2, Sizes
  <2>4. Log!Append1 BY <1>1, <1>3, <2>1, <2>2, <2>3, LogGrows
  <2> QED BY <2>4 DEF Log!Next
<1>10. CASE Clear(w)
  <2>1. AllLeave /\ UNCHANGED written BY <1>10 DEF Clear
  <2>2. Log!Reset BY <1>1, <2>1, ResetLog
  <2> QED BY <2>2 DEF Log!Next
<1> QED BY <1>4, <1>5, <1>6, <1>7, <1>8, <1>9, <1>10 DEF WriterNext, Write

LEMMA StepRefines ==
    ASSUME LogInv, ShowsLog, ShowsLog', [Next]_vars, [InTurn]_vars
    PROVE  [Log!Next]_Parsed
<1>1. ASSUME NEW t \in Writer, WriterNext(t), InTurn PROVE Log!Next \/ Parsed' = Parsed
  <2>1. PICK w \in Writer : Alone(w) /\ IInv(w) BY DEF LogInv
  <2>2. Alone(t) BY <1>1 DEF InTurn
  <2>3. IInv(t) BY <2>1, <2>2, TurnOf
  <2> QED BY <1>1, <2>3, WriterRefines
<1>2. CASE ReaderCall \/ ReaderStep \/ UNCHANGED vars
  <2>1. UNCHANGED <<written, gone>> BY <1>2 DEF ReaderCall, ReaderStep, vars, history
  <2> QED BY <2>1, LogStays
<1> QED BY <1>1, <1>2 DEF Next

\* While calls do not overlap, the ring implements the queue of whole entries
\* that dmesg.h promises: each step of a call, eviction and guard included,
\* adds an entry that fits, drops the oldest, drops all, or changes nothing
\* (dmesg.c:62-184).
THEOREM LogRefined ==
    ASSUME Writer # {}
    PROVE  Spec /\ CallsInTurn => RefinesLog
<1>1. LogInv => ShowsLog BY Shows DEF LogInv
<1>2. Init /\ LogInv => Log!Init
  <2> SUFFICES ASSUME Init, ShowsLog PROVE Parsed = <<>>
    BY <1>1 DEF Log!Init
  <2>1. Last = 0 /\ gone = 0 BY DEF Init, Last
  <2>2. Last + 1 - (gone + 1) = 0 BY <2>1
  <2>3. \A k \in 1 .. 0 : FALSE OBVIOUS
  <2> QED BY <2>2, <2>3 DEF ShowsLog, EntriesFrom
<1>3. LogInv /\ ShowsLog /\ ShowsLog' /\ [Next]_vars /\ [InTurn]_vars => [Log!Next]_Parsed
  BY StepRefines
<1>4. Spec /\ CallsInTurn => []LogInv BY Invariant
<1> QED BY <1>1, <1>2, <1>3, <1>4, PTL DEF Spec, CallsInTurn, RefinesLog, Log!Spec

=============================================================================
