------------------------------- MODULE Dmesg -------------------------------
(***************************************************************************)
(* The log ring of M1_SysApp/dmesg/dmesg.c.  An entry is a header (four    *)
(* bytes of time, one of length) and the message; both may wrap around the *)
(* end of the buffer.  A write evicts the oldest entries until the new one *)
(* fits.                                                                   *)
(*                                                                         *)
(* dmesg.h leaves thread safety to the callers, and they take no lock: the *)
(* tasks write whenever they like, and the console reads entry by entry,   *)
(* sleeping in between while its output drains.  So the accesses of a call *)
(* to the shared offsets and to the buffer are steps of their own.         *)
(***************************************************************************)
EXTENDS Integers, Sequences

CONSTANTS
    Writer,      \* the tasks that write
    Size,        \* DMESG_BUFFER_SIZE (256)
    Header,      \* DMESG_ENTRY_HEADER_SIZE (5)
    MsgMax,      \* DMESG_MSG_MAX_LENGTH (128)
    Slack,       \* evictions that a write may do beyond log_count (10)
    Word,        \* the values of a size_t (2^32)
    Lengths,     \* bound: lengths of the messages written
    Asked,       \* bound: the N of GetLatestN
    Clears,      \* Dmesg_Clear is called, which the application never does
    MaxCalls,    \* bound: calls of the writers
    MaxReads     \* bound: calls of the reader

ASSUME DmesgAssumption ==
    /\ Size \in Nat /\ Header \in Nat \ {0} /\ MsgMax \in Nat \ {0}
    /\ Header + MsgMax < Size
    /\ Slack \in Nat /\ Word \in Nat /\ Size < Word
    /\ Lengths \subseteq 1 .. MsgMax /\ Asked \subseteq Nat \ {0}
    /\ Clears \in BOOLEAN
    /\ MaxCalls \in Nat /\ MaxReads \in Nat

VARIABLES
    memory,                      \* dmesg_buffer
    write_offset, read_offset, log_count,
    total_writes, dropped_messages,
    pc, len,                     \* of a writer: its place, the length it writes
    eviction_count,
    off,                         \* its local r_off, then w_off
    stored,                      \* bytes of its entry that it has stored
    rpc, roff, skip, left, text, \* of the reader: its place and offset, entries
                                 \* to skip and to show, the bytes copied
    rlen,                        \* the length in the header it has read
    \* History, read by the properties and the bounds only:
    written,                     \* lengths of the entries ever written
    gone,                        \* how many of them have left the log
    forgot,                      \* the log was reset as a whole
    calls, reads,
    shown, from,                 \* what this call of the reader has shown, and
                                 \* the entry that it should begin with
    at,                          \* the entry that it stands at
    disturbed                    \* this left the log under the reader, or the call
                                 \* read the count in the middle of an eviction

offsets == <<write_offset, read_offset>>
stats == <<total_writes, dropped_messages>>
writer == <<pc, len, eviction_count, off, stored, calls>>
history == <<written, gone, forgot>>
reader == <<rpc, roff, skip, left, text, rlen, reads, shown, from, at>>
vars == <<memory, offsets, log_count, stats, writer, reader, history, disturbed>>

-----------------------------------------------------------------------------
(* The buffer: a cell is byte k of the entry n, whose length is l.         *)

Zero == <<0, 0, 0>>

\* Mutant: the offset wraps one place too late.
AtLate(o, k) == IF o + k > Size THEN o + k - Size ELSE o + k

At(o, k) == (o + k) % Size

get_available_space ==
    IF read_offset <= write_offset
    THEN Size - (write_offset - read_offset) - 1
    ELSE read_offset - write_offset - 1

\* The last byte of a header is the length.  Any other byte that is taken for
\* one is a byte of a time (anything) or of a text (a small number, not 0).
LengthAt(o) ==
    LET cell == memory[At(o, Header - 1)] IN
    IF cell = Zero THEN {0}
    ELSE IF cell[2] = Header THEN {cell[3]}
    ELSE IF cell[2] < Header THEN 0 .. MsgMax + 1 ELSE 1 .. MsgMax

Valid(l) == l \in 1 .. MsgMax

-----------------------------------------------------------------------------
(* The initial state: Dmesg_Init, which the root task calls first.         *)

Init ==
    /\ memory = [o \in 0 .. Size - 1 |-> Zero]
    /\ write_offset = 0 /\ read_offset = 0 /\ log_count = 0
    /\ total_writes = 0 /\ dropped_messages = 0
    /\ pc = [t \in Writer |-> "idle"] /\ len = [t \in Writer |-> 0]
    /\ eviction_count = [t \in Writer |-> 0] /\ off = [t \in Writer |-> 0]
    /\ stored = [t \in Writer |-> 0]
    /\ rpc = "idle" /\ roff = 0 /\ skip = 0 /\ left = 0 /\ text = <<>> /\ rlen = 0
    /\ written = <<>> /\ gone = 0 /\ forgot = FALSE /\ calls = 0 /\ reads = 0
    /\ shown = <<>> /\ from = 1 /\ at = 1 /\ disturbed = FALSE

-----------------------------------------------------------------------------
(* Dmesg_Write with write_entry_internal.                                  *)

Goto(t, place, next) == pc[t] = place /\ pc' = [pc EXCEPT ![t] = next]

Need(t) == Header + len[t]

\* History: the oldest entry leaves the log, or all do.
OldestLeaves ==
    /\ gone' = gone + 1
    /\ disturbed' = (disturbed \/ (rpc # "idle" /\ at = gone + 1))

AllLeave ==
    /\ gone' = Len(written) /\ forgot' = TRUE
    /\ disturbed' = (disturbed \/ rpc # "idle")

Call(t, l) ==
    /\ calls < MaxCalls
    /\ Goto(t, "idle", "test")
    /\ calls' = calls + 1
    /\ len' = [len EXCEPT ![t] = l]
    /\ eviction_count' = [eviction_count EXCEPT ![t] = 0]
    /\ UNCHANGED <<memory, offsets, log_count, stats, off, stored, reader, history, disturbed>>

\* The condition of the loop.
Test(t) ==
    /\ Goto(t, "test",
            IF get_available_space < Need(t) /\ log_count > 0 THEN "evict" ELSE "check")
    /\ UNCHANGED <<memory, offsets, log_count, stats, len, eviction_count, off, stored, calls,
                   reader, history, disturbed>>

\* evict_oldest_entry: nothing is evicted from a log that another writer has
\* emptied meanwhile, and an invalid length empties the log.
Evict(t) ==
    IF log_count = 0
    THEN /\ Goto(t, "evict", "guard")
         /\ UNCHANGED <<off, read_offset, log_count, dropped_messages, history, disturbed>>
    ELSE \E l \in LengthAt(read_offset) :
           IF Valid(l)
           THEN /\ Goto(t, "evict", "advance")
                /\ off' = [off EXCEPT ![t] = At(read_offset, Header + l)]
                /\ UNCHANGED <<read_offset, log_count, dropped_messages, history, disturbed>>
           ELSE /\ Goto(t, "evict", "guard")
                /\ read_offset' = write_offset
                /\ log_count' = 0
                /\ dropped_messages' = dropped_messages + 1
                /\ AllLeave
                /\ UNCHANGED <<off, written>>

Evicting(t) ==
    /\ Evict(t)
    /\ UNCHANGED <<memory, write_offset, total_writes, len, eviction_count, stored, calls, reader>>

\* Mutant: the header is not skipped.
AdvanceShort(t) ==
    /\ Goto(t, "advance", "count")
    /\ read_offset' = At(off[t], Size - Header)
    /\ OldestLeaves
    /\ UNCHANGED <<memory, write_offset, log_count, stats, len, eviction_count, off, stored,
                   calls, reader, written, forgot>>

Advance(t) ==
    /\ Goto(t, "advance", "count")
    /\ read_offset' = off[t]
    /\ OldestLeaves
    /\ UNCHANGED <<memory, write_offset, log_count, stats, len, eviction_count, off, stored,
                   calls, reader, written, forgot>>

\* Mutant: log_count is not updated.
CountNothing(t) ==
    /\ Goto(t, "count", "guard")
    /\ UNCHANGED <<memory, offsets, log_count, stats, len, eviction_count, off, stored, calls, reader,
                   history, disturbed>>

Count(t) ==
    /\ Goto(t, "count", "guard")
    /\ log_count' = (log_count - 1) % Word
    /\ UNCHANGED <<memory, offsets, stats, len, eviction_count, off, stored, calls, reader,
                   history, disturbed>>

\* The guard against an endless loop.
Guard(t) ==
    LET n == eviction_count[t] + 1 IN
    /\ eviction_count' = [eviction_count EXCEPT ![t] = n]
    /\ IF n > (log_count + Slack) % Word
       THEN /\ Goto(t, "guard", "idle")
            /\ write_offset' = 0 /\ read_offset' = 0 /\ log_count' = 0
            /\ dropped_messages' = dropped_messages + 1
            /\ AllLeave
       ELSE /\ Goto(t, "guard", "test")
            /\ UNCHANGED <<offsets, log_count, dropped_messages, gone, forgot, disturbed>>
    /\ UNCHANGED <<memory, total_writes, len, off, stored, calls, reader, written>>

\* The final check; without room the call returns DMESG_ERROR_BUFFER_FULL.
Check(t) ==
    /\ Goto(t, "check", IF get_available_space < Need(t) THEN "idle" ELSE "store")
    /\ dropped_messages' = dropped_messages + eviction_count[t]
    /\ off' = [off EXCEPT ![t] = write_offset]
    /\ stored' = [stored EXCEPT ![t] = 0]
    /\ UNCHANGED <<memory, offsets, log_count, total_writes, len, eviction_count, calls,
                   reader, history, disturbed>>

StoreByte(t) ==
    LET k == stored[t] + 1 IN
    /\ Goto(t, "store", IF k = Need(t) THEN "commit" ELSE "store")
    /\ memory' = [memory EXCEPT ![off[t]] = <<Len(written) + 1, k, len[t]>>]
    /\ off' = [off EXCEPT ![t] = At(@, 1)]
    /\ stored' = [stored EXCEPT ![t] = k]
    /\ UNCHANGED <<offsets, log_count, stats, len, eviction_count, calls, reader, history, disturbed>>

Commit(t) ==
    /\ Goto(t, "commit", "add")
    /\ write_offset' = off[t]
    /\ written' = Append(written, len[t])
    /\ UNCHANGED <<memory, read_offset, log_count, stats, len, eviction_count, off, stored,
                   calls, reader, gone, forgot, disturbed>>

\* max_entries_reached, which only follows log_count, is left out.
Add(t) ==
    /\ Goto(t, "add", "idle")
    /\ log_count' = (log_count + 1) % Word
    /\ total_writes' = total_writes + 1
    /\ UNCHANGED <<memory, offsets, dropped_messages, len, eviction_count, off, stored, calls,
                   reader, history, disturbed>>

\* Dmesg_Clear, which takes no step in between that a reader could notice.
Clear(t) ==
    /\ Clears /\ calls < MaxCalls
    /\ pc[t] = "idle"
    /\ calls' = calls + 1
    /\ write_offset' = 0 /\ read_offset' = 0 /\ log_count' = 0
    /\ AllLeave
    /\ UNCHANGED <<memory, stats, pc, len, eviction_count, off, stored, reader, written>>

Write(t) ==
    \/ Test(t) \/ Evicting(t) \/ Advance(t) \/ Count(t) \/ Guard(t) \/ Check(t)
    \/ StoreByte(t) \/ Commit(t) \/ Add(t)

-----------------------------------------------------------------------------
(* Dmesg_GetLogs and Dmesg_GetLatestN.                                     *)

MinOf(m, n) == IF m <= n THEN m ELSE n

ReaderGoto(place, next) == rpc = place /\ rpc' = next

Evicted == \E t \in Writer : pc[t] = "count"

\* A call begins at the oldest entry, or at one of the latest n.
Begin(first) ==
    /\ reads < MaxReads
    /\ reads' = reads + 1
    /\ shown' = <<>> /\ from' = first /\ at' = gone + 1

GetLogs ==
    /\ ReaderGoto("idle", "count")
    /\ Begin(gone + 1)
    /\ roff' = read_offset
    /\ skip' = 0
    /\ disturbed' = FALSE
    /\ UNCHANGED <<left, text, rlen>>

GetLogsCount ==
    /\ ReaderGoto("count", IF log_count = 0 THEN "idle" ELSE "header")
    /\ left' = log_count
    /\ disturbed' = (disturbed \/ Evicted)
    /\ UNCHANGED <<roff, skip, text, rlen, reads, shown, from, at>>

GetLatestN(n) ==
    /\ log_count > 0
    /\ ReaderGoto("idle", "offset")
    /\ left' = MinOf(n, log_count)
    /\ skip' = log_count - left'
    /\ Begin(gone + 1 + skip')
    /\ disturbed' = Evicted
    /\ UNCHANGED <<roff, text, rlen>>

GetLatestOffset ==
    /\ ReaderGoto("offset", "header")
    /\ roff' = read_offset
    /\ UNCHANGED <<skip, left, text, rlen, reads, shown, from, at, disturbed>>

\* Mutant: the entries to skip are not counted.
SkipForever ==
    /\ skip > 0
    /\ \E l \in LengthAt(roff) :
          IF Valid(l)
          THEN /\ ReaderGoto("header", "header")
               /\ roff' = At(roff, Header + l)
          ELSE ReaderGoto("header", "idle") /\ UNCHANGED roff
    /\ UNCHANGED <<skip, at, left, text, rlen, reads, shown, from, disturbed>>

\* An older entry is skipped, an invalid one ends the call.
Skip ==
    /\ skip > 0
    /\ \E l \in LengthAt(roff) :
          IF Valid(l)
          THEN /\ ReaderGoto("header", "header")
               /\ roff' = At(roff, Header + l)
               /\ skip' = skip - 1
               /\ at' = at + 1
          ELSE ReaderGoto("header", "idle") /\ UNCHANGED <<roff, skip, at>>
    /\ UNCHANGED <<left, text, rlen, reads, shown, from, disturbed>>

\* Mutant: the older entries are shown too.
ReadHeaderAtOnce ==
    /\ \E l \in LengthAt(roff) :
          IF Valid(l)
          THEN /\ ReaderGoto("header", "copy")
               /\ roff' = At(roff, Header)
               /\ rlen' = l
          ELSE ReaderGoto("header", "idle") /\ UNCHANGED <<roff, rlen>>
    /\ text' = <<>>
    /\ UNCHANGED <<skip, left, reads, shown, from, at, disturbed>>

ReadHeader ==
    /\ skip = 0
    /\ \E l \in LengthAt(roff) :
          IF Valid(l)
          THEN /\ ReaderGoto("header", "copy")
               /\ roff' = At(roff, Header)
               /\ rlen' = l
          ELSE ReaderGoto("header", "idle") /\ UNCHANGED <<roff, rlen>>
    /\ text' = <<>>
    /\ UNCHANGED <<skip, left, reads, shown, from, at, disturbed>>

\* msg_buf has room for every valid length, so nothing is truncated.
CopyByte ==
    /\ ReaderGoto("copy", IF Len(text) + 1 = rlen THEN "show" ELSE "copy")
    /\ text' = Append(text, memory[roff])
    /\ roff' = At(roff, 1)
    /\ UNCHANGED <<skip, left, rlen, reads, shown, from, at, disturbed>>

Show ==
    /\ ReaderGoto("show", IF left = 1 THEN "idle" ELSE "header")
    /\ shown' = Append(shown, text)
    /\ left' = left - 1
    /\ at' = at + 1
    /\ UNCHANGED <<roff, skip, text, rlen, reads, from, disturbed>>

ReaderStep ==
    /\ GetLogsCount \/ GetLatestOffset \/ Skip \/ ReadHeader \/ CopyByte \/ Show
    /\ UNCHANGED <<memory, offsets, log_count, stats, writer, history>>

ReaderCall ==
    /\ GetLogs \/ \E n \in Asked : GetLatestN(n)
    /\ UNCHANGED <<memory, offsets, log_count, stats, writer, history>>

-----------------------------------------------------------------------------

WriterNext(t) == (\E l \in Lengths : Call(t, l)) \/ Clear(t) \/ Write(t)

Next == (\E t \in Writer : WriterNext(t)) \/ ReaderCall \/ ReaderStep

Spec == Init /\ [][Next]_vars

\* The tasks are scheduled.
FairSpec == Spec /\ (\A t \in Writer : WF_vars(Write(t))) /\ WF_vars(ReaderStep)

-----------------------------------------------------------------------------
(* Properties                                                              *)

Offset == 0 .. Size - 1
Cell == {Zero} \cup ((Nat \ {0}) \X (1 .. Header + MsgMax) \X (1 .. MsgMax))

\* The variables have their types.  Every offset stays in the buffer whatever
\* the callers do, so the check in evict_oldest_entry never finds otherwise.
TypeOK ==
    /\ memory \in [Offset -> Cell]
    /\ write_offset \in Offset /\ read_offset \in Offset
    /\ log_count \in 0 .. Word - 1
    /\ total_writes \in Nat /\ dropped_messages \in Nat
    /\ pc \in [Writer -> {"idle", "test", "evict", "advance", "count", "guard", "check",
                          "store", "commit", "add"}]
    /\ len \in [Writer -> 0 .. MsgMax] /\ eviction_count \in [Writer -> Nat]
    /\ off \in [Writer -> Offset] /\ stored \in [Writer -> 0 .. Header + MsgMax]
    /\ rpc \in {"idle", "count", "offset", "header", "copy", "show"}
    /\ roff \in Offset /\ skip \in Nat /\ left \in Nat /\ rlen \in 0 .. MsgMax
    /\ text \in Seq(Cell) /\ Len(text) <= MsgMax
    /\ written \in Seq(1 .. MsgMax) /\ gone \in Nat /\ forgot \in BOOLEAN
    /\ calls \in 0 .. MaxCalls /\ reads \in 0 .. MaxReads
    /\ shown \in Seq(Seq(Cell)) /\ from \in Nat /\ at \in Nat /\ disturbed \in BOOLEAN

\* The entries that lie between the two offsets, found from header to header
\* the way the readers do; the offsets meet at the end of the last one.
Used == (write_offset - read_offset + Size) % Size

ParseLast[d \in 0 .. Used] ==       \* d: bytes from here to write_offset
    IF d = 0 THEN <<>>
    ELSE LET here == At(read_offset, Used - d)
             cell == memory[At(here, Header - 1)]
             cost == Header + cell[3]
         IN IF /\ cell # Zero /\ cost <= d
               /\ \A k \in 1 .. cost : memory[At(here, k - 1)] = <<cell[1], k, cell[3]>>
            THEN <<<<cell[1], cell[3]>>>> \o ParseLast[d - cost]
            ELSE <<Zero>>

Parsed == ParseLast[Used]

Numbered == {<<n, l>> : n \in 1 .. MaxCalls, l \in Lengths}
CostOf(e) == Header + e[2]

Log == INSTANCE LogService WITH
    Entry <- Numbered, Cost <- CostOf, Capacity <- Size - 1, log <- Parsed

\* While no two calls of writers overlap, what lies between the offsets is a
\* queue of whole entries, and each step of a call adds one, drops the oldest, drops all, or
\* changes nothing: headers and texts that wrap, evictions and the guard
\* included (dmesg.c:62-184).
RefinesLog == Log!Spec

\* While no two calls of writers overlap, log_count is between them the number
\* of entries in the log, and until the log is reset the statistics add up.
CountIsTrue ==
    (\A t \in Writer : pc[t] = "idle") =>
        /\ log_count = Len(written) - gone
        /\ forgot \/ total_writes = log_count + dropped_messages

\* A reader shows the entries that were asked for, from the oldest or from the
\* N-th latest on, whole and in order, although writes go on while it sleeps
\* between two entries, until an eviction reaches the entry it stands at, or
\* unless the call itself begins in the middle of one (dmesg.c:300-402).
ShownIsLog ==
    ~disturbed =>
        \A i \in 1 .. Len(shown) :
            LET n == from + i - 1 IN
            shown[i] = [k \in 1 .. written[n] |-> <<n, Header + k, written[n]>>]

\* Each call of a writer and each call of the reader returns, a disturbed
\* reader and a write that must evict included.
CallsReturn ==
    /\ \A t \in Writer : pc[t] # "idle" ~> pc[t] = "idle"
    /\ rpc # "idle" ~> rpc = "idle"
=============================================================================
