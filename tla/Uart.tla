-------------------------------- MODULE Uart --------------------------------
(***************************************************************************)
(* One port of the UART driver (M2_BSP/UART/uart_irq.c) with its two ring  *)
(* buffers (M5_Utils/RingBuffer/ring_buffer.c).  Tasks put bytes into the  *)
(* transmit ring and start the transmitter; the interrupt takes them out.  *)
(* The interrupt fills the receive ring and one task empties it.           *)
(*                                                                         *)
(* Nothing locks the rings: they rely on one writer and one reader each.   *)
(* But the transmit ring has two readers, StartTx in the tasks and the     *)
(* interrupt, and UARTx_InterruptHandler looks at TXRDY whatever raised    *)
(* it, so a received byte runs the transmit callback also while the        *)
(* transmit interrupt is disabled.  The interrupt preempts the tasks       *)
(* between any two accesses to shared data, and the tasks one another, so  *)
(* each access of a task is a step and the interrupt is one step.          *)
(***************************************************************************)
EXTENDS Integers, Sequences

CONSTANTS
    Writer,    \* the tasks that write to the port
    Size,      \* slots of the two rings (UARTx_TX_BUFFER_SIZE, 1024 or 2048)
    Loads,     \* bound: choices of the bytes that each writer writes and of
               \* the bytes that are received ("rx")
    Patience   \* ticks that UART_Driver_Write waits for a slot (10)

ASSUME UartAssumption ==
    /\ Size \in Nat \ {0, 1}
    /\ "rx" \notin Writer
    /\ Loads \subseteq [Writer \cup {"rx"} -> Nat]
    /\ Patience \in Nat

Slot == 0 .. Size - 1
Ring == {"tx", "rx"}

VARIABLES
    head, tail, slot,  \* the rings
    tx_busy,           \* the flag of the driver
    txie,              \* the transmit interrupt is enabled
    thr,               \* the transmit register, <<>> when TXRDY
    pc,                \* the next access of a writer
    idx,               \* its local copy of head in a Put, of tail in a Get
    data,              \* the byte that its Get has taken
    length, written,   \* bytes of its call, and how many of them it has put
    many,              \* the call is UART_Driver_Write, not ..._WriteByte
    tries,             \* ticks that it has waited for a slot
    rpc, ridx, rdata,  \* the same for the task that reads
    \* History, read by the properties and the bounds only:
    load,              \* the choice made for this behaviour
    made,              \* bytes that a writer has offered so far
    accepted,          \* bytes that were put into the transmit ring
    sent,              \* bytes that have left the transmit register
    meddled,           \* the transmit callback took a byte, or cleared tx_busy,
                       \* while its interrupt was disabled
    arrived, stored,   \* bytes received, and those put into the receive ring
    got                \* bytes that the reader has taken

rings == <<head, tail, slot>>
port == <<tx_busy, txie, thr, sent, meddled>>
call == <<length, written, many, tries>>
writers == <<pc, idx, data, call, load, made>>
reader == <<rpc, ridx, rdata, got>>
reception == <<arrived, stored>>
vars == <<rings, port, writers, accepted, reader, reception>>

-----------------------------------------------------------------------------
(* ring_buffer.c                                                           *)

\* Mutant: the index wraps one place too late.
WrapLate(i) == IF i > Size THEN 0 ELSE i

Wrap(i) == IF i = Size THEN 0 ELSE i
Full(r) == Wrap(head[r] + 1) = tail[r]
Empty(r) == head[r] = tail[r]

\* The places of the elements of a ring, oldest first, and the elements.
Count(r) == (head[r] - tail[r] + Size) % Size
Contents(r) == [k \in 1 .. Count(r) |-> slot[r][(tail[r] + k - 1) % Size]]

-----------------------------------------------------------------------------
(* The initial state: UART_Driver_Init.                                    *)

Zero == <<>>

Init ==
    /\ head = [r \in Ring |-> 0] /\ tail = [r \in Ring |-> 0]
    /\ slot = [r \in Ring |-> [i \in Slot |-> Zero]]
    /\ tx_busy = FALSE /\ txie = FALSE /\ thr = <<>>
    /\ pc = [w \in Writer |-> "idle"] /\ idx = [w \in Writer |-> 0]
    /\ data = [w \in Writer |-> Zero]
    /\ length = [w \in Writer |-> 0] /\ written = [w \in Writer |-> 0]
    /\ many = [w \in Writer |-> FALSE] /\ tries = [w \in Writer |-> 0]
    /\ rpc = "start" /\ ridx = 0 /\ rdata = Zero
    /\ load \in Loads /\ made = [w \in Writer |-> 0]
    /\ accepted = <<>> /\ sent = <<>> /\ meddled = FALSE
    /\ arrived = 0 /\ stored = <<>> /\ got = <<>>

-----------------------------------------------------------------------------
(* A writer: UART_Driver_WriteByte and UART_Driver_Write.                  *)

Goto(w, from, to) == pc[w] = from /\ pc' = [pc EXCEPT ![w] = to]

\* The byte in hand: a writer's bytes are numbered as it offers them.
Byte(w) == <<w, made[w] - length[w] + written[w] + 1>>

\* A call with n bytes.
Call(w, n, m) ==
    /\ Goto(w, "idle", "head")
    /\ made[w] + n <= load[w]
    /\ m \/ n = 1
    /\ made' = [made EXCEPT ![w] = @ + n]
    /\ length' = [length EXCEPT ![w] = n]
    /\ written' = [written EXCEPT ![w] = 0]
    /\ many' = [many EXCEPT ![w] = m]
    /\ tries' = [tries EXCEPT ![w] = 0]
    /\ UNCHANGED <<rings, port, idx, data, load, accepted, reader, reception>>

\* RingBuffer_Put: the next head is computed, then tail is read.
LoadHead(w) ==
    /\ Goto(w, "head", "room")
    /\ idx' = [idx EXCEPT ![w] = Wrap(head["tx"] + 1)]
    /\ UNCHANGED <<rings, port, data, call, load, made, accepted, reader, reception>>

\* Mutant: a full ring is not noticed.
HasRoomAlways(w) ==
    /\ Goto(w, "room", "store")
    /\ UNCHANGED <<rings, port, idx, data, call, load, made, accepted, reader, reception>>

HasRoom(w) ==
    /\ idx[w] # tail["tx"]
    /\ Goto(w, "room", "store")
    /\ UNCHANGED <<rings, port, idx, data, call, load, made, accepted, reader, reception>>

\* No room: WriteByte gives up, Write sleeps a tick.
NoRoom(w) ==
    /\ idx[w] = tail["tx"]
    /\ Goto(w, "room", IF many[w] THEN "wait" ELSE "idle")
    /\ UNCHANGED <<rings, port, idx, data, call, load, made, accepted, reader, reception>>

Retry(w) ==
    /\ Goto(w, "wait", "head")
    /\ tries[w] < Patience
    /\ tries' = [tries EXCEPT ![w] = @ + 1]
    /\ UNCHANGED <<rings, port, idx, data, length, written, many, load, made,
                   accepted, reader, reception>>

\* The time is up; what was put is started.  A task that was kept from
\* running may find so at its first look.
GiveUp(w) ==
    /\ Goto(w, "wait", IF written[w] > 0 THEN "test" ELSE "idle")
    /\ UNCHANGED <<rings, port, idx, data, call, load, made, accepted, reader, reception>>

\* The byte goes where head points now.
Store(w) ==
    /\ Goto(w, "store", "commit")
    /\ slot' = [slot EXCEPT !["tx"][head["tx"]] = Byte(w)]
    /\ UNCHANGED <<head, tail, port, idx, data, call, load, made, accepted, reader, reception>>

Commit(w) ==
    /\ Goto(w, "commit", IF written[w] + 1 = length[w] THEN "test" ELSE "head")
    /\ head' = [head EXCEPT !["tx"] = idx[w]]
    /\ written' = [written EXCEPT ![w] = @ + 1]
    /\ tries' = [tries EXCEPT ![w] = 0]
    /\ accepted' = Append(accepted, Byte(w))
    /\ UNCHANGED <<tail, slot, port, idx, data, length, many, load, made, reader, reception>>

-----------------------------------------------------------------------------
(* UART_Driver_StartTx in a writer.                                        *)

Test(w) ==
    /\ Goto(w, "test", IF tx_busy THEN "idle" ELSE "tail")
    /\ UNCHANGED <<rings, port, idx, data, call, load, made, accepted, reader, reception>>

\* RingBuffer_Get.
LoadTail(w) ==
    /\ Goto(w, "tail", "any")
    /\ idx' = [idx EXCEPT ![w] = tail["tx"]]
    /\ UNCHANGED <<rings, port, data, call, load, made, accepted, reader, reception>>

NotEmpty(w) ==
    /\ Goto(w, "any", IF idx[w] = head["tx"] THEN "idle" ELSE "take")
    /\ UNCHANGED <<rings, port, idx, data, call, load, made, accepted, reader, reception>>

Take(w) ==
    /\ Goto(w, "take", "release")
    /\ data' = [data EXCEPT ![w] = slot["tx"][idx[w]]]
    /\ UNCHANGED <<rings, port, idx, call, load, made, accepted, reader, reception>>

Release(w) ==
    /\ Goto(w, "release", "busy")
    /\ tail' = [tail EXCEPT !["tx"] = Wrap(idx[w] + 1)]
    /\ UNCHANGED <<head, slot, port, idx, data, call, load, made, accepted, reader, reception>>

\* The byte is sent if the transmit register is empty, else it is dropped.
SetBusy(w) ==
    /\ Goto(w, "busy", "ready")
    /\ tx_busy' = TRUE
    /\ UNCHANGED <<rings, txie, thr, sent, meddled, idx, data, call, load, made,
                   accepted, reader, reception>>

Ready(w) ==
    /\ Goto(w, "ready", IF thr = <<>> THEN "send" ELSE "enable")
    /\ UNCHANGED <<rings, port, idx, data, call, load, made, accepted, reader, reception>>

Send(w) ==
    /\ Goto(w, "send", "enable")
    /\ thr' = <<data[w]>>
    /\ UNCHANGED <<rings, tx_busy, txie, sent, meddled, idx, data, call, load, made,
                   accepted, reader, reception>>

\* Mutant: the interrupt is not enabled.
EnableNothing(w) ==
    /\ Goto(w, "enable", "idle")
    /\ UNCHANGED <<rings, tx_busy, txie, thr, sent, meddled, idx, data, call, load, made,
                   accepted, reader, reception>>

Enable(w) ==
    /\ Goto(w, "enable", "idle")
    /\ txie' = TRUE
    /\ UNCHANGED <<rings, tx_busy, thr, sent, meddled, idx, data, call, load, made,
                   accepted, reader, reception>>

Step(w) ==
    \/ LoadHead(w) \/ HasRoom(w) \/ NoRoom(w) \/ Retry(w) \/ GiveUp(w)
    \/ Store(w) \/ Commit(w) \/ Test(w) \/ LoadTail(w) \/ NotEmpty(w) \/ Take(w)
    \/ Release(w) \/ SetBusy(w) \/ Ready(w) \/ Send(w) \/ Enable(w)

-----------------------------------------------------------------------------
(* The hardware and UARTx_InterruptHandler, which preempts the writers.    *)

TXRDY == thr = <<>>

\* A task does not run before a pending interrupt has.
Pending == txie /\ TXRDY

Shift ==
    /\ ~TXRDY
    /\ sent' = sent \o thr
    /\ thr' = <<>>
    /\ UNCHANGED <<rings, tx_busy, txie, meddled, writers, accepted, reader, reception>>

\* UART_TX_Callback.
TxNext ==
    /\ TXRDY /\ ~Empty("tx")
    /\ thr' = <<slot["tx"][tail["tx"]]>>
    /\ tail' = [tail EXCEPT !["tx"] = Wrap(@ + 1)]
    /\ meddled' = (meddled \/ ~txie)
    /\ UNCHANGED <<tx_busy, txie, sent>>

\* Mutant: tx_busy is left set.
TxDoneBusy ==
    /\ TXRDY /\ Empty("tx")
    /\ txie' = FALSE
    /\ UNCHANGED <<tx_busy, tail, thr, sent, meddled>>

TxDone ==
    /\ TXRDY /\ Empty("tx")
    /\ txie' = FALSE
    /\ tx_busy' = FALSE
    /\ meddled' = (meddled \/ (~txie /\ tx_busy))
    /\ UNCHANGED <<tail, thr, sent>>

TxNotReady == ~TXRDY /\ UNCHANGED <<tail, port>>

TxInterrupt ==
    /\ Pending
    /\ TxNext \/ TxDone
    /\ UNCHANGED <<head, slot, writers, accepted, reader, reception>>

\* UART_RX_Callback: the byte is put, finds no room, or has an error and is
\* flushed.
\* Mutant: a full ring is not noticed.
RxPutAlways ==
    /\ slot' = [slot EXCEPT !["rx"][head["rx"]] = <<"rx", arrived + 1>>]
    /\ head' = [head EXCEPT !["rx"] = Wrap(@ + 1)]
    /\ stored' = Append(stored, <<"rx", arrived + 1>>)

RxPut ==
    /\ ~Full("rx")
    /\ slot' = [slot EXCEPT !["rx"][head["rx"]] = <<"rx", arrived + 1>>]
    /\ head' = [head EXCEPT !["rx"] = Wrap(@ + 1)]
    /\ stored' = Append(stored, <<"rx", arrived + 1>>)

RxLost == Full("rx") /\ UNCHANGED <<slot, head, stored>>

RxError == UNCHANGED <<slot, head, stored>>

\* A byte arrives; the handler then looks at TXRDY as well.
RxInterrupt ==
    /\ arrived < load["rx"]
    /\ RxPut \/ RxLost \/ RxError
    /\ arrived' = arrived + 1
    /\ TxNext \/ TxDone \/ TxNotReady
    /\ UNCHANGED <<writers, accepted, reader>>

-----------------------------------------------------------------------------
(* The reader: UART_Driver_ReadByte with RingBuffer_Get.                   *)

ReaderGoto(from, to) == rpc = from /\ rpc' = to

\* tail is the reader's own, so reading it with head is one step.
ReadNotEmpty ==
    /\ ~Empty("rx")
    /\ ReaderGoto("start", "take")
    /\ ridx' = tail["rx"]
    /\ UNCHANGED <<rdata, got, rings>>

ReadTake ==
    /\ ReaderGoto("take", "release")
    /\ rdata' = slot["rx"][ridx]
    /\ UNCHANGED <<ridx, got, rings>>

ReadRelease ==
    /\ ReaderGoto("release", "start")
    /\ tail' = [tail EXCEPT !["rx"] = Wrap(ridx + 1)]
    /\ got' = Append(got, rdata)
    /\ UNCHANGED <<ridx, rdata, head, slot>>

Read ==
    /\ ~Pending
    /\ ReadNotEmpty \/ ReadTake \/ ReadRelease
    /\ UNCHANGED <<port, writers, accepted, reception>>

-----------------------------------------------------------------------------

Write(w) ==
    /\ ~Pending
    /\ \/ \E n \in 1 .. load[w] : \E m \in BOOLEAN : Call(w, n, m)
       \/ Step(w)

Next ==
    \/ \E w \in Writer : Write(w)
    \/ Shift \/ TxInterrupt \/ RxInterrupt \/ Read

Spec == Init /\ [][Next]_vars

\* The tasks are scheduled; the port sends and raises its interrupt.
Fairness ==
    /\ \A w \in Writer : WF_vars(~Pending /\ Step(w))
    /\ WF_vars(Shift) /\ WF_vars(TxInterrupt)

FairSpec == Spec /\ Fairness

-----------------------------------------------------------------------------
(* Properties                                                              *)

WriterPlace == {"idle", "head", "room", "wait", "store", "commit", "test", "tail", "any",
          "take", "release", "busy", "ready", "send", "enable"}
ByteValue == (Writer \X Nat) \cup ({"rx"} \X Nat) \cup {Zero}

\* The variables have their types; above all, an index is always in range.
TypeOK ==
    /\ head \in [Ring -> Slot] /\ tail \in [Ring -> Slot]
    /\ slot \in [Ring -> [Slot -> ByteValue]]
    /\ tx_busy \in BOOLEAN /\ txie \in BOOLEAN
    /\ thr \in Seq(ByteValue) /\ Len(thr) <= 1
    /\ pc \in [Writer -> WriterPlace] /\ idx \in [Writer -> Slot]
    /\ data \in [Writer -> ByteValue]
    /\ length \in [Writer -> Nat] /\ written \in [Writer -> Nat]
    /\ many \in [Writer -> BOOLEAN] /\ tries \in [Writer -> 0 .. Patience]
    /\ rpc \in {"start", "take", "release"} /\ ridx \in Slot
    /\ rdata \in ByteValue
    /\ load \in Loads /\ made \in [Writer -> Nat] /\ arrived \in Nat
    /\ accepted \in Seq(ByteValue) /\ sent \in Seq(ByteValue)
    /\ stored \in Seq(ByteValue) /\ got \in Seq(ByteValue)
    /\ meddled \in BOOLEAN

\* The writer is bound to start the transmitter, or is doing so.
Sure(w) ==
    \/ pc[w] \in {"test", "tail", "take", "release", "busy", "ready", "send", "enable"}
    \/ pc[w] = "any" /\ idx[w] # head["tx"]
    \/ pc[w] \in {"head", "room", "wait", "store", "commit"} /\ written[w] > 0

\* Bytes never lie in the transmit ring with the interrupt disabled and no
\* writer about to enable it: however StartTx of several writers, the
\* transmit interrupt and the receive interrupt interleave, transmission
\* does not stall (uart_irq.c:126-132 and 228-246).
NoStall == ~Empty("tx") => txie \/ \E w \in Writer : Sure(w)

Solo == \E w \in Writer : \A v \in Writer \ {w} : load[v] = 0

InHand ==
    IF \E w \in Writer : pc[w] \in {"busy", "ready", "send"}
    THEN <<data[CHOOSE w \in Writer : pc[w] \in {"busy", "ready", "send"}]>> ELSE <<>>

\* With one writer, and as long as no received byte has run the transmit
\* callback in the middle of StartTx or of a Put, every byte that was put is
\* sent once and in order.
SoloInOrder ==
    Solo /\ ~meddled => accepted = sent \o thr \o InHand \o Contents("tx")

\* The receive ring, with one writer and one reader and no lock, loses and
\* repeats nothing that was put into it (ring_buffer.c:28-74).
ReceivedInOrder == stored = got \o Contents("rx")

\* When the writers are done, the port has sent what is in its ring and is
\* idle with its interrupt disabled.
GoesIdle == <>[](Empty("tx") /\ TXRDY /\ ~txie /\ ~tx_busy)
=============================================================================
