# Verification project: 4USamV71 payload firmware

Models of the control logic of the payload-controller firmware in `src/`
(SAMV71, FreeRTOS), the TLC runs that check them and the TLAPS theorems about
them. Paths below are relative to `src/src/dev` unless they start with
`docs/`; "TLC" and "TLAPS" name the tool that a statement rests on.

## 1. Inventory

The firmware is one FreeRTOS image. `M0_App` holds the tasks, `M1_SysApp` the
protocols and services, `M2_BSP` and `M3_Driver` the board, `M4_Middlewares`
vendored stacks (FreeRTOS, libcsp, LwIP, TinyUSB), `M5_Utils` small libraries.
`M0_App/AppOS/App_x_Root/app_root.c:66-82` starts the tasks.

| Component | State | Operations | What makes it correct |
|---|---|---|---|
| **xTP ARQ** `M1_SysApp/xtp/xtp_arq.c`, lock and dispatch of `xtp.c` | `xTP_ARQ_t`: sequence numbers, two answer flags, the pending frame | `xTP_ARQ_Send` (blocking retry loop), `OnReceive` for data, ACK, NACK, RST, `SendNack` | messages are never delivered out of order, an ACK is counted once, a call returns, the line does not answer itself for ever |
| **xTP decoder** `xtp.c:238-562`, `xtp_ecc.c` | decode state, length, CRC and ECC context | one byte at a time, timeout | a frame is accepted only whole; a repair restores what was sent; the decoder recovers after noise |
| xTP segmentation `xtp_seg.c` | compiled out (`XTP_USE_SEG 0`) | - | - |
| xCLI `M1_SysApp/xcli`, task `App_3_XTP` | request context, response buffer | request dispatch, fragmented responses, reboot | one answer per request; a response fits its frame |
| **Shell tunnel** `M1_SysApp/rparam/sh_handler.c` | parameter table 1, queue of one command, stop flag, output buffer | SET callback (CSP task): command, stop, page; worker task: run, capture, publish | the table never announces a result that is not in it; commands end in order; only a stop request kills one |
| **RPARAM server** `M1_SysApp/rparam/rparam_server.c` | parameter tables | GET in fragments, SET, table specification | a GET returns every row once, and the rows of one result |
| **DLS experiment** `M0_App/AppOS/App_dls_exp` | sample buffers and their queues, phase timer, PSRAM addresses | RUN command, phase ticks, sampling interrupts, flush, PSRAM writer | no buffer is in two places; a run is stored whole and in order; the laser is lit in the main phase only; a run ends |
| **Temperature control** `M0_App/AppOS/App_6_Temperature_Control`, `Database/DB_Temperature_Profile` | eight profile machines, their timers, shared heaters and coolers | AUTO, START, MANUAL commands, 100 ms tick | a profile walks its steps for their durations; outputs are off when none runs; two profiles do not drive one output; a stop is obeyed |
| Profile configuration `M2_BSP/BSP_Temperature`, `cli_temperature.c` | draft of a profile, number of its steps | set fields and steps, save, cancel | a saved profile has the steps that were set, no more |
| PID `pid.c` | integral, previous measurement | `pid_init`, `pid_compute` | output in range, no integral wind-up |
| **UART driver** `M2_BSP/UART`, `M5_Utils/RingBuffer` | rings, `tx_busy` | put, `StartTx`, RX and TX interrupts | bytes leave in order and once; transmission never stalls |
| **Dmesg** `M1_SysApp/dmesg` | byte ring of entries | write with eviction, read, iterate | the reader sees whole entries; the oldest are evicted first |
| Task monitor `M0_App/OS/os.c` | check-in table | check-in, 100 ms scan | a task that stops checking in is reported |
| Control and network tasks `App_4_CTRL`, `App_3_CSP`, `App_3_Network` | CSP routes, parameter tables | packet loops | - |
| CLI `M1_SysApp/EmbeddedCLI`, `App_3_CLI` | session, bindings | console commands | - |
| Logging, alive, syslog, data transfer tasks; boot manager; LWL, xlog, evt, FastIPC | small | periodic work, logging | - |
| Board support and drivers `M2_BSP`, `M3_Driver` | device registers | read and write devices | - |
| Vendored: `M4_Middlewares`, nanopb, `src/src/config` | - | - | - |

How they interact. Bytes from the ground station reach `xTP_Process` in the
XTP task, which answers with ACKs, dispatches requests to xCLI and sends the
responses. CSP packets reach the RPARAM server in the CSP task; a SET runs
`sh_table1_callback` there, which feeds the shell worker through a queue of one
element and a flag, and both tasks write the same table without a lock. `dls_start`
on a console puts RUN in a queue that the experiment task polls; from
there on timer and SPI interrupts own the run and hand buffers to the PSRAM
task through queues. Every task writes to Dmesg without a lock, and a console reads it while it prints
through a UART, whose rings the tasks share with the interrupt. Temperature commands go through one queue per profile to
the temperature task, whose eight machines drive the same two heaters and
coolers.

What is hard here: two sides of a link that time out against each other
(xTP); a byte stream that can be cut anywhere (decoder); two tasks that share a table and a
flag (shell tunnel), and a third party that reads it in pieces (RPARAM); rings without locks
that tasks and interrupts share (UART), or that a slow reader walks while they are
overwritten (Dmesg); three interrupts
and two tasks that share buffers (experiment); commands that arrive while the
last one is still under way (all three); eight machines on shared outputs
(temperature). `PROJECT.json` lists each hazard at its line.

## 2. Modules

| Module | Models |
|---|---|
| `ArqService` | abstract: what an ARQ link promises |
| `XtpArq` | `xtp_arq.c` on both ends of a line |
| `XtpArq_proofs` | the theorems about it |
| `MCXtpArq` | loads for TLC |
| `XtpDecoder` | `xtp.c`: `xTP_SendEx`, `xTP_Read`, `xTP_Process`, byte by byte |
| `XtpDecoder_proofs` | the theorems about it |
| `MCXtpDecoder` | two frames for TLC |
| `XtpEcc` | `xtp_ecc.c`, bit by bit |
| `XtpEcc_proofs` | the theorems about it |
| `MCXtpEcc` | blocks for TLC |
| `ShellService` | abstract: what the shell tunnel promises |
| `ShellTunnel` | `sh_handler.c`: SET callback and worker |
| `MCShellTunnel` | instances for TLC |
| `RparamServer` | `rparam_server.c` and `serialize.c`, composed with `ShellTunnel` |
| `RparamServer_proofs` | the theorems about it and about `ShellTunnel` |
| `MCRparamServer` | the real tables for TLC |
| `DlsExp` | `app_dls_exp.c`: tasks and interrupts |
| `DlsExp_proofs` | the theorems about it |
| `MCDlsExp` | instances for TLC |
| `ProfileSM` | `profile_state.c`, `app_temperature.c`, `sw_timer.c`, `db_temperature_profile.c` |
| `ProfileSM_proofs` | the theorems about it |
| `MCProfileSM` | instances for TLC |
| `Uart` | `uart_irq.c` with `ring_buffer.c` |
| `Uart_proofs` | the theorems about it |
| `MCUart` | instances for TLC |
| `LogService` | abstract: what the log promises when calls do not overlap |
| `Dmesg` | `dmesg.c` |
| `Dmesg_proofs` | the theorems about it |
| `MCDmesg` | instances for TLC |

Operators whose comment starts with "Mutant:" are deliberately wrong variants of
the action that follows them. No specification uses them: substituting one
breaks the property that `PROJECT.json` pairs with it, which shows that the
property can fail.

### 2.1 XtpArq

Node 0 and node 1 run the same library. `call[n]` and `retries[n]` are the local
state of `xTP_ARQ_Send`; `arq[n]` is `xTP_ARQ_t`; `wire[n]` are the frames under
way to `n`, in order (a serial line does not reorder).

| Code | Actions |
|---|---|
| entry of `xTP_ARQ_Send` and first transmission | `StartSend` |
| its loop: ACK, NACK, timeout | `SeeAck`, `SeeNack`, `Timeout`, which end in `Retransmit` or `GiveUp` |
| `xTP_Process` with a whole frame | `RxData`, `RxAck`, `RxNack`, `RxRst`; `RxCorrupt` when the CRC fails |
| the line; also an `xTP_SendEx` that is refused (in the firmware as built the transmit buffer has room for every frame) | `Lose` |
| a remote station that sends RST | `RemoteRst` |

The loop reads the two flags and the clock one after the other while another
task may set a flag, so each look is an action with only its own guard: a
timeout can be taken while an ACK is already flagged. The timeout may expire at
any moment: a frame of 269 bytes needs about 269 ms of the receiver's
one-byte-per-millisecond loop (`app_xtp.c:204-207`) of the 300 ms allowed.
Frames are whole: the byte decoder is not in this model. `tx`, and `tx` of an
ACK, `last`, `copies`, `seen`, `ackTx`, `used` and `clean` are history.

In the repository `xTP_ARQ_Send` is called by `xCLI_SendRequest` only, which
nothing on the board calls: it is for the station that commands the board. The
library is symmetric, so either end makes calls here, `MaxSends` of them in all.

### 2.2 ShellTunnel

`table` is parameter table 1 as far as the tunnel uses it, `queue` and `stopReq`
are `g_queue` and `g_stop_req`, `buf` is `g_out` with its length, `pc` the next
statement of the worker.

| Code | Actions |
|---|---|
| `sh_table1_callback` | `SetPage`, `SetStop`, `SetCommand` |
| `sh_worker_task` | `Receive`, `Check` |
| `do_exec` | `Begin`, `ResetOutput`, `WriteChar`, `Return`, `Flag`, `StopRows`, `Publish` |

The CSP task has the higher priority and the callback does not block, so the
callback is one step between any two steps of the worker, and every write of
the worker to the table is a step of its own. Where it fills the row `out`, the
`strncpy` of `t1_set_str` goes one character at a time (`Copy`, `copied`), so a page
select, a stop, or a GET of the server can fall anywhere into the copy. The library's
`strncpy` may move several characters at once; that is some of these steps in a row. A character
is known by its command and its place in the output, so that what is mixed shows. The
master writes `ex` and `page` only; writes to the other rows, which the server
does not refuse, are not modelled. `accepted`, `hit` are history.

### 2.3 DlsExp

| Code | Actions |
|---|---|
| `CMD_DLS_start` | `Command` |
| `App_EXPTask`, `exp_setup`, `exp_start` | `TakeCommand`, `ResetAddresses`, `ResetTimes`, `AllOff`, `ResetIndices`, `Start` |
| `SPI0_Handler`, `TC3_CH2_My_Handler` | `Sample` |
| `TC3_CH1_My_Handler` with `adc_flush_last_buffer` | `TickPre`, `TickMain`, `TickPost`, `TickDone` |
| `APP_PSRAMTask` | `PollTimeout`, `Poll`, `Store` |

Interrupt handlers are single steps: priorities 4 and 5
(`src/src/config/default/peripheral/nvic/plib_nvic.c:77-92`) let the laser
handler preempt the two others, with which it shares only what they touch once
`sampling_enable` is cleared. `exp_setup` is split at the writes a tick can fall
between. The PSRAM task preempts the experiment task, so the latter moves only
while the PSRAM task waits on an empty queue. A block stands for 512 samples.
Whether the PSRAM task runs is the constant `PsramRuns`: the creation of that task is commented
out (`app_root.c:77`), although `docs/testing/17_experiment.md:47` has the data of a run inspected in
PSRAM. The run has the task, as it brings in more interleavings, but assumes no fairness of it:
each behaviour in which it never takes a buffer is one of those that are checked.
`run`, `filled`, `block`, `calm`, `overrun`, `starved`, `announced` are history. A run is `calm`
when it began with the timer stopped, sampling off and no block of an earlier run in a queue.

### 2.4 ProfileSM

`db` are the stored profiles; the machines work on them in place
(`myProfileState[i].data` points into the table), so a save takes effect in the
middle of a step. `machine[p]` is a `ProfileState_t`, `out` the channels whose duty
is not zero, `queue[p]` the command queue of a profile, `turn` and `at` the task's
place in its loop.

| Code | Actions and operators |
|---|---|
| `temp_auto_ena`, `temp_auto_start`, `temp_manu` | `Send` |
| `DB_temp_profile_write` | `SaveMasks`, `SaveSteps` |
| loop of `App_TemperatureTask` | `NoCommand`; `Validate` then `Enable`; `Start`; `Stop`; `Tick`; `Delay` |
| `profileSM_handle_event` | `HandleEvent`, with one operator for each `enter_` function |
| `do_` functions | `Do`, with `Drive` for the duties and `DoSoak` for the timer |
| `sw_timer_tick`, `_start`, `_stop` | `Ticked`, `Running`, `Stopped`; `Elapsed` is the time of a round |

The console task has the same priority as the temperature task, which does not block
between its delays, so the two are interleaved by time slices: a save may fall between
validation and enabling, and between two statements of the structure copy, which the
model splits once, after the masks. The handling of one event, and the comparison of all
profiles in `DB_temp_profile_validation`, are single steps.

Temperatures are not in the state. Whether the measurement lies below the set point, lies
within the soak band, or makes the PID give a duty above zero is a choice at each
comparison. A step index past the array reads any step or a mode that does not exist
(`Garbage`). `profileData_t.enabled` and `.start`, which the task never reads, the PID log
and the wizard, which no command starts, are left out. `edited`, `held`, `sent`, `saves`
are history: `held[p]` counts the rounds for which what a step waits for holds.

### 2.5 XtpDecoder and XtpEcc

`XtpDecoder` has the bytes that `XtpArq` takes as whole frames. The sender writes `Frames`
with `xTP_SendEx`; the line loses, changes and inserts bytes; the decoder polls.

| Code | Actions and operators |
|---|---|
| `xTP_SendEx` | `Wire` (the frame), `SendByte` |
| the line and the clock | `Lose`, `Change`, `Insert`, `Tick` |
| `xTP_Process` | `PollByte`, `PollTimeout` |
| states of `xTP_Read` | `Start1`, `Start2`, `Header`, `Length`, `Data`, `Ecc`, `Crc1`, `Crc2`, `Stop1`, `Stop2` |
| `xTP_ECC_Decode` | `Corrections` |

A byte is a number or a check byte, which carries what it was computed over. The decoder
compares the CRC by value (`xtp.c:441-443`), and so does `CrcMatches`: two check bytes that a sender computed
over the same bytes match exactly if these are the bytes that the decoder has read (collisions of
the CRC are left out); where one of the two is right and the other was changed they do not; any other
two bytes, of data, of noise or of two frames, may match or not. So a whole frame that the data of another one
spells out is accepted when the start of the outer one is lost, and `CheckedIsSent` is about
frames under check bytes that a sender computed (`checked`). Where a check byte is read as a start byte, a length or a stop byte it may have any
of a few values (`Chance`), since its value is then as good as random. `Corrections` is what
the correcting code may leave, an abstraction of `xTP_ECC_Decode` that `XtpEcc` justifies: there
a byte is the set of its bits that are 1, `lf_sr` shifts them and flips the taps, `Encode` is a
turn of the loop of `xTP_ECC_Encode` on both ends, `Compare` forms the syndromes, `Zero`,
`Rotate`, `GiveUp` and `Correct` are the cases and the loop of the decoder, turn by turn. `faults`, `harm`, `before`, `quiet` are history: `harm`
says what happened to the frame being sent. A first byte that is changed within 192..207 still
starts the frame, so that is no damage. A frame of which the start, type or length is changed
counts as damaged beyond prediction: the decoder then searches the rest of it for another
frame, and the data of a frame may hold anything, a whole valid frame included.

### 2.6 RparamServer

Extends `ShellTunnel`: the master's `SetPage`, `SetStop`, `SetCommand` become the items of a
SET, and the worker's steps fall only into the pauses of the server.

| Code | Actions |
|---|---|
| `handle_get`, whole table | `GetTable`, then `Fragment` for each packet, or `Break` |
| `handle_get`, listed addresses | `GetList` |
| `handle_set`, `gs_param_deserialize`, the callback of table 1 | `SetBegin`, `SetItem`, `SetEnd` |
| `vTaskDelay`, or waiting for a packet | `WorkerRuns` |

The CSP task has the higher priority, so a fragment, and a SET with all its items, is not
interrupted by the worker, whose copy of a page may be cut by it at any character. Rows have
their real names and sizes; what the row `out` shows is scaled to three characters.

### 2.7 Uart

One port. `head`, `tail`, `slot` are the two rings, `thr` the transmit register, `txie` the
interrupt mask. `pc[w]` is the next access of a writer to shared data.

| Code | Actions |
|---|---|
| `UART_Driver_Write`, `_WriteByte` | `Call`, `Retry`, `GiveUp`, `NoRoom` |
| `RingBuffer_Put` | `LoadHead`, `HasRoom`, `Store`, `Commit` |
| `UART_Driver_StartTx` with `RingBuffer_Get` | `Test`, `LoadTail`, `NotEmpty`, `Take`, `Release`, `SetBusy`, `Ready`, `Send`, `Enable` |
| `UART_TX_Callback` | `TxNext`, `TxDone`, `TxNotReady` |
| `UART_RX_Callback` | `RxPut`, `RxLost`, `RxError` |
| `UART_Driver_ReadByte` | `ReadNotEmpty`, `ReadTake`, `ReadRelease` |
| the hardware | `Shift`, and when `TxInterrupt` and `RxInterrupt` may happen |

The interrupt is one step and comes before any step of a task once it is pending. The
handler calls the transmit callback whenever TXRDY is set, also when a received byte raised
it, so `RxInterrupt` contains the transmit actions. Not modelled: `UART_Driver_FlushTx`, `_FlushRx` and
`_Flush` (`uart_irq.c:450-506`), which reset the rings, `tx_busy` and the interrupt mask while the
interrupts run, and the polling writes (`:554-580`). Nothing in the repository calls them; a call
of them would void `NoStall`, `SoloInOrder` and `ReceivedInOrder`, which say nothing about flushed bytes. `load`, `made`, `accepted`, `sent`, `meddled`,
`arrived`, `stored`, `got` are history.

### 2.8 Dmesg

| Code | Actions |
|---|---|
| `Dmesg_Write`, `write_entry_internal` | `Call`, `Test`, `Evicting`, `Advance`, `Count`, `Guard`, `Check`, `StoreByte`, `Commit`, `Add` |
| `Dmesg_Clear` | `Clear` |
| `Dmesg_GetLogs`, `Dmesg_GetLatestN` | `GetLogs`, `GetLogsCount`, `GetLatestN`, `GetLatestOffset`, `Skip`, `ReadHeader`, `CopyByte`, `Show` |

A cell of the buffer says of which entry it is which byte. A reader takes the byte at its
offset for a length: if it is the length of a header it is that; if it is a byte of a time or
of a text it is any value such a byte can have. `log_count` is a machine word. The early return of `evict_oldest_entry` at an empty log, and that at a
meaningless length, are only reached when writers overlap, which the run does not have; the
proof of `TypeOK` covers them. The refinement
mapping of `RefinesLog` is the function `Parsed`: the entries found from header to header
between the offsets, so it reads the buffer and not the history.

## 3. Runs

| Run | Expect | Question |
|---|---|---|
| `xtp_main` | pass | a requester and a station that answers, both of which send; loss, corruption, a reset: order, ACKs counted once, XTP_OK true of clean calls, bounded executions, `ArqService` implemented, calls return, the line falls silent |
| `xtp_ok` | violation | XTP_OK means that the data was delivered |
| `decoder_main` | pass | two frames over a faulty line: what is accepted unrepaired under a sender's check bytes was sent, one wrong byte is repaired or refused, a timeout means silence, the decoder recovers |
| `ecc_main` | pass | blocks with up to two wrong bytes: what the correcting code makes of each |
| `ecc_two` | violation | two wrong bytes are detected and not corrected |
| `shell_main` | pass | three commands, stops and page selects at any moment, also within the copy of a page |
| `rparam_main` | pass | GETs in fragments and SETs against the worker, also within its copy of a page: every row once, one result per answer |
| `dls_main` | pass | two RUN commands at any moment, one stream, a PSRAM task that may run |
| `temp_main` | pass | two profiles, commands and a save at any moment: outputs, step durations, stops, ends |
| `temp_others` | violation | a profile that runs keeps its outputs while others run |
| `uart_main` | pass | one or two writers, both interrupts, a reader: no stall, order, the port goes idle |
| `dmesg_main` | pass | a writer that evicts, a reader that walks: `LogService` implemented, counts, what is shown |

### Bounds

* `xtp_*`: one retry (the loop body is the same for each of the three), sequence
  numbers modulo 2 (so that they wrap; the code never compares them), two calls,
  of one node or of both, a node whose handler replies, one loss or corruption, one RST. Late ACKs, duplicates,
  crossing requests and a stale ACK that ends a later call all occur.
* `decoder_main`: two frames, of which the first carries a byte that looks like a start byte;
  two faults, so that a frame can lose its end and the next its beginning; values of
  misread check bytes include the four framing bytes, 0 and a small length; a changed or
  inserted byte is 1 or 193, of which the latter starts a frame; a timeout of one tick.
* `ecc_main`: blocks of 1, 2, 100, 254 and 255 bytes, each with errors at the first and last
  two places, one in the middle and the check bytes. The data are bytes that are all 0 and bytes
  that count from 1. The code is linear: what it does depends on the errors and the length, not
  on the data, which `BlocksAreCorrected` proves.
* `shell_main`: pages of 3 characters, of which 2 are shown, and outputs of up to 4 kept
  characters, so that outputs are empty, partial, of one and two pages, exactly full and
  clipped, pages 0 to 2 are asked for, and a copy is cut at each character; three commands, so that
  one runs while one waits and one is refused.
* `rparam_main`: the three real tables with the real fragment size, so that table 1 takes two
  fragments and is cut before `out`; the same pages and outputs, pages 0 and 1; two commands, of which the
  second may run in the pause; two items in a SET.
* `ecc_two`: the blocks and errors of `ecc_main`.
* `dls_main`: three buffers of two samples, three full blocks per run, phases of
  1, 2 and 0 ticks (0 is reachable: the profile has no lower bound), two RUN
  commands. All buffers can be in use, so overruns and a flush with no free buffer
  occur. One stream, since the streams share only the PSRAM task's turn.
* `temp_*`: two profiles of two steps, a ramp and soaks of one and two rounds (a soak of
  one round cannot show a break in the middle, one of two can), two heaters and a TEC,
  four commands (enable and start both profiles, or one and stop it), one save of a
  profile that takes the other's heater and claims a step past the array. `temp_others`
  needs two that are enabled and no save.
* `uart_main`: rings of three slots (two elements), so that they fill, empty and wrap; one writer
  with three bytes, two writers with one each, or three bytes received in a row.
* `dmesg_main`: ten bytes with headers of two and messages of one or five, so that entries wrap
  and a long message evicts up to three; four writes. `Slack` is scaled with them. In
  the source a message can evict (5+128)/6 = 22 entries, at each of which the guard compares
  the evictions so far with what is left plus 10.
* The bounds on counters (`MaxCommands`, `MaxSaves`, `MaxSends`, `MaxFaults`, `MaxRst`, `MaxCmds`, `MaxRuns`,
  `MaxBlocks`, `MaxPage`, `MaxItems`, `Loads`, `MaxCalls`, `MaxReads`, `MaxLine`) are guards of
  environment actions only, and the proofs hold for all their values.

Deadlock checking is off where all that is left to do can be done: the xTP, decoder,
correcting-code, RPARAM, UART and Dmesg runs end when their loads are used up.

### Fairness

* xTP: `Timeout` (the clock of a waiting call runs; taken only while the call
  waits) and the receiving actions (the XTP task calls `xTP_Process` each
  millisecond). No fairness for sending, loss or corruption.
* Decoder: the clock ticks and the task polls. Nothing is assumed of the sender and the line.
* Shell: the worker is scheduled and a command returns. A command that writes for
  ever is outside this: its output is bounded by `MaxOut + 1` steps.
* Temperature: the task runs (third highest priority, never suspended). Nothing is assumed of
  commands, saves and temperatures; `ProfileEnds` supposes that the temperature settles.
* Experiment: the timer ticks, the experiment task is scheduled. Nothing is assumed of
  commands, samples and the PSRAM task.
* UART: each writer in a call is scheduled, the port shifts its byte out and raises its
  interrupt. Nothing is assumed of received bytes and of the reader.
* Dmesg: a writer in a call and the reader in a call are scheduled.

### What the violations show

1. `xtp_ok`: ACKs carry a sequence number that `OnReceive` logs and does not
   compare, so a late ACK of an earlier transmission ends a later call with
   XTP_OK although its own frame was lost.
2. `temp_others`: `heater_set_duty` and `cooler_set_duty` write 0 to every channel
   outside the mask of the profile whose turn it is, so of several running profiles only
   the last in the round keeps its outputs for more than a moment.
3. `ecc_two`: `xtp_ecc.h:5` has the code detect, but not correct, errors of two bytes and more, and
   `xtp_ecc.h:30` and `xtp_config.h:50` and `:125` repeat it. Of two wrong bytes many pairs have
   syndromes that agree at a third place: the decoder changes that byte and returns
   `XTP_ECC_CORRECTED` (`xtp_ecc.c:74`). `xTP_Read` then takes the frame with three wrong
   bytes, since it does not compute the CRC again (`xtp.c:453`). `EccOutcome` says what is true.

### What the models allow because the code does

These follow from the actions as translated. The properties are stated so as to except
them, and no run is spent on them:

* Every data frame is ACKed and delivered, so a retransmission after a slow ACK executes
  the request again (`xtp_arq.c:233`; `xtp_stats.h:43` counts duplicates as dropped).
  `BoundedCopies` bounds it.
* A frame with a wrong CRC that the correcting code "repairs" is accepted without computing
  the CRC again (`xtp.c:453`), also when the repair made it worse (`ecc_two`).
* A valid frame that is carried in the data of another one, or that noise makes up, is accepted
  once the decoder hunts for a start inside it (`xtp.c:441`): a CRC has no memory of who computed it.
* A stop request while idle leaves `g_stop_req` set and discards the next command
  (`sh_handler.c:347` and `:235`), which never reports anything.
* `pages` counts 128 characters a page and a page shows 127 (`sh_handler.c:133`).
* A page select between the worker's writes of `page` and `out` changes only one of the two
  (`sh_handler.c:213-215`), and one that comes while the worker copies page 0 (`:104`) leaves the
  head of the page selected before the tail of page 0, over which DONE is then written. "page 0
  pre-loaded automatically" (`sh_handler.h:9`) and "immediately copy requested page" (`:59`)
  are not true of such a row; the page has to be selected again. `DoneIsWhole` says that this one
  mixture is all that happens: no character of an older output is ever under a newer DONE.
* A GET in the middle of the same copy reads a row half of which is not written yet. With its
  status it reads RUNNING then, unless the status went in an earlier fragment and was the DONE of the command
  before: that is the case of `AnswerIsOneResult` in which a command was already in hand.
* After a SET of `ex` the status still reads as it did, DONE included, until the worker runs.
* A SET that fails at one item has applied those before it (`serialize.c:303-336`).
* A ramp of duration 0 leaves the timer as it finds it, and after a timed step is left at the
  next tick (`profile_state.c:104`).
* The creation of the PSRAM task is commented out (`app_root.c:77`): as built, full buffers
  stay in their queue, where `docs/testing/17_experiment.md:47` expects them in PSRAM. No
  property claims that a buffer is stored.
* Two tasks that write to one UART can lose, repeat or reorder bytes; so can one writer when
  a received byte runs the transmit callback in the middle of its `StartTx`.
* Two tasks that write to Dmesg at the same time can overwrite each other's entry and
  leave `log_count` wrong.
* The guard against endless eviction (`dmesg.c:132`, "if buffer logic corrupted") also trips in
  an intact log: a message of 128 bytes that has evicted some seventeen short entries, with four
  longer ones left, resets the log and is dropped. `RefinesLog` permits it as a reset.

## 4. Proofs

Theorems of `XtpArq_proofs`, for every number of retries, modulus, number of calls
and of faults, from `ArqAssumption` (the constants have their types):

* `Typing` - `TypeOK`, which is inductive.
* `LineStaysInOrder` - `LineInOrder`, inductive relative to `TypeOK`: data frames
  on the line are numbered between what the peer accepted and what was sent, ACKs
  between what was answered and what was accepted. Each action appends above or
  removes at the head, which two lemmas about sequences capture.
* `ArqImplementsService` - every step of `XtpArq` is a step of `ArqService` or a
  stutter. It needs the order: an accepted frame has a number above `seen`, and a
  flag that is up belongs to an ACK that no XTP_OK has used.
* `CleanOkIsTrue` - `OkIsTrue`. It is not inductive. The strengthening `CleanCalls`
  says what a clean call finds: every data frame of the node on the line, every ACK
  on its way back and every flag that is up stem from this call's transmissions, so
  the peer's newest message is that of the call once any of them was accepted.
* `CopiesAreBounded` - `BoundedCopies`. Delivered copies alone cannot carry the induction:
  a late retransmission may still be on the line. `Budget` adds, for each message, the
  frames of it that are under way (the cardinality of their places) to the copies given,
  and bounds the sum by the turns the loop has taken. Since `xTP_ARQ_Send` resends only the
  newest message and `LineInOrder` holds, no older message gains a frame.

Theorems of `RparamServer_proofs` about the tunnel alone, for all page sizes, buffer sizes and bounds, from
`ShellAssumption`:

* `ShellTyping` - `TypeOK`.
* `BusyWorkerIsShown` - `BusyIsShown`, inductive.
* `DoneTableIsWhole` - `DoneIsWhole`. Its strengthening `Whole` says, at each statement
  of the publication, which rows already describe the buffer, and of `out` how many characters:
  `OutShown(n)` holds with n the place that the copy has come to, whatever page is selected
  in between, since a selected page is of the same output, and what follows it is page 0.
* `TunnelImplementsService` - every step implements `ShellService` under the mapping that
  shows the worker's command and the queued one as the commands in hand.

Theorems of `RparamServer_proofs` about the server, for all tables, fragment sizes and bounds, from
`ShellAssumption`, `RparamAssumption` and two assumptions on the layout of the tables, which TLC
evaluates for those of the firmware in `rparam_main`:

* `EveryRowOnce` - `RowsOnce`, from `TablesFit`: the server counts fragments in bytes and fills
  them with whole rows, and a table could be laid out so that the last rows never go out.
  `TablesFit` says that none is: filled in order, the last of the counted fragments takes the
  last row, and no earlier one does. `Filling` carries it through the answer.
* `AnswersAreOneResult` - `AnswerIsOneResult`, from `ResultFirst` (`status`, `pages` and `outlen`
  are in the first fragment of table 1). The invariant says, while an answer is under way, that
  each character of the row `out` would fit if it were read now, and that the worker writes the row
  only for a command newer than the one announced (`Ahead`), so that a character it copies is
  newer than the answer (`StillIsOf`). It rests on the order of commands (`Ordered`) and on `Whole`: while
  a result is announced, every place of `out` is of it.
* `TunnelKeepsItsPromises` - under the server the tunnel still implements `ShellService`, and
  `DoneIsWhole` and `BusyIsShown` hold: its steps are steps of `ShellTunnel`.

Theorems of `ProfileSM_proofs`, for every number of profiles and slots, all stored profiles
and drafts and all bounds, from `ProfileAssumption`. `HandleEffect` says once what
`profileSM_handle_event` may do to a machine, the outputs and the timer; each invariant
then needs one case for all four steps that handle an event.

* `ProfileTyping` - `TypeOK`, inductive.
* `HeatingExcludesCooling` - `HeatOrCool`, from `OneKind`: of all heaters and all TECs one
  kind is off.
* `DrivenChannelsAreOwned` - `DrivenIsOwned`, inductive.
* `RunningProfilesAreDisjoint` - `ChannelsDisjoint`. It is not inductive: between validation
  and enabling a profile is not running yet. `CheckedApart` counts it as if it were.
* `TimedStepsLast` - `StepLasts`, an action property. `AllCount` says of each timed step in
  hand that its timer has not expired unseen, and that what is left of it and the rounds
  held make up the duration.

Theorems of `Uart_proofs`, for every ring size, number of writers and load, from
`UartAssumption`:

* `TypeCorrect` - `TypeOK`, inductive: whatever the interleaving, no index leaves its ring.
* `TransmissionNeverStalls` - `NoStall`. It is not inductive: while the flag `tx_busy` is set
  with the interrupt disabled, some writer must be on its way to enable it, and a
  writer that found the ring empty may stop only if nobody has put a byte since.
* `TransmissionInOrder` - `SoloInOrder`. With one writer the ring has one producer, but two
  consumers: its `StartTx` and the interrupt. `SoloInv` says which of the two may take a byte
  at each statement, and that a byte taken is in the writer's hand or in the register.
* `ReceptionInOrder` - `ReceivedInOrder`, with an invariant that ties what the reader has in
  hand to the oldest element of the ring, and modular arithmetic for wrapping indices.

Theorems of `DlsExp_proofs`, for any number of buffers, samples in a buffer, ticks of each
phase, runs and blocks, from `DlsAssumption`:

* `ExperimentTyping` - `TypeOK`. The lemma `StreamSteps` says once what a step of any task or
  interrupt does to one stream: it keeps it, exchanges its buffer, overruns it, leaves it
  without one, takes a full buffer, stores it, or restarts its counts. The invariants of
  the streams have one case for each of these and not for each action.
* `BuffersAreConserved` - `BuffersConserved`. The strengthening says of the four places of a
  buffer (free, full, held by the PSRAM task, current) that they are apart and, unless a
  flush found no free buffer, cover all of them; a lemma carries this to the concatenation
  that the property counts.
* `RunsAreKept` - `RunIsKept`. `KeptInOrder` says that what is stored, then what the PSRAM task
  holds, then what is queued are blocks of this run in the order of their numbers. It needs
  `BuffersConserved`: a block keeps its place only while nobody refills its buffer.
  A stream whose flush found no free buffer is left out, since its current buffer is
  then a null pointer that the code goes on to use.
* `PhasesRuleEveryRun` - `PhasesRule`. It is not inductive: between the writes of `exp_setup`
  neither a tick nor a sample may come (`QuietSetup`), and a run that has been announced must
  not be announced again (`OwedOnce`).

Theorems of `XtpDecoder_proofs`, for all frames, any number and kind of faults and any
pauses, from `DecoderAssumption`:

* `TimeoutMeansSilence` - `TimeoutIsSilence`: the decoder's age is no more than the silence
  of the line whenever the line is empty.
* `CheckedFramesWereSent` - `CheckedIsSent`. A frame is followed by its second CRC byte:
  behind the sender, on the line, in the decoder, at the task. `OrderInv` says that none
  overtakes another or is in two of these places, `Types` what the decoder has read in each
  of its states, so that a computed CRC that matches there stands for a whole frame. A frame whose
  check bytes nobody computed is outside the property and needs no place in the order.

* `OutcomeOfFrame` - `FrameOutcome`. The invariant `Following` ties, for a frame that began while
  the decoder waited, the decoder's state and what it has read to the place in the frame that
  it has come to, with at most one byte changed; the check bytes that the decoder computed
  then match or not by where that byte was. The proof found the property false as it was
  first stated: with a changed start, the data of a frame could itself be read as one. It now
  excepts those.

Theorems of `XtpEcc_proofs`, for every length from 1 to 255, any data and any values that changed
bytes take, from `EccAssumption`:

* `RegisterPeriod` - the LFSR has the full period that `xtp_ecc.c:5` names: a byte other than 0
  comes back after 255 steps and not before. What 1, 2, 4, ... 256 steps make of each bit is a
  chain of propositional lemmas (`Map1` to `Map256`), each from the one before. They show that
  256 steps are as good as one, and that 15, 51 and 85 steps leave no byte but 0 where it
  was. A smaller period would divide 255 and so one of these (lemma `Reduce`: a number of steps
  that has an inverse modulo 3, 5 or 17 brings the byte back in 85, 51 or 15 steps). `Pow(n, x)`,
  the byte after n steps, is the end of a run of n steps; its laws are inductions made with a
  least element, as for Dmesg.
* `BlocksAreCorrected` - `EccOutcome`. The invariant says, of the two places that may have changed,
  what they have added to both check bytes after `i` bytes (`Encoding`: the LFSR adds, lemma
  `LfsrAdds`, so the data cancel), and, while the loop turns, that it has not met the first
  syndrome yet (`Decoding`). For one wrong byte the period gives that it meets it before the 255th turn
  and at no other place (lemma `Located`); for two, that the syndromes are not both 0
  (`TwoPlaces`). `EccTyping` is its type part.

Theorems of `Dmesg_proofs`, for any size of the buffer and of a header, any messages and any
number of calls, from the assumptions of `Dmesg`:

* `TypeCorrect` - `TypeOK`, for any number of writers: whatever tasks overlap, every offset that
  is computed lies in the buffer.
* `CountsAreTrue` - `CountIsTrue`, `ReaderShowsLog` - `ShownIsLog`, `LogRefined` - `RefinesLog`,
  for one or more writers, each with the hypothesis `CallsInTurn`: no writer takes a step
  while another is in a call, which is what `dmesg.h:45` asks of the callers ("Caller must
  ensure thread safety"). Calls that overlap do corrupt the log (above). Nothing is asked of the
  reader, which runs between any two steps. A single writer is always in turn (lemma
  `OneInTurn`), so the theorems cover the run. The invariant `IInv(w)`, of the writer `w` that may
  be in a call, gives each entry of the log a position, the sum of the
  costs of those before it, and says that each cell between the offsets holds the byte of the
  entry that lies there, position modulo `Size`; that a write which is under way touches only
  cells that are free; and where the reader stands. Between calls it does not depend on `w`,
  so the turn passes to the next writer (lemma `TurnPasses`). From this `LogRefined` shows that a parse
  from header to header finds exactly the entries of the history. That is an induction over
  the bytes that are left, made with a least element (lemma `Least`) since an induction theorem
  with an operator parameter cannot be used.

Only model-checked: all liveness (`SendReturns`, `LineGoesQuiet`, `AcceptedEnds`,
`RunEnds`, `StopIsObeyed`, `ProfileEnds`, `GoesIdle`, `CallsReturn`,
`ReadyAgain`), which is beyond this prover. Every safety invariant and action property that a
passing run checks is proved as well, under the hypotheses above: for Dmesg, calls that
do not overlap.

## 5. Plan

Done: `XtpArq` and `ShellTunnel` with their abstract specifications and proofs; `ProfileSM`
with proofs; `DlsExp` with proofs; `Uart` with proofs; `Dmesg` and `LogService` with proofs; `XtpDecoder` and
`XtpEcc` with proofs; `RparamServer` over `ShellTunnel` with proofs.

Left, in this order: the configuration draft of temperature profiles (a saved profile has the
steps that were set); the request layer `xcli.c` with its fragmented responses.

## 6. Not modelled

Most of the tree by far is vendored (FreeRTOS, libcsp, LwIP, TinyUSB, nanopb, device packs) or
generated. It is not this project's logic, and what the models need of it (queues,
priorities, a blocking PSRAM write, a UART's registers) is in the actions that call it. Board
support and device drivers are register-level input and output without state of their own.
Consoles, logging and the periodic tasks have little control state. Segmentation is compiled out.
Resets of the processor are not modelled: the modelled components keep their state in RAM that
a reset initialises, so each behaviour begins after one. The PID controller is
floating-point arithmetic. Memory overruns of formatting code are not expressible at the
level of these models.
