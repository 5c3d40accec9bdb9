# Formal models of the STM32 CAN GUI firmware

TLA+ modules, TLC configurations and TLAPS proofs for the firmware under
`Core/` and, where it takes part in a protocol, the Python application under
`python/`. Every definition is translated from the source; `PROJECT.json` maps
each to its lines, lists what each run checks, which change of the code would
break each property, and which hazards no property covers.

Contents: [Inventory](#1-inventory) · [Plan](#2-plan) ·
[Modules and code](#3-modules-and-code) · [Runs](#4-runs-bounds-and-fairness) ·
[Findings](#5-findings) · [Proofs](#6-proofs) ·
[What is not modelled](#7-what-is-not-modelled)

## 1. Inventory

One bare-metal program: `main.c` loops over `RTC_App_Process`, `CAN_App_Process`,
the TIC12400 service, `App_Control_Process` and the watchdog; interrupts only set
flags and count. The bootloader is a second program that shares two flash
records with the application. The Python GUI is one Qt thread driven by timers.

| Component | State it keeps | Operations | Hard behaviour | Correct when |
|---|---|---|---|---|
| Boot control, flash, target (`boot_*.c`) | two flash records of four flashwords, control state with generation, pending slot and attempts | Select, Schedule, Confirm, Persist, Run | power loss and hardware failure at every flash operation; generation wrap; trial budget | a newest record always survives; only recorded images run; the minimum security counter never decreases |
| Bus-off recovery (`can_recovery.c`) | event counters of the interrupts, phase, deadline, verification snapshots | one call per main-loop iteration, two callbacks | interrupts between any two steps; HAL calls that fail half way; tick wrap | no outage is forgotten; a reported recovery is true; restarts keep their distance |
| Transmit queue (`can_transport.c`) | 16-element array, stuck timer | three send functions, Process, GetStats | full queue, eviction, coalescing, restarted controller | events keep order and precede periodic messages; no stale value; stuck is reported |
| ISO-TP (`isotp_transport.c`, `can_isotp.c`, `isotp_client.py`) | receive and transmit state machines with deadlines | OnCanFrame, StartTransmit, Process; start, handle_frame, process | lost and late frames, timeouts on both sides, sequence wrap | a delivered message is the message sent; both sides return to idle |
| UDS server and download (`uds_server.c`, `can_uds.c`, `uds_download.c`, `uds_client.py`, `flash_controller.py`) | session, S3 deadline; download state, sequence, received size | ProcessRequest, Tick; erase, request, transfer, exit, abort | repeated blocks, S3 expiry between blocks, failed writes, abort | a completed download is the artifact; nothing bootable before the end |
| Event log (`app_log.c`) | 64 retained records, head, tail, next sequence | Init, Push, Clear, Read | reset at any word write; sequence wrap | recovery yields the newest records without a gap and loses at most the one being replaced |
| Log transfer (`app_log_can.c`, `stm32_log_sync.py`) | heartbeat deadline; pending request, fragments, next and latest number | info, record, heartbeat; process, handle_message | ring moves on during a transfer; late and lost fragments; a restarted log | every row is one record; a reader with nothing left to ask for has what the log holds |
| CAN application (`can_app.c`) | two transmit slots, receive counters | command dispatch, slot policy, telemetry | frame budget, commands against running slots | a slot runs only when configured, requested and permitted |
| Control access (`can_control_access.c`, `can_command_guard.c`) | request counters, deadline | button interrupt, Update, IsPrivileged | press during Update; tick wrap | no privileged command outside the window |
| Application control (`app_control.c`, `app_control_policy.c`, `pwm_self_test.c`, `pwm_control.c`, `input_capture.c`) | requests, switch mask, effective outputs; self-test phase | Set…Request, UpdateSwitches, Process; Start, Cancel | self test and policy own the same PWM | an inhibited output is off, whoever owns it; a test puts back what was commanded |
| Switch monitor (`tic12400*.c`) | edge flag, last mask and its validity, battery mask, failure count, back-off | service, fallback poll, battery mode, re-initialisation | switches move between SPI transfers; transfers that fail after their effect; offline device | valid data is the state of the switches; silence is noticed; the monitor comes back |
| RTC (`rtc_app.c`, `pca2131.c`) | initialisation, pending time and alarm write, snapshot of the alarm, event flag | SetDateTime, SetAlarm, Process | delayed read-back, transfers that fail with effect, flag that cannot be cleared | one event per alarm; no flag cleared without it; an alarm is sent |
| Watchdog, evidence and faults (`app_watchdog*.c`, `app_fault.c`, `app_reset_reason.c`) | heartbeat mask, last check; two retained records | CheckIn, Process, CaptureBoot, HandleException | reset while a record is replaced or captured; storage that fails | evidence and faults are of the run they are reported for, complete and once; only silence ends a run |
| Startup, timing, diagnostics, IRQ policy, main, MSP | results and counters | fixed sequences | little | not modelled |
| GUI controllers and panels (`python/can_gui_app`) | requests awaiting an acknowledgement, health, views | send, timers, handle frame | acknowledgements and status frames cross | not modelled |
| Drivers, tests, generators | — | — | vendored or build time | not modelled |

Interactions. Everything that transmits goes through `can_transport.c`. Bus-off
recovery stops and starts the controller under it. ISO-TP frames and events are
high-priority messages there; slots, heartbeat and status are periodic ones. UDS
requests come out of ISO-TP in the loop iteration that received them and
`uds_download.c` writes the slot that `boot_target.c` may start after the next
reset. Switches reach the PWM and the slots through `app_control_policy.c`.
Every component reports to `app_log.c`, which a reset does not erase.

## 2. Plan

In order of importance; the groups of modules are done, and of the proofs what
item 9 does not name.

1. **Boot** — `BootControl` (pure policy), `BootRecords` (decoding, selection),
   `BootFlash` (PersistControl) composed by `BootSystem` with the bootloader and
   the application. Abstract specification `BootPolicy`.
2. **Bus-off recovery** — `CanRecovery`.
3. **Transmit queue** — `CanTransport`, abstract specification `CanTxService`.
4. **ISO-TP** — `IsoTpServer` (firmware) and `IsoTpTester` (Python) composed by
   `IsoTp` over `IsoTpBus`; abstract specification `RequestService`.
5. **Firmware update** — `UdsDownload` under `UdsServer` (firmware) and
   `FlashController` (Python), composed by `FlashUpdate`; abstract specification
   `FlashService`. Its result is the download of `BootSystem`; the two are not
   composed.
6. **Log** — `AppLog` (firmware) and `Stm32LogSync` (Python), composed by
   `LogTransfer`; abstract specification `EventLog`.
7. **Control** — `PwmControl` under `AppControl` (policy and self test) and
   `ControlAccess`, composed with command dispatch and slots by `ControlSystem`;
   `SwitchMonitor` by itself, since `ControlSystem` holds for any switch data.
8. **Resets and clock** — `ResetEvidence`, `RtcAlarm`.
9. **Proofs** of every safety property that a run checks, but those of the
   diagnostic connection, which hold of its run and not of every instance
   (section 6).

## 3. Modules and code

### Boot

* `BootControl` — `boot_control.c`: validity of a state, serial-number comparison
  of generations, Initialize, Schedule, Confirm and SelectBoot as operators. A
  generation is a number modulo `GenerationModulus` (2^32), 0 is invalid.
* `BootRecords` — the encoding: a record is four flashwords, each of them either
  the control state it was encoded from or `Erased`, `Corrupt` (readable, wrong)
  or `Unreadable` (ECC error). A record decodes when its body and its commit word
  are of the same state; CRC and magic numbers are abstracted to that.
* `BootFlash` — `Boot_Flash_PersistControl` over the STM32 adapter, one hardware
  operation per action (`Unlock`, `EraseSector`, `VerifyErasedRecord`,
  `ProgramBody`, `VerifyBody`, `ProgramCommit`, `VerifyFinal`, `Finish`). Each
  may fail, with or without reporting it and with any partial effect;
  `Interrupted` is what a power loss leaves.
* `BootSystem` — `Boot_Target_Run` (`BootStops`, `BootSelect`, `BootPersisted`,
  `BootRecovery`, `BootJump`) and an application that erases, downloads,
  schedules and confirms. The finalizer and the confirming code are not in the
  repository yet; they are modelled from `docs/BOOTLOADER_ARCHITECTURE.md` and
  marked external. The application that runs may erase the other slot whenever it
  is asked to, also one on trial, as the routine does. `trials` and `sacrificed` (an
  image on trial has erased the confirmed one) are history variables.
* `BootPolicy` — one control state replaced atomically. `BootSystem` refines it
  with `store <- Selected(flash)`.

### Bus-off recovery

`CanRecovery` divides `CAN_Handle_BusOff_Recovery` at every point where an
interrupt makes a difference: `RecordErrorPassive`, `ScheduleRecovery`, then one
of `ReportRecovery`, `NothingToDo`, `Attempt`, then `StopController`,
`StartController`, `EnableNotifications`. The variables keep the names of the
code. The controller is `CCCR.INIT` and `PSR.BO`; the HAL is `hfdcan1.State` with
the conditions of `HAL_FDCAN_Stop`, `Start` and `ActivateNotification`. The
bus-off interrupt is raised when BO changes, at the beginning and at the end.
`busOffs`, `halFaults`, `recoveries` and `waited` are history.

### Transmit queue

`CanTransport`: a request is one action (all callers run in the main loop);
`CAN_Transport_Process` is `ProcessBegins`, `DrainOne` for each frame and
`ProcessEnds`, because the controller can transmit or be stopped in between. The
array and its count are the sequence `tx_queue`; insertion, eviction and
coalescing follow the index arithmetic of the code. `UpdatedHealth` is
`CAN_Transport_UpdateQueueHealth`. `CanTxService` has two sequences instead of
an array and is implemented with the events as the front of `tx_queue` up to the
last event, and the periodic messages as the rest. An event that is already waiting
is not sent again, so that an event can be told from another.

### Diagnostic connection

A request is a number, a message the sequence of its segments, a segment the
pair of both: a message with a missing or foreign segment can be seen. Time is
counted in ticks of a fraction of the one-second timeouts.

* `IsoTpBus` — the frames, the two identifiers as FIFO channels whose frames age,
  and what may happen to a frame: sent, lost, refused by the sender's queue or
  received twice. All but the first are faults and bounded by `MaxFaults`.
* `IsoTpServer` — `isotp_transport.c`, `can_isotp.c` and the part of `can_uds.c`
  that takes a request and starts its response. `OnCanFrame` is the receive
  handler for one frame, `ProcessRequest` is `CAN_Uds_Process`, `IsoTpProcess` is
  `CAN_IsoTp_Process`; `step` keeps the order that `CAN_App_Process` calls them
  in. `executed` is history.
* `IsoTpTester` — `IsoTpClient` and the request queue of `UdsClient`. Each call
  (`Enqueue`, `Poll`, `HandleFrame`) ends in `Conclude`, which starts the next
  waiting request in the same call, as the callbacks of the code do. `outcome` is
  what the caller of a request is told; `answer` is history.
* `IsoTp` — both ends and the clock. `Tick` waits until neither end has anything
  due: both poll many times within a second. Two variables are history. `stray` is
  set when the tester, busy with a request, is handed a frame of another one (or a
  flow control of an earlier part), and when the firmware executes a request again;
  it is cleared when the connection is `AtRest`, with nothing under way or waited
  for. `sound` is the last request not covered by "queued at rest or later, with no
  fault since". The request and segment that a flow control answers are in the frame
  for `stray` only.
* `RequestService` — what the users of the connection rely on. Always: requests end
  once, in the order they were queued, are answered only after they were executed,
  and none is executed after a later one. While the connection is not `disturbed`
  (`stray`): each is executed at most once, only while it is waited for, and is
  answered with its own response. `IsoTp` refines it with `served` as the request
  executed last, and the outcome "foreign" for a request that got the answer of
  another; the code tells its caller of those only when the service differs
  (`SERVICE_MISMATCH`).

### Firmware update

An artifact is a number of transfer blocks; a block is the pair of the artifact
and its place, so that a slot with a missing, repeated or foreign block can be
seen. Time is counted in seconds: the timeout of a request is one, S3 is five.

* `UdsDownload` — `uds_download.c`. Each service is an operator of its request:
  what it refuses (`EraseRefused`, `TransferRefused`, …) and what it does. The
  header blocks stay in `download.header` until `ProcessTransferExit`. The flash
  backend is an interface in the repository and is modelled as external: every
  call may fail with any partial effect, a block that is programmed twice is
  `Damaged`, and finalize checks nothing, so that what the slot holds rests on
  the protocol and not on the signature.
* `UdsServer` — `uds_server.c` and `can_uds.c`: session, S3 timer, dispatch and
  the abort of a download when its session ends. The slot that is not running is
  the only one, and `ServerReset` is a restart before an image was scheduled in
  it; what follows that is `BootSystem`.
* `FlashController` — `flash_controller.py`: `Start` and one action per callback.
  A callback queues its next request in the same step (`Proceed`); `Stop` is
  `_fail` with its cleanup.
* `FlashUpdate` — both ends, the diagnostics polling that shares the request
  queue, and what can go wrong: a request or response that is lost (`Lose`, then
  `Timeout`) or broken (`TransportError`), a new connection, a restart of the tool
  or of the firmware. The connection is taken to behave as a `RequestService` that
  nothing disturbs. A lost request costs a second; everything else happens well within
  one. `clean`, `fresh` and `failures` are history.
* `FlashService` — what the user and the bootloader rely on: an artifact becomes
  bootable in one step out of a slot that offers nothing, the slot offers
  something unsound only while an erase is unfinished, and success is claimed
  only of the artifact that the slot offers.

### Event log

A record is the number of its event with the sequence number it was given, so
that rows can be compared with what happened.

* `AppLog` — `app_log.c`. A slot is a body and a commit word; `Stores` is what it
  holds after each store of `App_Log_CommitRecord`, and `ResetInPush` a reset after
  any of them, cache lines being written back at any time. `Recovered` is
  `App_Log_Recover`: `Newest` its first loop, `Run` its second. `storage_ready` is
  the result of `App_Log_EnableStorage`, which may be either at each start.
* `Stm32LogSync` — `stm32_log_sync.py`: the attributes of the reader as a record
  and its handlers as operators on it. Of an answer in two fragments each carries
  the whole: the CRC of a record holds when both are of the same one, and an
  information answer, which has no CRC, is taken from both.
* `LogTransfer` — both ends and the bus. Requests and answers arrive in order; an
  answer may be cut short by a full transmit queue or a reset, lost in part, or
  later than its timeout; a heartbeat, being a periodic message, may be overtaken.
  `exported` is the file of a connection. `skipped`, `mixed`, `wrapped`, `late` and
  `asked` are history; `asked` is the record last asked for, or `None` once the
  reader has gone back to an earlier one.
* `EventLog` — what readers rely on: the latest records, consecutive and in the
  order of their events; a reset loses the oldest at most, and only of a full log.
  `LogTransfer` refines it with `log` as the ring from tail to head, or, while the
  RAM is out of reach, as what recovery would find in it.

### Switch monitor

`SwitchMonitor` — `tic12400_probe.c` with `tic12400_recovery.c` and
`tic12400_switch.c`, one action per SPI transfer, since a switch can move, and the
device stop or start to answer, between any two. `ReadStatus`, `NoChange`,
`StatusFails` read INT_STAT, which clears it; `ReadComparator` and
`ComparatorFails` the state; `Service` is the edge or the fallback poll,
`SetBatterySwitchMask` the battery mode, `ProbeInit` and `Reinitialize` the start
and the back-off. The registers that are written and verified at configuration
are one step. `unread` is history: a change was cleared and never read.

### Control

* `PwmControl` — `pwm_control.c` on a record; periods and pulses are rounded to
  timer counts as in the code, because the self test depends on it.
* `AppControl` — `app_control_policy.c`, `pwm_self_test.c` and
  `App_Control_Process`. What `Recalculate` derives are operators (`Permitted`,
  `PwmEffective`, …). An operation on the output takes and returns the pair of
  PWM and test, since several happen in one call: a cancelled test puts the saved
  waveform back, may start it, and the policy then stops it.
* `ControlAccess` — `can_control_access.c`: the deadline is kept as its difference
  to the tick, which wraps.
* `ControlSystem` — the part of `can_app.c` between them. A pass is `Control`,
  `CommandsBegin`, `Command` for each frame and `Slots`; `ButtonPressed` and
  `Tick` come anywhere between. The switch data is any data. `commanded`,
  `started` and `press_age` are history.

### Resets

`ResetEvidence` — from reset to reset: `CaptureReason`, `CaptureFault`,
`CaptureEvidence`, `StartIwdg`, `InitWatchdog`, then the loop `RtcProcess`,
`CanAppProcess`, `WatchdogProcess`, in the order of `main.c`. The evidence record
is replaced in two steps (`CopyRecord`, `MarkRecord`) after the marker is cleared,
the fault record in the exception handler (`HandleException`, `CopyFault`,
`MarkFault`). A record is its marker, whether its content is whole, and the run
that wrote it, which the code does not store and the properties are about.
`WatchdogReset`, `PinReset` and `PowerCycle` come anywhere.

### Clock

`RtcAlarm` — `rtc_app.c` over `pca2131.c`. A pass of `RTC_Process` does the first
thing that is due, each an action; `Poll` is the rest of the pass and ends before
the flag is cleared (`ClearAfterEvent`), because an alarm can fire between the
two. `SetAlarm` and `WriteAlarm` are one command. Any transfer may fail, and a
write that fails may have taken effect; one that wrote part of the alarm leaves any
registers, also some that read back as no valid configuration (`Invalid`), as the
device may hold them at the start or after its hour mode was changed. `told`,
`slipped`, `dropped` and `stale` are history.

Every module contains, next to some definitions, operators named `Slip…`: the
same definition with a plausible mistake. They are used by no specification;
`PROJECT.json` names the property that each of them breaks.

## 4. Runs, bounds and fairness

| Run | Question | Bounds |
|---|---|---|
| `boot_safety` | a newest record survives; only recorded images run; trials are counted; refinement of `BootPolicy` | generations modulo 6, two security counters, one hardware failure, one power loss, every kind of torn word |
| `boot_updates` | the confirmed image stays bootable unless an image on trial erased it; every pending update settles; the anti-rollback minimum never decreases | generations modulo 8, three security counters (two successive updates), no hardware failure, one power loss that leaves readable torn words |
| `boot_torn_word` | *violated*: the finding of section 5 | as `boot_updates`, generations modulo 6, with ECC errors and two security counters |
| `can_recovery` | outages, truth of a report; every bus-off is recovered from unless the HAL failed for good | two bus-offs, two error-passive events, two failing HAL calls of four kinds; interval 2, tick modulo 8 |
| `can_transport` | order, freshness, refinement of `CanTxService`; the queue-stuck state across the tick wrap; every accepted event is handed over | three waiting messages, FIFO of one, three identifiers, one stop of the controller, timeout 2, tick modulo 3, unlimited traffic |
| `isotp` | requests and responses are delivered whole; faults pass: a rest restores the connection and one fault costs one stretch of requests; every request ends and the firmware leaves a broken transfer; refinement of `RequestService`; each except what section 4 says | five requests of 1, 1, 1, 4 and 4 frames, responses of 1, 1, 4, 1 and 3; blocks of two, sequence numbers modulo 3, timeout 4, delay 1, two faults, frames of every type lost, refused or repeated |
| `flash_update` | a download lives in a programming session; a lost block spoils nothing and an abandoned download costs one attempt; every update ends; refinement of `FlashService` | an artifact of four blocks (two of header) and one for the wrong slot; block counter modulo 3; one erase poll; four updates, three faults of any kind |
| `log_transfer` | no row of two records; a reader with nothing left to ask for has the log; the reader catches up; refinement of `EventLog` | two slots, empty or full; sequence numbers modulo 8, wrapping at 7; five events (two of them retained at first); one retry, one reset, two faults |
| `switch_monitor` | valid data is the state of the switches; a silent device is noticed; the monitor comes back | two switches, one of them possibly of a battery; fallback poll 2, threshold 3, delays 1 to 3; transfers fail without limit |
| `control` | inhibited outputs are off; a test puts the waveform back; commands outside the window only turn off | a counter clock of 99, so that duties round, and frequencies 1, 2 and 4; a test of two points, one without a signal; batches of two; window 2, deadline noticed up to 2 late, tick modulo 8 |
| `reset_evidence` | evidence is true and kept; a fault is reported once; only silence ends a run | four runs; timeout 5, period 2; storage that is ready or not at every start |
| `rtc_alarm` | one event per alarm; no flag cleared without it; an alarm is sent | two alarms, three commands, failures without limit |

Why these bounds suffice to see the interesting cases. Two records and a wrap every six
generations mean that an update and its confirmation cross the wrap with each record in
the role of the newer one. One power loss inside one persist call plus one hardware
failure covers an interrupted write followed by a failing one. A second bus-off can fall
before, into and after the recovery from the first. A queue of three holds one message
of each class: an event, a periodic one, and a plain one that can be neither coalesced
nor evicted, so that insertion in the middle, eviction from the middle and refusal all
occur. A message of four frames in blocks of two has a full block, a partial one, and a
sequence number modulo 3 that wraps. The first two requests can hand their answers on to
the next; the long response of the third can break, with two long requests behind it
whose frames can meet; two faults are enough for a request that is put together from
two, executed twice, or given the answer of another, all of which the run reaches. An
artifact of four blocks lets the block counter, modulo 3, wrap within it, and three
faults can abandon an update, spoil the cleanup and hit the next one. Two slots are the
fewest with an oldest record that is not the newest one; five events overwrite a record
the reader is asking for, and carry the sequence numbers over their wrap with a reset
before, in or after it. Duties of 90 and 99 % of 25, 50 and 99 counts are none that the
counts express, so that saving and restoring round. Four runs are an erased record, one
that was left by the run before last, and the two between which it must not be confused.
Three commands let an alarm be changed while the one before it is reported. The tick
wraps while a deadline is outstanding in every run with a clock that wraps. The theorems
of section 6 remove these bounds for the properties they cover.

Fairness. Boot: the bootloader and a call of PersistControl keep executing
(weak); a device with a pending update is eventually reset, by the user or by the
independent watchdog that the bootloader leaves to the application (weak); no
application has to confirm itself. Recovery: weak fairness of the main loop; ticks
are strongly fair because they are enabled only between calls; bus-off ends after
the restart and periodic frames are transmitted while the controller is on the
bus (weak): both are the behaviour of a bus with another node, and the firmware
waits for them. Queue: `CAN_Transport_Process` runs for ever (it is called twice
by every `CAN_App_Process`), the bus takes frames, and a stopped controller is
started again, which is what `CanRecovery` establishes. Diagnostic connection:
the main loop and the window's timers keep running and time goes on (weak);
nobody has to queue a request. Firmware update: the same; a second is strongly
fair because it passes between requests only, so that no counterexample depends
on a user who presses a button infinitely often within a second. Log: the main
loop answers and sends its heartbeat, the tool polls, and what is under way
arrives or times out (weak); nothing has to be logged. Switches: the main loop runs
and time passes (weak); the device need not answer, and `MonitorRecovers` speaks
of one that does from some time on. Clock: each step of a pass that is due is
taken (weak), and of the polls that keep coming some find a bus that works and a
queue with room (strong): without either the event waits. Control and resets
state safety only.

What the diagnostic run assumes. Two frame delays are shorter than the timeout;
otherwise a late answer could meet the next request, since nothing in a response
names its request. Any request may have a response of several frames, as those of the
erase routine and of the identifiers have, and frames of every type are repeated. What
the code does not promise then (section 5) is excepted by name. `ImplementsService`
gives up the stronger half of `RequestService` while `stray`, which takes a fault to
set and a rest to clear. `WholeMessages` gives up the requests executed while `stray`,
but no response. `FaultsPass` promises an end to the consequences, not a number of
requests: at rest they are over, whatever they were, and those of a single fault
are consecutive requests. The firmware update is checked over a connection that
nothing disturbs: what a foreign answer or a second execution does to an update is not
modelled.

What the log run assumes. `CaughtUpMeansSaved` excepts information put together from two
answers and, with `RowsInOrder`, logs whose numbers have wrapped: the reader compares
them as they are. Its second half, that late answers cost no record while they are no
more than the retries (`LateAnswersAreHarmless`), also excepts a reader that has gone
back to a record after a later one. `CatchesUp` excepts a ring with numbers from both
sides of the wrap, which the reader rejects as invalid. The real log needs 2^32 events
for that. The retained RAM keeps its content: a power loss is left out, for the reason
given in section 5.

What the other runs assume. `FreshData` and `MonitorRecovers` except a change that
was lost with a failed read, `AlarmIsSent` a program that does not know the alarm of
the device and an alarm whose flag a command cleared first, `RecoveredUnlessHalFailed`
a HAL in its error state and a failed notification step; section 5 says what happens
then. `EvidenceIsTrue` excepts a run without storage, which can neither clear nor
replace the record it finds.

The types of the state are stated as `TypeOK` in every module. They are conjuncts
of the inductive invariants of section 6 where there is a proof, and no run spends
itself on them.

Deadlock is checked in every run except `reset_evidence`, which ends with its last
run, and `rtc_alarm`, whose device may rest when the commands are used up.

## 5. Findings

**Torn flashword stops the boot** (`boot_torn_word`). The document says the older
generation remains selected after a power loss. The code reads both records before
it selects and stops when either cannot be read; a torn flashword has an ECC error
and cannot be read. With readable torn words the statement holds (`boot_updates`).

Also seen while modelling, without a run of its own; where a property excepts the
case, it is named.

Fallback. The erase routine takes the slot opposite the running one, whether or not
the running image is confirmed (`uds_download.c:118`); the authorization callback it
asks first is not in the repository yet, and no document gives it that condition. An
image on trial can thus erase the confirmed image; when its attempts are used up, the
"last confirmed image" that `docs/BOOTLOADER_ARCHITECTURE.md:119` promises is not there
and the device stays in recovery mode. `FallbackKept` excepts this erase, and shows that
it is the only way to lose the fallback without a hardware failure.

Recovery. A timeout in `HAL_FDCAN_Stop` is final: the HAL moves to `ERROR`, in
which neither Stop nor Start succeeds again, while the stub of
`tests/test_can_recovery.c:197` lets a later retry succeed. The interrupt is raised
at both changes of BO, so the end of bus-off cancels the verification that waits
for it (the comment at `can_recovery.c:204` speaks of a new bus-off); the recovery
succeeds one interval later. After a failed notification step a new bus-off is
answered by repeating that step, without a restart, and is never recovered from;
the vendored HAL fails there only in state `ERROR`.
`RecoveredUnlessHalFailed` excepts both failures.

Queue. The stuck timer is not restarted by progress, so a queue that moves but is
never empty is reported stuck after the timeout.

Diagnostics and update. Nothing in a frame but its service names its request. A
single-frame request that is received twice is executed twice if the first copy is
released in time. A single-frame response that is received twice also completes the next
request, whose own response completes the one after it, and so on: every request gets
the answer of the one before it until the tester has none waiting when an answer
arrives. And a request can be executed that is put together from two. The tester
abandons a request of several frames because of a frame that is out of place: an answer
received twice, what is left of a broken response (each of its frames ends one more
request), or a flow control received twice. It starts the next request, takes the flow
control for the abandoned one for its own, and the firmware, which waits for the rest of
the abandoned request, accepts the frames whose four-bit numbers are those awaited. When
the request that closes the programming session is lost, the tool reports success and
tells the user that the firmware will close it by the S3 timeout
(`flash_controller.py:383`, `docs/UDS_DIAGNOSTICS.md:22`); the same event lets the
diagnostics polling start again, every second, and each request prolongs the session.
When the answer of the transfer exit is lost the tool reports a fault although the image
was accepted and will be started. A new connection during an update forgets the request
it waits for; the update then stays busy until the tool is restarted, and so does the
suspension of the diagnostics polling.

Log. The reader recognises a log that started again only by a smaller number: when
the retained RAM is lost while the tool stays connected and the new log has grown
to the number saved last before the tool hears of it, the new records up to that
number are never fetched, and the panel shows the log as synchronized. In truth the
panel says "STM32 event log is synchronized" and "Up to date"
(`event_log_panel.py:461`) of less than its words mean: a heartbeat that is ready and
not overdue, and no last error, are enough for it (`event_log_panel.py:426`), so that it
also says so before the first information answer, during the whole download, and while
the newest records are still to be fetched. `CaughtUpMeansSaved` and `CatchesUp` are about
the reader that has nothing left to ask for (`CaughtUp`), not about what the panel shows. An
information answer may be put together from the fragments of two answers, since it
has no CRC; it may then say that the log is empty and name a record as its latest,
which is never asked for. A record that the firmware reports as not found is not
counted as missed. A heartbeat that was overtaken makes the reader go back to an
older record; its retries are counted on from where they were, so that it may be
given up after fewer late answers than the limit each time. The heartbeat says that
the log is ready even when its storage is not.

Switches. When the comparator read fails after INT_STAT was read, the change it
reported is lost: the data is invalid until the next service, which finds SSC clear,
returns OK and lets the old mask pass as valid until a switch moves again.
`README.md:381` says that a failed service invalidates the data; `FreshData` and
`MonitorRecovers` except it.

Control. Cancelling a test puts the saved waveform back and may start it for the
moment before the policy stops it. If the HAL failed to stop the PWM, the safe
state would take the pin from the timer, and a later start would report an output
that is not there; the vendored HAL does not fail there.

Clock. After a read-back of the alarm that fails or finds no valid configuration, or
a failed first read, the alarm flag is not polled until a later alarm command
succeeds; after a write that fails, the program goes on with the alarm it read before
(`Blind`). `RTC_SetAlarm` clears the flag before anything else, so that an alarm that
has fired and was not polled yet is lost; it is lost as well when that clear is
reported as failed but has taken effect, or when the write after it fails, although
no new alarm is set then (`dropped`). An alarm that fires between the clear and a write
that switches it off is not sent either. A clear that failed but took effect makes
the program take the next alarm for the one it sent, and clear it without an event
(`slipped`). Setting the time switches the device to 24 hours and leaves the alarm
registers, so that an alarm set in the other mode means another hour, or none, while
the program goes on with what it read (`pca2131.c:844`).

Resets. All heartbeats come from the one main loop, so that the refresh gate never
refuses a loop that runs; what it protects from is a path that returns early.

## 6. Proofs

The proofs are checked by TLAPS (SMT, Zenon and LS4) from the named assumptions
on constants alone. Most say that sizes are positive, that identifiers are in
their sets, that a generation modulus is even and that a retry interval is shorter
than half the tick range. Four deserve a reader's attention:

* `TickAssumption` (queue): the stuck timeout is less than the range of the tick.
* `SessionAssumption` (update): the S3 timeout, five seconds in the source, is more
  than three: the requests that can be lost, a second each, between two that arrive
  while a block is repeated once are a poll of the diagnostics, the block, and
  another poll.
* `ArtifactAssumption` (update): an artifact has its header at least, which the
  tool checks when it opens the file. `FlashAssumption` and `NamesAssumption` only
  keep model values apart.
* `EventsAssumption` and `ReaderAssumption` (log): the bound on events leaves room
  for those of a full ring, and the numbers the reader may compute, from
  `1 - Capacity` up to `SequenceModulus`, are among those it can ask for.

**`BootProofs`, records.** `TypeCorrect`, `ControlAlwaysSurvives`,
`HandoverIsLocked`. The inductive invariant is `TypeOK /\ PcOK /\ FlashInv /\ LockInv`.
`FlashInv` says that outside a call some record is the newest: it decodes, and the other
one decodes only to a state exactly one generation older. During a call the record that
is not the target decodes and the state being written follows it; after the commit word
the target is the newest. It is needed because `ControlSurvives` says nothing about what
the other record holds, and the erase that starts the next call destroys it. The lemmas
about generations show that a successor is newer in both directions for every even
modulus, the wrap included.

**`BootProofs`, policy.** `RecordedImageRuns`, `TrialsAreBounded`,
`RollbackIsRefused`, `PolicyIsImplemented`. With the records out of the way, the
device is its selected control state. `PolicyInv` says what that state admits: a
call writes a transition of `boot_control.c` of it (`CallInv`), a start is of a slot
that it names and whose image matches it (`StartInv`), and the starts of a pending
image and the attempts left on record stay within the budget together (`TrialInv`),
because an attempt is recorded before the jump. A step of the flash then changes the
selected state at the commit word or not at all, and that is the step of
`BootPolicy`.

**`BootProofs`, power loss.** `ProgressInvariance`: if a torn flashword still reads,
power losses alone never make the bootloader stop; that is the condition the run
`boot_torn_word` drops. Under the same condition `FallbackIsKept` shows that the
confirmed image stays bootable, and that no rollback ends in recovery mode, unless an
image on trial has erased the slot to fall back to. The invariant says so of every
state, and that a boot on its way to recovery mode found no image to start: the
confirmed slot changes only when the running image is confirmed, and that image
is in no slot that can be erased.

**`CanRecoveryProofs`.** `TypeCorrect`, `OutageIsNeverSilent`, `ReportIsTrue`,
`RestartsKeepDistance`, `OutageIsLoggedOnce`. The
invariant orders the counters (handled ≤ scheduled ≤ counted, verified ≤ counted,
logged ≤ counted), says that a step inside a restart has an unhandled event, and
that a frame since the snapshot without an event since the restart means the
controller is on the bus. The order of counters is what makes "not handled"
survive an interrupt between any two steps. `RateInv` says how far the deadline is
ahead of the tick, so that half the tick range separates "due" from "not yet";
`EpisodeInv` counts the records against the outages that ended.

**`CanTransportProofs`.** `TypeCorrect` (with the capacity of the array),
`EventsAreFirst`, `ValuesAreFresh`, `StuckQueueIsReported`,
`QueueImplementsService`, for every capacity, FIFO depth and set of frames. The
invariant adds that the queue is empty without a controller. The lemmas say what
insertion, removal and replacement of one element do to the two orders; that the
position an event is inserted at is the first periodic one rests on the well-foundedness
of the natural numbers. `StuckInv` relates the timer, which is a reduced tick, to the
time the queue has waited, and says that the report is there after the next poll once
that time is the timeout; it is why the timeout has to be less than the range of the
tick. For the refinement of `CanTxService` the order of the queue makes the number of
events the only boundary between the two abstract queues (`Split`), and only periodic
messages are replaceable (`OnlyPeriodic`); each array operation is then an append, a
removal or a replacement in one of the two, and a refusal happens only when the abstract
queues have neither room nor a copy to replace or evict.

**`FlashUpdateProofs`.** `OpenDownloadInSession`, `TypeCorrect`,
`UpdateImplementsService`, `RetriesAreSafe`, in layers, each inductive with those
below it.

1. `DownloadInSession` is inductive as it stands: the server lets the programming
   services through in their session only, and every way out of it, a request,
   the timeout or a restart, aborts the download.
2. `Types` says which queues of requests occur (the update idle, its request in
   front, or behind a poll of the diagnostics), that the request is the one the
   status of the controller expects, and that the header buffer holds as much of the
   header as was received.
3. `StepInv` is about the two programs together: what the slot holds in each state of
   the download (`SlotInv`), and what an executed request implies for each status of
   the controller (`LinkInv`): while transferring, the server has as many blocks as
   the tool knows of, or the active one in addition, each in its place. The
   refinement of `FlashService` follows: an artifact appears when the transfer ends
   and its header is written last, and disappears with the first erased piece.
4. `RetryInv` is about updates that only lost blocks. `CleanInv` and `SmoothInv` follow
   such an update through its statuses; `Spent` counts the seconds that the session
   may have lost, which never reach the S3 timeout. `FailInv` says that a failed
   update leaves no download open and the next one begins with none.

**`ControlProofs`.** `InhibitedStaysOff`, `CommandsNeedButton`, `WaveformIsKept`.
`OutputInv` says that
an output is on only while permitted and that a test which saved a running output
is under way only while permitted: putting that output back, in a command that
cancels the test, is the one place where an output comes on without a look at the
policy. `SlotInv` relates the slot's flags; `AccessInv` says that the time left and
the age of the press are a window together, and bounds the time left from below by
the lateness of the main loop, so that the signed comparison is right.
`WaveformIsKept` rests on one fact of arithmetic, for every counter clock
(`PulseRoundTrip`): saving a pulse as a rounded percentage and setting it again
gives the same pulse, so that a test cannot make it drift.

**`LogTransferProofs`.** `TypeCorrect`, `RingImplementsEventLog`, `RowsAreInOrder`,
`SavedUnlessGivenUp`. The
valid records in RAM are a window: a run that ends with the newest, each numbered
after the one before and of a later event, with nothing else valid. By induction
over its loop the search of `App_Log_Recover` finds the newest of a window, for the
signed comparison is right within a capacity of less than half the numbers. The
next record, whole or torn at any store, leaves a window again, and the indices in
use are those that a reset would find (`RingInv`): what the readers are told does
not depend on when the last reset was. Read from its oldest record, the window
is the log of `EventLog`. `ReaderInv` gives the types of the frames and of the
reader; `RowsInv` says, until the numbers wrap, that what the reader has seen and
what the ring holds is in one order by event and by number, and that the ring
reaches as far as any row, so that the next record is newer than all of them. It
also covers a ring that is out of reach until the next start.

`SavedUnlessGivenUp` has two halves. `FollowInv` is the first: wherever the reader may
go on, at the next number, the pending one or the one after the last saved, no record
before it is *open*, that is, neither in the files nor given up (`Passed`); and no
information or heartbeat, of whatever age and however they overtake each other, tells
of a record newer than the log or hides its oldest. What the reader has passed stays
passed while the ring grows (`GrowthKeeps`), because new records are newer. When nothing
is left to ask for, everything has been passed (`CaughtUpIsSaved`). The second half
needs an account of the fragments. `DebtInv`: a late answer leaves at most two units
under way, counting a request and an error frame for two and a fragment for one, and a
pending request has two of its own. `RetryInv`: each rejection of the record last asked
for used up a fragment or a request from before it was asked for, so that twice its
retries and what is left of those are no more than twice the late answers (`Counted`).

**`ResetEvidenceProofs`.** `FaultIsReportedOnce`, `NoFalseEvidence`,
`NoLostEvidence`, `WatchdogNeedsSilence`. `FaultInv` and `EvidenceInv` say, step by
step, what the two records may hold and of which run; `KeptInv` that evidence that
was completed stays until it is captured; `TimeInv` that the watchdog is never
further than a period ahead of the last pass of the main loop.

**`PeripheralProofs`**, two specifications that share nothing. Switches:
`ValidSwitchesAreFresh`, `MonitorTypeCorrect`. A detection that is trusted is running
with the polarities that its answers are decoded by (`DetectionInv`), so that every
move of a switch is flagged and what the comparators say is the state of the switches
(`DecodeIsInverse`); and the snapshot shows the switches unless a change is flagged or
its flag was lost (`SnapshotInv`). `FreshData` itself is not inductive: it speaks of data
whose last service succeeded, while a failed service leaves the snapshot and the next
one presents it again when nothing has changed, so the invariant is about the snapshot
whatever the last result. `FailuresInv` bounds the failures: a monitor in service has
no attempt scheduled and fewer failures than the threshold. Clock: `ClockTypeCorrect`,
`AlarmIsToldOnce`, `ClearedAlarmWasSent`. `ReportInv`: an event that was sent is
remembered until the flag is seen clear, and the flag is about to be cleared only while
it is remembered.

Only model-checked: the liveness properties (`PendingSettles`,
`RecoveredUnlessHalFailed`, `EventsReachController`, `ConnectionRecovers`,
`UpdateEnds`, `CatchesUp`, `SilenceIsNoticed`, `MonitorRecovers`, `AlarmIsSent`),
because the prover has no rules for fairness, and the three safety properties of
the diagnostic connection, `WholeMessages`, `FaultsPass` and `ImplementsService`. They
rest on what two queues of frames, both ends and the clock can hold of every earlier
request at once, and an inductive invariant that says so has not been written. The
library's induction rules take an operator as a parameter, which the installed
provers cannot instantiate; where an induction was needed (the search loop of the
log, the place an event is inserted at), it is over a set of numbers instead, from
the well-foundedness of `<` (`SetInduction`).

What the proofs corrected in the model: a restarted tool starts the history
`failures` again only when it abandons an update; `wrapped` is set from the start for a
log that straddles the wrap at first; assumptions on the sizes of artifacts,
capacities and retries were missing; and that late answers within the limit of retries
cost no record was stated of every log and reader, while it fails, on instances larger
than the run's, for numbers that have wrapped and for a reader that has gone back.

## 7. What is not modelled

The components without a module are listed in `PROJECT.json` with the reason. Most
of the lines of the repository are not the program's own: the vendored HAL, CMSIS
and BSP under `Drivers/` are more than four fifths of its C code, and what the modules
depend on of them (the states of the FDCAN handle) is modelled where it is used.
Of the program's own code, what is left out are displays, tables, the coding of
frames and registers, and initialisation. Within the modelled
components: bytes, CRCs and addresses of the control record; the header checks of
`Boot_Image_Validate` one by one and the signature check (their result is an
attribute of the image); the cache maintenance of the flash adapter; the PSR and
ECR snapshots and the record written when a recovery step fails; identifier range
checks and statistics of the transmit queue; malformed ISO-TP frames, the
WAIT and OVERFLOW flow states (which neither end sends in answer to a message the
other makes), the separation time between consecutive frames (below a tick), and
the frame counters; the extended session, suppressed responses and TesterPresent,
which the tool does not use; malformed UDS lengths, the content of the identifiers
and the kind of a negative response; the check of the artifact file; `App_Log_Clear`,
which only the unit tests call, the content of a log record, the retry delay of its
reader and malformed frames; SPI words, register decoding and the input filter's
statistics; input capture and the verdict on the points of a self test; LED 2 and
slot 2, whose code has the form of LED 1 and slot 1; telemetry, acknowledgements
and status frames; dates and times; the outputs that the safe state turns off
besides the PWM. Signature verification, the vector
table switch and clocks belong to the hardware.
