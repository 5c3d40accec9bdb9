------------------------------ MODULE RtcAlarm ------------------------------
(***************************************************************************)
(* The real-time clock and its alarm: RTC_Process and the command handlers *)
(* of Core/Src/rtc_app.c, over the PCA2131 driver of pca2131.c.            *)
(*                                                                         *)
(* The alarm of the device raises a flag.  The main loop polls the flag,   *)
(* sends an event for it and clears it.  Whether it polls at all depends   *)
(* on what it read last of the alarm's registers, which a command writes   *)
(* and a later pass reads back.                                            *)
(*                                                                         *)
(* Every transfer on the bus may fail, and a write that fails may have     *)
(* taken effect.  The alarm may fire between any two transfers.  Whether a *)
(* delay or a period has passed is left open, and so are the date, the     *)
(* time and the status frames; the I2C peripheral itself has started.      *)
(***************************************************************************)
EXTENDS Naturals

CONSTANTS
    Alarms,         \* alarm configurations with a comparison enabled
    NoAlarm,        \* the one in which all are disabled
    Invalid,        \* registers that read back as no valid configuration
    MaxCommands     \* bound: commands that reach the clock

ASSUME CommandsAssumption ==
    /\ NoAlarm \notin Alarms /\ Invalid \notin Alarms \cup {NoAlarm}
    /\ MaxCommands \in Nat

VARIABLES
    alarm, alarm_flag,          \* the device: its alarm registers and AF,
    hour_mode_12,               \* and whether it counts hours to twelve
    init_state, ready,          \* rtc_init_state, rtc.ready
    write_state,                \* rtc_write_state
    alarm_write_state,          \* rtc_alarm_write_state
    requested,                  \* rtc_alarm_write_status.requested
    watchdog_read_pending, alarm_read_pending,
    snapshot,                   \* rtc_alarm_snapshot: read_ok and alarm
    reported,                   \* event_reported_for_active_flag
    transfer,                   \* "idle", or the transfer that comes next
    commands,                   \* bounds the commands
    told,       \* history: events sent since the flag rose, up to 2
    slipped,    \* history: a clear that failed took effect, and AF is still
                \* taken for the one that was reported
    dropped,    \* history: SetAlarm has cleared AF before its event was sent
    stale       \* history: a write of the alarm failed since it was read

clock == <<alarm, alarm_flag, hour_mode_12>>
program == <<init_state, ready, write_state, alarm_write_state, requested,
             watchdog_read_pending, alarm_read_pending, snapshot, reported>>
history == <<told, slipped, dropped, stale>>
rtc_vars == <<clock, program, transfer, commands, history>>

Configurations == Alarms \cup {NoAlarm}

\* What the alarm registers can hold: the device keeps them over a reset of
\* the program, and a write that fails leaves any of them.
Registers == Configurations \cup {Invalid}

RtcInit ==
    /\ alarm \in Registers /\ alarm_flag \in BOOLEAN
    /\ hour_mode_12 \in BOOLEAN
    /\ init_state = "wait_settle" /\ ready = FALSE
    /\ write_state = "idle" /\ alarm_write_state = "idle"
    /\ requested = NoAlarm
    /\ watchdog_read_pending = TRUE /\ alarm_read_pending = TRUE
    /\ snapshot = [read_ok |-> FALSE, alarm |-> NoAlarm]
    /\ reported = FALSE
    /\ transfer = "idle" /\ commands = 0
    /\ told = 0 /\ slipped = FALSE /\ dropped = FALSE /\ stale = FALSE

----------------------------------------------------------------------------
(* Transfers, pca2131.c. *)

\* PCA2131_Driver_ReadAlarm, as RTC_RefreshAlarmSnapshot stores it: the alarm
\* is lost with a read that fails.
RefreshAlarmSnapshot(ok) ==
    /\ snapshot' = IF ok THEN [read_ok |-> TRUE, alarm |-> alarm]
                         ELSE [read_ok |-> FALSE, alarm |-> NoAlarm]
    /\ stale' = (stale /\ ~ok)

\* PCA2131_Driver_ClearAlarmFlag, and event_reported_for_active_flag after it.
ClearAlarmFlag(ok) ==
    /\ IF ok THEN alarm_flag' = FALSE ELSE alarm_flag' \in {alarm_flag, FALSE}
    /\ reported' = (reported /\ ~ok)
    /\ slipped' = (~ok /\ reported /\ (slipped \/ ~alarm_flag'))

----------------------------------------------------------------------------
(* RTC_Process: a pass does the first of these that has something to do.   *)

Settled == init_state = "complete"
Idle == Settled /\ write_state = "idle" /\ alarm_write_state = "idle"

\* RTC_ProcessInitialization.
ProcessInitialization ==
    /\ transfer = "idle" /\ ~Settled
    /\ init_state' = "complete"
    /\ ready' \in BOOLEAN
    /\ UNCHANGED <<clock, write_state, alarm_write_state, requested,
                   watchdog_read_pending, alarm_read_pending, snapshot,
                   reported, transfer, commands, history>>

\* A mutated UpdateTime: a clock that failed once is not taken up again.
SlipUpdateTime(ok) == ready' = (ready /\ ok)

\* PCA2131_UpdateTime.
UpdateTime(ok) == ready' = ok

\* RTC_ProcessPendingWrite; what it finds out is only reported.
ProcessPendingWrite ==
    /\ transfer = "idle" /\ Settled /\ write_state = "wait_readback"
    /\ write_state' = "idle"
    /\ \E ok \in BOOLEAN : UpdateTime(ok)
    /\ UNCHANGED <<clock, init_state, alarm_write_state, requested,
                   watchdog_read_pending, alarm_read_pending, snapshot,
                   reported, transfer, commands, history>>

\* RTC_ProcessPendingAlarmWrite.
ProcessPendingAlarmWrite ==
    /\ transfer = "idle" /\ Settled /\ write_state = "idle"
    /\ alarm_write_state = "wait_readback"
    /\ alarm_write_state' = "idle"
    /\ \E ok \in BOOLEAN : RefreshAlarmSnapshot(ok)
    /\ UNCHANGED <<clock, init_state, ready, write_state, requested,
                   watchdog_read_pending, alarm_read_pending, reported,
                   transfer, commands, told, slipped, dropped>>

\* RTC_RefreshWatchdogSnapshot, once.
ReadWatchdog ==
    /\ transfer = "idle" /\ Idle /\ ready /\ watchdog_read_pending
    /\ watchdog_read_pending' = FALSE
    /\ UNCHANGED <<clock, init_state, ready, write_state, alarm_write_state,
                   requested, alarm_read_pending, snapshot, reported, transfer,
                   commands, history>>

\* The alarm is read once after the start, and never again if that fails.
ReadAlarm ==
    /\ transfer = "idle" /\ Idle /\ ready
    /\ ~watchdog_read_pending /\ alarm_read_pending
    /\ alarm_read_pending' = FALSE
    /\ \E ok \in BOOLEAN : RefreshAlarmSnapshot(ok)
    /\ UNCHANGED <<clock, init_state, ready, write_state, alarm_write_state,
                   requested, watchdog_read_pending, reported, transfer,
                   commands, told, slipped, dropped>>

\* RTC_AlarmHasEnabledComparison: what was read last is a valid configuration
\* with a comparison enabled.
AlarmHasEnabledComparison == snapshot.read_ok /\ snapshot.alarm \in Alarms

\* RTC_SendAlarmEvent.
SendAlarmEvent(accepted) ==
    told' = IF accepted /\ told < 2 THEN told + 1 ELSE told

\* A mutated AlarmEvent: the flag is cleared although the event was refused.
SlipAlarmEvent(accepted) ==
    /\ SendAlarmEvent(accepted)
    /\ reported' = TRUE /\ transfer' = "clear"

\* RTC_ProcessAlarmEvent for a new event: one that the queue refuses is sent
\* again at the next poll.
AlarmEvent(accepted) ==
    /\ SendAlarmEvent(accepted)
    /\ reported' = accepted
    /\ transfer' = IF accepted THEN "clear" ELSE "idle"

\* A mutated AlarmFlagSeen: the event is sent whenever the flag is found set.
SlipAlarmFlagSeen(accepted) == AlarmEvent(accepted)

\* RTC_ProcessAlarmEvent when the flag is set.
AlarmFlagSeen(accepted) ==
    IF reported
    THEN transfer' = "clear" /\ UNCHANGED <<reported, told>>
    ELSE AlarmEvent(accepted)

\* RTC_ProcessAlarmEvent up to the clearing of the flag, if it is time to poll
\* and the status can be read.
PollAlarm(accepted) ==
    IF alarm_flag
    THEN AlarmFlagSeen(accepted) /\ UNCHANGED slipped
    ELSE /\ reported' = FALSE /\ slipped' = FALSE
         /\ UNCHANGED <<told, transfer>>

\* The rest of a pass: the time is read if reads, and the alarm is polled if
\* polls.
Poll(reads, ok, polls, accepted) ==
    /\ transfer = "idle" /\ Idle
    /\ ready => ~watchdog_read_pending /\ ~alarm_read_pending
    /\ IF reads THEN UpdateTime(ok) ELSE UNCHANGED ready
    /\ IF polls /\ ready' /\ AlarmHasEnabledComparison
       THEN PollAlarm(accepted)
       ELSE UNCHANGED <<reported, told, slipped, transfer>>
    /\ UNCHANGED <<clock, init_state, write_state, alarm_write_state, requested,
                   watchdog_read_pending, alarm_read_pending, snapshot,
                   commands, dropped, stale>>

\* RTC_ProcessAlarmEvent, its end.
ClearAfterEvent ==
    /\ transfer = "clear" /\ transfer' = "idle"
    /\ \E ok \in BOOLEAN : ClearAlarmFlag(ok)
    /\ UNCHANGED <<alarm, hour_mode_12, init_state, ready, write_state,
                   alarm_write_state, requested, watchdog_read_pending,
                   alarm_read_pending, snapshot, commands, told, dropped,
                   stale>>

----------------------------------------------------------------------------
(* Commands, and the device. *)

\* RTC_SetAlarm up to the write.  A command that comes too early is refused.
\* The flag is cleared first, whether or not its event was sent.
SetAlarm(config) ==
    /\ transfer = "idle" /\ Idle /\ ready
    /\ commands < MaxCommands /\ commands' = commands + 1
    /\ \E ok \in BOOLEAN :
           /\ ClearAlarmFlag(ok)
           /\ requested' = IF ok THEN config ELSE requested
           /\ transfer' = IF ok THEN "write" ELSE "idle"
    /\ dropped' = (dropped \/ (alarm_flag /\ ~alarm_flag' /\ told = 0))
    /\ UNCHANGED <<alarm, hour_mode_12, init_state, ready, write_state,
                   alarm_write_state, watchdog_read_pending,
                   alarm_read_pending, snapshot, told, stale>>

\* PCA2131_Driver_WriteAlarm and the end of RTC_SetAlarm.  After a write that
\* fails the alarm is not read again.
WriteAlarm ==
    /\ transfer = "write" /\ transfer' = "idle"
    /\ \/ /\ alarm' = requested
          /\ alarm_read_pending' = FALSE
          /\ alarm_write_state' = "wait_readback"
          /\ UNCHANGED stale
       \/ /\ alarm' \in Registers
          /\ stale' = TRUE
          /\ UNCHANGED <<alarm_read_pending, alarm_write_state>>
    /\ UNCHANGED <<alarm_flag, hour_mode_12, init_state, ready, write_state,
                   requested, watchdog_read_pending, snapshot, reported,
                   commands, told, slipped, dropped>>

\* PCA2131_Driver_WriteDateTime: the device counts to 24 from then on, and an
\* alarm set for the other mode is left as it is: its registers now mean
\* another hour, or none.
SetsHourMode(mode) ==
    /\ hour_mode_12' = mode
    /\ IF mode = hour_mode_12 \/ alarm = NoAlarm
       THEN alarm' = alarm
       ELSE alarm' \in Alarms \cup {Invalid}

\* PCA2131_SetDateTime: written, invalid, or failed on the bus.
SetDateTime ==
    /\ transfer = "idle" /\ Idle
    /\ commands < MaxCommands /\ commands' = commands + 1
    /\ \/ /\ SetsHourMode(FALSE)
          /\ ready' = TRUE /\ write_state' = "wait_readback"
       \/ UNCHANGED <<alarm, hour_mode_12, ready, write_state>>
       \/ /\ \E mode \in {hour_mode_12, FALSE} : SetsHourMode(mode)
          /\ ready' = FALSE /\ UNCHANGED write_state
    /\ UNCHANGED <<alarm_flag, init_state, alarm_write_state, requested,
                   watchdog_read_pending, alarm_read_pending, snapshot,
                   reported, transfer, history>>

\* The time matches; while the flag is set, the device shows nothing new.
AlarmFires ==
    /\ alarm # NoAlarm
    /\ alarm_flag' = TRUE
    /\ told' = IF alarm_flag THEN told ELSE 0
    /\ dropped' = FALSE
    /\ UNCHANGED <<alarm, hour_mode_12, program, transfer, commands, slipped,
                   stale>>

RtcNext ==
    \/ ProcessInitialization \/ ProcessPendingWrite \/ ProcessPendingAlarmWrite
    \/ ReadWatchdog \/ ReadAlarm
    \/ \E reads, ok, polls, accepted \in BOOLEAN :
          Poll(reads, ok, polls, accepted)
    \/ ClearAfterEvent
    \/ \E config \in Configurations : SetAlarm(config)
    \/ WriteAlarm \/ SetDateTime
    \/ AlarmFires

RtcSpec == RtcInit /\ [][RtcNext]_rtc_vars

\* The main loop keeps running; periods pass, and in some of the passes that
\* poll the bus works and the transmit queue has room.
RtcFairSpec ==
    /\ RtcSpec
    /\ WF_rtc_vars(ProcessInitialization) /\ WF_rtc_vars(ProcessPendingWrite)
    /\ WF_rtc_vars(ProcessPendingAlarmWrite)
    /\ WF_rtc_vars(ReadWatchdog) /\ WF_rtc_vars(ReadAlarm)
    /\ SF_rtc_vars(Poll(TRUE, TRUE, TRUE, TRUE))
    /\ WF_rtc_vars(ClearAfterEvent) /\ WF_rtc_vars(WriteAlarm)

----------------------------------------------------------------------------
(* Properties. *)

\* Type invariant.
RtcTypeOK ==
    /\ alarm \in Registers /\ hour_mode_12 \in BOOLEAN
    /\ alarm_flag \in BOOLEAN /\ ready \in BOOLEAN /\ reported \in BOOLEAN
    /\ watchdog_read_pending \in BOOLEAN /\ alarm_read_pending \in BOOLEAN
    /\ slipped \in BOOLEAN /\ dropped \in BOOLEAN /\ stale \in BOOLEAN
    /\ told \in 0 .. 2
    /\ init_state \in {"wait_settle", "complete"}
    /\ write_state \in {"idle", "wait_readback"}
    /\ alarm_write_state \in {"idle", "wait_readback"}
    /\ requested \in Configurations
    /\ snapshot \in [read_ok : BOOLEAN, alarm : Registers]
    /\ transfer \in {"idle", "clear", "write"} /\ commands \in 0 .. MaxCommands

\* An alarm is sent once: no second event for the same rise of the flag,
\* however often the queue refuses it and the flag cannot be cleared
\* (event_reported_for_active_flag).
OneEventPerAlarm == told < 2

\* The poll never clears a flag for which no event was sent
\* (RTC_ProcessAlarmEvent).  Excepted is a flag that rises after a clear that
\* failed but took effect, before a poll saw it clear: it is taken for the one
\* that was reported.
ClearedMeansSent ==
    [][alarm_flag /\ ~alarm_flag' /\ transfer = "clear"
           => told # 0 \/ slipped]_rtc_vars

\* The program does not know the alarm of the device: the last read of it
\* failed or found no valid configuration, or a write of it failed since; or it
\* takes the flag for an old one.
Blind ==
    ~snapshot.read_ok \/ snapshot.alarm = Invalid \/ stale \/ slipped

\* An alarm that fires is sent, through failures of the bus and of the queue
\* (RTC_Process), unless the program is blind, a RTC_SetAlarm comes first and
\* clears the flag, even one that reports that clearing has failed, or the
\* alarm is switched off by one whose write the flag rises before.
AlarmIsSent ==
    (alarm_flag /\ alarm # NoAlarm /\ ~Blind)
        ~> (told # 0 \/ dropped \/ alarm = NoAlarm \/ Blind)

=============================================================================
