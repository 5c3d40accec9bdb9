---------------------------- MODULE CanRecovery ----------------------------
(***************************************************************************)
(* Bus-off recovery of the FDCAN controller, Core/Src/can_recovery.c.      *)
(*                                                                         *)
(* Two interrupt callbacks count events.  The main loop calls              *)
(* CAN_Handle_BusOff_Recovery, which restarts the controller with three    *)
(* HAL calls and counts the recovery as done when a frame was transmitted  *)
(* afterwards.  An interrupt can occur between any two of the steps the    *)
(* call is divided into here; within a step the code reads a counter once, *)
(* or twice with the same effect.                                          *)
(*                                                                         *)
(* The controller is two bits: INIT of CCCR, which takes it off the bus,   *)
(* and BO of PSR.  Entering bus-off sets both.  When software clears INIT  *)
(* it stays in bus-off until it has seen enough recessive bits.  The       *)
(* bus-off interrupt is raised when BO changes (FDCAN_IT_BUS_OFF in the    *)
(* HAL), which is both at the beginning and at the end of bus-off.         *)
(***************************************************************************)
EXTENDS Integers

CONSTANTS
    RetryInterval,  \* CAN_RECOVERY_RETRY_INTERVAL_MS, in polls of the main loop
    TickModulus,    \* 2^32: HAL_GetTick is a uint32_t
    HalFaults,      \* the HAL failures that can happen
    MaxBusOff,      \* bound: how often the controller goes bus-off
    MaxPassive,     \* bound: how often it becomes error passive
    MaxFaults       \* bound: HAL calls that fail

ASSUME RetryAssumption ==
    /\ RetryInterval \in Nat \ {0}
    /\ TickModulus \in Nat /\ TickModulus % 2 = 0
    /\ 2 * (RetryInterval + 1) < TickModulus

\* "stop", "start" and "notification": the call returns an error and has no
\* other effect, as the stubs of tests/test_can_recovery.c do.
\* "stop_timeout": HAL_FDCAN_Stop waits in vain for INIT to read back.
ASSUME HalAssumption ==
    HalFaults \subseteq {"stop", "stop_timeout", "start", "notification"}

ASSUME BoundAssumption ==
    MaxBusOff \in Nat /\ MaxPassive \in Nat /\ MaxFaults \in Nat

VARIABLES
    init, busOff,                   \* CCCR.INIT and PSR.BO
    hal_state,                      \* hfdcan1.State
    tick, polled,                   \* HAL_GetTick; has the main loop run since?
    bus_off_event_count,            \* counters written by the interrupts
    error_passive_event_count,
    tx_complete_event_count,
    handled_bus_off_event_count,    \* state owned by the main loop
    scheduled_bus_off_event_count,
    logged_bus_off_event_count,
    logged_error_passive_event_count,
    verification_bus_off_event_count,
    verification_tx_complete_snapshot,
    next_recovery_attempt_tick,
    recovery_verification_pending,
    bus_off_fault_episode_active,
    recovery_phase,
    bus_off_log_record_count, bus_off_log_suppressed_count,
    error_passive_log_record_count, error_passive_log_suppressed_count,
    call,                           \* where the main loop is in the call
    busOffs, halFaults,             \* history: bus-offs entered, HAL failures
    recoveries,                     \* history: recoveries reported
    waited                          \* history: ticks since the last attempt

controller == <<init, busOff, hal_state>>
time == <<tick, polled>>
counters == <<bus_off_event_count, error_passive_event_count,
              tx_complete_event_count>>
schedule == <<handled_bus_off_event_count, scheduled_bus_off_event_count>>
verification == <<verification_bus_off_event_count,
                  verification_tx_complete_snapshot,
                  recovery_verification_pending>>
busOffLog == <<logged_bus_off_event_count, bus_off_log_record_count,
               bus_off_log_suppressed_count, bus_off_fault_episode_active>>
passiveLog == <<logged_error_passive_event_count,
                error_passive_log_record_count,
                error_passive_log_suppressed_count>>
retry == <<next_recovery_attempt_tick, recovery_phase>>
history == <<busOffs, halFaults, recoveries>>

vars == <<controller, time, counters, schedule, verification, busOffLog,
          passiveLog, retry, call, history, waited>>

Ticks == 0 .. (TickModulus - 1)
Phases == {"STOP", "START", "NOTIFICATION"}

FlagsOK ==
    /\ init \in BOOLEAN /\ busOff \in BOOLEAN /\ polled \in BOOLEAN
    /\ recovery_verification_pending \in BOOLEAN
    /\ bus_off_fault_episode_active \in BOOLEAN

CountsOK ==
    /\ tick \in Ticks /\ next_recovery_attempt_tick \in Ticks
    /\ bus_off_event_count \in Nat
    /\ error_passive_event_count \in Nat
    /\ tx_complete_event_count \in Nat
    /\ handled_bus_off_event_count \in Nat
    /\ scheduled_bus_off_event_count \in Nat
    /\ logged_bus_off_event_count \in Nat
    /\ logged_error_passive_event_count \in Nat
    /\ verification_bus_off_event_count \in Nat
    /\ verification_tx_complete_snapshot \in Nat
    /\ bus_off_log_record_count \in Nat
    /\ bus_off_log_suppressed_count \in Nat
    /\ error_passive_log_record_count \in Nat
    /\ error_passive_log_suppressed_count \in Nat
    /\ busOffs \in Nat /\ halFaults \in Nat
    /\ recoveries \in Nat
    /\ waited \in 0 .. RetryInterval

TypeOK ==
    /\ FlagsOK /\ CountsOK
    /\ hal_state \in {"READY", "BUSY", "ERROR"}
    /\ recovery_phase \in Phases
    /\ call \in {"idle", "schedule", "verify"} \cup Phases

\* CAN_Recovery_Init, then the controller is started and notifications are
\* enabled (can_app_init.c).
Init ==
    /\ init = FALSE /\ busOff = FALSE /\ hal_state = "BUSY"
    /\ tick = 0 /\ polled = TRUE
    /\ bus_off_event_count = 0
    /\ error_passive_event_count = 0
    /\ tx_complete_event_count = 0
    /\ handled_bus_off_event_count = 0
    /\ scheduled_bus_off_event_count = 0
    /\ logged_bus_off_event_count = 0
    /\ logged_error_passive_event_count = 0
    /\ verification_bus_off_event_count = 0
    /\ verification_tx_complete_snapshot = 0
    /\ next_recovery_attempt_tick = 0
    /\ recovery_verification_pending = FALSE
    /\ bus_off_fault_episode_active = FALSE
    /\ recovery_phase = "STOP"
    /\ bus_off_log_record_count = 0
    /\ bus_off_log_suppressed_count = 0
    /\ error_passive_log_record_count = 0
    /\ error_passive_log_suppressed_count = 0
    /\ call = "idle"
    /\ busOffs = 0 /\ halFaults = 0
    /\ recoveries = 0
    /\ waited = 0

----------------------------------------------------------------------------
(* The controller, with HAL_FDCAN_ErrorStatusCallback and                  *)
(* HAL_FDCAN_TxBufferCompleteCallback.                                     *)

OnBus == ~init /\ ~busOff

mainLoop == <<hal_state, schedule, verification, busOffLog, passiveLog, retry,
              call, halFaults, recoveries, waited>>

BusOff ==
    /\ OnBus
    /\ busOffs < MaxBusOff
    /\ init' = TRUE /\ busOff' = TRUE
    /\ bus_off_event_count' = bus_off_event_count + 1
    /\ busOffs' = busOffs + 1
    /\ UNCHANGED <<mainLoop, time, error_passive_event_count,
                   tx_complete_event_count>>

BusOffEnds ==
    /\ ~init /\ busOff
    /\ busOff' = FALSE
    /\ bus_off_event_count' = bus_off_event_count + 1
    /\ UNCHANGED <<mainLoop, time, init, error_passive_event_count,
                   tx_complete_event_count, busOffs>>

ErrorPassive ==
    /\ OnBus
    /\ error_passive_event_count < MaxPassive
    /\ error_passive_event_count' = error_passive_event_count + 1
    /\ UNCHANGED <<mainLoop, time, init, busOff, bus_off_event_count,
                   tx_complete_event_count, busOffs>>

\* The counter is only ever compared with the snapshot for being different;
\* it is not counted further once it is.
TxComplete ==
    /\ OnBus
    /\ tx_complete_event_count = verification_tx_complete_snapshot
    /\ tx_complete_event_count' = tx_complete_event_count + 1
    /\ UNCHANGED <<mainLoop, time, init, busOff, bus_off_event_count,
                   error_passive_event_count, busOffs>>

\* A tick is about one iteration of the main loop, which is far shorter than
\* the half range of the tick comparison; one call is shorter than a tick.
Tick ==
    /\ polled /\ call = "idle"
    /\ tick' = (tick + 1) % TickModulus
    /\ polled' = FALSE
    /\ waited' = IF waited < RetryInterval THEN waited + 1 ELSE waited
    /\ UNCHANGED <<controller, counters, schedule, verification, busOffLog,
                   passiveLog, retry, call, history>>

----------------------------------------------------------------------------
(* CAN_Handle_BusOff_Recovery.                                             *)

GoTo(step) == call' = step /\ UNCHANGED polled
Return == call' = "idle" /\ polled' = TRUE

\* The next attempt is due one interval from now.
Postpone ==
    /\ next_recovery_attempt_tick' = (tick + RetryInterval) % TickModulus
    /\ waited' = 0

RecordErrorPassive ==
    /\ call = "idle"
    /\ GoTo("schedule")
    /\ LET new == error_passive_event_count - logged_error_passive_event_count
           recorded == IF new > 0 /\ ~bus_off_fault_episode_active THEN 1 ELSE 0
       IN  /\ error_passive_log_record_count' =
                 error_passive_log_record_count + recorded
           /\ error_passive_log_suppressed_count' =
                 error_passive_log_suppressed_count + new - recorded
    /\ logged_error_passive_event_count' = error_passive_event_count
    /\ UNCHANGED <<controller, tick, counters, schedule, verification,
                   busOffLog, retry, history, waited>>

\* The log block: one record per episode, further events are counted.
LogBusOff ==
    LET new == bus_off_event_count - logged_bus_off_event_count
        recorded == IF new > 0 /\ ~bus_off_fault_episode_active THEN 1 ELSE 0
    IN  /\ bus_off_log_record_count' = bus_off_log_record_count + recorded
        /\ bus_off_log_suppressed_count' =
              bus_off_log_suppressed_count + new - recorded
        /\ bus_off_fault_episode_active' =
              (bus_off_fault_episode_active \/ new > 0)
        /\ logged_bus_off_event_count' = bus_off_event_count

\* Slip: a new event does not cancel the verification that is pending.
SlipScheduleKeepsVerification ==
    /\ call = "schedule"
    /\ GoTo("verify")
    /\ \/ /\ bus_off_event_count = scheduled_bus_off_event_count
          /\ UNCHANGED <<schedule, verification, busOffLog, retry, waited>>
       \/ /\ bus_off_event_count # scheduled_bus_off_event_count
          /\ LogBusOff
          /\ scheduled_bus_off_event_count' = bus_off_event_count
          /\ Postpone
          /\ UNCHANGED <<handled_bus_off_event_count, verification,
                         recovery_phase>>
    /\ UNCHANGED <<controller, tick, counters, passiveLog, history>>

ScheduleRecovery ==
    /\ call = "schedule"
    /\ GoTo("verify")
    /\ \/ /\ bus_off_event_count = scheduled_bus_off_event_count
          /\ UNCHANGED <<schedule, verification, busOffLog, retry, waited>>
       \/ /\ bus_off_event_count # scheduled_bus_off_event_count
          /\ LogBusOff
          /\ recovery_verification_pending' = FALSE
          /\ scheduled_bus_off_event_count' = bus_off_event_count
          /\ Postpone
          /\ UNCHANGED <<handled_bus_off_event_count,
                         verification_bus_off_event_count,
                         verification_tx_complete_snapshot, recovery_phase>>
    /\ UNCHANGED <<controller, tick, counters, passiveLog, history>>

\* (int32_t)(now - next_recovery_attempt_tick) >= 0
Due ==
    2 * ((tick - next_recovery_attempt_tick + TickModulus) % TickModulus)
        < TickModulus

\* Slips: a bus-off since the restart is not looked for, or a frame since.
SlipConfirmedByAnyFrame ==
    tx_complete_event_count # verification_tx_complete_snapshot
SlipConfirmedWithoutFrame ==
    bus_off_event_count = verification_bus_off_event_count
Confirmed ==
    /\ tx_complete_event_count # verification_tx_complete_snapshot
    /\ bus_off_event_count = verification_bus_off_event_count

ReportRecovery ==
    /\ call = "verify"
    /\ recovery_verification_pending
    /\ Confirmed
    /\ handled_bus_off_event_count' = verification_bus_off_event_count
    /\ recovery_verification_pending' = FALSE
    /\ bus_off_fault_episode_active' = FALSE
    /\ recoveries' = recoveries + 1
    /\ Return
    /\ UNCHANGED <<controller, tick, counters, scheduled_bus_off_event_count,
                   verification_bus_off_event_count,
                   verification_tx_complete_snapshot,
                   logged_bus_off_event_count, bus_off_log_record_count,
                   bus_off_log_suppressed_count, passiveLog, retry,
                   busOffs, halFaults, waited>>

\* Nothing to do: waiting for a frame, nothing scheduled, or too early.
NothingToDo ==
    /\ call = "verify"
    /\ IF recovery_verification_pending
       THEN ~Confirmed
       ELSE \/ scheduled_bus_off_event_count = handled_bus_off_event_count
            \/ ~Due
    /\ Return
    /\ UNCHANGED <<controller, tick, counters, schedule, verification,
                   busOffLog, passiveLog, retry, history, waited>>

Attempt ==
    /\ call = "verify"
    /\ ~recovery_verification_pending
    /\ scheduled_bus_off_event_count # handled_bus_off_event_count
    /\ Due
    /\ Postpone
    /\ GoTo(recovery_phase)
    /\ UNCHANGED <<controller, tick, counters, schedule, verification,
                   busOffLog, passiveLog, recovery_phase, history>>

\* A HAL call returns an error: recovery_phase stays and so does the rest.
Fails(step) ==
    /\ step \in HalFaults
    /\ halFaults < MaxFaults
    /\ halFaults' = halFaults + 1
    /\ Return

\* HAL_FDCAN_Stop gives up only when INIT does not read back in time, that
\* is when it was not set already, and then leaves the handle in ERROR.
HalStops == hal_state = "BUSY" /\ hal_state' = "READY" /\ init' = TRUE

HalStopTimesOut ==
    hal_state = "BUSY" /\ ~init /\ hal_state' = "ERROR" /\ init' \in BOOLEAN

\* HAL_FDCAN_Start
HalStarts == hal_state = "READY" /\ hal_state' = "BUSY" /\ init' = FALSE

StopController ==
    /\ call = "STOP"
    /\ \/ /\ HalStops
          /\ recovery_phase' = "START"
          /\ GoTo("START")
          /\ UNCHANGED halFaults
       \/ /\ hal_state # "BUSY"
          /\ Return
          /\ UNCHANGED <<hal_state, init, recovery_phase, halFaults>>
       \/ /\ Fails("stop")
          /\ UNCHANGED <<hal_state, init, recovery_phase>>
       \/ /\ Fails("stop_timeout")
          /\ HalStopTimesOut
          /\ UNCHANGED recovery_phase
    /\ UNCHANGED <<busOff, tick, counters, schedule, verification, busOffLog,
                   passiveLog, next_recovery_attempt_tick,
                   busOffs, recoveries, waited>>

StartController ==
    /\ call = "START"
    /\ \/ /\ HalStarts
          /\ recovery_phase' = "NOTIFICATION"
          /\ GoTo("NOTIFICATION")
          /\ UNCHANGED halFaults
       \/ /\ Fails("start")
          /\ UNCHANGED <<hal_state, init, recovery_phase>>
    /\ UNCHANGED <<busOff, tick, counters, schedule, verification, busOffLog,
                   passiveLog, next_recovery_attempt_tick, busOffs, recoveries,
                   waited>>

EnableNotifications ==
    /\ call = "NOTIFICATION"
    /\ \/ /\ recovery_phase' = "STOP"
          /\ verification_bus_off_event_count' = scheduled_bus_off_event_count
          /\ verification_tx_complete_snapshot' = tx_complete_event_count
          /\ recovery_verification_pending' = TRUE
          /\ Return
          /\ UNCHANGED halFaults
       \/ /\ Fails("notification")
          /\ UNCHANGED <<recovery_phase, verification>>
    /\ UNCHANGED <<controller, tick, counters, schedule, busOffLog, passiveLog,
                   next_recovery_attempt_tick, busOffs,
                   recoveries, waited>>

CAN_Handle_BusOff_Recovery ==
    \/ RecordErrorPassive \/ ScheduleRecovery
    \/ ReportRecovery \/ NothingToDo \/ Attempt
    \/ StopController \/ StartController \/ EnableNotifications

Environment == BusOff \/ BusOffEnds \/ ErrorPassive \/ TxComplete \/ Tick

Next == CAN_Handle_BusOff_Recovery \/ Environment

Spec == Init /\ [][Next]_vars

(***************************************************************************)
(* Fairness: the main loop runs, time passes (strongly, since a tick falls *)
(* between two calls here), bus-off ends once the controller is started    *)
(* again, and on a bus with another node the periodic status frames are    *)
(* transmitted.  Nothing forces a bus-off or a failure.                    *)
(***************************************************************************)
Fairness ==
    /\ WF_vars(CAN_Handle_BusOff_Recovery)
    /\ SF_vars(Tick)
    /\ WF_vars(BusOffEnds)
    /\ WF_vars(TxComplete)

FairSpec == Spec /\ Fairness

----------------------------------------------------------------------------
(* Correctness.                                                            *)

\* While the controller is off the bus a recovery is outstanding: no bus-off
\* is ever taken for handled, whenever the interrupt arrives.
NoSilentOutage ==
    ~OnBus => bus_off_event_count # handled_bus_off_event_count

\* Every bus-off event the main loop has seen is in the log or counted as
\* suppressed, and an outage has one record and is closed by one recovery;
\* the same accounting for the error-passive events.
OneRecordPerEpisode ==
    /\ bus_off_log_record_count + bus_off_log_suppressed_count =
          logged_bus_off_event_count
    /\ bus_off_log_record_count =
          recoveries + (IF bus_off_fault_episode_active THEN 1 ELSE 0)
    /\ error_passive_log_record_count + error_passive_log_suppressed_count =
          logged_error_passive_event_count

\* A recovery is reported only while the controller is on the bus.
ReportedOnBus == [][recoveries' # recoveries => OnBus]_vars

\* Restarts are at least an interval apart, across the wrap of the tick.
RateLimited ==
    [][call = "verify" /\ call' \in Phases => waited = RetryInterval]_vars

\* Every bus-off is recovered from and reported.
EveryBusOffIsRecovered ==
    ~OnBus ~> /\ OnBus
              /\ bus_off_event_count = handled_bus_off_event_count

\* The same, unless a HAL call failed for good.  HAL_FDCAN_Stop that times out
\* leaves the handle in ERROR, where every later call fails; and a bus-off that
\* comes before a failed notification step is repeated is answered by repeating
\* that step, without a restart (CAN_Handle_BusOff_Recovery).
NotificationFailed == call = "idle" /\ recovery_phase = "NOTIFICATION"
HandleLost == hal_state = "ERROR"
RecoveredUnlessHalFailed ==
    <>(NotificationFailed \/ HandleLost) \/ EveryBusOffIsRecovered
=============================================================================
