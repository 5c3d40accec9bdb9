--------------------------- MODULE SwitchMonitor ---------------------------
(***************************************************************************)
(* The switch monitor: Core/Src/tic12400_probe.c with the failure counting *)
(* of tic12400_recovery.c and the mask of tic12400_switch.c.               *)
(*                                                                         *)
(* The TIC12400 compares its inputs, sets SSC in INT_STAT when one of them *)
(* changes, and pulls the interrupt line.  The edge only sets a flag.  The *)
(* main loop reads INT_STAT, which clears it, and then, if SSC was set,    *)
(* the comparators; without an edge it does so at the fallback period.     *)
(* Switches move, and the device stops and starts answering, between any   *)
(* two SPI transfers.                                                      *)
(*                                                                         *)
(* A transfer that fails may have had its effect: the error flags of a     *)
(* response belong to the word before it.  Writing and verifying the       *)
(* configuration registers is one step.  Time is counted in ages, which    *)
(* stop growing where the code stops looking at them.                      *)
(***************************************************************************)
EXTENDS Integers

CONSTANTS
    Switches,           \* the fitted inputs, TIC12400_PROFILE_CARRIER_FITTED_MASK
    BatteryCapable,     \* those that may be battery switches
    FallbackPoll,       \* TIC12400_PROBE_FALLBACK_POLL_MS, in ticks
    FailureThreshold,   \* TIC12400_RECOVERY_FAILURE_THRESHOLD
    InitialDelay,       \* TIC12400_RECOVERY_INITIAL_DELAY_MS, in ticks
    MaxDelay            \* TIC12400_RECOVERY_MAX_DELAY_MS, in ticks

ASSUME SwitchAssumption == BatteryCapable \subseteq Switches

ASSUME TimeAssumption ==
    /\ FallbackPoll \in Nat \ {0} /\ FailureThreshold \in Nat \ {0}
    /\ InitialDelay \in Nat \ {0} /\ MaxDelay \in Nat
    /\ InitialDelay <= MaxDelay

VARIABLES
    closed,                     \* the switches that are closed
    device,                     \* detection started, CS_SELECT, SSC
    answers,                    \* does an SPI transfer succeed now?
    peripheral_ready,           \* tic12400_peripheral_ready
    interrupt_pending,          \* fields of g_tic12400_probe
    monitoring_started,
    switch_state_valid,
    closed_switch_bitmap,
    service_ok,                 \* service_result == TIC12400_RESULT_OK
    requested_battery_switch_mask,
    active_battery_switch_mask, \* of tic12400_active_profile
    consecutive_failures,       \* fields of tic12400_recovery_state
    reinitialization_pending,
    retry_delay_ms,
    retry_age,                  \* now - retry_started_tick, up to the delay
    service_age,                \* now - last_service_tick, up to the period
    at,                         \* where the main loop is in SampleInputs
    caller,                     \* and for whom
    unread                      \* history: an SSC was cleared and nothing read

environment == <<closed, answers, peripheral_ready>>
data == <<switch_state_valid, closed_switch_bitmap, service_ok>>
masks == <<requested_battery_switch_mask, active_battery_switch_mask>>
recovery == <<consecutive_failures, reinitialization_pending,
              retry_delay_ms, retry_age>>
monitor_vars == <<environment, device, interrupt_pending, monitoring_started,
                  data, masks, recovery, service_age, at, caller, unread>>

Callers == {"service", "boot", "reinitialize", "select"}

\* Everything is zero before TIC12400_Probe_Init; the device comes out of a
\* power-on or a reset of the processor alone, so that it may be detecting.
MonitorInit ==
    /\ closed \in SUBSET Switches /\ answers \in BOOLEAN
    /\ peripheral_ready \in BOOLEAN
    /\ device \in [active : BOOLEAN, battery : SUBSET BatteryCapable,
                   ssc : BOOLEAN]
    /\ interrupt_pending = FALSE /\ monitoring_started = FALSE
    /\ switch_state_valid = FALSE /\ closed_switch_bitmap = {}
    /\ service_ok = TRUE
    /\ requested_battery_switch_mask = {} /\ active_battery_switch_mask = {}
    /\ consecutive_failures = 0 /\ reinitialization_pending = FALSE
    /\ retry_delay_ms = 0 /\ retry_age = 0 /\ service_age = 0
    /\ at = "boot" /\ caller = "boot" /\ unread = FALSE

----------------------------------------------------------------------------
(* The device and the outside world. *)

\* A ground switch is closed when its input is below the threshold, a battery
\* switch when it is above.
Above == {s \in Switches : (s \in device.battery) <=> (s \in closed)}

\* The edge may be missed; the flag that is set at once may, in the code, be
\* set by an interrupt that was masked until the end of a reconfiguration.
SwitchMoves ==
    /\ \E s \in Switches :
           closed' = IF s \in closed THEN closed \ {s} ELSE closed \cup {s}
    /\ device' = [device EXCEPT !.ssc = device.active]
    /\ interrupt_pending' \in
           IF device.active THEN {interrupt_pending, TRUE} ELSE {interrupt_pending}
    /\ UNCHANGED <<answers, peripheral_ready, monitoring_started, data, masks,
                   recovery, service_age, at, caller, unread>>

DeviceStops ==
    /\ answers /\ answers' = FALSE
    /\ UNCHANGED <<closed, peripheral_ready, device, interrupt_pending,
                   monitoring_started, data, masks, recovery, service_age, at,
                   caller, unread>>

DeviceAnswers ==
    /\ ~answers /\ answers' = TRUE
    /\ UNCHANGED <<closed, peripheral_ready, device, interrupt_pending,
                   monitoring_started, data, masks, recovery, service_age, at,
                   caller, unread>>

\* What a configuration that failed at any register leaves in the device.
HalfConfigured(battery) ==
    [active : BOOLEAN, battery : {battery, requested_battery_switch_mask'},
     ssc : BOOLEAN]

Tick ==
    /\ at = "loop"
    /\ service_age' = IF service_age < FallbackPoll THEN service_age + 1
                                                    ELSE service_age
    /\ retry_age' = IF retry_age < retry_delay_ms THEN retry_age + 1
                                                  ELSE retry_age
    /\ UNCHANGED <<environment, device, interrupt_pending, monitoring_started,
                   data, masks, consecutive_failures, reinitialization_pending,
                   retry_delay_ms, at, caller, unread>>

----------------------------------------------------------------------------
(* Failure counting and back-off, tic12400_recovery.c. *)

Schedule(delay) ==
    /\ reinitialization_pending' = TRUE
    /\ retry_delay_ms' = delay
    /\ retry_age' = 0

NothingScheduled ==
    /\ consecutive_failures' = 0
    /\ reinitialization_pending' = FALSE
    /\ retry_delay_ms' = 0
    /\ retry_age' = 0

\* RecordInitialResult with a failure.
InitialFailed ==
    /\ consecutive_failures' = 0
    /\ Schedule(InitialDelay)

\* RecordReinitializationResult with a failure.
NextDelay ==
    CASE retry_delay_ms < InitialDelay -> InitialDelay
      [] retry_delay_ms >= MaxDelay    -> retry_delay_ms
      [] 2 * retry_delay_ms > MaxDelay -> MaxDelay
      [] OTHER                         -> 2 * retry_delay_ms

\* A mutated ReinitializationFailed: no further attempt is scheduled.
SlipReinitializationFailed == NothingScheduled

ReinitializationFailed ==
    /\ Schedule(NextDelay)
    /\ UNCHANGED consecutive_failures

ShouldReinitialize == reinitialization_pending /\ retry_age >= retry_delay_ms

\* RecordServiceResult returns 1 when this failure takes the monitor offline.
BecomesOffline ==
    /\ ~reinitialization_pending
    /\ consecutive_failures + 1 >= FailureThreshold

ServiceFailed ==
    /\ consecutive_failures' = consecutive_failures + 1
    /\ IF BecomesOffline
       THEN Schedule(InitialDelay)
       ELSE UNCHANGED <<reinitialization_pending, retry_delay_ms, retry_age>>

ServiceSucceeded ==
    /\ consecutive_failures' = 0
    /\ UNCHANGED <<reinitialization_pending, retry_delay_ms, retry_age>>

MarkOffline ==
    /\ monitoring_started' = FALSE
    /\ switch_state_valid' = FALSE
    /\ interrupt_pending' = FALSE

----------------------------------------------------------------------------
(* TIC12400_ProbeConfigureInputs and its three callers. *)

\* ConfigureInputs up to its first sample.  The trigger starts the detection,
\* whose first cycle sets SSC; SampleInputs clears the flag of the edge.
Configured(who) ==
    /\ answers
    /\ active_battery_switch_mask' = requested_battery_switch_mask'
    /\ device' = [active |-> TRUE, battery |-> requested_battery_switch_mask',
                  ssc |-> TRUE]
    /\ monitoring_started' = TRUE
    /\ switch_state_valid' = FALSE
    /\ interrupt_pending' = FALSE
    /\ unread' = FALSE
    /\ at' = "status" /\ caller' = who
    /\ UNCHANGED <<environment, service_age>>

\* ConfigureInputs fails at any register.
NotConfigured(battery) ==
    /\ ~answers
    /\ device' \in HalfConfigured(battery)
    /\ MarkOffline
    /\ unread' = FALSE
    /\ at' = "loop"
    /\ UNCHANGED <<environment, service_age, caller>>

\* TIC12400_ProbeAttemptInitialize: zeroes the snapshot, the mask and the last
\* result included, and resets the device, which forgets its polarities.  It
\* may fail before ConfigureInputs takes over the requested mask.
AttemptInitialize(who) ==
    /\ closed_switch_bitmap' = {} /\ service_ok' = TRUE
    /\ UNCHANGED requested_battery_switch_mask
    /\ \/ Configured(who)
       \/ /\ NotConfigured({})
          /\ active_battery_switch_mask' \in
                 {active_battery_switch_mask, requested_battery_switch_mask}

\* TIC12400_Probe_Init; without the SPI peripheral nothing will ever happen.
ProbeInit ==
    /\ at = "boot"
    /\ IF peripheral_ready
       THEN /\ AttemptInitialize("boot")
            /\ IF monitoring_started' THEN UNCHANGED recovery
                                      ELSE InitialFailed
       ELSE /\ InitialFailed /\ MarkOffline
            /\ at' = "loop"
            /\ UNCHANGED <<environment, device, closed_switch_bitmap, service_ok,
                           masks, service_age, caller, unread>>

\* TIC12400_Probe_Process while offline.
Reinitialize ==
    /\ at = "loop" /\ peripheral_ready /\ ~monitoring_started
    /\ ShouldReinitialize
    /\ AttemptInitialize("reinitialize")
    /\ IF monitoring_started' THEN UNCHANGED recovery
                              ELSE ReinitializationFailed

\* TIC12400_Probe_SetBatterySwitchMask; a mask that is in use is not applied
\* again, and one with other inputs than the capable ones is refused.
KeepsMask(mask) == mask = requested_battery_switch_mask /\ monitoring_started

SetBatterySwitchMask ==
    /\ at = "loop" /\ peripheral_ready
    /\ \E mask \in SUBSET BatteryCapable :
           /\ ~KeepsMask(mask)
           /\ requested_battery_switch_mask' = mask
           /\ UNCHANGED <<closed_switch_bitmap, service_ok>>
           /\ \/ Configured("select") /\ UNCHANGED recovery
              \/ /\ NotConfigured(device.battery)
                 /\ active_battery_switch_mask' = mask
                 /\ InitialFailed

----------------------------------------------------------------------------
(* TIC12400_ProbeSampleInputs, after the flag was cleared. *)

\* The end of a sample: only TIC12400_Probe_Process looks at its result.
Returns ==
    /\ at' = "loop"
    /\ service_age' = 0
    /\ UNCHANGED <<environment, masks, caller>>

\* While SetBatterySwitchMask runs, the interrupt of the trigger waits.
ConfigurationEnds ==
    /\ caller # "service"
    /\ NothingScheduled
    /\ interrupt_pending' \in
           {interrupt_pending, interrupt_pending \/ caller = "select"}
    /\ UNCHANGED monitoring_started

SampleSucceeds ==
    /\ Returns
    /\ service_ok' = TRUE
    /\ \/ /\ caller = "service"
          /\ ServiceSucceeded
          /\ UNCHANGED <<interrupt_pending, monitoring_started>>
       \/ ConfigurationEnds

SampleFails ==
    /\ Returns
    /\ service_ok' = FALSE
    /\ UNCHANGED closed_switch_bitmap
    /\ \/ /\ caller = "service" /\ ServiceFailed
          /\ IF BecomesOffline
             THEN MarkOffline
             ELSE UNCHANGED <<interrupt_pending, monitoring_started,
                              switch_state_valid>>
       \/ ConfigurationEnds /\ UNCHANGED switch_state_valid

ReadStatus ==
    /\ at = "status" /\ answers /\ device.ssc
    /\ device' = [device EXCEPT !.ssc = FALSE]
    /\ at' = "comparator"
    /\ UNCHANGED <<environment, interrupt_pending, monitoring_started, data,
                   masks, recovery, service_age, caller, unread>>

NoChange ==
    /\ at = "status" /\ answers /\ ~device.ssc
    /\ SampleSucceeds
    /\ UNCHANGED <<device, switch_state_valid, closed_switch_bitmap, unread>>

StatusFails ==
    /\ at = "status" /\ ~answers
    /\ device' \in {device, [device EXCEPT !.ssc = FALSE]}
    /\ unread' = (unread \/ device' # device)
    /\ SampleFails

\* A mutated DecodeComparatorClosed: battery switches are read like ground ones.
SlipDecodeGround(above) == {s \in Switches : s \notin above}

\* TIC12400_Profile_DecodeComparatorClosed.
DecodeComparatorClosed(above) ==
    {s \in Switches : (s \in above) <=> (s \in active_battery_switch_mask)}

\* The mask that SwitchFilter_CommitDebouncedMask stores is the decoded one;
\* its first use makes the whole mask valid.
ReadComparator ==
    /\ at = "comparator" /\ answers
    /\ closed_switch_bitmap' = DecodeComparatorClosed(Above)
    /\ switch_state_valid' = TRUE
    /\ unread' = FALSE
    /\ SampleSucceeds
    /\ UNCHANGED device

ComparatorFails ==
    /\ at = "comparator" /\ ~answers
    /\ unread' = TRUE
    /\ SampleFails
    /\ UNCHANGED device

\* A mutated Due: only the interrupt starts a service.
SlipDueByInterrupt == interrupt_pending

\* TIC12400_Probe_Process while monitoring.
Due == interrupt_pending \/ service_age >= FallbackPoll

Service ==
    /\ at = "loop" /\ peripheral_ready /\ monitoring_started
    /\ Due
    /\ interrupt_pending' = FALSE
    /\ at' = "status" /\ caller' = "service"
    /\ UNCHANGED <<environment, device, monitoring_started, data, masks,
                   recovery, service_age, unread>>

Firmware ==
    \/ ProbeInit \/ Reinitialize \/ Service
    \/ ReadStatus \/ NoChange \/ StatusFails \/ ReadComparator \/ ComparatorFails

MonitorNext ==
    \/ Firmware \/ SetBatterySwitchMask
    \/ SwitchMoves \/ DeviceStops \/ DeviceAnswers \/ Tick

MonitorSpec == MonitorInit /\ [][MonitorNext]_monitor_vars

\* The main loop keeps running and time passes.
MonitorFairSpec ==
    MonitorSpec /\ WF_monitor_vars(Firmware) /\ WF_monitor_vars(Tick)

----------------------------------------------------------------------------
(* Properties. *)

\* Type invariant: the bit fields of the snapshot, the masks within the fitted
\* inputs, and the counters of the recovery within their limits.
MonitorTypeOK ==
    /\ closed \in SUBSET Switches
    /\ device \in [active : BOOLEAN, battery : SUBSET BatteryCapable,
                   ssc : BOOLEAN]
    /\ {answers, peripheral_ready, interrupt_pending, monitoring_started,
        switch_state_valid, service_ok, reinitialization_pending, unread}
          \subseteq BOOLEAN
    /\ closed_switch_bitmap \in SUBSET Switches
    /\ requested_battery_switch_mask \in SUBSET BatteryCapable
    /\ active_battery_switch_mask \in SUBSET BatteryCapable
    /\ consecutive_failures \in 0 .. FailureThreshold
    /\ retry_delay_ms \in 0 .. MaxDelay
    /\ retry_age \in 0 .. MaxDelay
    /\ service_age \in 0 .. FallbackPoll
    /\ at \in {"boot", "loop", "status", "comparator"}
    /\ caller \in Callers

\* data_valid of TIC12400_Probe_GetSwitchState.
DataValid == switch_state_valid /\ monitoring_started /\ service_ok

\* Between two calls, data that is presented as valid is the state of the
\* switches, unless a change is still flagged in the device or was cleared
\* there without being read: whatever moves between the read of INT_STAT and
\* that of the comparators, with whatever polarity was selected last, and
\* after any sequence of failures (TIC12400_ProbeSampleInputs).
FreshData ==
    at = "loop" /\ DataValid /\ ~device.ssc /\ ~unread
        => closed_switch_bitmap = closed

\* A device that stops answering is noticed although no interrupt comes: the
\* data is invalid for good (the fallback poll of TIC12400_Probe_Process).
SilenceIsNoticed == <>[](~answers) => <>[](~DataValid)

\* When the device answers from some time on and the switches rest, valid data
\* shows them, through any back-off and re-initialization, unless the change
\* was cleared without being read (TIC12400_Probe_Process).
MonitorRecovers ==
    <>[](answers /\ peripheral_ready) /\ <>[][closed' = closed]_closed
        => \/ <>[](at = "loop" => DataValid /\ closed_switch_bitmap = closed)
           \/ <>[]unread

=============================================================================
