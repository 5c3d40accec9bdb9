-------------------------- MODULE PeripheralProofs --------------------------
(***************************************************************************)
(* Proofs about the two devices that the main loop polls, each a           *)
(* specification of its own: the switch monitor (SwitchMonitor) and the    *)
(* real-time clock (RtcAlarm).                                             *)
(*                                                                         *)
(* The switches, for every set of inputs and every delay, whatever moves   *)
(* and whichever transfers fail: the snapshot is up to date or the device  *)
(* knows that it is not, because a detection that is trusted is running    *)
(* and with the polarities of the profile in use.                          *)
(*                                                                         *)
(* The clock, for every set of alarms and any number of commands, with     *)
(* failing transfers and a full transmit queue anywhere: the argument      *)
(* follows event_reported_for_active_flag: while it is set, either the     *)
(* flag of the device is the one that was told, or a clear that failed had *)
(* taken effect; and while it is clear, nobody was told.                   *)
(***************************************************************************)
EXTENDS SwitchMonitor, RtcAlarm, TLAPS

----------------------------------------------------------------------------
(* The switch monitor. *)

\* The detection runs while it is trusted, with the polarities by which its
\* answers are decoded; it is sampled only then.
DetectionInv ==
    /\ monitoring_started =>
           device.active /\ device.battery = active_battery_switch_mask
    /\ at \in {"status", "comparator"} => monitoring_started
    /\ at = "boot" => ~monitoring_started

\* Between two samples, and when one begins, the snapshot shows the switches
\* unless the device has flagged a change or a flag was lost.  This does not
\* depend on service_ok: a failed service leaves the snapshot, and the next one
\* presents it again when the device reports no change.
SnapshotInv ==
    /\ at # "comparator" /\ switch_state_valid /\ monitoring_started
       /\ ~device.ssc /\ ~unread => closed_switch_bitmap = closed

\* While the monitor is in service, no attempt is scheduled and the failures
\* are fewer than those that end it.
FailuresInv ==
    monitoring_started /\ (at = "loop" \/ caller = "service")
        => ~reinitialization_pending /\ consecutive_failures < FailureThreshold

MonitorInv == MonitorTypeOK /\ DetectionInv /\ SnapshotInv /\ FailuresInv

\* The power-on satisfies the invariant.
LEMMA MonitorInitInv == MonitorInit => MonitorInv
<1> SUFFICES ASSUME MonitorInit PROVE MonitorInv
  OBVIOUS
<1>1. /\ consecutive_failures \in 0 .. FailureThreshold
      /\ retry_delay_ms \in 0 .. MaxDelay /\ retry_age \in 0 .. MaxDelay
      /\ service_age \in 0 .. FallbackPoll
  BY TimeAssumption DEF MonitorInit
<1>2. MonitorTypeOK
  BY <1>1 DEF MonitorInit, MonitorTypeOK, Callers
<1>3. DetectionInv /\ SnapshotInv /\ FailuresInv
  BY DEF MonitorInit, DetectionInv, SnapshotInv, FailuresInv
<1> QED BY <1>2, <1>3 DEF MonitorInv

\* What the world outside does: a switch that moves while the detection runs is
\* flagged by it.
LEMMA OutsideKeepsMonitor ==
    ASSUME MonitorInv, SwitchMoves \/ DeviceStops \/ DeviceAnswers
    PROVE  MonitorInv'
<1> USE DEF MonitorInv, environment, data, masks, recovery
<1>1. CASE SwitchMoves
  <2>1. /\ UNCHANGED <<answers, peripheral_ready, monitoring_started,
                       switch_state_valid, closed_switch_bitmap, service_ok,
                       requested_battery_switch_mask,
                       active_battery_switch_mask, consecutive_failures,
                       reinitialization_pending, retry_delay_ms, retry_age,
                       service_age, at, caller, unread>>
        /\ device' = [device EXCEPT !.ssc = device.active]
    BY <1>1 DEF SwitchMoves
  <2>2. closed' \in SUBSET Switches
    BY <1>1 DEF SwitchMoves, MonitorTypeOK
  <2>3. interrupt_pending' \in BOOLEAN
    BY <1>1 DEF SwitchMoves, MonitorTypeOK
  <2>4. /\ device' \in [active : BOOLEAN, battery : SUBSET BatteryCapable,
                        ssc : BOOLEAN]
        /\ device'.active = device.active /\ device'.battery = device.battery
        /\ device'.ssc = device.active
    BY <2>1 DEF MonitorTypeOK
  <2>5. MonitorTypeOK'
    BY <2>1, <2>2, <2>3, <2>4 DEF MonitorTypeOK
  <2> QED BY <2>1, <2>4, <2>5 DEF DetectionInv, SnapshotInv, FailuresInv
<1>2. CASE DeviceStops \/ DeviceAnswers
  <2>1. /\ UNCHANGED <<closed, peripheral_ready, device, interrupt_pending,
                       monitoring_started, switch_state_valid,
                       closed_switch_bitmap, service_ok,
                       requested_battery_switch_mask,
                       active_battery_switch_mask, consecutive_failures,
                       reinitialization_pending, retry_delay_ms, retry_age,
                       service_age, at, caller, unread>>
        /\ answers' \in BOOLEAN
    BY <1>2 DEF DeviceStops, DeviceAnswers
  <2> QED BY <2>1
          DEF MonitorTypeOK, DetectionInv, SnapshotInv, FailuresInv
<1> QED BY <1>1, <1>2

\* Time passes.
LEMMA TickKeepsMonitor == ASSUME MonitorInv, Tick PROVE MonitorInv'
<1> USE DEF MonitorInv, environment, data, masks
<1>1. /\ UNCHANGED <<closed, answers, peripheral_ready, device,
                     interrupt_pending, monitoring_started, switch_state_valid,
                     closed_switch_bitmap, service_ok,
                     requested_battery_switch_mask, active_battery_switch_mask,
                     consecutive_failures, reinitialization_pending,
                     retry_delay_ms, at, caller, unread>>
  BY DEF Tick
<1>2. service_age' \in 0 .. FallbackPoll /\ retry_age' \in 0 .. MaxDelay
  BY TimeAssumption DEF Tick, MonitorTypeOK
<1> QED BY <1>1, <1>2 DEF MonitorTypeOK, DetectionInv, SnapshotInv, FailuresInv

\* Each way to schedule an attempt keeps the recovery in its bounds.
LEMMA ScheduleTypes ==
    ASSUME MonitorTypeOK,
           \/ InitialFailed \/ ReinitializationFailed \/ NothingScheduled
           \/ UNCHANGED recovery
    PROVE  /\ consecutive_failures' \in 0 .. FailureThreshold
           /\ retry_delay_ms' \in 0 .. MaxDelay /\ retry_age' \in 0 .. MaxDelay
           /\ reinitialization_pending' \in BOOLEAN
<1>1. CASE InitialFailed
  BY <1>1, TimeAssumption DEF InitialFailed, Schedule
<1>2. CASE ReinitializationFailed
  <2>1. NextDelay \in 0 .. MaxDelay
    BY TimeAssumption DEF NextDelay, MonitorTypeOK
  <2> QED BY <1>2, <2>1, TimeAssumption
          DEF ReinitializationFailed, Schedule, MonitorTypeOK
<1>3. CASE NothingScheduled
  <2>1. consecutive_failures' = 0 /\ retry_delay_ms' = 0 /\ retry_age' = 0
    BY <1>3 DEF NothingScheduled
  <2>2. reinitialization_pending' \in BOOLEAN
    BY <1>3, Zenon DEF NothingScheduled
  <2> QED BY <2>1, <2>2, TimeAssumption
<1>4. CASE UNCHANGED recovery
  BY <1>4 DEF recovery, MonitorTypeOK
<1> QED BY <1>1, <1>2, <1>3, <1>4

\* A configuration that succeeds starts a detection with the polarities that it
\* is decoded by, and forgets the snapshot.
LEMMA ConfiguredKeepsMonitor ==
    ASSUME MonitorInv, NEW who \in Callers \ {"service"}, Configured(who),
           requested_battery_switch_mask' \in SUBSET BatteryCapable,
           closed_switch_bitmap' \in SUBSET Switches, service_ok' \in BOOLEAN,
           UNCHANGED recovery
    PROVE  MonitorInv'
<1> USE DEF MonitorInv, Configured, environment
<1>1. /\ consecutive_failures' \in 0 .. FailureThreshold
      /\ retry_delay_ms' \in 0 .. MaxDelay /\ retry_age' \in 0 .. MaxDelay
      /\ reinitialization_pending' \in BOOLEAN
  BY ScheduleTypes
<1>2. MonitorTypeOK'
  BY <1>1 DEF MonitorTypeOK
<1>3. DetectionInv'
  BY DEF DetectionInv
<1>4. SnapshotInv' /\ FailuresInv'
  BY DEF SnapshotInv, FailuresInv
<1> QED BY <1>2, <1>3, <1>4

\* One that fails leaves the monitor out of service, with nothing to trust.
LEMMA NotConfiguredKeepsMonitor ==
    ASSUME MonitorInv, NEW battery \in SUBSET BatteryCapable,
           NotConfigured(battery),
           requested_battery_switch_mask' \in SUBSET BatteryCapable,
           active_battery_switch_mask' \in SUBSET BatteryCapable,
           closed_switch_bitmap' \in SUBSET Switches, service_ok' \in BOOLEAN,
           InitialFailed \/ ReinitializationFailed
    PROVE  MonitorInv'
<1> USE DEF MonitorInv, NotConfigured, MarkOffline, environment
<1>1. /\ consecutive_failures' \in 0 .. FailureThreshold
      /\ retry_delay_ms' \in 0 .. MaxDelay /\ retry_age' \in 0 .. MaxDelay
      /\ reinitialization_pending' \in BOOLEAN
  BY ScheduleTypes
<1>2. device' \in [active : BOOLEAN, battery : SUBSET BatteryCapable,
                   ssc : BOOLEAN]
  BY DEF HalfConfigured
<1>3. MonitorTypeOK'
  BY <1>1, <1>2 DEF MonitorTypeOK
<1>4. DetectionInv' /\ SnapshotInv' /\ FailuresInv'
  BY DEF DetectionInv, SnapshotInv, FailuresInv
<1> QED BY <1>3, <1>4

\* The start and every attempt to initialize the device again.
LEMMA AttemptKeepsMonitor ==
    ASSUME MonitorInv, NEW who \in Callers \ {"service"},
           AttemptInitialize(who),
           IF monitoring_started' THEN UNCHANGED recovery
                                  ELSE InitialFailed \/ ReinitializationFailed
    PROVE  MonitorInv'
<1> USE DEF AttemptInitialize
<1>1. /\ requested_battery_switch_mask' \in SUBSET BatteryCapable
      /\ closed_switch_bitmap' \in SUBSET Switches /\ service_ok' \in BOOLEAN
  BY DEF MonitorInv, MonitorTypeOK
<1>2. CASE Configured(who)
  BY <1>1, <1>2, ConfiguredKeepsMonitor DEF Configured
<1>3. CASE /\ NotConfigured({})
           /\ active_battery_switch_mask' \in
                  {active_battery_switch_mask, requested_battery_switch_mask}
  <2>1. active_battery_switch_mask' \in SUBSET BatteryCapable
    BY <1>3 DEF MonitorInv, MonitorTypeOK
  <2>2. InitialFailed \/ ReinitializationFailed
    BY <1>3 DEF NotConfigured, MarkOffline
  <2> QED BY <1>1, <1>3, <2>1, <2>2, NotConfiguredKeepsMonitor
<1> QED BY <1>2, <1>3

\* The start without an SPI peripheral: the monitor is never in service.
LEMMA BootKeepsMonitor == ASSUME MonitorInv, ProbeInit PROVE MonitorInv'
<1>1. CASE peripheral_ready
  <2>1. AttemptInitialize("boot")
    BY <1>1 DEF ProbeInit
  <2>2. IF monitoring_started' THEN UNCHANGED recovery
                               ELSE InitialFailed \/ ReinitializationFailed
    BY <1>1 DEF ProbeInit
  <2> QED BY <2>1, <2>2, AttemptKeepsMonitor DEF Callers
<1>2. CASE ~peripheral_ready
  <2> USE DEF MonitorInv, environment, masks
  <2>1. /\ InitialFailed /\ MarkOffline /\ at' = "loop"
        /\ UNCHANGED <<closed, answers, peripheral_ready, device,
                       closed_switch_bitmap, service_ok,
                       requested_battery_switch_mask,
                       active_battery_switch_mask, service_age, caller, unread>>
    BY <1>2 DEF ProbeInit
  <2>2. /\ consecutive_failures' \in 0 .. FailureThreshold
        /\ retry_delay_ms' \in 0 .. MaxDelay /\ retry_age' \in 0 .. MaxDelay
        /\ reinitialization_pending' \in BOOLEAN
    BY <2>1, ScheduleTypes
  <2>3. MonitorTypeOK'
    BY <2>1, <2>2 DEF MonitorTypeOK, MarkOffline
  <2>4. DetectionInv' /\ SnapshotInv' /\ FailuresInv'
    BY <2>1 DEF DetectionInv, SnapshotInv, FailuresInv, MarkOffline
  <2> QED BY <2>3, <2>4
<1> QED BY <1>1, <1>2

\* A mask chosen for the battery switches is configured at once.
LEMMA MaskKeepsMonitor ==
    ASSUME MonitorInv, SetBatterySwitchMask PROVE MonitorInv'
<1>1. PICK mask \in SUBSET BatteryCapable :
          /\ requested_battery_switch_mask' = mask
          /\ UNCHANGED <<closed_switch_bitmap, service_ok>>
          /\ \/ Configured("select") /\ UNCHANGED recovery
             \/ /\ NotConfigured(device.battery)
                /\ active_battery_switch_mask' = mask
                /\ InitialFailed
  BY DEF SetBatterySwitchMask
<1>2. /\ requested_battery_switch_mask' \in SUBSET BatteryCapable
      /\ closed_switch_bitmap' \in SUBSET Switches /\ service_ok' \in BOOLEAN
      /\ device.battery \in SUBSET BatteryCapable
  BY <1>1 DEF MonitorInv, MonitorTypeOK
<1>3. CASE Configured("select") /\ UNCHANGED recovery
  BY <1>2, <1>3, ConfiguredKeepsMonitor DEF Callers
<1>4. CASE /\ NotConfigured(device.battery)
           /\ active_battery_switch_mask' = mask /\ InitialFailed
  BY <1>2, <1>4, NotConfiguredKeepsMonitor
<1> QED BY <1>1, <1>3, <1>4

\* The end of a sample keeps the counters: a failure that is not the last of
\* its series leaves them below the threshold.
LEMMA SampleEndTypes ==
    ASSUME MonitorInv, at \in {"status", "comparator"},
           SampleSucceeds \/ SampleFails
    PROVE  /\ consecutive_failures' \in 0 .. FailureThreshold
           /\ retry_delay_ms' \in 0 .. MaxDelay /\ retry_age' \in 0 .. MaxDelay
           /\ reinitialization_pending' \in BOOLEAN
           /\ interrupt_pending' \in BOOLEAN /\ monitoring_started' \in BOOLEAN
           /\ service_ok' \in BOOLEAN /\ service_age' \in 0 .. FallbackPoll
           /\ FailuresInv'
<1> USE DEF MonitorInv, MonitorTypeOK, SampleSucceeds, SampleFails, Returns
<1>1. service_age' \in 0 .. FallbackPoll /\ service_ok' \in BOOLEAN
  <2>1. service_age' = 0 /\ service_ok' \in BOOLEAN
    OBVIOUS
  <2> QED BY <2>1, TimeAssumption
<1>2. at' = "loop" /\ caller' = caller
  OBVIOUS
<1>3. monitoring_started
  BY DEF DetectionInv
<1>4. CASE ConfigurationEnds
  <2>1. NothingScheduled /\ monitoring_started' = monitoring_started
    BY <1>4 DEF ConfigurationEnds
  <2>2. interrupt_pending' \in BOOLEAN
    BY <1>4 DEF ConfigurationEnds
  <2>3. FailuresInv'
    BY <2>1, TimeAssumption DEF FailuresInv, NothingScheduled
  <2> QED BY <1>1, <2>1, <2>2, <2>3, ScheduleTypes
<1>5. CASE /\ caller = "service" /\ ServiceSucceeded
           /\ UNCHANGED <<interrupt_pending, monitoring_started>>
  <2>1. /\ consecutive_failures' = 0
        /\ UNCHANGED <<reinitialization_pending, retry_delay_ms, retry_age>>
    BY <1>5 DEF ServiceSucceeded
  <2>2. FailuresInv'
    BY <1>3, <1>5, <2>1, TimeAssumption DEF FailuresInv
  <2> QED BY <1>1, <1>5, <2>1, <2>2, TimeAssumption
<1>6. CASE /\ caller = "service" /\ ServiceFailed
           /\ BecomesOffline /\ MarkOffline
  <2>1. /\ consecutive_failures' = consecutive_failures + 1
        /\ Schedule(InitialDelay)
    BY <1>6 DEF ServiceFailed
  <2>2. consecutive_failures < FailureThreshold
    BY <1>3, <1>6 DEF FailuresInv
  <2>3. FailuresInv'
    BY <1>6 DEF FailuresInv, MarkOffline
  <2>4. reinitialization_pending' \in BOOLEAN /\ interrupt_pending' \in BOOLEAN
        /\ monitoring_started' \in BOOLEAN
    BY <1>6, <2>1, Zenon DEF Schedule, MarkOffline
  <2>5. retry_delay_ms' = InitialDelay /\ retry_age' = 0
    BY <2>1 DEF Schedule
  <2> QED BY <1>1, <2>1, <2>2, <2>3, <2>4, <2>5, TimeAssumption
<1>7. CASE /\ caller = "service" /\ ServiceFailed /\ ~BecomesOffline
           /\ UNCHANGED <<interrupt_pending, monitoring_started,
                          switch_state_valid>>
  <2>1. /\ consecutive_failures' = consecutive_failures + 1
        /\ UNCHANGED <<reinitialization_pending, retry_delay_ms, retry_age>>
    BY <1>7 DEF ServiceFailed
  <2>2. consecutive_failures + 1 < FailureThreshold /\ ~reinitialization_pending
    BY <1>3, <1>7, TimeAssumption DEF FailuresInv, BecomesOffline
  <2>3. FailuresInv'
    BY <2>1, <2>2 DEF FailuresInv
  <2>4. reinitialization_pending' \in BOOLEAN /\ interrupt_pending' \in BOOLEAN
        /\ monitoring_started' \in BOOLEAN
    BY <1>7, <2>1
  <2> QED BY <1>1, <2>1, <2>2, <2>3, <2>4, TimeAssumption
<1> QED BY <1>4, <1>5, <1>6, <1>7

\* A sample that fails leaves the snapshot as it was or marks it as invalid; a
\* flag that it has taken from the device is noted in unread.
LEMMA FailureKeepsMonitor ==
    ASSUME MonitorInv, StatusFails \/ ComparatorFails
    PROVE  MonitorInv'
<1> USE DEF StatusFails, ComparatorFails
<1>1. /\ SampleFails /\ at' = "loop" /\ at \in {"status", "comparator"}
      /\ UNCHANGED <<closed, answers, peripheral_ready, closed_switch_bitmap,
                     requested_battery_switch_mask, active_battery_switch_mask,
                     caller>>
  BY DEF SampleFails, Returns, environment, masks
<1>2. /\ switch_state_valid' \in BOOLEAN
      /\ switch_state_valid' => switch_state_valid
      /\ monitoring_started' => monitoring_started
  <2>1. CASE MarkOffline
    BY <2>1 DEF MarkOffline
  <2>2. CASE UNCHANGED <<switch_state_valid, monitoring_started>>
    BY <2>2 DEF MonitorInv, MonitorTypeOK
  <2> QED BY <1>1, <2>1, <2>2 DEF SampleFails, ConfigurationEnds
<1>3. /\ device' \in [active : BOOLEAN, battery : SUBSET BatteryCapable,
                      ssc : BOOLEAN]
      /\ device'.active = device.active /\ device'.battery = device.battery
      /\ unread' \in BOOLEAN
      /\ ~device'.ssc /\ ~unread' => at = "status" /\ ~device.ssc /\ ~unread
  <2>1. CASE StatusFails
    BY <2>1 DEF MonitorInv, MonitorTypeOK
  <2>2. CASE ComparatorFails
    BY <2>2 DEF MonitorInv, MonitorTypeOK
  <2> QED BY <2>1, <2>2
<1>4. MonitorTypeOK' /\ FailuresInv'
  BY <1>1, <1>2, <1>3, SampleEndTypes DEF MonitorInv, MonitorTypeOK
<1>5. DetectionInv'
  BY <1>1, <1>2, <1>3 DEF MonitorInv, DetectionInv
<1>6. SnapshotInv'
  BY <1>1, <1>2, <1>3 DEF MonitorInv, SnapshotInv
<1> QED BY <1>4, <1>5, <1>6 DEF MonitorInv

\* Read with the polarities of the detection, the comparators are the switches.
LEMMA DecodeIsInverse ==
    ASSUME MonitorInv, monitoring_started
    PROVE  DecodeComparatorClosed(Above) = closed
BY DEF MonitorInv, MonitorTypeOK, DetectionInv, DecodeComparatorClosed, Above

\* A sample that succeeds: there was no change, or the switches are read.
LEMMA SampleKeepsMonitor ==
    ASSUME MonitorInv, ReadStatus \/ NoChange \/ ReadComparator
    PROVE  MonitorInv'
<1>1. CASE ReadStatus
  <2> USE DEF environment, data, masks, recovery
  <2>1. /\ at = "status" /\ at' = "comparator"
        /\ device' = [device EXCEPT !.ssc = FALSE]
        /\ UNCHANGED <<closed, answers, peripheral_ready, interrupt_pending,
                       monitoring_started, switch_state_valid,
                       closed_switch_bitmap, service_ok,
                       requested_battery_switch_mask,
                       active_battery_switch_mask, consecutive_failures,
                       reinitialization_pending, retry_delay_ms, retry_age,
                       service_age, caller, unread>>
    BY <1>1 DEF ReadStatus
  <2>2. /\ device' \in [active : BOOLEAN, battery : SUBSET BatteryCapable,
                        ssc : BOOLEAN]
        /\ device'.active = device.active /\ device'.battery = device.battery
    BY <2>1 DEF MonitorInv, MonitorTypeOK
  <2>3. MonitorTypeOK'
    BY <2>1, <2>2 DEF MonitorInv, MonitorTypeOK
  <2> QED BY <2>1, <2>2, <2>3
          DEF MonitorInv, DetectionInv, SnapshotInv, FailuresInv
<1>2. CASE NoChange \/ ReadComparator
  <2>1. /\ SampleSucceeds /\ at' = "loop" /\ at \in {"status", "comparator"}
        /\ UNCHANGED <<closed, answers, peripheral_ready, device,
                       requested_battery_switch_mask,
                       active_battery_switch_mask, caller>>
    BY <1>2 DEF NoChange, ReadComparator, SampleSucceeds, Returns, environment,
                masks
  <2>2. monitoring_started /\ monitoring_started' = monitoring_started
    BY <2>1 DEF MonitorInv, DetectionInv, SampleSucceeds, ConfigurationEnds
  <2>3. DetectionInv'
    BY <2>1, <2>2 DEF MonitorInv, DetectionInv
  <2>4. CASE NoChange
    <3>1. /\ at = "status"
          /\ UNCHANGED <<switch_state_valid, closed_switch_bitmap, unread>>
      BY <2>4 DEF NoChange
    <3>2. MonitorTypeOK' /\ FailuresInv'
      BY <2>1, <3>1, SampleEndTypes DEF MonitorInv, MonitorTypeOK
    <3>3. SnapshotInv'
      BY <2>1, <2>2, <3>1 DEF MonitorInv, SnapshotInv
    <3> QED BY <2>3, <3>2, <3>3 DEF MonitorInv
  <2>5. CASE ReadComparator
    <3>1. /\ switch_state_valid' = TRUE /\ unread' = FALSE
          /\ closed_switch_bitmap' = closed
      BY <2>2, <2>5, DecodeIsInverse DEF ReadComparator
    <3>2. MonitorTypeOK' /\ FailuresInv'
      BY <2>1, <3>1, SampleEndTypes DEF MonitorInv, MonitorTypeOK
    <3>3. SnapshotInv'
      BY <2>1, <3>1 DEF SnapshotInv
    <3> QED BY <2>3, <3>2, <3>3 DEF MonitorInv
  <2> QED BY <1>2, <2>4, <2>5
<1> QED BY <1>1, <1>2

\* A service begins.
LEMMA ServiceKeepsMonitor == ASSUME MonitorInv, Service PROVE MonitorInv'
<1> USE DEF MonitorInv, environment, data, masks, recovery
<1>1. /\ at = "loop" /\ at' = "status" /\ caller' = "service"
      /\ monitoring_started /\ interrupt_pending' = FALSE
      /\ UNCHANGED <<closed, answers, peripheral_ready, device,
                     monitoring_started, switch_state_valid,
                     closed_switch_bitmap, service_ok,
                     requested_battery_switch_mask, active_battery_switch_mask,
                     consecutive_failures, reinitialization_pending,
                     retry_delay_ms, retry_age, service_age, unread>>
  BY DEF Service
<1>2. MonitorTypeOK'
  BY <1>1 DEF MonitorTypeOK, Callers
<1> QED BY <1>1, <1>2 DEF DetectionInv, SnapshotInv, FailuresInv

\* Every step of the monitor, of its device and of the switches.
LEMMA MonitorStep ==
    ASSUME MonitorInv, [MonitorNext]_monitor_vars
    PROVE  MonitorInv'
<1>1. CASE Reinitialize
  <2>1. /\ AttemptInitialize("reinitialize")
        /\ IF monitoring_started' THEN UNCHANGED recovery
                                  ELSE InitialFailed \/ ReinitializationFailed
    BY <1>1 DEF Reinitialize
  <2> QED BY <2>1, AttemptKeepsMonitor DEF Callers
<1>2. CASE UNCHANGED monitor_vars
  BY <1>2 DEF monitor_vars, environment, data, masks, recovery, MonitorInv,
              MonitorTypeOK, DetectionInv, SnapshotInv, FailuresInv
<1> QED BY <1>1, <1>2, BootKeepsMonitor, MaskKeepsMonitor, ServiceKeepsMonitor,
           SampleKeepsMonitor, FailureKeepsMonitor, OutsideKeepsMonitor,
           TickKeepsMonitor
        DEF MonitorNext, Firmware

\* The inductive invariant of the switch monitor.
THEOREM MonitorInvariance == MonitorSpec => []MonitorInv
<1>1. MonitorInv /\ [MonitorNext]_monitor_vars => MonitorInv'
  BY MonitorStep
<1> QED BY <1>1, MonitorInitInv, PTL DEF MonitorSpec

\* Type correctness of tic12400_probe.c: the masks stay within the inputs that
\* are fitted, the failures and delays of tic12400_recovery.c within its limits.
THEOREM MonitorTypeCorrect == MonitorSpec => []MonitorTypeOK
<1>1. MonitorInv => MonitorTypeOK
  BY DEF MonitorInv
<1> QED BY <1>1, MonitorInvariance, PTL

\* Switch data that is presented as valid is the state of the switches, unless a
\* change is still flagged or its flag was lost (TIC12400_ProbeSampleInputs,
\* TIC12400_Probe_GetSwitchState).
THEOREM ValidSwitchesAreFresh == MonitorSpec => []FreshData
<1>1. MonitorInv => FreshData
  BY DEF MonitorInv, SnapshotInv, FreshData, DataValid
<1> QED BY <1>1, MonitorInvariance, PTL

----------------------------------------------------------------------------
(* The clock. *)

\* What the program remembers of the flag agrees with what was sent for it.
ReportInv ==
    /\ reported => (alarm_flag /\ told # 0) \/ slipped
    /\ alarm_flag /\ ~reported => told = 0
    /\ transfer = "clear" => reported

ClockInv == RtcTypeOK /\ ReportInv /\ OneEventPerAlarm

----------------------------------------------------------------------------
\* The start of the program satisfies the invariant.
LEMMA ClockInit == RtcInit => ClockInv
<1> SUFFICES ASSUME RtcInit PROVE ClockInv
  OBVIOUS
<1>1. commands \in 0 .. MaxCommands /\ told \in 0 .. 2
  BY CommandsAssumption DEF RtcInit
<1>2. RtcTypeOK
  BY <1>1, Zenon DEF RtcInit, RtcTypeOK, Configurations, Registers
<1>3. ReportInv /\ OneEventPerAlarm
  BY DEF RtcInit, ReportInv, OneEventPerAlarm
<1> QED BY <1>2, <1>3 DEF ClockInv

\* A poll that looks at the flag: the event is sent at most once for it, and
\* the flag is cleared only after that.
LEMMA PollKeepsReport ==
    ASSUME ClockInv, NEW accepted \in BOOLEAN, PollAlarm(accepted),
           transfer = "idle", UNCHANGED alarm_flag
    PROVE  /\ ReportInv' /\ OneEventPerAlarm'
           /\ told' \in 0 .. 2 /\ reported' \in BOOLEAN /\ slipped' \in BOOLEAN
           /\ transfer' \in {"idle", "clear"}
<1> USE DEF ClockInv, RtcTypeOK, ReportInv, OneEventPerAlarm
<1>1. CASE alarm_flag /\ reported
  BY <1>1 DEF PollAlarm, AlarmFlagSeen
<1>2. CASE alarm_flag /\ ~reported
  BY <1>2 DEF PollAlarm, AlarmFlagSeen, AlarmEvent, SendAlarmEvent
<1>3. CASE ~alarm_flag
  BY <1>3 DEF PollAlarm
<1> QED BY <1>1, <1>2, <1>3

\* Clearing the flag, whether it fails, takes effect, or both.
LEMMA ClearKeepsReport ==
    ASSUME ClockInv, NEW ok \in BOOLEAN, ClearAlarmFlag(ok), UNCHANGED told,
           transfer' # "clear"
    PROVE  /\ ReportInv' /\ OneEventPerAlarm'
           /\ alarm_flag' \in BOOLEAN /\ reported' \in BOOLEAN
           /\ slipped' \in BOOLEAN
BY DEF ClockInv, RtcTypeOK, ReportInv, OneEventPerAlarm, ClearAlarmFlag

\* Every step of the program, of its commands and of the device.
LEMMA ClockStep ==
    ASSUME ClockInv, [RtcNext]_rtc_vars
    PROVE  ClockInv'
<1> USE DEF clock, program, history
<1>1. CASE ProcessInitialization \/ ProcessPendingWrite \/ ReadWatchdog
           \/ SetDateTime \/ UNCHANGED rtc_vars
  <2>1. UNCHANGED <<alarm_flag, alarm_write_state, requested,
                    alarm_read_pending, snapshot, reported, transfer, told,
                    slipped, dropped, stale>>
    BY <1>1 DEF ProcessInitialization, ProcessPendingWrite, ReadWatchdog,
                SetDateTime, rtc_vars
  <2>2. /\ ready' \in BOOLEAN /\ watchdog_read_pending' \in BOOLEAN
        /\ init_state' \in {"wait_settle", "complete"}
        /\ write_state' \in {"idle", "wait_readback"}
    BY <1>1, Zenon
       DEF ProcessInitialization, ProcessPendingWrite, ReadWatchdog,
           SetDateTime, UpdateTime, rtc_vars, ClockInv, RtcTypeOK
  <2>3. commands' \in 0 .. MaxCommands
    <3>1. \/ commands' = commands
          \/ commands < MaxCommands /\ commands' = commands + 1
      BY <1>1 DEF ProcessInitialization, ProcessPendingWrite, ReadWatchdog,
                  SetDateTime, rtc_vars
    <3> QED BY <3>1, CommandsAssumption DEF ClockInv, RtcTypeOK
  <2>4. alarm' \in Registers /\ hour_mode_12' \in BOOLEAN
    <3>1. CASE UNCHANGED <<alarm, hour_mode_12>>
      BY <3>1 DEF ClockInv, RtcTypeOK
    <3>2. CASE \E mode \in {hour_mode_12, FALSE} : SetsHourMode(mode)
      BY <3>2, Zenon DEF SetsHourMode, ClockInv, RtcTypeOK, Registers,
                         Configurations
    <3> QED BY <1>1, <3>1, <3>2
        DEF ProcessInitialization, ProcessPendingWrite, ReadWatchdog,
            SetDateTime, rtc_vars
  <2> QED BY <2>1, <2>2, <2>3, <2>4
         DEF ClockInv, RtcTypeOK, ReportInv, OneEventPerAlarm
<1>2. CASE ProcessPendingAlarmWrite \/ ReadAlarm
  <2>1. UNCHANGED <<clock, init_state, ready, write_state, requested,
                    watchdog_read_pending, reported, transfer, commands, told,
                    slipped, dropped>>
    BY <1>2 DEF ProcessPendingAlarmWrite, ReadAlarm
  <2>2. PICK ok \in BOOLEAN : RefreshAlarmSnapshot(ok)
    BY <1>2 DEF ProcessPendingAlarmWrite, ReadAlarm
  <2>3. snapshot' \in [read_ok : BOOLEAN, alarm : Registers]
    BY <2>2 DEF RefreshAlarmSnapshot, ClockInv, RtcTypeOK, Registers,
                Configurations
  <2>4. stale' \in BOOLEAN
    BY <2>2, Zenon DEF RefreshAlarmSnapshot
  <2>5. /\ alarm_write_state' \in {"idle", "wait_readback"}
        /\ alarm_read_pending' \in BOOLEAN
    BY <1>2, Zenon DEF ProcessPendingAlarmWrite, ReadAlarm, ClockInv, RtcTypeOK
  <2> QED BY <2>1, <2>3, <2>4, <2>5
         DEF ClockInv, RtcTypeOK, ReportInv, OneEventPerAlarm
<1>3. ASSUME NEW reads \in BOOLEAN, NEW ok \in BOOLEAN, NEW polls \in BOOLEAN,
             NEW accepted \in BOOLEAN, Poll(reads, ok, polls, accepted)
      PROVE  ClockInv'
  <2>1. /\ UNCHANGED <<clock, init_state, write_state, alarm_write_state,
                       requested, watchdog_read_pending, alarm_read_pending,
                       snapshot, commands, dropped, stale>>
        /\ transfer = "idle"
    BY <1>3 DEF Poll
  <2>2. ready' \in BOOLEAN
    BY <1>3 DEF Poll, UpdateTime, ClockInv, RtcTypeOK
  <2>3. CASE PollAlarm(accepted)
    BY <2>1, <2>2, <2>3, PollKeepsReport DEF ClockInv, RtcTypeOK
  <2>4. CASE UNCHANGED <<reported, told, slipped, transfer>>
    BY <2>1, <2>2, <2>4 DEF ClockInv, RtcTypeOK, ReportInv, OneEventPerAlarm
  <2> QED BY <1>3, <2>3, <2>4 DEF Poll
<1>4. CASE ClearAfterEvent
  BY <1>4, ClearKeepsReport DEF ClearAfterEvent, ClockInv, RtcTypeOK
<1>5. ASSUME NEW config \in Configurations, SetAlarm(config)
      PROVE  ClockInv'
  <2>1. PICK ok \in BOOLEAN :
            /\ ClearAlarmFlag(ok)
            /\ requested' = IF ok THEN config ELSE requested
            /\ transfer' = IF ok THEN "write" ELSE "idle"
    BY <1>5 DEF SetAlarm
  <2>2. ReportInv' /\ OneEventPerAlarm' /\ alarm_flag' \in BOOLEAN
        /\ reported' \in BOOLEAN /\ slipped' \in BOOLEAN
    BY <1>5, <2>1, ClearKeepsReport DEF SetAlarm
  <2>3. dropped' \in BOOLEAN
    BY <1>5, Zenon DEF SetAlarm
  <2> QED BY <1>5, <2>1, <2>2, <2>3, CommandsAssumption
         DEF SetAlarm, ClockInv, RtcTypeOK
<1>6. CASE WriteAlarm
  <2>1. /\ UNCHANGED <<alarm_flag, hour_mode_12, init_state, ready,
                       write_state, requested, watchdog_read_pending,
                       snapshot, reported, commands, told, slipped, dropped>>
        /\ transfer' = "idle"
    BY <1>6 DEF WriteAlarm
  <2>2. /\ alarm' \in Registers /\ stale' \in BOOLEAN
        /\ alarm_read_pending' \in BOOLEAN
        /\ alarm_write_state' \in {"idle", "wait_readback"}
    BY <1>6 DEF WriteAlarm, ClockInv, RtcTypeOK, Registers
  <2> QED BY <2>1, <2>2 DEF ClockInv, RtcTypeOK, ReportInv, OneEventPerAlarm
<1>7. CASE AlarmFires
  <2>1. told' \in 0 .. 2 /\ (told < 2 => told' < 2)
    BY <1>7 DEF AlarmFires, ClockInv, RtcTypeOK
  <2>2. ReportInv'
    BY <1>7 DEF AlarmFires, ClockInv, RtcTypeOK, ReportInv
  <2>3. alarm_flag' \in BOOLEAN /\ dropped' \in BOOLEAN
    BY <1>7, Zenon DEF AlarmFires
  <2> QED BY <1>7, <2>1, <2>2, <2>3
         DEF AlarmFires, ClockInv, RtcTypeOK, OneEventPerAlarm
<1> QED BY <1>1, <1>2, <1>3, <1>4, <1>5, <1>6, <1>7 DEF RtcNext

\* The inductive invariant: the types, and that what the program remembers of
\* the alarm flag agrees with what was sent for it.
THEOREM ClockInvariance == RtcSpec => []ClockInv
<1>1. ClockInv /\ [RtcNext]_rtc_vars => ClockInv'
  BY ClockStep
<1> QED BY <1>1, ClockInit, PTL DEF RtcSpec

\* Type correctness of rtc_app.c and of the device.
THEOREM ClockTypeCorrect == RtcSpec => []RtcTypeOK
<1>1. ClockInv => RtcTypeOK
  BY DEF ClockInv
<1> QED BY <1>1, ClockInvariance, PTL

\* No alarm is sent twice, however often the transmit queue refuses the event
\* and the flag cannot be cleared (RTC_ProcessAlarmEvent).
THEOREM AlarmIsToldOnce == RtcSpec => []OneEventPerAlarm
<1>1. ClockInv => OneEventPerAlarm
  BY DEF ClockInv
<1> QED BY <1>1, ClockInvariance, PTL

\* The poll clears no flag that nobody was told of (RTC_ProcessAlarmEvent).
THEOREM ClearedAlarmWasSent == RtcSpec => ClearedMeansSent
<1>1. ClockInv => (alarm_flag /\ ~alarm_flag' /\ transfer = "clear"
                      => told # 0 \/ slipped)
  BY DEF ClockInv, ReportInv
<1> QED BY <1>1, ClockInvariance, PTL DEF RtcSpec, ClearedMeansSent
=============================================================================
