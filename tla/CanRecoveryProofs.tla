------------------------- MODULE CanRecoveryProofs -------------------------
(***************************************************************************)
(* Proofs about CanRecovery for every interval, every tick width and any   *)
(* number and kind of HAL failures.                                        *)
(*                                                                         *)
(* The argument is one of counting: the main loop is never ahead of the    *)
(* interrupts (handled <= scheduled <= counted), and while the verified    *)
(* event is still the latest one, a frame transmitted since the restart    *)
(* means that the controller is on the bus.                                *)
(***************************************************************************)
EXTENDS CanRecovery, TLAPS

\* The main loop has not handled, scheduled, verified or logged an event
\* that an interrupt has not counted yet.
CountInv ==
    /\ handled_bus_off_event_count <= scheduled_bus_off_event_count
    /\ verification_bus_off_event_count <= scheduled_bus_off_event_count
    /\ scheduled_bus_off_event_count <= bus_off_event_count
    /\ logged_bus_off_event_count <= bus_off_event_count
    /\ logged_error_passive_event_count <= error_passive_event_count

\* The controller is restarted only for an event that is not handled, and
\* no verification is outstanding meanwhile.
CallInv ==
    call \in Phases =>
        /\ ~recovery_verification_pending
        /\ scheduled_bus_off_event_count # handled_bus_off_event_count

\* A frame that completed since the restart, and no bus-off since: the
\* controller is on the bus.
FrameInv ==
    recovery_verification_pending /\ Confirmed => OnBus

IInv == TypeOK /\ CountInv /\ CallInv /\ FrameInv /\ NoSilentOutage

----------------------------------------------------------------------------
\* The interval and the modulus are positive.
LEMMA Positive == RetryInterval \in Nat \ {0} /\ TickModulus \in Nat \ {0}
BY RetryAssumption

\* A tick advanced by any number of milliseconds wraps to a tick.
LEMMA TickType ==
    ASSUME NEW n \in Nat
    PROVE  n % TickModulus \in Ticks
BY Positive DEF Ticks

\* The inductive invariant holds after CAN_Recovery_Init.
LEMMA InitInv == Init => IInv
<1> SUFFICES ASSUME Init PROVE IInv
  OBVIOUS
<1>1. TypeOK
  <2>1. FlagsOK
    BY Zenon DEF Init, FlagsOK
  <2>2. CountsOK
    BY Positive DEF Init, CountsOK, Ticks
  <2>3. /\ hal_state \in {"READY", "BUSY", "ERROR"}
        /\ recovery_phase \in Phases
        /\ call \in {"idle", "schedule", "verify"} \cup Phases
    BY DEF Init, Phases
  <2> QED BY <2>1, <2>2, <2>3 DEF TypeOK, FlagsOK, CountsOK
<1>2. CountInv /\ CallInv /\ FrameInv /\ NoSilentOutage
  BY DEF Init, CountInv, CallInv, FrameInv, NoSilentOutage, Phases, OnBus,
         Confirmed
<1> QED BY <1>1, <1>2 DEF IInv

\* The log blocks count: a difference of counters is at least what is
\* recorded of it.
LEMMA LogBusOffType ==
    ASSUME TypeOK, CountInv, LogBusOff
    PROVE  /\ bus_off_log_record_count' \in Nat
           /\ bus_off_log_suppressed_count' \in Nat
           /\ bus_off_fault_episode_active' \in BOOLEAN
           /\ logged_bus_off_event_count' = bus_off_event_count
BY DEF TypeOK, FlagsOK, CountsOK, CountInv, LogBusOff

\* The parts of IInv that are not types, for a step that keeps the types.
Relations == CountInv /\ CallInv /\ FrameInv /\ NoSilentOutage

\* Interrupts and ticks preserve it at any point of a call.
LEMMA EnvironmentInv ==
    ASSUME IInv, Environment
    PROVE  IInv'
<1> USE DEF controller, time, counters, schedule, verification, busOffLog,
            passiveLog, retry, history, mainLoop
<1>1. FlagsOK'
  BY Zenon DEF IInv, TypeOK, FlagsOK, Environment, BusOff, BusOffEnds,
               ErrorPassive, TxComplete, Tick
<1>2. TypeOK'
  <2>1. CountsOK'
    <3>1. CASE Tick
      <4>1. tick' \in Ticks
        BY <3>1, TickType DEF Tick, IInv, TypeOK, CountsOK, Ticks
      <4>2. waited' \in 0 .. RetryInterval
        BY <3>1, Positive DEF Tick, IInv, TypeOK, CountsOK
      <4> QED BY <3>1, <4>1, <4>2 DEF Tick, IInv, TypeOK, CountsOK
    <3>2. CASE BusOff \/ BusOffEnds
      BY <3>2 DEF BusOff, BusOffEnds, IInv, TypeOK, CountsOK
    <3>3. CASE ErrorPassive \/ TxComplete
      BY <3>3 DEF ErrorPassive, TxComplete, IInv, TypeOK, CountsOK
    <3> QED BY <3>1, <3>2, <3>3 DEF Environment
  <2>2. UNCHANGED <<hal_state, recovery_phase, call>>
    BY DEF Environment, BusOff, BusOffEnds, ErrorPassive, TxComplete, Tick
  <2> QED BY <1>1, <2>1, <2>2 DEF IInv, TypeOK
<1>3. CASE BusOff \/ BusOffEnds
  <2>1. /\ bus_off_event_count' = bus_off_event_count + 1
        /\ UNCHANGED <<mainLoop, error_passive_event_count>>
    BY <1>3 DEF BusOff, BusOffEnds
  <2>2. CountInv' /\ CallInv'
    BY <2>1 DEF IInv, TypeOK, CountsOK, CountInv, CallInv
  <2>3. bus_off_event_count' # verification_bus_off_event_count'
        /\ bus_off_event_count' # handled_bus_off_event_count'
    BY <2>1 DEF IInv, TypeOK, CountsOK, CountInv
  <2> QED BY <1>2, <2>2, <2>3 DEF IInv, FrameInv, Confirmed, NoSilentOutage
<1>4. CASE ErrorPassive
  BY <1>2, <1>4 DEF ErrorPassive, IInv, TypeOK, CountsOK, CountInv, CallInv,
                    FrameInv, NoSilentOutage, OnBus, Confirmed
<1>5. CASE TxComplete
  BY <1>2, <1>5 DEF TxComplete, IInv, CountInv, CallInv, FrameInv,
                    NoSilentOutage, OnBus
<1>6. CASE Tick
  BY <1>2, <1>6 DEF Tick, IInv, CountInv, CallInv, FrameInv, NoSilentOutage,
                    OnBus, Confirmed
<1> QED BY <1>3, <1>4, <1>5, <1>6 DEF Environment

\* The steps of the call keep the types.
LEMMA CallStepType ==
    ASSUME IInv, CAN_Handle_BusOff_Recovery
    PROVE  TypeOK'
<1> USE DEF controller, time, counters, schedule, verification, busOffLog,
            passiveLog, retry, history, GoTo, Return, HalStops,
            HalStopTimesOut, HalStarts
<1>1. FlagsOK'
  BY Zenon
     DEF IInv, TypeOK, FlagsOK, CAN_Handle_BusOff_Recovery, RecordErrorPassive,
         ScheduleRecovery, LogBusOff, ReportRecovery, NothingToDo, Attempt,
         StopController, StartController, EnableNotifications, Fails
<1>2. CountsOK'
  <2> USE DEF IInv, TypeOK, CountsOK
  <2>1. Postpone => next_recovery_attempt_tick' \in Ticks
                    /\ waited' \in 0 .. RetryInterval
    <3>1. tick + RetryInterval \in Nat
      BY Positive DEF Ticks
    <3> QED BY <3>1, TickType, Positive DEF Postpone
  <2>2. CASE RecordErrorPassive
    BY <2>2 DEF RecordErrorPassive, CountInv
  <2>3. CASE ScheduleRecovery
    <3>1. CASE bus_off_event_count = scheduled_bus_off_event_count
      BY <2>3, <3>1 DEF ScheduleRecovery
    <3>2. CASE bus_off_event_count # scheduled_bus_off_event_count
      BY <2>1, <2>3, <3>2, LogBusOffType DEF ScheduleRecovery
    <3> QED BY <3>1, <3>2
  <2>4. CASE ReportRecovery
    BY <2>4 DEF ReportRecovery
  <2>5. CASE NothingToDo
    BY <2>5 DEF NothingToDo
  <2>6. CASE Attempt
    BY <2>1, <2>6 DEF Attempt
  <2>7. CASE StopController
    BY <2>7 DEF StopController, Fails
  <2>8. CASE StartController
    BY <2>8 DEF StartController, Fails
  <2>9. CASE EnableNotifications
    BY <2>9 DEF EnableNotifications, Fails
  <2> QED BY <2>2, <2>3, <2>4, <2>5, <2>6, <2>7, <2>8, <2>9
          DEF CAN_Handle_BusOff_Recovery
<1>3. /\ hal_state' \in {"READY", "BUSY", "ERROR"}
      /\ recovery_phase' \in Phases
      /\ call' \in {"idle", "schedule", "verify"} \cup Phases
  BY DEF IInv, TypeOK, Phases, CAN_Handle_BusOff_Recovery, RecordErrorPassive,
         ScheduleRecovery, ReportRecovery, NothingToDo, Attempt,
         StopController, StartController, EnableNotifications, Fails
<1> QED BY <1>1, <1>2, <1>3 DEF TypeOK

\* Every step of CAN_Handle_BusOff_Recovery preserves it.
LEMMA CallStepInv ==
    ASSUME IInv, CAN_Handle_BusOff_Recovery
    PROVE  Relations'
<1> USE DEF IInv, TypeOK, CountsOK, CountInv, CallInv, FrameInv,
            NoSilentOutage, Relations, OnBus, Confirmed, Phases,
            GoTo, Return
<1> USE DEF controller, time, counters, schedule, verification, busOffLog,
            passiveLog, retry, history, HalStops, HalStopTimesOut, HalStarts
<1>1. CASE RecordErrorPassive
  BY <1>1 DEF RecordErrorPassive
<1>2. CASE ScheduleRecovery
  <2>1. CASE bus_off_event_count = scheduled_bus_off_event_count
    BY <1>2, <2>1 DEF ScheduleRecovery
  <2>2. CASE bus_off_event_count # scheduled_bus_off_event_count
    BY <1>2, <2>2, LogBusOffType DEF ScheduleRecovery
  <2> QED BY <2>1, <2>2
<1>3. CASE ReportRecovery
  BY <1>3 DEF ReportRecovery
<1>4. CASE NothingToDo
  BY <1>4 DEF NothingToDo
<1>5. CASE Attempt
  BY <1>5 DEF Attempt
<1>6. CASE StopController
  BY <1>6 DEF StopController, Fails
<1>7. CASE StartController
  BY <1>7 DEF StartController, Fails
<1>8. CASE EnableNotifications
  BY <1>8 DEF EnableNotifications, Fails
<1> QED BY <1>1, <1>2, <1>3, <1>4, <1>5, <1>6, <1>7, <1>8
        DEF CAN_Handle_BusOff_Recovery

\* IInv is an invariant of the main loop and the interrupts.
THEOREM Invariance == Spec => []IInv
<1>1. IInv /\ [Next]_vars => IInv'
  <2> SUFFICES ASSUME IInv, [Next]_vars PROVE IInv'
    OBVIOUS
  <2>1. CASE Environment
    BY <2>1, EnvironmentInv
  <2>2. CASE CAN_Handle_BusOff_Recovery
    BY <2>2, CallStepType, CallStepInv DEF IInv, Relations
  <2>3. CASE UNCHANGED vars
    <3> USE <2>3 DEF vars, controller, time, counters, schedule, verification,
                     busOffLog, passiveLog, retry, history
    <3>1. TypeOK'
      BY DEF IInv, TypeOK, FlagsOK, CountsOK
    <3>2. Relations'
      BY DEF IInv, Relations, CountInv, CallInv, FrameInv, NoSilentOutage,
             OnBus, Confirmed
    <3> QED BY <3>1, <3>2 DEF IInv, Relations
  <2> QED BY <2>1, <2>2, <2>3 DEF Next
<1> QED BY <1>1, InitInv, PTL DEF Spec

\* The counts never run backwards: no difference of counters is negative.
THEOREM TypeCorrect == Spec => []TypeOK
<1>1. IInv => TypeOK
  BY DEF IInv
<1> QED BY <1>1, Invariance, PTL

\* No bus-off is lost, at whatever point of CAN_Handle_BusOff_Recovery the
\* interrupt arrives and whatever HAL calls fail.
THEOREM OutageIsNeverSilent == Spec => []NoSilentOutage
<1>1. IInv => NoSilentOutage
  BY DEF IInv
<1> QED BY <1>1, Invariance, PTL

\* A recovery is not reported while the controller is off the bus.
THEOREM ReportIsTrue == Spec => ReportedOnBus
<1>1. IInv /\ [Next]_vars => (recoveries' # recoveries => OnBus)
  <2> SUFFICES ASSUME IInv, Next, recoveries' # recoveries
               PROVE  OnBus
    BY DEF vars, history
  <2>1. CASE ReportRecovery
    BY <2>1 DEF ReportRecovery, IInv, FrameInv
  <2>2. CASE ~ReportRecovery
    BY <2>2 DEF Next, Environment, CAN_Handle_BusOff_Recovery, BusOff,
                BusOffEnds, ErrorPassive, TxComplete, Tick, mainLoop, history,
                RecordErrorPassive, ScheduleRecovery, NothingToDo, Attempt,
                StopController, StartController, EnableNotifications
  <2> QED BY <2>1, <2>2
<1> QED BY <1>1, Invariance, PTL DEF Spec, ReportedOnBus
----------------------------------------------------------------------------
\* While a bus-off is outstanding, the deadline is as many ticks ahead as are
\* missing from the interval, across the wrap.
Ahead ==
    \/ next_recovery_attempt_tick = tick + (RetryInterval - waited)
    \/ next_recovery_attempt_tick = tick + (RetryInterval - waited) - TickModulus
RateInv ==
    scheduled_bus_off_event_count # handled_bus_off_event_count
        => waited = RetryInterval \/ Ahead

\* A sum below twice the modulus is reduced by subtracting it once at most.
LEMMA Reduced ==
    ASSUME NEW n \in 0 .. (2 * TickModulus - 1)
    PROVE  n % TickModulus = IF n < TickModulus THEN n ELSE n - TickModulus
BY Positive

\* A deadline that is ahead is not due.
LEMMA AheadIsNotDue ==
    ASSUME TypeOK, Ahead, waited # RetryInterval
    PROVE  ~Due
<1> DEFINE left == RetryInterval - waited
<1>1. left \in 1 .. RetryInterval /\ 2 * left < TickModulus
  BY RetryAssumption DEF TypeOK, CountsOK
<1>2. tick \in 0 .. (TickModulus - 1) /\ TickModulus \in Nat \ {0}
  BY Positive DEF TypeOK, CountsOK, Ticks
<1>3. CASE next_recovery_attempt_tick = tick + left
  <2>1. tick - next_recovery_attempt_tick + TickModulus = TickModulus - left
    BY <1>1, <1>2, <1>3
  <2>2. TickModulus - left \in 0 .. (2 * TickModulus - 1)
    BY <1>1, <1>2
  <2>3. (TickModulus - left) % TickModulus = TickModulus - left
    BY <1>1, <1>2, <2>2, Reduced
  <2> QED BY <1>1, <1>2, <2>1, <2>3 DEF Due
<1>4. CASE next_recovery_attempt_tick = tick + left - TickModulus
  <2>1. tick - next_recovery_attempt_tick + TickModulus = 2 * TickModulus - left
    BY <1>1, <1>2, <1>4
  <2>2. 2 * TickModulus - left \in 0 .. (2 * TickModulus - 1)
    BY <1>1, <1>2
  <2>3. (2 * TickModulus - left) % TickModulus = TickModulus - left
    BY <1>1, <1>2, <2>2, Reduced
  <2> QED BY <1>1, <1>2, <2>1, <2>3 DEF Due
<1> QED BY <1>3, <1>4 DEF Ahead

\* A deadline that was just set is a whole interval ahead.
LEMMA PostponedIsAhead ==
    ASSUME TypeOK, Postpone, tick' = tick
    PROVE  Ahead'
<1>1. /\ tick \in 0 .. (TickModulus - 1) /\ TickModulus \in Nat \ {0}
      /\ RetryInterval \in Nat /\ RetryInterval < TickModulus
  BY RetryAssumption, Positive DEF TypeOK, CountsOK, Ticks
<1>2. tick + RetryInterval \in 0 .. (2 * TickModulus - 1)
  BY <1>1
<1>3. (tick + RetryInterval) % TickModulus
         \in {tick + RetryInterval, tick + RetryInterval - TickModulus}
  BY <1>1, <1>2, Reduced
<1> QED BY <1>1, <1>3 DEF Postpone, Ahead

\* A tick brings the deadline nearer by one.
LEMMA TickKeepsAhead ==
    ASSUME TypeOK, Ahead, waited # RetryInterval, Tick
    PROVE  Ahead' \/ waited' = RetryInterval
<1>1. /\ tick \in 0 .. (TickModulus - 1) /\ TickModulus \in Nat \ {0}
      /\ waited \in 0 .. (RetryInterval - 1) /\ RetryInterval \in Nat
      /\ next_recovery_attempt_tick \in 0 .. (TickModulus - 1)
      /\ RetryInterval < TickModulus
  BY RetryAssumption, Positive DEF TypeOK, CountsOK, Ticks
<1>2. /\ waited' = waited + 1
      /\ next_recovery_attempt_tick' = next_recovery_attempt_tick
      /\ tick' = (tick + 1) % TickModulus
  BY <1>1 DEF Tick, retry
<1>3. tick + 1 \in 0 .. (2 * TickModulus - 1)
  BY <1>1
<1>4. (tick + 1) % TickModulus
         = IF tick + 1 < TickModulus THEN tick + 1 ELSE tick + 1 - TickModulus
  BY <1>1, <1>3, Reduced
<1>5. tick' = IF tick + 1 < TickModulus THEN tick + 1 ELSE tick + 1 - TickModulus
  BY <1>2, <1>4
<1> QED BY <1>1, <1>2, <1>5 DEF Ahead

\* Every step preserves RateInv.
LEMMA RateStep ==
    ASSUME IInv, RateInv, [Next]_vars
    PROVE  RateInv'
<1> USE DEF controller, time, counters, schedule, verification, busOffLog,
            passiveLog, retry, history, mainLoop, GoTo, Return
<1>1. CASE Tick
  <2>1. UNCHANGED <<scheduled_bus_off_event_count, handled_bus_off_event_count,
                    next_recovery_attempt_tick>>
    BY <1>1 DEF Tick
  <2>2. waited = RetryInterval => waited' = RetryInterval
    BY <1>1, Positive DEF Tick
  <2> QED BY <1>1, <2>1, <2>2, TickKeepsAhead DEF RateInv, IInv
<1>2. CASE ScheduleRecovery
  <2>1. CASE bus_off_event_count = scheduled_bus_off_event_count
    BY <1>2, <2>1 DEF ScheduleRecovery, RateInv, Ahead
  <2>2. CASE bus_off_event_count # scheduled_bus_off_event_count
    <3>1. Postpone /\ tick' = tick
      BY <1>2, <2>2 DEF ScheduleRecovery
    <3> QED BY <3>1, PostponedIsAhead DEF RateInv, IInv
  <2> QED BY <2>1, <2>2
<1>3. CASE Attempt
  <2>1. Postpone /\ tick' = tick
    BY <1>3 DEF Attempt
  <2> QED BY <2>1, PostponedIsAhead DEF RateInv, IInv
<1>4. CASE ReportRecovery
  <2>1. handled_bus_off_event_count' = scheduled_bus_off_event_count'
    BY <1>4 DEF ReportRecovery, Confirmed, IInv, TypeOK, CountsOK, CountInv
  <2> QED BY <2>1 DEF RateInv
<1>5. CASE \/ RecordErrorPassive \/ NothingToDo \/ StopController
           \/ StartController \/ EnableNotifications
           \/ BusOff \/ BusOffEnds \/ ErrorPassive \/ TxComplete
           \/ UNCHANGED vars
  <2>1. UNCHANGED <<scheduled_bus_off_event_count, handled_bus_off_event_count,
                    next_recovery_attempt_tick, tick, waited>>
    BY <1>5 DEF RecordErrorPassive, NothingToDo, StopController,
                StartController, EnableNotifications, BusOff, BusOffEnds,
                ErrorPassive, TxComplete, vars
  <2> QED BY <2>1 DEF RateInv, Ahead
<1> QED BY <1>1, <1>2, <1>3, <1>4, <1>5
        DEF Next, Environment, CAN_Handle_BusOff_Recovery

\* Two restarts are at least an interval apart, for every width of the tick
\* counter and wherever it wraps (CAN_Handle_BusOff_Recovery).
THEOREM RestartsKeepDistance == Spec => RateLimited
<1>1. Init => RateInv
  BY DEF Init, RateInv
<1>2. IInv /\ RateInv /\ [Next]_vars => RateInv'
  BY RateStep
<1>3. IInv /\ RateInv /\ [Next]_vars
         => (call = "verify" /\ call' \in Phases => waited = RetryInterval)
  <2> SUFFICES ASSUME IInv, RateInv, [Next]_vars, call = "verify", call' \in Phases
               PROVE  waited = RetryInterval
    OBVIOUS
  <2>1. Attempt
    BY DEF Next, Environment, CAN_Handle_BusOff_Recovery, RecordErrorPassive,
           ScheduleRecovery, ReportRecovery, NothingToDo, StopController,
           StartController, EnableNotifications, BusOff, BusOffEnds,
           ErrorPassive, TxComplete, Tick, mainLoop, GoTo, Return, Phases, vars
  <2>2. Due /\ scheduled_bus_off_event_count # handled_bus_off_event_count
    BY <2>1 DEF Attempt
  <2> QED BY <2>2, AheadIsNotDue DEF RateInv, IInv
<1> QED BY <1>1, <1>2, <1>3, Invariance, PTL DEF Spec, RateLimited

----------------------------------------------------------------------------
\* An outage that is not over is the episode of the log.
EpisodeInv ==
    /\ logged_bus_off_event_count = scheduled_bus_off_event_count
    /\ scheduled_bus_off_event_count # handled_bus_off_event_count
          => bus_off_fault_episode_active
    /\ recovery_verification_pending => bus_off_fault_episode_active
    /\ OneRecordPerEpisode

\* Every step preserves EpisodeInv.
LEMMA EpisodeStep ==
    ASSUME IInv, EpisodeInv, [Next]_vars
    PROVE  EpisodeInv'
<1> USE DEF controller, time, counters, schedule, verification, busOffLog,
            passiveLog, retry, history, mainLoop, GoTo, Return
<1> USE DEF IInv, TypeOK, CountsOK, FlagsOK, CountInv, EpisodeInv,
            OneRecordPerEpisode
<1>1. CASE RecordErrorPassive
  BY <1>1 DEF RecordErrorPassive
<1>2. CASE ScheduleRecovery
  <2>1. CASE bus_off_event_count = scheduled_bus_off_event_count
    BY <1>2, <2>1 DEF ScheduleRecovery
  <2>2. CASE bus_off_event_count # scheduled_bus_off_event_count
    <3>1. LogBusOff /\ scheduled_bus_off_event_count' = bus_off_event_count
      BY <1>2, <2>2 DEF ScheduleRecovery
    <3>2. logged_bus_off_event_count' = scheduled_bus_off_event_count'
      BY <3>1 DEF LogBusOff
    <3>3. bus_off_event_count - logged_bus_off_event_count > 0
      BY <2>2
    <3>4. bus_off_fault_episode_active'
      BY <3>1, <3>3, Zenon DEF LogBusOff
    <3>5. UNCHANGED <<recoveries, passiveLog>>
      BY <1>2 DEF ScheduleRecovery
    <3>6. bus_off_log_record_count' + bus_off_log_suppressed_count'
            = logged_bus_off_event_count'
      BY <3>1 DEF LogBusOff
    <3>7. bus_off_log_record_count' = recoveries' + 1
      BY <2>2, <3>1, <3>5 DEF LogBusOff
    <3> QED BY <3>2, <3>4, <3>5, <3>6, <3>7
  <2> QED BY <2>1, <2>2
<1>3. CASE ReportRecovery
  BY <1>3 DEF ReportRecovery, Confirmed
<1>4. CASE EnableNotifications
  BY <1>4 DEF EnableNotifications, Fails, CallInv, Phases
<1>5. CASE \/ NothingToDo \/ Attempt \/ StopController \/ StartController
           \/ BusOff \/ BusOffEnds \/ ErrorPassive \/ TxComplete \/ Tick
           \/ UNCHANGED vars
  <2>1. UNCHANGED <<scheduled_bus_off_event_count, handled_bus_off_event_count,
                    recovery_verification_pending, busOffLog, passiveLog,
                    recoveries>>
    BY <1>5 DEF NothingToDo, Attempt, StopController, StartController, BusOff,
                BusOffEnds, ErrorPassive, TxComplete, Tick, vars
  <2> QED BY <2>1
<1> QED BY <1>1, <1>2, <1>3, <1>4, <1>5
        DEF Next, Environment, CAN_Handle_BusOff_Recovery

\* However often the bus fails, an outage has one record in the log, is closed
\* by one recovery, and all other events are counted
\* (CAN_Handle_BusOff_Recovery, the log blocks).
THEOREM OutageIsLoggedOnce == Spec => []OneRecordPerEpisode
<1>1. Init => EpisodeInv
  BY DEF Init, EpisodeInv, OneRecordPerEpisode
<1>2. IInv /\ EpisodeInv /\ [Next]_vars => EpisodeInv'
  BY EpisodeStep
<1>3. EpisodeInv => OneRecordPerEpisode
  BY DEF EpisodeInv
<1> QED BY <1>1, <1>2, <1>3, Invariance, PTL DEF Spec
=====================
