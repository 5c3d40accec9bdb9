--------------------------- MODULE ControlProofs ----------------------------
(***************************************************************************)
(* Proofs about ControlSystem for every number of test points, waveforms,  *)
(* limits and times, and for a tick counter of any even modulus that is    *)
(* large enough.                                                           *)
(*                                                                         *)
(* What the switches inhibit: whoever turns the output on, it is either on *)
(* or under test only while the switch data permits it, and every pass     *)
(* that takes new data asks again.  The window: while it is open, the time *)
(* left and the time since the press add up to its length, until the       *)
(* deadline is passed and noticed.                                         *)
(*                                                                         *)
(* The waveform: the pulse is set in whole counts and saved as a rounded   *)
(* percentage, and the self test sets what it saved again.  Saving and     *)
(* setting give the pulse back (PulseRoundTrip), so what is shown is what  *)
(* is output although neither is what was asked for (CommandInv).          *)
(***************************************************************************)
EXTENDS ControlSystem, SequenceTheorems, TLAPS

Waves == [running : BOOLEAN, frequency : Int, duty : Int, pulse : Int]

Tests == [phase : {"idle", "apply", "settle"}, point : Int, age : Int,
          saved : Waves]

\* An output whose test, if it runs, is at one of the points.
Outputs == {o \in [pwm : Waves, test : Tests] :
                Testing(o) => o.test.point \in DOMAIN TestPoints}

\* On or under test.
Used(o) == o.pwm.running \/ Testing(o)

----------------------------------------------------------------------------
(* What the operators of PwmControl and of the self test return.           *)

\* A waveform is set without starting or stopping the output.
LEMMA WaveformKeepsRunning ==
    ASSUME NEW w \in Waves, NEW frequency \in Int, NEW duty \in Int
    PROVE  /\ Waveform(w, frequency, duty) \in Waves
           /\ Waveform(w, frequency, duty).running = w.running
<1> DEFINE period == PeriodTicks(frequency)
           pulse  == PulseTicks(period, duty)
<1>1. CASE SetFails(frequency)
  BY <1>1 DEF Waveform
<1>2. CASE ~SetFails(frequency)
  <2>1. frequency \in 1 .. MaxFrequency /\ ~(period < 1)
    BY <1>2 DEF SetFails
  <2>2. period \in Int
    BY <2>1, ClockAssumption DEF PeriodTicks
  <2>3. pulse \in Int
    BY <2>2 DEF PulseTicks
  <2> HIDE DEF period, pulse
  <2>4. DutyPercent(period, pulse) \in Int
    BY <2>1, <2>2, <2>3 DEF DutyPercent
  <2>5. Waveform(w, frequency, duty) =
            [w EXCEPT !.frequency = frequency, !.pulse = pulse,
                      !.duty = DutyPercent(period, pulse)]
    BY <1>2 DEF Waveform, period, pulse
  <2> QED BY <2>3, <2>4, <2>5 DEF Waves
<1> QED BY <1>1, <1>2

\* Starting may fail; stopping may not.
LEMMA StartAndStop ==
    ASSUME NEW w \in Waves, NEW ok \in BOOLEAN
    PROVE  /\ Running(w, ok) \in Waves
           /\ Stopped(w) \in Waves /\ ~Stopped(w).running
BY DEF Running, Stopped, Waves

\* A test that ends leaves an output without a test.
LEMMA RestoredEndsTest ==
    ASSUME NEW o \in Outputs, NEW ok \in BOOLEAN
    PROVE  Restored(o, ok) \in Outputs /\ ~Testing(Restored(o, ok))
<1> DEFINE saved == o.test.saved
           wave  == IF saved.frequency = 0
                    THEN o.pwm
                    ELSE Waveform(o.pwm, saved.frequency, saved.duty)
<1>1. saved \in Waves /\ o.pwm \in Waves
  BY DEF Outputs, Tests
<1>2. saved.frequency \in Int /\ saved.duty \in Int
  BY <1>1 DEF Waves
<1>3. wave \in Waves
  BY <1>1, <1>2, WaveformKeepsRunning
<1>4. NoTest \in Tests /\ NoTest.phase = "idle"
  BY DEF NoTest, NoPwm, Tests, Waves
<1> HIDE DEF wave, saved
<1>5. Restored(o, ok) =
          [pwm |-> IF saved.running THEN Running(wave, ok) ELSE Stopped(wave),
           test |-> NoTest]
  BY DEF Restored, saved, wave
<1>6. (IF saved.running THEN Running(wave, ok) ELSE Stopped(wave)) \in Waves
  BY <1>3, StartAndStop
<1> QED BY <1>4, <1>5, <1>6 DEF Outputs, Testing

\* The points: there is a first one, a last one, and all have a waveform.
LEMMA TestPointsAreDefined ==
    /\ DOMAIN TestPoints = 1 .. Len(TestPoints)
    /\ Len(TestPoints) \in Nat \ {0}
    /\ \A i \in DOMAIN TestPoints :
           TestPoints[i].frequency \in Int /\ TestPoints[i].duty \in Int
<1> DEFINE S == [frequency : 0 .. MaxFrequency, duty : 0 .. 100]
<1>1. TestPoints \in Seq(S) /\ TestPoints # << >>
  BY TestAssumption
<1>2. \A point \in S : point.frequency \in Int /\ point.duty \in Int
  BY ClockAssumption
<1> HIDE DEF S
<1>3. /\ DOMAIN TestPoints = 1 .. Len(TestPoints)
      /\ Len(TestPoints) \in Nat
      /\ \A i \in DOMAIN TestPoints : TestPoints[i] \in S
  BY <1>1
<1>4. Len(TestPoints) # 0
  BY <1>1, EmptySeq
<1> QED BY <1>2, <1>3, <1>4

\* The point that is applied.
LEMMA PointAppliedType ==
    ASSUME NEW o \in Outputs, NEW ok \in BOOLEAN, Testing(o)
    PROVE  PointApplied(o, ok) \in Waves
<1> DEFINE point == TestPoints[o.test.point]
<1>1. o.test.point \in DOMAIN TestPoints
  BY DEF Outputs
<1>2. point.frequency \in Int /\ point.duty \in Int
  BY <1>1, TestPointsAreDefined
<1>3. o.pwm \in Waves
  BY DEF Outputs
<1> HIDE DEF point
<1>4. PointApplied(o, ok) =
          IF point.frequency = 0
          THEN Stopped(o.pwm)
          ELSE Running(Waveform(o.pwm, point.frequency, point.duty), ok)
  BY DEF PointApplied, point
<1> QED BY <1>2, <1>3, <1>4, WaveformKeepsRunning, StartAndStop

\* A test that moves on is at one of the points.
LEMMA TestAtIsTest ==
    ASSUME NEW o \in Outputs, NEW phase \in {"apply", "settle"},
           NEW point \in DOMAIN TestPoints, NEW saved \in Waves
    PROVE  [o EXCEPT !.test = TestAt(phase, point, saved)] \in Outputs
<1>1. TestAt(phase, point, saved) \in Tests
  BY TestPointsAreDefined DEF TestAt, Tests
<1>2. TestAt(phase, point, saved).point = point
  BY DEF TestAt
<1> QED BY <1>1, <1>2 DEF Outputs, Testing

\* App_Control_ApplyPwm: against the permission nothing stays on.
LEMMA ApplyPwmNeedsPermission ==
    ASSUME NEW o \in Outputs, NEW permitted \in BOOLEAN,
           NEW effective \in BOOLEAN, NEW ok \in BOOLEAN,
           effective => permitted
    PROVE  /\ ApplyPwm(o, permitted, effective, ok) \in Outputs
           /\ Used(ApplyPwm(o, permitted, effective, ok)) => permitted
<1>1. o.pwm \in Waves
  BY DEF Outputs
<1>2. CASE Testing(o) /\ permitted
  BY <1>2 DEF ApplyPwm
<1>3. CASE Testing(o) /\ ~permitted
  <2> DEFINE cancelled == SelfTestCancel(o, ok)
  <2>1. cancelled \in Outputs /\ ~Testing(cancelled)
    BY <1>3, RestoredEndsTest DEF SelfTestCancel
  <2> HIDE DEF cancelled
  <2>2. ApplyPwm(o, permitted, effective, ok) =
            [cancelled EXCEPT !.pwm = Stopped(cancelled.pwm)]
    BY <1>3 DEF ApplyPwm, cancelled
  <2>3. cancelled.pwm \in Waves
    BY <2>1 DEF Outputs
  <2> QED BY <2>1, <2>2, <2>3, StartAndStop DEF Outputs, Testing, Used
<1>4. CASE ~Testing(o)
  <2>1. ApplyPwm(o, permitted, effective, ok) =
            [o EXCEPT !.pwm = IF effective THEN Running(o.pwm, ok)
                                           ELSE Stopped(o.pwm)]
    BY <1>4 DEF ApplyPwm
  <2>2. /\ Running(o.pwm, ok) \in Waves
        /\ Stopped(o.pwm) \in Waves /\ ~Stopped(o.pwm).running
    BY <1>1, StartAndStop
  <2> QED BY <1>4, <2>1, <2>2 DEF Outputs, Testing, Used
<1> QED BY <1>2, <1>3, <1>4

\* The self test changes only an output that it already owns.
LEMMA SelfTestKeepsOwner ==
    ASSUME NEW o \in Outputs, NEW ok \in BOOLEAN
    PROVE  /\ SelfTestProcess(o, ok) \in Outputs
           /\ Used(SelfTestProcess(o, ok)) => Used(o)
<1>1. CASE ~Testing(o)
  BY <1>1 DEF SelfTestProcess, Testing
<1>2. CASE o.test.phase = "apply"
  <2> DEFINE applied == [o EXCEPT !.pwm = PointApplied(o, ok)]
             settled == [applied EXCEPT !.test = TestAt("settle", o.test.point,
                                                        o.test.saved)]
  <2>1. Testing(o)
    BY <1>2 DEF Testing
  <2>2. PointApplied(o, ok) \in Waves
    BY <2>1, PointAppliedType
  <2>3. applied \in Outputs /\ applied.test = o.test
    BY <2>2 DEF Outputs, Testing
  <2>4. settled \in Outputs
    <3>1. o.test.saved \in Waves /\ o.test.point \in DOMAIN TestPoints
      BY <2>1 DEF Outputs, Tests
    <3> HIDE DEF applied
    <3> QED BY <2>3, <3>1, TestAtIsTest
  <2>5. SelfTestProcess(o, ok) \in
            {settled, Restored(applied, ok)}
    BY <1>2, <2>1 DEF SelfTestProcess
  <2> HIDE DEF applied, settled
  <2> QED BY <2>1, <2>3, <2>4, <2>5, RestoredEndsTest DEF Used
<1>3. CASE o.test.phase = "settle" /\ o.test.age < SettleTime
  BY <1>3 DEF SelfTestProcess, Testing
<1>4. CASE o.test.phase = "settle" /\ ~(o.test.age < SettleTime)
  <2>1. Testing(o)
    BY <1>4 DEF Testing
  <2>2. CASE o.test.point = Len(TestPoints)
    BY <1>4, <2>1, <2>2, RestoredEndsTest DEF SelfTestProcess, Testing, Used
  <2>3. CASE o.test.point # Len(TestPoints)
    <3>1. /\ o.test.point + 1 \in DOMAIN TestPoints
          /\ o.test.saved \in Waves
      BY <2>1, <2>3, TestPointsAreDefined DEF Outputs, Tests
    <3>2. SelfTestProcess(o, ok) =
              [o EXCEPT !.test = TestAt("apply", o.test.point + 1, o.test.saved)]
      BY <1>4, <2>1, <2>3 DEF SelfTestProcess, Testing
    <3> QED BY <2>1, <3>1, <3>2, TestAtIsTest DEF Used
  <2> QED BY <2>2, <2>3
<1>5. o.test.phase \in {"idle", "apply", "settle"}
  BY DEF Outputs, Tests
<1> QED BY <1>1, <1>2, <1>3, <1>4, <1>5 DEF Testing

----------------------------------------------------------------------------
(* The invariant and what the steps do to its parts.                       *)

OutputInv ==
    /\ output \in Outputs
    /\ pwm_requested \in BOOLEAN /\ switch_data_valid \in BOOLEAN
    /\ Used(output) => Permitted("pwm")

TxSlots == [configured : BOOLEAN, active : BOOLEAN, requested : BOOLEAN,
            running : BOOLEAN, limit : Int, counter : Int, age : Int]

SlotInv ==
    /\ slot \in TxSlots
    /\ slot.requested => started /\ slot.active
    /\ SlotRunsAsStarted

AccessInv ==
    /\ time_left \in 0 .. TickModulus - 1 /\ press_age \in 0 .. Window
    /\ access_active =>
          \/ time_left \in 1 .. Window /\ press_age = Window - time_left
          \/ /\ time_left = 0 \/ time_left >= TickModulus - MaxLate
             /\ press_age = Window

IInv == OutputInv /\ SlotInv /\ AccessInv

\* The program starts without output, slot and window.
LEMMA InitInv == Init => IInv
<1> SUFFICES ASSUME Init PROVE IInv
  OBVIOUS
<1>1. NoPwm \in Waves /\ NoTest \in Tests /\ NoTest.phase = "idle"
      /\ ~NoPwm.running
  BY DEF NoPwm, NoTest, Waves, Tests
<1>2. Waveform(NoPwm, DefaultFrequency, DefaultDuty) \in Waves
      /\ ~Waveform(NoPwm, DefaultFrequency, DefaultDuty).running
  <2>1. DefaultFrequency \in Int /\ DefaultDuty \in Int
    BY DefaultAssumption, ClockAssumption
  <2> QED BY <1>1, <2>1, WaveformKeepsRunning
<1>3. OutputInv
  BY <1>1, <1>2 DEF Init, ControlInit, OutputInv, output, Outputs, Testing, Used
<1>4. SlotInv
  BY DEF Init, NoSlot, SlotInv, TxSlots, SlotRunsAsStarted
<1>5. AccessInv
  BY AccessAssumption DEF Init, AccessInit, AccessInv
<1> QED BY <1>3, <1>4, <1>5 DEF IInv

\* CAN_ControlAccess_Update: a window that is open after it was opened by a
\* press less than its length ago.
LEMMA UpdateClosesWindow ==
    ASSUME AccessInv, AccessUpdate
    PROVE  AccessInv' /\ (access_active' => press_age' < Window)
<1> USE AccessAssumption
<1>1. CASE access_requested
  BY <1>1 DEF AccessUpdate, AccessInv
<1>2. CASE ~access_requested /\ access_active /\ Expired
  BY <1>2 DEF AccessUpdate, AccessInv
<1>3. CASE ~access_requested /\ ~(access_active /\ Expired)
  BY <1>3 DEF AccessUpdate, AccessInv, Expired, access
<1> QED BY <1>1, <1>2, <1>3

\* The passing of time.
LEMMA TickKeepsWindow ==
    ASSUME AccessInv, AccessTick
    PROVE  AccessInv'
<1> USE AccessAssumption DEF AccessTick, AccessInv
<1>1. CASE ~access_active
  BY <1>1
<1>2. CASE access_active /\ time_left = 0
  BY <1>2
<1>3. CASE access_active /\ time_left > 0
  BY <1>3
<1> QED BY <1>1, <1>2, <1>3

\* The operands of a command are those of its name.
LEMMA CommandOperands ==
    ASSUME NEW c \in Commands
    PROVE  /\ c.name = "pwm" => c.frequency \in Int /\ c.duty \in Int
           /\ c.name = "start_slot" => c.limit \in Int
           /\ c.name = "set_slot" => c.enable \in BOOLEAN
           /\ c.name = "led" => c.on \in BOOLEAN
           /\ c.name = "self_test" => c.start \in BOOLEAN
<1>1. CASE c \in [name : {"set_slot"}, enable : BOOLEAN]
  BY <1>1
<1>2. CASE c \in [name : {"start_slot"}, limit : Limits]
  <2>1. c.name = "start_slot" /\ c.limit \in Limits
    BY <1>2
  <2>2. \A limit \in Limits : limit \in Int
    BY CommandAssumption
  <2> QED BY <2>1, <2>2
<1>3. CASE c \in [name : {"led"}, on : BOOLEAN]
  BY <1>3
<1>4. CASE c \in [name : {"pwm"}, frequency : Frequencies, duty : Duties]
  <2>1. c.name = "pwm" /\ c.frequency \in Frequencies /\ c.duty \in Duties
    BY <1>4
  <2>2. /\ \A frequency \in Frequencies : frequency \in Int
        /\ \A duty \in Duties : duty \in Int
    BY CommandAssumption, ClockAssumption
  <2> QED BY <2>1, <2>2
<1>5. CASE c = [name |-> "pwm_off"]
  BY <1>5
<1>6. CASE c \in [name : {"self_test"}, start : BOOLEAN]
  BY <1>6
<1> QED BY <1>1, <1>2, <1>3, <1>4, <1>5, <1>6 DEF Commands

\* What a command leaves of the output.
LEMMA CommandKeepsOutput ==
    ASSUME OutputInv, NEW c \in Commands, NEW ok \in BOOLEAN, Execute(c, ok),
           UNCHANGED policy
    PROVE  /\ OutputInv'
           /\ ~IsPrivileged(c) /\ Testing(output)' => Testing(output)
           /\ ~IsPrivileged(c) /\ pwm_requested' => pwm_requested
<1> DEFINE o == SelfTestCancel(output, ok)
<1>1. output \in Outputs
  BY DEF OutputInv
<1>2. o \in Outputs /\ (Used(o) => Used(output)) /\ ~Testing(o)
  BY <1>1, RestoredEndsTest DEF SelfTestCancel, Used
<1>3. /\ UNCHANGED <<switch_data_valid, closed_switches>>
      /\ Permitted("pwm")' = Permitted("pwm")
  BY DEF policy, Permitted
<1>4. ASSUME NEW r \in Outputs, OutputBecomes(r)
      PROVE  output' = r
  BY <1>4 DEF OutputBecomes, output, Outputs
<1> HIDE DEF o
<1>5. CASE SetSlot(c) \/ StartSlot(c) \/ SetLed(c)
  <2>1. UNCHANGED <<pwm_requested, pwm, test>>
    BY <1>5 DEF SetSlot, StartSlot, SetLed
  <2>2. UNCHANGED output
    BY <2>1 DEF output
  <2> QED BY <1>3, <2>1, <2>2 DEF OutputInv
<1>6. CASE SetPwm(c, ok)
  <2> DEFINE r == [o EXCEPT !.pwm = Waveform(o.pwm, c.frequency, c.duty)]
  <2>1. c.name = "pwm" /\ OutputBecomes(r) /\ pwm_requested' \in {pwm_requested, TRUE}
    BY <1>6 DEF SetPwm, o
  <2>2. o.pwm \in Waves
    BY <1>2 DEF Outputs
  <2>3. /\ Waveform(o.pwm, c.frequency, c.duty) \in Waves
        /\ Waveform(o.pwm, c.frequency, c.duty).running = o.pwm.running
    BY <2>1, <2>2, CommandOperands, WaveformKeepsRunning
  <2>4. r \in Outputs /\ (Used(r) => Used(o))
    BY <1>2, <2>3 DEF Outputs, Testing, Used
  <2>5. output' = r
    BY <1>4, <2>1, <2>4
  <2>6. IsPrivileged(c)
    BY <2>1 DEF IsPrivileged
  <2> HIDE DEF r
  <2> QED BY <1>2, <1>3, <2>1, <2>4, <2>5, <2>6 DEF OutputInv
<1>7. CASE StopPwm(c, ok)
  <2>1. OutputBecomes(o) /\ pwm_requested' = FALSE
    BY <1>7 DEF StopPwm, o
  <2>2. output' = o
    BY <1>2, <1>4, <2>1
  <2> QED BY <1>2, <1>3, <2>1, <2>2 DEF OutputInv
<1>8. CASE SelfTest(c, ok)
  <2>1. UNCHANGED pwm_requested /\ c.start \in BOOLEAN /\ c.name = "self_test"
    BY <1>8, CommandOperands DEF SelfTest, requests
  <2>2. CASE c.start /\ Permitted("pwm")
    <3> DEFINE r == SelfTestStart(output)
    <3>1. OutputBecomes(r)
      BY <1>8, <2>2 DEF SelfTest
    <3>2. output.pwm \in Waves /\ 1 \in DOMAIN TestPoints
      BY <1>1, TestPointsAreDefined DEF Outputs
    <3>3. r \in Outputs
      BY <1>1, <3>2, TestAtIsTest DEF SelfTestStart
    <3>4. output' = r
      BY <1>4, <3>1, <3>3
    <3>5. IsPrivileged(c)
      BY <2>1, <2>2 DEF IsPrivileged
    <3> HIDE DEF r
    <3> QED BY <1>3, <2>1, <2>2, <3>3, <3>4, <3>5 DEF OutputInv
  <2>3. CASE c.start /\ ~Permitted("pwm")
    <3>1. OutputBecomes(output)
      BY <1>8, <2>3 DEF SelfTest
    <3>2. output' = output
      BY <1>1, <1>4, <3>1
    <3> QED BY <1>3, <2>1, <3>2 DEF OutputInv
  <2>4. CASE ~c.start
    <3>1. OutputBecomes(o)
      BY <1>8, <2>4 DEF SelfTest, o
    <3>2. output' = o
      BY <1>2, <1>4, <3>1
    <3> QED BY <1>2, <1>3, <2>1, <3>2 DEF OutputInv
  <2> QED BY <2>1, <2>2, <2>3, <2>4
<1> QED BY <1>5, <1>6, <1>7, <1>8 DEF Execute

\* What a command leaves of the slot and of the requests of the policy.
LEMMA CommandKeepsSlot ==
    ASSUME SlotInv, NEW c \in Commands, NEW ok \in BOOLEAN, Execute(c, ok),
           at' # "control"
    PROVE  /\ SlotInv'
           /\ ~IsPrivileged(c) =>
                 /\ slot_requested' => slot_requested
                 /\ slot.requested' => slot.requested
                 /\ led_1_requested' => led_1_requested
                 /\ slot.active' => slot.active
<1> USE DEF SlotInv, SlotRunsAsStarted
<1>1. CASE SetSlot(c)
  <2>1. c.name = "set_slot" /\ c.enable \in BOOLEAN
    BY <1>1, CommandOperands DEF SetSlot
  <2>2. /\ slot' = [slot EXCEPT !.configured = TRUE, !.active = c.enable,
                                !.requested = FALSE, !.running = FALSE,
                                !.counter = 0]
        /\ slot_requested' = FALSE /\ UNCHANGED led_1_requested
    BY <1>1 DEF SetSlot
  <2>3. /\ slot' \in TxSlots /\ ~slot'.running
        /\ slot'.active = c.enable /\ slot'.requested = FALSE
    <3> DEFINE enable == c.enable
               none   == 0
    <3>1. enable \in BOOLEAN /\ none \in Int
      BY <2>1
    <3>2. slot' = [slot EXCEPT !.configured = TRUE, !.active = enable,
                               !.requested = FALSE, !.running = FALSE,
                               !.counter = none]
      BY <2>2
    <3> HIDE DEF enable, none
    <3>3. /\ slot' \in TxSlots /\ ~slot'.running
          /\ slot'.active = enable /\ slot'.requested = FALSE
      BY <3>1, <3>2 DEF TxSlots
    <3> QED BY <3>3 DEF enable
  <2>4. c.enable => IsPrivileged(c)
    BY <2>1 DEF IsPrivileged
  <2> QED BY <2>1, <2>2, <2>3, <2>4
<1>2. CASE StartSlot(c)
  <2> DEFINE starts == slot.configured /\ slot.active /\ c.limit # 0
             stops  == slot.configured /\ slot.active /\ c.limit = 0
  <2>1. c.name = "start_slot" /\ c.limit \in Int
    BY <1>2, CommandOperands DEF StartSlot
  <2>2. /\ slot' = [slot EXCEPT
               !.limit     = c.limit,
               !.counter   = IF starts THEN 1 ELSE IF stops THEN 0 ELSE @,
               !.requested = starts,
               !.running   = starts /\ @,
               !.age       = IF starts THEN CycleTime ELSE @]
        /\ slot_requested' = starts /\ started' = starts
        /\ UNCHANGED led_1_requested
    BY <1>2 DEF StartSlot
  <2>3. /\ starts \in BOOLEAN /\ CycleTime \in Int
        /\ (starts => slot.active /\ c.limit # 0)
    BY CommandAssumption
  <2> HIDE DEF starts, stops
  <2>4. /\ slot' \in TxSlots
        /\ slot'.active = slot.active /\ slot'.requested = starts
    <3> DEFINE counter == IF starts THEN 1 ELSE IF stops THEN 0 ELSE slot.counter
               running == starts /\ slot.running
               age     == IF starts THEN CycleTime ELSE slot.age
               limit   == c.limit
    <3>1. counter \in Int /\ age \in Int /\ limit \in Int
      BY <2>1, <2>3 DEF TxSlots
    <3>2. running \in BOOLEAN
      OBVIOUS
    <3>3. slot' = [slot EXCEPT !.limit = limit, !.counter = counter,
                               !.requested = starts, !.running = running,
                               !.age = age]
      BY <2>2
    <3> HIDE DEF counter, running, age, limit
    <3> QED BY <2>3, <3>1, <3>2, <3>3 DEF TxSlots
  <2>5. starts => IsPrivileged(c)
    BY <2>1, <2>3 DEF IsPrivileged
  <2> QED BY <2>2, <2>3, <2>4, <2>5
<1>3. CASE SetLed(c)
  <2>1. c.name = "led" /\ c.on \in BOOLEAN
    BY <1>3, CommandOperands DEF SetLed
  <2> QED BY <1>3, <2>1 DEF SetLed, IsPrivileged
<1>4. CASE SetPwm(c, ok) \/ StopPwm(c, ok) \/ SelfTest(c, ok)
  BY <1>4 DEF SetPwm, StopPwm, SelfTest, requests
<1> QED BY <1>1, <1>2, <1>3, <1>4 DEF Execute

\* A command that is executed, or refused because the window is closed.
LEMMA CommandKeepsInv ==
    ASSUME IInv, NEW c \in Commands, NEW ok \in BOOLEAN, Command(c, ok)
    PROVE  IInv' /\ (press_age' >= Window => TurnedOn' \subseteq TurnedOn)
<1>1. /\ at = "commands" /\ at' = "commands" /\ UNCHANGED policy
      /\ AccessUpdate
  BY DEF Command
<1>2. AccessInv' /\ (access_active' => press_age' < Window)
  BY <1>1, UpdateClosesWindow DEF IInv
<1>3. CASE IsPrivileged(c) /\ ~access_active'
  <2>1. UNCHANGED <<requests, pwm, test, slot, started, output>>
    BY <1>3 DEF Command, output
  <2>2. OutputInv' /\ SlotInv'
    BY <1>1, <2>1 DEF IInv, OutputInv, SlotInv, SlotRunsAsStarted, requests,
                     policy, Permitted
  <2>3. TurnedOn' = TurnedOn
    BY <2>1 DEF TurnedOn, requests
  <2> QED BY <1>2, <2>2, <2>3 DEF IInv
<1>4. CASE ~(IsPrivileged(c) /\ ~access_active')
  <2>1. Execute(c, ok)
    BY <1>4 DEF Command
  <2>2. OutputInv' /\ SlotInv'
    BY <1>1, <2>1, CommandKeepsOutput, CommandKeepsSlot DEF IInv
  <2>3. ASSUME press_age' >= Window
        PROVE  TurnedOn' \subseteq TurnedOn
    <3>1. ~access_active'
      BY <1>2, <2>3, AccessAssumption DEF AccessInv
    <3>2. ~IsPrivileged(c)
      BY <1>4, <3>1
    <3> QED BY <1>1, <2>1, <3>2, CommandKeepsOutput, CommandKeepsSlot
            DEF IInv, TurnedOn
  <2> QED BY <1>2, <2>2, <2>3 DEF IInv
<1> QED BY <1>3, <1>4

\* A pass of App_Control_Process over any switch data.
LEMMA ControlKeepsInv ==
    ASSUME IInv, Control
    PROVE  IInv'
<1>1. PICK valid \in BOOLEAN, ok \in BOOLEAN, closed \in SUBSET Inputs :
          ControlProcess(valid, closed, ok)
  BY DEF Control
<1>2. /\ UNCHANGED <<pwm_requested, slot, started, time_left, press_age,
                     access_active>>
      /\ at' = "app"
  BY DEF Control, requests, access
<1>3. SlotInv' /\ AccessInv'
  BY <1>2 DEF IInv, SlotInv, SlotRunsAsStarted, AccessInv
<1> DEFINE permitted == Permitted("pwm")'
           effective == PwmEffective'
           before == ApplyPwm([pwm |-> pwm, test |-> test],
                              permitted, effective, ok)
           tested == SelfTestProcess(before, ok)
           after  == ApplyPwm(tested, permitted, effective, ok)
<1>4. /\ permitted \in BOOLEAN /\ effective \in BOOLEAN
      /\ effective => permitted
  BY DEF Permitted, PwmEffective
<1>5. switch_data_valid' \in BOOLEAN /\ pwm' = after.pwm /\ test' = after.test
  BY <1>1 DEF ControlProcess
<1>6. [pwm |-> pwm, test |-> test] \in Outputs
  BY DEF IInv, OutputInv, output
<1> HIDE DEF permitted, effective
<1>7. before \in Outputs
  BY <1>4, <1>6, ApplyPwmNeedsPermission
<1> HIDE DEF before
<1>8. tested \in Outputs
  BY <1>7, SelfTestKeepsOwner
<1> HIDE DEF tested
<1>9. after \in Outputs /\ (Used(after) => permitted)
  BY <1>4, <1>8, ApplyPwmNeedsPermission
<1> HIDE DEF after
<1>10. output' = after
  BY <1>5, <1>9 DEF output, Outputs
<1>11. OutputInv'
  BY <1>2, <1>5, <1>9, <1>10 DEF IInv, OutputInv, permitted
<1> QED BY <1>3, <1>11 DEF IInv

\* CAN_Apply_SlotPolicy and CAN_Process_TxSlots.
LEMMA SlotsKeepInv ==
    ASSUME IInv, Slots
    PROVE  IInv' /\ TurnedOn' = TurnedOn
<1>1. UNCHANGED <<policy, requests, outputs, access, started, output>>
  BY DEF Slots, outputs, output
<1>2. PICK accepted \in BOOLEAN :
          LET due    == ~slot.running \/ slot.age >= CycleTime
              number == IF slot.counter \in 1 .. slot.limit THEN slot.counter
                                                            ELSE 1
          IN  IF MayRun
              THEN slot' = [slot EXCEPT
                         !.running = TRUE,
                         !.counter = IF due THEN NextNumber(number, accepted)
                                            ELSE number,
                         !.age     = IF due THEN 0 ELSE @]
              ELSE slot' = [slot EXCEPT !.running = FALSE]
  BY DEF Slots
<1>3. slot' \in TxSlots /\ slot'.requested = slot.requested
      /\ slot'.active = slot.active
  <2>1. CASE MayRun
    <3> DEFINE due     == ~slot.running \/ slot.age >= CycleTime
               number  == IF slot.counter \in 1 .. slot.limit THEN slot.counter
                                                              ELSE 1
               counter == IF due THEN NextNumber(number, accepted) ELSE number
               age     == IF due THEN 0 ELSE slot.age
    <3>1. /\ slot.counter \in Int /\ slot.limit \in Int /\ slot.age \in Int
      BY DEF IInv, SlotInv, TxSlots
    <3>2. number \in Int /\ age \in Int
      BY <3>1
    <3> HIDE DEF number
    <3>3. NextNumber(number, accepted) \in Int
      BY <3>1, <3>2 DEF NextNumber
    <3>4. counter \in Int
      BY <3>2, <3>3
    <3>5. slot' = [slot EXCEPT !.running = TRUE, !.counter = counter, !.age = age]
      BY <1>2, <2>1 DEF number
    <3> HIDE DEF counter, age
    <3> QED BY <3>2, <3>4, <3>5 DEF IInv, SlotInv, TxSlots
  <2>2. CASE ~MayRun
    BY <1>2, <2>2 DEF IInv, SlotInv, TxSlots
  <2> QED BY <2>1, <2>2
<1>4. slot'.running => MayRun
  BY <1>2 DEF IInv, SlotInv, TxSlots
<1>5. SlotInv'
  BY <1>1, <1>3, <1>4
     DEF IInv, SlotInv, SlotRunsAsStarted, MayRun, SlotEffective, Permitted,
         policy
<1>6. OutputInv' /\ AccessInv'
  BY <1>1 DEF IInv, OutputInv, AccessInv, Permitted, policy, requests, access
<1>7. TurnedOn' = TurnedOn
  BY <1>1, <1>3 DEF TurnedOn, requests
<1> QED BY <1>5, <1>6, <1>7 DEF IInv

\* The passing of time.
LEMMA TickKeepsInv ==
    ASSUME IInv, Tick
    PROVE  IInv' /\ TurnedOn' = TurnedOn
<1>1. UNCHANGED <<policy, requests, pwm, at, started>>
  BY DEF Tick
<1>2. AccessInv'
  BY TickKeepsWindow DEF Tick, IInv
<1>3. /\ slot' \in TxSlots /\ slot'.requested = slot.requested
      /\ slot'.active = slot.active /\ slot'.running = slot.running
  BY CommandAssumption DEF Tick, IInv, SlotInv, TxSlots
<1>4. SlotInv'
  BY <1>1, <1>3 DEF IInv, SlotInv, SlotRunsAsStarted, Permitted, policy
<1>5. /\ test' \in Tests /\ test'.phase = test.phase
      /\ test'.point = test.point
  <2>1. test \in Tests
    BY DEF IInv, OutputInv, Outputs, output
  <2> QED BY <2>1 DEF Tick, ControlTick, Tests
<1>6. /\ output' \in Outputs /\ Testing(output)' = Testing(output)
      /\ Used(output)' = Used(output)
  <2>1. /\ output'.pwm = output.pwm /\ output'.test = test'
        /\ output' = [pwm |-> pwm, test |-> test']
        /\ output = [pwm |-> pwm, test |-> test]
    BY <1>1 DEF output
  <2> QED BY <1>5, <2>1 DEF IInv, OutputInv, Outputs, Testing, Used
<1>7. OutputInv'
  BY <1>1, <1>6 DEF IInv, OutputInv, Permitted, policy, requests
<1>8. TurnedOn' = TurnedOn
  BY <1>1, <1>3, <1>6 DEF TurnedOn, requests
<1> QED BY <1>2, <1>4, <1>7, <1>8 DEF IInv

\* Every step; and what commands and everything between them may turn on.
LEMMA StepInv ==
    ASSUME IInv, [Next]_vars
    PROVE  /\ IInv'
           /\ at = "commands" /\ press_age' >= Window => TurnedOn' \subseteq TurnedOn
<1>1. CASE Control
  BY <1>1, ControlKeepsInv DEF Control
<1>2. CASE CommandsBegin
  <2>1. UNCHANGED <<policy, requests, pwm, test, slot, started>>
    BY <1>2 DEF CommandsBegin, outputs
  <2>2. UNCHANGED output
    BY <2>1 DEF output
  <2>3. AccessInv' /\ at' # "control" /\ at # "commands"
    BY <1>2, UpdateClosesWindow DEF CommandsBegin, IInv
  <2> QED BY <2>1, <2>2, <2>3
          DEF IInv, OutputInv, SlotInv, SlotRunsAsStarted, Permitted, policy,
              requests
<1>3. ASSUME NEW c \in Commands, NEW ok \in BOOLEAN, Command(c, ok)
      PROVE  /\ IInv'
             /\ press_age' >= Window => TurnedOn' \subseteq TurnedOn
  BY <1>3, CommandKeepsInv
<1>4. CASE Slots
  BY <1>4, SlotsKeepInv
<1>5. CASE ButtonPressed \/ UNCHANGED vars
  <2>1. UNCHANGED <<policy, requests, pwm, test, slot, at, started,
                    access_active, time_left, press_age>>
    BY <1>5 DEF ButtonPressed, Press, vars, outputs, access
  <2>2. UNCHANGED output
    BY <2>1 DEF output
  <2>3. TurnedOn' = TurnedOn
    BY <2>1, <2>2 DEF TurnedOn, requests
  <2> QED BY <2>1, <2>2, <2>3
          DEF IInv, OutputInv, SlotInv, SlotRunsAsStarted, AccessInv, Permitted,
              policy, requests
<1>6. CASE Tick
  BY <1>6, TickKeepsInv
<1> QED BY <1>1, <1>2, <1>3, <1>4, <1>5, <1>6 DEF Next

\* The inductive invariant: who may own the output, what a slot that is
\* requested goes back to, and where the window stands.
THEOREM Invariance == Spec => []IInv
<1>1. IInv /\ [Next]_vars => IInv'
  BY StepInv
<1> QED BY <1>1, InitInv, PTL DEF Spec

\* What the switches inhibit is off after every step: the output, by the
\* policy, a test or a test that was cancelled, and after the slots were
\* processed the slot (App_Control_Process, CAN_Apply_Slot_Policy).
THEOREM InhibitedStaysOff == Spec => []InhibitedIsOff
<1>1. IInv => InhibitedIsOff
  BY DEF IInv, OutputInv, SlotInv, InhibitedIsOff, OutputIsPermitted, Used, output
<1> QED BY <1>1, Invariance, PTL

\* Outside the window commands only turn things off, for every length of the
\* window, every delay of the main loop below half the range of the tick
\* counter, and wherever the counter wraps (CAN_ControlAccess_Update,
\* CAN_CommandGuard_IsPrivileged).
THEOREM CommandsNeedButton == Spec => OnlyReducesOutsideWindow
<1>1. IInv /\ [Next]_vars =>
          [at = "commands" /\ press_age' >= Window =>
              TurnedOn' \subseteq TurnedOn]_vars
  BY StepInv
<1> QED BY <1>1, Invariance, PTL DEF Spec, OnlyReducesOutsideWindow

----------------------------------------------------------------------------
(* The waveform shown is the one the instrument outputs.                   *)

\* What the integer division of the period, pulse and duty formulas returns:
\* the divisor fits that often into the dividend, and the rest is smaller.
LEMMA DivBounds ==
    ASSUME NEW x \in Int, NEW n \in Nat \ {0}
    PROVE  /\ x \div n \in Int
           /\ n * (x \div n) <= x /\ x < n * (x \div n) + n
OBVIOUS

\* The quotient of those formulas is the only number with that property.
LEMMA DivUnique ==
    ASSUME NEW x \in Int, NEW n \in Nat \ {0}, NEW q \in Int,
           n * q <= x, x < n * q + n
    PROVE  x \div n = q
OBVIOUS

\* Saving a pulse as a rounded percentage and setting it again gives the same
\* pulse, for every period: with 101 counts or more the percentage is the
\* one that was set, and with fewer the pulse is nearer than half a count.
LEMMA PulseRoundTrip ==
    ASSUME NEW period \in Nat \ {0}, NEW duty \in 0 .. 100
    PROVE  LET pulse == PulseTicks(period, duty)
           IN  PulseTicks(period, DutyPercent(period, pulse)) = pulse
<1> DEFINE pulse == PulseTicks(period, duty)
           half  == period \div 2
           saved == DutyPercent(period, pulse)
           x     == period * duty
           y     == period * saved
<1>1. x \in Int /\ half \in Int
  OBVIOUS
<1>2. pulse \in Int /\ 100 * pulse <= x + 50 /\ x + 50 < 100 * pulse + 100
  <2>1. pulse = (x + 50) \div 100
    BY DEF PulseTicks
  <2> HIDE DEF x, pulse
  <2> QED BY <1>1, <2>1
<1>3. 2 * half <= period /\ period < 2 * half + 2
  OBVIOUS
<1>4. /\ saved \in Int /\ y \in Int
      /\ y <= pulse * 100 + half /\ pulse * 100 + half < y + period
  <2>1. saved = (pulse * 100 + half) \div period
    BY DEF DutyPercent
  <2> HIDE DEF saved, pulse, half
  <2> QED BY <1>1, <1>2, <2>1, DivBounds
<1> HIDE DEF pulse, half
<1>5. CASE period <= 99
  <2>1. 100 * pulse <= y + 50 /\ y + 50 < 100 * pulse + 100
    <3> HIDE DEF x, y, saved
    <3> QED BY <1>1, <1>2, <1>3, <1>4, <1>5
  <2>2. (y + 50) \div 100 = pulse
    <3> HIDE DEF y
    <3> QED BY <1>2, <1>4, <2>1
  <2> QED BY <2>2 DEF PulseTicks, pulse
<1>6. CASE period = 100
  <2>1. pulse = duty
    <3>1. x = 100 * duty
      BY <1>6
    <3> QED BY <1>2, <3>1
  <2>2. half = 50
    BY <1>6 DEF half
  <2>3. saved = duty
    BY <1>6, <2>1, <2>2 DEF DutyPercent, half
  <2> QED BY <2>3 DEF pulse
<1>7. CASE period >= 101
  <2>1. x <= pulse * 100 + half /\ pulse * 100 + half < x + period
    <3> HIDE DEF x
    <3> QED BY <1>1, <1>2, <1>3, <1>7
  <2>2. saved = (pulse * 100 + half) \div period
    BY DEF DutyPercent, half, pulse
  <2>3. saved = duty
    <3> DEFINE scaled == pulse * 100 + half
    <3>1. scaled \in Int /\ duty \in Int
      BY <1>1, <1>2
    <3>2. period * duty <= scaled /\ scaled < period * duty + period
      BY <2>1
    <3>3. saved = scaled \div period
      BY <2>2
    <3> HIDE DEF scaled, saved, x, y
    <3> QED BY <3>1, <3>2, <3>3, DivUnique
  <2> QED BY <2>3 DEF pulse
<1> QED BY <1>5, <1>6, <1>7

----------------------------------------------------------------------------
(* The waveform that belongs to the commands: the one that is produced, or *)
(* the one a test has saved.                                               *)

Kept(o) == IF Testing(o) THEN o.test.saved ELSE o.pwm

\* A waveform that a command has set: its counts, and the percentage that
\* the counts express.
Shows(w, c) ==
    /\ ~SetFails(c.frequency)
    /\ w.frequency = c.frequency
    /\ w.pulse = PulseTicks(PeriodTicks(c.frequency), c.duty)
    /\ w.duty = DutyPercent(PeriodTicks(c.frequency), w.pulse)

\* Nothing was commanded and the output is off, or it is the last command's.
Faithful(o, cs) ==
    \/ cs = {} /\ ~Kept(o).running
    \/ \E c \in cs : Shows(Kept(o), c)

Commandable == [frequency : Frequencies, duty : Duties]

CommandInv ==
    /\ commanded \subseteq Commandable
    /\ pwm_requested => commanded # {}
    /\ Faithful(output, commanded)

\* A frequency that PWM_Control_Set accepts has a period of some counts.
LEMMA PeriodIsPositive ==
    ASSUME NEW frequency \in Int, ~SetFails(frequency)
    PROVE  /\ PeriodTicks(frequency) \in Nat \ {0}
           /\ frequency # 0
<1>1. frequency \in 1 .. MaxFrequency /\ ~(PeriodTicks(frequency) < 1)
  BY DEF SetFails
<1>2. PeriodTicks(frequency) \in Int
  BY <1>1, ClockAssumption DEF PeriodTicks
<1> QED BY <1>1, <1>2, ClockAssumption

\* PWM_Control_Set leaves exactly the commanded waveform.
LEMMA SetShows ==
    ASSUME NEW w \in Waves, NEW c \in Commandable, ~SetFails(c.frequency)
    PROVE  Shows(Waveform(w, c.frequency, c.duty), c)
BY DEF Waveform, Shows, Waves

\* Setting a saved waveform again gives the one that was saved.
LEMMA SetAgainShows ==
    ASSUME NEW w \in Waves, NEW saved \in Waves, NEW c \in Commandable,
           Shows(saved, c)
    PROVE  /\ saved.frequency # 0
           /\ Shows(Waveform(w, saved.frequency, saved.duty), c)
<1> DEFINE period == PeriodTicks(c.frequency)
           pulse  == PulseTicks(period, c.duty)
<1>1. c.frequency \in Int /\ c.duty \in 0 .. 100
  <2>1. c.frequency \in Frequencies /\ c.duty \in Duties
    BY DEF Commandable
  <2>2. /\ \A frequency \in Frequencies : frequency \in Int
        /\ \A duty \in Duties : duty \in 0 .. 100
    BY CommandAssumption, ClockAssumption
  <2> QED BY <2>1, <2>2
<1>2. period \in Nat \ {0} /\ c.frequency # 0 /\ ~SetFails(c.frequency)
  BY <1>1, PeriodIsPositive DEF Shows
<1>3. /\ saved.frequency = c.frequency
      /\ saved.duty = DutyPercent(period, pulse)
  BY DEF Shows
<1>4. PulseTicks(period, saved.duty) = pulse
  <2> HIDE DEF period
  <2> QED BY <1>1, <1>2, <1>3, PulseRoundTrip
<1>5. Waveform(w, saved.frequency, saved.duty) =
          [w EXCEPT !.frequency = c.frequency, !.pulse = pulse,
                    !.duty = DutyPercent(period, pulse)]
  BY <1>2, <1>3, <1>4 DEF Waveform
<1> QED BY <1>2, <1>3, <1>5 DEF Shows, Waves

\* Starting and stopping do not touch the waveform.
LEMMA StartAndStopShow ==
    ASSUME NEW w \in Waves, NEW ok \in BOOLEAN, NEW c
    PROVE  /\ Shows(w, c) => Shows(Running(w, ok), c) /\ Shows(Stopped(w), c)
           /\ ~Stopped(w).running
BY DEF Shows, Running, Stopped, Waves

\* A test that ends or is cancelled puts the commanded waveform back, also
\* when the output does not start again.
LEMMA RestoredIsFaithful ==
    ASSUME NEW o \in Outputs, NEW ok \in BOOLEAN, Testing(o),
           NEW cs \in SUBSET Commandable, Faithful(o, cs)
    PROVE  Faithful(Restored(o, ok), cs)
<1> DEFINE saved == o.test.saved
           wave  == IF saved.frequency = 0
                    THEN o.pwm
                    ELSE Waveform(o.pwm, saved.frequency, saved.duty)
           r     == Restored(o, ok)
<1>1. saved \in Waves /\ o.pwm \in Waves /\ Kept(o) = saved
  BY DEF Outputs, Tests, Kept
<1>2. saved.frequency \in Int /\ saved.duty \in Int
  BY <1>1 DEF Waves
<1>3. wave \in Waves
  BY <1>1, <1>2, WaveformKeepsRunning
<1>4. Kept(r) = IF saved.running THEN Running(wave, ok) ELSE Stopped(wave)
  <2>1. ~Testing(r)
    BY RestoredEndsTest
  <2>2. r.pwm = IF saved.running THEN Running(wave, ok) ELSE Stopped(wave)
    BY DEF Restored
  <2> HIDE DEF r
  <2> QED BY <2>1, <2>2 DEF Kept
<1> HIDE DEF r
<1>5. CASE cs = {} /\ ~saved.running
  <2>1. ~Kept(r).running
    <3> HIDE DEF wave, saved
    <3> QED BY <1>3, <1>4, <1>5, StartAndStopShow
  <2> QED BY <1>5, <2>1 DEF Faithful, r
<1>6. CASE \E c \in cs : Shows(saved, c)
  <2>1. PICK c \in cs : Shows(saved, c)
    BY <1>6
  <2>2. Shows(wave, c)
    BY <1>1, <2>1, SetAgainShows
  <2>3. Shows(Kept(r), c)
    <3> HIDE DEF wave, saved
    <3> QED BY <1>3, <1>4, <2>2, StartAndStopShow
  <2> QED BY <2>1, <2>3 DEF Faithful, r
<1> QED BY <1>1, <1>5, <1>6 DEF Faithful

\* PWM_SelfTest_Cancel.
LEMMA CancelIsFaithful ==
    ASSUME NEW o \in Outputs, NEW ok \in BOOLEAN,
           NEW cs \in SUBSET Commandable, Faithful(o, cs)
    PROVE  /\ SelfTestCancel(o, ok) \in Outputs
           /\ ~Testing(SelfTestCancel(o, ok))
           /\ Faithful(SelfTestCancel(o, ok), cs)
BY RestoredIsFaithful, RestoredEndsTest DEF SelfTestCancel

\* An output without a test is faithful if its waveform is.
LEMMA SetPwmField ==
    ASSUME NEW o \in Outputs, NEW w \in Waves
    PROVE  LET r == [o EXCEPT !.pwm = w]
           IN  /\ r \in Outputs /\ r.test = o.test /\ r.pwm = w
               /\ Testing(r) <=> Testing(o)
               /\ Kept(r) = IF Testing(o) THEN Kept(o) ELSE w
BY DEF Outputs, Testing, Kept

\* Starting or stopping an output without a test keeps its waveform.
LEMMA StartAndStopAreFaithful ==
    ASSUME NEW o \in Outputs, NEW ok \in BOOLEAN, ~Testing(o),
           NEW cs \in SUBSET Commandable, Faithful(o, cs)
    PROVE  /\ Faithful([o EXCEPT !.pwm = Stopped(o.pwm)], cs)
           /\ cs # {} => Faithful([o EXCEPT !.pwm = Running(o.pwm, ok)], cs)
<1> DEFINE stopped == [o EXCEPT !.pwm = Stopped(o.pwm)]
           runs    == [o EXCEPT !.pwm = Running(o.pwm, ok)]
<1>1. o.pwm \in Waves /\ Kept(o) = o.pwm
  BY DEF Outputs, Kept
<1>2. /\ Stopped(o.pwm) \in Waves /\ Running(o.pwm, ok) \in Waves
      /\ ~Stopped(o.pwm).running
  BY <1>1, StartAndStop
<1>3. Kept(stopped) = Stopped(o.pwm) /\ Kept(runs) = Running(o.pwm, ok)
  BY <1>2, SetPwmField
<1> HIDE DEF stopped, runs
<1>4. \A c : Shows(o.pwm, c) =>
                 Shows(Kept(stopped), c) /\ Shows(Kept(runs), c)
  BY <1>1, <1>3, StartAndStopShow
<1>5. Faithful(stopped, cs) /\ (cs # {} => Faithful(runs, cs))
  BY <1>1, <1>2, <1>3, <1>4 DEF Faithful
<1> QED BY <1>5 DEF stopped, runs

\* App_Control_ApplyPwm starts the output only for a request, which a
\* command has made.
LEMMA ApplyPwmIsFaithful ==
    ASSUME NEW o \in Outputs, NEW permitted \in BOOLEAN,
           NEW effective \in BOOLEAN, NEW ok \in BOOLEAN,
           NEW cs \in SUBSET Commandable, Faithful(o, cs),
           effective => cs # {}
    PROVE  Faithful(ApplyPwm(o, permitted, effective, ok), cs)
<1>1. CASE Testing(o) /\ permitted
  BY <1>1 DEF ApplyPwm
<1>2. CASE Testing(o) /\ ~permitted
  <2> DEFINE cancelled == SelfTestCancel(o, ok)
  <2>1. /\ cancelled \in Outputs /\ ~Testing(cancelled)
        /\ Faithful(cancelled, cs)
    BY CancelIsFaithful
  <2>2. ApplyPwm(o, permitted, effective, ok) =
            [cancelled EXCEPT !.pwm = Stopped(cancelled.pwm)]
    BY <1>2 DEF ApplyPwm
  <2> HIDE DEF cancelled
  <2> QED BY <2>1, <2>2, StartAndStopAreFaithful
<1>3. CASE ~Testing(o)
  <2>1. ApplyPwm(o, permitted, effective, ok) =
            IF effective THEN [o EXCEPT !.pwm = Running(o.pwm, ok)]
                         ELSE [o EXCEPT !.pwm = Stopped(o.pwm)]
    BY <1>3 DEF ApplyPwm
  <2> QED BY <1>3, <2>1, StartAndStopAreFaithful
<1> QED BY <1>1, <1>2, <1>3

\* PWM_SelfTest_Process: a test that goes on has its waveform saved, and one
\* that ends puts it back.
LEMMA SelfTestIsFaithful ==
    ASSUME NEW o \in Outputs, NEW ok \in BOOLEAN,
           NEW cs \in SUBSET Commandable, Faithful(o, cs)
    PROVE  Faithful(SelfTestProcess(o, ok), cs)
<1>1. CASE ~Testing(o)
  BY <1>1 DEF SelfTestProcess, Testing
<1>2. CASE o.test.phase = "apply"
  <2> DEFINE applied == [o EXCEPT !.pwm = PointApplied(o, ok)]
             settled == [applied EXCEPT !.test = TestAt("settle", o.test.point,
                                                        o.test.saved)]
  <2>1. Testing(o) /\ Kept(o) = o.test.saved
    BY <1>2 DEF Testing, Kept
  <2>2. PointApplied(o, ok) \in Waves
    BY <2>1, PointAppliedType
  <2>3. /\ applied \in Outputs /\ Testing(applied)
        /\ Kept(applied) = Kept(o)
    BY <2>1, <2>2, SetPwmField
  <2>4. Faithful(applied, cs)
    <3> HIDE DEF applied
    <3> QED BY <2>3 DEF Faithful
  <2>5. Kept(settled) = o.test.saved
    BY DEF TestAt, Kept, Testing, Outputs
  <2>6. Faithful(settled, cs)
    <3> HIDE DEF settled
    <3> QED BY <2>1, <2>5 DEF Faithful
  <2>7. SelfTestProcess(o, ok) \in {settled, Restored(applied, ok)}
    BY <1>2, <2>1 DEF SelfTestProcess
  <2> HIDE DEF applied, settled
  <2> QED BY <2>3, <2>4, <2>6, <2>7, RestoredIsFaithful
<1>3. CASE o.test.phase = "settle" /\ o.test.age < SettleTime
  BY <1>3 DEF SelfTestProcess, Testing
<1>4. CASE o.test.phase = "settle" /\ ~(o.test.age < SettleTime)
  <2> DEFINE next == [o EXCEPT !.test = TestAt("apply", o.test.point + 1,
                                               o.test.saved)]
  <2>1. Testing(o) /\ Kept(o) = o.test.saved
    BY <1>4 DEF Testing, Kept
  <2>2. Kept(next) = o.test.saved
    BY DEF TestAt, Kept, Testing, Outputs
  <2>3. Faithful(next, cs)
    <3> HIDE DEF next
    <3> QED BY <2>1, <2>2 DEF Faithful
  <2>4. SelfTestProcess(o, ok) \in {next, Restored(o, ok)}
    BY <1>4, <2>1 DEF SelfTestProcess
  <2> HIDE DEF next
  <2> QED BY <2>1, <2>3, <2>4, RestoredIsFaithful
<1>5. o.test.phase \in {"idle", "apply", "settle"}
  BY DEF Outputs, Tests
<1> QED BY <1>1, <1>2, <1>3, <1>4, <1>5 DEF Testing

----------------------------------------------------------------------------
(* The output shows what was commanded.                                    *)

\* The operands of a command that sets the waveform.
LEMMA PwmOperands ==
    ASSUME NEW c \in Commands, c.name = "pwm"
    PROVE  c.frequency \in Frequencies /\ c.duty \in Duties
BY DEF Commands

\* A command sets the waveform it names or leaves the one that is kept.
LEMMA CommandKeepsWaveform ==
    ASSUME OutputInv, CommandInv, NEW c \in Commands, NEW ok \in BOOLEAN,
           Execute(c, ok)
    PROVE  CommandInv'
<1> DEFINE o == SelfTestCancel(output, ok)
<1>1. output \in Outputs /\ commanded \in SUBSET Commandable
  BY DEF OutputInv, CommandInv
<1>2. /\ o \in Outputs /\ ~Testing(o) /\ Faithful(o, commanded)
  BY <1>1, CancelIsFaithful DEF CommandInv
<1>3. ASSUME NEW r \in Outputs, OutputBecomes(r)
      PROVE  output' = r
  BY <1>3 DEF OutputBecomes, output, Outputs
<1>4. ASSUME NEW r \in Outputs, OutputBecomes(r), Faithful(r, commanded),
             commanded' = commanded, pwm_requested' => pwm_requested
      PROVE  CommandInv'
  <2>1. output' = r
    BY <1>3, <1>4
  <2>2. Faithful(r, commanded') = Faithful(output', commanded')
    BY <2>1
  <2> QED BY <1>4, <2>1 DEF CommandInv
<1> HIDE DEF o
<1>5. CASE SetSlot(c) \/ StartSlot(c) \/ SetLed(c)
  <2>1. UNCHANGED <<pwm_requested, pwm, test, commanded>>
    BY <1>5 DEF SetSlot, StartSlot, SetLed
  <2>2. UNCHANGED output
    BY <2>1 DEF output
  <2> QED BY <2>1, <2>2 DEF CommandInv
<1>6. CASE SetPwm(c, ok)
  <2> DEFINE wave == Waveform(o.pwm, c.frequency, c.duty)
             r    == [o EXCEPT !.pwm = wave]
             d    == [frequency |-> c.frequency, duty |-> c.duty]
  <2>1. c.name = "pwm" /\ OutputBecomes(r)
    BY <1>6 DEF SetPwm, o
  <2>2. o.pwm \in Waves /\ c.frequency \in Int /\ c.duty \in Int
    BY <1>2, <2>1, CommandOperands DEF Outputs
  <2>3. /\ wave \in Waves
    BY <2>2, WaveformKeepsRunning
  <2>4. r \in Outputs /\ Kept(r) = wave
    BY <1>2, <2>3, SetPwmField
  <2>5. CASE SetFails(c.frequency)
    <3>1. UNCHANGED <<pwm_requested, commanded>>
      BY <1>6, <2>5 DEF SetPwm
    <3>2. wave = o.pwm
      BY <2>5 DEF Waveform
    <3>3. Kept(o) = wave
      BY <1>2, <3>2 DEF Kept
    <3>4. Faithful(r, commanded)
      <4> HIDE DEF r, wave
      <4> QED BY <1>2, <2>4, <3>3 DEF Faithful
    <3> HIDE DEF r
    <3> QED BY <1>4, <2>1, <2>4, <3>1, <3>4
  <2>6. CASE ~SetFails(c.frequency)
    <3>1. pwm_requested' = TRUE /\ commanded' = {d}
      BY <1>6, <2>6 DEF SetPwm
    <3>2. d \in Commandable /\ d.frequency = c.frequency /\ d.duty = c.duty
      BY <2>1, PwmOperands DEF Commandable
    <3>3. Shows(wave, d)
      <4> HIDE DEF d
      <4> QED BY <2>2, <2>6, <3>2, SetShows
    <3>4. output' = r
      BY <1>3, <2>1, <2>4
    <3>5. Faithful(r, {d})
      <4> HIDE DEF d, r, wave
      <4> QED BY <2>4, <3>3 DEF Faithful
    <3> HIDE DEF d, r
    <3> QED BY <3>1, <3>2, <3>4, <3>5 DEF CommandInv
  <2> QED BY <2>5, <2>6
<1>7. CASE StopPwm(c, ok)
  <2>1. OutputBecomes(o) /\ pwm_requested' = FALSE /\ commanded' = commanded
    BY <1>7 DEF StopPwm, o
  <2> QED BY <1>2, <1>4, <2>1
<1>8. CASE SelfTest(c, ok)
  <2>1. UNCHANGED <<pwm_requested, commanded>> /\ c.start \in BOOLEAN
    BY <1>8, CommandOperands DEF SelfTest, requests
  <2>2. CASE c.start /\ Permitted("pwm")
    <3> DEFINE r == SelfTestStart(output)
    <3>1. OutputBecomes(r)
      BY <1>8, <2>2 DEF SelfTest
    <3>2. output.pwm \in Waves /\ 1 \in DOMAIN TestPoints
      BY <1>1, TestPointsAreDefined DEF Outputs
    <3>3. r \in Outputs
      BY <1>1, <3>2, TestAtIsTest DEF SelfTestStart
    <3>4. Kept(r) = Kept(output)
      BY <1>1 DEF SelfTestStart, Kept, Testing, TestAt, Outputs
    <3>5. Faithful(r, commanded)
      <4> HIDE DEF r
      <4> QED BY <3>4 DEF CommandInv, Faithful
    <3> HIDE DEF r
    <3> QED BY <1>4, <2>1, <3>1, <3>3, <3>5
  <2>3. CASE c.start /\ ~Permitted("pwm")
    <3>1. OutputBecomes(output)
      BY <1>8, <2>3 DEF SelfTest
    <3> QED BY <1>1, <1>4, <2>1, <3>1 DEF CommandInv
  <2>4. CASE ~c.start
    <3>1. OutputBecomes(o)
      BY <1>8, <2>4 DEF SelfTest, o
    <3> QED BY <1>2, <1>4, <2>1, <3>1
  <2> QED BY <2>1, <2>2, <2>3, <2>4
<1> QED BY <1>5, <1>6, <1>7, <1>8 DEF Execute

\* So does a pass of App_Control_Process.
LEMMA ControlKeepsWaveform ==
    ASSUME OutputInv, CommandInv, Control
    PROVE  CommandInv'
<1>1. PICK valid \in BOOLEAN, ok \in BOOLEAN, closed \in SUBSET Inputs :
          ControlProcess(valid, closed, ok)
  BY DEF Control
<1>2. UNCHANGED <<pwm_requested, commanded>>
  BY DEF Control, requests
<1> DEFINE permitted == Permitted("pwm")'
           effective == PwmEffective'
           before == ApplyPwm([pwm |-> pwm, test |-> test],
                              permitted, effective, ok)
           tested == SelfTestProcess(before, ok)
           after  == ApplyPwm(tested, permitted, effective, ok)
<1>3. /\ permitted \in BOOLEAN /\ effective \in BOOLEAN
      /\ effective => permitted
      /\ effective => commanded # {}
  BY <1>2 DEF Permitted, PwmEffective, CommandInv
<1>4. pwm' = after.pwm /\ test' = after.test
  BY <1>1 DEF ControlProcess
<1>5. /\ [pwm |-> pwm, test |-> test] \in Outputs
      /\ Faithful([pwm |-> pwm, test |-> test], commanded)
      /\ commanded \in SUBSET Commandable
  BY DEF OutputInv, CommandInv, output
<1> HIDE DEF permitted, effective
<1>6. before \in Outputs /\ Faithful(before, commanded)
  BY <1>3, <1>5, ApplyPwmNeedsPermission, ApplyPwmIsFaithful
<1> HIDE DEF before
<1>7. tested \in Outputs /\ Faithful(tested, commanded)
  BY <1>5, <1>6, SelfTestKeepsOwner, SelfTestIsFaithful
<1> HIDE DEF tested
<1>8. after \in Outputs /\ Faithful(after, commanded)
  BY <1>3, <1>5, <1>7, ApplyPwmNeedsPermission, ApplyPwmIsFaithful
<1> HIDE DEF after
<1>9. output' = after
  BY <1>4, <1>8 DEF output, Outputs
<1> QED BY <1>2, <1>8, <1>9 DEF CommandInv

\* Every step.
LEMMA StepKeepsWaveform ==
    ASSUME IInv, CommandInv, [Next]_vars
    PROVE  CommandInv'
<1>1. CASE Control
  BY <1>1, ControlKeepsWaveform DEF IInv
<1>2. ASSUME NEW c \in Commands, NEW ok \in BOOLEAN, Command(c, ok)
      PROVE  CommandInv'
  <2>1. CASE Execute(c, ok)
    BY <2>1, CommandKeepsWaveform DEF IInv
  <2>2. CASE UNCHANGED <<requests, pwm, test, commanded>>
    <3>1. UNCHANGED <<pwm_requested, output, commanded>>
      BY <2>2 DEF requests, output
    <3> QED BY <3>1 DEF CommandInv
  <2> QED BY <1>2, <2>1, <2>2 DEF Command
<1>3. CASE Tick
  <2>1. /\ UNCHANGED <<pwm_requested, pwm, commanded>>
        /\ ControlTick
    BY <1>3 DEF Tick, requests
  <2>2. Kept(output)' = Kept(output)
    BY <2>1 DEF ControlTick, Kept, Testing, output, IInv, OutputInv, Outputs,
                Tests
  <2> QED BY <2>1, <2>2 DEF CommandInv, Faithful
<1>4. CASE CommandsBegin \/ Slots \/ ButtonPressed \/ UNCHANGED vars
  <2>1. UNCHANGED <<pwm_requested, pwm, test, commanded>>
    BY <1>4 DEF CommandsBegin, Slots, ButtonPressed, vars, requests, outputs
  <2>2. UNCHANGED output
    BY <2>1 DEF output
  <2> QED BY <2>1, <2>2 DEF CommandInv
<1> QED BY <1>1, <1>2, <1>3, <1>4 DEF Next

\* Without a test, an output that is on shows exactly the counts that were
\* commanded last, for every counter clock, every period and every point of
\* the test: the rounding of PWM_Control_Set and PWM_SelfTest_RestoreOutput
\* cannot drift.
THEOREM WaveformIsKept == Spec => []WaveformAsCommanded
<1>1. Init => CommandInv
  <2> SUFFICES ASSUME Init PROVE CommandInv
    OBVIOUS
  <2>1. /\ commanded = {} /\ pwm_requested = FALSE
        /\ output = [pwm |-> Waveform(NoPwm, DefaultFrequency, DefaultDuty),
                     test |-> NoTest]
    BY DEF Init, ControlInit, output
  <2>2. ~Testing(output)
    BY <2>1 DEF Testing, NoTest
  <2>3. ~Kept(output).running
    <3>1. NoPwm \in Waves /\ ~NoPwm.running
      BY DEF NoPwm, Waves
    <3>2. DefaultFrequency \in Int /\ DefaultDuty \in Int
      BY DefaultAssumption, ClockAssumption
    <3>3. ~Waveform(NoPwm, DefaultFrequency, DefaultDuty).running
      BY <3>1, <3>2, WaveformKeepsRunning
    <3> QED BY <2>1, <2>2, <3>3 DEF Kept
  <2> QED BY <2>1, <2>3 DEF CommandInv, Faithful
<1>2. IInv /\ CommandInv /\ [Next]_vars => CommandInv'
  BY StepKeepsWaveform
<1>3. CommandInv => WaveformAsCommanded
  BY DEF CommandInv, Faithful, Shows, Kept, output, WaveformAsCommanded
<1> QED BY <1>1, <1>2, <1>3, Invariance, PTL DEF Spec
=============================================================================
