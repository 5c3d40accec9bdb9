----------------------------- MODULE AppControl -----------------------------
(***************************************************************************)
(* Control of the outputs: the policy of Core/Src/app_control_policy.c,    *)
(* the self test of pwm_self_test.c and App_Control_Process of             *)
(* app_control.c.                                                          *)
(*                                                                         *)
(* The policy keeps what was requested over CAN and the switch data of the *)
(* last pass.  IN0 closed forces LED 1 on; IN1 closed, or no valid data,   *)
(* stops the PWM; IN2 does so for the transmit slot.  The self test owns   *)
(* the waveform while it runs and puts the saved one back when it ends.    *)
(*                                                                         *)
(* The fields of the policy that Recalculate derives are operators here.   *)
(* LED 2 and the second slot, which behave like the first, are left out,   *)
(* and so is whether the points of a test pass.                            *)
(***************************************************************************)
EXTENDS PwmControl, Sequences

CONSTANTS
    DefaultFrequency, DefaultDuty,  \* of the waveform that main.c sets at first
    TestPoints,     \* test_points: frequency (0: no signal expected) and duty
    SettleTime      \* PWM_SELF_TEST_SETTLE_MS, in ticks

ASSUME DefaultAssumption ==
    DefaultFrequency \in 1 .. MaxFrequency /\ DefaultDuty \in 0 .. 100

ASSUME TestAssumption ==
    /\ TestPoints \in Seq([frequency : 0 .. MaxFrequency, duty : 0 .. 100])
    /\ TestPoints # << >>
    /\ SettleTime \in Nat

VARIABLES
    switch_data_valid, closed_switches, \* fields of g_appControlPolicy
    pwm_requested, slot_requested, led_1_requested,
    led_1_on,                           \* of g_appControl
    pwm,                                \* g_pwmControlState
    test                                \* the static data of pwm_self_test.c

policy == <<switch_data_valid, closed_switches>>
requests == <<pwm_requested, slot_requested, led_1_requested>>
outputs == <<led_1_on, pwm, test>>

Inputs == {"led", "pwm", "slot"}    \* IN0, IN1 and IN2

NoTest == [phase |-> "idle", point |-> 0, age |-> 0, saved |-> NoPwm]

\* The start of the program, main.c; the timer of the PWM has started.
ControlInit ==
    /\ switch_data_valid = FALSE /\ closed_switches = {}
    /\ pwm_requested = FALSE /\ slot_requested = FALSE
    /\ led_1_requested = FALSE /\ led_1_on = FALSE
    /\ pwm = Waveform(NoPwm, DefaultFrequency, DefaultDuty)
    /\ test = NoTest

\* App_ControlPolicy_Recalculate.
Permitted(input) == switch_data_valid /\ input \notin closed_switches

PwmEffective == pwm_requested /\ Permitted("pwm")
SlotEffective == slot_requested /\ Permitted("slot")
LedEffective == led_1_requested \/ "led" \in closed_switches

----------------------------------------------------------------------------
(* The self test.  Its operators take and return an output: the PWM and    *)
(* the test.  ok says whether HAL_TIM_PWM_Start succeeds.                  *)

Testing(o) == o.test.phase # "idle"

\* A test that enters a phase of a point.
TestAt(phase, point, saved) ==
    [phase |-> phase, point |-> point, age |-> 0, saved |-> saved]

\* PWM_SelfTest_Start; a test that is running goes on.
SelfTestStart(o) ==
    IF Testing(o)
    THEN o
    ELSE [o EXCEPT !.test = TestAt("apply", 1, o.pwm)]

\* PWM_SelfTest_RestoreOutput: the saved waveform and whether it was running.
\* A waveform that was never set is not put back.
Restored(o, ok) ==
    LET saved == o.test.saved
        wave  == IF saved.frequency = 0
                 THEN o.pwm
                 ELSE Waveform(o.pwm, saved.frequency, saved.duty)
    IN  [pwm  |-> IF saved.running THEN Running(wave, ok) ELSE Stopped(wave),
         test |-> NoTest]

\* PWM_SelfTest_Cancel.
SelfTestCancel(o, ok) == IF Testing(o) THEN Restored(o, ok) ELSE o

\* PWM_SelfTest_ApplyPoint.
PointApplied(o, ok) ==
    LET point == TestPoints[o.test.point]
    IN  IF point.frequency = 0
        THEN Stopped(o.pwm)
        ELSE Running(Waveform(o.pwm, point.frequency, point.duty), ok)

\* PWM_SelfTest_Process.
SelfTestProcess(o, ok) ==
    CASE ~Testing(o) -> o
      [] o.test.phase = "apply" ->
             LET applied == [o EXCEPT !.pwm = PointApplied(o, ok)]
             IN  IF applied.pwm.running \/ TestPoints[o.test.point].frequency = 0
                 THEN [applied EXCEPT
                           !.test = TestAt("settle", o.test.point, o.test.saved)]
                 ELSE Restored(applied, ok)
      [] o.test.phase = "settle" /\ o.test.age < SettleTime -> o
      [] OTHER ->
             IF o.test.point = Len(TestPoints)
             THEN Restored(o, ok)
             ELSE [o EXCEPT
                       !.test = TestAt("apply", o.test.point + 1, o.test.saved)]

----------------------------------------------------------------------------
(* App_Control_Process. *)

\* A mutated ApplyPwm: the output is left to a test that is running.
SlipTestOwnsOutput(o, permitted, effective, ok) ==
    IF Testing(o) THEN o
    ELSE IF effective THEN [o EXCEPT !.pwm = Running(o.pwm, ok)]
                      ELSE [o EXCEPT !.pwm = Stopped(o.pwm)]

\* App_Control_ApplyPwm.
ApplyPwm(o, permitted, effective, ok) ==
    CASE Testing(o) /\ permitted  -> o
      [] Testing(o) /\ ~permitted ->
             LET cancelled == SelfTestCancel(o, ok)
             IN  [cancelled EXCEPT !.pwm = Stopped(cancelled.pwm)]
      [] ~Testing(o) /\ effective  -> [o EXCEPT !.pwm = Running(o.pwm, ok)]
      [] ~Testing(o) /\ ~effective -> [o EXCEPT !.pwm = Stopped(o.pwm)]

\* One pass with the switch data that TIC12400_Probe_GetSwitchState returns.
ControlProcess(valid, closed, ok) ==
    /\ switch_data_valid' = valid
    /\ closed_switches' = IF valid THEN closed ELSE {}
    /\ led_1_on' = LedEffective'
    /\ LET permitted == Permitted("pwm")'
           effective == PwmEffective'
           before == ApplyPwm([pwm |-> pwm, test |-> test],
                              permitted, effective, ok)
           after  == ApplyPwm(SelfTestProcess(before, ok),
                              permitted, effective, ok)
       IN  pwm' = after.pwm /\ test' = after.test

\* What a CAN command leaves of the output.
OutputBecomes(o) == pwm' = o.pwm /\ test' = o.test

ControlTick ==
    test' = IF test.phase = "settle" /\ test.age < SettleTime
            THEN [test EXCEPT !.age = test.age + 1] ELSE test

=============================================================================
