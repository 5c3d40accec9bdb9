----------------------------- MODULE PwmControl -----------------------------
(***************************************************************************)
(* The PWM output, Core/Src/pwm_control.c: what its calls do to            *)
(* g_pwmControlState.  The state is a record; the timer registers are its  *)
(* period and pulse.                                                       *)
(*                                                                         *)
(* A duty is stored as the percentage that the counts of a period can      *)
(* express.  The self test saves that percentage and later sets it again.  *)
(*                                                                         *)
(* HAL_TIM_PWM_Stop can fail: App_SafeState_Engage then takes the pin from *)
(* the timer, and the output is off as after a stop that succeeds.         *)
(***************************************************************************)
EXTENDS Integers

CONSTANTS
    CounterClock,   \* counter_clock_hz
    MaxFrequency    \* PWM_CONTROL_MAX_FREQUENCY_HZ

ASSUME ClockAssumption ==
    /\ CounterClock \in Nat \ {0}
    /\ MaxFrequency \in Nat \ {0}

\* The counts of a period, rounded to the nearest.
PeriodTicks(frequency) == (CounterClock + frequency \div 2) \div frequency

PulseTicks(period, duty) == (period * duty + 50) \div 100

\* A mutated DutyPercent: the percentage is rounded down.
SlipDutyPercent(period, pulse) == (pulse * 100) \div period

\* The duty that is physically produced.
DutyPercent(period, pulse) == (pulse * 100 + period \div 2) \div period

\* PWM_Control_Init, before any waveform was set.
NoPwm == [running |-> FALSE, frequency |-> 0, duty |-> 0, pulse |-> 0]

SetFails(frequency) == \/ frequency \notin 1 .. MaxFrequency
                       \/ PeriodTicks(frequency) < 1

\* PWM_Control_Set.  The waveform changes without stopping the output.
Waveform(pwm, frequency, duty) ==
    LET period == PeriodTicks(frequency)
        pulse  == PulseTicks(period, duty)
    IN  IF SetFails(frequency)
        THEN pwm
        ELSE [pwm EXCEPT !.frequency = frequency, !.pulse = pulse,
                         !.duty = DutyPercent(period, pulse)]

\* PWM_Control_Start and PWM_Control_Stop; HAL_TIM_PWM_Start succeeds if ok.
Running(pwm, ok) == [pwm EXCEPT !.running = pwm.running \/ ok]
Stopped(pwm) == [pwm EXCEPT !.running = FALSE]

=============================================================================
