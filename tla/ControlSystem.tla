--------------------------- MODULE ControlSystem ---------------------------
(***************************************************************************)
(* Commands, outputs and transmit slots: the part of Core/Src/can_app.c    *)
(* that receives commands and runs the slots, with AppControl and          *)
(* ControlAccess, in the order the main loop calls them.                   *)
(*                                                                         *)
(* A pass is App_Control_Process with some switch data, CAN_App_Process    *)
(* with a batch of commands, the slot policy and the slots.  The button    *)
(* is pressed, and time passes, anywhere between these steps.  Any data    *)
(* may come from the switches: what SwitchMonitor promises about them is   *)
(* not needed here.                                                        *)
(***************************************************************************)
EXTENDS AppControl, ControlAccess

CONSTANTS
    Frequencies,    \* of the waveforms that are commanded
    Duties,
    Limits,         \* counter limits of the slot; 0 stops it
    CycleTime,      \* cycle_time_ms of the slot, in ticks
    FrameBudget     \* CAN_APP_RX_FRAME_BUDGET_PER_PROCESS

ASSUME CommandAssumption ==
    /\ Frequencies \subseteq 1 .. MaxFrequency /\ Duties \subseteq 0 .. 100
    /\ Limits \subseteq Nat /\ CycleTime \in Nat \ {0}
    /\ FrameBudget \in Nat \ {0}

VARIABLES
    slot,       \* tx_slot_1
    at,         \* what the main loop calls next
    frames,     \* processed_count
    commanded,  \* history: the waveform set last, or {}
    started     \* history: the slot was started since it was configured last

vars == <<policy, requests, outputs, access, slot, at, frames, commanded,
          started>>

NoSlot == [configured |-> FALSE, active |-> FALSE, requested |-> FALSE,
           running |-> FALSE, limit |-> 0, counter |-> 0, age |-> 0]

Init ==
    /\ ControlInit /\ AccessInit
    /\ slot = NoSlot
    /\ at = "control" /\ frames = 0
    /\ commanded = {} /\ started = FALSE

----------------------------------------------------------------------------
(* The commands that passed CAN_CommandValidation_Validate. *)

Commands ==
    [name : {"set_slot"}, enable : BOOLEAN]
        \cup [name : {"start_slot"}, limit : Limits]
        \cup [name : {"led"}, on : BOOLEAN]
        \cup [name : {"pwm"}, frequency : Frequencies, duty : Duties]
        \cup {[name |-> "pwm_off"]}
        \cup [name : {"self_test"}, start : BOOLEAN]

\* CAN_CommandGuard_IsPrivileged.
IsPrivileged(c) ==
    \/ c.name = "set_slot" /\ c.enable
    \/ c.name = "start_slot" /\ c.limit # 0
    \/ c.name = "led" /\ c.on
    \/ c.name = "pwm"
    \/ c.name = "self_test" /\ c.start

output == [pwm |-> pwm, test |-> test]

\* CAN_Set_Slot_Config; the limit survives.
SetSlot(c) ==
    /\ c.name = "set_slot"
    /\ slot' = [slot EXCEPT !.configured = TRUE, !.active = c.enable,
                            !.requested = FALSE, !.running = FALSE,
                            !.counter = 0]
    /\ slot_requested' = FALSE
    /\ started' = FALSE
    /\ UNCHANGED <<pwm_requested, led_1_requested, pwm, test, commanded>>

\* CAN_Start_Slot_Counter, which makes the first message due at once.
StartSlot(c) ==
    /\ c.name = "start_slot"
    /\ LET starts == slot.configured /\ slot.active /\ c.limit # 0
           stops  == slot.configured /\ slot.active /\ c.limit = 0
       IN  /\ slot' = [slot EXCEPT
                 !.limit     = c.limit,
                 !.counter   = IF starts THEN 1 ELSE IF stops THEN 0 ELSE @,
                 !.requested = starts,
                 !.running   = starts /\ @,
                 !.age       = IF starts THEN CycleTime ELSE @]
           /\ slot_requested' = starts
           /\ started' = starts
    /\ UNCHANGED <<pwm_requested, led_1_requested, pwm, test, commanded>>

SetLed(c) ==
    /\ c.name = "led"
    /\ led_1_requested' = c.on
    /\ UNCHANGED <<pwm_requested, slot_requested, pwm, test, slot, commanded,
                   started>>

\* CAN_PROTOCOL_CMD_PWM_SET: a test that is running is cancelled first.
SetPwm(c, ok) ==
    /\ c.name = "pwm"
    /\ LET o == SelfTestCancel(output, ok)
       IN  OutputBecomes([o EXCEPT !.pwm = Waveform(o.pwm, c.frequency, c.duty)])
    /\ IF SetFails(c.frequency)
       THEN UNCHANGED <<pwm_requested, commanded>>
       ELSE /\ pwm_requested' = TRUE
            /\ commanded' = {[frequency |-> c.frequency, duty |-> c.duty]}
    /\ UNCHANGED <<slot_requested, led_1_requested, slot, started>>

StopPwm(c, ok) ==
    /\ c.name = "pwm_off"
    /\ OutputBecomes(SelfTestCancel(output, ok))
    /\ pwm_requested' = FALSE
    /\ UNCHANGED <<slot_requested, led_1_requested, slot, commanded, started>>

\* CAN_PROTOCOL_CMD_PWM_SELF_TEST.
SelfTest(c, ok) ==
    /\ c.name = "self_test"
    /\ OutputBecomes(
           CASE c.start /\ Permitted("pwm")  -> SelfTestStart(output)
             [] c.start /\ ~Permitted("pwm") -> output
             [] ~c.start                     -> SelfTestCancel(output, ok))
    /\ UNCHANGED <<requests, slot, commanded, started>>

Execute(c, ok) ==
    \/ SetSlot(c) \/ StartSlot(c) \/ SetLed(c)
    \/ SetPwm(c, ok) \/ StopPwm(c, ok) \/ SelfTest(c, ok)

----------------------------------------------------------------------------
(* The main loop. *)

Control ==
    /\ at = "control"
    /\ UNCHANGED <<requests, access, slot, frames, commanded, started>>
    /\ \E valid, ok \in BOOLEAN, closed \in SUBSET Inputs :
           ControlProcess(valid, closed, ok)
    /\ at' = "app"

\* CAN_Process_Rx_Command looks at the button before its first frame ...
CommandsBegin ==
    /\ at = "app"
    /\ AccessUpdate
    /\ at' = "commands" /\ frames' = 0
    /\ UNCHANGED <<policy, requests, outputs, slot, commanded, started>>

\* ... and again before each: a refused command has no effect.
Command(c, ok) ==
    /\ at = "commands" /\ frames < FrameBudget
    /\ frames' = frames + 1
    /\ AccessUpdate
    /\ IF IsPrivileged(c) /\ ~access_active'
       THEN UNCHANGED <<requests, pwm, test, slot, commanded, started>>
       ELSE Execute(c, ok)
    /\ UNCHANGED <<policy, led_1_on, at>>

\* CAN_Apply_Slot_Policy.
MayRun ==
    /\ SlotEffective /\ slot.requested /\ slot.configured /\ slot.active
    /\ slot.limit # 0

\* CAN_Process_TxSlot after a frame.
NextNumber(number, accepted) ==
    CASE ~accepted                        -> number
      [] accepted /\ number >= slot.limit -> 1
      [] accepted /\ number < slot.limit  -> number + 1

\* CAN_Apply_SlotPolicy, then CAN_Process_TxSlots; a slot that begins to run
\* sends at once.
Slots ==
    /\ at = "commands"
    /\ \E accepted \in BOOLEAN :
           LET due    == ~slot.running \/ slot.age >= CycleTime
               number == IF slot.counter \in 1 .. slot.limit THEN slot.counter
                                                             ELSE 1
           IN  IF MayRun
               THEN slot' = [slot EXCEPT
                          !.running = TRUE,
                          !.counter = IF due THEN NextNumber(number, accepted)
                                             ELSE number,
                          !.age     = IF due THEN 0 ELSE @]
               ELSE slot' = [slot EXCEPT !.running = FALSE]
    /\ at' = "control" /\ frames' = 0
    /\ UNCHANGED <<policy, requests, outputs, access, commanded, started>>

ButtonPressed ==
    /\ Press
    /\ UNCHANGED <<policy, requests, outputs, slot, at, frames, commanded,
                   started>>

Tick ==
    /\ AccessTick
    /\ ControlTick
    /\ slot' = IF slot.age < CycleTime THEN [slot EXCEPT !.age = @ + 1] ELSE slot
    /\ UNCHANGED <<policy, requests, led_1_on, pwm, at, frames, commanded,
                   started>>

Next ==
    \/ Control \/ CommandsBegin
    \/ \E c \in Commands, ok \in BOOLEAN : Command(c, ok)
    \/ Slots \/ ButtonPressed \/ Tick

Spec == Init /\ [][Next]_vars

----------------------------------------------------------------------------
(* Properties. *)

\* Type invariant: the records of the output, the test and the slot, and the
\* window within the signed range of its deadline.
TypeOK ==
    /\ {switch_data_valid, pwm_requested, slot_requested, led_1_requested,
        led_1_on, access_requested, access_active, started} \subseteq BOOLEAN
    /\ closed_switches \subseteq Inputs
    /\ pwm \in [running : BOOLEAN, frequency : 0 .. MaxFrequency,
                duty : 0 .. 100, pulse : Nat]
    /\ test \in [phase : {"idle", "apply", "settle"}, point : 0 .. Len(TestPoints),
                 age : 0 .. SettleTime,
                 saved : [running : BOOLEAN, frequency : 0 .. MaxFrequency,
                          duty : 0 .. 100, pulse : Nat]]
    /\ slot \in [configured : BOOLEAN, active : BOOLEAN, requested : BOOLEAN,
                 running : BOOLEAN, limit : Limits \cup {0}, counter : Nat,
                 age : 0 .. CycleTime]
    /\ time_left \in 0 .. TickModulus - 1 /\ press_age \in 0 .. Window
    /\ at \in {"control", "app", "commands"} /\ frames \in 0 .. FrameBudget
    /\ commanded \subseteq [frequency : Frequencies, duty : Duties]

\* The output is never on against the switch data of the last pass, whoever
\* owns it: the policy, the self test, or the waveform that a cancelled test
\* puts back, in App_Control_Process or in a command.
OutputIsPermitted == pwm.running => Permitted("pwm")

\* After CAN_Process_TxSlots a slot runs only if it was started since it was
\* configured last, is enabled, and the switch data of this pass permits it.
SlotRunsAsStarted ==
    at = "control" /\ slot.running => started /\ slot.active /\ Permitted("slot")

\* What the switches inhibit is off, the output as well as the slot.
InhibitedIsOff == OutputIsPermitted /\ SlotRunsAsStarted

\* Without a test, an output that is on shows exactly the waveform that was
\* commanded last, in timer counts: a self test and its cancellation put it
\* back although it is saved as a rounded percentage (PWM_SelfTest_Restore-
\* Output), and a command during a test is not undone by its end.
WaveformAsCommanded ==
    ~Testing(output) /\ pwm.running =>
        \E c \in commanded :
            /\ pwm.frequency = c.frequency
            /\ pwm.pulse = PulseTicks(PeriodTicks(c.frequency), c.duty)

\* What is on, or may come on, because of commands.
TurnedOn == {x \in {"pwm", "slot", "led", "active", "test"} :
                \/ x = "pwm" /\ pwm_requested
                \/ x = "slot" /\ (slot_requested \/ slot.requested)
                \/ x = "led" /\ led_1_requested
                \/ x = "active" /\ slot.active
                \/ x = "test" /\ Testing(output)}

\* Outside the window after a button press commands only turn things off,
\* however late the main loop notices the deadline and wherever the tick
\* counter wraps (CAN_CommandGuard_IsPrivileged and the handlers, can_app.c).
OnlyReducesOutsideWindow ==
    [][at = "commands" /\ press_age' >= Window => TurnedOn' \subseteq TurnedOn]_vars

=============================================================================
