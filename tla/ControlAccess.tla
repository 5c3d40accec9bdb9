--------------------------- MODULE ControlAccess ---------------------------
(***************************************************************************)
(* The window in which commands may change something,                      *)
(* Core/Src/can_control_access.c.  The button interrupt counts requests;   *)
(* the main loop opens the window and closes it by a deadline that is      *)
(* compared as a signed 32-bit difference.                                 *)
(*                                                                         *)
(* The deadline is kept as its difference to the tick counter, and the     *)
(* counters as whether they differ.                                        *)
(***************************************************************************)
EXTENDS Integers

CONSTANTS
    Window,         \* CAN_CONTROL_ACCESS_WINDOW_MS, in ticks
    MaxLate,        \* bound: the main loop notices a deadline before so many ticks
    TickModulus     \* 2^32: HAL_GetTick is a uint32_t

ASSUME AccessAssumption ==
    /\ Window \in Nat \ {0} /\ MaxLate \in Nat \ {0}
    /\ TickModulus \in Nat /\ TickModulus % 2 = 0
    /\ 2 * Window < TickModulus /\ 2 * MaxLate < TickModulus

VARIABLES
    access_requested,   \* request_count # handled_request_count
    access_active,
    time_left,          \* (deadline - HAL_GetTick()) modulo TickModulus
    press_age           \* history: ticks since the last press was handled

access == <<access_requested, access_active, time_left, press_age>>

AccessInit ==
    /\ access_requested = FALSE /\ access_active = FALSE
    /\ time_left = 0 /\ press_age = Window

\* CAN_ControlAccess_RequestFromIsr.
Press ==
    /\ access_requested' = TRUE
    /\ UNCHANGED <<access_active, time_left, press_age>>

\* A mutated Expired: the deadline must be hit exactly.
SlipExpiredExactly == time_left = 0

\* (int32_t)(deadline - now) <= 0.
Expired == time_left = 0 \/ time_left >= TickModulus \div 2

\* CAN_ControlAccess_Update.
AccessUpdate ==
    \/ /\ access_requested
       /\ access_requested' = FALSE /\ access_active' = TRUE
       /\ time_left' = Window /\ press_age' = 0
    \/ /\ ~access_requested /\ access_active /\ Expired
       /\ access_active' = FALSE /\ time_left' = 0
       /\ UNCHANGED <<access_requested, press_age>>
    \/ /\ ~access_requested /\ ~(access_active /\ Expired)
       /\ UNCHANGED access

\* The deadline of a closed window is not looked at again.
AccessTick ==
    /\ access_active => time_left # TickModulus - MaxLate
    /\ time_left' = CASE ~access_active                 -> 0
                      [] access_active /\ time_left = 0 -> TickModulus - 1
                      [] access_active /\ time_left > 0 -> time_left - 1
    /\ press_age' = IF press_age < Window THEN press_age + 1 ELSE press_age
    /\ UNCHANGED <<access_requested, access_active>>

=============================================================================
