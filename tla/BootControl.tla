---------------------------- MODULE BootControl ----------------------------
(***************************************************************************)
(* The rollback policy of the boot manager, Core/Src/boot_control.c, as    *)
(* operators on a control state.  Nothing here has state of its own:       *)
(* BootRecords adds the redundant flash records, BootFlash programs them,  *)
(* and BootSystem calls the policy from the bootloader and from the        *)
(* running application.                                                    *)
(*                                                                         *)
(* The C functions validate their pointers first; those checks cannot fail *)
(* at any call in the repository and are not modelled.  A result code      *)
(* other than OK is the negation of the Can... operator that guards the    *)
(* update, since every failing return leaves *state as it was.             *)
(***************************************************************************)
EXTENDS Integers

CONSTANTS
    GenerationModulus,    \* 2^32: generation is a uint32_t
    MaxPendingAttempts    \* BOOT_CONTROL_MAX_PENDING_ATTEMPTS

\* The half range must be larger than 2, the distance NextGeneration covers
\* when it skips 0, for serial-number comparison to order two neighbours.
ASSUME GenerationAssumption ==
    /\ GenerationModulus \in Nat /\ GenerationModulus >= 6
    /\ GenerationModulus % 2 = 0

ASSUME AttemptsAssumption == MaxPendingAttempts \in Nat \ {0}

----------------------------------------------------------------------------
Slots == {"A", "B"}
OtherSlot(slot) == IF slot = "A" THEN "B" ELSE "A"

Generations == 0 .. (GenerationModulus - 1)

\* Boot_ControlState_t
Control == [generation : Generations,
            confirmed_slot : Slots,
            pending_slot : Slots \cup {"NONE"},
            attempts_remaining : Nat,
            minimum_security_counter : Nat,
            confirmed_security_counter : Nat,
            pending_security_counter : Nat,
            confirmed_build_version : Nat,
            pending_build_version : Nat]

IsStateValid(s) ==
    /\ s.generation # 0
    /\ s.confirmed_slot \in Slots
    /\ s.confirmed_security_counter = s.minimum_security_counter
    /\ \/ /\ s.pending_slot = "NONE"
          /\ s.attempts_remaining = 0
          /\ s.pending_security_counter = 0
          /\ s.pending_build_version = 0
       \/ /\ s.pending_slot = OtherSlot(s.confirmed_slot)
          /\ s.attempts_remaining <= MaxPendingAttempts
          /\ s.pending_security_counter > s.minimum_security_counter

NextGeneration(g) == IF g = GenerationModulus - 1 THEN 1 ELSE g + 1

\* uint32_t subtraction of two generations.
GenerationDelta(candidate, reference) ==
    IF candidate >= reference THEN candidate - reference
                              ELSE candidate - reference + GenerationModulus

\* (int32_t)(candidate - reference) > 0
IsGenerationNewer(candidate, reference) ==
    LET delta == GenerationDelta(candidate, reference)
    IN  delta # 0 /\ 2 * delta < GenerationModulus

ClearPending(s) ==
    [s EXCEPT !.pending_slot = "NONE",
              !.attempts_remaining = 0,
              !.pending_security_counter = 0,
              !.pending_build_version = 0]

NewGeneration(s) == [s EXCEPT !.generation = NextGeneration(@)]

Initialize(slot, security_counter, build_version) ==
    [generation |-> 1,
     confirmed_slot |-> slot,
     pending_slot |-> "NONE",
     attempts_remaining |-> 0,
     minimum_security_counter |-> security_counter,
     confirmed_security_counter |-> security_counter,
     pending_security_counter |-> 0,
     confirmed_build_version |-> build_version,
     pending_build_version |-> 0]

----------------------------------------------------------------------------
(* The three policy decisions.                                             *)

\* Boot_Control_ScheduleUpdate
CanSchedule(s, target_slot, security_counter) ==
    /\ IsStateValid(s)
    /\ target_slot \in Slots \ {s.confirmed_slot}
    /\ s.pending_slot = "NONE"
    /\ security_counter > s.minimum_security_counter

Scheduled(s, target_slot, security_counter, build_version) ==
    NewGeneration([s EXCEPT !.pending_slot = target_slot,
                            !.attempts_remaining = MaxPendingAttempts,
                            !.pending_security_counter = security_counter,
                            !.pending_build_version = build_version])

\* Boot_Control_SelectBoot; usable is the set of slots whose image is valid.
CanTry(s, usable) ==
    /\ s.pending_slot \in usable
    /\ s.attempts_remaining > 0

\* Slip: the attempt is not counted.
SlipTriedForFree(s) == NewGeneration(s)

Tried(s) == NewGeneration([s EXCEPT !.attempts_remaining = @ - 1])

\* Slip: the exhausted update is not cleared.
SlipAbandonedStaysPending(s) == NewGeneration(s)

Abandoned(s) == NewGeneration(ClearPending(s))

SelectBoot(s, usable) ==
    IF CanTry(s, usable)
    THEN [state |-> Tried(s), decision |-> s.pending_slot]
    ELSE [state |-> IF s.pending_slot = "NONE" THEN s ELSE Abandoned(s),
          decision |-> IF s.confirmed_slot \in usable THEN s.confirmed_slot
                                                     ELSE "RECOVERY"]

\* Boot_Control_ConfirmRunning, when it changes the state; a confirmed image
\* that confirms itself again gets OK and no change.
CanConfirm(s, running_slot, security_counter, build_version) ==
    /\ IsStateValid(s)
    /\ running_slot = s.pending_slot
    /\ security_counter = s.pending_security_counter
    /\ build_version = s.pending_build_version

Confirmed(s, running_slot, security_counter, build_version) ==
    NewGeneration(ClearPending(
        [s EXCEPT !.confirmed_slot = running_slot,
                  !.minimum_security_counter = security_counter,
                  !.confirmed_security_counter = security_counter,
                  !.confirmed_build_version = build_version]))
=============================================================================
