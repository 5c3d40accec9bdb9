---------------------------- MODULE BootRecords ----------------------------
(***************************************************************************)
(* The two redundant flash records of the boot manager and how             *)
(* Boot_Control_DecodeRecord and Boot_Control_Load (boot_control.c) read   *)
(* them.                                                                   *)
(*                                                                         *)
(* The 64-byte record is four 16-byte flashwords: three of body, then the  *)
(* one with the CRC and the commit marker.  A flashword holds the control  *)
(* state it was encoded from, or is blank.  The CRC in the last word       *)
(* covers the body, so a record whose words come from different states, or *)
(* hold anything else, does not decode.                                    *)
(***************************************************************************)
EXTENDS BootControl

CONSTANTS
    Erased,     \* a flashword that reads 0xFF.. (not yet programmed)
    Corrupt,    \* a flashword that reads back with wrong bytes
    Unreadable  \* a torn flashword: reading it is an ECC error

\* What one flashword can hold when it is not a piece of a control record.
Blank == {Erased, Corrupt, Unreadable}

ASSUME FlashwordAssumption ==
    /\ Blank \cap Control = {}
    /\ Erased # Corrupt /\ Erased # Unreadable /\ Corrupt # Unreadable

Records == 0 .. 1
Units == 0 .. 3
BodyUnits == 0 .. 2
CommitUnit == 3

Decodes(record) ==
    /\ record[CommitUnit] \in Control
    /\ IsStateValid(record[CommitUnit])
    /\ \A u \in BodyUnits : record[u] = record[CommitUnit]

Decoded(record) == record[CommitUnit]

Conflict(flash) ==
    /\ \A r \in Records : Decodes(flash[r])
    /\ LET s0 == Decoded(flash[0])
           s1 == Decoded(flash[1])
           delta == GenerationDelta(s1.generation, s0.generation)
       IN  \/ delta = 0 /\ s0 # s1
           \/ 2 * delta = GenerationModulus

\* Boot_Control_Load returns BOOT_CONTROL_RESULT_OK ...
Loads(flash) ==
    /\ \E r \in Records : Decodes(flash[r])
    /\ ~Conflict(flash)

\* ... and *selected_record is
SelectedRecord(flash) ==
    IF \/ ~Decodes(flash[0])
       \/ /\ Decodes(flash[1])
          /\ IsGenerationNewer(Decoded(flash[1]).generation,
                               Decoded(flash[0]).generation)
    THEN 1
    ELSE 0

Selected(flash) == Decoded(flash[SelectedRecord(flash)])

\* Slips: the selected record is overwritten, or always the second one.
SlipOverwriteSelected(flash) == SelectedRecord(flash)
SlipAlwaysRecord1(flash) == 1

\* The record a new state is persisted into.
OtherRecord(flash) == 1 - SelectedRecord(flash)

\* The slot on trial according to the records a boot would select now.
PendingIn(flash) ==
    IF Loads(flash) THEN Selected(flash).pending_slot ELSE "NONE"
=============================================================================
