---------------------------- MODULE FlashService ----------------------------
(***************************************************************************)
(* What a firmware update promises to its user and to the bootloader:      *)
(* image is what the inactive slot offers to the bootloader, claim what    *)
(* the tool tells the user.  An artifact becomes bootable in one step, out *)
(* of a slot that offers nothing; the slot offers something unsound only   *)
(* when the erase of an earlier one is unfinished; and the tool claims the *)
(* success of an artifact only while the slot offers exactly that one.     *)
(***************************************************************************)
CONSTANT Artifacts

VARIABLES image, claim

vars == <<image, claim>>

Init ==
    /\ image \in Artifacts \cup {"nothing"}
    /\ claim = "nothing"

Erase ==
    /\ claim = "nothing"
    /\ \/ image' = "nothing"
       \/ image # "nothing" /\ image' = "unsound"
    /\ UNCHANGED claim

Accept ==
    /\ image = "nothing" /\ claim = "nothing"
    /\ image' \in Artifacts
    /\ UNCHANGED claim

Claim ==
    /\ \/ claim' = "nothing"
       \/ image \in Artifacts /\ claim' = image
    /\ UNCHANGED image

Next == Erase \/ Accept \/ Claim
Spec == Init /\ [][Next]_vars
=============================================================================
