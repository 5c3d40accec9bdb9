--------------------------- MODULE MCFlashUpdate ----------------------------
(***************************************************************************)
(* Small instances of FlashUpdate: an artifact whose blocks outnumber the  *)
(* values of the block counter, and another for the slot that is running.  *)
(***************************************************************************)
EXTENDS FlashUpdate

CONSTANTS u1, u2

MCBlocks == [u \in Artifacts |-> IF u = u1 THEN 4 ELSE 2]
=============================================================================
