--------------------------- MODULE MCLogTransfer ----------------------------
(***************************************************************************)
(* Small instances of LogTransfer: a ring of two records that is empty     *)
(* or ends just before the sequence numbers wrap at 7.                     *)
(***************************************************************************)
EXTENDS LogTransfer

MCStartSequences == {0, 6}
MCReaderSequences == (1 - Capacity) .. SequenceModulus
=============================================================================
