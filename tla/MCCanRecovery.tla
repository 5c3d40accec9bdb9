--------------------------- MODULE MCCanRecovery ---------------------------
(***************************************************************************)
(* Small instances of CanRecovery: the retry interval is two polls of the  *)
(* main loop, and the tick counter wraps after eight.                      *)
(***************************************************************************)
EXTENDS CanRecovery
=============================================================================
