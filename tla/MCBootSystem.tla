---------------------------- MODULE MCBootSystem ---------------------------
(***************************************************************************)
(* BootSystem with few images and generations modulo 8, so that the        *)
(* generation counter wraps within a few updates.                          *)
(***************************************************************************)
EXTENDS BootSystem
=============================================================================
