-------------------------- MODULE MCControlSystem --------------------------
(***************************************************************************)
(* A small instance of ControlSystem: the self test has one point with a   *)
(* signal and one without, and a waveform that rounding could lose is      *)
(* among the two that are commanded.                                       *)
(***************************************************************************)
EXTENDS ControlSystem

MCTestPoints == <<[frequency |-> 3, duty |-> 50], [frequency |-> 0, duty |-> 0]>>
MCFrequencies == {1, 2}
MCDuties == {99}
MCLimits == {0, 2}
=============================================================================
