-------------------------- MODULE MCSwitchMonitor --------------------------
(***************************************************************************)
(* A small instance of SwitchMonitor: two switches, one of which may be a  *)
(* battery switch.                                                         *)
(***************************************************************************)
EXTENDS SwitchMonitor

MCSwitches == {1, 2}
MCBatteryCapable == {1}
=============================================================================
