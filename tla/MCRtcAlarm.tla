----------------------------- MODULE MCRtcAlarm -----------------------------
(***************************************************************************)
(* A small instance of RtcAlarm: two alarms and three commands.            *)
(***************************************************************************)
EXTENDS RtcAlarm

MCAlarms == {"daily", "hourly"}
=============================================================================
