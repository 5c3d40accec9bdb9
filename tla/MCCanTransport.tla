--------------------------- MODULE MCCanTransport ---------------------------
(***************************************************************************)
(* A small instance of CanTransport: an event with two values, two         *)
(* periodic identifiers, and a plain frame that shares one of them.        *)
(***************************************************************************)
EXTENDS CanTransport

CONSTANTS speed, switches, alarm, first, second

MCIds == {speed, switches, alarm}
MCValues == {first, second}
MCClassic == {[id |-> speed, value |-> first]}
MCLatest == [id : {switches}, value : {first, second}]
                \cup {[id |-> speed, value |-> first]}
MCHighPriority == [id : {alarm}, value : {first, second}]
=============================================================================
