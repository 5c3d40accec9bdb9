------------------------------ MODULE MCIsoTp -------------------------------
(***************************************************************************)
(* A small instance of IsoTp: requests and responses of one frame and of   *)
(* several, in blocks of two frames, with sequence numbers that wrap       *)
(* within a message, on a bus that repeats frames of every type.           *)
(*                                                                         *)
(* The first two requests are answered by single frames, which a third can *)
(* be given in the place of its own; a long response is followed by long   *)
(* requests, which what is left of it can meet.                            *)
(***************************************************************************)
EXTENDS IsoTp

MCRequestSize == <<1, 1, 1, 4, 4>>
MCResponseSize == <<1, 1, 4, 1, 3>>
=============================================================================
