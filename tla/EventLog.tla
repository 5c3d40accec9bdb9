------------------------------ MODULE EventLog ------------------------------
(***************************************************************************)
(* What the retained event log promises to those who read it: the latest   *)
(* records, numbered without a gap, in the order of their events.  A reset *)
(* loses nothing but the oldest record, and that only when it was being    *)
(* replaced.                                                               *)
(***************************************************************************)
EXTENDS Naturals, Sequences

CONSTANTS
    Capacity,           \* APP_LOG_RAM_CAPACITY
    SequenceModulus,    \* 2^32: sequence numbers wrap from its predecessor to 1
    Events              \* the events, numbered in the order they happen

VARIABLE log

Following(sequence) ==
    IF sequence = SequenceModulus - 1 THEN 1 ELSE sequence + 1

Consecutive(records) ==
    \A i \in 1 .. Len(records) - 1 :
        /\ records[i + 1].sequence = Following(records[i].sequence)
        /\ records[i].event < records[i + 1].event

Init == Len(log) <= Capacity /\ Consecutive(log)

Kept(records) == IF Len(records) = Capacity THEN Tail(records) ELSE records

\* An event becomes the newest record.
Logs(records, event) ==
    /\ records # <<>> => records[Len(records)].event < event
    /\ log' = Append(Kept(records),
                     [sequence |-> IF records = <<>> THEN 1
                                   ELSE Following(records[Len(records)].sequence),
                      event |-> event])

LoseOldest(records) ==
    /\ Len(records) = Capacity
    /\ log' = Tail(records)

Next ==
    LET records == log
    IN  LoseOldest(records) \/ \E event \in Events : Logs(records, event)
Spec == Init /\ [][Next]_log
=============================================================================
