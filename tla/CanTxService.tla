---------------------------- MODULE CanTxService ----------------------------
(***************************************************************************)
(* What Core/Inc/can_transport.h promises to the publishers of CAN frames: *)
(* event and response messages go out in the order they were accepted,     *)
(* before every periodic message; a periodic message that waits is         *)
(* replaced by a newer one with its identifier; and when there is no room  *)
(* an event may take the place of one replaceable message.                 *)
(***************************************************************************)
EXTENDS Integers, Sequences, SequencesExt

CONSTANTS
    Messages,   \* records with the fields id, value, high_priority, replaceable
    Capacity,   \* messages that can wait
    Nothing     \* nothing was handed over yet

VARIABLES
    events,     \* the event messages that wait
    periodic,   \* the other messages that wait
    handed,     \* the message given to the controller last
    result      \* what the last request was answered

vars == <<events, periodic, handed, result>>

Room == Len(events) + Len(periodic) < Capacity
Idle == events = <<>> /\ periodic = <<>>

Init ==
    /\ events = <<>> /\ periodic = <<>>
    /\ handed = Nothing
    /\ result = "OK"

\* A request is passed on at once only when nothing else waits.
PassOn(m) ==
    /\ Idle
    /\ handed' = m
    /\ result' = "OK"
    /\ UNCHANGED <<events, periodic>>

AcceptEvent(m) ==
    /\ m.high_priority
    /\ events' = Append(events, m)
    /\ \/ Room /\ UNCHANGED periodic
       \/ /\ ~Room
          /\ \E i \in DOMAIN periodic :
                /\ periodic[i].replaceable
                /\ periodic' = RemoveAt(periodic, i)
    /\ result' = "QUEUED"
    /\ UNCHANGED handed

\* The positions of the messages that m replaces.
Copies(m) ==
    {i \in DOMAIN periodic : m.replaceable /\ periodic[i].replaceable
                                           /\ periodic[i].id = m.id}

AcceptPeriodic(m) ==
    /\ ~m.high_priority
    /\ \/ /\ Copies(m) = {} /\ Room
          /\ periodic' = Append(periodic, m)
       \/ \E i \in Copies(m) : periodic' = ReplaceAt(periodic, i, m)
    /\ result' = "QUEUED"
    /\ UNCHANGED <<events, handed>>

Refuse(m) ==
    /\ ~Room
    /\ IF m.high_priority
       THEN \A i \in DOMAIN periodic : ~periodic[i].replaceable
       ELSE Copies(m) = {}
    /\ result' = "QUEUE_FULL"
    /\ UNCHANGED <<events, periodic, handed>>

HandOver ==
    /\ \/ /\ events # <<>>
          /\ handed' = Head(events)
          /\ events' = Tail(events)
          /\ UNCHANGED periodic
       \/ /\ events = <<>> /\ periodic # <<>>
          /\ handed' = Head(periodic)
          /\ periodic' = Tail(periodic)
          /\ UNCHANGED events
    /\ UNCHANGED result

\* There is no controller to send with.
Unavailable ==
    /\ Idle
    /\ result' = "NOT_INITIALIZED"
    /\ UNCHANGED <<events, periodic, handed>>

Next ==
    \/ \E m \in Messages :
          PassOn(m) \/ AcceptEvent(m) \/ AcceptPeriodic(m) \/ Refuse(m)
    \/ HandOver
    \/ Unavailable

Spec == Init /\ [][Next]_vars
=============================================================================
