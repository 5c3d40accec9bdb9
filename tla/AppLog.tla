------------------------------- MODULE AppLog -------------------------------
(***************************************************************************)
(* The event log of the firmware, app_log.c: a ring of records in RAM that *)
(* survives a reset, and the indices into it, which do not.                *)
(*                                                                         *)
(* A record is the number of its event with the sequence number it was     *)
(* given.  A slot is two words: its body, and the word with the CRC and    *)
(* the commit marker, which names the record that it was computed for.     *)
(* App_Log_Push runs with interrupts disabled, so that only a reset can    *)
(* come between two of its stores; the stores go to a cache line that may  *)
(* be written back at any time, so that the reset leaves any of them.      *)
(*                                                                         *)
(* App_Log_Clear, which only the unit tests call, and the debug counters   *)
(* are left out.                                                           *)
(***************************************************************************)
EXTENDS Integers, FiniteSets, Sequences

CONSTANTS
    Capacity,           \* APP_LOG_RAM_CAPACITY
    SequenceModulus,    \* 2^32
    StartSequences,     \* newest sequence numbers retained at first, or 0
    MaxEvents           \* bound on the events

ASSUME CapacityAssumption == Capacity \in Nat /\ Capacity > 1
ASSUME ModulusAssumption ==
    SequenceModulus \in Nat /\ SequenceModulus > 2 * Capacity
ASSUME StartAssumption == StartSequences \subseteq 0 .. (SequenceModulus - 1)
ASSUME EventsAssumption == MaxEvents \in Nat /\ Capacity <= MaxEvents

VARIABLES
    slots,          \* g_appLogRecords
    head_index, tail_index, count, next_sequence,
    storage_ready,
    events          \* history: the last event there was

ring == <<head_index, tail_index, count, next_sequence, storage_ready>>
logVars == <<slots, ring, events>>

Indices == 0 .. (Capacity - 1)
Blank == [sequence |-> 0, event |-> 0]
Empty == [body |-> Blank, commit |-> Blank]

Valid(slot) == slot.commit # Blank /\ slot.commit = slot.body    \* App_Log_IsRecordValid

\* A mutated IsSequenceNewer: compared as unsigned numbers.
SlipIsSequenceNewer(candidate, reference) == candidate > reference

\* The sign of the 32-bit difference.
IsSequenceNewer(candidate, reference) ==
    LET difference == (candidate - reference) % SequenceModulus
    IN  difference > 0 /\ 2 * difference < SequenceModulus

Following(sequence) ==
    IF sequence = SequenceModulus - 1 THEN 1 ELSE sequence + 1

PreviousSequence(sequence) ==
    IF sequence = 1 THEN SequenceModulus - 1 ELSE sequence - 1

Back(index, n) == (index + Capacity - n) % Capacity

\* What App_Log_CommitRecord leaves in a slot: the last word is cleared first,
\* the words of the body, taken as one, follow, and the last word is stored.
Stores(slot, record) ==
    <<[slot EXCEPT !.commit = Blank],
      [body |-> record, commit |-> Blank],
      [body |-> record, commit |-> record]>>

-----------------------------------------------------------------------------
\* The first loop of App_Log_Recover: the newest among the first n slots.
Newest(retained) ==
    LET newest[n \in 0 .. Capacity] ==
            IF n = 0 THEN -1
            ELSE LET best == newest[n - 1]
                     slot == retained[n - 1]
                 IN  IF /\ Valid(slot)
                        /\ \/ best = -1
                           \/ IsSequenceNewer(slot.body.sequence,
                                              retained[best].body.sequence)
                     THEN n - 1
                     ELSE best
    IN  newest[Capacity]

\* Its second loop: how many records lead up to the newest without a gap.
Run(retained, newest) ==
    Cardinality({n \in Indices : \A i \in 0 .. n :
        /\ Valid(retained[Back(newest, i)])
        /\ i > 0 => retained[Back(newest, i)].body.sequence =
                    PreviousSequence(retained[Back(newest, i - 1)].body.sequence)})

Nothing == <<0, 0, 0, 1>>

\* head_index, tail_index, count and next_sequence after App_Log_Recover
Recovered(retained) ==
    LET newest == Newest(retained)
        head == (newest + 1) % Capacity
        run == Run(retained, newest)
    IN  IF newest = -1
        THEN Nothing
        ELSE <<head, Back(head, run), run,
               Following(retained[newest].body.sequence)>>

\* App_Log_Init over what a reset left; the RAM may be out of reach.
AppLogInit(retained) ==
    /\ storage_ready' \in BOOLEAN
    /\ LET found == IF storage_ready' THEN Recovered(retained) ELSE Nothing
       IN  /\ head_index' = found[1] /\ tail_index' = found[2]
           /\ count' = found[3] /\ next_sequence' = found[4]
    /\ slots' = IF storage_ready' /\ Newest(retained) = -1
                THEN [i \in Indices |-> Empty]
                ELSE retained

Push ==
    /\ events < MaxEvents
    /\ events' = events + 1
    /\ storage_ready
    /\ LET record == [sequence |-> next_sequence, event |-> events']
       IN  slots' = [slots EXCEPT ![head_index] = Stores(@, record)[3]]
    /\ next_sequence' = Following(next_sequence)
    /\ head_index' = (head_index + 1) % Capacity
    /\ IF count < Capacity
       THEN count' = count + 1 /\ UNCHANGED tail_index
       ELSE tail_index' = (tail_index + 1) % Capacity /\ UNCHANGED count
    /\ UNCHANGED storage_ready

ResetAtRest == AppLogInit(slots) /\ UNCHANGED events

ResetInPush ==
    /\ storage_ready /\ events < MaxEvents
    /\ events' = events + 1
    /\ LET record == [sequence |-> next_sequence, event |-> events']
           stores == Stores(slots[head_index], record)
       IN  \E n \in DOMAIN stores :
              AppLogInit([slots EXCEPT ![head_index] = stores[n]])

\* The RAM holds nothing, or a full ring whose newest record is the last one.
InitLog ==
    \E newest \in StartSequences :
        LET age(i) == Capacity - 1 - i
            sequence(i) == IF newest > age(i) THEN newest - age(i)
                           ELSE newest - age(i) + SequenceModulus - 1
            record(i) == [sequence |-> sequence(i), event |-> i + 1]
            retained == [i \in Indices |->
                            IF newest = 0 THEN Empty
                            ELSE [body |-> record(i), commit |-> record(i)]]
            found == Recovered(retained)
        IN  /\ slots = retained
            /\ head_index = found[1] /\ tail_index = found[2]
            /\ count = found[3] /\ next_sequence = found[4]
            /\ storage_ready = TRUE
            /\ events = Capacity

-----------------------------------------------------------------------------
RecordAt(i) == slots[i].body
Logged == [n \in 1 .. count |-> RecordAt((tail_index + n - 1) % Capacity)]

\* App_Log_ReadBySequence
Found(sequence) == {record \in {Logged[n] : n \in 1 .. count} :
                        record.sequence = sequence}

\* App_Log_GetInfo
Info == [count |-> count,
         oldest |-> IF count = 0 THEN 0 ELSE Logged[1].sequence,
         latest |-> IF count = 0 THEN 0 ELSE Logged[count].sequence]
=============================================================================
