------------------------- MODULE LogTransferProofs --------------------------
(***************************************************************************)
(* Theorems about LogTransfer, for every capacity, modulus and bound.      *)
(*                                                                         *)
(* The ring in RAM is a window: a run of valid records that ends with the  *)
(* newest, each numbered after the one before and of a later event, and    *)
(* nothing else that is valid.  The search of App_Log_Recover finds the    *)
(* window, by induction over its loop, and a write to the next slot, torn  *)
(* at any store or whole, leaves another window.  So the indices in use    *)
(* are always those that a reset would find (RingInv), and the window read *)
(* from its oldest record is the log of EventLog.                          *)
(*                                                                         *)
(* The reader sees only records of that log.  Until the sequence numbers   *)
(* wrap, what it has seen and what the ring holds are in one order by      *)
(* event and by number, and the ring reaches as far as any row (RowsInv):  *)
(* the next record is then newer than all of them, in both orders.         *)
(*                                                                         *)
(* Wherever the reader may go on, what the ring holds before is in the     *)
(* files or given up (FollowInv), so that a reader with nothing left to    *)
(* ask for has all of it.  And a record is given up only after late        *)
(* answers: each of them pays for two fragments under way, and each        *)
(* rejection of the record last asked for takes one from before it was     *)
(* asked for (RetryInv).                                                   *)
(***************************************************************************)
EXTENDS LogTransfer, FiniteSetTheorems, SequenceTheorems,
        WellFoundedInduction, TLAPS

\* A sequence number, n steps before another one.
Before(sequence, n) ==
    IF sequence > n THEN sequence - n ELSE sequence - n + SequenceModulus - 1

\* The slots hold a run of records that ends with the newest and has no gap;
\* nothing else in them is valid.
Window(retained, newest, run) ==
    /\ \A n \in 0 .. run - 1 :
          /\ Valid(retained[Back(newest, n)])
          /\ retained[Back(newest, n)].body.sequence =
                Before(retained[newest].body.sequence, n)
    /\ \A m, n \in 0 .. run - 1 :
          m < n => retained[Back(newest, n)].body.event <
                   retained[Back(newest, m)].body.event
    /\ \A n \in run .. Capacity - 1 : ~Valid(retained[Back(newest, n)])

NothingValid(retained) == \A i \in Indices : ~Valid(retained[i])

Slots ==
    {slot \in [body : Records \cup {Blank}, commit : Records \cup {Blank}] :
        slot.commit \in {slot.body, Blank}}
RAM == [Indices -> Slots]

\* The shape of what the RAM retains: nothing, or a run of records with the
\* newest event at its end.
Shape(retained, last) ==
    \/ NothingValid(retained)
    \/ \E newest \in Indices, run \in 1 .. Capacity :
          Window(retained, newest, run) /\ retained[newest].body.event <= last

RingIs(found) == <<head_index, tail_index, count, next_sequence>> = found

\* The indices in use are at all times those that a reset would find.
RingInv ==
    /\ slots \in RAM
    /\ events \in Capacity .. MaxEvents
    /\ storage_ready \in BOOLEAN
    /\ Shape(slots, events)
    /\ RingIs(IF storage_ready THEN Recovered(slots) ELSE Nothing)

\* The records that are around: in the ring, in the answers under way, in the
\* fragments of the reader and in its files.
HeldIn(retained) ==
    {retained[i].body : i \in {j \in Indices : Valid(retained[j])}}
Stored == HeldIn(slots)
Contents(kind, channel) ==
    {channel[i].content : i \in {j \in 1 .. Len(channel) : channel[j].kind = kind}}
Carried(channel) == Contents("record", channel)
Taken(s) == {s.record_fragments[1], s.record_fragments[2]} \ {None}
Seen == exported \cup Carried(toReader) \cup Taken(sync)
Live == {Logged[n] : n \in 1 .. count}

Ordered(records) ==
    \A row, other \in records :
        row.event < other.event <=> row.sequence < other.sequence

Reaches(r, o) == r.sequence <= o.sequence /\ r.event <= o.event

\* While the numbers have not wrapped, the rows are in the order of the events,
\* with what is under way to become rows and what the log holds, and the log
\* reaches as far as any of them.
Rows ==
    /\ Ordered(Seen)
    /\ storage_ready => Ordered(Stored)
    /\ Ordered(Stored) =>
          /\ Ordered(Stored \cup Seen)
          /\ \A r \in Seen : \E o \in Stored : Reaches(r, o)
RowsInv == ~wrapped => Rows

-----------------------------------------------------------------------------
(* Induction and arithmetic.                                               *)

Less == {pair \in Nat \X Nat : pair[1] < pair[2]}

\* A set with zero and the successor of each of its numbers has every number.
LEMMA SetInduction ==
    ASSUME NEW S, 0 \in S, \A n \in Nat : n \in S => n + 1 \in S
    PROVE  \A n \in Nat : n \in S
<1> DEFINE rest == Nat \ S
<1>1. SUFFICES ASSUME rest # {} PROVE FALSE
  OBVIOUS
<1>2. IsWellFoundedOn(Less, Nat)
  <2>1. Less = OpToRel(<, Nat)
    BY DEF Less, OpToRel
  <2> QED BY <2>1, NatLessThanWellFounded
<1>3. PICK x \in rest : \A y \in rest : <<y, x>> \notin Less
  BY <1>1, <1>2, WFMin
<1>4. \A y \in rest : ~(y < x)
  BY <1>3 DEF Less
<1>5. x # 0 /\ x - 1 \in Nat /\ x - 1 \notin rest
  BY <1>3, <1>4
<1> QED BY <1>3, <1>5

\* A reduction modulo the capacity that goes around once at most.
LEMMA ModuloCapacity ==
    ASSUME NEW a \in 0 .. 2 * Capacity - 1
    PROVE  a % Capacity = IF a < Capacity THEN a ELSE a - Capacity
<1>1. \A x \in Nat : x < Capacity =>
          x % Capacity = x /\ (x + Capacity) % Capacity = x
  BY CapacityAssumption
<1>2. CASE a < Capacity
  BY <1>1, <1>2, CapacityAssumption
<1>3. CASE a >= Capacity
  <2>1. a - Capacity \in Nat /\ a - Capacity < Capacity
    BY <1>3, CapacityAssumption
  <2>2. (a - Capacity) + Capacity = a
    BY CapacityAssumption
  <2> QED BY <1>1, <1>3, <2>1, <2>2
<1> QED BY <1>2, <1>3, CapacityAssumption

\* The index before and after, around the ring.
LEMMA BackIs ==
    ASSUME NEW i \in Indices, NEW n \in 0 .. Capacity
    PROVE  /\ Back(i, n) = IF n <= i THEN i - n ELSE i - n + Capacity
           /\ Back(i, n) \in Indices
<1>1. i + Capacity - n \in 0 .. 2 * Capacity - 1
  BY CapacityAssumption DEF Indices
<1>2. (i + Capacity - n) % Capacity =
          IF i + Capacity - n < Capacity THEN i + Capacity - n
                                         ELSE i + Capacity - n - Capacity
  BY <1>1, ModuloCapacity, CapacityAssumption DEF Indices
<1> QED BY <1>2, CapacityAssumption DEF Back, Indices

After(i) == IF i = Capacity - 1 THEN 0 ELSE i + 1

\* The next index of the ring, as App_Log_Push computes it.
LEMMA AfterIs ==
    ASSUME NEW i \in Indices
    PROVE  (i + 1) % Capacity = After(i) /\ After(i) \in Indices
<1>1. i + 1 \in 0 .. 2 * Capacity - 1
  BY CapacityAssumption DEF Indices
<1>2. (i + 1) % Capacity = IF i + 1 < Capacity THEN i + 1 ELSE i + 1 - Capacity
  BY <1>1, ModuloCapacity, CapacityAssumption DEF Indices
<1> QED BY <1>2, CapacityAssumption DEF After, Indices

Sequences == 1 .. SequenceModulus - 1

\* Sequence numbers run around their modulus, without a zero, in both
\* directions alike.
LEMMA FollowingIs ==
    ASSUME NEW s \in Sequences
    PROVE  /\ Following(s) \in Sequences
           /\ \A n \in 0 .. Capacity :
                 /\ Before(s, n) \in Sequences
                 /\ Before(Following(s), n + 1) = Before(s, n)
                 /\ PreviousSequence(Before(s, n)) = Before(s, n + 1)
           /\ Before(Following(s), 0) = Following(s)
           /\ Before(s, 0) = s
  BY CapacityAssumption, ModulusAssumption
  DEF Following, Sequences, Before, PreviousSequence

\* Within a run the comparison of App_Log_IsSequenceNewer is right.
LEMMA NewerIs ==
    ASSUME NEW s \in Sequences, NEW m \in 0 .. Capacity - 1,
           NEW n \in 0 .. Capacity - 1
    PROVE  IsSequenceNewer(Before(s, m), Before(s, n)) <=> m < n
<1> DEFINE a == Before(s, m)
           b == Before(s, n)
           d == (a - b) % SequenceModulus
<1>1. a \in Sequences /\ b \in Sequences
  BY FollowingIs, CapacityAssumption
<1>2. d = IF a >= b THEN a - b ELSE a - b + SequenceModulus
  <2>1. \A x \in Nat : x < SequenceModulus =>
            x % SequenceModulus = x /\ (x - SequenceModulus) % SequenceModulus = x
    BY ModulusAssumption, CapacityAssumption
  <2>2. CASE a >= b
    <3>1. a - b \in Nat /\ a - b < SequenceModulus
      BY <1>1, <2>2, ModulusAssumption DEF Sequences
    <3> QED BY <2>1, <2>2, <3>1
  <2>3. CASE a < b
    <3>1. a - b + SequenceModulus \in Nat /\ a - b + SequenceModulus < SequenceModulus
      BY <1>1, <2>3, ModulusAssumption DEF Sequences
    <3>2. (a - b + SequenceModulus) - SequenceModulus = a - b
      BY <1>1, ModulusAssumption DEF Sequences
    <3>3. ~(a >= b)
      BY <1>1, <2>3 DEF Sequences
    <3> QED BY <2>1, <3>1, <3>2, <3>3
  <2> QED BY <1>1, <2>2, <2>3 DEF Sequences
<1>3. d > 0 /\ 2 * d < SequenceModulus <=> m < n
  BY <1>1, <1>2, CapacityAssumption, ModulusAssumption DEF Before, Sequences
<1> QED BY <1>3 DEF IsSequenceNewer

-----------------------------------------------------------------------------
(* What App_Log_Recover finds.                                             *)

\* The search loop of App_Log_Recover, one slot further.
Better(retained, best, n) ==
    IF /\ Valid(retained[n - 1])
       /\ \/ best = -1
          \/ IsSequenceNewer(retained[n - 1].body.sequence,
                             retained[best].body.sequence)
    THEN n - 1
    ELSE best

Search(retained, found, last) ==
    found = [n \in 0 .. last |->
                IF n = 0 THEN -1 ELSE Better(retained, found[n - 1], n)]

\* There is a function that the recursion of Newest defines.
LEMMA SearchExists ==
    ASSUME NEW retained, NEW last \in Nat
    PROVE  \E found : Search(retained, found, last)
<1> DEFINE S == {k \in Nat : \E found : Search(retained, found, k)}
<1>1. 0 \in S
  <2>1. Search(retained, [n \in 0 .. 0 |-> -1], 0)
    BY DEF Search
  <2> QED BY <2>1
<1>2. ASSUME NEW k \in Nat, k \in S PROVE k + 1 \in S
  <2>1. PICK f : Search(retained, f, k)
    BY <1>2
  <2> DEFINE g == [n \in 0 .. k + 1 |->
                      IF n = k + 1 THEN Better(retained, f[k], k + 1) ELSE f[n]]
  <2>2. \A n \in 0 .. k : f[n] = IF n = 0 THEN -1 ELSE Better(retained, f[n - 1], n)
    BY <2>1 DEF Search
  <2>3. ASSUME NEW n \in 0 .. k + 1
        PROVE  g[n] = IF n = 0 THEN -1 ELSE Better(retained, g[n - 1], n)
    <3>1. CASE n = k + 1
      <4>1. g[n] = Better(retained, f[k], k + 1) /\ g[n - 1] = f[k] /\ n # 0
        BY <3>1
      <4> QED BY <3>1, <4>1
    <3>2. CASE n = 0
      BY <3>2, <2>2
    <3>3. CASE n \in 1 .. k
      <4>1. g[n] = f[n] /\ g[n - 1] = f[n - 1] /\ n # 0 /\ n \in 0 .. k
        BY <3>3
      <4> QED BY <4>1, <2>2
    <3> QED BY <3>1, <3>2, <3>3
  <2>4. Search(retained, g, k + 1)
    <3> DEFINE h == [n \in 0 .. k + 1 |->
                        IF n = 0 THEN -1 ELSE Better(retained, g[n - 1], n)]
    <3>1. \A n \in 0 .. k + 1 : g[n] = h[n]
      BY <2>3
    <3>2. g = h
      BY <3>1
    <3> QED BY <3>2 DEF Search
  <2> QED BY <2>4
<1>3. \A k \in Nat : k \in S
  <2> HIDE DEF S
  <2> QED BY <1>1, <1>2, SetInduction
<1> QED BY <1>3

\* Newest is the end of the search.
LEMMA NewestIs ==
    ASSUME NEW retained
    PROVE  \E found :
              /\ found[0] = -1
              /\ \A n \in 1 .. Capacity :
                    found[n] = Better(retained, found[n - 1], n)
              /\ Newest(retained) = found[Capacity]
<1> DEFINE found == CHOOSE f : Search(retained, f, Capacity)
<1>1. Search(retained, found, Capacity)
  <2>1. \E f : Search(retained, f, Capacity)
    BY SearchExists, CapacityAssumption
  <2> QED BY <2>1
<1>2. found[0] = -1 /\ \A n \in 1 .. Capacity :
          found[n] = Better(retained, found[n - 1], n)
  <2> HIDE DEF found
  <2> QED BY <1>1, CapacityAssumption DEF Search
<1>3. Newest(retained) = found[Capacity]
  BY DEF Newest, Search, Better
<1> QED BY <1>2, <1>3

\* The type of a valid record.
LEMMA ValidRecord ==
    ASSUME NEW retained \in RAM, NEW i \in Indices, Valid(retained[i])
    PROVE  /\ retained[i].body \in Records
           /\ retained[i].body.sequence \in Sequences
           /\ retained[i].body.event \in 1 .. MaxEvents
<1>1. retained[i].body \in Records
  BY DEF RAM, Slots, Valid
<1> QED BY <1>1 DEF Records, Sequences

\* Without a valid record the search finds none and the log starts anew.
LEMMA NothingFound ==
    ASSUME NEW retained, NothingValid(retained)
    PROVE  Newest(retained) = -1 /\ Recovered(retained) = Nothing
<1>1. PICK found :
          /\ found[0] = -1
          /\ \A n \in 1 .. Capacity :
                found[n] = Better(retained, found[n - 1], n)
          /\ Newest(retained) = found[Capacity]
  BY NewestIs
<1> DEFINE S == {n \in Nat : n <= Capacity => found[n] = -1}
<1>2. 0 \in S
  BY <1>1
<1>3. ASSUME NEW n \in Nat, n \in S PROVE n + 1 \in S
  <2>1. SUFFICES ASSUME n + 1 <= Capacity PROVE found[n + 1] = -1
    OBVIOUS
  <2>2. n \in Indices /\ n + 1 \in 1 .. Capacity /\ (n + 1) - 1 = n
    BY <2>1, CapacityAssumption DEF Indices
  <2>3. found[n + 1] = Better(retained, found[n], n + 1)
    BY <1>1, <2>2
  <2>4. ~Valid(retained[n]) /\ found[n] = -1
    BY <1>3, <2>1, <2>2, CapacityAssumption DEF NothingValid
  <2> QED BY <2>2, <2>3, <2>4 DEF Better
<1>4. \A n \in Nat : n \in S
  <2> HIDE DEF S
  <2> QED BY <1>2, <1>3, SetInduction
<1>5. Newest(retained) = -1
  BY <1>1, <1>4, CapacityAssumption
<1> QED BY <1>5 DEF Recovered

\* How long ago a slot was written.
Age(newest, i) == IF i <= newest THEN newest - i ELSE newest - i + Capacity

\* Counted back from the newest, every slot is at its age.
LEMMA AgeIs ==
    ASSUME NEW newest \in Indices, NEW i \in Indices
    PROVE  /\ Age(newest, i) \in 0 .. Capacity - 1
           /\ Back(newest, Age(newest, i)) = i
<1>1. Age(newest, i) \in 0 .. Capacity - 1
  BY CapacityAssumption DEF Age, Indices
<1>2. Back(newest, Age(newest, i)) =
          IF Age(newest, i) <= newest THEN newest - Age(newest, i)
                                      ELSE newest - Age(newest, i) + Capacity
  BY <1>1, BackIs, CapacityAssumption
<1> QED BY <1>1, <1>2, CapacityAssumption DEF Age, Indices

\* In a run, the valid slots are those that are younger than it is long.
LEMMA WindowIs ==
    ASSUME NEW retained \in RAM, NEW newest \in Indices,
           NEW run \in 1 .. Capacity, Window(retained, newest, run)
    PROVE  /\ retained[newest].body.sequence \in Sequences
           /\ Valid(retained[newest])
           /\ \A i \in Indices :
                 /\ Valid(retained[i]) <=> Age(newest, i) < run
                 /\ Valid(retained[i]) =>
                       retained[i].body.sequence =
                          Before(retained[newest].body.sequence, Age(newest, i))
<1>1. Back(newest, 0) = newest
  BY BackIs, CapacityAssumption DEF Indices
<1>2. Valid(retained[newest])
  BY <1>1, CapacityAssumption DEF Window
<1>3. retained[newest].body.sequence \in Sequences
  BY <1>2, ValidRecord
<1>4. ASSUME NEW i \in Indices
      PROVE  /\ Valid(retained[i]) <=> Age(newest, i) < run
             /\ Valid(retained[i]) =>
                   retained[i].body.sequence =
                      Before(retained[newest].body.sequence, Age(newest, i))
  <2>1. Age(newest, i) \in 0 .. Capacity - 1 /\ Back(newest, Age(newest, i)) = i
    BY AgeIs
  <2>2. CASE Age(newest, i) < run
    <3>1. Age(newest, i) \in 0 .. run - 1
      BY <2>1, <2>2
    <3> QED BY <2>1, <2>2, <3>1 DEF Window
  <2>3. CASE ~(Age(newest, i) < run)
    <3>1. Age(newest, i) \in run .. Capacity - 1
      BY <2>1, <2>3
    <3> QED BY <2>1, <2>3, <3>1 DEF Window
  <2> QED BY <2>2, <2>3
<1> QED BY <1>2, <1>3, <1>4

\* The search finds the end of the run.
LEMMA NewestFound ==
    ASSUME NEW retained \in RAM, NEW newest \in Indices,
           NEW run \in 1 .. Capacity, Window(retained, newest, run)
    PROVE  Newest(retained) = newest
<1>1. PICK found :
          /\ found[0] = -1
          /\ \A n \in 1 .. Capacity :
                found[n] = Better(retained, found[n - 1], n)
          /\ Newest(retained) = found[Capacity]
  BY NewestIs
<1> DEFINE Claim(n) ==
              \/ /\ found[n] = -1
                 /\ \A i \in 0 .. n - 1 : ~Valid(retained[i])
              \/ /\ found[n] \in 0 .. n - 1
                 /\ Valid(retained[found[n]])
                 /\ \A i \in 0 .. n - 1 : Valid(retained[i]) =>
                        Age(newest, found[n]) <= Age(newest, i)
           S == {n \in Nat : n <= Capacity => Claim(n)}
<1>2. 0 \in S
  BY <1>1
<1>3. ASSUME NEW n \in Nat, n \in S PROVE n + 1 \in S
  <2>1. SUFFICES ASSUME n + 1 <= Capacity PROVE Claim(n + 1)
    OBVIOUS
  <2>2. n \in Indices /\ n + 1 \in 1 .. Capacity /\ (n + 1) - 1 = n
    BY <2>1, CapacityAssumption DEF Indices
  <2>3. found[n + 1] = Better(retained, found[n], n + 1)
    BY <1>1, <2>2
  <2>4. Claim(n)
    BY <1>3, <2>1, CapacityAssumption
  <2>5. \A i \in Indices : Age(newest, i) \in 0 .. Capacity - 1
    BY AgeIs
  <2>6. \A i \in 0 .. (n + 1) - 1 : i = n \/ i \in 0 .. n - 1
    OBVIOUS
  <2>7. \A i \in 0 .. n : i \in Indices
    BY <2>2, CapacityAssumption DEF Indices
  <2>8. CASE ~Valid(retained[n])
    <3>1. found[n + 1] = found[n]
      BY <2>2, <2>3, <2>8 DEF Better
    <3> QED BY <2>4, <2>6, <2>8, <3>1
  <2>9. CASE Valid(retained[n]) /\ found[n] = -1
    <3>1. found[n + 1] = n
      BY <2>2, <2>3, <2>9 DEF Better
    <3>2. \A i \in 0 .. n - 1 : ~Valid(retained[i])
      BY <2>4, <2>9
    <3>3. \A i \in 0 .. (n + 1) - 1 : Valid(retained[i]) =>
              Age(newest, n) <= Age(newest, i)
      BY <2>2, <2>5, <2>6, <3>2
    <3> QED BY <2>2, <2>9, <3>1, <3>3
  <2>10. CASE Valid(retained[n]) /\ found[n] # -1
    <3> DEFINE b == found[n]
    <3>1. /\ b \in 0 .. n - 1 /\ Valid(retained[b])
          /\ \A i \in 0 .. n - 1 : Valid(retained[i]) =>
                 Age(newest, b) <= Age(newest, i)
      BY <2>4, <2>10
    <3>2. b \in Indices
      BY <2>7, <3>1
    <3>3. /\ retained[b].body.sequence =
                Before(retained[newest].body.sequence, Age(newest, b))
          /\ retained[n].body.sequence =
                Before(retained[newest].body.sequence, Age(newest, n))
          /\ retained[newest].body.sequence \in Sequences
      BY <2>2, <2>10, <3>1, <3>2, WindowIs
    <3>4. IsSequenceNewer(retained[n].body.sequence, retained[b].body.sequence)
              <=> Age(newest, n) < Age(newest, b)
      BY <2>2, <2>5, <3>2, <3>3, NewerIs
    <3>5. CASE Age(newest, n) < Age(newest, b)
      <4>1. found[n + 1] = n
        BY <2>2, <2>3, <2>10, <3>4, <3>5 DEF Better
      <4>2. \A i \in 0 .. (n + 1) - 1 : Valid(retained[i]) =>
                Age(newest, n) <= Age(newest, i)
        BY <2>2, <2>5, <2>6, <2>7, <3>1, <3>2, <3>5
      <4> QED BY <2>2, <2>10, <4>1, <4>2
    <3>6. CASE ~(Age(newest, n) < Age(newest, b))
      <4>1. found[n + 1] = b
        BY <2>2, <2>3, <2>10, <3>4, <3>6 DEF Better
      <4>2. \A i \in 0 .. (n + 1) - 1 : Valid(retained[i]) =>
                Age(newest, b) <= Age(newest, i)
        BY <2>2, <2>5, <2>6, <2>7, <3>1, <3>2, <3>6
      <4> QED BY <2>2, <3>1, <4>1, <4>2
    <3> QED BY <3>5, <3>6
  <2> QED BY <2>8, <2>9, <2>10
<1>4. \A n \in Nat : n \in S
  <2> HIDE DEF S
  <2> QED BY <1>2, <1>3, SetInduction
<1>5. Claim(Capacity)
  BY <1>4, CapacityAssumption
<1>6. Valid(retained[newest]) /\ newest \in 0 .. Capacity - 1
  BY WindowIs DEF Indices
<1>7. /\ found[Capacity] \in 0 .. Capacity - 1
      /\ Age(newest, found[Capacity]) <= Age(newest, newest)
  BY <1>5, <1>6
<1>8. Age(newest, found[Capacity]) = 0
  BY <1>7, AgeIs DEF Age, Indices
<1>9. found[Capacity] = newest
  BY <1>7, <1>8, CapacityAssumption DEF Age, Indices
<1> QED BY <1>1, <1>9

\* The second loop of App_Log_Recover counts the run.
LEMMA RunIs ==
    ASSUME NEW retained \in RAM, NEW newest \in Indices,
           NEW run \in 1 .. Capacity, Window(retained, newest, run)
    PROVE  Run(retained, newest) = run
<1> DEFINE Leads(n) == \A i \in 0 .. n :
              /\ Valid(retained[Back(newest, i)])
              /\ i > 0 => retained[Back(newest, i)].body.sequence =
                     PreviousSequence(retained[Back(newest, i - 1)].body.sequence)
           s == retained[newest].body.sequence
<1>1. s \in Sequences
  BY WindowIs
<1>2. ASSUME NEW n \in 0 .. run - 1 PROVE n \in Indices /\ Leads(n)
  <2>1. n \in Indices
    BY CapacityAssumption DEF Indices
  <2>2. ASSUME NEW i \in 0 .. n, i > 0
        PROVE  retained[Back(newest, i)].body.sequence =
                   PreviousSequence(retained[Back(newest, i - 1)].body.sequence)
    <3>1. i \in 0 .. run - 1 /\ i - 1 \in 0 .. run - 1 /\ i - 1 \in 0 .. Capacity
      BY <2>2, CapacityAssumption
    <3>2. /\ retained[Back(newest, i)].body.sequence = Before(s, i)
          /\ retained[Back(newest, i - 1)].body.sequence = Before(s, i - 1)
      BY <3>1 DEF Window
    <3>3. PreviousSequence(Before(s, i - 1)) = Before(s, (i - 1) + 1)
      BY <1>1, <3>1, FollowingIs
    <3> QED BY <3>1, <3>2, <3>3
  <2>3. \A i \in 0 .. n : Valid(retained[Back(newest, i)])
    BY DEF Window
  <2> QED BY <2>1, <2>2, <2>3
<1>3. ASSUME NEW n \in Indices, Leads(n) PROVE n \in 0 .. run - 1
  <2>1. n \in Nat /\ n <= Capacity - 1
    BY CapacityAssumption DEF Indices
  <2>2. SUFFICES ASSUME n >= run PROVE FALSE
    BY <2>1
  <2>3. run \in 0 .. n /\ run \in run .. Capacity - 1
    BY <2>1, <2>2, CapacityAssumption
  <2>4. Valid(retained[Back(newest, run)])
    BY <1>3, <2>3
  <2> QED BY <2>3, <2>4 DEF Window
<1>4. {n \in Indices : Leads(n)} = 0 .. run - 1
  <2> HIDE DEF Leads
  <2> QED BY <1>2, <1>3
<1>5. Cardinality(0 .. run - 1) = run
  BY FS_Interval
<1> QED BY <1>4, <1>5 DEF Run

\* What a reset finds of a run is the run, and the number after it.
LEMMA RunRecovered ==
    ASSUME NEW retained \in RAM, NEW newest \in Indices,
           NEW run \in 1 .. Capacity, Window(retained, newest, run)
    PROVE  /\ Newest(retained) = newest
           /\ Recovered(retained) =
                 <<After(newest), Back(After(newest), run), run,
                   Following(retained[newest].body.sequence)>>
<1>1. Newest(retained) = newest /\ newest # -1
  BY NewestFound, CapacityAssumption DEF Indices
<1>2. Run(retained, newest) = run
  BY RunIs
<1>3. (newest + 1) % Capacity = After(newest)
  BY AfterIs
<1> QED BY <1>1, <1>2, <1>3 DEF Recovered

-----------------------------------------------------------------------------
(* What a write to the next slot, whole or torn, does to the run.          *)

\* The ring, one index further.
LEMMA BackOfAfter ==
    ASSUME NEW newest \in Indices
    PROVE  /\ Back(After(newest), 0) = After(newest)
           /\ Back(newest, 0) = newest
           /\ Back(newest, Capacity - 1) = After(newest)
           /\ \A n \in 0 .. Capacity - 1 : Back(newest, n) \in Indices
           /\ \A n \in 1 .. Capacity - 1 :
                 Back(After(newest), n) = Back(newest, n - 1)
           /\ \A n \in 0 .. Capacity - 2 : Back(newest, n) # After(newest)
<1>1. After(newest) \in Indices
  BY AfterIs
<1>2. \A i \in Indices, n \in 0 .. Capacity :
          /\ Back(i, n) = IF n <= i THEN i - n ELSE i - n + Capacity
          /\ Back(i, n) \in Indices
  BY BackIs
<1>3. \A n \in 0 .. Capacity - 1 : Back(newest, n) \in Indices
  BY <1>2, CapacityAssumption
<1>4. Back(After(newest), 0) = After(newest) /\ Back(newest, 0) = newest
  BY <1>1, <1>2, CapacityAssumption DEF Indices
<1>5. Back(newest, Capacity - 1) = After(newest)
  BY <1>2, CapacityAssumption DEF After, Indices
<1>6. ASSUME NEW n \in 1 .. Capacity - 1
      PROVE  Back(After(newest), n) = Back(newest, n - 1)
  <2>1. n \in 0 .. Capacity /\ n - 1 \in 0 .. Capacity
    BY CapacityAssumption
  <2>2. /\ Back(After(newest), n) = IF n <= After(newest) THEN After(newest) - n
                                   ELSE After(newest) - n + Capacity
        /\ Back(newest, n - 1) = IF n - 1 <= newest THEN newest - (n - 1)
                                   ELSE newest - (n - 1) + Capacity
    BY <1>1, <1>2, <2>1
  <2> QED BY <2>2, CapacityAssumption DEF After, Indices
<1>7. ASSUME NEW n \in 0 .. Capacity - 2
      PROVE  Back(newest, n) # After(newest)
  <2>1. n \in 0 .. Capacity
    BY CapacityAssumption
  <2>2. Back(newest, n) = IF n <= newest THEN newest - n ELSE newest - n + Capacity
    BY <1>2, <2>1
  <2> QED BY <2>2, CapacityAssumption DEF After, Indices
<1> QED BY <1>3, <1>4, <1>5, <1>6, <1>7

Longer(run) == IF run < Capacity THEN run + 1 ELSE Capacity
Shorter(run) == IF run < Capacity THEN run ELSE Capacity - 1

Whole(record) == [body |-> record, commit |-> record]

\* A whole record after the newest makes it the newest.
LEMMA WholeWritten ==
    ASSUME NEW retained \in RAM, NEW newest \in Indices,
           NEW run \in 1 .. Capacity, Window(retained, newest, run),
           NEW record \in Records,
           record.sequence = Following(retained[newest].body.sequence),
           record.event > retained[newest].body.event
    PROVE  LET written == [retained EXCEPT ![After(newest)] = Whole(record)]
           IN  /\ written \in RAM
               /\ written[After(newest)].body = record
               /\ Longer(run) \in 1 .. Capacity
               /\ Window(written, After(newest), Longer(run))
<1> DEFINE written == [retained EXCEPT ![After(newest)] = Whole(record)]
           s == retained[newest].body.sequence
           head == After(newest)
<1>1. head \in Indices
  BY AfterIs
<1>2. /\ written \in RAM /\ written[head] = Whole(record)
      /\ \A i \in Indices : i # head => written[i] = retained[i]
  BY <1>1 DEF RAM, Slots, Whole
<1>3. Longer(run) \in 1 .. Capacity /\ Longer(run) - 1 <= run
      /\ (run < Capacity => Longer(run) = run + 1)
      /\ (run = Capacity => Longer(run) = Capacity)
  BY CapacityAssumption DEF Longer
<1>4. Valid(written[head]) /\ written[head].body = record
  BY <1>2 DEF Valid, Whole, Records, Blank
<1>5. s \in Sequences /\ record.event \in Int
  BY WindowIs DEF Records
<1>6. ASSUME NEW n \in 1 .. Capacity - 1
      PROVE  /\ Back(head, n) = Back(newest, n - 1)
             /\ written[Back(head, n)] = retained[Back(newest, n - 1)]
  <2>1. n - 1 \in 0 .. Capacity - 2 /\ n - 1 \in 0 .. Capacity - 1
    BY CapacityAssumption
  <2> QED BY <1>2, <2>1, BackOfAfter
<1>7. Back(head, 0) = head
  BY BackOfAfter
<1>8. \A n \in 0 .. run - 1 :
          /\ Valid(retained[Back(newest, n)])
          /\ retained[Back(newest, n)].body.sequence = Before(s, n)
  BY DEF Window
<1>9. \A n \in 0 .. Capacity :
          /\ Before(record.sequence, n + 1) = Before(s, n)
          /\ Before(record.sequence, 0) = record.sequence
  BY <1>5, FollowingIs
<1>10. ASSUME NEW n \in 0 .. Longer(run) - 1
       PROVE  /\ Valid(written[Back(head, n)])
              /\ written[Back(head, n)].body.sequence = Before(record.sequence, n)
  <2>1. CASE n = 0
    BY <1>4, <1>7, <1>9, <2>1, CapacityAssumption
  <2>2. CASE n # 0
    <3>1. n \in 1 .. Capacity - 1 /\ n - 1 \in 0 .. run - 1 /\ n - 1 \in 0 .. Capacity
      BY <1>3, <2>2, CapacityAssumption
    <3>2. Before(record.sequence, (n - 1) + 1) = Before(s, n - 1)
      BY <1>9, <3>1
    <3> QED BY <1>6, <1>8, <3>1, <3>2
  <2> QED BY <2>1, <2>2
<1>11. \A n \in 0 .. run - 1 : /\ retained[Back(newest, n)].body.event \in Int
                               /\ retained[Back(newest, n)].body.event < record.event
  <2> TAKE n \in 0 .. run - 1
  <2>1. Back(newest, n) \in Indices /\ Back(newest, 0) = newest
    BY BackOfAfter, CapacityAssumption
  <2>2. /\ retained[Back(newest, n)].body.event \in Int
        /\ retained[newest].body.event \in Int
    BY <1>8, <2>1, ValidRecord, WindowIs
  <2>3. n > 0 => retained[Back(newest, n)].body.event
                    < retained[Back(newest, 0)].body.event
    BY DEF Window
  <2> QED BY <1>5, <2>1, <2>2, <2>3
<1>12. ASSUME NEW m \in 0 .. Longer(run) - 1, NEW n \in 0 .. Longer(run) - 1, m < n
       PROVE  written[Back(head, n)].body.event < written[Back(head, m)].body.event
  <2>1. n \in 1 .. Capacity - 1 /\ n - 1 \in 0 .. run - 1
    BY <1>3, <1>12, CapacityAssumption
  <2>2. CASE m = 0
    BY <1>4, <1>6, <1>7, <1>11, <2>1, <2>2
  <2>3. CASE m # 0
    <3>1. m \in 1 .. Capacity - 1 /\ m - 1 \in 0 .. run - 1 /\ m - 1 < n - 1
      BY <1>3, <1>12, <2>3, CapacityAssumption
    <3>2. retained[Back(newest, n - 1)].body.event
              < retained[Back(newest, m - 1)].body.event
      BY <2>1, <3>1 DEF Window
    <3> QED BY <1>6, <2>1, <3>1, <3>2
  <2> QED BY <2>2, <2>3
<1>13. ASSUME NEW n \in Longer(run) .. Capacity - 1
       PROVE  ~Valid(written[Back(head, n)])
  <2>1. n \in 1 .. Capacity - 1 /\ n - 1 \in run .. Capacity - 1
    BY <1>3, CapacityAssumption
  <2>2. ~Valid(retained[Back(newest, n - 1)])
    BY <2>1 DEF Window
  <2> QED BY <1>6, <2>1, <2>2
<1>14. Window(written, head, Longer(run))
  <2> HIDE DEF written, head
  <2> QED BY <1>4, <1>10, <1>12, <1>13 DEF Window
<1> QED BY <1>2, <1>3, <1>4, <1>14

\* A torn record after the newest costs the oldest one, if the ring is full.
LEMMA TornWritten ==
    ASSUME NEW retained \in RAM, NEW newest \in Indices,
           NEW run \in 1 .. Capacity, Window(retained, newest, run),
           NEW torn \in Slots, ~Valid(torn)
    PROVE  LET written == [retained EXCEPT ![After(newest)] = torn]
           IN  /\ written \in RAM
               /\ written[newest] = retained[newest]
               /\ Shorter(run) \in 1 .. Capacity
               /\ Window(written, newest, Shorter(run))
<1> DEFINE written == [retained EXCEPT ![After(newest)] = torn]
           head == After(newest)
<1>1. head \in Indices
  BY AfterIs
<1>2. /\ written \in RAM /\ written[head] = torn
      /\ \A i \in Indices : i # head => written[i] = retained[i]
  BY <1>1 DEF RAM
<1>3. Shorter(run) \in 1 .. Capacity /\ Shorter(run) <= Capacity - 1
      /\ Shorter(run) <= run /\ Shorter(run) >= run - 1
      /\ (run < Capacity => Shorter(run) = run)
  BY CapacityAssumption DEF Shorter
<1>4. \A n \in 0 .. Capacity - 2 :
          /\ Back(newest, n) \in Indices
          /\ written[Back(newest, n)] = retained[Back(newest, n)]
  BY <1>2, BackOfAfter, CapacityAssumption
<1>5. Back(newest, 0) = newest /\ Back(newest, Capacity - 1) = head
  BY BackOfAfter
<1>6. written[newest] = retained[newest]
  BY <1>4, <1>5, CapacityAssumption
<1>7. ASSUME NEW n \in 0 .. Shorter(run) - 1
      PROVE  n \in 0 .. Capacity - 2 /\ n \in 0 .. run - 1
  BY <1>3, CapacityAssumption
<1>8. ASSUME NEW n \in Shorter(run) .. Capacity - 1
      PROVE  ~Valid(written[Back(newest, n)])
  <2>1. CASE n = Capacity - 1
    BY <1>2, <1>5, <2>1
  <2>2. CASE n # Capacity - 1
    <3>1. n \in 0 .. Capacity - 2 /\ n \in run .. Capacity - 1
      BY <1>3, <2>2, CapacityAssumption
    <3> QED BY <1>4, <3>1 DEF Window
  <2> QED BY <2>1, <2>2
<1>9. Window(written, newest, Shorter(run))
  <2> HIDE DEF written, head
  <2>1. \A n \in 0 .. Shorter(run) - 1 :
            /\ Valid(written[Back(newest, n)])
            /\ written[Back(newest, n)].body.sequence =
                  Before(written[newest].body.sequence, n)
    BY <1>4, <1>6, <1>7 DEF Window
  <2>2. \A m, n \in 0 .. Shorter(run) - 1 :
            m < n => written[Back(newest, n)].body.event <
                     written[Back(newest, m)].body.event
    BY <1>4, <1>7 DEF Window
  <2> QED BY <1>8, <2>1, <2>2 DEF Window
<1> QED BY <1>2, <1>3, <1>6, <1>9

\* The first record of an empty ring.
LEMMA FirstWritten ==
    ASSUME NEW retained \in RAM, NothingValid(retained), NEW record \in Records
    PROVE  LET written == [retained EXCEPT ![0] = Whole(record)]
           IN  /\ 0 \in Indices /\ written \in RAM /\ written[0].body = record
               /\ record.sequence \in Sequences => Window(written, 0, 1)
<1> DEFINE written == [retained EXCEPT ![0] = Whole(record)]
<1>1. 0 \in Indices
  BY CapacityAssumption DEF Indices
<1>2. /\ written \in RAM /\ written[0] = Whole(record)
      /\ \A i \in Indices : i # 0 => written[i] = retained[i]
  BY <1>1 DEF RAM, Slots, Whole
<1>3. Valid(written[0]) /\ written[0].body = record
  BY <1>2 DEF Valid, Whole, Records, Blank
<1>4. Back(0, 0) = 0 /\ \A n \in 1 .. Capacity - 1 : Back(0, n) \in Indices \ {0}
  <2>1. \A n \in 0 .. Capacity :
            Back(0, n) = (IF n <= 0 THEN 0 - n ELSE 0 - n + Capacity)
    BY <1>1, BackIs
  <2> QED BY <2>1, CapacityAssumption DEF Indices
<1>5. \A n \in 1 .. Capacity - 1 : ~Valid(written[Back(0, n)])
  BY <1>2, <1>4 DEF NothingValid
<1>6. ASSUME record.sequence \in Sequences PROVE Window(written, 0, 1)
  <2>1. Before(record.sequence, 0) = record.sequence
    BY <1>6, FollowingIs
  <2> HIDE DEF written
  <2> QED BY <1>3, <1>4, <1>5, <2>1 DEF Window
<1> QED BY <1>1, <1>2, <1>3, <1>6

-----------------------------------------------------------------------------
(* The ring, with resets at any store.                                     *)

\* Where the indices are while the storage is in use.
LEMMA RingCases ==
    ASSUME RingInv, storage_ready
    PROVE  \/ /\ NothingValid(slots)
              /\ head_index = 0 /\ tail_index = 0 /\ count = 0
              /\ next_sequence = 1
           \/ \E newest \in Indices, run \in 1 .. Capacity :
                 /\ Window(slots, newest, run)
                 /\ slots[newest].body.event <= events
                 /\ slots[newest].body.event \in 1 .. MaxEvents
                 /\ slots[newest].body.sequence \in Sequences
                 /\ head_index = After(newest)
                 /\ tail_index = Back(After(newest), run)
                 /\ count = run
                 /\ next_sequence = Following(slots[newest].body.sequence)
<1>1. RingIs(Recovered(slots)) /\ slots \in RAM /\ Shape(slots, events)
  BY DEF RingInv
<1>2. CASE NothingValid(slots)
  BY <1>1, <1>2, NothingFound DEF RingIs, Nothing
<1>3. CASE \E newest \in Indices, run \in 1 .. Capacity :
              Window(slots, newest, run) /\ slots[newest].body.event <= events
  <2>1. PICK newest \in Indices, run \in 1 .. Capacity :
            Window(slots, newest, run) /\ slots[newest].body.event <= events
    BY <1>3
  <2>2. Recovered(slots) = <<After(newest), Back(After(newest), run), run,
                             Following(slots[newest].body.sequence)>>
    BY <1>1, <2>1, RunRecovered
  <2>3. Valid(slots[newest])
    BY <1>1, <2>1, WindowIs
  <2>4. /\ slots[newest].body.event \in 1 .. MaxEvents
        /\ slots[newest].body.sequence \in Sequences
    BY <1>1, <2>3, ValidRecord
  <2>5. /\ head_index = After(newest) /\ count = run
        /\ tail_index = Back(After(newest), run)
        /\ next_sequence = Following(slots[newest].body.sequence)
    BY <1>1, <2>2 DEF RingIs
  <2> QED BY <2>1, <2>4, <2>5
<1> QED BY <1>1, <1>2, <1>3 DEF Shape

\* What a reset makes of RAM that has this shape.
LEMMA InitAfterReset ==
    ASSUME NEW retained \in RAM, NEW last \in Capacity .. MaxEvents,
           Shape(retained, last), AppLogInit(retained), events' = last
    PROVE  /\ RingInv'
           /\ \A i \in Indices : Valid(slots'[i]) <=> Valid(retained[i])
           /\ \/ slots' = retained
              \/ NothingValid(retained) /\ NothingValid(slots')
           /\ Recovered(slots') = Recovered(retained)
<1>1. storage_ready' \in BOOLEAN
  BY DEF AppLogInit
<1>2. RingIs(IF storage_ready THEN Recovered(retained) ELSE Nothing)'
  BY DEF AppLogInit, RingIs, Recovered, Nothing
<1>3. CASE storage_ready' /\ Newest(retained) = -1
  <2> DEFINE blank == [i \in Indices |-> Empty]
  <2>1. slots' = blank
    BY <1>3 DEF AppLogInit
  <2>2. blank \in RAM
    BY DEF RAM, Slots, Empty
  <2>3. NothingValid(blank)
    BY DEF NothingValid, Valid, Empty
  <2>4. NothingValid(retained)
    <3>1. ~\E newest \in Indices, run \in 1 .. Capacity :
              Window(retained, newest, run)
      BY <1>3, NewestFound DEF Indices
    <3> QED BY <3>1 DEF Shape
  <2>5. Recovered(blank) = Nothing /\ Recovered(retained) = Nothing
    BY <2>3, <2>4, NothingFound
  <2> HIDE DEF blank
  <2>6. RingInv'
    BY <1>1, <1>2, <2>1, <2>2, <2>3, <2>5 DEF RingInv, Shape, RingIs
  <2>7. \A i \in Indices : Valid(slots'[i]) <=> Valid(retained[i])
    BY <2>1, <2>3, <2>4 DEF NothingValid
  <2> QED BY <2>1, <2>3, <2>4, <2>5, <2>6, <2>7
<1>4. CASE ~(storage_ready' /\ Newest(retained) = -1)
  <2>1. slots' = retained
    BY <1>4 DEF AppLogInit
  <2>2. RingInv'
    BY <1>1, <1>2, <2>1 DEF RingInv, RingIs
  <2> QED BY <2>1, <2>2
<1> QED BY <1>3, <1>4

\* The record of the next event.
NextRecord == [sequence |-> next_sequence, event |-> events + 1]

\* App_Log_Push writes a record of the right type to an index of the ring.
LEMMA NextRecordIs ==
    ASSUME RingInv, storage_ready, events < MaxEvents
    PROVE  /\ NextRecord \in Records
           /\ head_index \in Indices
           /\ events + 1 \in Capacity .. MaxEvents
           /\ NextRecord.sequence = next_sequence
           /\ NextRecord.event = events + 1
<1>1. events + 1 \in Capacity .. MaxEvents /\ events + 1 \in 1 .. MaxEvents
  BY CapacityAssumption, EventsAssumption DEF RingInv
<1>2. head_index \in Indices /\ next_sequence \in Sequences
  <2>1. CASE head_index = 0 /\ next_sequence = 1
    BY <2>1, CapacityAssumption, ModulusAssumption DEF Indices, Sequences
  <2>2. ASSUME NEW newest \in Indices, head_index = After(newest),
               slots[newest].body.sequence \in Sequences,
               next_sequence = Following(slots[newest].body.sequence)
        PROVE  head_index \in Indices /\ next_sequence \in Sequences
    BY <2>2, AfterIs, FollowingIs
  <2> QED BY <2>1, <2>2, RingCases
<1> QED BY <1>1, <1>2 DEF NextRecord, Records, Sequences

\* What a write of that record, whole or torn, leaves in the RAM.
LEMMA NextWritten ==
    ASSUME RingInv, storage_ready, events < MaxEvents
    PROVE  /\ [slots EXCEPT ![head_index] = Whole(NextRecord)] \in RAM
           /\ Shape([slots EXCEPT ![head_index] = Whole(NextRecord)], events + 1)
           /\ \A torn \in Slots : ~Valid(torn) =>
                 /\ [slots EXCEPT ![head_index] = torn] \in RAM
                 /\ Shape([slots EXCEPT ![head_index] = torn], events + 1)
<1>1. slots \in RAM /\ events \in Nat
  BY CapacityAssumption DEF RingInv
<1>2. /\ NextRecord \in Records /\ head_index \in Indices
      /\ NextRecord.sequence = next_sequence /\ NextRecord.event = events + 1
  BY NextRecordIs
<1>3. CASE /\ NothingValid(slots)
           /\ head_index = 0 /\ tail_index = 0 /\ count = 0
           /\ next_sequence = 1
  <2> DEFINE whole == [slots EXCEPT ![0] = Whole(NextRecord)]
  <2>1. 0 \in Indices /\ NextRecord.sequence \in Sequences
    BY <1>2, <1>3, CapacityAssumption, ModulusAssumption DEF Sequences
  <2>2. whole \in RAM /\ whole[0].body = NextRecord /\ Window(whole, 0, 1)
    BY <1>1, <1>2, <1>3, <2>1, FirstWritten
  <2>3. Shape(whole, events + 1)
    <3> HIDE DEF whole
    <3>1. 1 \in 1 .. Capacity
      BY CapacityAssumption
    <3> QED BY <1>1, <1>2, <2>1, <2>2, <3>1 DEF Shape
  <2>4. ASSUME NEW torn \in Slots, ~Valid(torn)
        PROVE  /\ [slots EXCEPT ![0] = torn] \in RAM
               /\ NothingValid([slots EXCEPT ![0] = torn])
    BY <1>1, <1>3, <2>1, <2>4 DEF RAM, NothingValid
  <2> QED BY <1>3, <2>2, <2>3, <2>4 DEF Shape
<1>4. ASSUME NEW newest \in Indices, NEW run \in 1 .. Capacity,
             Window(slots, newest, run), slots[newest].body.event <= events,
             slots[newest].body.event \in 1 .. MaxEvents,
             slots[newest].body.sequence \in Sequences,
             head_index = After(newest),
             next_sequence = Following(slots[newest].body.sequence)
      PROVE  /\ [slots EXCEPT ![head_index] = Whole(NextRecord)] \in RAM
             /\ Shape([slots EXCEPT ![head_index] = Whole(NextRecord)], events + 1)
             /\ \A torn \in Slots : ~Valid(torn) =>
                   /\ [slots EXCEPT ![head_index] = torn] \in RAM
                   /\ Shape([slots EXCEPT ![head_index] = torn], events + 1)
  <2> DEFINE whole == [slots EXCEPT ![After(newest)] = Whole(NextRecord)]
  <2>1. NextRecord.event > slots[newest].body.event
    BY <1>1, <1>2, <1>4
  <2>2. /\ whole \in RAM /\ whole[After(newest)].body = NextRecord
        /\ Longer(run) \in 1 .. Capacity
        /\ Window(whole, After(newest), Longer(run))
    BY <1>1, <1>2, <1>4, <2>1, WholeWritten
  <2>3. Shape(whole, events + 1)
    <3> HIDE DEF whole
    <3>1. After(newest) \in Indices
      BY AfterIs
    <3>2. whole[After(newest)].body.event <= events + 1
      BY <1>1, <1>2, <2>2
    <3> QED BY <2>2, <3>1, <3>2 DEF Shape
  <2>4. ASSUME NEW torn \in Slots, ~Valid(torn)
        PROVE  /\ [slots EXCEPT ![After(newest)] = torn] \in RAM
               /\ Shape([slots EXCEPT ![After(newest)] = torn], events + 1)
    <3> DEFINE part == [slots EXCEPT ![After(newest)] = torn]
    <3>1. /\ part \in RAM /\ part[newest] = slots[newest]
          /\ Shorter(run) \in 1 .. Capacity
          /\ Window(part, newest, Shorter(run))
      BY <1>1, <1>4, <2>4, TornWritten
    <3> HIDE DEF part
    <3>2. part[newest].body.event <= events + 1
      BY <1>1, <1>4, <3>1
    <3>3. Shape(part, events + 1)
      BY <3>1, <3>2 DEF Shape
    <3> QED BY <3>1, <3>3 DEF part
  <2> QED BY <1>4, <2>2, <2>3, <2>4
<1> QED BY <1>3, <1>4, RingCases

\* A push keeps the indices what a reset would find.
LEMMA PushKeepsRing ==
    ASSUME RingInv, Push
    PROVE  /\ RingInv'
           /\ slots' = [slots EXCEPT ![head_index] = Whole(NextRecord)]
           /\ storage_ready /\ storage_ready' /\ events < MaxEvents
           /\ events' = events + 1
<1>1. /\ events < MaxEvents /\ events' = events + 1
      /\ storage_ready /\ storage_ready' = storage_ready
  BY DEF Push
<1>2. slots' = [slots EXCEPT ![head_index] = Whole(NextRecord)]
  BY DEF Push, Stores, NextRecord, Whole
<1>3. /\ head_index \in Indices /\ events + 1 \in Capacity .. MaxEvents
      /\ NextRecord \in Records
      /\ NextRecord.sequence = next_sequence /\ NextRecord.event = events + 1
  BY <1>1, NextRecordIs
<1>4. slots' \in RAM /\ Shape(slots', events')
  BY <1>1, <1>2, NextWritten
<1>5. /\ head_index' = After(head_index)
      /\ next_sequence' = Following(next_sequence)
      /\ IF count < Capacity
         THEN count' = count + 1 /\ tail_index' = tail_index
         ELSE count' = count /\ tail_index' = (tail_index + 1) % Capacity
  BY <1>3, AfterIs DEF Push
<1>6. slots \in RAM /\ events \in Nat
  BY CapacityAssumption DEF RingInv
<1>7. RingIs(Recovered(slots))'
  <2>1. CASE /\ NothingValid(slots)
             /\ head_index = 0 /\ tail_index = 0 /\ count = 0
             /\ next_sequence = 1
    <3> DEFINE whole == [slots EXCEPT ![0] = Whole(NextRecord)]
    <3>1. 0 \in Indices /\ NextRecord.sequence \in Sequences
      BY <1>3, <2>1, CapacityAssumption, ModulusAssumption DEF Sequences
    <3>2. whole \in RAM /\ whole[0].body = NextRecord /\ Window(whole, 0, 1)
      BY <1>3, <1>6, <2>1, <3>1, FirstWritten
    <3> HIDE DEF whole
    <3>3. Recovered(whole) = <<After(0), Back(After(0), 1), 1, Following(1)>>
      BY <1>3, <2>1, <3>1, <3>2, RunRecovered, CapacityAssumption
    <3>4. Back(After(0), 1) = 0
      <4>1. 1 \in 1 .. Capacity - 1
        BY CapacityAssumption
      <4> QED BY <3>1, <4>1, BackOfAfter
    <3>5. /\ head_index' = After(0) /\ next_sequence' = Following(1)
          /\ count' = 1 /\ tail_index' = 0
      BY <1>5, <2>1, CapacityAssumption
    <3>6. slots' = whole
      BY <1>2, <2>1 DEF whole
    <3> QED BY <3>3, <3>4, <3>5, <3>6 DEF RingIs
  <2>2. ASSUME NEW newest \in Indices, NEW run \in 1 .. Capacity,
               Window(slots, newest, run),
               slots[newest].body.event <= events,
               slots[newest].body.event \in 1 .. MaxEvents,
               slots[newest].body.sequence \in Sequences,
               head_index = After(newest),
               tail_index = Back(After(newest), run),
               count = run,
               next_sequence = Following(slots[newest].body.sequence)
        PROVE  RingIs(Recovered(slots))'
    <3> DEFINE head == After(newest)
               whole == [slots EXCEPT ![head] = Whole(NextRecord)]
    <3>1. NextRecord.event > slots[newest].body.event
      BY <1>3, <1>6, <2>2
    <3>2. /\ whole \in RAM /\ whole[head].body = NextRecord
          /\ Longer(run) \in 1 .. Capacity
          /\ Window(whole, head, Longer(run))
      BY <1>3, <1>6, <2>2, <3>1, WholeWritten
    <3>3. head \in Indices
      BY AfterIs
    <3>4. slots' = whole
      BY <1>2, <2>2
    <3> HIDE DEF head, whole
    <3>5. Recovered(whole) = <<After(head), Back(After(head), Longer(run)),
                               Longer(run), Following(next_sequence)>>
      BY <1>3, <3>2, <3>3, RunRecovered
    <3>6. count' = Longer(run) /\ tail_index' = Back(After(head), Longer(run))
      <4>1. \A i \in Indices : Back(i, Capacity) = i
        BY BackIs, CapacityAssumption DEF Indices
      <4>2. After(head) \in Indices
        BY <3>3, AfterIs
      <4>3. CASE run = Capacity
        <5>1. tail_index = head
          BY <2>2, <3>3, <4>1, <4>3 DEF head
        <5>2. count' = Capacity /\ tail_index' = After(head)
          BY <1>5, <2>2, <3>3, <4>3, <5>1, AfterIs
        <5> QED BY <4>1, <4>2, <4>3, <5>2, CapacityAssumption DEF Longer
      <4>4. CASE run < Capacity
        <5>1. count' = run + 1 /\ tail_index' = Back(head, run)
          BY <1>5, <2>2, <4>4 DEF head
        <5>2. Back(After(head), run + 1) = Back(head, run)
          <6>1. CASE run + 1 = Capacity
            <7>1. Back(head, Capacity - 1) = After(head)
              BY <3>3, BackOfAfter
            <7>2. run = Capacity - 1
              BY <6>1, CapacityAssumption
            <7> QED BY <4>1, <4>2, <6>1, <7>1, <7>2
          <6>2. CASE run + 1 # Capacity
            <7>1. run + 1 \in 1 .. Capacity - 1 /\ (run + 1) - 1 = run
              BY <4>4, <6>2, CapacityAssumption
            <7>2. Back(After(head), run + 1) = Back(head, (run + 1) - 1)
              BY <3>3, <7>1, BackOfAfter
            <7> QED BY <7>1, <7>2
          <6> QED BY <6>1, <6>2
        <5> QED BY <4>4, <5>1, <5>2 DEF Longer
      <4> QED BY <4>3, <4>4, CapacityAssumption
    <3>7. head_index' = After(head) /\ next_sequence' = Following(next_sequence)
      BY <1>5, <2>2 DEF head
    <3> QED BY <3>4, <3>5, <3>6, <3>7 DEF RingIs
  <2> QED BY <1>1, <2>1, <2>2, RingCases
<1>8. RingInv'
  BY <1>1, <1>3, <1>4, <1>7 DEF RingInv, RingIs
<1> QED BY <1>1, <1>2, <1>8

\* So does a reset, in the middle of a push or not.
LEMMA ResetKeepsRing ==
    ASSUME RingInv, ResetAtRest \/ ResetInPush
    PROVE  RingInv'
<1>1. CASE ResetAtRest
  <2>1. AppLogInit(slots) /\ events' = events
    BY <1>1 DEF ResetAtRest
  <2> QED BY <2>1, InitAfterReset DEF RingInv
<1>2. CASE ResetInPush
  <2> DEFINE stores == Stores(slots[head_index], NextRecord)
  <2>1. /\ storage_ready /\ events < MaxEvents /\ events' = events + 1
        /\ \E n \in DOMAIN stores :
              AppLogInit([slots EXCEPT ![head_index] = stores[n]])
    BY <1>2 DEF ResetInPush, NextRecord
  <2>2. /\ NextRecord \in Records /\ head_index \in Indices
        /\ events + 1 \in Capacity .. MaxEvents
    BY <2>1, NextRecordIs
  <2>3. /\ DOMAIN stores = 1 .. 3
        /\ stores[1] \in Slots /\ ~Valid(stores[1])
        /\ stores[2] \in Slots /\ ~Valid(stores[2])
        /\ stores[3] = Whole(NextRecord)
    BY <2>2 DEF Stores, Whole, Slots, Valid, RingInv, RAM
  <2> HIDE DEF stores
  <2>4. PICK n \in 1 .. 3 : AppLogInit([slots EXCEPT ![head_index] = stores[n]])
    BY <2>1, <2>3
  <2>5. /\ [slots EXCEPT ![head_index] = stores[n]] \in RAM
        /\ Shape([slots EXCEPT ![head_index] = stores[n]], events + 1)
    <3>1. CASE n = 3
      BY <2>1, <2>3, <3>1, NextWritten
    <3>2. CASE n # 3
      <4>1. stores[n] \in Slots /\ ~Valid(stores[n])
        BY <2>3, <3>2
      <4> QED BY <2>1, <4>1, NextWritten
    <3> QED BY <3>1, <3>2
  <2> QED BY <2>1, <2>2, <2>4, <2>5, InitAfterReset
<1> QED BY <1>1, <1>2

\* The ring at first.
LEMMA RingAtFirst ==
    ASSUME InitLog
    PROVE  RingInv
<1>1. PICK newest \in StartSequences :
          LET age(i) == Capacity - 1 - i
              sequence(i) == IF newest > age(i) THEN newest - age(i)
                             ELSE newest - age(i) + SequenceModulus - 1
              record(i) == [sequence |-> sequence(i), event |-> i + 1]
              retained == [i \in Indices |->
                              IF newest = 0 THEN Empty
                              ELSE [body |-> record(i), commit |-> record(i)]]
              found == Recovered(retained)
          IN  /\ slots = retained
              /\ head_index = found[1] /\ tail_index = found[2]
              /\ count = found[3] /\ next_sequence = found[4]
              /\ storage_ready = TRUE
              /\ events = Capacity
  BY DEF InitLog
<1> DEFINE record(i) == [sequence |-> Before(newest, Capacity - 1 - i),
                         event |-> i + 1]
<1>2. /\ slots = [i \in Indices |-> IF newest = 0 THEN Empty ELSE Whole(record(i))]
      /\ head_index = Recovered(slots)[1] /\ tail_index = Recovered(slots)[2]
      /\ count = Recovered(slots)[3] /\ next_sequence = Recovered(slots)[4]
      /\ storage_ready = TRUE /\ events = Capacity
  BY <1>1 DEF Before, Whole
<1>3. RingIs(Recovered(slots))
  BY <1>2 DEF Recovered, Nothing, RingIs
<1>4. CASE newest = 0
  <2>1. slots = [i \in Indices |-> Empty]
    BY <1>2, <1>4
  <2>2. slots \in RAM /\ NothingValid(slots)
    BY <2>1 DEF RAM, Slots, Empty, NothingValid, Valid
  <2> QED BY <1>2, <1>3, <2>2, CapacityAssumption, EventsAssumption DEF RingInv, Shape
<1>5. CASE newest # 0
  <2>1. newest \in Sequences
    BY <1>5, StartAssumption, ModulusAssumption, CapacityAssumption DEF Sequences
  <2>2. ASSUME NEW i \in Indices
        PROVE  /\ record(i) \in Records
               /\ slots[i] = Whole(record(i))
    <3>1. Capacity - 1 - i \in 0 .. Capacity /\ i + 1 \in 1 .. MaxEvents
      BY CapacityAssumption, EventsAssumption DEF Indices
    <3>2. Before(newest, Capacity - 1 - i) \in Sequences
      BY <2>1, <3>1, FollowingIs
    <3> QED BY <1>2, <1>5, <3>1, <3>2 DEF Records, Sequences
  <2>3. slots \in RAM
    <3>1. \A i \in Indices : Whole(record(i)) \in Slots
      BY <2>2 DEF Whole, Slots
    <3> HIDE DEF record
    <3> QED BY <1>2, <1>5, <3>1 DEF RAM
  <2>4. \A i \in Indices : /\ Valid(slots[i])
                           /\ slots[i].body.sequence = Before(newest, Capacity - 1 - i)
                           /\ slots[i].body.event = i + 1
    <3> TAKE i \in Indices
    <3>1. record(i) # Blank
      BY <2>2 DEF Records, Blank
    <3>2. slots[i].body = record(i) /\ slots[i].commit = record(i)
      <4>1. \A r : Whole(r).body = r /\ Whole(r).commit = r
        BY DEF Whole
      <4>2. slots[i] = Whole(record(i))
        BY <2>2
      <4> HIDE DEF record
      <4> QED BY <4>1, <4>2
    <3>3. /\ record(i).sequence = Before(newest, Capacity - 1 - i)
          /\ record(i).event = i + 1
      OBVIOUS
    <3> HIDE DEF record
    <3> QED BY <3>1, <3>2, <3>3 DEF Valid
  <2>5. Capacity - 1 \in Indices
    BY CapacityAssumption DEF Indices
  <2>6. \A n \in 0 .. Capacity - 1 :
            Back(Capacity - 1, n) = Capacity - 1 - n /\ Capacity - 1 - n \in Indices
    BY <2>5, BackIs, CapacityAssumption DEF Indices
  <2>7. /\ slots[Capacity - 1].body.sequence = newest
        /\ slots[Capacity - 1].body.event = Capacity
    <3>1. Capacity - 1 - (Capacity - 1) = 0 /\ (Capacity - 1) + 1 = Capacity
      BY CapacityAssumption
    <3>2. Before(newest, 0) = newest
      BY <2>1, FollowingIs
    <3> QED BY <2>4, <2>5, <3>1, <3>2
  <2>8. Window(slots, Capacity - 1, Capacity)
    <3>1. \A n \in 0 .. Capacity - 1 : Capacity - 1 - (Capacity - 1 - n) = n
      BY CapacityAssumption
    <3>2. \A n \in 0 .. Capacity - 1 :
              /\ Valid(slots[Back(Capacity - 1, n)])
              /\ slots[Back(Capacity - 1, n)].body.sequence = Before(newest, n)
      BY <2>4, <2>6, <3>1
    <3>3. \A m, n \in 0 .. Capacity - 1 : m < n =>
              slots[Back(Capacity - 1, n)].body.event <
              slots[Back(Capacity - 1, m)].body.event
      BY <2>4, <2>6, CapacityAssumption
    <3> QED BY <2>7, <3>2, <3>3, CapacityAssumption DEF Window
  <2>9. Shape(slots, events)
    <3>1. slots[Capacity - 1].body.event <= events /\ Capacity \in 1 .. Capacity
      BY <1>2, <2>7, CapacityAssumption
    <3> QED BY <2>5, <2>8, <3>1 DEF Shape
  <2> QED BY <1>2, <1>3, <2>3, <2>9, CapacityAssumption, EventsAssumption DEF RingInv
<1> QED BY <1>4, <1>5

\* In every reachable state the retained records are one gapless run in the
\* order of their events, and the indices are those that a reset would find.
THEOREM RingInvariance == Spec => []RingInv
<1>1. Init => RingInv
  BY RingAtFirst DEF Init
<1>2. RingInv /\ [Next]_vars => RingInv'
  <2> SUFFICES ASSUME RingInv, [Next]_vars PROVE RingInv'
    OBVIOUS
  <2>1. CASE UNCHANGED logVars
    BY <2>1 DEF logVars, ring, RingInv, RingIs
  <2>2. CASE LogEvent
    BY <2>2, PushKeepsRing DEF LogEvent
  <2>3. CASE Reset
    BY <2>3, ResetKeepsRing DEF Reset
  <2> QED BY <2>1, <2>2, <2>3
          DEF Next, Answer, RequestInfo, RequestRecord, Timeout, HeartbeatTimeout,
              Heartbeat, DelayHeartbeat, HandleDelayedHeartbeat, HandleResponse,
              Reconnect, Lose, vars
<1> QED BY <1>1, <1>2, PTL DEF Spec

-----------------------------------------------------------------------------
(* The retained log implements EventLog.                                   *)

TheLog == IF storage_ready THEN Logged ELSE Retained

\* The records of a run, the oldest first.
RunLog(retained, newest, run) ==
    [n \in 1 .. run |-> retained[Back(newest, run - n)].body]

\* The log of a run is a sequence of records that ends with the newest.
LEMMA RunLogIs ==
    ASSUME NEW retained \in RAM, NEW newest \in Indices,
           NEW run \in 1 .. Capacity, Window(retained, newest, run)
    PROVE  /\ RunLog(retained, newest, run) \in Seq(Records)
           /\ Len(RunLog(retained, newest, run)) = run
           /\ RunLog(retained, newest, run) # <<>>
           /\ \A n \in 1 .. run :
                 RunLog(retained, newest, run)[n] =
                    retained[Back(newest, run - n)].body
           /\ RunLog(retained, newest, run)[run] = retained[newest].body
<1> DEFINE log == RunLog(retained, newest, run)
<1>1. \A n \in 1 .. run : log[n] = retained[Back(newest, run - n)].body
  BY DEF RunLog
<1>2. \A n \in 1 .. run : retained[Back(newest, run - n)].body \in Records
  <2> TAKE n \in 1 .. run
  <2>1. run - n \in 0 .. run - 1 /\ run - n \in 0 .. Capacity - 1
    BY CapacityAssumption
  <2>2. Valid(retained[Back(newest, run - n)]) /\ Back(newest, run - n) \in Indices
    BY <2>1, BackOfAfter DEF Window
  <2> QED BY <2>2, ValidRecord
<1>3. log \in [1 .. run -> Records]
  BY <1>2 DEF RunLog
<1>4. log \in Seq(Records) /\ Len(log) = run
  BY <1>3
<1>5. run \in 1 .. run /\ run - run = 0 /\ Back(newest, 0) = newest
  BY BackOfAfter, CapacityAssumption
<1> QED BY <1>1, <1>4, <1>5

LogIsRun ==
    /\ TheLog = Retained
    /\ NothingValid(slots) => TheLog = <<>>
    /\ \A newest \in Indices, run \in 1 .. Capacity :
          Window(slots, newest, run) => TheLog = RunLog(slots, newest, run)

\* The log is the run in the RAM, whether the firmware can use it or not.
LEMMA TheLogIs == RingInv => LogIsRun
<1> SUFFICES ASSUME RingInv PROVE LogIsRun
  OBVIOUS
<1>1. TheLog = Retained
  <2>1. CASE storage_ready
    <3>1. tail_index = Recovered(slots)[2] /\ count = Recovered(slots)[3]
      BY <2>1 DEF RingInv, RingIs, Recovered, Nothing
    <3> QED BY <2>1, <3>1 DEF TheLog, Logged, Retained
  <2>2. CASE ~storage_ready
    BY <2>2 DEF TheLog
  <2> QED BY <2>1, <2>2
<1>2. ASSUME NothingValid(slots) PROVE Retained = <<>>
  <2>1. Recovered(slots)[3] = 0
    BY <1>2, NothingFound DEF Nothing
  <2>2. 1 .. 0 = {}
    OBVIOUS
  <2> QED BY <2>1, <2>2 DEF Retained
<1>3. ASSUME NEW newest \in Indices, NEW run \in 1 .. Capacity,
             Window(slots, newest, run)
      PROVE  Retained = RunLog(slots, newest, run)
  <2> DEFINE tail == Back(After(newest), run)
  <2>1. Recovered(slots)[2] = tail /\ Recovered(slots)[3] = run
    BY <1>3, RunRecovered DEF RingInv
  <2>2. ASSUME NEW n \in 1 .. run
        PROVE  (tail + n - 1) % Capacity = Back(newest, run - n)
    <3>1. After(newest) \in Indices
      BY AfterIs
    <3>2. /\ tail = IF run <= After(newest) THEN After(newest) - run
                                            ELSE After(newest) - run + Capacity
          /\ tail \in Indices
      BY <3>1, BackIs, CapacityAssumption
    <3> HIDE DEF tail
    <3>3. tail + n - 1 \in 0 .. 2 * Capacity - 1
      BY <3>2, CapacityAssumption DEF Indices
    <3>4. (tail + n - 1) % Capacity = IF tail + n - 1 < Capacity
                                      THEN tail + n - 1 ELSE tail + n - 1 - Capacity
      BY <3>2, <3>3, ModuloCapacity, CapacityAssumption DEF Indices
    <3>5. run - n \in 0 .. Capacity
      BY CapacityAssumption
    <3>6. Back(newest, run - n) = IF run - n <= newest THEN newest - (run - n)
                                  ELSE newest - (run - n) + Capacity
      BY <3>5, BackIs
    <3> QED BY <3>2, <3>4, <3>6, CapacityAssumption DEF After, Indices
  <2> HIDE DEF tail
  <2>3. Retained = [n \in 1 .. run |-> RecordAt((tail + n - 1) % Capacity)]
    BY <2>1 DEF Retained
  <2> QED BY <2>2, <2>3 DEF RunLog, RecordAt
<1> QED BY <1>1, <1>2, <1>3 DEF LogIsRun

\* A whole record is the newest of the log, which keeps the others that fit.
LEMMA LogOfWhole ==
    ASSUME NEW retained \in RAM, NEW newest \in Indices,
           NEW run \in 1 .. Capacity, Window(retained, newest, run),
           NEW record \in Records,
           record.sequence = Following(retained[newest].body.sequence),
           record.event > retained[newest].body.event
    PROVE  RunLog([retained EXCEPT ![After(newest)] = Whole(record)],
                  After(newest), Longer(run))
              = Append(Log!Kept(RunLog(retained, newest, run)), record)
<1> DEFINE head == After(newest)
           written == [retained EXCEPT ![head] = Whole(record)]
           old == RunLog(retained, newest, run)
           new == RunLog(written, head, Longer(run))
           kept == Log!Kept(old)
<1>1. /\ written \in RAM /\ written[head].body = record
      /\ Longer(run) \in 1 .. Capacity
      /\ Window(written, head, Longer(run))
  BY WholeWritten
<1>2. head \in Indices
  BY AfterIs
<1>3. /\ new \in Seq(Records) /\ Len(new) = Longer(run)
      /\ \A n \in 1 .. Longer(run) : new[n] = written[Back(head, Longer(run) - n)].body
      /\ new[Longer(run)] = record
  <2> HIDE DEF written, head
  <2> QED BY <1>1, <1>2, RunLogIs
<1>4. /\ old \in Seq(Records) /\ Len(old) = run /\ old # <<>>
      /\ \A n \in 1 .. run : old[n] = retained[Back(newest, run - n)].body
  BY RunLogIs
<1>5. ASSUME NEW n \in 1 .. Longer(run) - 1
      PROVE  new[n] = retained[Back(newest, Longer(run) - n - 1)].body
  <2>1. /\ Longer(run) - n \in 1 .. Capacity - 1
        /\ Longer(run) - n - 1 \in 0 .. Capacity - 2
        /\ Longer(run) - n - 1 \in 0 .. Capacity - 1
    BY <1>1, CapacityAssumption
  <2>2. Back(head, Longer(run) - n) = Back(newest, Longer(run) - n - 1)
    BY <2>1, BackOfAfter
  <2>3. written[Back(newest, Longer(run) - n - 1)] =
            retained[Back(newest, Longer(run) - n - 1)]
    BY <2>1, BackOfAfter DEF RAM
  <2>4. new[n] = written[Back(head, Longer(run) - n)].body
    <3> HIDE DEF new, written, head
    <3> QED BY <1>1, <1>3, CapacityAssumption
  <2> QED BY <2>2, <2>3, <2>4
<1>6. /\ kept \in Seq(Records) /\ Len(kept) = Longer(run) - 1
      /\ \A n \in 1 .. Longer(run) - 1 : kept[n] = new[n]
  <2> HIDE DEF new, old, written, head
  <2>1. CASE run < Capacity
    <3>1. kept = old /\ Longer(run) = run + 1
      BY <1>4, <2>1 DEF Longer, Log!Kept
    <3> HIDE DEF kept
    <3>2. ASSUME NEW n \in 1 .. run PROVE kept[n] = new[n]
      <4>1. (run + 1) - n - 1 = run - n
        BY CapacityAssumption
      <4> QED BY <1>4, <1>5, <3>1, <4>1
    <3> QED BY <1>4, <3>1, <3>2
  <2>2. CASE run = Capacity
    <3>1. kept = Tail(old) /\ Longer(run) = Capacity
      BY <1>4, <2>2 DEF Longer, Log!Kept
    <3> HIDE DEF kept
    <3>2. /\ kept \in Seq(Records) /\ Len(kept) = Capacity - 1
          /\ \A n \in 1 .. Capacity - 1 : kept[n] = old[n + 1]
      BY <1>4, <2>2, <3>1, CapacityAssumption
    <3>3. ASSUME NEW n \in 1 .. Capacity - 1 PROVE kept[n] = new[n]
      <4>1. Capacity - n - 1 = Capacity - (n + 1) /\ n + 1 \in 1 .. Capacity
        BY CapacityAssumption
      <4>2. old[n + 1] = retained[Back(newest, Capacity - (n + 1))].body
        BY <1>4, <2>2, <4>1
      <4>3. new[n] = retained[Back(newest, Capacity - n - 1)].body
        BY <1>5, <3>1
      <4>4. kept[n] = old[n + 1]
        BY <3>2
      <4> QED BY <4>1, <4>2, <4>3, <4>4
    <3> QED BY <3>1, <3>2, <3>3
  <2> HIDE DEF kept
  <2> QED BY <2>1, <2>2, CapacityAssumption
<1> HIDE DEF new, old, kept
<1>7. Append(kept, record) \in Seq(Records) /\ Len(Append(kept, record)) = Longer(run)
  BY <1>1, <1>6, CapacityAssumption
<1>8. \A n \in 1 .. Longer(run) : Append(kept, record)[n] = new[n]
  BY <1>1, <1>3, <1>6, CapacityAssumption
<1>9. Append(kept, record) = new
  BY <1>1, <1>3, <1>7, <1>8, SeqEqual
<1> QED BY <1>9 DEF new, kept, old

\* A torn record costs the oldest of a full log.
LEMMA LogOfTorn ==
    ASSUME NEW retained \in RAM, NEW newest \in Indices,
           NEW run \in 1 .. Capacity, Window(retained, newest, run),
           NEW torn \in Slots, ~Valid(torn)
    PROVE  RunLog([retained EXCEPT ![After(newest)] = torn], newest, Shorter(run))
              = IF run = Capacity THEN Tail(RunLog(retained, newest, run))
                                  ELSE RunLog(retained, newest, run)
<1> DEFINE written == [retained EXCEPT ![After(newest)] = torn]
           old == RunLog(retained, newest, run)
           new == RunLog(written, newest, Shorter(run))
<1>1. /\ written \in RAM /\ Shorter(run) \in 1 .. Capacity
      /\ Window(written, newest, Shorter(run))
  BY TornWritten
<1>2. /\ new \in Seq(Records) /\ Len(new) = Shorter(run)
      /\ \A n \in 1 .. Shorter(run) : new[n] = written[Back(newest, Shorter(run) - n)].body
  <2> HIDE DEF written
  <2> QED BY <1>1, RunLogIs
<1>3. /\ old \in Seq(Records) /\ Len(old) = run /\ old # <<>>
      /\ \A n \in 1 .. run : old[n] = retained[Back(newest, run - n)].body
  BY RunLogIs
<1>4. ASSUME NEW n \in 1 .. Shorter(run)
      PROVE  new[n] = retained[Back(newest, Shorter(run) - n)].body
  <2>1. Shorter(run) - n \in 0 .. Capacity - 2 /\ Shorter(run) - n \in 0 .. Capacity - 1
    BY <1>1, CapacityAssumption DEF Shorter
  <2>2. written[Back(newest, Shorter(run) - n)] =
            retained[Back(newest, Shorter(run) - n)]
    BY <2>1, BackOfAfter DEF RAM
  <2> QED BY <1>2, <2>2
<1>5. CASE run < Capacity
  <2>1. Shorter(run) = run
    BY <1>5 DEF Shorter
  <2>2. \A n \in 1 .. run : new[n] = old[n]
    BY <1>3, <1>4, <2>1
  <2> HIDE DEF new, old
  <2>3. new = old
    BY <1>2, <1>3, <2>1, <2>2, SeqEqual
  <2>4. run # Capacity
    BY <1>5
  <2> QED BY <2>3, <2>4 DEF new, old
<1>6. CASE run = Capacity
  <2>1. Shorter(run) = Capacity - 1
    BY <1>6 DEF Shorter
  <2>2. /\ Tail(old) \in Seq(Records) /\ Len(Tail(old)) = Capacity - 1
        /\ \A n \in 1 .. Capacity - 1 : Tail(old)[n] = old[n + 1]
    BY <1>3, <1>6, CapacityAssumption
  <2> HIDE DEF new, old, written
  <2>3. ASSUME NEW n \in 1 .. Capacity - 1 PROVE new[n] = Tail(old)[n]
    <3>1. Capacity - 1 - n = Capacity - (n + 1) /\ n + 1 \in 1 .. Capacity
      BY CapacityAssumption
    <3>2. new[n] = retained[Back(newest, Capacity - 1 - n)].body
      BY <1>4, <2>1
    <3>3. old[n + 1] = retained[Back(newest, Capacity - (n + 1))].body
      BY <1>3, <1>6, <3>1
    <3>4. Tail(old)[n] = old[n + 1]
      BY <2>2
    <3> QED BY <3>1, <3>2, <3>3, <3>4
  <2>4. new = Tail(old)
    BY <1>2, <2>1, <2>2, <2>3, SeqEqual
  <2> QED BY <1>6, <2>4 DEF new, old, written
<1> QED BY <1>5, <1>6, CapacityAssumption

\* The event of the next record is the last of the log, and its number follows.
NextIsLast ==
    /\ TheLog' = Append(Log!Kept(TheLog), NextRecord)
    /\ TheLog # <<>> => TheLog[Len(TheLog)].event < NextRecord.event
    /\ NextRecord.sequence =
          IF TheLog = <<>> THEN 1 ELSE Following(TheLog[Len(TheLog)].sequence)

\* A record that was stored whole is in the log, after a reset too.
LEMMA WholeIsLogged ==
    ASSUME RingInv, RingInv', storage_ready, events < MaxEvents,
           slots' = [slots EXCEPT ![head_index] = Whole(NextRecord)]
    PROVE  NextIsLast
<1>1. slots \in RAM /\ events \in Nat
  BY CapacityAssumption DEF RingInv
<1>2. /\ NextRecord \in Records /\ head_index \in Indices
      /\ NextRecord.sequence = next_sequence /\ NextRecord.event = events + 1
  BY NextRecordIs
<1>3. LogIsRun /\ LogIsRun'
  BY TheLogIs, PTL
<1>4. CASE /\ NothingValid(slots)
           /\ head_index = 0 /\ tail_index = 0 /\ count = 0
           /\ next_sequence = 1
  <2> DEFINE whole == [slots EXCEPT ![0] = Whole(NextRecord)]
  <2>1. 0 \in Indices /\ NextRecord.sequence \in Sequences /\ 1 \in 1 .. Capacity
    BY <1>2, <1>4, CapacityAssumption, ModulusAssumption DEF Sequences
  <2>2. whole \in RAM /\ whole[0].body = NextRecord /\ Window(whole, 0, 1)
    BY <1>1, <1>2, <1>4, <2>1, FirstWritten
  <2>3. slots' = whole
    BY <1>4
  <2> HIDE DEF whole
  <2>4. TheLog = <<>> /\ TheLog' = RunLog(whole, 0, 1)
    BY <1>3, <1>4, <2>1, <2>2, <2>3 DEF LogIsRun
  <2>5. /\ RunLog(whole, 0, 1) \in Seq(Records) /\ Len(RunLog(whole, 0, 1)) = 1
        /\ RunLog(whole, 0, 1)[1] = NextRecord
    BY <2>1, <2>2, RunLogIs
  <2>6. RunLog(whole, 0, 1) = Append(<<>>, NextRecord)
    <3>1. /\ Append(<<>>, NextRecord) \in Seq(Records)
          /\ Len(Append(<<>>, NextRecord)) = 1
          /\ Append(<<>>, NextRecord)[1] = NextRecord
      BY <1>2
    <3> QED BY <2>5, <3>1, SeqEqual
  <2>7. Log!Kept(<<>>) = <<>>
    BY CapacityAssumption DEF Log!Kept
  <2> QED BY <1>2, <1>4, <2>4, <2>6, <2>7 DEF NextIsLast
<1>5. ASSUME NEW newest \in Indices, NEW run \in 1 .. Capacity,
             Window(slots, newest, run), slots[newest].body.event <= events,
             slots[newest].body.event \in 1 .. MaxEvents,
             head_index = After(newest),
             next_sequence = Following(slots[newest].body.sequence)
      PROVE  NextIsLast
  <2> DEFINE whole == [slots EXCEPT ![After(newest)] = Whole(NextRecord)]
  <2>1. NextRecord.event > slots[newest].body.event
    BY <1>1, <1>2, <1>5
  <2>2. /\ whole \in RAM /\ Longer(run) \in 1 .. Capacity
        /\ Window(whole, After(newest), Longer(run))
    BY <1>1, <1>2, <1>5, <2>1, WholeWritten
  <2>3. RunLog(whole, After(newest), Longer(run))
            = Append(Log!Kept(RunLog(slots, newest, run)), NextRecord)
    <3>1. /\ slots \in RAM /\ NextRecord \in Records
          /\ NextRecord.sequence = Following(slots[newest].body.sequence)
      BY <1>1, <1>2, <1>5
    <3> QED BY <1>5, <2>1, <3>1, LogOfWhole
  <2>4. slots' = whole /\ After(newest) \in Indices
    BY <1>5, AfterIs
  <2> HIDE DEF whole
  <2>5. /\ TheLog = RunLog(slots, newest, run)
        /\ TheLog' = RunLog(whole, After(newest), Longer(run))
    BY <1>3, <1>5, <2>2, <2>4 DEF LogIsRun
  <2>6. TheLog # <<>> /\ TheLog[Len(TheLog)] = slots[newest].body
    BY <1>1, <1>5, <2>5, RunLogIs
  <2>7. slots[newest].body.event < NextRecord.event
    BY <1>2, <1>5, <2>1
  <2> QED BY <1>2, <1>5, <2>3, <2>5, <2>6, <2>7 DEF NextIsLast
<1> QED BY <1>4, <1>5, RingCases

\* A record that was torn costs the oldest of a full log and nothing else.
LEMMA TornIsLost ==
    ASSUME RingInv, RingInv', storage_ready, events < MaxEvents,
           NEW torn \in Slots, ~Valid(torn),
           \/ slots' = [slots EXCEPT ![head_index] = torn]
           \/ /\ NothingValid([slots EXCEPT ![head_index] = torn])
              /\ NothingValid(slots')
    PROVE  \/ TheLog' = TheLog
           \/ Len(TheLog) = Capacity /\ TheLog' = Tail(TheLog)
<1>1. slots \in RAM
  BY DEF RingInv
<1>2. LogIsRun /\ LogIsRun'
  BY TheLogIs, PTL
<1>3. CASE NothingValid(slots) /\ head_index = 0
  <2>1. NothingValid([slots EXCEPT ![head_index] = torn])
    BY <1>1, <1>3 DEF NothingValid, RAM
  <2>2. NothingValid(slots')
    BY <2>1
  <2> QED BY <1>2, <1>3, <2>2 DEF LogIsRun
<1>4. ASSUME NEW newest \in Indices, NEW run \in 1 .. Capacity,
             Window(slots, newest, run), head_index = After(newest)
      PROVE  \/ TheLog' = TheLog
             \/ Len(TheLog) = Capacity /\ TheLog' = Tail(TheLog)
  <2> DEFINE part == [slots EXCEPT ![After(newest)] = torn]
  <2>1. /\ part \in RAM /\ part[newest] = slots[newest]
        /\ Shorter(run) \in 1 .. Capacity
        /\ Window(part, newest, Shorter(run))
    BY <1>1, <1>4, TornWritten
  <2>2. RunLog(part, newest, Shorter(run))
            = IF run = Capacity THEN Tail(RunLog(slots, newest, run))
                                ELSE RunLog(slots, newest, run)
    BY <1>1, <1>4, LogOfTorn
  <2>3. slots' = part
    <3>1. Valid(part[newest])
      BY <1>1, <1>4, <2>1, WindowIs
    <3>2. ~NothingValid(part)
      BY <3>1 DEF NothingValid
    <3> QED BY <1>4, <3>2
  <2> HIDE DEF part
  <2>4. /\ TheLog = RunLog(slots, newest, run)
        /\ TheLog' = RunLog(part, newest, Shorter(run))
    BY <1>2, <1>4, <2>1, <2>3 DEF LogIsRun
  <2>5. Len(TheLog) = run
    BY <1>1, <1>4, <2>4, RunLogIs
  <2> QED BY <2>2, <2>4, <2>5
<1> QED BY <1>3, <1>4, RingCases

\* The three things a step may do to the log.
LogStep ==
    \/ TheLog' = TheLog
    \/ Len(TheLog) = Capacity /\ TheLog' = Tail(TheLog)
    \/ NextIsLast /\ NextRecord.event \in 1 .. MaxEvents

\* What a reset in the middle of a push leaves of it.
LEMMA ResetInPushIs ==
    ASSUME RingInv, ResetInPush
    PROVE  /\ storage_ready /\ events < MaxEvents /\ events' = events + 1
           /\ \/ /\ slots' = [slots EXCEPT ![head_index] = Whole(NextRecord)]
              \/ \E torn \in Slots :
                    /\ ~Valid(torn)
                    /\ \/ slots' = [slots EXCEPT ![head_index] = torn]
                       \/ /\ NothingValid([slots EXCEPT ![head_index] = torn])
                          /\ NothingValid(slots')
<1> DEFINE stores == Stores(slots[head_index], NextRecord)
<1>1. /\ storage_ready /\ events < MaxEvents /\ events' = events + 1
      /\ \E n \in DOMAIN stores :
            AppLogInit([slots EXCEPT ![head_index] = stores[n]])
  BY DEF ResetInPush, NextRecord
<1>2. /\ NextRecord \in Records /\ head_index \in Indices
      /\ events + 1 \in Capacity .. MaxEvents
  BY <1>1, NextRecordIs
<1>3. /\ DOMAIN stores = 1 .. 3
      /\ stores[1] \in Slots /\ ~Valid(stores[1])
      /\ stores[2] \in Slots /\ ~Valid(stores[2])
      /\ stores[3] = Whole(NextRecord)
  BY <1>2 DEF Stores, Whole, Slots, Valid, RingInv, RAM
<1> HIDE DEF stores
<1>4. PICK n \in 1 .. 3 : AppLogInit([slots EXCEPT ![head_index] = stores[n]])
  BY <1>1, <1>3
<1>5. CASE n = 3
  <2> DEFINE whole == [slots EXCEPT ![head_index] = Whole(NextRecord)]
  <2>1. whole \in RAM /\ Shape(whole, events + 1) /\ AppLogInit(whole)
    BY <1>1, <1>3, <1>4, <1>5, NextWritten
  <2>2. Valid(whole[head_index])
    BY <1>2 DEF Valid, Whole, Records, Blank, RingInv, RAM
  <2> HIDE DEF whole
  <2>3. ~NothingValid(whole)
    BY <1>2, <2>2 DEF NothingValid
  <2>4. slots' = whole
    BY <1>1, <1>2, <2>1, <2>3, InitAfterReset
  <2> QED BY <1>1, <2>4 DEF whole
<1>6. CASE n # 3
  <2> DEFINE torn == stores[n]
             part == [slots EXCEPT ![head_index] = torn]
  <2>1. torn \in Slots /\ ~Valid(torn)
    BY <1>3, <1>6
  <2> HIDE DEF torn
  <2>2. part \in RAM /\ Shape(part, events + 1)
    BY <1>1, <2>1, NextWritten
  <2>3. AppLogInit(part)
    BY <1>4 DEF torn
  <2> HIDE DEF part
  <2>4. slots' = part \/ (NothingValid(part) /\ NothingValid(slots'))
    BY <1>1, <1>2, <2>2, <2>3, InitAfterReset
  <2> QED BY <1>1, <2>1, <2>4 DEF part
<1> QED BY <1>5, <1>6

\* Every step of the firmware and the tool does one of them.
LEMMA LogSteps ==
    ASSUME RingInv, RingInv', [Next]_vars
    PROVE  LogStep
<1>1. CASE UNCHANGED logVars
  <2>1. TheLog' = TheLog
    BY <1>1 DEF logVars, ring, TheLog, Logged, Retained, RecordAt
  <2> QED BY <2>1 DEF LogStep
<1>2. CASE LogEvent
  <2>1. NextRecord.event \in 1 .. MaxEvents
    BY <1>2, PushKeepsRing, NextRecordIs DEF LogEvent, Records
  <2>2. NextIsLast
    BY <1>2, PushKeepsRing, WholeIsLogged DEF LogEvent
  <2> QED BY <2>1, <2>2 DEF LogStep
<1>3. CASE ResetAtRest
  <2>1. slots' = slots \/ (NothingValid(slots) /\ NothingValid(slots'))
    BY <1>3, InitAfterReset DEF ResetAtRest, RingInv
  <2>2. LogIsRun /\ LogIsRun'
    BY TheLogIs, PTL
  <2>3. TheLog' = TheLog
    <3>1. CASE slots' = slots
      <4>1. Retained' = Retained
        BY <3>1 DEF Retained, RecordAt
      <4> QED BY <2>2, <4>1 DEF LogIsRun
    <3>2. CASE NothingValid(slots) /\ NothingValid(slots')
      BY <2>2, <3>2 DEF LogIsRun
    <3> QED BY <2>1, <3>1, <3>2
  <2> QED BY <2>3 DEF LogStep
<1>4. CASE ResetInPush
  <2>1. /\ storage_ready /\ events < MaxEvents
        /\ \/ slots' = [slots EXCEPT ![head_index] = Whole(NextRecord)]
           \/ \E torn \in Slots :
                 /\ ~Valid(torn)
                 /\ \/ slots' = [slots EXCEPT ![head_index] = torn]
                    \/ /\ NothingValid([slots EXCEPT ![head_index] = torn])
                       /\ NothingValid(slots')
    BY <1>4, ResetInPushIs
  <2>2. CASE slots' = [slots EXCEPT ![head_index] = Whole(NextRecord)]
    <3>1. NextRecord.event \in 1 .. MaxEvents
      BY <2>1, NextRecordIs DEF Records
    <3>2. NextIsLast
      BY <2>1, <2>2, WholeIsLogged
    <3> QED BY <3>1, <3>2 DEF LogStep
  <2>3. ASSUME NEW torn \in Slots, ~Valid(torn),
               \/ slots' = [slots EXCEPT ![head_index] = torn]
               \/ /\ NothingValid([slots EXCEPT ![head_index] = torn])
                  /\ NothingValid(slots')
        PROVE  LogStep
    BY <2>1, <2>3, TornIsLost DEF LogStep
  <2> QED BY <2>1, <2>2, <2>3
<1> QED BY <1>1, <1>2, <1>3, <1>4
        DEF Next, Answer, RequestInfo, RequestRecord, Timeout, HeartbeatTimeout,
            Heartbeat, DelayHeartbeat, HandleDelayedHeartbeat, HandleResponse,
            Reconnect, Lose, Reset, vars

\* The ring in RAM, with a reset at any store, is the log that its readers
\* expect: every record in the order of the events, numbered without a gap, and
\* none lost but the oldest when it was being replaced.
THEOREM RingImplementsEventLog == Spec => ImplementsEventLog
<1>1. RingInv /\ Init => Log!Init
  <2> SUFFICES ASSUME RingInv, Init PROVE Log!Init
    OBVIOUS
  <2>1. LogIsRun
    BY TheLogIs
  <2>2. CASE NothingValid(slots)
    <3>1. TheLog = <<>>
      BY <2>1, <2>2 DEF LogIsRun
    <3> QED BY <3>1, CapacityAssumption DEF Log!Init, Log!Consecutive, TheLog
  <2>3. ASSUME NEW newest \in Indices, NEW run \in 1 .. Capacity,
               Window(slots, newest, run)
        PROVE  Log!Init
    <3> DEFINE s == slots[newest].body.sequence
    <3>1. slots \in RAM /\ TheLog = RunLog(slots, newest, run)
      BY <2>1, <2>3 DEF LogIsRun, RingInv
    <3>2. /\ Len(TheLog) = run
          /\ \A n \in 1 .. run : TheLog[n] = slots[Back(newest, run - n)].body
      BY <2>3, <3>1, RunLogIs
    <3>3. s \in Sequences
      BY <2>3, <3>1, WindowIs
    <3>4. ASSUME NEW i \in 1 .. run - 1
          PROVE  /\ TheLog[i + 1].sequence = Following(TheLog[i].sequence)
                 /\ TheLog[i].event < TheLog[i + 1].event
      <4>1. /\ run - i \in 0 .. run - 1 /\ run - (i + 1) \in 0 .. run - 1
            /\ run - (i + 1) < run - i /\ i \in 1 .. run /\ i + 1 \in 1 .. run
        BY CapacityAssumption
      <4>2. /\ TheLog[i] = slots[Back(newest, run - i)].body
            /\ TheLog[i + 1] = slots[Back(newest, run - (i + 1))].body
        BY <3>2, <4>1
      <4>3. /\ TheLog[i].sequence = Before(s, run - i)
            /\ TheLog[i + 1].sequence = Before(s, run - (i + 1))
            /\ TheLog[i].event < TheLog[i + 1].event
        BY <2>3, <4>1, <4>2 DEF Window
      <4>4. Before(s, run - (i + 1)) = Following(Before(s, run - i))
        BY <3>3, <4>1, CapacityAssumption, ModulusAssumption
        DEF Before, Following, Sequences
      <4> QED BY <4>3, <4>4
    <3> HIDE DEF s
    <3> QED BY <3>2, <3>4, CapacityAssumption
            DEF Log!Init, Log!Consecutive, Log!Following, Following, TheLog
  <2> QED BY <2>2, <2>3 DEF RingInv, Shape
<1>2. RingInv /\ RingInv' /\ [Next]_vars => [Log!Next]_TheLog
  <2> SUFFICES ASSUME RingInv, RingInv', [Next]_vars, TheLog' # TheLog
               PROVE  Log!Next
    BY DEF Log!Next
  <2>1. CASE Len(TheLog) = Capacity /\ TheLog' = Tail(TheLog)
    BY <2>1 DEF Log!Next, Log!LoseOldest, TheLog
  <2>2. CASE NextIsLast /\ NextRecord.event \in 1 .. MaxEvents
    <3>1. NextRecord = [sequence |-> NextRecord.sequence,
                        event |-> NextRecord.event]
      BY DEF NextRecord
    <3> DEFINE event == NextRecord.event
    <3>2. /\ event \in 1 .. MaxEvents
          /\ TheLog # <<>> => TheLog[Len(TheLog)].event < event
          /\ TheLog' = Append(Log!Kept(TheLog),
                [sequence |-> IF TheLog = <<>> THEN 1
                              ELSE Following(TheLog[Len(TheLog)].sequence),
                 event |-> event])
      BY <2>2, <3>1 DEF NextIsLast
    <3> HIDE DEF event
    <3> QED BY <3>2 DEF Log!Next, Log!Logs, Log!Following, Following, TheLog
  <2> QED BY <2>1, <2>2, LogSteps DEF LogStep
<1>3. Spec => Log!Init /\ [][Log!Next]_TheLog
  BY <1>1, <1>2, RingInvariance, PTL DEF Spec
<1> QED BY <1>3 DEF ImplementsEventLog, Log!Spec, TheLog

-----------------------------------------------------------------------------
(* The types of the reader.                                                *)

Numbers == 0 .. SequenceModulus - 1
\* What the reader may ask for, and what it computes from it.
Asked == (1 - Capacity) .. SequenceModulus - 1
Computed == (1 - Capacity) .. SequenceModulus

Infos == [count : 0 .. Capacity, oldest : Numbers, latest : Numbers]
Beats == [latest : Numbers, count : 0 .. Capacity]
RequestFrames == [kind : {"info", "record"}, sequence : Numbers]
ResponseFrames ==
    [kind : {"info"}, part : {1, 2}, content : Infos]
        \cup [kind : {"record"}, part : {1, 2}, content : Records]
        \cup [kind : {"error"}, part : {1, 2}, content : Numbers]

Syncs ==
    [pending_kind : {"none", "info", "record"},
     pending_sequence : Asked \cup {None},
     info_fragments : [{1, 2} -> Infos \cup {None}],
     record_fragments : [{1, 2} -> Records \cup {None}],
     info_required : BOOLEAN, bootstrap_complete : BOOLEAN,
     next_sequence : Computed \cup {None}, latest_sequence : Numbers,
     last_saved_sequence : Numbers, saved_sequences : SUBSET Sequences,
     record_retries : [ReaderSequences -> 0 .. MaxRecordRetries],
     heartbeat_ready : BOOLEAN, heartbeat_timeout_active : BOOLEAN]

SyncOK(s) ==
    /\ s \in Syncs
    /\ s.pending_kind = "record" <=> s.pending_sequence # None

ReaderInv ==
    /\ toDevice \in Seq(RequestFrames)
    /\ toReader \in Seq(ResponseFrames)
    /\ heartbeat \in Beats \cup {None}
    /\ SyncOK(sync)
    /\ exported \subseteq Records

\* What the reader computes from a sequence number stays in its integers, and
\* what it may ask for fits the request.
LEMMA NumbersAre ==
    /\ Numbers \subseteq Int /\ Asked \subseteq Int /\ Computed \subseteq Int
    /\ Sequences \subseteq Numbers /\ Numbers \subseteq Asked
    /\ Asked \subseteq Computed /\ Computed \subseteq ReaderSequences
    /\ 0 \in Numbers
    /\ \A x \in Asked : x + 1 \in Computed
    /\ None \notin Computed
    /\ \A x \in Computed : \A y \in Numbers : x <= y => x \in Asked
    /\ \A x \in Computed : x % SequenceModulus \in Numbers
    /\ \A x \in Numbers, c \in 0 .. Capacity : x - c + 1 \in Computed
<1>1. SequenceModulus \in Nat /\ SequenceModulus > 0 /\ Capacity \in Nat
  BY CapacityAssumption, ModulusAssumption
<1>2. \A x \in Int : x % SequenceModulus \in Numbers
  BY <1>1 DEF Numbers
<1> QED BY <1>1, <1>2, CapacityAssumption, ReaderAssumption
        DEF Numbers, Asked, Computed, Sequences

\* The reader starts with nothing.
LEMMA ResetSyncIs == SyncOK(ResetSync)
<1>1. NoFragments \in [{1, 2} -> Infos \cup {None}]
  BY DEF NoFragments
<1>2. NoFragments \in [{1, 2} -> Records \cup {None}]
  BY DEF NoFragments
<1>3. NoRetries \in [ReaderSequences -> 0 .. MaxRecordRetries]
  BY RetriesAssumption DEF NoRetries
<1>4. 0 \in Numbers
  BY NumbersAre
<1> HIDE DEF NoFragments, NoRetries
<1> QED BY <1>1, <1>2, <1>3, <1>4 DEF ResetSync, SyncOK, Syncs

\* A request of the reader and its end without an answer.
LEMMA RequestsKeepSync ==
    ASSUME NEW s, SyncOK(s)
    PROVE  /\ SyncOK(InfoRequested(s))
           /\ WantsRecord(s) => SyncOK(RecordRequested(s))
           /\ SyncOK(RequestTimedOut(s))
           /\ SyncOK(ErrorHandled(s))
           /\ SyncOK(RecordTaken(s))
           /\ SyncOK([s EXCEPT !.heartbeat_timeout_active = TRUE])
<1>1. /\ NoFragments \in [{1, 2} -> Infos \cup {None}]
      /\ NoFragments \in [{1, 2} -> Records \cup {None}]
  BY DEF NoFragments
<1>2. s \in Syncs /\ (s.pending_kind = "record" <=> s.pending_sequence # None)
  BY DEF SyncOK
<1>3. SyncOK(InfoRequested(s))
  BY <1>1, <1>2 DEF SyncOK, Syncs, InfoRequested
<1>4. ASSUME WantsRecord(s) PROVE SyncOK(RecordRequested(s))
  <2>1. /\ s.next_sequence # None /\ s.next_sequence <= s.latest_sequence
        /\ s.next_sequence \in Computed /\ s.latest_sequence \in Numbers
    BY <1>2, <1>4 DEF WantsRecord, Syncs
  <2>2. s.next_sequence \in Asked
    BY <2>1, NumbersAre
  <2> QED BY <1>1, <1>2, <2>1, <2>2 DEF SyncOK, Syncs, RecordRequested
<1>5. SyncOK(RequestTimedOut(s))
  BY <1>1, <1>2 DEF SyncOK, Syncs, RequestTimedOut
<1>6. SyncOK(ErrorHandled(s))
  BY <1>1, <1>2 DEF SyncOK, Syncs, ErrorHandled
<1>7. SyncOK(RecordTaken(s))
  BY <1>1, <1>2 DEF SyncOK, Syncs, RecordTaken
<1>8. SyncOK([s EXCEPT !.heartbeat_timeout_active = TRUE])
  BY <1>1, <1>2 DEF SyncOK, Syncs
<1> QED BY <1>3, <1>4, <1>5, <1>6, <1>7, <1>8

\* _handle_heartbeat keeps the types of the reader.
LEMMA HeartbeatKeepsSync ==
    ASSUME NEW s, SyncOK(s), NEW beat \in Beats
    PROVE  SyncOK(HeartbeatHandled(s, beat))
<1> DEFINE heard == [s EXCEPT !.heartbeat_ready = TRUE,
                              !.heartbeat_timeout_active = FALSE]
           requested == Requested(s, beat)
<1>1. s \in Syncs /\ (s.pending_kind = "record" <=> s.pending_sequence # None)
  BY DEF SyncOK
<1>2. heard \in Syncs /\ (heard.pending_kind = "record" <=> heard.pending_sequence # None)
  BY <1>1 DEF Syncs
<1>3. beat.latest \in Numbers /\ beat.count \in 0 .. Capacity
  BY DEF Beats
<1>4. requested \in Computed
  <2>1. /\ s.next_sequence \in Computed \cup {None}
        /\ s.last_saved_sequence \in Numbers
    BY <1>1 DEF Syncs
  <2> QED BY <1>3, <2>1, NumbersAre DEF Requested
<1> HIDE DEF heard, requested
<1>5. SyncOK(heard)
  BY <1>2 DEF SyncOK
<1>6. SyncOK([heard EXCEPT !.info_required = TRUE, !.next_sequence = None])
  BY <1>2 DEF SyncOK, Syncs
<1>7. SyncOK([heard EXCEPT !.info_required = TRUE])
  BY <1>2 DEF SyncOK, Syncs
<1>8. SyncOK([heard EXCEPT !.next_sequence = requested,
                           !.latest_sequence = beat.latest])
  BY <1>2, <1>3, <1>4 DEF SyncOK, Syncs
<1> QED BY <1>5, <1>6, <1>7, <1>8 DEF HeartbeatHandled, heard, requested

\* _complete_info keeps the types of the reader.
LEMMA InfoKeepsSync ==
    ASSUME NEW s, SyncOK(s), s.pending_kind = "info", Complete(s.info_fragments)
    PROVE  SyncOK(InfoCompleted(s))
<1> DEFINE info == s.info_fragments[1]
           latest == s.info_fragments[2].latest
           answered == [s EXCEPT !.pending_kind = "none",
                                 !.info_fragments = NoFragments]
           current == IF Restarted(s, latest)
                      THEN [answered EXCEPT !.saved_sequences = {},
                                            !.record_retries = NoRetries,
                                            !.last_saved_sequence = 0,
                                            !.next_sequence = None]
                      ELSE answered
           fresh == [current EXCEPT !.latest_sequence = latest,
                             !.info_required = FALSE,
                             !.bootstrap_complete = TRUE,
                             !.next_sequence = Resumed(@, info)]
<1>1. s \in Syncs /\ s.pending_sequence = None
  BY DEF SyncOK
<1>2. info \in Infos /\ latest \in Numbers
  <2>1. s.info_fragments \in [{1, 2} -> Infos \cup {None}]
    BY <1>1 DEF Syncs
  <2>2. s.info_fragments[1] \in Infos /\ s.info_fragments[2] \in Infos
    BY <2>1 DEF Complete
  <2> QED BY <2>2 DEF Infos
<1>3. /\ NoFragments \in [{1, 2} -> Infos \cup {None}]
      /\ NoRetries \in [ReaderSequences -> 0 .. MaxRecordRetries]
      /\ 0 \in Numbers
  BY RetriesAssumption, NumbersAre DEF NoFragments, NoRetries
<1> HIDE DEF info, latest, NoFragments, NoRetries
<1>4. /\ answered \in Syncs /\ answered.pending_kind = "none"
      /\ answered.pending_sequence = None
  BY <1>1, <1>3 DEF Syncs
<1>5. SyncOK([answered EXCEPT !.info_required = TRUE])
  BY <1>4 DEF SyncOK, Syncs
<1> HIDE DEF answered
<1>6. /\ current \in Syncs /\ current.pending_kind = "none"
      /\ current.pending_sequence = None
  <2> DEFINE again == [answered EXCEPT !.saved_sequences = {},
                                       !.record_retries = NoRetries,
                                       !.last_saved_sequence = 0,
                                       !.next_sequence = None]
  <2>1. /\ again \in Syncs /\ again.pending_kind = "none"
        /\ again.pending_sequence = None
    BY <1>3, <1>4 DEF Syncs
  <2>2. current = again \/ current = answered
    OBVIOUS
  <2> HIDE DEF again, current
  <2> QED BY <1>4, <2>1, <2>2
<1> HIDE DEF current
<1>7. Resumed(current.next_sequence, info) \in Computed \cup {None}
  <2>1. info.oldest \in Numbers /\ current.next_sequence \in Computed \cup {None}
    BY <1>2, <1>6 DEF Infos, Syncs
  <2> QED BY <2>1, NumbersAre DEF Resumed
<1>8. SyncOK(fresh)
  <2> DEFINE next == Resumed(current.next_sequence, info)
  <2>1. next \in Computed \cup {None}
    BY <1>7
  <2> HIDE DEF next
  <2>2. /\ [current EXCEPT !.latest_sequence = latest,
                           !.info_required = FALSE,
                           !.bootstrap_complete = TRUE,
                           !.next_sequence = next] \in Syncs
    BY <1>2, <1>6, <2>1 DEF Syncs
  <2>3. fresh = [current EXCEPT !.latest_sequence = latest,
                               !.info_required = FALSE,
                               !.bootstrap_complete = TRUE,
                               !.next_sequence = next]
    BY DEF next
  <2>4. fresh \in Syncs
    BY <2>2, <2>3
  <2>5. fresh.pending_kind = "none" /\ fresh.pending_sequence = None
    BY <1>6 DEF Syncs
  <2> HIDE DEF fresh
  <2> QED BY <2>4, <2>5 DEF SyncOK
<1> HIDE DEF fresh
<1>9. InfoCompleted(s) = IF info.count > 0 /\ info.oldest > latest
                         THEN [answered EXCEPT !.info_required = TRUE]
                         ELSE fresh
  BY DEF InfoCompleted, info, latest, answered, current, fresh
<1> QED BY <1>5, <1>8, <1>9

\* A function with another value at one argument.
LEMMA ExceptKeepsType ==
    ASSUME NEW S, NEW T, NEW f \in [S -> T], NEW x, NEW e \in T
    PROVE  [f EXCEPT ![x] = e] \in [S -> T]
  OBVIOUS

\* The retries of a record, counted from zero again.
LEMMA RetriesReset ==
    ASSUME NEW f \in [ReaderSequences -> 0 .. MaxRecordRetries], NEW x
    PROVE  [f EXCEPT ![x] = 0] \in [ReaderSequences -> 0 .. MaxRecordRetries]
<1>1. 0 \in 0 .. MaxRecordRetries
  BY RetriesAssumption
<1> QED BY <1>1, ExceptKeepsType

\* A complete record, saved or not.
LEMMA RecordKeepsSync ==
    ASSUME NEW s, SyncOK(s), s.pending_kind = "record",
           Complete(s.record_fragments)
    PROVE  /\ SyncOK(RecordRejected(s))
           /\ Acceptable(s) =>
                 /\ Assembled(s) \in Records
                 /\ Assembled(s) = s.record_fragments[1]
                 /\ SyncOK(RecordSaved(s, Assembled(s).sequence))
<1>1. s \in Syncs /\ s.pending_sequence \in Asked
  BY DEF SyncOK, Syncs
<1>2. /\ s.pending_sequence \in ReaderSequences
      /\ s.pending_sequence + 1 \in Computed
  BY <1>1, NumbersAre
<1>3. SyncOK(RecordTaken(s)) /\ RecordTaken(s).record_retries = s.record_retries
      /\ RecordTaken(s).pending_kind = "none" /\ RecordTaken(s).pending_sequence = None
  BY <1>1, RequestsKeepSync DEF RecordTaken, Syncs
<1>4. s.record_retries \in [ReaderSequences -> 0 .. MaxRecordRetries]
  BY <1>1 DEF Syncs
<1>5. SyncOK(RecordRejected(s))
  <2> DEFINE t == RecordTaken(s)
             q == s.pending_sequence
  <2>1. t \in Syncs /\ t.pending_kind = "none" /\ t.pending_sequence = None
    BY <1>3 DEF SyncOK
  <2> HIDE DEF t
  <2>2. SyncOK([t EXCEPT !.record_retries[q] = 0, !.next_sequence = q + 1])
    <3> DEFINE retries == [t.record_retries EXCEPT ![q] = 0]
    <3>1. retries \in [ReaderSequences -> 0 .. MaxRecordRetries]
      <4>1. t.record_retries \in [ReaderSequences -> 0 .. MaxRecordRetries]
        BY <2>1 DEF Syncs
      <4> QED BY <4>1, RetriesReset
    <3>2. [t EXCEPT !.record_retries[q] = 0, !.next_sequence = q + 1]
              = [t EXCEPT !.record_retries = retries, !.next_sequence = q + 1]
      BY <2>1 DEF Syncs
    <3> HIDE DEF retries
    <3>3. SyncOK([t EXCEPT !.record_retries = retries, !.next_sequence = q + 1])
      BY <1>2, <2>1, <3>1 DEF SyncOK, Syncs
    <3> QED BY <3>2, <3>3
  <2>3. ASSUME ~GivesUp(s)
        PROVE  SyncOK([t EXCEPT !.record_retries[q] = @ + 1])
    <3>1. t.record_retries[q] + 1 \in 0 .. MaxRecordRetries
      BY <1>2, <1>3, <1>4, <2>3, RetriesAssumption DEF GivesUp, t
    <3>2. [t EXCEPT !.record_retries[q] = @ + 1]
              = [t EXCEPT !.record_retries[q] = t.record_retries[q] + 1]
      BY <2>1 DEF Syncs
    <3>3. SyncOK([t EXCEPT !.record_retries[q] = t.record_retries[q] + 1])
      BY <1>2, <2>1, <3>1 DEF SyncOK, Syncs
    <3> QED BY <3>2, <3>3
  <2> QED BY <2>2, <2>3 DEF RecordRejected, t
<1>6. ASSUME Acceptable(s)
      PROVE  /\ Assembled(s) \in Records
             /\ Assembled(s) = s.record_fragments[1]
             /\ SyncOK(RecordSaved(s, Assembled(s).sequence))
  <2> DEFINE record == s.record_fragments[1]
             t == RecordTaken(s)
             q == s.pending_sequence
  <2>1. record \in Records
    <3>1. s.record_fragments \in [{1, 2} -> Records \cup {None}]
      BY <1>1 DEF Syncs
    <3> QED BY <3>1 DEF Complete
  <2>2. Assembled(s) = [sequence |-> record.sequence, event |-> record.event]
    BY <1>6 DEF Acceptable, Assembled
  <2>3. Assembled(s) = record
    BY <2>1, <2>2 DEF Records
  <2>4. q = record.sequence /\ q \in Sequences /\ q \in Numbers
    BY <1>6, <2>1, <2>3, NumbersAre DEF Acceptable, Records, Sequences
  <2>5. t \in Syncs /\ t.pending_kind = "none" /\ t.pending_sequence = None
    BY <1>3 DEF SyncOK
  <2> HIDE DEF t
  <2>6. SyncOK(RecordSaved(s, q))
    <3> DEFINE retries == [t.record_retries EXCEPT ![q] = 0]
               saved == t.saved_sequences \cup {q}
    <3>1. /\ retries \in [ReaderSequences -> 0 .. MaxRecordRetries]
          /\ saved \in SUBSET Sequences
      <4>1. /\ t.record_retries \in [ReaderSequences -> 0 .. MaxRecordRetries]
            /\ t.saved_sequences \in SUBSET Sequences
        BY <2>5 DEF Syncs
      <4> QED BY <2>4, <4>1, RetriesReset
    <3>2. RecordSaved(s, q) = [t EXCEPT !.saved_sequences = saved,
                                        !.record_retries = retries,
                                        !.last_saved_sequence = q,
                                        !.next_sequence = q + 1]
      <4>1. RecordSaved(s, q) = [t EXCEPT !.saved_sequences = @ \cup {q},
                                          !.record_retries[q] = 0,
                                          !.last_saved_sequence = q,
                                          !.next_sequence = q + 1]
        BY DEF RecordSaved, t
      <4> QED BY <2>5, <4>1 DEF Syncs
    <3> HIDE DEF retries, saved
    <3>3. SyncOK([t EXCEPT !.saved_sequences = saved,
                           !.record_retries = retries,
                           !.last_saved_sequence = q,
                           !.next_sequence = q + 1])
      BY <1>2, <2>4, <2>5, <3>1 DEF SyncOK, Syncs
    <3> QED BY <3>2, <3>3
  <2> QED BY <2>1, <2>3, <2>4, <2>6
<1> QED BY <1>5, <1>6

-----------------------------------------------------------------------------
(* What the reader sees.                                                   *)

\* The log in use is the one in the ring.
LEMMA LiveIs ==
    ASSUME RingInv
    PROVE  /\ count \in 0 .. Capacity
           /\ \A n \in 1 .. count : Logged[n] \in Stored /\ Logged[n] \in Records
           /\ Live \subseteq Stored /\ Stored \subseteq Records
           /\ ~storage_ready => Live = {}
<1>1. slots \in RAM /\ storage_ready \in BOOLEAN /\ LogIsRun
  BY TheLogIs DEF RingInv
<1>2. Stored \subseteq Records
  BY <1>1, ValidRecord DEF Stored, HeldIn
<1>3. CASE ~storage_ready
  <2>1. count = 0
    BY <1>3 DEF RingInv, RingIs, Nothing
  <2> QED BY <1>2, <1>3, <2>1, CapacityAssumption DEF Live
<1>4. CASE storage_ready
  <2>1. CASE count = 0
    BY <1>2, <1>4, <2>1, CapacityAssumption DEF Live
  <2>2. ASSUME NEW newest \in Indices, NEW run \in 1 .. Capacity,
               Window(slots, newest, run), count = run
        PROVE  /\ count \in 0 .. Capacity
               /\ \A n \in 1 .. count : Logged[n] \in Stored
    <3>1. Logged = RunLog(slots, newest, run)
      BY <1>1, <1>4, <2>2 DEF LogIsRun, TheLog
    <3>2. ASSUME NEW n \in 1 .. run
          PROVE  Logged[n] \in Stored
      <4>1. Logged[n] = slots[Back(newest, run - n)].body
        BY <1>1, <2>2, <3>1, RunLogIs
      <4>2. run - n \in 0 .. run - 1 /\ run - n \in 0 .. Capacity - 1
        BY CapacityAssumption
      <4>3. Back(newest, run - n) \in Indices /\ Valid(slots[Back(newest, run - n)])
        BY <2>2, <4>2, BackOfAfter DEF Window
      <4> QED BY <4>1, <4>3 DEF Stored, HeldIn
    <3> QED BY <2>2, <3>2, CapacityAssumption
  <2>3. /\ count \in 0 .. Capacity
        /\ \A n \in 1 .. count : Logged[n] \in Stored
    BY <1>4, <2>1, <2>2, RingCases, CapacityAssumption
  <2> QED BY <1>2, <1>4, <2>3 DEF Live
<1> QED BY <1>1, <1>3, <1>4

\* App_Log_GetInfo and the heartbeat give a count and numbers in range.
LEMMA InfoIs ==
    ASSUME RingInv
    PROVE  Info \in Infos /\ Beat \in Beats
<1>1. /\ count \in 0 .. Capacity
      /\ \A n \in 1 .. count : Logged[n] \in Records
  BY LiveIs
<1>2. /\ \A r \in Records : r.sequence \in Numbers
      /\ 0 \in Numbers
  BY NumbersAre DEF Records, Sequences
<1>3. count # 0 => 1 \in 1 .. count /\ count \in 1 .. count
  BY <1>1, CapacityAssumption
<1> QED BY <1>1, <1>2, <1>3 DEF Info, Infos, Beat, Beats

\* What the frames of a kind in a channel carry, when frames are added, taken or lost.
LEMMA ContentsIs ==
    ASSUME NEW a \in Seq(ResponseFrames), NEW b \in Seq(ResponseFrames),
           NEW kind
    PROVE  /\ Contents(kind, a \o b) \subseteq Contents(kind, a) \cup Contents(kind, b)
           /\ Contents(kind, <<>>) = {}
           /\ \A n \in 0 .. Len(a) :
                 /\ SubSeq(a, 1, n) \in Seq(ResponseFrames)
                 /\ Contents(kind, SubSeq(a, 1, n)) \subseteq Contents(kind, a)
           /\ a # <<>> =>
                 /\ Head(a) \in ResponseFrames
                 /\ Tail(a) \in Seq(ResponseFrames)
                 /\ Contents(kind, Tail(a)) \subseteq Contents(kind, a)
                 /\ Head(a).kind = kind => Head(a).content \in Contents(kind, a)
<1>1. ASSUME NEW n \in 0 .. Len(a)
      PROVE  /\ SubSeq(a, 1, n) \in Seq(ResponseFrames)
             /\ Contents(kind, SubSeq(a, 1, n)) \subseteq Contents(kind, a)
  <2>1. \A i \in 1 .. n : a[i] \in ResponseFrames /\ i \in 1 .. Len(a)
    OBVIOUS
  <2>2. /\ SubSeq(a, 1, n) \in Seq(ResponseFrames)
        /\ Len(SubSeq(a, 1, n)) = IF 1 <= n THEN n - 1 + 1 ELSE 0
        /\ \A i \in 1 .. n - 1 + 1 : SubSeq(a, 1, n)[i] = a[1 + i - 1]
    BY <2>1, SubSeqProperties
  <2>3. /\ Len(SubSeq(a, 1, n)) = n
        /\ \A i \in 1 .. n : SubSeq(a, 1, n)[i] = a[i]
    BY <2>2
  <2> QED BY <2>1, <2>2, <2>3 DEF Contents
<1>2. ASSUME a # <<>>
      PROVE  /\ Head(a) \in ResponseFrames
             /\ Tail(a) \in Seq(ResponseFrames)
             /\ Contents(kind, Tail(a)) \subseteq Contents(kind, a)
             /\ Head(a).kind = kind => Head(a).content \in Contents(kind, a)
  <2>1. /\ Head(a) \in ResponseFrames /\ Tail(a) \in Seq(ResponseFrames)
        /\ Len(Tail(a)) = Len(a) - 1
        /\ \A i \in 1 .. Len(Tail(a)) : Tail(a)[i] = a[i + 1]
    BY <1>2, HeadTailProperties
  <2>2. Head(a) = a[1] /\ 1 \in 1 .. Len(a)
    BY <1>2
  <2>3. \A i \in 1 .. Len(Tail(a)) : i + 1 \in 1 .. Len(a)
    BY <2>1
  <2> QED BY <2>1, <2>2, <2>3 DEF Contents
<1>3. Contents(kind, a \o b) \subseteq Contents(kind, a) \cup Contents(kind, b)
  <2>1. /\ Len(a \o b) = Len(a) + Len(b)
        /\ \A i \in 1 .. Len(a) + Len(b) : (a \o b)[i] =
               IF i <= Len(a) THEN a[i] ELSE b[i - Len(a)]
    BY ConcatProperties
  <2>2. Len(a) \in Nat /\ Len(b) \in Nat
    OBVIOUS
  <2>3. ASSUME NEW i \in 1 .. Len(a) + Len(b), (a \o b)[i].kind = kind
        PROVE  (a \o b)[i].content \in Contents(kind, a) \cup Contents(kind, b)
    <3>1. CASE i <= Len(a)
      <4>1. i \in 1 .. Len(a) /\ (a \o b)[i] = a[i]
        BY <2>1, <2>2, <3>1
      <4> QED BY <2>3, <4>1 DEF Contents
    <3>2. CASE ~(i <= Len(a))
      <4>1. i - Len(a) \in 1 .. Len(b) /\ (a \o b)[i] = b[i - Len(a)]
        BY <2>1, <2>2, <3>2
      <4> QED BY <2>3, <4>1 DEF Contents
    <3> QED BY <3>1, <3>2
  <2> QED BY <2>1, <2>3 DEF Contents
<1>4. Contents(kind, <<>>) = {}
  BY DEF Contents
<1> QED BY <1>1, <1>2, <1>3, <1>4

\* The records that a channel carries.
LEMMA CarriedIs ==
    ASSUME NEW a \in Seq(ResponseFrames), NEW b \in Seq(ResponseFrames)
    PROVE  /\ Carried(a \o b) \subseteq Carried(a) \cup Carried(b)
           /\ Carried(a) \subseteq Records
           /\ Carried(<<>>) = {}
           /\ \A n \in 0 .. Len(a) :
                 /\ SubSeq(a, 1, n) \in Seq(ResponseFrames)
                 /\ Carried(SubSeq(a, 1, n)) \subseteq Carried(a)
           /\ a # <<>> =>
                 /\ Head(a) \in ResponseFrames
                 /\ Tail(a) \in Seq(ResponseFrames)
                 /\ Carried(Tail(a)) \subseteq Carried(a)
                 /\ Head(a).kind = "record" => Head(a).content \in Carried(a)
<1>1. Carried(a) \subseteq Records
  <2>1. \A i \in 1 .. Len(a) : a[i] \in ResponseFrames
    OBVIOUS
  <2> QED BY <2>1 DEF Carried, Contents, ResponseFrames
<1> QED BY <1>1, ContentsIs DEF Carried

\* What the firmware answers is of the log.
LEMMA ResponseIs ==
    ASSUME RingInv, NEW request \in RequestFrames
    PROVE  /\ Response(request) \in Seq(ResponseFrames)
           /\ Carried(Response(request)) \subseteq Live
<1>1. Info \in Infos
  BY InfoIs
<1>2. CASE request.kind = "info"
  <2>1. Response(request) = <<[kind |-> "info", part |-> 1, content |-> Info],
                              [kind |-> "info", part |-> 2, content |-> Info]>>
    BY <1>2 DEF Response, Parts
  <2>2. /\ [kind |-> "info", part |-> 1, content |-> Info] \in ResponseFrames
        /\ [kind |-> "info", part |-> 2, content |-> Info] \in ResponseFrames
    BY <1>1 DEF ResponseFrames
  <2>3. Carried(Response(request)) = {}
    BY <2>1 DEF Carried, Contents
  <2> QED BY <2>1, <2>2, <2>3
<1>3. CASE request.kind # "info" /\ Found(request.sequence) = {}
  <2>1. Response(request) =
            <<[kind |-> "error", part |-> 1, content |-> request.sequence]>>
    BY <1>3 DEF Response
  <2>2. [kind |-> "error", part |-> 1, content |-> request.sequence]
            \in ResponseFrames
    BY DEF ResponseFrames, RequestFrames
  <2>3. Carried(Response(request)) = {}
    BY <2>1 DEF Carried, Contents
  <2> QED BY <2>1, <2>2, <2>3
<1>4. CASE request.kind # "info" /\ Found(request.sequence) # {}
  <2> DEFINE record == CHOOSE r \in Found(request.sequence) : TRUE
  <2>1. record \in Found(request.sequence)
    BY <1>4
  <2>2. record \in Live /\ record \in Records
    BY <2>1, LiveIs DEF Found, Live
  <2>3. Response(request) = Parts("record", record)
    BY <1>4 DEF Response
  <2> HIDE DEF record
  <2>4. Response(request) = <<[kind |-> "record", part |-> 1, content |-> record],
                              [kind |-> "record", part |-> 2, content |-> record]>>
    BY <2>3 DEF Parts
  <2>5. /\ [kind |-> "record", part |-> 1, content |-> record] \in ResponseFrames
        /\ [kind |-> "record", part |-> 2, content |-> record] \in ResponseFrames
    BY <2>2 DEF ResponseFrames
  <2>6. Carried(Response(request)) \subseteq {record}
    BY <2>4 DEF Carried, Contents
  <2> QED BY <2>2, <2>4, <2>5, <2>6
<1> QED BY <1>2, <1>3, <1>4

\* A request and an answer leave no fragment of an earlier record behind.
LEMMA TakenIs ==
    ASSUME NEW s, SyncOK(s)
    PROVE  /\ Taken(InfoRequested(s)) = Taken(s)
           /\ Taken(RecordRequested(s)) = {}
           /\ Taken(RequestTimedOut(s)) = {}
           /\ Taken(ErrorHandled(s)) = Taken(s)
           /\ Taken(RecordTaken(s)) = {}
           /\ Taken(RecordRejected(s)) = {}
           /\ \A n : Taken(RecordSaved(s, n)) = {}
           /\ \A beat : Taken(HeartbeatHandled(s, beat)) = Taken(s)
           /\ Taken(InfoCompleted(s)) = Taken(s)
           /\ Taken(ResetSync) = {}
           /\ Taken([s EXCEPT !.heartbeat_timeout_active = TRUE]) = Taken(s)
           /\ Taken(s) \subseteq Records
<1>1. \A t : t.record_fragments = NoFragments => Taken(t) = {}
  BY DEF Taken, NoFragments
<1>2. \A t : t.record_fragments = s.record_fragments => Taken(t) = Taken(s)
  BY DEF Taken
<1>3. s \in Syncs
  BY DEF SyncOK
<1>4. /\ InfoRequested(s).record_fragments = s.record_fragments
      /\ RecordRequested(s).record_fragments = NoFragments
      /\ RequestTimedOut(s).record_fragments = NoFragments
      /\ ErrorHandled(s).record_fragments = s.record_fragments
      /\ RecordTaken(s).record_fragments = NoFragments
      /\ ResetSync.record_fragments = NoFragments
      /\ [s EXCEPT !.heartbeat_timeout_active = TRUE].record_fragments
            = s.record_fragments
  <2> HIDE DEF NoFragments
  <2> QED BY <1>3 DEF Syncs, InfoRequested, RecordRequested, RequestTimedOut,
                      ErrorHandled, RecordTaken, ResetSync
<1>5. /\ RecordTaken(s) \in Syncs
      /\ \A n : RecordSaved(s, n).record_fragments = NoFragments
      /\ RecordRejected(s).record_fragments = NoFragments
  <2> DEFINE t == RecordTaken(s)
  <2>1. t \in Syncs
    BY RequestsKeepSync DEF SyncOK
  <2>2. t.record_fragments = NoFragments
    BY <1>4
  <2> HIDE DEF t
  <2>3. \A n : RecordSaved(s, n).record_fragments = NoFragments
    BY <2>1, <2>2 DEF RecordSaved, t, Syncs
  <2>4. RecordRejected(s).record_fragments = NoFragments
    BY <2>1, <2>2 DEF RecordRejected, t, Syncs
  <2> QED BY <2>1, <2>3, <2>4 DEF t
<1>6. \A beat : HeartbeatHandled(s, beat).record_fragments = s.record_fragments
  BY <1>3 DEF HeartbeatHandled, Syncs
<1>7. InfoCompleted(s).record_fragments = s.record_fragments
  BY <1>3 DEF InfoCompleted, Syncs
<1>8. Taken(s) \subseteq Records
  BY <1>3 DEF Taken, Syncs
<1> QED BY <1>1, <1>2, <1>4, <1>5, <1>6, <1>7, <1>8

\* The reader gets to see what it has seen, or what the log holds.
SeenStep == Seen' \subseteq Seen \cup Live

\* The answers of the firmware.
LEMMA AnswerSeen ==
    ASSUME RingInv, ReaderInv, Answer
    PROVE  ReaderInv' /\ SeenStep
<1> DEFINE request == Head(toDevice)
           response == Response(request)
<1>1. /\ toDevice # <<>> /\ toDevice' = Tail(toDevice)
      /\ \/ toReader' = toReader \o response
         \/ \E n \in 0 .. Len(response) - 1 :
               toReader' = toReader \o SubSeq(response, 1, n)
      /\ UNCHANGED <<heartbeat, reader>>
  BY DEF Answer
<1>2. toDevice \in Seq(RequestFrames) /\ toReader \in Seq(ResponseFrames)
  BY DEF ReaderInv
<1>3. request \in RequestFrames /\ toDevice' \in Seq(RequestFrames)
  BY <1>1, <1>2
<1>4. response \in Seq(ResponseFrames) /\ Carried(response) \subseteq Live
  BY <1>3, ResponseIs
<1> HIDE DEF response, request
<1>5. \E sent \in Seq(ResponseFrames) :
          toReader' = toReader \o sent /\ Carried(sent) \subseteq Live
  <2>1. CASE toReader' = toReader \o response
    BY <1>4, <2>1
  <2>2. ASSUME NEW n \in 0 .. Len(response) - 1,
               toReader' = toReader \o SubSeq(response, 1, n)
        PROVE  \E sent \in Seq(ResponseFrames) :
                   toReader' = toReader \o sent /\ Carried(sent) \subseteq Live
    <3>1. n \in 0 .. Len(response)
      BY <1>4
    <3>2. /\ SubSeq(response, 1, n) \in Seq(ResponseFrames)
          /\ Carried(SubSeq(response, 1, n)) \subseteq Carried(response)
      BY <1>4, <3>1, CarriedIs
    <3> QED BY <1>4, <2>2, <3>2
  <2> QED BY <1>1, <2>1, <2>2
<1>6. PICK sent \in Seq(ResponseFrames) :
          toReader' = toReader \o sent /\ Carried(sent) \subseteq Live
  BY <1>5
<1>7. /\ toReader' \in Seq(ResponseFrames)
      /\ Carried(toReader') \subseteq Carried(toReader) \cup Live
  BY <1>2, <1>6, CarriedIs
<1> QED BY <1>1, <1>3, <1>7 DEF ReaderInv, SeenStep, Seen, reader, rows

\* A complete record, written to the file or not.
LEMMA RecordSeen ==
    ASSUME ReaderInv, NEW taken, SyncOK(taken), taken.pending_kind = "record",
           Complete(taken.record_fragments),
           Taken(taken) \subseteq Seen \cup Live,
           CompleteRecord(taken)
    PROVE  /\ SyncOK(sync') /\ exported' \subseteq Records
           /\ Taken(sync') = {}
           /\ exported' \subseteq exported \cup Taken(taken)
<1>1. exported \subseteq Records
  BY DEF ReaderInv
<1>2. CASE ~Acceptable(taken)
  <2>1. sync' = RecordRejected(taken) /\ exported' = exported
    BY <1>2 DEF CompleteRecord
  <2> QED BY <1>1, <2>1, RecordKeepsSync, TakenIs
<1>3. CASE Acceptable(taken)
  <2> DEFINE record == Assembled(taken)
  <2>1. /\ record \in Records /\ record = taken.record_fragments[1]
        /\ SyncOK(RecordSaved(taken, record.sequence))
    BY <1>3, RecordKeepsSync
  <2>2. record \in Taken(taken)
    BY <2>1 DEF Complete, Taken
  <2>3. \/ /\ sync' = RecordSaved(taken, record.sequence)
           /\ exported' \subseteq exported \cup {record}
        \/ sync' = RecordTaken(taken) /\ exported' = exported
    BY <1>3 DEF CompleteRecord
  <2> HIDE DEF record
  <2>4. CASE /\ sync' = RecordSaved(taken, record.sequence)
             /\ exported' \subseteq exported \cup {record}
    BY <1>1, <2>1, <2>2, <2>4, TakenIs
  <2>5. CASE sync' = RecordTaken(taken) /\ exported' = exported
    BY <1>1, <2>5, TakenIs, RequestsKeepSync
  <2> QED BY <2>3, <2>4, <2>5
<1> QED BY <1>2, <1>3

\* A fragment of a response.
LEMMA ResponseSeen ==
    ASSUME RingInv, ReaderInv, HandleResponse
    PROVE  ReaderInv' /\ SeenStep
<1> DEFINE frame == Head(toReader)
<1>1. /\ toReader # <<>> /\ toReader' = Tail(toReader)
      /\ UNCHANGED <<toDevice, heartbeat>>
      /\ \/ frame.kind = "info" /\ HandleInfo(frame)
         \/ frame.kind = "record" /\ HandleRecord(frame)
         \/ /\ frame.kind = "error"
            /\ sync' = ErrorHandled(sync) /\ exported' = exported
  BY DEF HandleResponse, rows
<1>2. toReader \in Seq(ResponseFrames) /\ SyncOK(sync) /\ exported \subseteq Records
  BY DEF ReaderInv
<1>3. /\ frame \in ResponseFrames /\ toReader' \in Seq(ResponseFrames)
      /\ Carried(toReader') \subseteq Carried(toReader)
      /\ frame.kind = "record" => frame.content \in Carried(toReader)
  BY <1>1, <1>2, CarriedIs
<1> HIDE DEF frame
<1>4. /\ SyncOK(sync') /\ exported' \subseteq Records
      /\ Taken(sync') \cup exported' \subseteq Seen \cup Live
  <2>1. CASE frame.kind = "error" /\ sync' = ErrorHandled(sync) /\ exported' = exported
    BY <1>2, <2>1, TakenIs, RequestsKeepSync DEF Seen
  <2>2. CASE frame.kind = "info" /\ HandleInfo(frame)
    <3> DEFINE taken == [sync EXCEPT !.info_fragments[frame.part] = frame.content]
    <3>1. frame.content \in Infos
      BY <1>3, <2>2 DEF ResponseFrames
    <3>2. /\ SyncOK(taken) /\ taken.record_fragments = sync.record_fragments
          /\ taken.pending_kind = sync.pending_kind
      <4> DEFINE fragments == [sync.info_fragments EXCEPT ![frame.part] = frame.content]
      <4>1. sync.info_fragments \in [{1, 2} -> Infos \cup {None}]
        BY <1>2 DEF SyncOK, Syncs
      <4>2. fragments \in [{1, 2} -> Infos \cup {None}]
        BY <3>1, <4>1, ExceptKeepsType
      <4>3. taken = [sync EXCEPT !.info_fragments = fragments]
        BY <1>2 DEF SyncOK, Syncs
      <4> HIDE DEF fragments, taken
      <4> QED BY <1>2, <4>2, <4>3 DEF SyncOK, Syncs
    <3>3. Taken(taken) = Taken(sync)
      BY <3>2 DEF Taken
    <3>4. /\ exported' = exported
          /\ \/ sync' = sync
             \/ /\ sync' = InfoCompleted(taken) /\ sync.pending_kind = "info"
                /\ Complete(taken.info_fragments)
             \/ sync' = taken
      BY <2>2 DEF HandleInfo
    <3> HIDE DEF taken
    <3>5. CASE sync' = sync
      BY <1>2, <3>4, <3>5 DEF Seen
    <3>6. CASE /\ sync' = InfoCompleted(taken) /\ sync.pending_kind = "info"
               /\ Complete(taken.info_fragments)
      <4>1. SyncOK(InfoCompleted(taken))
        BY <3>2, <3>6, InfoKeepsSync
      <4>2. Taken(InfoCompleted(taken)) = Taken(taken)
        BY <3>2, TakenIs
      <4> QED BY <1>2, <3>3, <3>4, <3>6, <4>1, <4>2 DEF Seen
    <3>7. CASE sync' = taken
      BY <1>2, <3>2, <3>3, <3>4, <3>7 DEF Seen
    <3> QED BY <3>4, <3>5, <3>6, <3>7
  <2>3. CASE frame.kind = "record" /\ HandleRecord(frame)
    <3> DEFINE taken == [sync EXCEPT !.record_fragments[frame.part] = frame.content]
    <3>1. frame.content \in Records /\ frame.content \in Carried(toReader)
      BY <1>3, <2>3 DEF ResponseFrames
    <3>2. /\ SyncOK(taken) /\ taken.pending_kind = sync.pending_kind
          /\ Taken(taken) \subseteq Taken(sync) \cup {frame.content}
      <4> DEFINE fragments == [sync.record_fragments EXCEPT ![frame.part] = frame.content]
      <4>1. sync.record_fragments \in [{1, 2} -> Records \cup {None}]
        BY <1>2 DEF SyncOK, Syncs
      <4>2. fragments \in [{1, 2} -> Records \cup {None}]
        BY <3>1, <4>1, ExceptKeepsType
      <4>3. \A part \in {1, 2} :
                fragments[part] \in {sync.record_fragments[part], frame.content}
        BY <4>1
      <4>4. taken = [sync EXCEPT !.record_fragments = fragments]
        BY <1>2 DEF SyncOK, Syncs
      <4> HIDE DEF fragments, taken
      <4>5. SyncOK(taken) /\ taken.pending_kind = sync.pending_kind
            /\ taken.record_fragments = fragments
        BY <1>2, <4>2, <4>4 DEF SyncOK, Syncs
      <4> QED BY <4>3, <4>5 DEF Taken
    <3>3. Taken(taken) \subseteq Seen
      BY <3>1, <3>2 DEF Seen
    <3>4. \/ sync' = sync /\ exported' = exported
          \/ /\ sync.pending_kind = "record" /\ Complete(taken.record_fragments)
             /\ CompleteRecord(taken)
          \/ sync' = taken /\ exported' = exported
      BY <2>3 DEF HandleRecord, reader, rows
    <3> HIDE DEF taken
    <3>5. CASE sync' = sync /\ exported' = exported
      BY <1>2, <3>5 DEF Seen
    <3>6. CASE /\ sync.pending_kind = "record" /\ Complete(taken.record_fragments)
               /\ CompleteRecord(taken)
      <4>1. /\ SyncOK(sync') /\ exported' \subseteq Records
            /\ Taken(sync') = {}
            /\ exported' \subseteq exported \cup Taken(taken)
        BY <3>2, <3>3, <3>6, RecordSeen
      <4> QED BY <3>3, <4>1 DEF Seen
    <3>7. CASE sync' = taken /\ exported' = exported
      BY <1>2, <3>2, <3>3, <3>7 DEF Seen
    <3> QED BY <3>4, <3>5, <3>6, <3>7
  <2> QED BY <1>1, <2>1, <2>2, <2>3
<1>5. Carried(toReader') \subseteq Seen
  BY <1>3 DEF Seen
<1> QED BY <1>1, <1>3, <1>4, <1>5 DEF ReaderInv, SeenStep, Seen

\* A step of the reader alone, a reset or a reconnection shows it no record.
LEMMA OthersSeen ==
    ASSUME RingInv, ReaderInv,
           \/ LogEvent \/ Reset \/ RequestInfo \/ RequestRecord \/ Timeout
           \/ HeartbeatTimeout \/ Heartbeat \/ DelayHeartbeat
           \/ HandleDelayedHeartbeat \/ Reconnect \/ Lose \/ UNCHANGED vars
    PROVE  ReaderInv' /\ Seen' \subseteq Seen
<1>1. /\ toDevice \in Seq(RequestFrames) /\ toReader \in Seq(ResponseFrames)
      /\ heartbeat \in Beats \cup {None} /\ SyncOK(sync)
      /\ exported \subseteq Records
  BY DEF ReaderInv
<1>2. CASE LogEvent \/ UNCHANGED vars
  BY <1>2 DEF LogEvent, vars, bus, reader, rows, ReaderInv, Seen
<1>3. CASE Reset
  <2>1. PICK n \in 0 .. Len(toReader) : toReader' = SubSeq(toReader, 1, n)
    BY <1>3 DEF Reset
  <2>2. /\ toReader' \in Seq(ResponseFrames)
        /\ Carried(toReader') \subseteq Carried(toReader)
    BY <1>1, <2>1, CarriedIs
  <2>3. /\ toDevice' = <<>> /\ heartbeat' \in {heartbeat, None}
        /\ UNCHANGED reader
    BY <1>3 DEF Reset
  <2> QED BY <1>1, <2>2, <2>3 DEF ReaderInv, Seen, reader, rows
<1>4. CASE RequestInfo
  <2>1. /\ sync' = InfoRequested(sync) /\ UNCHANGED <<toReader, heartbeat, exported>>
        /\ toDevice' = Append(toDevice, [kind |-> "info", sequence |-> 0])
    BY <1>4 DEF RequestInfo, rows
  <2>2. [kind |-> "info", sequence |-> 0] \in RequestFrames
    BY NumbersAre DEF RequestFrames
  <2>3. toDevice' \in Seq(RequestFrames)
    BY <1>1, <2>1, <2>2
  <2>4. SyncOK(sync') /\ Taken(sync') = Taken(sync)
    BY <1>1, <2>1, RequestsKeepSync, TakenIs
  <2> QED BY <1>1, <2>1, <2>3, <2>4 DEF ReaderInv, Seen
<1>5. CASE RequestRecord
  <2> DEFINE request == [kind |-> "record",
                         sequence |-> sync.next_sequence % SequenceModulus]
  <2>1. /\ WantsRecord(sync) /\ sync' = RecordRequested(sync)
        /\ UNCHANGED <<toReader, heartbeat, exported>>
        /\ toDevice' = Append(toDevice, request)
    BY <1>5 DEF RequestRecord
  <2>2. sync.next_sequence \in Computed
    BY <1>1, <2>1 DEF WantsRecord, SyncOK, Syncs
  <2>3. request \in RequestFrames
    BY <2>2, NumbersAre DEF RequestFrames
  <2> HIDE DEF request
  <2>4. toDevice' \in Seq(RequestFrames)
    BY <1>1, <2>1, <2>3
  <2>5. SyncOK(sync') /\ Taken(sync') = {}
    BY <1>1, <2>1, RequestsKeepSync, TakenIs
  <2> QED BY <1>1, <2>1, <2>4, <2>5 DEF ReaderInv, Seen
<1>6. CASE Timeout
  <2>1. sync' = RequestTimedOut(sync) /\ UNCHANGED <<bus, exported>>
    BY <1>6 DEF Timeout, rows
  <2>2. SyncOK(sync') /\ Taken(sync') = {}
    BY <1>1, <2>1, RequestsKeepSync, TakenIs
  <2> QED BY <1>1, <2>1, <2>2 DEF ReaderInv, Seen, bus
<1>7. CASE HeartbeatTimeout
  <2>1. /\ sync' = [sync EXCEPT !.heartbeat_timeout_active = TRUE]
        /\ UNCHANGED <<bus, exported>>
    BY <1>7 DEF HeartbeatTimeout, rows
  <2>2. SyncOK(sync') /\ Taken(sync') = Taken(sync)
    BY <1>1, <2>1, RequestsKeepSync, TakenIs
  <2> QED BY <1>1, <2>1, <2>2 DEF ReaderInv, Seen, bus
<1>8. CASE Heartbeat \/ HandleDelayedHeartbeat
  <2>1. PICK beat \in Beats : sync' = HeartbeatHandled(sync, beat)
    BY <1>1, <1>8, InfoIs DEF Heartbeat, HandleDelayedHeartbeat
  <2>2. SyncOK(sync') /\ Taken(sync') = Taken(sync)
    <3>1. SyncOK(sync')
      BY <1>1, <2>1, HeartbeatKeepsSync
    <3>2. Taken(HeartbeatHandled(sync, beat)) = Taken(sync)
      BY <1>1, TakenIs
    <3> QED BY <2>1, <3>1, <3>2
  <2>3. /\ UNCHANGED <<toDevice, toReader, exported>>
        /\ heartbeat' \in {heartbeat, None}
    BY <1>8 DEF Heartbeat, HandleDelayedHeartbeat, bus, rows
  <2> QED BY <1>1, <2>2, <2>3 DEF ReaderInv, Seen
<1>9. CASE DelayHeartbeat
  <2>1. heartbeat' \in Beats /\ UNCHANGED <<toDevice, toReader, sync, exported>>
    BY <1>9, InfoIs DEF DelayHeartbeat, reader, rows
  <2> QED BY <1>1, <2>1 DEF ReaderInv, Seen
<1>10. CASE Reconnect
  <2>1. sync' = ResetSync /\ exported' = {} /\ UNCHANGED bus
    BY <1>10 DEF Reconnect
  <2>2. SyncOK(sync') /\ Taken(sync') = {}
    BY <1>1, <2>1, ResetSyncIs, TakenIs
  <2> QED BY <1>1, <2>1, <2>2 DEF ReaderInv, Seen, bus
<1>11. CASE Lose
  <2>1. /\ toReader # <<>> /\ toReader' = Tail(toReader)
        /\ UNCHANGED <<toDevice, heartbeat, sync, exported>>
    BY <1>11 DEF Lose, reader, rows
  <2>2. /\ toReader' \in Seq(ResponseFrames)
        /\ Carried(toReader') \subseteq Carried(toReader)
    BY <1>1, <2>1, CarriedIs
  <2> QED BY <1>1, <2>1, <2>2 DEF ReaderInv, Seen
<1> QED BY <1>2, <1>3, <1>4, <1>5, <1>6, <1>7, <1>8, <1>9, <1>10, <1>11

\* In every reachable state the frames under way, the reader and its files hold
\* what the code can put in them.
THEOREM ReaderInvariance == Spec => []ReaderInv
<1>1. Init => ReaderInv
  BY ResetSyncIs DEF Init, ReaderInv
<1>2. RingInv /\ ReaderInv /\ [Next]_vars => ReaderInv'
  <2> SUFFICES ASSUME RingInv, ReaderInv, [Next]_vars
               PROVE  ReaderInv'
    OBVIOUS
  <2>1. CASE Answer
    BY <2>1, AnswerSeen
  <2>2. CASE HandleResponse
    BY <2>2, ResponseSeen
  <2>3. CASE ~Answer /\ ~HandleResponse
    BY <2>3, OthersSeen DEF Next
  <2> QED BY <2>1, <2>2, <2>3
<1> QED BY <1>1, <1>2, RingInvariance, PTL DEF Spec

\* The invariants of the ring and of the reader bound every variable.
LEMMA TypesAre ==
    ASSUME RingInv, ReaderInv
    PROVE  TypeOK
<1>1. \A i \in Indices :
          /\ slots[i].body \in Records \cup {Blank}
          /\ slots[i].commit \in {slots[i].body, Blank}
  BY DEF RingInv, RAM, Slots
<1>2. /\ head_index \in Indices /\ tail_index \in Indices
      /\ next_sequence \in Sequences
  <2>1. 0 \in Indices /\ 1 \in Sequences
    BY CapacityAssumption, ModulusAssumption DEF Indices, Sequences
  <2>2. CASE storage_ready
    <3>1. ASSUME NEW newest \in Indices, NEW run \in 1 .. Capacity,
                 slots[newest].body.sequence \in Sequences,
                 head_index = After(newest),
                 tail_index = Back(After(newest), run),
                 next_sequence = Following(slots[newest].body.sequence)
          PROVE  /\ head_index \in Indices /\ tail_index \in Indices
                 /\ next_sequence \in Sequences
      <4>1. run \in 0 .. Capacity
        BY CapacityAssumption
      <4> QED BY <3>1, <4>1, AfterIs, BackIs, FollowingIs
    <3> QED BY <2>1, <2>2, <3>1, RingCases
  <2>3. CASE ~storage_ready
    BY <2>1, <2>3 DEF RingInv, RingIs, Nothing
  <2> QED BY <2>2, <2>3
<1>3. count \in 0 .. Capacity
  BY LiveIs
<1>4. storage_ready \in BOOLEAN
  BY DEF RingInv
<1>5. /\ sync.pending_kind \in {"none", "info", "record"}
      /\ sync.pending_kind = "record" <=> sync.pending_sequence # None
      /\ sync.next_sequence \in ReaderSequences \cup {None}
      /\ sync.saved_sequences \subseteq Sequences
      /\ \A sequence \in ReaderSequences :
            sync.record_retries[sequence] \in 0 .. MaxRecordRetries
  BY NumbersAre DEF ReaderInv, SyncOK, Syncs
<1> QED BY <1>1, <1>2, <1>3, <1>4, <1>5 DEF TypeOK, Sequences

\* In every reachable state the ring index and count are in range, no word of a
\* slot is committed for another record, and no record is asked for more often
\* than the limit.
THEOREM TypeCorrect == Spec => []TypeOK
BY RingInvariance, ReaderInvariance, TypesAre, PTL

-----------------------------------------------------------------------------
(* The rows of the reader.                                                 *)

\* The records of a run are in its slots, the newest at its end.
LEMMA HeldInRun ==
    ASSUME NEW retained \in RAM, NEW newest \in Indices,
           NEW run \in 1 .. Capacity, Window(retained, newest, run)
    PROVE  /\ HeldIn(retained) =
                 {retained[Back(newest, n)].body : n \in 0 .. run - 1}
           /\ retained[newest].body \in HeldIn(retained)
           /\ \A record \in HeldIn(retained) :
                 record.event <= retained[newest].body.event
<1>1. \A n \in 0 .. run - 1 :
          /\ n \in 0 .. Capacity - 1
          /\ Back(newest, n) \in Indices /\ Valid(retained[Back(newest, n)])
  BY BackOfAfter, CapacityAssumption DEF Window
<1>2. \A i \in Indices : Valid(retained[i]) =>
          /\ Age(newest, i) \in 0 .. run - 1
          /\ Back(newest, Age(newest, i)) = i
  BY WindowIs, AgeIs, CapacityAssumption
<1>3. HeldIn(retained) = {retained[Back(newest, n)].body : n \in 0 .. run - 1}
  <2>1. ASSUME NEW record \in HeldIn(retained)
        PROVE  \E n \in 0 .. run - 1 : record = retained[Back(newest, n)].body
    BY <1>2, <2>1 DEF HeldIn
  <2>2. ASSUME NEW n \in 0 .. run - 1
        PROVE  retained[Back(newest, n)].body \in HeldIn(retained)
    BY <1>1, <2>2 DEF HeldIn
  <2> QED BY <2>1, <2>2
<1>4. 0 \in 0 .. run - 1 /\ Back(newest, 0) = newest
  BY BackOfAfter, CapacityAssumption
<1>5. retained[newest].body \in HeldIn(retained)
  BY <1>3, <1>4
<1>6. ASSUME NEW n \in 0 .. run - 1
      PROVE  retained[Back(newest, n)].body.event <= retained[newest].body.event
  <2>1. /\ retained[Back(newest, n)].body.event \in 1 .. MaxEvents
        /\ retained[newest].body.event \in 1 .. MaxEvents
    BY <1>1, <1>4, ValidRecord
  <2>2. CASE n = 0
    BY <1>4, <2>1, <2>2
  <2>3. CASE n # 0
    <3>1. 0 < n
      BY <2>3
    <3>2. retained[Back(newest, n)].body.event < retained[Back(newest, 0)].body.event
      BY <1>4, <3>1 DEF Window
    <3> QED BY <1>4, <2>1, <3>2
  <2> QED BY <2>2, <2>3
<1> QED BY <1>3, <1>5, <1>6

\* A run that does not straddle the wrap is numbered without a gap up to its
\* newest record.
LEMMA RunInOrder ==
    ASSUME RingInv, storage_ready, ~Straddles,
           NEW newest \in Indices, NEW run \in 1 .. Capacity,
           Window(slots, newest, run), count = run
    PROVE  LET sequence == slots[newest].body.sequence
           IN  /\ sequence \in Sequences /\ run <= sequence
               /\ Info = [count |-> run, oldest |-> sequence - run + 1,
                          latest |-> sequence]
               /\ \A n \in 0 .. run - 1 :
                     slots[Back(newest, n)].body.sequence = sequence - n
<1> DEFINE sequence == slots[newest].body.sequence
           at(n) == slots[Back(newest, n)].body
<1>1. slots \in RAM
  BY DEF RingInv
<1>2. sequence \in Sequences
  BY <1>1, WindowIs
<1>3. /\ Info = [count |-> run, oldest |-> Before(sequence, run - 1),
                  latest |-> sequence]
      /\ ~(Before(sequence, run - 1) > sequence)
  <2>1. Logged = RunLog(slots, newest, run)
    BY TheLogIs DEF LogIsRun, TheLog
  <2>2. Logged[1] = at(run - 1) /\ Logged[count] = slots[newest].body
    BY <1>1, <2>1, RunLogIs
  <2>3. count # 0 /\ run - 1 \in 0 .. run - 1
    OBVIOUS
  <2>4. Info = [count |-> run, oldest |-> at(run - 1).sequence, latest |-> sequence]
    BY <2>2, <2>3 DEF Info
  <2>5. at(run - 1).sequence = Before(sequence, run - 1)
    BY <2>3 DEF Window
  <2> QED BY <2>4, <2>5 DEF Straddles
<1>4. \A n \in 0 .. run - 1 : at(n).sequence = Before(sequence, n)
  BY DEF Window
<1> HIDE DEF at, sequence
<1>5. sequence > run - 1
  BY <1>2, <1>3, CapacityAssumption, ModulusAssumption DEF Before, Sequences
<1>6. \A n \in 0 .. run - 1 : Before(sequence, n) = sequence - n
  BY <1>2, <1>5, CapacityAssumption DEF Before, Sequences
<1>7. Before(sequence, run - 1) = sequence - run + 1 /\ run <= sequence
  BY <1>2, <1>5, <1>6, CapacityAssumption DEF Sequences
<1> QED BY <1>2, <1>3, <1>4, <1>6, <1>7 DEF at, sequence

\* A log that does not straddle the wrap has its sequence numbers in the order
\* of its events.
LEMMA StoredIsOrdered == RingInv => (storage_ready /\ ~Straddles => Ordered(Stored))
<1> SUFFICES ASSUME RingInv, storage_ready, ~Straddles
             PROVE  Ordered(Stored)
  OBVIOUS
<1>1. CASE NothingValid(slots)
  BY <1>1 DEF NothingValid, Stored, HeldIn, Ordered
<1>2. CASE ~NothingValid(slots)
  <2>1. PICK newest \in Indices, run \in 1 .. Capacity :
            Window(slots, newest, run) /\ count = run
    BY <1>2, RingCases
  <2> DEFINE sequence == slots[newest].body.sequence
             at(n) == slots[Back(newest, n)].body
  <2>2. slots \in RAM
    BY DEF RingInv
  <2>3. /\ sequence \in Sequences
        /\ \A n \in 0 .. run - 1 : at(n).sequence = sequence - n
    BY <2>1, RunInOrder
  <2>4. \A m, n \in 0 .. run - 1 : m < n => at(n).event < at(m).event
    BY <2>1 DEF Window
  <2>5. \A n \in 0 .. run - 1 : at(n).event \in Int
    <3>1. \A n \in 0 .. run - 1 :
              Back(newest, n) \in Indices /\ Valid(slots[Back(newest, n)])
      BY <2>1, BackOfAfter, CapacityAssumption DEF Window
    <3> QED BY <2>2, <3>1, ValidRecord
  <2>6. Stored = {at(n) : n \in 0 .. run - 1}
    BY <2>1, <2>2, HeldInRun DEF Stored
  <2> HIDE DEF at, sequence
  <2>7. ASSUME NEW m \in 0 .. run - 1, NEW n \in 0 .. run - 1
        PROVE  at(m).event < at(n).event <=> at(m).sequence < at(n).sequence
    <3>1. at(m).sequence = sequence - m /\ at(n).sequence = sequence - n
      BY <2>3
    <3>2. /\ m < n => at(n).event < at(m).event
          /\ n < m => at(m).event < at(n).event
          /\ at(m).event \in Int /\ at(n).event \in Int
      BY <2>4, <2>5
    <3>3. m = n => at(m).event = at(n).event
      OBVIOUS
    <3> QED BY <2>3, <3>1, <3>2, <3>3 DEF Sequences
  <2> QED BY <2>6, <2>7 DEF Ordered
<1> QED BY <1>1, <1>2

\* Another content of a slot changes no other record.
LEMMA HeldAfterWrite ==
    ASSUME NEW retained \in RAM, NEW index \in Indices, NEW slot \in Slots
    PROVE  LET written == [retained EXCEPT ![index] = slot]
           IN  /\ Valid(slot) => HeldIn(written) \subseteq HeldIn(retained) \cup {slot.body}
               /\ ~Valid(slot) => HeldIn(written) \subseteq HeldIn(retained)
<1> DEFINE written == [retained EXCEPT ![index] = slot]
<1>1. \A i \in Indices : written[i] = IF i = index THEN slot ELSE retained[i]
  BY DEF RAM
<1> HIDE DEF written
<1>2. ASSUME NEW record \in HeldIn(written)
      PROVE  record \in HeldIn(retained) \/ (Valid(slot) /\ record = slot.body)
  <2>1. PICK i \in Indices : Valid(written[i]) /\ record = written[i].body
    BY <1>2 DEF HeldIn
  <2>2. CASE i = index
    BY <1>1, <2>1, <2>2
  <2>3. CASE i # index
    <3>1. Valid(retained[i]) /\ record = retained[i].body
      BY <1>1, <2>1, <2>3
    <3> QED BY <3>1 DEF HeldIn
  <2> QED BY <2>2, <2>3
<1>3. /\ Valid(slot) => HeldIn(written) \subseteq HeldIn(retained) \cup {slot.body}
      /\ ~Valid(slot) => HeldIn(written) \subseteq HeldIn(retained)
  BY <1>2
<1> QED BY <1>3 DEF written

\* The slots of the ring keep its newest record when they get the next one,
\* whole or torn.
NewestStays ==
    \/ /\ Stored = {}
       /\ Stored' = {} \/ Stored' = {NextRecord}
    \/ \E last \in Stored :
          /\ last \in Stored'
          /\ last.event < NextRecord.event
          /\ \A record \in Stored : record.event <= last.event
          /\ \/ Stored' \subseteq Stored
             \/ NextRecord \in Stored' /\ Stored' \subseteq Stored \cup {NextRecord}

\* App_Log_CommitRecord, with a reset at any of its stores, does that.
LEMMA WriteKeepsNewest ==
    ASSUME RingInv, storage_ready, events < MaxEvents,
           \/ slots' = [slots EXCEPT ![head_index] = Whole(NextRecord)]
           \/ \E torn \in Slots :
                 /\ ~Valid(torn)
                 /\ \/ slots' = [slots EXCEPT ![head_index] = torn]
                    \/ /\ NothingValid([slots EXCEPT ![head_index] = torn])
                       /\ NothingValid(slots')
    PROVE  NewestStays
<1>1. slots \in RAM /\ events \in Nat
  BY CapacityAssumption DEF RingInv
<1>2. /\ NextRecord \in Records /\ head_index \in Indices
      /\ NextRecord.sequence = next_sequence /\ NextRecord.event = events + 1
  BY NextRecordIs
<1> DEFINE whole == [slots EXCEPT ![head_index] = Whole(NextRecord)]
<1>3. /\ Whole(NextRecord) \in Slots /\ Whole(NextRecord).body = NextRecord
      /\ Valid(Whole(NextRecord))
  BY <1>2 DEF Whole, Slots, Valid, Records, Blank
<1>4. HeldIn(whole) \subseteq Stored \cup {NextRecord}
  <2> HIDE DEF whole
  <2>1. HeldIn([slots EXCEPT ![head_index] = Whole(NextRecord)])
            \subseteq HeldIn(slots) \cup {Whole(NextRecord).body}
    BY <1>1, <1>2, <1>3, HeldAfterWrite
  <2> QED BY <1>3, <2>1 DEF whole, Stored
<1>5. NextRecord \in HeldIn(whole)
  <2>1. whole[head_index] = Whole(NextRecord)
    BY <1>1, <1>2 DEF RAM
  <2> QED BY <1>2, <1>3, <2>1 DEF HeldIn
<1>6. \A torn \in Slots : ~Valid(torn) =>
          HeldIn([slots EXCEPT ![head_index] = torn]) \subseteq Stored
  BY <1>1, <1>2, HeldAfterWrite DEF Stored
<1> HIDE DEF whole
<1>7. \A retained : NothingValid(retained) => HeldIn(retained) = {}
  BY DEF NothingValid, HeldIn
<1>8. CASE NothingValid(slots)
  <2>1. Stored = {}
    BY <1>7, <1>8 DEF Stored
  <2>2. CASE slots' = whole
    BY <1>4, <1>5, <2>1, <2>2 DEF NewestStays, Stored
  <2>3. ASSUME NEW torn \in Slots, ~Valid(torn),
               \/ slots' = [slots EXCEPT ![head_index] = torn]
               \/ NothingValid(slots')
        PROVE  NewestStays
    <3>1. HeldIn(slots') = {}
      BY <1>6, <1>7, <2>1, <2>3
    <3> QED BY <2>1, <3>1 DEF NewestStays, Stored
  <2> QED BY <2>2, <2>3 DEF whole
<1>9. ASSUME NEW newest \in Indices, NEW run \in 1 .. Capacity,
             Window(slots, newest, run), slots[newest].body.event <= events,
             slots[newest].body.event \in 1 .. MaxEvents,
             head_index = After(newest)
      PROVE  NewestStays
  <2> DEFINE last == slots[newest].body
  <2>1. /\ last \in Stored
        /\ \A record \in Stored : record.event <= last.event
    BY <1>1, <1>9, HeldInRun DEF Stored
  <2>2. last.event < NextRecord.event
    BY <1>1, <1>2, <1>9
  <2>3. Valid(slots[newest]) /\ newest # After(newest)
    BY <1>1, <1>9, WindowIs, CapacityAssumption DEF After, Indices
  <2>4. ASSUME NEW slot \in Slots
        PROVE  /\ ~NothingValid([slots EXCEPT ![head_index] = slot])
               /\ last \in HeldIn([slots EXCEPT ![head_index] = slot])
    <3>1. [slots EXCEPT ![head_index] = slot][newest] = slots[newest]
      BY <1>1, <1>9, <2>3 DEF RAM
    <3> QED BY <2>3, <3>1 DEF NothingValid, HeldIn
  <2>5. CASE slots' = whole
    <3>1. last \in HeldIn(whole)
      BY <1>3, <2>4 DEF whole
    <3> HIDE DEF last
    <3> QED BY <1>4, <1>5, <2>1, <2>2, <2>5, <3>1 DEF NewestStays, Stored
  <2>6. ASSUME NEW torn \in Slots, ~Valid(torn),
               slots' = [slots EXCEPT ![head_index] = torn]
        PROVE  NewestStays
    <3>1. last \in HeldIn(slots') /\ HeldIn(slots') \subseteq Stored
      BY <1>6, <2>4, <2>6
    <3> HIDE DEF last
    <3> QED BY <2>1, <2>2, <3>1 DEF NewestStays, Stored
  <2> QED BY <2>4, <2>5, <2>6 DEF whole
<1> QED BY <1>8, <1>9, RingCases

\* In two ordered sets of which the one reaches as far as the other, the newest
\* record of the one is reached by all.
LEMMA NewestIsReached ==
    ASSUME NEW held \in SUBSET Records, NEW seen \in SUBSET Records,
           NEW last \in held,
           Ordered(held \cup seen),
           \A r \in seen : \E o \in held : Reaches(r, o),
           \A r \in held : r.event <= last.event
    PROVE  \A r \in held \cup seen : Reaches(r, last)
<1>1. ASSUME NEW r \in held PROVE Reaches(r, last)
  <2>1. /\ r.event \in Int /\ last.event \in Int
        /\ r.sequence \in Int /\ last.sequence \in Int
    BY ModulusAssumption, EventsAssumption DEF Records
  <2>2. r.event <= last.event
    OBVIOUS
  <2>3. last.event < r.event <=> last.sequence < r.sequence
    BY DEF Ordered
  <2> QED BY <2>1, <2>2, <2>3 DEF Reaches
<1>2. ASSUME NEW r \in seen PROVE Reaches(r, last)
  <2>1. PICK o \in held : Reaches(r, o)
    OBVIOUS
  <2>2. Reaches(o, last)
    BY <1>1
  <2>3. /\ r.event \in Int /\ o.event \in Int /\ last.event \in Int
        /\ r.sequence \in Int /\ o.sequence \in Int /\ last.sequence \in Int
    BY ModulusAssumption, EventsAssumption DEF Records
  <2> QED BY <2>1, <2>2, <2>3 DEF Reaches
<1> QED BY <1>1, <1>2

\* A record that is newer than all others, by its event and by its number, keeps
\* them in order.
LEMMA NewerKeepsOrder ==
    ASSUME NEW records \in SUBSET Records, NEW record \in Records,
           NEW last \in Records, Ordered(records),
           \A r \in records : Reaches(r, last),
           last.event < record.event, last.sequence < record.sequence
    PROVE  /\ Ordered(records \cup {record})
           /\ \A r \in records \cup {record} : Reaches(r, record)
<1>1. \A r \in Records : r.event \in Int /\ r.sequence \in Int
  BY ModulusAssumption, EventsAssumption DEF Records
<1>2. \A r \in records : r.event < record.event /\ r.sequence < record.sequence
  BY <1>1 DEF Reaches
<1>3. \A r \in records : ~(record.event < r.event) /\ ~(record.sequence < r.sequence)
  BY <1>1, <1>2
<1>4. Ordered(records \cup {record})
  <2> SUFFICES ASSUME NEW r \in records \cup {record},
                      NEW o \in records \cup {record}
               PROVE  r.event < o.event <=> r.sequence < o.sequence
    BY DEF Ordered
  <2>1. CASE r \in records /\ o \in records
    BY <2>1 DEF Ordered
  <2>2. CASE r \in records /\ o = record
    BY <1>2, <2>2
  <2>3. CASE r = record /\ o \in records
    BY <1>3, <2>3
  <2>4. CASE r = record /\ o = record
    BY <1>1, <2>4
  <2> QED BY <2>1, <2>2, <2>3, <2>4
<1>5. \A r \in records \cup {record} : Reaches(r, record)
  BY <1>1, <1>2 DEF Reaches
<1> QED BY <1>4, <1>5

\* What the reader has seen are records.
LEMMA SeenIs ==
    ASSUME RingInv, ReaderInv
    PROVE  Seen \subseteq Records /\ Stored \subseteq Records
<1>1. Carried(toReader) \subseteq Records
  BY CarriedIs DEF ReaderInv
<1>2. Taken(sync) \subseteq Records
  BY TakenIs DEF ReaderInv
<1> QED BY <1>1, <1>2, LiveIs DEF ReaderInv, Seen

\* The rows stay in order while the slots are left alone.
LEMMA RowsOfStep ==
    ASSUME RingInv, Rows, UNCHANGED logVars, SeenStep
    PROVE  Rows'
<1>1. Stored' = Stored /\ storage_ready' = storage_ready
  BY DEF logVars, ring, Stored
<1>2. /\ Live \subseteq Stored /\ (~storage_ready => Live = {})
      /\ Stored \subseteq Records
  BY LiveIs
<1>3. Ordered(Stored) => Seen' \subseteq Stored \cup Seen
  BY <1>2 DEF SeenStep
<1>4. Ordered(Seen')
  <2>1. CASE storage_ready
    BY <1>3, <2>1 DEF Rows, Ordered
  <2>2. CASE ~storage_ready
    BY <1>2, <2>2 DEF Rows, Ordered, SeenStep
  <2> QED BY <2>1, <2>2 DEF RingInv
<1>5. ASSUME Ordered(Stored)
      PROVE  /\ Ordered(Stored \cup Seen')
             /\ \A r \in Seen' : \E o \in Stored : Reaches(r, o)
  <2>1. Ordered(Stored \cup Seen')
    BY <1>3, <1>5 DEF Rows, Ordered
  <2>2. \A r \in Stored : Reaches(r, r)
    BY <1>2, ModulusAssumption, EventsAssumption DEF Reaches, Records
  <2> QED BY <1>3, <1>5, <2>1, <2>2 DEF Rows
<1> QED BY <1>1, <1>4, <1>5 DEF Rows

\* They stay in order when a record is written, whole or torn.
LEMMA RowsOfWrite ==
    ASSUME RingInv, RingInv', ReaderInv, Rows, storage_ready,
           events < MaxEvents, NewestStays,
           Seen' \subseteq Seen, storage_ready' => Ordered(Stored')
    PROVE  Rows'
<1>1. Seen \subseteq Records /\ Stored \subseteq Records /\ NextRecord \in Records
  BY SeenIs, NextRecordIs
<1>2. /\ Ordered(Stored) /\ Ordered(Stored \cup Seen)
      /\ \A r \in Seen : \E o \in Stored : Reaches(r, o)
  BY DEF Rows
<1>3. Ordered(Seen')
  BY DEF Rows, Ordered
<1>4. ASSUME Ordered(Stored')
      PROVE  /\ Ordered(Stored' \cup Seen')
             /\ \A r \in Seen' : \E o \in Stored' : Reaches(r, o)
  <2>1. CASE Stored = {}
    <3>1. Seen' = {}
      BY <1>2, <2>1
    <3> QED BY <1>4, <3>1
  <2>2. ASSUME NEW last \in Stored, last \in Stored',
               last.event < NextRecord.event,
               \A record \in Stored : record.event <= last.event,
               \/ Stored' \subseteq Stored
               \/ /\ NextRecord \in Stored'
                  /\ Stored' \subseteq Stored \cup {NextRecord}
        PROVE  /\ Ordered(Stored' \cup Seen')
               /\ \A r \in Seen' : \E o \in Stored' : Reaches(r, o)
    <3>1. \A r \in Stored \cup Seen : Reaches(r, last)
      BY <1>1, <1>2, <2>2, NewestIsReached
    <3>2. CASE Stored' \subseteq Stored
      BY <1>2, <2>2, <3>1, <3>2 DEF Ordered
    <3>3. CASE /\ NextRecord \in Stored'
               /\ Stored' \subseteq Stored \cup {NextRecord}
      <4>1. last.sequence < NextRecord.sequence
        BY <1>4, <2>2, <3>3 DEF Ordered
      <4>2. /\ Ordered((Stored \cup Seen) \cup {NextRecord})
            /\ \A r \in (Stored \cup Seen) \cup {NextRecord} : Reaches(r, NextRecord)
        BY <1>1, <1>2, <2>2, <3>1, <4>1, NewerKeepsOrder
      <4> QED BY <3>3, <4>2 DEF Ordered
    <3> QED BY <2>2, <3>2, <3>3
  <2> QED BY <2>1, <2>2 DEF NewestStays
<1> QED BY <1>3, <1>4 DEF Rows

\* A reset at rest leaves the records in the RAM.
LEMMA RestKeepsStored ==
    ASSUME RingInv, ResetAtRest
    PROVE  Stored' = Stored
<1>1. slots' = slots \/ (NothingValid(slots) /\ NothingValid(slots'))
  BY InitAfterReset DEF ResetAtRest, RingInv
<1>2. CASE slots' = slots
  BY <1>2 DEF Stored
<1>3. CASE NothingValid(slots) /\ NothingValid(slots')
  BY <1>3 DEF NothingValid, Stored, HeldIn
<1> QED BY <1>1, <1>2, <1>3

\* What a reset finds at rest is what there was.
LEMMA RowsOfReset ==
    ASSUME RingInv, Rows, ResetAtRest, Seen' \subseteq Seen,
           storage_ready' => Ordered(Stored')
    PROVE  Rows'
  BY RestKeepsStored DEF Rows, Ordered

\* A step keeps the rows in order, or the sequence numbers wrap.
LEMMA StepKeepsRows ==
    ASSUME RingInv, RingInv', ReaderInv, [Next]_vars, RowsInv
    PROVE  RowsInv'
<1> SUFFICES ASSUME ~wrapped' PROVE Rows'
  BY DEF RowsInv
<1>1. CASE LogEvent \/ Reset
  <2>1. wrapped' = (wrapped \/ Straddles')
    BY <1>1 DEF LogEvent, Reset
  <2>2. Rows /\ ~Straddles'
    BY <2>1, Zenon DEF RowsInv
  <2>3. storage_ready' => Ordered(Stored')
    <3>1. (storage_ready /\ ~Straddles => Ordered(Stored))'
      BY StoredIsOrdered, PTL
    <3> QED BY <2>2, <3>1
  <2>4. Seen' \subseteq Seen
    BY <1>1, OthersSeen
  <2>5. CASE LogEvent
    BY <2>2, <2>3, <2>4, <2>5, PushKeepsRing, WriteKeepsNewest, RowsOfWrite
    DEF LogEvent
  <2>6. CASE Reset /\ ResetAtRest
    BY <2>2, <2>3, <2>4, <2>6, RowsOfReset
  <2>7. CASE Reset /\ ResetInPush
    BY <2>2, <2>3, <2>4, <2>7, ResetInPushIs, WriteKeepsNewest, RowsOfWrite
  <2> QED BY <1>1, <2>5, <2>6, <2>7 DEF Reset
<1>2. CASE ~LogEvent /\ ~Reset
  <2>1. wrapped' = wrapped /\ UNCHANGED logVars
    BY <1>2 DEF Next, Answer, RequestInfo, RequestRecord, Timeout,
         HeartbeatTimeout, Heartbeat, DelayHeartbeat, HandleDelayedHeartbeat,
         HandleResponse, Reconnect, Lose, vars, bounds
  <2>2. SeenStep
    <3>1. CASE Answer
      BY <3>1, AnswerSeen
    <3>2. CASE HandleResponse
      BY <3>2, ResponseSeen
    <3>3. CASE ~Answer /\ ~HandleResponse
      <4>1. Seen' \subseteq Seen
        BY <1>2, <3>3, OthersSeen DEF Next
      <4> QED BY <4>1 DEF SeenStep
    <3> QED BY <3>1, <3>2, <3>3
  <2> QED BY <2>1, <2>2, RowsOfStep DEF RowsInv
<1> QED BY <1>1, <1>2

\* In every reachable state what the reader has seen is in one order with what
\* the ring holds, which reaches as far, as long as the numbers have not wrapped.
THEOREM RowsInvariance == Spec => []RowsInv
<1>1. Init => RowsInv
  <2> SUFFICES ASSUME Init, ~wrapped PROVE Rows
    BY DEF RowsInv
  <2>1. RingInv /\ storage_ready /\ ~Straddles
    BY RingAtFirst DEF Init, InitLog
  <2>2. Ordered(Stored)
    BY <2>1, StoredIsOrdered
  <2>3. Seen = {}
    <3>1. Carried(toReader) = {}
      <4>1. <<>> \in Seq(ResponseFrames) /\ toReader = <<>>
        BY DEF Init
      <4> QED BY <4>1, CarriedIs
    <3>2. Taken(sync) = {}
      BY ResetSyncIs, TakenIs DEF Init
    <3> QED BY <3>1, <3>2 DEF Init, Seen
  <2> QED BY <2>2, <2>3 DEF Rows, Ordered
<1>2. RingInv /\ RingInv' /\ ReaderInv /\ RowsInv /\ [Next]_vars => RowsInv'
  BY StepKeepsRows
<1> QED BY <1>1, <1>2, RingInvariance, ReaderInvariance, PTL DEF Spec

\* The rows in the files tell the events in the order they happened, whatever
\* was lost, late or torn, as long as the sequence numbers have not wrapped.
THEOREM RowsAreInOrder == Spec => []RowsInOrder
<1>1. RowsInv => RowsInOrder
  BY DEF RowsInv, Rows, Ordered, Seen, RowsInOrder
<1> QED BY <1>1, RowsInvariance, PTL

-----------------------------------------------------------------------------
(* What the reader has passed.                                             *)

\* The log has given out a number, and its records are not before another one.
Reached(records, q) == q <= 0 \/ \E o \in records : q <= o.sequence
From(records, n) == \A r \in records : n <= r.sequence

\* The reader may go on at a number: it is at most the one that follows the
\* newest record, and no record before it is open.
Passed(records, open, n) == Reached(records, n - 1) /\ From(open, n)

\* An information or a heartbeat, from whenever it is, tells of nothing that is
\* newer than the log, and of nothing that is before its oldest record.
Tells(records, oldest, latest, number) ==
    /\ number = 0 => latest = 0
    /\ number # 0 => oldest <= latest /\ From(records, oldest)
    /\ Reached(records, latest)
TellsInfo(records, info) == Tells(records, info.oldest, info.latest, info.count)
TellsBeat(records, beat) ==
    Tells(records, beat.latest - beat.count + 1, beat.latest, beat.count)

\* The records that are neither in the files nor given up.
Open == {r \in Stored : r \notin exported /\ r.sequence \notin skipped}

Heard(s) == {s.info_fragments[1], s.info_fragments[2]} \ {None}

\* Wherever the reader may go on, it has passed what is before.
SyncFollows(records, open, s) ==
    /\ Reached(records, s.latest_sequence)
    /\ s.next_sequence # None => Passed(records, open, s.next_sequence)
    /\ s.pending_sequence # None =>
          /\ Passed(records, open, s.pending_sequence)
          /\ Reached(records, s.pending_sequence)
    /\ s.last_saved_sequence # 0 =>
          Passed(records, open, s.last_saved_sequence + 1)
    /\ \A info \in Heard(s) : TellsInfo(records, info)

\* Without a record to go on at, the reader has been told of an empty log.
WasEmpty ==
    /\ sync.bootstrap_complete /\ ~sync.info_required /\ ~mixed
    /\ sync.next_sequence = None
    => sync.latest_sequence = 0

Follows ==
    /\ SyncFollows(Stored, Open, sync)
    /\ \A info \in Contents("info", toReader) : TellsInfo(Stored, info)
    /\ heartbeat # None => TellsBeat(Stored, heartbeat)
    /\ \A q \in sync.saved_sequences : \E row \in exported : row.sequence = q
    /\ WasEmpty

\* While the numbers have not wrapped, the reader follows the log.
FollowInv ==
    /\ Straddles => wrapped
    /\ ~wrapped /\ Ordered(Stored) => Follows

\* The records change from one set to another, whose new ones are newer.
Grows(before, after) ==
    /\ \A o \in before : \E p \in after : o.sequence <= p.sequence
    /\ \A r \in after \ before : \A o \in before : o.sequence < r.sequence

\* What has been reached, passed and told stays so while the log grows.
LEMMA GrowthKeeps ==
    ASSUME NEW before \in SUBSET Records, NEW after \in SUBSET Records,
           Grows(before, after),
           NEW open \in SUBSET before, NEW left \in SUBSET after,
           left \subseteq open \cup (after \ before)
    PROVE  /\ \A q \in Int : Reached(before, q) => Reached(after, q)
           /\ \A n \in Int : Passed(before, open, n) => Passed(after, left, n)
           /\ \A oldest, latest \in Int : \A number :
                 Tells(before, oldest, latest, number) =>
                 Tells(after, oldest, latest, number)
<1>1. \A r \in before \cup after : r.sequence \in Nat /\ r.sequence >= 1
  BY ModulusAssumption DEF Records
<1>2. ASSUME NEW q \in Int, Reached(before, q) PROVE Reached(after, q)
  <2>1. CASE q <= 0
    BY <2>1 DEF Reached
  <2>2. ASSUME NEW o \in before, q <= o.sequence PROVE Reached(after, q)
    <3>1. PICK p \in after : o.sequence <= p.sequence
      BY DEF Grows
    <3>2. q <= p.sequence
      BY <1>1, <2>2, <3>1
    <3> QED BY <3>2 DEF Reached
  <2> QED BY <1>2, <2>1, <2>2 DEF Reached
<1>3. ASSUME NEW n \in Int, Reached(before, n - 1), NEW r \in after \ before
      PROVE  n <= r.sequence
  <2>1. CASE n - 1 <= 0
    BY <1>1, <2>1
  <2>2. ASSUME NEW o \in before, n - 1 <= o.sequence PROVE n <= r.sequence
    <3>1. o.sequence < r.sequence
      BY DEF Grows
    <3> QED BY <1>1, <2>2, <3>1
  <2> QED BY <1>3, <2>1, <2>2 DEF Reached
<1>4. ASSUME NEW n \in Int, Passed(before, open, n) PROVE Passed(after, left, n)
  <2>1. Reached(before, n - 1) /\ n - 1 \in Int
    BY <1>4 DEF Passed
  <2>2. \A r \in left : n <= r.sequence
    BY <1>3, <1>4, <2>1 DEF Passed, From
  <2> QED BY <1>2, <2>1, <2>2 DEF Passed, From
<1>5. ASSUME NEW oldest \in Int, NEW latest \in Int, NEW number,
             Tells(before, oldest, latest, number)
      PROVE  Tells(after, oldest, latest, number)
  <2>1. Reached(after, latest)
    BY <1>2, <1>5 DEF Tells
  <2>2. ASSUME number # 0 PROVE From(after, oldest)
    <3>1. oldest <= latest /\ From(before, oldest) /\ Reached(before, latest)
      BY <1>5, <2>2 DEF Tells
    <3>2. Reached(before, oldest - 1) /\ oldest - 1 \in Int
      BY <1>1, <3>1 DEF Reached
    <3> QED BY <1>3, <3>1, <3>2 DEF From
  <2> QED BY <1>5, <2>1, <2>2 DEF Tells
<1> QED BY <1>2, <1>4, <1>5

\* The information that a channel carries.
LEMMA InformedIs ==
    ASSUME NEW channel \in Seq(ResponseFrames)
    PROVE  Contents("info", channel) \subseteq Infos
<1>1. \A i \in 1 .. Len(channel) : channel[i] \in ResponseFrames
  OBVIOUS
<1> QED BY <1>1 DEF Contents, ResponseFrames

\* The numbers of the reader are integers.
LEMMA SyncNumbers ==
    ASSUME NEW s, SyncOK(s)
    PROVE  /\ s.latest_sequence \in Nat /\ s.last_saved_sequence \in Nat
           /\ s.next_sequence # None => s.next_sequence \in Int
           /\ s.pending_sequence # None => s.pending_sequence \in Int
           /\ Heard(s) \subseteq Infos
           /\ \A info \in Infos : /\ info.oldest \in Int /\ info.latest \in Nat
                                  /\ info.count \in 0 .. Capacity
           /\ \A beat \in Beats : /\ beat.latest \in Nat
                                  /\ beat.count \in 0 .. Capacity
                                  /\ beat.latest - beat.count + 1 \in Int
<1>1. s \in Syncs
  BY DEF SyncOK
<1>2. Heard(s) \subseteq Infos
  BY <1>1 DEF Heard, Syncs
<1>3. Numbers \subseteq Nat /\ Capacity \in Nat
  BY CapacityAssumption DEF Numbers
<1> QED BY <1>1, <1>2, <1>3, NumbersAre DEF Syncs, Infos, Beats

\* The reader follows a log that grows.
LEMMA SyncFollowsGrowth ==
    ASSUME NEW before \in SUBSET Records, NEW after \in SUBSET Records,
           Grows(before, after),
           NEW open \in SUBSET before, NEW left \in SUBSET after,
           left \subseteq open \cup (after \ before),
           NEW s, SyncOK(s), SyncFollows(before, open, s)
    PROVE  SyncFollows(after, left, s)
<1>1. /\ \A q \in Int : Reached(before, q) => Reached(after, q)
      /\ \A n \in Int : Passed(before, open, n) => Passed(after, left, n)
      /\ \A oldest, latest \in Int : \A number :
            Tells(before, oldest, latest, number) =>
            Tells(after, oldest, latest, number)
  BY GrowthKeeps
<1>2. \A info \in Heard(s) : TellsInfo(after, info)
  BY <1>1, SyncNumbers DEF SyncFollows, TellsInfo
<1>3. s.last_saved_sequence + 1 \in Int
  BY SyncNumbers
<1> QED BY <1>1, <1>2, <1>3, SyncNumbers DEF SyncFollows

\* The steps of the reader that move it nowhere, but for its next record.
LEMMA RequestsFollow ==
    ASSUME NEW records, NEW open, NEW s, SyncOK(s),
           SyncFollows(records, open, s), records \subseteq Records
    PROVE  /\ SyncFollows(records, open, InfoRequested(s))
           /\ WantsRecord(s) => SyncFollows(records, open, RecordRequested(s))
           /\ SyncFollows(records, open, RequestTimedOut(s))
           /\ SyncFollows(records, open, ErrorHandled(s))
           /\ SyncFollows(records, open, RecordTaken(s))
           /\ SyncFollows(records, open, [s EXCEPT !.heartbeat_timeout_active = TRUE])
<1>1. s \in Syncs
  BY DEF SyncOK
<1>2. NoFragments[1] = None /\ NoFragments[2] = None
  BY DEF NoFragments
<1>3. SyncFollows(records, open, InfoRequested(s))
  <2> DEFINE t == InfoRequested(s)
  <2>1. /\ t.latest_sequence = s.latest_sequence
        /\ t.next_sequence = s.next_sequence
        /\ t.last_saved_sequence = s.last_saved_sequence
        /\ t.pending_sequence = None /\ t.info_fragments = NoFragments
    BY <1>1 DEF InfoRequested, Syncs
  <2> HIDE DEF t
  <2>9. SyncFollows(records, open, t)
    BY <1>2, <2>1 DEF SyncFollows, Heard
  <2> QED BY <2>9 DEF t
<1>4. ASSUME WantsRecord(s)
      PROVE  SyncFollows(records, open, RecordRequested(s))
  <2> DEFINE t == RecordRequested(s)
  <2>1. /\ t.latest_sequence = s.latest_sequence
        /\ t.next_sequence = s.next_sequence
        /\ t.last_saved_sequence = s.last_saved_sequence
        /\ t.pending_sequence = s.next_sequence
        /\ t.info_fragments = s.info_fragments
    BY <1>1 DEF RecordRequested, Syncs
  <2>2. /\ s.next_sequence \in Int /\ s.latest_sequence \in Int
        /\ s.next_sequence <= s.latest_sequence /\ s.next_sequence # None
    BY <1>4, SyncNumbers DEF WantsRecord
  <2>3. Reached(records, s.next_sequence)
    <3>1. \A o \in records : o.sequence \in Int
      BY ModulusAssumption DEF Records
    <3> QED BY <2>2, <3>1 DEF SyncFollows, Reached
  <2> HIDE DEF t
  <2>9. SyncFollows(records, open, t)
    BY <2>1, <2>2, <2>3 DEF SyncFollows, Heard
  <2> QED BY <2>9 DEF t
<1>5. SyncFollows(records, open, RequestTimedOut(s))
  <2> DEFINE t == RequestTimedOut(s)
  <2>1. /\ t.latest_sequence = s.latest_sequence
        /\ t.next_sequence = s.next_sequence
        /\ t.last_saved_sequence = s.last_saved_sequence
        /\ t.pending_sequence = None /\ t.info_fragments = NoFragments
    BY <1>1 DEF RequestTimedOut, Syncs
  <2> HIDE DEF t
  <2>9. SyncFollows(records, open, t)
    BY <1>2, <2>1 DEF SyncFollows, Heard
  <2> QED BY <2>9 DEF t
<1>6. SyncFollows(records, open, ErrorHandled(s))
  <2> DEFINE t == ErrorHandled(s)
  <2>1. /\ t.latest_sequence = s.latest_sequence
        /\ t.next_sequence = None
        /\ t.last_saved_sequence = s.last_saved_sequence
        /\ t.pending_sequence = None /\ t.info_fragments = s.info_fragments
    BY <1>1 DEF ErrorHandled, Syncs
  <2> HIDE DEF t
  <2>9. SyncFollows(records, open, t)
    BY <2>1 DEF SyncFollows, Heard
  <2> QED BY <2>9 DEF t
<1>7. SyncFollows(records, open, RecordTaken(s))
  <2> DEFINE t == RecordTaken(s)
  <2>1. /\ t.latest_sequence = s.latest_sequence
        /\ t.next_sequence = s.next_sequence
        /\ t.last_saved_sequence = s.last_saved_sequence
        /\ t.pending_sequence = None /\ t.info_fragments = s.info_fragments
    BY <1>1 DEF RecordTaken, Syncs
  <2> HIDE DEF t
  <2>9. SyncFollows(records, open, t)
    BY <2>1 DEF SyncFollows, Heard
  <2> QED BY <2>9 DEF t
<1>8. SyncFollows(records, open, [s EXCEPT !.heartbeat_timeout_active = TRUE])
  BY <1>1 DEF SyncFollows, Heard, Syncs
<1> QED BY <1>3, <1>4, <1>5, <1>6, <1>7, <1>8

\* _handle_heartbeat goes on at the next record, or at the oldest of the log.
LEMMA HeartbeatFollows ==
    ASSUME NEW records, NEW open, NEW s, SyncOK(s), NEW beat \in Beats,
           open \subseteq records, records \subseteq Records,
           SyncFollows(records, open, s), TellsBeat(records, beat)
    PROVE  SyncFollows(records, open, HeartbeatHandled(s, beat))
<1> DEFINE t == HeartbeatHandled(s, beat)
           requested == Requested(s, beat)
<1>1. s \in Syncs
  BY DEF SyncOK
<1>2. /\ t.last_saved_sequence = s.last_saved_sequence
      /\ t.pending_sequence = s.pending_sequence
      /\ t.info_fragments = s.info_fragments
      /\ \/ t.next_sequence \in {s.next_sequence, None}
            /\ t.latest_sequence = s.latest_sequence
         \/ /\ t.next_sequence = requested
            /\ t.latest_sequence = beat.latest
            /\ ~(beat.latest = s.latest_sequence)
            /\ ~(beat.latest < s.latest_sequence)
  BY <1>1 DEF HeartbeatHandled, Syncs
<1>3. ASSUME t.next_sequence \in {s.next_sequence, None},
             t.latest_sequence = s.latest_sequence
      PROVE  SyncFollows(records, open, t)
  <2> HIDE DEF t
  <2> QED BY <1>2, <1>3 DEF SyncFollows, Heard
<1>4. ASSUME t.next_sequence = requested,
             t.latest_sequence = beat.latest,
             ~(beat.latest = s.latest_sequence),
             ~(beat.latest < s.latest_sequence)
      PROVE  SyncFollows(records, open, t)
  <2>1. /\ beat.latest \in Nat /\ s.latest_sequence \in Nat
        /\ beat.count \in 0 .. Capacity /\ s.last_saved_sequence \in Nat
    BY SyncNumbers
  <2>2. beat.count # 0 /\ Reached(records, beat.latest)
    BY <1>4, <2>1 DEF TellsBeat, Tells
  <2>3. Passed(records, open, requested)
    <3>1. CASE s.next_sequence # None
      BY <3>1 DEF Requested, SyncFollows
    <3>2. CASE s.next_sequence = None /\ s.last_saved_sequence > 0
      BY <2>1, <3>2 DEF Requested, SyncFollows
    <3>3. CASE s.next_sequence = None /\ ~(s.last_saved_sequence > 0)
      <4> DEFINE oldest == beat.latest - beat.count + 1
      <4>1. requested = oldest
        BY <3>3 DEF Requested
      <4>2. From(records, oldest) /\ oldest <= beat.latest /\ oldest \in Int
        BY <2>1, <2>2, CapacityAssumption DEF TellsBeat, Tells
      <4> HIDE DEF oldest
      <4>3. \A o \in records : o.sequence \in Int
        BY ModulusAssumption DEF Records
      <4>4. Reached(records, oldest - 1)
        BY <2>1, <2>2, <4>2, <4>3 DEF Reached
      <4>5. From(open, oldest)
        BY <4>2 DEF From
      <4> HIDE DEF requested
      <4> QED BY <4>1, <4>4, <4>5 DEF Passed
    <3> QED BY <3>1, <3>2, <3>3
  <2> HIDE DEF t, requested
  <2> QED BY <1>2, <1>4, <2>2, <2>3 DEF SyncFollows, Heard
<1> QED BY <1>2, <1>3, <1>4

\* _complete_info goes on at the next record, or at the oldest that it was told.
LEMMA InfoFollows ==
    ASSUME NEW records, NEW open, NEW s, SyncOK(s),
           s.pending_kind = "info", Complete(s.info_fragments),
           open \subseteq records, records \subseteq Records,
           SyncFollows(records, open, s)
    PROVE  /\ SyncFollows(records, open, InfoCompleted(s))
           /\ InfoCompleted(s).saved_sequences \subseteq s.saved_sequences
           /\ s.info_fragments[1] = s.info_fragments[2] =>
                 (/\ ~InfoCompleted(s).info_required
                  /\ InfoCompleted(s).next_sequence = None
                  => InfoCompleted(s).latest_sequence = 0)
<1> DEFINE info == s.info_fragments[1]
           told == s.info_fragments[2]
           t == InfoCompleted(s)
<1>1. s \in Syncs /\ s.pending_sequence = None
  BY DEF SyncOK
<1>2. info \in Infos /\ told \in Infos /\ info \in Heard(s) /\ told \in Heard(s)
  BY SyncNumbers DEF Complete, Heard
<1>3. TellsInfo(records, info) /\ TellsInfo(records, told)
  BY <1>2 DEF SyncFollows
<1>4. NoFragments[1] = None /\ NoFragments[2] = None
  BY DEF NoFragments
<1>5. t.pending_sequence = None /\ t.info_fragments = NoFragments
  <2> HIDE DEF NoFragments
  <2> QED BY <1>1 DEF InfoCompleted, Syncs
<1>6. \/ /\ t.last_saved_sequence = s.last_saved_sequence
         /\ t.next_sequence = s.next_sequence
         /\ t.latest_sequence = s.latest_sequence
         /\ t.saved_sequences = s.saved_sequences
         /\ t.info_required
      \/ /\ t.latest_sequence = told.latest
         /\ ~(info.count > 0 /\ info.oldest > told.latest)
         /\ \/ /\ t.last_saved_sequence = s.last_saved_sequence
               /\ t.saved_sequences = s.saved_sequences
               /\ t.next_sequence = Resumed(s.next_sequence, info)
            \/ /\ t.last_saved_sequence = 0
               /\ t.saved_sequences = {}
               /\ t.next_sequence = Resumed(None, info)
  <2> HIDE DEF NoFragments, NoRetries
  <2>1. CASE info.count > 0 /\ info.oldest > told.latest
    BY <1>1, <2>1 DEF InfoCompleted, Syncs
  <2>2. CASE ~(info.count > 0 /\ info.oldest > told.latest) /\ Restarted(s, told.latest)
    BY <1>1, <2>2 DEF InfoCompleted, Restarted, Syncs
  <2>3. CASE ~(info.count > 0 /\ info.oldest > told.latest) /\ ~Restarted(s, told.latest)
    BY <1>1, <2>3 DEF InfoCompleted, Restarted, Syncs
  <2> QED BY <2>1, <2>2, <2>3
<1>7. ASSUME NEW next \in {s.next_sequence, None}
      PROVE  /\ Resumed(next, info) # None => Passed(records, open, Resumed(next, info))
             /\ Resumed(next, info) = None => info.count = 0
  <2>1. /\ info.oldest \in Int /\ info.latest \in Nat /\ info.count \in 0 .. Capacity
        /\ None \notin Int
    BY <1>2, SyncNumbers, ReaderAssumption
  <2>2. Resumed(next, info) \in {None, info.oldest, s.next_sequence}
    BY DEF Resumed
  <2>3. ASSUME info.count # 0 PROVE Passed(records, open, info.oldest)
    <3>1. /\ From(records, info.oldest) /\ info.oldest <= info.latest
          /\ Reached(records, info.latest)
      BY <1>3, <2>3 DEF TellsInfo, Tells
    <3>2. \A o \in records : o.sequence \in Int
      BY ModulusAssumption DEF Records
    <3>3. Reached(records, info.oldest - 1)
      BY <2>1, <3>1, <3>2 DEF Reached
    <3> QED BY <3>1, <3>3 DEF Passed, From
  <2> QED BY <2>1, <2>3 DEF Resumed, SyncFollows
<1>8. Reached(records, told.latest)
  BY <1>3 DEF TellsInfo, Tells
<1>9. info = told /\ info.count = 0 => told.latest = 0
  BY <1>3 DEF TellsInfo, Tells
<1> HIDE DEF t, info, told
<1>10. SyncFollows(records, open, t)
  BY <1>4, <1>5, <1>6, <1>7, <1>8 DEF SyncFollows, Heard
<1>11. t.saved_sequences \subseteq s.saved_sequences
  BY <1>6
<1>12. info = told => (~t.info_required /\ t.next_sequence = None => t.latest_sequence = 0)
  BY <1>6, <1>7, <1>9
<1> QED BY <1>10, <1>11, <1>12 DEF t, info, told

\* When the pending record is in the file or given up, the reader goes on behind
\* it.
LEMMA RecordFollows ==
    ASSUME NEW records, NEW open, NEW left, NEW s, SyncOK(s),
           s.pending_kind = "record", Complete(s.record_fragments),
           records \subseteq Records, left \subseteq open, open \subseteq records,
           \A r \in left : r.sequence # s.pending_sequence,
           SyncFollows(records, open, s)
    PROVE  /\ GivesUp(s) => SyncFollows(records, left, RecordRejected(s))
           /\ SyncFollows(records, left, RecordSaved(s, s.pending_sequence))
<1> DEFINE p == s.pending_sequence
           t == RecordTaken(s)
<1>1. p # None /\ p \in Int
  BY SyncNumbers DEF SyncOK
<1>2. Reached(records, p) /\ Passed(records, open, p)
  BY <1>1 DEF SyncFollows
<1>3. \A r \in records : r.sequence \in Int
  BY ModulusAssumption DEF Records
<1>4. Passed(records, left, p + 1)
  <2>1. \A r \in left : p <= r.sequence /\ r.sequence # p /\ r.sequence \in Int
    BY <1>2, <1>3 DEF Passed, From
  <2>2. \A r \in left : p + 1 <= r.sequence
    BY <1>1, <2>1
  <2>3. (p + 1) - 1 = p
    BY <1>1
  <2> QED BY <1>2, <2>2, <2>3 DEF Passed, From
<1>5. \A n : Passed(records, open, n) => Passed(records, left, n)
  BY DEF Passed, From
<1>6. SyncFollows(records, left, t) /\ t \in Syncs /\ t.pending_sequence = None
  <2>1. SyncFollows(records, open, t) /\ SyncOK(t)
    BY RequestsFollow, RequestsKeepSync
  <2>2. t.pending_sequence = None
    BY DEF RecordTaken, SyncOK, Syncs
  <2> HIDE DEF t
  <2> QED BY <1>5, <2>1, <2>2 DEF SyncFollows, SyncOK
<1> HIDE DEF p, t
<1>7. ASSUME GivesUp(s) PROVE SyncFollows(records, left, RecordRejected(s))
  <2> DEFINE u == RecordRejected(s)
  <2>1. u = [t EXCEPT !.record_retries[p] = 0, !.next_sequence = p + 1]
    BY <1>7 DEF RecordRejected, t, p
  <2>2. /\ u.latest_sequence = t.latest_sequence /\ u.next_sequence = p + 1
        /\ u.last_saved_sequence = t.last_saved_sequence
        /\ u.pending_sequence = None /\ u.info_fragments = t.info_fragments
    BY <1>6, <2>1 DEF Syncs
  <2> HIDE DEF u
  <2>9. SyncFollows(records, left, u)
    BY <1>4, <1>6, <2>2 DEF SyncFollows, Heard
  <2> QED BY <2>9 DEF u
<1>8. SyncFollows(records, left, RecordSaved(s, p))
  <2> DEFINE u == RecordSaved(s, p)
  <2>1. /\ u.latest_sequence = t.latest_sequence /\ u.next_sequence = p + 1
        /\ u.last_saved_sequence = p
        /\ u.pending_sequence = None /\ u.info_fragments = t.info_fragments
    BY <1>6 DEF RecordSaved, t, Syncs
  <2> HIDE DEF u
  <2>9. SyncFollows(records, left, u)
    BY <1>4, <1>6, <2>1 DEF SyncFollows, Heard
  <2> QED BY <2>9 DEF u
<1> QED BY <1>7, <1>8 DEF p

\* A rejected record that is not given up is asked for again.
LEMMA RetryFollows ==
    ASSUME NEW records, NEW open, NEW s, SyncOK(s),
           records \subseteq Records, SyncFollows(records, open, s), ~GivesUp(s)
    PROVE  /\ SyncFollows(records, open, RecordRejected(s))
           /\ RecordRejected(s).next_sequence = s.next_sequence
           /\ RecordRejected(s).latest_sequence = s.latest_sequence
           /\ RecordRejected(s).info_required = s.info_required
           /\ RecordRejected(s).bootstrap_complete = s.bootstrap_complete
           /\ RecordRejected(s).saved_sequences = s.saved_sequences
<1> DEFINE t == RecordTaken(s)
           u == RecordRejected(s)
<1>1. SyncFollows(records, open, t) /\ t \in Syncs
  BY RequestsFollow, RequestsKeepSync DEF SyncOK
<1>2. /\ t.next_sequence = s.next_sequence
      /\ t.latest_sequence = s.latest_sequence
      /\ t.info_required = s.info_required
      /\ t.bootstrap_complete = s.bootstrap_complete
      /\ t.saved_sequences = s.saved_sequences
  BY DEF RecordTaken, SyncOK, Syncs
<1>3. u = [t EXCEPT !.record_retries[s.pending_sequence] = @ + 1]
  BY DEF RecordRejected
<1> HIDE DEF t, u
<1>4. /\ u.next_sequence = t.next_sequence
      /\ u.latest_sequence = t.latest_sequence
      /\ u.info_required = t.info_required
      /\ u.bootstrap_complete = t.bootstrap_complete
      /\ u.saved_sequences = t.saved_sequences
      /\ u.pending_sequence = t.pending_sequence
      /\ u.last_saved_sequence = t.last_saved_sequence
      /\ u.info_fragments = t.info_fragments
  BY <1>1, <1>3 DEF Syncs
<1>5. SyncFollows(records, open, u)
  BY <1>1, <1>4 DEF SyncFollows, Heard
<1> QED BY <1>2, <1>4, <1>5 DEF u

\* What the firmware tells at any time is true of its log.
LEMMA InfoTells ==
    ASSUME RingInv, ~Straddles
    PROVE  TellsInfo(Stored, Info) /\ TellsBeat(Stored, Beat)
<1>1. CASE count = 0
  BY <1>1 DEF Info, Beat, TellsInfo, TellsBeat, Tells, Reached
<1>2. CASE count # 0
  <2>1. storage_ready
    BY <1>2 DEF RingInv, RingIs, Nothing
  <2>2. PICK newest \in Indices, run \in 1 .. Capacity :
            Window(slots, newest, run) /\ count = run
    BY <1>2, <2>1, RingCases
  <2> DEFINE sequence == slots[newest].body.sequence
             at(n) == slots[Back(newest, n)].body
  <2>3. /\ sequence \in Sequences /\ run <= sequence
        /\ Info = [count |-> run, oldest |-> sequence - run + 1,
                   latest |-> sequence]
        /\ \A n \in 0 .. run - 1 : at(n).sequence = sequence - n
    BY <2>1, <2>2, RunInOrder
  <2>4. slots \in RAM
    BY DEF RingInv
  <2>5. /\ Stored = {at(n) : n \in 0 .. run - 1}
        /\ slots[newest].body \in Stored
    BY <2>2, <2>4, HeldInRun DEF Stored
  <2>6. Reached(Stored, sequence)
    <3>1. slots[newest].body.sequence <= slots[newest].body.sequence
      BY <2>3 DEF Sequences
    <3> QED BY <2>5, <3>1 DEF Reached
  <2> HIDE DEF at, sequence
  <2>7. From(Stored, sequence - run + 1) /\ sequence - run + 1 <= sequence
    BY <2>3, <2>5, CapacityAssumption DEF From, Sequences
  <2>8. Tells(Stored, sequence - run + 1, sequence, run)
    BY <2>6, <2>7, CapacityAssumption DEF Tells
  <2> QED BY <2>3, <2>8 DEF TellsInfo, TellsBeat, Beat
<1> QED BY <1>1, <1>2

\* A write to the ring makes the log grow.
LEMMA WriteGrows ==
    ASSUME RingInv, storage_ready, events < MaxEvents, NewestStays,
           Ordered(Stored), Ordered(Stored')
    PROVE  Grows(Stored, Stored')
<1>1. Stored \subseteq Records /\ NextRecord \in Records
  BY LiveIs, NextRecordIs
<1>2. \A r \in Records : r.event \in Int /\ r.sequence \in Int
  BY ModulusAssumption, EventsAssumption DEF Records
<1>3. CASE Stored = {}
  BY <1>3 DEF Grows
<1>4. ASSUME NEW last \in Stored, last \in Stored',
             last.event < NextRecord.event,
             \A record \in Stored : record.event <= last.event,
             \/ Stored' \subseteq Stored
             \/ /\ NextRecord \in Stored'
                /\ Stored' \subseteq Stored \cup {NextRecord}
      PROVE  Grows(Stored, Stored')
  <2>1. \A o \in Stored : o.sequence <= last.sequence
    <3> TAKE o \in Stored
    <3>1. last.event < o.event <=> last.sequence < o.sequence
      BY DEF Ordered
    <3> QED BY <1>1, <1>2, <1>4, <3>1
  <2>2. ASSUME NEW r \in Stored' \ Stored
        PROVE  \A o \in Stored : o.sequence < r.sequence
    <3>1. r = NextRecord /\ NextRecord \in Stored'
      BY <1>4, <2>2
    <3>2. last.sequence < NextRecord.sequence
      BY <1>4, <3>1 DEF Ordered
    <3> QED BY <1>1, <1>2, <2>1, <3>1, <3>2
  <2> QED BY <1>4, <2>1, <2>2 DEF Grows
<1> QED BY <1>3, <1>4 DEF NewestStays

\* The reader follows the log through events and resets.
LEMMA RingStepFollows ==
    ASSUME RingInv, RingInv', ReaderInv, RowsInv, FollowInv, LogEvent \/ Reset
    PROVE  FollowInv'
<1>1. /\ wrapped' = (wrapped \/ Straddles') /\ UNCHANGED <<sync, rows>>
      /\ heartbeat' \in {heartbeat, None}
      /\ \/ toReader' = toReader
         \/ \E n \in 0 .. Len(toReader) : toReader' = SubSeq(toReader, 1, n)
  BY DEF LogEvent, Reset, bus, reader
<1> SUFFICES ASSUME ~wrapped', Ordered(Stored') PROVE Follows'
  BY <1>1 DEF FollowInv
<1>2. ~wrapped
  BY <1>1
<1>3. Rows
  BY <1>2 DEF RowsInv
<1>4. Ordered(Stored) /\ Grows(Stored, Stored')
  <2>1. \A r \in Stored : r.sequence <= r.sequence
    BY LiveIs, ModulusAssumption DEF Records
  <2>2. CASE LogEvent
    BY <1>3, <2>2, PushKeepsRing, WriteKeepsNewest, WriteGrows DEF LogEvent, Rows
  <2>3. CASE Reset /\ ResetAtRest
    <3>1. Stored' = Stored
      BY <2>3, RestKeepsStored
    <3> QED BY <2>1, <3>1 DEF Grows
  <2>4. CASE Reset /\ ResetInPush
    BY <1>3, <2>4, ResetInPushIs, WriteKeepsNewest, WriteGrows DEF Rows
  <2> QED BY <2>2, <2>3, <2>4 DEF Reset
<1>5. Follows
  BY <1>2, <1>4 DEF FollowInv
<1>6. Stored \subseteq Records /\ Stored' \subseteq Records
  <2>1. (Stored \subseteq Records)'
    BY LiveIs, PTL
  <2> QED BY <2>1, LiveIs
<1>7. /\ Open \in SUBSET Stored /\ Open' \in SUBSET (Stored')
      /\ Open' \subseteq Open \cup (Stored' \ Stored)
  BY <1>1 DEF Open, rows
<1>8. SyncOK(sync) /\ toReader \in Seq(ResponseFrames) /\ heartbeat \in Beats \cup {None}
  BY DEF ReaderInv
<1>9. SyncFollows(Stored', Open', sync)
  BY <1>4, <1>5, <1>6, <1>7, <1>8, SyncFollowsGrowth DEF Follows
<1>10. \A oldest, latest \in Int : \A number :
          Tells(Stored, oldest, latest, number) =>
          Tells(Stored', oldest, latest, number)
  BY <1>4, <1>6, <1>7, GrowthKeeps
<1>11. ASSUME NEW info \in Contents("info", toReader')
       PROVE  TellsInfo(Stored', info)
  <2>1. info \in Contents("info", toReader)
    BY <1>1, <1>8, ContentsIs
  <2>2. info \in Infos
    BY <1>8, <2>1, InformedIs
  <2> QED BY <1>5, <1>8, <1>10, <2>1, <2>2, SyncNumbers DEF Follows, TellsInfo
<1>12. heartbeat' # None => TellsBeat(Stored', heartbeat')
  BY <1>1, <1>5, <1>8, <1>10, SyncNumbers DEF Follows, TellsBeat
<1> QED BY <1>1, <1>5, <1>9, <1>11, <1>12 DEF Follows, WasEmpty, rows

\* An answer adds no more than the information of the log.
LEMMA AnswerTells ==
    ASSUME RingInv, NEW request \in RequestFrames
    PROVE  Contents("info", Response(request)) \subseteq {Info}
<1>1. CASE request.kind = "info"
  <2>1. Response(request) = <<[kind |-> "info", part |-> 1, content |-> Info],
                              [kind |-> "info", part |-> 2, content |-> Info]>>
    BY <1>1 DEF Response, Parts
  <2> QED BY <2>1 DEF Contents
<1>2. CASE request.kind # "info" /\ Found(request.sequence) = {}
  <2>1. Response(request) =
            <<[kind |-> "error", part |-> 1, content |-> request.sequence]>>
    BY <1>2 DEF Response
  <2> QED BY <2>1 DEF Contents
<1>3. CASE request.kind # "info" /\ Found(request.sequence) # {}
  <2>1. Response(request) =
            Parts("record", CHOOSE r \in Found(request.sequence) : TRUE)
    BY <1>3 DEF Response
  <2> QED BY <2>1 DEF Contents, Parts
<1> QED BY <1>1, <1>2, <1>3

\* The firmware answers with what is true of its log.
LEMMA AnswerFollows ==
    ASSUME RingInv, ReaderInv, ~Straddles, Follows, Answer
    PROVE  Follows'
<1> DEFINE response == Response(Head(toDevice))
<1>1. /\ toDevice # <<>> /\ UNCHANGED <<logVars, heartbeat, sync, rows>>
      /\ \/ toReader' = toReader \o response
         \/ \E n \in 0 .. Len(response) - 1 :
               toReader' = toReader \o SubSeq(response, 1, n)
  BY DEF Answer, reader
<1>2. toDevice \in Seq(RequestFrames) /\ toReader \in Seq(ResponseFrames)
  BY DEF ReaderInv
<1>3. Head(toDevice) \in RequestFrames
  BY <1>1, <1>2
<1>4. response \in Seq(ResponseFrames) /\ Contents("info", response) \subseteq {Info}
  BY <1>3, ResponseIs, AnswerTells
<1> HIDE DEF response
<1>5. Contents("info", toReader') \subseteq Contents("info", toReader) \cup {Info}
  <2>1. CASE toReader' = toReader \o response
    BY <1>2, <1>4, <2>1, ContentsIs
  <2>2. ASSUME NEW n \in 0 .. Len(response) - 1,
               toReader' = toReader \o SubSeq(response, 1, n)
        PROVE  Contents("info", toReader') \subseteq Contents("info", toReader) \cup {Info}
    <3>1. n \in 0 .. Len(response)
      BY <1>4
    <3>2. /\ SubSeq(response, 1, n) \in Seq(ResponseFrames)
          /\ Contents("info", SubSeq(response, 1, n)) \subseteq Contents("info", response)
      BY <1>4, <3>1, ContentsIs
    <3> DEFINE sent == SubSeq(response, 1, n)
    <3>3. sent \in Seq(ResponseFrames) /\ Contents("info", sent) \subseteq {Info}
      BY <1>4, <3>2
    <3> HIDE DEF sent
    <3>4. Contents("info", toReader \o sent)
              \subseteq Contents("info", toReader) \cup Contents("info", sent)
      BY <1>2, <3>3, ContentsIs
    <3> QED BY <2>2, <3>3, <3>4 DEF sent
  <2> QED BY <1>1, <2>1, <2>2
<1>6. Stored' = Stored /\ Open' = Open
  BY <1>1 DEF Stored, Open, rows, logVars
<1>7. TellsInfo(Stored, Info)
  BY InfoTells
<1> QED BY <1>1, <1>5, <1>6, <1>7 DEF Follows, WasEmpty, rows

\* The reader asks, waits and hears the heartbeat.
LEMMA PollFollows ==
    ASSUME RingInv, ReaderInv, ~Straddles, Follows,
           \/ RequestInfo \/ RequestRecord \/ Timeout \/ HeartbeatTimeout
           \/ Heartbeat \/ DelayHeartbeat \/ HandleDelayedHeartbeat
           \/ Lose \/ UNCHANGED vars
    PROVE  Follows'
<1>1. /\ UNCHANGED logVars /\ UNCHANGED <<exported, skipped, mixed>>
      /\ toReader' = toReader \/ (toReader # <<>> /\ toReader' = Tail(toReader))
  BY DEF RequestInfo, RequestRecord, Timeout, HeartbeatTimeout, Heartbeat,
         DelayHeartbeat, HandleDelayedHeartbeat, Lose, vars, bus, reader, rows
<1>2. Stored' = Stored /\ Open' = Open
  BY <1>1 DEF Stored, Open, logVars
<1>3. /\ SyncOK(sync) /\ toReader \in Seq(ResponseFrames)
      /\ heartbeat \in Beats \cup {None} /\ Beat \in Beats
  BY InfoIs DEF ReaderInv
<1>4. Contents("info", toReader') \subseteq Contents("info", toReader)
  BY <1>1, <1>3, ContentsIs
<1>5. TellsBeat(Stored, Beat)
  BY InfoTells
<1>6. heartbeat' # None => TellsBeat(Stored, heartbeat')
  BY <1>5 DEF Follows, RequestInfo, RequestRecord, Timeout, HeartbeatTimeout,
         Heartbeat, DelayHeartbeat, HandleDelayedHeartbeat, Lose, vars, bus
<1>7. \/ sync' \in {sync, InfoRequested(sync), RequestTimedOut(sync),
                   [sync EXCEPT !.heartbeat_timeout_active = TRUE]}
      \/ WantsRecord(sync) /\ sync' = RecordRequested(sync)
      \/ \E beat \in Beats : TellsBeat(Stored, beat) /\ sync' = HeartbeatHandled(sync, beat)
  BY <1>3, <1>5 DEF Follows, RequestInfo, RequestRecord, Timeout, HeartbeatTimeout,
         Heartbeat, DelayHeartbeat, HandleDelayedHeartbeat, Lose, vars, reader
<1>8. Open \subseteq Stored /\ Stored \subseteq Records /\ SyncFollows(Stored, Open, sync)
  BY LiveIs DEF Open, Follows
<1>9. /\ SyncFollows(Stored, Open, sync') /\ WasEmpty'
      /\ sync'.saved_sequences = sync.saved_sequences
  <2>1. CASE sync' \in {sync, InfoRequested(sync), RequestTimedOut(sync),
                       [sync EXCEPT !.heartbeat_timeout_active = TRUE]}
    <3>1. /\ sync'.bootstrap_complete = sync.bootstrap_complete
          /\ sync.info_required => sync'.info_required
          /\ sync'.next_sequence = sync.next_sequence
          /\ sync'.latest_sequence = sync.latest_sequence
          /\ sync'.saved_sequences = sync.saved_sequences
      BY <1>3, <2>1 DEF SyncOK, Syncs, InfoRequested, RequestTimedOut
    <3>2. SyncFollows(Stored, Open, sync')
      <4>1. /\ SyncFollows(Stored, Open, InfoRequested(sync))
            /\ SyncFollows(Stored, Open, RequestTimedOut(sync))
            /\ SyncFollows(Stored, Open,
                           [sync EXCEPT !.heartbeat_timeout_active = TRUE])
        BY <1>3, <1>8, RequestsFollow
      <4> QED BY <1>8, <2>1, <4>1, Zenon
    <3> QED BY <1>1, <3>1, <3>2 DEF Follows, WasEmpty
  <2>2. CASE WantsRecord(sync) /\ sync' = RecordRequested(sync)
    <3>1. /\ sync'.bootstrap_complete = sync.bootstrap_complete
          /\ sync'.info_required = sync.info_required
          /\ sync'.next_sequence = sync.next_sequence
          /\ sync'.latest_sequence = sync.latest_sequence
          /\ sync'.saved_sequences = sync.saved_sequences
      BY <1>3, <2>2 DEF SyncOK, Syncs, RecordRequested
    <3>2. SyncFollows(Stored, Open, sync')
      BY <1>3, <1>8, <2>2, RequestsFollow
    <3> QED BY <1>1, <3>1, <3>2 DEF Follows, WasEmpty
  <2>3. ASSUME NEW beat \in Beats, TellsBeat(Stored, beat),
               sync' = HeartbeatHandled(sync, beat)
        PROVE  /\ SyncFollows(Stored, Open, sync') /\ WasEmpty'
               /\ sync'.saved_sequences = sync.saved_sequences
    <3>1. SyncFollows(Stored, Open, sync')
      BY <1>3, <1>8, <2>3, HeartbeatFollows
    <3>2. Requested(sync, beat) # None
      <4>1. /\ sync.next_sequence # None => sync.next_sequence \in Int
            /\ sync.last_saved_sequence + 1 \in Int
            /\ beat.latest - beat.count + 1 \in Int /\ None \notin Int
        BY <1>3, SyncNumbers, ReaderAssumption
      <4> QED BY <4>1 DEF Requested
    <3>3. /\ sync'.bootstrap_complete = sync.bootstrap_complete
          /\ sync'.saved_sequences = sync.saved_sequences
          /\ ~sync'.info_required /\ sync'.next_sequence = None =>
                /\ ~sync.info_required /\ sync.next_sequence = None
                /\ sync'.latest_sequence = sync.latest_sequence
      BY <1>3, <2>3, <3>2 DEF SyncOK, Syncs, HeartbeatHandled
    <3> QED BY <1>1, <3>1, <3>3 DEF Follows, WasEmpty
  <2> QED BY <1>7, <2>1, <2>2, <2>3
<1> QED BY <1>1, <1>2, <1>4, <1>6, <1>9 DEF Follows

\* A new connection has passed nothing.
LEMMA ReconnectFollows ==
    ASSUME Follows, Reconnect
    PROVE  Follows'
<1>1. /\ sync' = ResetSync /\ UNCHANGED <<toReader, heartbeat>>
      /\ Stored' = Stored
  BY DEF Reconnect, bus, Stored, logVars
<1>2. /\ ResetSync.latest_sequence = 0 /\ ResetSync.next_sequence = None
      /\ ResetSync.pending_sequence = None /\ ResetSync.last_saved_sequence = 0
      /\ Heard(ResetSync) = {} /\ ResetSync.saved_sequences = {}
      /\ ~ResetSync.bootstrap_complete
  BY DEF ResetSync, Heard, NoFragments
<1>3. SyncFollows(Stored', Open', sync')
  BY <1>1, <1>2 DEF SyncFollows, Reached
<1> QED BY <1>1, <1>2, <1>3 DEF Follows, WasEmpty

\* A record in the files settles the record of its number in the log.
LEMMA SavedIsSettled ==
    ASSUME NEW seen \in SUBSET Records, NEW records \in SUBSET Records,
           Ordered(records \cup seen),
           NEW row \in seen, NEW r \in records, row.sequence = r.sequence
    PROVE  row = r
<1>1. /\ row.event \in Int /\ r.event \in Int
      /\ row.sequence \in Int /\ r.sequence \in Int
  BY ModulusAssumption, EventsAssumption DEF Records
<1>2. ~(row.event < r.event) /\ ~(r.event < row.event)
  BY <1>1 DEF Ordered
<1>3. row.event = r.event
  BY <1>1, <1>2
<1> QED BY <1>3 DEF Records

\* A record with all its fragments, written, rejected or given up.
LEMMA CompleteRecordFollows ==
    ASSUME RingInv, ReaderInv, Rows, Ordered(Stored), Follows,
           NEW taken, SyncOK(taken), taken.pending_kind = "record",
           Complete(taken.record_fragments),
           SyncFollows(Stored, Open, taken),
           taken.next_sequence = sync.next_sequence,
           taken.latest_sequence = sync.latest_sequence,
           taken.info_required = sync.info_required,
           taken.bootstrap_complete = sync.bootstrap_complete,
           taken.saved_sequences = sync.saved_sequences,
           Taken(taken) \subseteq Seen,
           UNCHANGED logVars, UNCHANGED mixed, CompleteRecord(taken)
    PROVE  /\ SyncFollows(Stored', Open', sync') /\ WasEmpty'
           /\ \A q \in sync'.saved_sequences :
                 \E row \in exported' : row.sequence = q
<1> DEFINE p == taken.pending_sequence
<1>1. p # None /\ p \in Int /\ p + 1 # None
  BY SyncNumbers, ReaderAssumption DEF SyncOK
<1>2. Stored' = Stored /\ Stored \subseteq Records /\ Seen \subseteq Records
      /\ Open \subseteq Stored
  BY SeenIs DEF Stored, logVars, Open
<1>3. /\ SyncOK(RecordTaken(taken)) /\ RecordTaken(taken) \in Syncs
      /\ RecordTaken(taken).next_sequence = taken.next_sequence
      /\ RecordTaken(taken).latest_sequence = taken.latest_sequence
      /\ RecordTaken(taken).info_required = taken.info_required
      /\ RecordTaken(taken).bootstrap_complete = taken.bootstrap_complete
      /\ RecordTaken(taken).saved_sequences = taken.saved_sequences
  BY RequestsKeepSync DEF SyncOK, RecordTaken, Syncs
<1>4. CASE ~Acceptable(taken) /\ GivesUp(taken)
  <2>1. /\ sync' = RecordRejected(taken) /\ skipped' = skipped \cup {p}
        /\ exported' = exported
    BY <1>4 DEF CompleteRecord
  <2>2. Open' \subseteq Open /\ \A r \in Open' : r.sequence # p
    BY <1>2, <2>1 DEF Open
  <2>3. SyncFollows(Stored, Open', sync')
    BY <1>2, <1>4, <2>1, <2>2, RecordFollows
  <2>4. sync' = [RecordTaken(taken) EXCEPT !.record_retries[p] = 0,
                                           !.next_sequence = p + 1]
    BY <1>4, <2>1 DEF RecordRejected
  <2>5. sync'.next_sequence = p + 1 /\ sync'.saved_sequences = sync.saved_sequences
    BY <1>3, <2>4 DEF Syncs
  <2> HIDE DEF p
  <2> QED BY <1>1, <1>2, <2>1, <2>3, <2>5 DEF WasEmpty, Follows
<1>5. CASE ~Acceptable(taken) /\ ~GivesUp(taken)
  <2>1. /\ sync' = RecordRejected(taken) /\ skipped' = skipped
        /\ exported' = exported
    BY <1>5 DEF CompleteRecord
  <2>2. Open' = Open
    BY <1>2, <2>1 DEF Open
  <2>3. /\ SyncFollows(Stored, Open, sync')
        /\ sync'.next_sequence = taken.next_sequence
        /\ sync'.latest_sequence = taken.latest_sequence
        /\ sync'.info_required = taken.info_required
        /\ sync'.bootstrap_complete = taken.bootstrap_complete
        /\ sync'.saved_sequences = taken.saved_sequences
    BY <1>2, <1>5, <2>1, RetryFollows
  <2> QED BY <1>2, <2>1, <2>2, <2>3 DEF WasEmpty, Follows
<1>6. CASE Acceptable(taken)
  <2> DEFINE record == Assembled(taken)
  <2>1. /\ record \in Records /\ record \in Seen /\ record.sequence = p
    <3>1. record \in Records /\ record = taken.record_fragments[1]
      BY <1>6, RecordKeepsSync
    <3>2. record \in Taken(taken)
      BY <3>1 DEF Complete, Taken
    <3> QED BY <1>6, <3>1, <3>2 DEF Acceptable
  <2>2. /\ UNCHANGED skipped
        /\ \/ /\ sync' = RecordSaved(taken, p)
              /\ exported' = IF p \in taken.saved_sequences
                             THEN exported ELSE exported \cup {record}
           \/ sync' = RecordTaken(taken) /\ UNCHANGED exported
    BY <1>6, <2>1 DEF CompleteRecord
  <2> HIDE DEF record, p
  <2>3. CASE /\ sync' = RecordSaved(taken, p)
             /\ exported' = IF p \in taken.saved_sequences
                            THEN exported ELSE exported \cup {record}
    <3>1. PICK row \in exported' \cap Seen : row.sequence = p
      <4>1. CASE p \in taken.saved_sequences
        BY <2>3, <4>1 DEF Follows, Seen
      <4>2. CASE p \notin taken.saved_sequences
        BY <2>1, <2>3, <4>2
      <4> QED BY <4>1, <4>2
    <3>2. exported \subseteq exported'
      BY <2>3
    <3>3. Ordered(Stored \cup Seen)
      BY DEF Rows
    <3>4. Open' \subseteq Open
      BY <1>2, <2>2, <3>2 DEF Open
    <3>5. \A r \in Open' : r.sequence # p
      <4> SUFFICES ASSUME NEW r \in Open', r.sequence = p PROVE FALSE
        OBVIOUS
      <4>1. r \in Stored /\ r \notin exported'
        BY <1>2 DEF Open
      <4>2. row = r
        BY <1>2, <3>1, <3>3, <4>1, SavedIsSettled
      <4> QED BY <3>1, <4>1, <4>2
    <3>6. SyncFollows(Stored, Open', sync')
      <4>1. SyncFollows(Stored, Open', RecordSaved(taken, taken.pending_sequence))
        BY <1>2, <3>4, <3>5, RecordFollows DEF p
      <4> QED BY <2>3, <4>1 DEF p
    <3>7. /\ sync'.next_sequence = p + 1
          /\ sync'.saved_sequences = sync.saved_sequences \cup {p}
      BY <1>3, <2>3 DEF RecordSaved, Syncs
    <3>8. \A q \in sync'.saved_sequences : \E o \in exported' : o.sequence = q
      BY <3>1, <3>2, <3>7 DEF Follows
    <3> QED BY <1>1, <1>2, <3>6, <3>7, <3>8 DEF WasEmpty, p
  <2>4. CASE sync' = RecordTaken(taken) /\ UNCHANGED exported
    <3>1. SyncFollows(Stored, Open, sync')
      BY <1>2, <2>4, RequestsFollow
    <3>2. Open' = Open
      BY <1>2, <2>2, <2>4 DEF Open
    <3> QED BY <1>2, <1>3, <2>4, <3>1, <3>2 DEF WasEmpty, Follows
  <2> QED BY <2>2, <2>3, <2>4
<1> QED BY <1>4, <1>5, <1>6

\* A fragment of a response.
LEMMA ResponseFollows ==
    ASSUME RingInv, ReaderInv, Rows, Ordered(Stored), Follows, HandleResponse
    PROVE  Follows'
<1> DEFINE frame == Head(toReader)
<1>1. /\ toReader # <<>> /\ toReader' = Tail(toReader)
      /\ UNCHANGED <<logVars, heartbeat>>
      /\ \/ frame.kind = "info" /\ HandleInfo(frame)
         \/ frame.kind = "record" /\ HandleRecord(frame)
         \/ /\ frame.kind = "error"
            /\ sync' = ErrorHandled(sync) /\ UNCHANGED rows
  BY DEF HandleResponse, rows
<1>2. toReader \in Seq(ResponseFrames) /\ SyncOK(sync) /\ sync \in Syncs
  BY DEF ReaderInv, SyncOK
<1>3. /\ frame \in ResponseFrames
      /\ Contents("info", toReader') \subseteq Contents("info", toReader)
      /\ frame.kind = "info" => frame.content \in Contents("info", toReader)
      /\ frame.kind = "record" => frame.content \in Carried(toReader)
  BY <1>1, <1>2, ContentsIs DEF Carried
<1>4. /\ Stored' = Stored /\ Stored \subseteq Records /\ Open \subseteq Stored
  BY <1>1, LiveIs DEF Stored, Open, logVars
<1> HIDE DEF frame
<1>5. /\ SyncFollows(Stored', Open', sync') /\ WasEmpty'
      /\ \A q \in sync'.saved_sequences :
            \E row \in exported' : row.sequence = q
  <2>1. CASE frame.kind = "error" /\ sync' = ErrorHandled(sync) /\ UNCHANGED rows
    <3>1. SyncFollows(Stored, Open, sync')
      BY <1>2, <1>4, <2>1, RequestsFollow DEF Follows
    <3>2. sync'.info_required /\ sync'.saved_sequences = sync.saved_sequences
      BY <1>2, <2>1 DEF ErrorHandled, Syncs
    <3>3. Open' = Open
      BY <1>4, <2>1 DEF Open, rows
    <3> QED BY <1>4, <2>1, <3>1, <3>2, <3>3 DEF Follows, WasEmpty, rows
  <2>2. CASE frame.kind = "info" /\ HandleInfo(frame)
    <3> DEFINE fragments == [sync.info_fragments EXCEPT ![frame.part] = frame.content]
               taken == [sync EXCEPT !.info_fragments[frame.part] = frame.content]
    <3>1. /\ frame.content \in Infos /\ frame.part \in {1, 2}
          /\ TellsInfo(Stored, frame.content)
      BY <1>3, <2>2 DEF ResponseFrames, Follows
    <3>2. /\ taken = [sync EXCEPT !.info_fragments = fragments]
          /\ fragments \in [{1, 2} -> Infos \cup {None}]
          /\ fragments[1] \in {sync.info_fragments[1], frame.content}
          /\ fragments[2] \in {sync.info_fragments[2], frame.content}
      <4>1. sync.info_fragments \in [{1, 2} -> Infos \cup {None}]
        BY <1>2 DEF Syncs
      <4> QED BY <1>2, <3>1, <4>1 DEF Syncs
    <3> HIDE DEF fragments, taken
    <3>3. /\ SyncOK(taken) /\ taken \in Syncs /\ taken.info_fragments = fragments
          /\ taken.pending_kind = sync.pending_kind
          /\ taken.pending_sequence = sync.pending_sequence
          /\ taken.latest_sequence = sync.latest_sequence
          /\ taken.next_sequence = sync.next_sequence
          /\ taken.last_saved_sequence = sync.last_saved_sequence
          /\ taken.saved_sequences = sync.saved_sequences
          /\ taken.info_required = sync.info_required
          /\ taken.bootstrap_complete = sync.bootstrap_complete
      BY <1>2, <3>2 DEF SyncOK, Syncs
    <3>4. SyncFollows(Stored, Open, taken)
      <4>1. \A info \in Heard(taken) : TellsInfo(Stored, info)
        BY <3>1, <3>2, <3>3 DEF Follows, SyncFollows, Heard
      <4> QED BY <3>3, <4>1 DEF Follows, SyncFollows
    <3>5. /\ UNCHANGED <<exported, skipped>>
          /\ \/ UNCHANGED <<sync, mixed>>
             \/ sync' = taken /\ UNCHANGED mixed
             \/ /\ sync.pending_kind = "info" /\ Complete(fragments)
                /\ sync' = InfoCompleted(taken)
                /\ mixed' = (fragments[1] # fragments[2])
      BY <2>2, <3>3 DEF HandleInfo, taken
    <3>6. Open' = Open
      BY <1>4, <3>5 DEF Open
    <3>7. CASE UNCHANGED <<sync, mixed>>
      BY <1>4, <3>5, <3>6, <3>7 DEF Follows, WasEmpty
    <3>8. CASE sync' = taken /\ UNCHANGED mixed
      BY <1>4, <3>3, <3>4, <3>5, <3>6, <3>8 DEF Follows, WasEmpty
    <3>9. CASE /\ sync.pending_kind = "info" /\ Complete(fragments)
               /\ sync' = InfoCompleted(taken)
               /\ mixed' = (fragments[1] # fragments[2])
      <4>1. /\ SyncFollows(Stored, Open, sync')
            /\ sync'.saved_sequences \subseteq taken.saved_sequences
            /\ fragments[1] = fragments[2] =>
                  (~sync'.info_required /\ sync'.next_sequence = None
                   => sync'.latest_sequence = 0)
        BY <1>4, <3>3, <3>4, <3>9, InfoFollows
      <4> QED BY <1>4, <3>3, <3>5, <3>6, <3>9, <4>1 DEF Follows, WasEmpty
    <3> QED BY <3>5, <3>7, <3>8, <3>9
  <2>3. CASE frame.kind = "record" /\ HandleRecord(frame)
    <3> DEFINE fragments == [sync.record_fragments EXCEPT ![frame.part] = frame.content]
               taken == [sync EXCEPT !.record_fragments[frame.part] = frame.content]
    <3>1. /\ frame.content \in Records /\ frame.content \in Carried(toReader)
          /\ frame.part \in {1, 2}
      BY <1>3, <2>3 DEF ResponseFrames
    <3>2. /\ taken = [sync EXCEPT !.record_fragments = fragments]
          /\ fragments \in [{1, 2} -> Records \cup {None}]
          /\ \A part \in {1, 2} :
                fragments[part] \in {sync.record_fragments[part], frame.content}
      <4>1. sync.record_fragments \in [{1, 2} -> Records \cup {None}]
        BY <1>2 DEF Syncs
      <4> QED BY <1>2, <3>1, <4>1 DEF Syncs
    <3> HIDE DEF fragments, taken
    <3>3. /\ SyncOK(taken) /\ taken \in Syncs /\ taken.record_fragments = fragments
          /\ taken.info_fragments = sync.info_fragments
          /\ taken.pending_kind = sync.pending_kind
          /\ taken.pending_sequence = sync.pending_sequence
          /\ taken.latest_sequence = sync.latest_sequence
          /\ taken.next_sequence = sync.next_sequence
          /\ taken.last_saved_sequence = sync.last_saved_sequence
          /\ taken.saved_sequences = sync.saved_sequences
          /\ taken.info_required = sync.info_required
          /\ taken.bootstrap_complete = sync.bootstrap_complete
      BY <1>2, <3>2 DEF SyncOK, Syncs
    <3>4. SyncFollows(Stored, Open, taken)
      BY <3>3 DEF Follows, SyncFollows, Heard
    <3>5. Taken(taken) \subseteq Seen
      BY <3>1, <3>2, <3>3 DEF Taken, Seen
    <3>6. /\ UNCHANGED mixed
          /\ \/ sync' \in {sync, taken} /\ UNCHANGED <<exported, skipped>>
             \/ /\ sync.pending_kind = "record" /\ Complete(fragments)
                /\ CompleteRecord(taken)
      BY <2>3, <3>3 DEF HandleRecord, taken, reader, rows
    <3>7. CASE sync' \in {sync, taken} /\ UNCHANGED <<exported, skipped>>
      <4>1. Open' = Open
        BY <1>4, <3>7 DEF Open
      <4> QED BY <1>4, <3>3, <3>4, <3>6, <3>7, <4>1 DEF Follows, WasEmpty
    <3>8. CASE /\ sync.pending_kind = "record" /\ Complete(fragments)
               /\ CompleteRecord(taken)
      BY <1>1, <3>3, <3>4, <3>5, <3>6, <3>8, CompleteRecordFollows
    <3> QED BY <3>6, <3>7, <3>8
  <2> QED BY <1>1, <2>1, <2>2, <2>3
<1> QED BY <1>1, <1>3, <1>4, <1>5 DEF Follows

\* A step keeps the reader behind the log that it follows, or the sequence
\* numbers wrap.
LEMMA StepFollows ==
    ASSUME RingInv, RingInv', ReaderInv, RowsInv, FollowInv, [Next]_vars
    PROVE  FollowInv'
<1>1. CASE LogEvent \/ Reset
  BY <1>1, RingStepFollows
<1>2. CASE ~LogEvent /\ ~Reset
  <2>1. wrapped' = wrapped /\ UNCHANGED logVars
    BY <1>2 DEF Next, Answer, RequestInfo, RequestRecord, Timeout,
         HeartbeatTimeout, Heartbeat, DelayHeartbeat, HandleDelayedHeartbeat,
         HandleResponse, Reconnect, Lose, vars, bounds
  <2>2. Stored' = Stored /\ (Straddles' <=> Straddles)
    BY <2>1 DEF logVars, ring, Stored, Straddles, Info, Logged, RecordAt
  <2>3. SUFFICES ASSUME ~wrapped, Ordered(Stored) PROVE Follows'
    BY <2>1, <2>2 DEF FollowInv
  <2>4. Follows /\ ~Straddles /\ Rows
    BY <2>3 DEF FollowInv, RowsInv
  <2>5. CASE Answer
    BY <2>4, <2>5, AnswerFollows
  <2>6. CASE HandleResponse
    BY <2>3, <2>4, <2>6, ResponseFollows
  <2>7. CASE Reconnect
    BY <2>4, <2>7, ReconnectFollows
  <2>8. CASE ~Answer /\ ~HandleResponse /\ ~Reconnect
    BY <1>2, <2>4, <2>8, PollFollows DEF Next
  <2> QED BY <2>5, <2>6, <2>7, <2>8
<1> QED BY <1>1, <1>2

\* Wherever the reader goes on, all that the log still holds before is in the
\* files or given up, as long as the sequence numbers have not wrapped.
THEOREM FollowInvariance == Spec => []FollowInv
<1>1. Init => FollowInv
  <2> SUFFICES ASSUME Init PROVE FollowInv
    OBVIOUS
  <2>1. /\ ResetSync.latest_sequence = 0 /\ ResetSync.next_sequence = None
        /\ ResetSync.pending_sequence = None /\ ResetSync.last_saved_sequence = 0
        /\ Heard(ResetSync) = {} /\ ResetSync.saved_sequences = {}
        /\ ~ResetSync.bootstrap_complete
    BY DEF ResetSync, Heard, NoFragments
  <2>2. SyncFollows(Stored, Open, sync)
    BY <2>1 DEF Init, SyncFollows, Reached
  <2>3. Contents("info", toReader) = {}
    BY DEF Init, Contents
  <2> QED BY <2>1, <2>2, <2>3 DEF Init, FollowInv, Follows, WasEmpty
<1>2. RingInv /\ RingInv' /\ ReaderInv /\ RowsInv /\ FollowInv /\ [Next]_vars
          => FollowInv'
  BY StepFollows
<1> QED BY <1>1, <1>2, RingInvariance, ReaderInvariance, RowsInvariance, PTL DEF Spec

\* A reader that has nothing left to ask for has the whole log in its files, but
\* for the records that it gave up (process of stm32_log_sync.py).
THEOREM CaughtUpIsSaved == Spec => []SavedWhenCaughtUp
<1>1. RingInv /\ ReaderInv /\ RowsInv /\ FollowInv => SavedWhenCaughtUp
  <2> SUFFICES ASSUME RingInv, ReaderInv, RowsInv, FollowInv,
                      CaughtUp, ~mixed, ~wrapped,
                      NEW n \in 1 .. count
               PROVE  Logged[n] \in exported \/ Logged[n].sequence \in skipped
    BY DEF SavedWhenCaughtUp
  <2>1. storage_ready /\ count # 0 /\ count \in 1 .. Capacity
    <3>1. count \in 0 .. Capacity
      BY LiveIs
    <3> QED BY <3>1, CapacityAssumption DEF RingInv, RingIs, Nothing
  <2>2. Rows /\ Ordered(Stored) /\ ~Straddles /\ Follows
    BY <2>1 DEF RowsInv, Rows, FollowInv
  <2>3. PICK newest \in Indices, run \in 1 .. Capacity :
            Window(slots, newest, run) /\ count = run
    BY <2>1, RingCases
  <2> DEFINE latest == slots[newest].body.sequence
  <2>4. latest \in Sequences /\ Info.latest = latest
        /\ \A m \in 0 .. run - 1 :
              slots[Back(newest, m)].body.sequence = latest - m
    BY <2>1, <2>2, <2>3, RunInOrder
  <2>5. \A r \in Stored : r.sequence <= latest /\ r.sequence \in Int
    <3>1. slots \in RAM
      BY DEF RingInv
    <3>2. Stored = {slots[Back(newest, m)].body : m \in 0 .. run - 1}
      BY <2>3, <3>1, HeldInRun DEF Stored
    <3> HIDE DEF latest
    <3> QED BY <2>4, <3>2 DEF Sequences
  <2> HIDE DEF latest
  <2>6. sync.latest_sequence = latest /\ latest > 0 /\ latest \in Int
    BY <2>4 DEF CaughtUp, Sequences
  <2>7. sync.next_sequence # None
    BY <2>2, <2>6 DEF Follows, WasEmpty, CaughtUp
  <2>8. /\ sync.next_sequence \in Int /\ sync.next_sequence > latest
        /\ From(Open, sync.next_sequence)
    <3>1. ~(sync.next_sequence <= latest)
      BY <2>6, <2>7 DEF CaughtUp, WantsRecord, MayRequest
    <3>2. sync.next_sequence \in Int
      BY <2>7, SyncNumbers DEF ReaderInv
    <3> QED BY <2>2, <2>6, <2>7, <3>1, <3>2 DEF Follows, SyncFollows, Passed
  <2>9. Open = {}
    <3>1. \A r \in Open : r \in Stored
      BY DEF Open
    <3> QED BY <2>5, <2>6, <2>8, <3>1 DEF From
  <2>10. Logged[n] \in Stored
    BY LiveIs
  <2> QED BY <2>9, <2>10 DEF Open
<1> QED BY <1>1, RingInvariance, ReaderInvariance, RowsInvariance,
           FollowInvariance, PTL

-----------------------------------------------------------------------------
(* The retries of the reader.                                              *)

\* What a channel can still cost the reader: a fragment that completes a
\* record takes another with it, an error frame ends a request alone.
Weight(channel) ==
    Len(channel)
        + Cardinality({i \in 1 .. Len(channel) : channel[i].kind = "error"})

\* The reader holds a fragment of the response that it waits for.
Holds(s) ==
    \/ s.pending_kind = "info" /\ \E part \in {1, 2} : s.info_fragments[part] # None
    \/ s.pending_kind = "record" /\ \E part \in {1, 2} : s.record_fragments[part] # None
Held(s) == IF Holds(s) THEN 1 ELSE 0
Waits(s) == IF s.pending_kind = "none" THEN 0 ELSE 2

Unfinished(s) ==
    /\ s.pending_kind = "info" => ~Complete(s.info_fragments)
    /\ s.pending_kind = "record" => ~Complete(s.record_fragments)

\* What is under way belongs to late answers and to the pending request.
DebtInv ==
    /\ late \in Nat
    /\ Unfinished(sync)
    /\ 2 * Len(toDevice) + Weight(toReader) + Held(sync) <= 2 * late + Waits(sync)

\* Behind the first requests and fragments, all records are of one number.
Since(device, channel, number, d, o) ==
    /\ d > 0 => o = Len(channel)
    /\ \A i \in d + 1 .. Len(device) :
          device[i].kind = "record" => device[i].sequence = number
    /\ \A i \in o + 1 .. Len(channel) :
          channel[i].kind = "record" => channel[i].content.sequence = number

\* The fragments that the reader holds are of that number too, unless one of
\* them is from before.
Own(s, number, d, o, h) ==
    h = 0 =>
      /\ Holds(s) => d = 0 /\ o = 0
      /\ s.pending_kind = "record" =>
            \A part \in {1, 2} :
                \/ s.record_fragments[part] = None
                \/ s.record_fragments[part].sequence = number

\* Every rejection of the record last asked for took a fragment from before.
Counted(s, number, device, channel, answers) ==
    \E d \in 0 .. Len(device), o \in 0 .. Len(channel), h \in {0, 1} :
        /\ Since(device, channel, number, d, o)
        /\ Own(s, number, d, o, h)
        /\ 2 * s.record_retries[number] + 2 * d + o + h <= 2 * answers

\* The retries of a reader that has not gone back.
Retries ==
    /\ asked \in Numbers
    /\ sync.pending_kind = "record" => sync.pending_sequence = asked
    /\ \A q \in ReaderSequences : q > asked => sync.record_retries[q] = 0
    /\ Counted(sync, asked, toDevice, toReader, late)
    /\ late <= MaxRecordRetries => skipped = {}

RetryInv == DebtInv /\ (~wrapped /\ asked # None => Retries)

\* Frames that are no errors weigh one each, an error weighs two.
LEMMA WeightIs ==
    ASSUME NEW a \in Seq(ResponseFrames)
    PROVE  /\ Weight(a) \in Nat /\ Len(a) <= Weight(a)
           /\ a = <<>> => Weight(a) = 0
           /\ \A n \in 0 .. Len(a) :
                 Weight(SubSeq(a, 1, n)) <= Weight(a) /\ Len(SubSeq(a, 1, n)) = n
           /\ a # <<>> =>
                 /\ Weight(Tail(a)) + 1 <= Weight(a)
                 /\ Head(a).kind = "error" => Weight(Tail(a)) + 2 <= Weight(a)
<1> DEFINE errors(channel) == {i \in 1 .. Len(channel) : channel[i].kind = "error"}
<1>1. \A b \in Seq(ResponseFrames) :
          /\ IsFiniteSet(errors(b)) /\ Cardinality(errors(b)) \in Nat
          /\ Weight(b) = Len(b) + Cardinality(errors(b))
  <2> TAKE b \in Seq(ResponseFrames)
  <2>1. IsFiniteSet(1 .. Len(b))
    BY FS_Interval
  <2>2. errors(b) \in SUBSET (1 .. Len(b))
    OBVIOUS
  <2>3. IsFiniteSet(errors(b))
    BY <2>1, <2>2, FS_Subset
  <2> QED BY <2>3, FS_CardinalityType DEF Weight
<1>2. a = <<>> => Weight(a) = 0
  <2> SUFFICES ASSUME a = <<>> PROVE Weight(a) = 0
    OBVIOUS
  <2>1. errors(a) = {} /\ Len(a) = 0
    OBVIOUS
  <2>2. Weight(a) = Len(a) + Cardinality(errors(a))
    BY <1>1
  <2> HIDE DEF errors
  <2>3. Cardinality(errors(a)) = 0
    BY <2>1, FS_EmptySet
  <2> QED BY <2>1, <2>2, <2>3
<1>3. ASSUME NEW n \in 0 .. Len(a)
      PROVE  Weight(SubSeq(a, 1, n)) <= Weight(a) /\ Len(SubSeq(a, 1, n)) = n
  <2> DEFINE b == SubSeq(a, 1, n)
  <2>1. b \in Seq(ResponseFrames)
    BY ContentsIs
  <2>2. Len(b) = n /\ \A i \in 1 .. n : b[i] = a[i]
    OBVIOUS
  <2> HIDE DEF b
  <2>3. errors(b) \in SUBSET errors(a)
    BY <2>2
  <2> HIDE DEF errors
  <2>4. Cardinality(errors(b)) <= Cardinality(errors(a))
    BY <1>1, <2>3, FS_Subset
  <2>9. Weight(b) <= Weight(a) /\ Len(b) = n
    BY <1>1, <2>1, <2>2, <2>4
  <2> QED BY <2>9 DEF b
<1>4. ASSUME a # <<>>
      PROVE  /\ Weight(Tail(a)) + 1 <= Weight(a)
             /\ Head(a).kind = "error" => Weight(Tail(a)) + 2 <= Weight(a)
  <2> DEFINE b == Tail(a)
             rest == errors(a) \ {1}
  <2>1. /\ b \in Seq(ResponseFrames) /\ Len(b) = Len(a) - 1
        /\ \A i \in 1 .. Len(b) : i + 1 \in 1 .. Len(a) /\ b[i] = a[i + 1]
        /\ 1 \in 1 .. Len(a) /\ Head(a) = a[1]
    BY <1>4
  <2> HIDE DEF b
  <2>2. [i \in errors(b) |-> i + 1] \in Injection(errors(b), rest)
    <3> DEFINE f == [i \in errors(b) |-> i + 1]
    <3>1. \A i \in errors(b) : f[i] = i + 1 /\ i \in Nat /\ i + 1 \in rest
      BY <2>1
    <3>2. f \in [errors(b) -> rest]
      <4> HIDE DEF errors, rest
      <4> QED BY <3>1
    <3>3. \A i, j \in errors(b) : f[i] = f[j] => i = j
      <4> HIDE DEF errors
      <4> QED BY <3>1
    <3> HIDE DEF f, errors, rest
    <3>9. f \in Injection(errors(b), rest)
      BY <3>2, <3>3 DEF Injection, IsInjective
    <3> QED BY <3>9 DEF f
  <2>3. 1 \in errors(a) <=> Head(a).kind = "error"
    BY <2>1
  <2> HIDE DEF errors
  <2>4. /\ IsFiniteSet(rest)
        /\ Cardinality(rest) = IF 1 \in errors(a) THEN Cardinality(errors(a)) - 1
                                                  ELSE Cardinality(errors(a))
    BY <1>1, FS_RemoveElement
  <2> HIDE DEF rest
  <2>5. Cardinality(errors(b)) <= Cardinality(rest)
    BY <2>2, <2>4, FS_Injection
  <2>9. /\ Weight(b) + 1 <= Weight(a)
        /\ Head(a).kind = "error" => Weight(b) + 2 <= Weight(a)
    BY <1>1, <2>1, <2>3, <2>4, <2>5
  <2> QED BY <2>9 DEF b
<1>5. Weight(a) \in Nat /\ Len(a) <= Weight(a)
  <2> HIDE DEF errors
  <2> QED BY <1>1
<1> QED BY <1>2, <1>3, <1>4, <1>5

\* What the device sends in answer to a request.
Sent(request, sent) ==
    /\ Len(sent) <= 2
    /\ \/ \A i \in 1 .. Len(sent) : sent[i].kind # "error"
       \/ Len(sent) = 1
    /\ \A i \in 1 .. Len(sent) : sent[i].kind = "record" =>
          request.kind = "record" /\ sent[i].content.sequence = request.sequence

LEMMA AnswerIs ==
    ASSUME RingInv, ReaderInv, Answer
    PROVE  \E sent \in Seq(ResponseFrames) :
              Sent(Head(toDevice), sent) /\ toReader' = toReader \o sent
<1> DEFINE request == Head(toDevice)
           response == Response(request)
<1>1. /\ toDevice # <<>>
      /\ \/ toReader' = toReader \o response
         \/ \E n \in 0 .. Len(response) - 1 :
               toReader' = toReader \o SubSeq(response, 1, n)
  BY DEF Answer
<1>2. request \in RequestFrames
  BY <1>1 DEF ReaderInv
<1>3. response \in Seq(ResponseFrames)
  BY <1>2, ResponseIs
<1>4. Sent(request, response)
  <2>1. CASE request.kind = "info"
    <3>1. response = <<[kind |-> "info", part |-> 1, content |-> Info],
                       [kind |-> "info", part |-> 2, content |-> Info]>>
      BY <2>1 DEF Response, Parts
    <3> HIDE DEF response
    <3> QED BY <1>3, <3>1 DEF Sent
  <2>2. CASE request.kind # "info" /\ Found(request.sequence) = {}
    <3>1. response = <<[kind |-> "error", part |-> 1, content |-> request.sequence]>>
      BY <2>2 DEF Response
    <3> HIDE DEF response
    <3> QED BY <1>3, <3>1 DEF Sent
  <2>3. CASE request.kind # "info" /\ Found(request.sequence) # {}
    <3> DEFINE record == CHOOSE r \in Found(request.sequence) : TRUE
    <3>1. response = <<[kind |-> "record", part |-> 1, content |-> record],
                       [kind |-> "record", part |-> 2, content |-> record]>>
      BY <2>3 DEF Response, Parts
    <3>2. record \in Found(request.sequence)
      BY <2>3
    <3>3. record.sequence = request.sequence
      BY <3>2 DEF Found
    <3>4. request.kind = "record"
      BY <1>2, <2>3 DEF RequestFrames
    <3> HIDE DEF response, record
    <3> QED BY <1>3, <3>1, <3>3, <3>4 DEF Sent
  <2> QED BY <2>1, <2>2, <2>3
<1> HIDE DEF request, response
<1>5. ASSUME NEW n \in 0 .. Len(response) - 1
      PROVE  /\ SubSeq(response, 1, n) \in Seq(ResponseFrames)
             /\ Sent(request, SubSeq(response, 1, n))
  <2> DEFINE sent == SubSeq(response, 1, n)
  <2>1. n \in 0 .. Len(response)
    BY <1>3
  <2>2. sent \in Seq(ResponseFrames)
    BY <1>3, <2>1, ContentsIs
  <2>3. Len(sent) = n /\ \A i \in 1 .. n : sent[i] = response[i] /\ i \in 1 .. Len(response)
    BY <1>3, <2>1
  <2>4. Len(sent) <= 2 /\ (n > 0 => Len(response) # 1)
    BY <1>3, <1>4, <2>3 DEF Sent
  <2> HIDE DEF sent
  <2>5. \A i \in 1 .. Len(sent) : sent[i].kind # "error"
    BY <1>3, <1>4, <2>3, <2>4 DEF Sent
  <2>9. Sent(request, sent)
    BY <1>4, <2>3, <2>4, <2>5 DEF Sent
  <2> QED BY <2>2, <2>9 DEF sent
<1> QED BY <1>1, <1>3, <1>4, <1>5 DEF request

\* An answer weighs no more than its request.
LEMMA AnswerWeighs ==
    ASSUME NEW a \in Seq(ResponseFrames), NEW sent \in Seq(ResponseFrames),
           NEW request, Sent(request, sent)
    PROVE  Weight(a \o sent) <= Weight(a) + 2
<1> DEFINE errors(channel) == {i \in 1 .. Len(channel) : channel[i].kind = "error"}
           b == a \o sent
<1>1. /\ b \in Seq(ResponseFrames) /\ Len(b) = Len(a) + Len(sent)
      /\ \A i \in 1 .. Len(b) : IF i <= Len(a) THEN b[i] = a[i]
                                ELSE i - Len(a) \in 1 .. Len(sent) /\ b[i] = sent[i - Len(a)]
      /\ Len(sent) \in Nat /\ Len(sent) <= 2 /\ Len(a) \in Nat
  <2>1. Len(sent) <= 2
    BY DEF Sent
  <2>2. /\ b \in Seq(ResponseFrames) /\ Len(b) = Len(a) + Len(sent)
        /\ \A i \in 1 .. Len(a) + Len(sent) :
               b[i] = IF i <= Len(a) THEN a[i] ELSE sent[i - Len(a)]
    BY ConcatProperties
  <2> HIDE DEF b
  <2>3. Len(sent) \in Nat /\ Len(a) \in Nat
    OBVIOUS
  <2> QED BY <2>1, <2>2, <2>3
<1> HIDE DEF b
<1>2. IsFiniteSet(errors(a)) /\ Cardinality(errors(a)) \in Nat
  <2>1. IsFiniteSet(1 .. Len(a)) /\ errors(a) \in SUBSET (1 .. Len(a))
    BY FS_Interval
  <2> QED BY <2>1, FS_Subset, FS_CardinalityType
<1>3. CASE \A i \in 1 .. Len(sent) : sent[i].kind # "error"
  <2>1. \A i \in 1 .. Len(b) : IF i <= Len(a) THEN b[i] = a[i]
                               ELSE b[i].kind # "error"
    BY <1>1, <1>3
  <2>2. errors(b) = errors(a)
    BY <1>1, <2>1
  <2> HIDE DEF errors
  <2>9. Len(b) + Cardinality(errors(b)) <= Len(a) + Cardinality(errors(a)) + 2
    BY <1>1, <1>2, <2>2
  <2> QED BY <2>9 DEF Weight, b, errors
<1>4. CASE Len(sent) = 1
  <2>1. errors(b) \in SUBSET (errors(a) \cup {Len(a) + 1})
    BY <1>1, <1>4
  <2> HIDE DEF errors
  <2>2. /\ IsFiniteSet(errors(a) \cup {Len(a) + 1})
        /\ Cardinality(errors(a) \cup {Len(a) + 1}) <= Cardinality(errors(a)) + 1
    <3>1. /\ IsFiniteSet(errors(a) \cup {Len(a) + 1})
          /\ Cardinality(errors(a) \cup {Len(a) + 1}) =
                IF Len(a) + 1 \in errors(a) THEN Cardinality(errors(a))
                                            ELSE Cardinality(errors(a)) + 1
      BY <1>2, FS_AddElement
    <3> QED BY <1>2, <3>1
  <2> DEFINE more == errors(a) \cup {Len(a) + 1}
  <2>3. Cardinality(more) \in Nat /\ Cardinality(more) <= Cardinality(errors(a)) + 1
    BY <2>2, FS_CardinalityType
  <2>4. Cardinality(errors(b)) <= Cardinality(more) /\ Cardinality(errors(b)) \in Nat
    BY <2>1, <2>2, FS_Subset, FS_CardinalityType
  <2> HIDE DEF more
  <2>9. Len(b) + Cardinality(errors(b)) <= Len(a) + Cardinality(errors(a)) + 2
    BY <1>1, <1>2, <1>4, <2>3, <2>4
  <2> QED BY <2>9 DEF Weight, b, errors
<1> QED BY <1>3, <1>4 DEF Sent

\* A reader that waits for nothing holds nothing.
LEMMA IdleIs ==
    ASSUME NEW s, s.pending_kind = "none"
    PROVE  /\ Held(s) = 0 /\ Waits(s) = 0 /\ Unfinished(s)
           /\ \A number, d, o, h : Own(s, number, d, o, h)
  BY DEF Held, Holds, Waits, Unfinished, Own

\* The requests of the reader.
LEMMA AsksAre ==
    ASSUME NEW s, SyncOK(s)
    PROVE  /\ InfoRequested(s).pending_kind = "info"
           /\ ~Holds(InfoRequested(s)) /\ Unfinished(InfoRequested(s))
           /\ InfoRequested(s).record_retries = s.record_retries
           /\ RecordRequested(s).pending_kind = "record"
           /\ RecordRequested(s).pending_sequence = s.next_sequence
           /\ ~Holds(RecordRequested(s)) /\ Unfinished(RecordRequested(s))
           /\ RecordRequested(s).record_retries = s.record_retries
           /\ RequestTimedOut(s).pending_kind = "none"
           /\ RequestTimedOut(s).record_retries = s.record_retries
<1>1. s \in Syncs
  BY DEF SyncOK
<1>2. NoFragments[1] = None /\ NoFragments[2] = None
  BY DEF NoFragments
<1>3. /\ InfoRequested(s).pending_kind = "info"
      /\ InfoRequested(s).info_fragments = NoFragments
      /\ InfoRequested(s).record_retries = s.record_retries
  BY <1>1 DEF InfoRequested, Syncs
<1>4. /\ RecordRequested(s).pending_kind = "record"
      /\ RecordRequested(s).pending_sequence = s.next_sequence
      /\ RecordRequested(s).record_fragments = NoFragments
      /\ RecordRequested(s).record_retries = s.record_retries
  BY <1>1 DEF RecordRequested, Syncs
<1>5. /\ RequestTimedOut(s).pending_kind = "none"
      /\ RequestTimedOut(s).record_retries = s.record_retries
  BY <1>1 DEF RequestTimedOut, Syncs
<1> QED BY <1>2, <1>3, <1>4, <1>5 DEF Holds, Unfinished, Complete

\* The reader waits for what it waited for, with the fragments that it had.
SameWait(s, t) ==
    /\ t.pending_kind = s.pending_kind
    /\ t.pending_sequence = s.pending_sequence
    /\ t.info_fragments = s.info_fragments
    /\ t.record_fragments = s.record_fragments
    /\ t.record_retries = s.record_retries

\* A heartbeat leaves the pending request alone.
LEMMA BeatsAre ==
    ASSUME NEW s, SyncOK(s)
    PROVE  /\ \A beat : SameWait(s, HeartbeatHandled(s, beat))
           /\ SameWait(s, [s EXCEPT !.heartbeat_timeout_active = TRUE])
<1>1. s \in Syncs
  BY DEF SyncOK
<1>2. ASSUME NEW beat PROVE SameWait(s, HeartbeatHandled(s, beat))
  BY <1>1 DEF HeartbeatHandled, SameWait, Syncs
<1>3. SameWait(s, [s EXCEPT !.heartbeat_timeout_active = TRUE])
  BY <1>1 DEF SameWait, Syncs
<1> QED BY <1>2, <1>3

LEMMA SameWaitIs ==
    ASSUME NEW s, NEW t, SameWait(s, t)
    PROVE  /\ Held(t) = Held(s) /\ Waits(t) = Waits(s)
           /\ Unfinished(s) => Unfinished(t)
           /\ \A number, d, o, h :
                 Own(s, number, d, o, h) => Own(t, number, d, o, h)
  BY DEF SameWait, Held, Holds, Waits, Unfinished, Own

\* The retries of any record are what they were, or counted anew.
Forgiven(s, t) ==
    \A q \in ReaderSequences : t.record_retries[q] \in {0, s.record_retries[q]}

\* What a fragment of a response does to the reader: it goes on waiting, its
\* wait ends, or it rejects a record that is not of one answer to its request.
GoesOn(s, t, frame) ==
    /\ t.pending_kind = s.pending_kind
    /\ t.pending_sequence = s.pending_sequence
    /\ t.record_retries = s.record_retries
    /\ Unfinished(t)
    /\ \A part \in {1, 2} :
          \/ t.record_fragments[part] = s.record_fragments[part]
          \/ frame.kind = "record" /\ t.record_fragments[part] = frame.content

Ends(s, t, frame) ==
    /\ t.pending_kind = "none"
    /\ frame.kind = "error" \/ Holds(s)
    /\ Forgiven(s, t)

Mismatch(s, frame) ==
    \E fragments :
        /\ \A part \in {1, 2} :
              \/ fragments[part] = frame.content
              \/ /\ fragments[part] = s.record_fragments[part]
                 /\ fragments[part] # None
        /\ ~(fragments[1] = fragments[2]
             /\ fragments[1].sequence = s.pending_sequence)

Rejects(s, t, frame) ==
    /\ s.pending_kind = "record" /\ frame.kind = "record"
    /\ Holds(s) /\ Mismatch(s, frame)
    /\ t.pending_kind = "none"

LEMMA FragmentHandled ==
    ASSUME ReaderInv, Unfinished(sync), HandleResponse
    PROVE  LET frame == Head(toReader)
               p == sync.pending_sequence
           IN  /\ toReader # <<>> /\ frame \in ResponseFrames
               /\ toReader' = Tail(toReader)
               /\ UNCHANGED <<toDevice, asked, late>>
               /\ \/ GoesOn(sync, sync', frame) /\ UNCHANGED skipped
                  \/ Ends(sync, sync', frame) /\ UNCHANGED skipped
                  \/ /\ Rejects(sync, sync', frame)
                     /\ sync.record_retries[p] + 1 > MaxRecordRetries
                     /\ Forgiven(sync, sync')
                  \/ /\ Rejects(sync, sync', frame)
                     /\ UNCHANGED skipped
                     /\ sync'.record_retries =
                           [sync.record_retries EXCEPT ![p] = @ + 1]
<1> DEFINE frame == Head(toReader)
           p == sync.pending_sequence
<1>1. /\ toReader # <<>> /\ toReader' = Tail(toReader)
      /\ UNCHANGED <<toDevice, late>>
      /\ \/ frame.kind = "info" /\ HandleInfo(frame)
         \/ frame.kind = "record" /\ HandleRecord(frame)
         \/ /\ frame.kind = "error"
            /\ sync' = ErrorHandled(sync) /\ UNCHANGED rows
  BY DEF HandleResponse, rows
<1>2. frame \in ResponseFrames /\ SyncOK(sync) /\ sync \in Syncs
  BY <1>1 DEF ReaderInv, SyncOK
<1> HIDE DEF frame
<1>3. CASE frame.kind = "error" /\ sync' = ErrorHandled(sync) /\ UNCHANGED rows
  <2>1. sync'.pending_kind = "none" /\ sync'.record_retries = sync.record_retries
    BY <1>2, <1>3 DEF ErrorHandled, Syncs
  <2> QED BY <1>1, <1>2, <1>3, <2>1 DEF Ends, Forgiven, rows, frame
<1>4. CASE frame.kind = "info" /\ HandleInfo(frame)
  <2> DEFINE fragments == [sync.info_fragments EXCEPT ![frame.part] = frame.content]
             taken == [sync EXCEPT !.info_fragments[frame.part] = frame.content]
  <2>1. frame.content \in Infos /\ frame.part \in {1, 2}
    BY <1>2, <1>4 DEF ResponseFrames
  <2>2. /\ taken = [sync EXCEPT !.info_fragments = fragments]
        /\ fragments \in [{1, 2} -> Infos \cup {None}]
        /\ \A part \in {1, 2} :
              part # frame.part => fragments[part] = sync.info_fragments[part]
    <3>1. sync.info_fragments \in [{1, 2} -> Infos \cup {None}]
      BY <1>2 DEF Syncs
    <3> QED BY <1>2, <2>1, <3>1 DEF Syncs
  <2>3. /\ UNCHANGED <<skipped, asked>>
        /\ \/ sync.pending_kind # "info" /\ sync' = sync
           \/ /\ sync.pending_kind = "info" /\ ~Complete(taken.info_fragments)
              /\ sync' = taken
           \/ /\ sync.pending_kind = "info" /\ Complete(taken.info_fragments)
              /\ sync' = InfoCompleted(taken)
    BY <1>4 DEF HandleInfo
  <2> HIDE DEF fragments, taken
  <2>4. /\ taken \in Syncs /\ taken.info_fragments = fragments
        /\ taken.record_fragments = sync.record_fragments
        /\ taken.pending_kind = sync.pending_kind
        /\ taken.pending_sequence = sync.pending_sequence
        /\ taken.record_retries = sync.record_retries
    BY <1>2, <2>2 DEF Syncs
  <2>5. CASE sync' = sync
    <3>1. GoesOn(sync, sync', frame)
      BY <2>5 DEF GoesOn
    <3> QED BY <1>1, <1>2, <2>3, <3>1 DEF frame
  <2>6. CASE /\ sync.pending_kind = "info" /\ ~Complete(taken.info_fragments)
             /\ sync' = taken
    <3>1. GoesOn(sync, sync', frame)
      BY <2>4, <2>6 DEF GoesOn, Unfinished
    <3> QED BY <1>1, <1>2, <2>3, <3>1 DEF frame
  <2>7. CASE /\ sync.pending_kind = "info" /\ Complete(taken.info_fragments)
             /\ sync' = InfoCompleted(taken)
    <3>1. Holds(sync)
      BY <2>1, <2>2, <2>4, <2>7 DEF Holds, Complete
    <3>2. /\ sync'.pending_kind = "none"
          /\ sync'.record_retries \in {taken.record_retries, NoRetries}
      <4> HIDE DEF NoRetries, NoFragments
      <4>1. CASE Restarted(taken, taken.info_fragments[2].latest)
        BY <2>4, <2>7, <4>1 DEF InfoCompleted, Syncs
      <4>2. CASE ~Restarted(taken, taken.info_fragments[2].latest)
        BY <2>4, <2>7, <4>2 DEF InfoCompleted, Syncs
      <4> QED BY <4>1, <4>2
    <3>3. \A q \in ReaderSequences : NoRetries[q] = 0
      BY DEF NoRetries
    <3>4. Forgiven(sync, sync')
      BY <2>4, <3>2, <3>3 DEF Forgiven
    <3>5. Ends(sync, sync', frame)
      BY <3>1, <3>2, <3>4 DEF Ends
    <3> QED BY <1>1, <1>2, <2>3, <3>5 DEF frame
  <2> QED BY <2>3, <2>5, <2>6, <2>7
<1>5. CASE frame.kind = "record" /\ HandleRecord(frame)
  <2> DEFINE fragments == [sync.record_fragments EXCEPT ![frame.part] = frame.content]
             taken == [sync EXCEPT !.record_fragments[frame.part] = frame.content]
  <2>1. frame.content \in Records /\ frame.part \in {1, 2}
    BY <1>2, <1>5 DEF ResponseFrames
  <2>2. /\ taken = [sync EXCEPT !.record_fragments = fragments]
        /\ fragments \in [{1, 2} -> Records \cup {None}]
        /\ \A part \in {1, 2} :
              /\ part # frame.part => fragments[part] = sync.record_fragments[part]
              /\ part = frame.part => fragments[part] = frame.content
    <3>1. sync.record_fragments \in [{1, 2} -> Records \cup {None}]
      BY <1>2 DEF Syncs
    <3> QED BY <1>2, <2>1, <3>1 DEF Syncs
  <2>3. /\ UNCHANGED asked
        /\ \/ sync' = sync /\ UNCHANGED skipped
           \/ /\ sync.pending_kind = "record" /\ ~Complete(taken.record_fragments)
              /\ sync' = taken /\ UNCHANGED skipped
           \/ /\ sync.pending_kind = "record" /\ Complete(taken.record_fragments)
              /\ CompleteRecord(taken)
    BY <1>5 DEF HandleRecord, reader, rows
  <2> HIDE DEF fragments, taken
  <2>4. /\ taken \in Syncs /\ SyncOK(taken) /\ taken.record_fragments = fragments
        /\ taken.pending_kind = sync.pending_kind
        /\ taken.pending_sequence = sync.pending_sequence
        /\ taken.record_retries = sync.record_retries
    BY <1>2, <2>2 DEF Syncs, SyncOK
  <2>5. CASE sync' = sync /\ UNCHANGED skipped
    <3>1. GoesOn(sync, sync', frame)
      BY <2>5 DEF GoesOn
    <3> QED BY <1>1, <1>2, <2>3, <2>5, <3>1 DEF frame
  <2>6. CASE /\ sync.pending_kind = "record" /\ ~Complete(taken.record_fragments)
             /\ sync' = taken /\ UNCHANGED skipped
    <3>1. GoesOn(sync, sync', frame)
      BY <1>5, <2>2, <2>4, <2>6 DEF GoesOn, Unfinished
    <3> QED BY <1>1, <1>2, <2>3, <2>6, <3>1 DEF frame
  <2>7. CASE /\ sync.pending_kind = "record" /\ Complete(taken.record_fragments)
             /\ CompleteRecord(taken)
    <3>1. Holds(sync)
      BY <2>1, <2>2, <2>4, <2>7 DEF Holds, Complete
    <3>2. /\ RecordTaken(taken) \in Syncs
          /\ RecordTaken(taken).pending_kind = "none"
          /\ RecordTaken(taken).record_retries = sync.record_retries
      <4>1. RecordTaken(taken) \in Syncs
        BY <2>4, RequestsKeepSync DEF SyncOK
      <4> QED BY <2>4, <4>1 DEF RecordTaken, Syncs
    <3> DEFINE dropped == RecordTaken(taken)
    <3> HIDE DEF dropped
    <3>3. CASE Acceptable(taken)
      <4> DEFINE n == Assembled(taken).sequence
      <4>1. /\ UNCHANGED skipped
            /\ sync' \in {dropped, RecordSaved(taken, n)}
        BY <2>7, <3>3 DEF CompleteRecord, dropped
      <4> HIDE DEF n
      <4>2. /\ RecordSaved(taken, n).pending_kind = dropped.pending_kind
            /\ RecordSaved(taken, n).record_retries =
                  [dropped.record_retries EXCEPT ![n] = 0]
        BY <3>2 DEF RecordSaved, Syncs, dropped
      <4>3. Forgiven(sync, sync')
        <5>1. sync.record_retries \in [ReaderSequences -> 0 .. MaxRecordRetries]
          BY <1>2 DEF Syncs
        <5> QED BY <3>2, <4>1, <4>2, <5>1 DEF Forgiven, dropped
      <4>4. Ends(sync, sync', frame)
        BY <3>1, <3>2, <4>1, <4>2, <4>3 DEF Ends, dropped
      <4> QED BY <1>1, <1>2, <2>3, <4>1, <4>4 DEF frame
    <3>4. CASE ~Acceptable(taken)
      <4>1. /\ sync' = RecordRejected(taken)
            /\ ~GivesUp(taken) => UNCHANGED skipped
        BY <2>7, <3>4 DEF CompleteRecord
      <4>2. GivesUp(taken) <=> sync.record_retries[p] + 1 > MaxRecordRetries
        BY <2>4 DEF GivesUp
      <4>3. /\ sync'.pending_kind = "none"
            /\ GivesUp(taken) =>
                  sync'.record_retries = [sync.record_retries EXCEPT ![p] = 0]
            /\ ~GivesUp(taken) =>
                  sync'.record_retries = [sync.record_retries EXCEPT ![p] = @ + 1]
        <5>1. CASE GivesUp(taken)
          <6>1. sync' = [dropped EXCEPT !.record_retries[p] = 0,
                                        !.next_sequence = p + 1]
            BY <2>4, <4>1, <5>1 DEF RecordRejected, dropped
          <6> QED BY <3>2, <5>1, <6>1 DEF Syncs, dropped
        <5>2. CASE ~GivesUp(taken)
          <6>1. sync' = [dropped EXCEPT !.record_retries[p] = @ + 1]
            BY <2>4, <4>1, <5>2 DEF RecordRejected, dropped
          <6> QED BY <3>2, <5>2, <6>1 DEF Syncs, dropped
        <5> QED BY <5>1, <5>2
      <4>4. Mismatch(sync, frame)
        <5>1. ~(fragments[1] = fragments[2] /\ fragments[1].sequence = p)
          BY <2>4, <3>4 DEF Acceptable, Assembled
        <5>2. \A part \in {1, 2} :
                 \/ fragments[part] = frame.content
                 \/ /\ fragments[part] = sync.record_fragments[part]
                    /\ fragments[part] # None
          BY <2>2, <2>4, <2>7 DEF Complete
        <5> QED BY <5>1, <5>2 DEF Mismatch
      <4>5. Rejects(sync, sync', frame)
        BY <1>5, <2>7, <3>1, <4>3, <4>4 DEF Rejects
      <4>6. GivesUp(taken) => Forgiven(sync, sync')
        <5>1. sync.record_retries \in [ReaderSequences -> 0 .. MaxRecordRetries]
          BY <1>2 DEF Syncs
        <5> QED BY <4>3, <5>1 DEF Forgiven
      <4> QED BY <1>1, <1>2, <2>3, <4>1, <4>2, <4>3, <4>5, <4>6 DEF frame
    <3> QED BY <3>3, <3>4
  <2> QED BY <2>3, <2>5, <2>6, <2>7
<1> QED BY <1>1, <1>3, <1>4, <1>5

\* Every late answer pays for what it leaves under way.
LEMMA StepKeepsDebt ==
    ASSUME RingInv, ReaderInv, DebtInv, [Next]_vars
    PROVE  DebtInv'
<1>1. /\ toDevice \in Seq(RequestFrames) /\ toReader \in Seq(ResponseFrames)
      /\ Len(toDevice) \in Nat /\ Len(toReader) \in Nat
      /\ SyncOK(sync) /\ late \in Nat /\ Unfinished(sync)
      /\ 2 * Len(toDevice) + Weight(toReader) + Held(sync) <= 2 * late + Waits(sync)
      /\ Weight(toReader) \in Nat /\ Held(sync) \in {0, 1} /\ Waits(sync) \in {0, 2}
  BY WeightIs DEF ReaderInv, DebtInv, Held, Waits
<1>2. ASSUME NEW device, NEW channel, NEW s, NEW answers \in Nat,
             toDevice' = device, toReader' = channel, sync' = s, late' = answers,
             Unfinished(s),
             2 * Len(device) + Weight(channel) + Held(s) <= 2 * answers + Waits(s)
      PROVE  DebtInv'
  BY <1>2 DEF DebtInv
<1>3. CASE Answer
  <2>1. /\ toDevice # <<>> /\ toDevice' = Tail(toDevice) /\ UNCHANGED <<sync, late>>
    BY <1>3 DEF Answer, reader
  <2>2. PICK sent \in Seq(ResponseFrames) :
            Sent(Head(toDevice), sent) /\ toReader' = toReader \o sent
    BY <1>3, AnswerIs
  <2>3. /\ Weight(toReader \o sent) <= Weight(toReader) + 2
        /\ Weight(toReader \o sent) \in Nat
    <3>1. toReader \o sent \in Seq(ResponseFrames)
      BY <1>1, ConcatProperties
    <3> QED BY <1>1, <2>2, <3>1, AnswerWeighs, WeightIs
  <2>4. Len(Tail(toDevice)) = Len(toDevice) - 1
    BY <1>1, <2>1
  <2> DEFINE left == Len(Tail(toDevice))
             weight == Weight(toReader \o sent)
  <2> HIDE DEF left, weight
  <2>5. left = Len(toDevice) - 1 /\ weight <= Weight(toReader) + 2 /\ weight \in Nat
    BY <2>3, <2>4 DEF left, weight
  <2>6. 2 * left + weight + Held(sync) <= 2 * late + Waits(sync)
    BY <1>1, <2>5
  <2> QED BY <1>1, <1>2, <2>1, <2>2, <2>6 DEF left, weight
<1>4. CASE Reset
  <2>1. PICK n \in 0 .. Len(toReader) : toReader' = SubSeq(toReader, 1, n)
    BY <1>4 DEF Reset
  <2>2. toDevice' = <<>> /\ UNCHANGED <<sync, late>>
    BY <1>4 DEF Reset, reader
  <2>3. /\ Weight(SubSeq(toReader, 1, n)) <= Weight(toReader)
        /\ Weight(SubSeq(toReader, 1, n)) \in Nat
    <3>1. SubSeq(toReader, 1, n) \in Seq(ResponseFrames)
      BY <1>1, ContentsIs
    <3> QED BY <1>1, <3>1, WeightIs
  <2>4. Len(toDevice') = 0
    BY <2>2
  <2>5. 2 * Len(toDevice') + Weight(SubSeq(toReader, 1, n)) + Held(sync)
            <= 2 * late + Waits(sync)
    BY <1>1, <2>3, <2>4
  <2> QED BY <1>1, <1>2, <2>1, <2>2, <2>5
<1>5. CASE RequestInfo \/ RequestRecord
  <2>1. PICK request \in RequestFrames : toDevice' = Append(toDevice, request)
    <3>1. CASE RequestInfo
      BY <3>1, NumbersAre DEF RequestInfo, RequestFrames
    <3>2. CASE RequestRecord
      <4>1. sync.next_sequence % SequenceModulus \in Numbers
        BY <1>1, <3>2, NumbersAre DEF RequestRecord, WantsRecord, SyncOK, Syncs
      <4> QED BY <3>2, <4>1 DEF RequestRecord, RequestFrames
    <3> QED BY <1>5, <3>1, <3>2
  <2>2. /\ UNCHANGED <<toReader, late>> /\ sync.pending_kind = "none"
        /\ sync' \in {InfoRequested(sync), RecordRequested(sync)}
    BY <1>5 DEF RequestInfo, RequestRecord, bounds, WantsInfo, WantsRecord, MayRequest
  <2>3. Waits(sync) = 0 /\ Held(sync) = 0
    BY <2>2, IdleIs
  <2>4. Len(Append(toDevice, request)) = Len(toDevice) + 1
    BY <1>1
  <2>5. ASSUME NEW s \in {InfoRequested(sync), RecordRequested(sync)}
        PROVE  Unfinished(s) /\ Held(s) = 0 /\ Waits(s) = 2
    BY <1>1, AsksAre DEF Held, Waits
  <2>6. ASSUME NEW s \in {InfoRequested(sync), RecordRequested(sync)}
        PROVE  2 * Len(Append(toDevice, request)) + Weight(toReader) + Held(s)
                   <= 2 * late + Waits(s)
    BY <1>1, <2>3, <2>4, <2>5
  <2> QED BY <1>1, <1>2, <2>1, <2>2, <2>5, <2>6
<1>6. CASE Timeout \/ Reconnect
  <2>1. sync'.pending_kind = "none" /\ UNCHANGED <<toDevice, toReader>>
    <3>1. ResetSync.pending_kind = "none"
      BY DEF ResetSync
    <3> QED BY <1>1, <1>6, <3>1, AsksAre DEF Timeout, Reconnect, bus
  <2>2. \/ late' = late + 1
        \/ late' = late /\ toDevice = <<>> /\ toReader = <<>>
    BY <1>6 DEF Timeout, Reconnect
  <2>3. toDevice = <<>> /\ toReader = <<>> => Len(toDevice) = 0 /\ Weight(toReader) = 0
    BY <1>1, WeightIs
  <2>4. late' \in Nat
        /\ 2 * Len(toDevice) + Weight(toReader) + 0 <= 2 * late' + 0
    BY <1>1, <2>2, <2>3
  <2>5. Held(sync') = 0 /\ Waits(sync') = 0 /\ Unfinished(sync')
    BY <2>1, IdleIs
  <2> QED BY <1>2, <2>1, <2>4, <2>5
<1>7. CASE LogEvent \/ HeartbeatTimeout \/ Heartbeat \/ DelayHeartbeat
           \/ HandleDelayedHeartbeat \/ Lose \/ UNCHANGED vars
  <2>1. /\ UNCHANGED <<toDevice, late>>
        /\ toReader' = toReader \/ (toReader # <<>> /\ toReader' = Tail(toReader))
        /\ sync' = sync \/ SameWait(sync, sync')
    BY <1>1, <1>7, BeatsAre DEF LogEvent, HeartbeatTimeout, Heartbeat,
       DelayHeartbeat, HandleDelayedHeartbeat, Lose, vars, bus, reader, bounds
  <2>2. /\ Held(sync') = Held(sync) /\ Waits(sync') = Waits(sync)
        /\ Unfinished(sync')
    BY <1>1, <2>1, SameWaitIs
  <2>3. ASSUME NEW channel \in {toReader, Tail(toReader)},
               channel = toReader \/ toReader # <<>>
        PROVE  2 * Len(toDevice) + Weight(channel) + Held(sync) <= 2 * late + Waits(sync)
    <3>1. CASE channel = toReader
      BY <1>1, <3>1
    <3>2. CASE channel = Tail(toReader) /\ toReader # <<>>
      <4>1. /\ Weight(Tail(toReader)) + 1 <= Weight(toReader)
            /\ Weight(Tail(toReader)) \in Nat
        <5>1. Tail(toReader) \in Seq(ResponseFrames)
          BY <1>1, <3>2
        <5> QED BY <1>1, <3>2, <5>1, WeightIs
      <4> QED BY <1>1, <3>2, <4>1
    <3> QED BY <2>3, <3>1, <3>2
  <2> QED BY <1>1, <1>2, <2>1, <2>2, <2>3
<1>8. CASE HandleResponse
  <2> DEFINE frame == Head(toReader)
  <2>1. /\ toReader # <<>> /\ toReader' = Tail(toReader)
        /\ UNCHANGED <<toDevice, late>>
        /\ \/ GoesOn(sync, sync', frame)
           \/ Ends(sync, sync', frame)
           \/ Rejects(sync, sync', frame)
    BY <1>1, <1>8, FragmentHandled
  <2>2. /\ Weight(Tail(toReader)) + 1 <= Weight(toReader)
        /\ frame.kind = "error" => Weight(Tail(toReader)) + 2 <= Weight(toReader)
        /\ Weight(Tail(toReader)) \in Nat
    <3>1. Tail(toReader) \in Seq(ResponseFrames)
      BY <1>1, <2>1
    <3> QED BY <1>1, <2>1, <3>1, WeightIs
  <2> HIDE DEF frame
  <2>3. CASE GoesOn(sync, sync', frame)
    <3>1. /\ Waits(sync') = Waits(sync) /\ Held(sync') \in {0, 1}
          /\ Unfinished(sync')
      BY <2>3 DEF GoesOn, Waits, Held
    <3>2. 2 * Len(toDevice) + Weight(Tail(toReader)) + Held(sync')
              <= 2 * late + Waits(sync')
      BY <1>1, <2>2, <3>1
    <3> QED BY <1>1, <1>2, <2>1, <3>1, <3>2
  <2>4. CASE Ends(sync, sync', frame) \/ Rejects(sync, sync', frame)
    <3>1. /\ sync'.pending_kind = "none"
          /\ frame.kind = "error" \/ Held(sync) = 1
      BY <2>4 DEF Ends, Rejects, Held
    <3>2. Waits(sync') = 0 /\ Held(sync') = 0 /\ Unfinished(sync')
      BY <3>1, IdleIs
    <3>3. 2 * Len(toDevice) + Weight(Tail(toReader)) + Held(sync')
              <= 2 * late + Waits(sync')
      BY <1>1, <2>2, <3>1, <3>2
    <3> QED BY <1>1, <1>2, <2>1, <3>2, <3>3
  <2> QED BY <2>1, <2>3, <2>4
<1> QED BY <1>3, <1>4, <1>5, <1>6, <1>7, <1>8 DEF Next

\* The oldest fragment is lost or taken.
LEMMA SinceTaken ==
    ASSUME NEW device \in Seq(RequestFrames), NEW channel \in Seq(ResponseFrames),
           channel # <<>>, NEW number,
           NEW d \in 0 .. Len(device), NEW o \in 0 .. Len(channel),
           Since(device, channel, number, d, o)
    PROVE  LET left == IF o = 0 THEN 0 ELSE o - 1
           IN  /\ left \in 0 .. Len(Tail(channel))
               /\ Since(device, Tail(channel), number, d, left)
               /\ o = 0 => /\ d = 0
                           /\ Head(channel).kind = "record" =>
                                 Head(channel).content.sequence = number
<1> DEFINE left == IF o = 0 THEN 0 ELSE o - 1
           rest == Tail(channel)
<1>1. /\ Len(channel) \in Nat /\ Len(channel) > 0 /\ Len(rest) = Len(channel) - 1
      /\ \A i \in 1 .. Len(rest) : rest[i] = channel[i + 1]
      /\ Head(channel) = channel[1]
  OBVIOUS
<1> HIDE DEF rest
<1>2. o = 0 => d = 0
  BY <1>1 DEF Since
<1>3. left \in 0 .. Len(rest)
  BY <1>1
<1>4. \A i \in left + 1 .. Len(rest) : i + 1 \in o + 1 .. Len(channel) /\ i \in 1 .. Len(rest)
  BY <1>1
<1>5. d > 0 => left = Len(rest)
  BY <1>1, <1>2 DEF Since
<1> HIDE DEF left
<1>6. Since(device, rest, number, d, left)
  BY <1>1, <1>4, <1>5 DEF Since
<1>7. o = 0 /\ Head(channel).kind = "record" => Head(channel).content.sequence = number
  BY <1>1 DEF Since
<1> QED BY <1>2, <1>3, <1>6, <1>7 DEF left, rest

\* The oldest request is answered.
LEMMA SinceAnswered ==
    ASSUME NEW device \in Seq(RequestFrames), NEW channel \in Seq(ResponseFrames),
           device # <<>>, NEW number,
           NEW d \in 0 .. Len(device), NEW o \in 0 .. Len(channel),
           Since(device, channel, number, d, o),
           NEW sent \in Seq(ResponseFrames), Sent(Head(device), sent)
    PROVE  \E e \in 0 .. Len(Tail(device)), p \in 0 .. Len(channel \o sent) :
              /\ Since(Tail(device), channel \o sent, number, e, p)
              /\ 2 * e + p <= 2 * d + o
              /\ d = 0 /\ o = 0 => e = 0 /\ p = 0
<1> DEFINE rest == Tail(device)
           more == channel \o sent
<1>1. /\ Len(device) \in Nat /\ Len(device) > 0 /\ Len(rest) = Len(device) - 1
      /\ \A i \in 1 .. Len(rest) : rest[i] = device[i + 1]
      /\ Head(device) = device[1]
  OBVIOUS
<1>2. /\ Len(more) = Len(channel) + Len(sent) /\ Len(channel) \in Nat
      /\ Len(sent) \in Nat
      /\ \A i \in 1 .. Len(channel) + Len(sent) :
            more[i] = IF i <= Len(channel) THEN channel[i] ELSE sent[i - Len(channel)]
  BY ConcatProperties
<1>3. Len(sent) <= 2 /\ \A i \in 1 .. Len(sent) : sent[i].kind = "record" =>
          device[1].kind = "record" /\ sent[i].content.sequence = device[1].sequence
  BY <1>1 DEF Sent
<1> HIDE DEF rest, more
<1>4. CASE d > 0
  <2>1. o = Len(channel)
    BY <1>4 DEF Since
  <2>2. \A i \in d .. Len(rest) : i + 1 \in d + 1 .. Len(device) /\ i \in 1 .. Len(rest)
    BY <1>1, <1>4
  <2>3. Since(rest, more, number, d - 1, Len(more))
    <3>1. \A i \in d .. Len(rest) : rest[i].kind = "record" => rest[i].sequence = number
      BY <1>1, <2>2 DEF Since
    <3>2. (d - 1) + 1 = d /\ Len(more) \in Nat
      BY <1>2
    <3>3. \A i \in Len(more) + 1 .. Len(more) : FALSE
      BY <3>2
    <3> QED BY <3>1, <3>2, <3>3 DEF Since
  <2>4. /\ d - 1 \in 0 .. Len(rest) /\ Len(more) \in 0 .. Len(more)
        /\ 2 * (d - 1) + Len(more) <= 2 * d + o
    BY <1>1, <1>2, <1>3, <1>4, <2>1
  <2> QED BY <1>4, <2>3, <2>4 DEF rest, more
<1>5. CASE d = 0
  <2>1. \A i \in 1 .. Len(device) : device[i].kind = "record" => device[i].sequence = number
    BY <1>5 DEF Since
  <2>2. \A i \in 1 .. Len(rest) : rest[i].kind = "record" => rest[i].sequence = number
    <3>1. \A i \in 1 .. Len(rest) : i + 1 \in 1 .. Len(device)
      BY <1>1
    <3> QED BY <1>1, <2>1, <3>1
  <2>3. \A i \in 1 .. Len(sent) :
            sent[i].kind = "record" => sent[i].content.sequence = number
    BY <1>1, <1>3, <2>1
  <2>4. \A i \in o + 1 .. Len(more) :
            more[i].kind = "record" => more[i].content.sequence = number
    <3> SUFFICES ASSUME NEW i \in o + 1 .. Len(more), more[i].kind = "record"
                 PROVE  more[i].content.sequence = number
      OBVIOUS
    <3>1. CASE i <= Len(channel)
      <4>1. more[i] = channel[i] /\ i \in o + 1 .. Len(channel)
        BY <1>2, <3>1
      <4> QED BY <4>1 DEF Since
    <3>2. CASE ~(i <= Len(channel))
      <4>1. more[i] = sent[i - Len(channel)] /\ i - Len(channel) \in 1 .. Len(sent)
        BY <1>2, <3>2
      <4> QED BY <2>3, <4>1
    <3> QED BY <3>1, <3>2
  <2>5. Since(rest, more, number, 0, o)
    BY <2>2, <2>4 DEF Since
  <2>6. 0 \in 0 .. Len(rest) /\ o \in 0 .. Len(more) /\ 2 * 0 + o <= 2 * d + o
    BY <1>1, <1>2, <1>5
  <2> QED BY <2>5, <2>6 DEF rest, more
<1> QED BY <1>4, <1>5

\* A reset of the firmware.
LEMMA SinceReset ==
    ASSUME NEW device, NEW channel \in Seq(ResponseFrames), NEW number, NEW d,
           NEW o \in 0 .. Len(channel), Since(device, channel, number, d, o),
           NEW n \in 0 .. Len(channel)
    PROVE  \E p \in 0 .. Len(SubSeq(channel, 1, n)) :
              Since(<<>>, SubSeq(channel, 1, n), number, 0, p) /\ p <= o
<1> DEFINE left == SubSeq(channel, 1, n)
           p == IF o <= n THEN o ELSE n
<1>1. Len(left) = n /\ \A i \in 1 .. n : left[i] = channel[i]
  OBVIOUS
<1> HIDE DEF left
<1>2. p \in 0 .. n /\ p <= o
  OBVIOUS
<1>3. \A i \in p + 1 .. n : i \in o + 1 .. Len(channel) /\ i \in 1 .. n
  OBVIOUS
<1> HIDE DEF p
<1>4. Len(<<>>) = 0
  OBVIOUS
<1>5. \A i \in 0 + 1 .. Len(<<>>) : FALSE
  BY <1>4
<1>6. Since(<<>>, left, number, 0, p)
  BY <1>1, <1>3, <1>5 DEF Since
<1> QED BY <1>1, <1>2, <1>6 DEF left

\* A request is sent.
LEMMA SinceAsked ==
    ASSUME NEW device \in Seq(RequestFrames), NEW channel, NEW number,
           NEW d \in 0 .. Len(device), NEW o,
           Since(device, channel, number, d, o), NEW request \in RequestFrames,
           request.kind = "record" => request.sequence = number
    PROVE  /\ d \in 0 .. Len(Append(device, request))
           /\ Since(Append(device, request), channel, number, d, o)
<1> DEFINE more == Append(device, request)
<1>1. /\ Len(more) = Len(device) + 1 /\ Len(device) \in Nat
      /\ \A i \in 1 .. Len(device) : more[i] = device[i]
      /\ more[Len(device) + 1] = request
  OBVIOUS
<1> HIDE DEF more
<1>2. \A i \in d + 1 .. Len(more) :
          more[i].kind = "record" => more[i].sequence = number
  <2> SUFFICES ASSUME NEW i \in d + 1 .. Len(more), more[i].kind = "record"
               PROVE  more[i].sequence = number
    OBVIOUS
  <2>1. CASE i <= Len(device)
    <3>1. more[i] = device[i] /\ i \in d + 1 .. Len(device)
      BY <1>1, <2>1
    <3> QED BY <3>1 DEF Since
  <2>2. CASE ~(i <= Len(device))
    <3>1. more[i] = request
      <4>1. i = Len(device) + 1
        BY <1>1, <2>2
      <4> QED BY <1>1, <4>1
    <3> QED BY <3>1
  <2> QED BY <2>1, <2>2
<1>3. Since(device, channel, number, d, o) /\ d \in 0 .. Len(more)
  BY <1>1
<1> QED BY <1>2, <1>3 DEF Since, more

\* All that is under way may be from before.
LEMMA SinceAll ==
    ASSUME NEW device, NEW channel, Len(device) \in Nat, Len(channel) \in Nat,
           NEW number
    PROVE  Since(device, channel, number, Len(device), Len(channel))
  BY DEF Since

LEMMA OwnKept ==
    ASSUME NEW s, NEW number, NEW d, NEW o, NEW h, NEW e, NEW p,
           Own(s, number, d, o, h), d = 0 /\ o = 0 => e = 0 /\ p = 0
    PROVE  Own(s, number, e, p, h)
  BY DEF Own

\* Two records that the reader has seen under one number are the same.
LEMMA SeenOnce ==
    ASSUME NEW seen \in SUBSET Records, Ordered(seen),
           NEW row \in seen, NEW other \in seen, row.sequence = other.sequence
    PROVE  row = other
<1>1. Ordered(seen \cup seen)
  BY DEF Ordered
<1> QED BY <1>1, SavedIsSettled

\* A rejection takes a fragment from before the record was asked for.
LEMMA RejectionIsPaid ==
    ASSUME RingInv, ReaderInv, Rows, Retries, HandleResponse,
           Unfinished(sync), Rejects(sync, sync', Head(toReader)),
           NEW d \in 0 .. Len(toDevice), NEW o \in 0 .. Len(toReader),
           NEW h \in {0, 1}, Since(toDevice, toReader, asked, d, o),
           Own(sync, asked, d, o, h)
    PROVE  h = 1
<1> DEFINE frame == Head(toReader)
<1> SUFFICES ASSUME h = 0 PROVE FALSE
  OBVIOUS
<1>1. /\ toDevice \in Seq(RequestFrames) /\ toReader \in Seq(ResponseFrames)
      /\ toReader # <<>> /\ frame \in ResponseFrames /\ SyncOK(sync)
  BY FragmentHandled DEF ReaderInv
<1>2. /\ sync.pending_kind = "record" /\ frame.kind = "record"
      /\ Holds(sync) /\ Mismatch(sync, frame) /\ sync.pending_sequence = asked
  BY DEF Rejects, Retries
<1>3. d = 0 /\ o = 0
  BY <1>2 DEF Own
<1>4. frame.content.sequence = asked
  BY <1>1, <1>2, <1>3, SinceTaken
<1>5. frame.content \in Seen
  BY <1>1, <1>2, CarriedIs DEF Seen
<1> HIDE DEF frame
<1>6. PICK fragments :
         /\ \A part \in {1, 2} :
               \/ fragments[part] = frame.content
               \/ /\ fragments[part] = sync.record_fragments[part]
                  /\ fragments[part] # None
         /\ ~(fragments[1] = fragments[2]
              /\ fragments[1].sequence = sync.pending_sequence)
  BY <1>2 DEF Mismatch
<1>7. \A part \in {1, 2} : fragments[part] \in Seen /\ fragments[part].sequence = asked
  <2> TAKE part \in {1, 2}
  <2>1. CASE fragments[part] = frame.content
    BY <1>4, <1>5, <2>1
  <2>2. CASE fragments[part] = sync.record_fragments[part] /\ fragments[part] # None
    <3>1. fragments[part].sequence = asked
      BY <1>2, <2>2 DEF Own
    <3>2. fragments[part] \in Taken(sync)
      BY <2>2 DEF Taken
    <3> QED BY <3>1, <3>2 DEF Seen
  <2> QED BY <1>6, <2>1, <2>2
<1>8. Seen \subseteq Records /\ Ordered(Seen)
  BY SeenIs DEF Rows
<1>9. fragments[1] = fragments[2]
  BY <1>7, <1>8, SeenOnce
<1> QED BY <1>2, <1>6, <1>7, <1>9

\* A step of a reader that goes on from a record to it or to a later one.
LEMMA StepKeepsRetries ==
    ASSUME RingInv, ReaderInv, Rows, DebtInv, [Next]_vars,
           asked # None => Retries, asked' # None
    PROVE  Retries'
<1>1. /\ toDevice \in Seq(RequestFrames) /\ toReader \in Seq(ResponseFrames)
      /\ Len(toDevice) \in Nat /\ Len(toReader) \in Nat
      /\ SyncOK(sync) /\ late \in Nat /\ Unfinished(sync)
      /\ sync.record_retries \in [ReaderSequences -> 0 .. MaxRecordRetries]
      /\ Numbers \subseteq ReaderSequences /\ MaxRecordRetries \in Nat
  BY NumbersAre, RetriesAssumption DEF ReaderInv, DebtInv, SyncOK, Syncs
<1>2. ASSUME NEW device, NEW channel, NEW s, NEW answers \in Nat,
             NEW number \in Numbers,
             toDevice' = device, toReader' = channel, sync' = s, late' = answers,
             asked' = number,
             s.pending_kind = "record" => s.pending_sequence = number,
             \A q \in ReaderSequences : q > number => s.record_retries[q] = 0,
             Counted(s, number, device, channel, answers),
             answers <= MaxRecordRetries => skipped' = {}
      PROVE  Retries'
  BY <1>2 DEF Retries
<1>3. 2 * Len(toDevice) + Len(toReader) <= 2 * late + Waits(sync)
  <2>1. Len(toReader) <= Weight(toReader) /\ Weight(toReader) \in Nat
    BY <1>1, WeightIs
  <2>2. Held(sync) \in {0, 1} /\ Waits(sync) \in {0, 2}
    BY DEF Held, Waits
  <2>3. 2 * Len(toDevice) + Weight(toReader) + Held(sync) <= 2 * late + Waits(sync)
    BY DEF DebtInv
  <2> QED BY <1>1, <2>1, <2>2, <2>3
<1>4. CASE Reconnect
  <2>1. /\ UNCHANGED <<toDevice, toReader>> /\ sync' = ResetSync
        /\ late' = late + 1 /\ asked' = 0 /\ skipped' = {}
    BY <1>4 DEF Reconnect, bus
  <2>2. /\ ResetSync.pending_kind = "none"
        /\ \A q \in ReaderSequences : ResetSync.record_retries[q] = 0
    BY DEF ResetSync, NoRetries
  <2>3. 0 \in Numbers /\ late + 1 \in Nat /\ ResetSync.record_retries[0] = 0
    BY <1>1, <2>2, NumbersAre
  <2>4. Counted(ResetSync, 0, toDevice, toReader, late + 1)
    <3>1. Since(toDevice, toReader, 0, Len(toDevice), Len(toReader))
      BY <1>1, SinceAll
    <3>2. Own(ResetSync, 0, Len(toDevice), Len(toReader), 0)
      BY <2>2, IdleIs
    <3>3. 2 * ResetSync.record_retries[0] + 2 * Len(toDevice) + Len(toReader) + 0
              <= 2 * (late + 1)
      BY <1>1, <1>3, <2>3 DEF Waits
    <3> QED BY <1>1, <3>1, <3>2, <3>3 DEF Counted
  <2> QED BY <1>2, <2>1, <2>2, <2>3, <2>4
<1>5. ASSUME ~Reconnect
      PROVE  /\ Retries /\ asked # None /\ asked \in Numbers
             /\ asked' = asked \/ RequestRecord
             /\ sync.pending_kind = "record" => sync.pending_sequence = asked
             /\ \A q \in ReaderSequences : q > asked => sync.record_retries[q] = 0
             /\ late <= MaxRecordRetries => skipped = {}
             /\ sync.record_retries[asked] \in Nat
  <2>1. /\ asked # None
        /\ asked' = asked \/ RequestRecord
    BY <1>5 DEF Next, LogEvent, Answer, Reset, RequestInfo, RequestRecord, Timeout,
       HeartbeatTimeout, Heartbeat, DelayHeartbeat, HandleDelayedHeartbeat,
       HandleResponse, HandleInfo, HandleRecord, Lose, vars, reader, rows
  <2> QED BY <1>1, <2>1 DEF Retries
<1>6. ASSUME ~Reconnect
      PROVE  \E d \in 0 .. Len(toDevice), o \in 0 .. Len(toReader), h \in {0, 1} :
                /\ Since(toDevice, toReader, asked, d, o)
                /\ Own(sync, asked, d, o, h)
                /\ 2 * sync.record_retries[asked] + 2 * d + o + h <= 2 * late
  BY <1>5, <1>6 DEF Retries, Counted
<1>7. CASE RequestRecord
  <2> DEFINE n == sync.next_sequence
             request == [kind |-> "record", sequence |-> n % SequenceModulus]
             s == RecordRequested(sync)
  <2>1. ~Reconnect
    BY <1>7, AsksAre, <1>1 DEF RequestRecord, Reconnect, ResetSync
  <2>2. /\ WantsRecord(sync) /\ sync' = s /\ toDevice' = Append(toDevice, request)
        /\ asked <= n /\ asked' = n /\ UNCHANGED <<toReader, skipped, late>>
    BY <1>5, <1>7, <2>1 DEF RequestRecord, bounds
  <2>3. n \in Numbers /\ n % SequenceModulus = n
    <3>1. /\ n \in Computed /\ n <= sync.latest_sequence
          /\ sync.latest_sequence \in Numbers
      BY <1>1, <2>2 DEF WantsRecord, SyncOK, Syncs
    <3>2. asked \in Numbers /\ n \in Int
      BY <1>5, <2>1, <3>1, NumbersAre
    <3>3. n \in 0 .. SequenceModulus - 1
      BY <2>2, <3>1, <3>2, ModulusAssumption, CapacityAssumption DEF Numbers
    <3> QED BY <3>3, ModulusAssumption, CapacityAssumption DEF Numbers
  <2>4. asked \in Int /\ n \in Int
    BY <1>5, <2>1, <2>3, NumbersAre
  <2>5. request \in RequestFrames /\ request.sequence = n
    BY <2>3 DEF RequestFrames
  <2>6. /\ s.pending_sequence = n /\ ~Holds(s)
        /\ s.record_retries = sync.record_retries
    BY <1>1, AsksAre
  <2>7. NoFragments[1] = None /\ NoFragments[2] = None
    BY DEF NoFragments
  <2>8. s.record_fragments = NoFragments
    BY <1>1 DEF RecordRequested, SyncOK, Syncs
  <2>9. \A d, o, h : Own(s, n, d, o, h)
    BY <2>6, <2>7, <2>8 DEF Own
  <2> HIDE DEF s, request
  <2>10. Counted(s, n, toDevice', toReader, late)
    <3>1. CASE n = asked
      <4>1. PICK d \in 0 .. Len(toDevice), o \in 0 .. Len(toReader), h \in {0, 1} :
                /\ Since(toDevice, toReader, asked, d, o)
                /\ 2 * sync.record_retries[asked] + 2 * d + o + h <= 2 * late
        BY <1>6, <2>1
      <4>2. /\ d \in 0 .. Len(Append(toDevice, request))
            /\ Since(Append(toDevice, request), toReader, asked, d, o)
        BY <1>1, <2>5, <3>1, <4>1, SinceAsked
      <4> HIDE DEF n
      <4> QED BY <2>2, <2>6, <2>9, <3>1, <4>1, <4>2 DEF Counted
    <3>2. CASE n # asked
      <4>1. n > asked
        <5> HIDE DEF n
        <5> QED BY <2>2, <2>4, <3>2
      <4>2. sync.record_retries[n] = 0
        BY <1>1, <1>5, <2>1, <2>3, <4>1
      <4>3. Since(toDevice, toReader, n, Len(toDevice), Len(toReader))
        BY <1>1, SinceAll
      <4>4. /\ Len(toDevice) \in 0 .. Len(Append(toDevice, request))
            /\ Since(Append(toDevice, request), toReader, n, Len(toDevice), Len(toReader))
        BY <1>1, <2>5, <4>3, SinceAsked
      <4>5. Waits(sync) = 0
        BY <2>2 DEF Waits, WantsRecord, MayRequest
      <4>6. 2 * s.record_retries[n] + 2 * Len(toDevice) + Len(toReader) + 0 <= 2 * late
        BY <1>1, <1>3, <2>6, <4>2, <4>5
      <4>7. Len(toReader) \in 0 .. Len(toReader)
        BY <1>1
      <4> HIDE DEF n
      <4> QED BY <2>2, <2>9, <4>4, <4>6, <4>7 DEF Counted
    <3> QED BY <3>1, <3>2
  <2>11. \A q \in ReaderSequences : q > n => s.record_retries[q] = 0
    <3> SUFFICES ASSUME NEW q \in ReaderSequences, q > n PROVE s.record_retries[q] = 0
      OBVIOUS
    <3>1. q > asked
      <4>1. q \in Int
        BY ReaderAssumption
      <4> HIDE DEF n
      <4> QED BY <2>2, <2>4, <4>1
    <3> QED BY <1>5, <2>1, <2>6, <3>1
  <2> QED BY <1>1, <1>2, <1>5, <2>1, <2>2, <2>3, <2>6, <2>10, <2>11
<1>8. CASE ~Reconnect /\ ~RequestRecord
  <2>1. /\ Retries /\ asked \in Numbers /\ asked' = asked
        /\ sync.pending_kind = "record" => sync.pending_sequence = asked
        /\ \A q \in ReaderSequences : q > asked => sync.record_retries[q] = 0
        /\ late <= MaxRecordRetries => skipped = {}
        /\ sync.record_retries[asked] \in Nat
    BY <1>5, <1>8
  <2>2. PICK d \in 0 .. Len(toDevice), o \in 0 .. Len(toReader), h \in {0, 1} :
            /\ Since(toDevice, toReader, asked, d, o)
            /\ Own(sync, asked, d, o, h)
            /\ 2 * sync.record_retries[asked] + 2 * d + o + h <= 2 * late
    BY <1>6, <1>8
  <2> DEFINE r == sync.record_retries[asked]
  <2>3. d \in Nat /\ o \in Nat /\ h \in Nat /\ r \in Nat /\ 2 * r + 2 * d + o + h <= 2 * late
    BY <1>1, <2>1, <2>2
  <2>4. CASE Answer
    <3>1. /\ toDevice # <<>> /\ toDevice' = Tail(toDevice)
          /\ UNCHANGED <<sync, skipped, late>>
      BY <2>4 DEF Answer, reader, rows
    <3>2. PICK sent \in Seq(ResponseFrames) :
              Sent(Head(toDevice), sent) /\ toReader' = toReader \o sent
      BY <2>4, AnswerIs
    <3>3. PICK e \in 0 .. Len(Tail(toDevice)), p \in 0 .. Len(toReader \o sent) :
              /\ Since(Tail(toDevice), toReader \o sent, asked, e, p)
              /\ 2 * e + p <= 2 * d + o
              /\ d = 0 /\ o = 0 => e = 0 /\ p = 0
      BY <1>1, <2>2, <3>1, <3>2, SinceAnswered
    <3>4. Own(sync, asked, e, p, h)
      BY <2>2, <3>3, OwnKept
    <3>5. e \in Nat /\ p \in Nat
      <4>1. Tail(toDevice) \in Seq(RequestFrames) /\ toReader \o sent \in Seq(ResponseFrames)
        BY <1>1, <3>1, <3>2, ConcatProperties
      <4> QED BY <3>3, <4>1
    <3>6. 2 * r + 2 * e + p + h <= 2 * late
      <4> HIDE DEF r
      <4>1. 2 * e + p <= 2 * d + o
        BY <3>3
      <4> QED BY <1>1, <2>3, <3>5, <4>1
    <3>7. Counted(sync, asked, toDevice', toReader', late)
      BY <3>1, <3>2, <3>3, <3>4, <3>6 DEF Counted
    <3> QED BY <1>1, <1>2, <2>1, <3>1, <3>7
  <2>5. CASE Reset
    <3>1. PICK n \in 0 .. Len(toReader) : toReader' = SubSeq(toReader, 1, n)
      BY <2>5 DEF Reset
    <3>2. toDevice' = <<>> /\ UNCHANGED <<sync, skipped, late>>
      BY <2>5 DEF Reset, reader, rows
    <3>3. PICK p \in 0 .. Len(SubSeq(toReader, 1, n)) :
              Since(<<>>, SubSeq(toReader, 1, n), asked, 0, p) /\ p <= o
      BY <1>1, <2>2, SinceReset
    <3>4. Len(SubSeq(toReader, 1, n)) = n /\ Len(<<>>) = 0
      BY <1>1, WeightIs
    <3>5. p \in Nat /\ p <= o /\ 0 \in 0 .. Len(<<>>)
      BY <3>3, <3>4
    <3>6. Own(sync, asked, 0, p, h)
      <4>1. o = 0 => p = 0
        BY <2>3, <3>5
      <4> QED BY <2>2, <4>1, OwnKept
    <3>7. 2 * r + 2 * 0 + p + h <= 2 * late
      <4> HIDE DEF r
      <4> QED BY <1>1, <2>3, <3>5
    <3>8. Counted(sync, asked, toDevice', toReader', late)
      BY <3>1, <3>2, <3>3, <3>5, <3>6, <3>7 DEF Counted
    <3> QED BY <1>1, <1>2, <2>1, <3>2, <3>8
  <2>6. CASE RequestInfo
    <3> DEFINE request == [kind |-> "info", sequence |-> 0]
               s == InfoRequested(sync)
    <3>1. /\ toDevice' = Append(toDevice, request) /\ sync' = s
          /\ UNCHANGED <<toReader, skipped, late>>
      BY <2>6 DEF RequestInfo, rows, bounds
    <3>2. request \in RequestFrames /\ request.kind # "record"
      BY NumbersAre DEF RequestFrames
    <3>3. /\ s.pending_kind = "info" /\ ~Holds(s)
          /\ s.record_retries = sync.record_retries
      BY <1>1, AsksAre
    <3> HIDE DEF request, s
    <3>4. /\ d \in 0 .. Len(Append(toDevice, request))
          /\ Since(Append(toDevice, request), toReader, asked, d, o)
      BY <1>1, <2>2, <3>2, SinceAsked
    <3>5. Own(s, asked, d, o, h)
      BY <3>3 DEF Own
    <3>6. Counted(s, asked, toDevice', toReader, late)
      BY <2>2, <3>1, <3>3, <3>4, <3>5 DEF Counted
    <3>7. \A q \in ReaderSequences : q > asked => s.record_retries[q] = 0
      BY <2>1, <3>3
    <3>8. late <= MaxRecordRetries => skipped' = {}
      BY <2>1, <3>1
    <3>9. s.pending_kind # "record"
      BY <3>3
    <3> QED BY <1>1, <1>2, <2>1, <3>1, <3>6, <3>7, <3>8, <3>9
  <2>7. CASE Timeout
    <3>1. /\ UNCHANGED <<toDevice, toReader, skipped>>
          /\ sync'.pending_kind = "none"
          /\ sync'.record_retries = sync.record_retries
          /\ late' \in {late, late + 1}
      BY <1>1, <2>7, AsksAre DEF Timeout, bus, rows
    <3>2. Own(sync', asked, d, o, h)
      BY <3>1, IdleIs
    <3>3. late' \in Nat /\ late <= late'
      BY <1>1, <3>1
    <3>4. 2 * r + 2 * d + o + h <= 2 * late'
      <4> DEFINE answers == late'
      <4> HIDE DEF r, answers
      <4>1. answers \in Nat /\ late <= answers
        BY <3>3 DEF answers
      <4>2. 2 * r + 2 * d + o + h <= 2 * answers
        BY <1>1, <2>3, <4>1
      <4> QED BY <4>2 DEF answers
    <3>5. Counted(sync', asked, toDevice, toReader, late')
      BY <2>2, <3>1, <3>2, <3>4 DEF Counted
    <3>6. late' <= MaxRecordRetries => skipped' = {}
      BY <1>1, <2>1, <3>1, <3>3
    <3> QED BY <1>2, <2>1, <3>1, <3>3, <3>5, <3>6
  <2>8. CASE LogEvent \/ HeartbeatTimeout \/ Heartbeat \/ DelayHeartbeat
             \/ HandleDelayedHeartbeat \/ Lose \/ UNCHANGED vars
    <3>1. /\ UNCHANGED <<toDevice, late, skipped>>
          /\ toReader' = toReader \/ (toReader # <<>> /\ toReader' = Tail(toReader))
          /\ SameWait(sync, sync')
      <4>1. SameWait(sync, sync)
        BY DEF SameWait
      <4> QED BY <1>1, <2>8, <4>1, BeatsAre DEF LogEvent, HeartbeatTimeout, Heartbeat,
              DelayHeartbeat, HandleDelayedHeartbeat, Lose, vars, bus, reader, rows, bounds
    <3>2. /\ sync'.record_retries = sync.record_retries
          /\ sync'.pending_kind = sync.pending_kind
          /\ sync'.pending_sequence = sync.pending_sequence
      BY <3>1 DEF SameWait
    <3>3. Counted(sync', asked, toDevice, toReader', late)
      <4>1. CASE toReader' = toReader
        <5>1. Own(sync', asked, d, o, h)
          BY <2>2, <3>1, SameWaitIs
        <5> QED BY <2>2, <3>2, <4>1, <5>1 DEF Counted
      <4>2. CASE toReader # <<>> /\ toReader' = Tail(toReader)
        <5> DEFINE p == IF o = 0 THEN 0 ELSE o - 1
        <5>1. /\ p \in 0 .. Len(Tail(toReader))
              /\ Since(toDevice, Tail(toReader), asked, d, p)
          BY <1>1, <2>2, <4>2, SinceTaken
        <5>2. p \in Nat /\ p <= o
          BY <2>3
        <5>3. o = 0 => p = 0
          OBVIOUS
        <5> HIDE DEF p
        <5>4. Own(sync', asked, d, p, h)
          <6>1. Own(sync, asked, d, p, h)
            BY <2>2, <5>3, OwnKept
          <6> QED BY <3>1, <6>1, SameWaitIs
        <5>5. 2 * r + 2 * d + p + h <= 2 * late
          <6> HIDE DEF r
          <6> QED BY <1>1, <2>3, <5>2
        <5> QED BY <3>2, <4>2, <5>1, <5>4, <5>5 DEF Counted
      <4> QED BY <3>1, <4>1, <4>2
    <3> QED BY <1>1, <1>2, <2>1, <3>1, <3>2, <3>3
  <2>9. CASE HandleResponse
    <3> DEFINE frame == Head(toReader)
               p == IF o = 0 THEN 0 ELSE o - 1
    <3>1. /\ toReader # <<>> /\ toReader' = Tail(toReader)
          /\ UNCHANGED <<toDevice, late>>
          /\ \/ GoesOn(sync, sync', frame) /\ UNCHANGED skipped
             \/ Ends(sync, sync', frame) /\ UNCHANGED skipped
             \/ /\ Rejects(sync, sync', frame)
                /\ sync.record_retries[sync.pending_sequence] + 1 > MaxRecordRetries
                /\ Forgiven(sync, sync')
             \/ /\ Rejects(sync, sync', frame)
                /\ UNCHANGED skipped
                /\ sync'.record_retries =
                      [sync.record_retries EXCEPT ![sync.pending_sequence] = @ + 1]
      BY <1>1, <2>9, FragmentHandled
    <3>2. /\ p \in 0 .. Len(Tail(toReader))
          /\ Since(toDevice, Tail(toReader), asked, d, p)
          /\ o = 0 => /\ d = 0
                      /\ frame.kind = "record" => frame.content.sequence = asked
      BY <1>1, <2>2, <3>1, SinceTaken
    <3>3. p \in Nat /\ (o = 0 => p = 0) /\ (o # 0 => p = o - 1)
      BY <2>3
    <3>4. Rejects(sync, sync', frame) => h = 1
      BY <1>1, <2>1, <2>2, <2>9, RejectionIsPaid
    <3> HIDE DEF p, frame
    <3>5. ASSUME GoesOn(sync, sync', frame), UNCHANGED skipped PROVE Retries'
      <4> DEFINE k == IF o = 0 THEN h ELSE 1
      <4>1. k \in {0, 1} /\ k \in Nat
        BY <2>3
      <4>2. 2 * r + 2 * d + p + k <= 2 * late
        <5> HIDE DEF r
        <5>1. CASE o = 0
          BY <1>1, <2>3, <3>3, <5>1
        <5>2. CASE o # 0
          BY <1>1, <2>3, <3>3, <5>2
        <5> QED BY <5>1, <5>2
      <4>3. /\ sync'.record_retries = sync.record_retries
            /\ sync'.pending_kind = sync.pending_kind
            /\ sync'.pending_sequence = sync.pending_sequence
            /\ \A part \in {1, 2} :
                  \/ sync'.record_fragments[part] = sync.record_fragments[part]
                  \/ frame.kind = "record" /\ sync'.record_fragments[part] = frame.content
        BY <3>5 DEF GoesOn
      <4>4. Own(sync', asked, d, p, k)
        <5> SUFFICES ASSUME k = 0 PROVE Own(sync', asked, d, p, k)
          BY DEF Own
        <5>1. o = 0 /\ h = 0 /\ d = 0 /\ p = 0
          BY <3>2, <3>3
        <5>2. frame.kind = "record" => frame.content.sequence = asked
          BY <3>2, <5>1
        <5> HIDE DEF k
        <5> QED BY <2>2, <4>3, <5>1, <5>2 DEF Own
      <4>5. Counted(sync', asked, toDevice, toReader', late)
        BY <3>1, <3>2, <4>1, <4>2, <4>3, <4>4 DEF Counted
      <4>6. /\ sync'.pending_kind = "record" => sync'.pending_sequence = asked
            /\ \A q \in ReaderSequences : q > asked => sync'.record_retries[q] = 0
        BY <2>1, <4>3
      <4>7. late <= MaxRecordRetries => skipped' = {}
        BY <2>1, <3>5
      <4> QED BY <1>1, <1>2, <2>1, <3>1, <4>5, <4>6, <4>7
    <3>6. ASSUME sync'.pending_kind = "none", Forgiven(sync, sync'),
                 UNCHANGED skipped \/ late > MaxRecordRetries
          PROVE  Retries'
      <4>1. sync'.record_retries[asked] \in {0, r}
        BY <1>1, <2>1, <3>6 DEF Forgiven
      <4>2. 2 * sync'.record_retries[asked] + 2 * d + p + h <= 2 * late
        <5> HIDE DEF r
        <5> DEFINE t == sync'.record_retries[asked]
        <5>1. t \in Nat /\ t <= r
          BY <2>3, <4>1
        <5> HIDE DEF t
        <5>2. p <= o
          BY <2>3, <3>3
        <5>3. 2 * t + 2 * d + p + h <= 2 * late
          BY <1>1, <2>3, <3>3, <5>1, <5>2
        <5> QED BY <5>3 DEF t
      <4>3. Own(sync', asked, d, p, h)
        BY <3>6, IdleIs
      <4>4. Counted(sync', asked, toDevice, toReader', late)
        BY <2>2, <3>1, <3>2, <4>2, <4>3 DEF Counted
      <4>5. \A q \in ReaderSequences : q > asked => sync'.record_retries[q] = 0
        BY <2>1, <3>6 DEF Forgiven
      <4>6. late <= MaxRecordRetries => skipped' = {}
        BY <1>1, <2>1, <3>6
      <4> QED BY <1>1, <1>2, <2>1, <3>1, <3>6, <4>4, <4>5, <4>6
    <3>7. ASSUME Rejects(sync, sync', frame)
          PROVE  /\ sync.pending_sequence = asked /\ sync'.pending_kind = "none"
                 /\ 2 * (r + 1) + 2 * d + p + 0 <= 2 * late /\ r + 1 <= late
      <4>1. h = 1 /\ sync.pending_sequence = asked /\ sync'.pending_kind = "none"
        BY <2>1, <3>4, <3>7 DEF Rejects
      <4> HIDE DEF r
      <4>2. CASE o = 0
        BY <1>1, <2>3, <3>2, <3>3, <4>1, <4>2
      <4>3. CASE o # 0
        BY <1>1, <2>3, <3>3, <4>1, <4>3
      <4> QED BY <4>1, <4>2, <4>3
    <3>8. CASE /\ Rejects(sync, sync', frame) /\ UNCHANGED skipped
               /\ sync'.record_retries =
                     [sync.record_retries EXCEPT ![sync.pending_sequence] = @ + 1]
      <4>1. /\ sync'.record_retries[asked] = r + 1
            /\ \A q \in ReaderSequences :
                  q # asked => sync'.record_retries[q] = sync.record_retries[q]
        BY <1>1, <2>1, <3>7, <3>8
      <4>2. \A q \in ReaderSequences : q > asked => sync'.record_retries[q] = 0
        <5>1. \A q \in ReaderSequences : q > asked => q # asked
          BY <2>1, ReaderAssumption, NumbersAre
        <5> QED BY <2>1, <4>1, <5>1
      <4>3. Own(sync', asked, d, p, 0)
        BY <3>7, <3>8, IdleIs
      <4>4. Counted(sync', asked, toDevice, toReader', late)
        BY <2>2, <3>1, <3>2, <3>7, <3>8, <4>1, <4>3 DEF Counted
      <4> QED BY <1>1, <1>2, <2>1, <3>1, <3>7, <3>8, <4>2, <4>4
    <3>9. CASE /\ Rejects(sync, sync', frame) /\ Forgiven(sync, sync')
               /\ sync.record_retries[sync.pending_sequence] + 1 > MaxRecordRetries
      <4>1. r + 1 > MaxRecordRetries /\ r + 1 <= late /\ sync'.pending_kind = "none"
        BY <3>7, <3>9
      <4>2. late > MaxRecordRetries
        <5> HIDE DEF r
        <5> QED BY <1>1, <2>3, <4>1
      <4> QED BY <3>6, <3>9, <4>1, <4>2
    <3> QED BY <3>1, <3>5, <3>6, <3>8, <3>9 DEF Ends
  <2> QED BY <1>8, <2>4, <2>5, <2>6, <2>7, <2>8, <2>9 DEF Next
<1> QED BY <1>4, <1>7, <1>8

\* In every reachable state what is under way is paid for by late answers, and
\* every retry of a record took a fragment of an earlier answer.
THEOREM RetryInvariance == Spec => []RetryInv
<1>1. Init => RetryInv
  <2> SUFFICES ASSUME Init PROVE RetryInv
    OBVIOUS
  <2>1. /\ toDevice = <<>> /\ toReader = <<>> /\ sync = ResetSync /\ skipped = {}
        /\ asked = 0 /\ late = 0
    BY DEF Init
  <2>2. /\ ResetSync.pending_kind = "none"
        /\ \A q \in ReaderSequences : ResetSync.record_retries[q] = 0
    BY DEF ResetSync, NoRetries
  <2>3. <<>> \in Seq(ResponseFrames) /\ Len(<<>>) = 0
    OBVIOUS
  <2>4. Weight(<<>>) = 0
    BY <2>3, WeightIs
  <2>5. /\ Held(ResetSync) = 0 /\ Waits(ResetSync) = 0 /\ Unfinished(ResetSync)
        /\ Own(ResetSync, 0, 0, 0, 0)
    BY <2>2, IdleIs
  <2>6. DebtInv
    BY <2>1, <2>3, <2>4, <2>5 DEF DebtInv
  <2>7. 0 \in Numbers /\ 0 \in ReaderSequences
    BY NumbersAre
  <2>8. Counted(ResetSync, 0, <<>>, <<>>, 0)
    <3>1. Since(<<>>, <<>>, 0, 0, 0)
      BY <2>3, SinceAll
    <3>2. 2 * ResetSync.record_retries[0] + 2 * 0 + 0 + 0 <= 2 * 0
      BY <2>2, <2>7
    <3>3. 0 \in 0 .. Len(<<>>)
      BY <2>3
    <3> QED BY <2>5, <3>1, <3>2, <3>3 DEF Counted
  <2>9. Retries
    BY <2>1, <2>2, <2>7, <2>8 DEF Retries
  <2> QED BY <2>6, <2>9 DEF RetryInv
<1>2. RingInv /\ ReaderInv /\ RowsInv /\ RetryInv /\ [Next]_vars => RetryInv'
  <2> SUFFICES ASSUME RingInv, ReaderInv, RowsInv, RetryInv, [Next]_vars
               PROVE  RetryInv'
    OBVIOUS
  <2>1. DebtInv'
    BY StepKeepsDebt DEF RetryInv
  <2>2. ASSUME ~wrapped', asked' # None PROVE Retries'
    <3>1. ~wrapped
      BY <2>2 DEF Next, LogEvent, Answer, Reset, RequestInfo, RequestRecord, Timeout,
         HeartbeatTimeout, Heartbeat, DelayHeartbeat, HandleDelayedHeartbeat,
         HandleResponse, Reconnect, Lose, vars, bounds
    <3> QED BY <2>2, <3>1, StepKeepsRetries DEF RetryInv, RowsInv
  <2> QED BY <2>1, <2>2 DEF RetryInv
<1> QED BY <1>1, <1>2, RingInvariance, ReaderInvariance, RowsInvariance, PTL DEF Spec

\* A reader that has nothing left to ask for has saved the log, but for records
\* that it gave up, and it gives none up for as few late answers as it has
\* retries (process and _reject_record of stm32_log_sync.py).
THEOREM SavedUnlessGivenUp == Spec => []CaughtUpMeansSaved
<1>1. RetryInv => LateAnswersAreHarmless
  BY DEF RetryInv, Retries, LateAnswersAreHarmless
<1>2. SavedWhenCaughtUp /\ LateAnswersAreHarmless => CaughtUpMeansSaved
  BY DEF CaughtUpMeansSaved
<1> QED BY <1>1, <1>2, CaughtUpIsSaved, RetryInvariance, PTL
=============================================================================
