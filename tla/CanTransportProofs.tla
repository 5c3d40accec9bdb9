------------------------- MODULE CanTransportProofs -------------------------
(***************************************************************************)
(* Proofs about CanTransport for every capacity, every set of frames and   *)
(* every pattern of requests, transmissions and restarts.                  *)
(*                                                                         *)
(* The order of the queue and the freshness of its periodic messages are   *)
(* inductive together with the types, since the place where an event is    *)
(* inserted is the boundary that the order asserts to exist.               *)
(*                                                                         *)
(* The stuck report is exact because the tick difference equals the time   *)
(* waited until the report is made, and the report is latched from then on *)
(* (StuckInv).                                                             *)
(*                                                                         *)
(* The array implements the two queues of CanTxService: the events are its *)
(* first EventCount messages because it is in order, and only periodic     *)
(* messages are evicted or replaced (OnlyPeriodic).                        *)
(***************************************************************************)
EXTENDS CanTransport, SequenceTheorems, WellFoundedInduction, TLAPS

\* EventsFirst and FreshOnce as predicates of a queue.
Sorted(q) ==
    \A i, j \in DOMAIN q : i < j /\ q[j].high_priority => q[i].high_priority

Fresh(q, wanted) ==
    \A i \in DOMAIN q :
        q[i].replaceable =>
            /\ q[i].value = wanted[q[i].id]
            /\ \A j \in DOMAIN q :
                  (q[j].replaceable /\ q[j].id = q[i].id) => i = j

\* Without a controller nothing is ever queued.
NothingWithoutController == ~can_handle => tx_queue = <<>>

IInv == TypeOK /\ NothingWithoutController /\ EventsFirst /\ FreshOnce

----------------------------------------------------------------------------
(* Positions.                                                              *)

\* A non-empty set of naturals has a least element.
LEMMA LeastExists ==
    ASSUME NEW T \in SUBSET Nat, T # {}
    PROVE  \E x \in T : \A y \in T : x <= y
<1> DEFINE R == {s \in Nat \X Nat : s[1] < s[2]}
<1>1. IsWellFoundedOn(R, Nat)
  BY NatLessThanWellFounded DEF OpToRel
<1> HIDE DEF R
<1>2. PICK x \in T : \A y \in T : ~(<<y, x>> \in R)
  BY <1>1, WFMin
<1>3. ASSUME NEW y \in T
      PROVE  x <= y
  <2>1. y < x => <<y, x>> \in R
    BY DEF R
  <2> QED BY <1>2, <2>1
<1> QED BY <1>3

\* A non-empty set of positions has a greatest one.
LEMMA GreatestExists ==
    ASSUME NEW n \in Nat, NEW T \in SUBSET (1 .. n), T # {}
    PROVE  \E x \in T : \A y \in T : x >= y
<1> DEFINE U == {n - i : i \in T}
<1>1. U \in SUBSET Nat /\ U # {}
  <2>1. \A i \in T : n - i \in Nat
    OBVIOUS
  <2>2. PICK i \in T : TRUE
    OBVIOUS
  <2>3. n - i \in U
    OBVIOUS
  <2> QED BY <2>1, <2>3
<1>2. PICK u \in U : \A y \in U : u <= y
  BY <1>1, LeastExists
<1>3. PICK x \in T : u = n - x
  BY <1>2
<1>4. \A y \in T : n - x <= n - y
  BY <1>2, <1>3
<1> QED BY <1>3, <1>4

\* What an event evicts is a replaceable message of the queue.
LEMMA EvictProperties ==
    ASSUME NEW q \in Seq(Messages), EvictIndex(q) # 0
    PROVE  EvictIndex(q) \in 1 .. Len(q) /\ q[EvictIndex(q)].replaceable
<1> DEFINE I == {i \in 1 .. Len(q) : q[i].replaceable}
<1>1. EvictIndex(q) = IF I # {} THEN Max(I) ELSE 0
  BY DEF EvictIndex, SelectLastInSeq
<1>2. I # {} /\ EvictIndex(q) = Max(I)
  BY <1>1
<1>3. \E x \in I : \A y \in I : x >= y
  <2>1. I \in SUBSET (1 .. Len(q)) /\ Len(q) \in Nat
    OBVIOUS
  <2> QED BY <1>2, <2>1, GreatestExists
<1> QED BY <1>2, <1>3 DEF Max

\* FindPending finds the copy of a replaceable message if there is one.
LEMMA PendingProperties ==
    ASSUME NEW q \in Seq(Messages), NEW m \in Messages
    PROVE  /\ FindPending(q, m) # 0 =>
                 /\ FindPending(q, m) \in 1 .. Len(q)
                 /\ q[FindPending(q, m)].id = m.id
                 /\ q[FindPending(q, m)].replaceable
           /\ FindPending(q, m) = 0 =>
                 \A i \in 1 .. Len(q) : q[i].replaceable => q[i].id # m.id
<1> DEFINE I == {i \in 1 .. Len(q) : q[i].id = m.id /\ q[i].replaceable}
<1>1. FindPending(q, m) = IF I # {} THEN Min(I) ELSE 0
  BY DEF FindPending, SelectInSeq
<1>2. CASE I = {}
  BY <1>1, <1>2
<1>3. CASE I # {}
  <2>1. \E x \in I : \A y \in I : x <= y
    <3>1. I \in SUBSET Nat
      OBVIOUS
    <3> QED BY <1>3, <3>1, LeastExists
  <2>2. FindPending(q, m) \in I
    BY <1>1, <1>3, <2>1 DEF Min
  <2> QED BY <2>2
<1> QED BY <1>2, <1>3

\* A new message goes to the boundary between events and periodic messages.
LEMMA InsertIndexProperties ==
    ASSUME NEW q \in Seq(Messages), NEW m \in Messages, Sorted(q)
    PROVE  /\ InsertIndex(q, m) \in 1 .. Len(q) + 1
           /\ m.high_priority =>
                 \A i \in 1 .. Len(q) :
                     q[i].high_priority <=> i < InsertIndex(q, m)
           /\ ~m.high_priority => InsertIndex(q, m) = Len(q) + 1
<1> DEFINE P == {i \in DOMAIN q : ~q[i].high_priority}
           N == CHOOSE i \in P : \A j \in P : i <= j
<1>0. DOMAIN q = 1 .. Len(q) /\ Len(q) \in Nat
  OBVIOUS
<1>1. CASE m.high_priority /\ P # {}
  <2>1. InsertIndex(q, m) = N
    BY <1>1 DEF InsertIndex
  <2>2. \E x \in P : \A y \in P : x <= y
    <3>1. P \in SUBSET Nat
      BY <1>0
    <3> QED BY <1>1, <3>1, LeastExists
  <2>3. N \in P /\ \A j \in P : N <= j
    BY <2>2
  <2>4. ASSUME NEW i \in 1 .. Len(q)
        PROVE  q[i].high_priority <=> i < N
    BY <1>0, <2>3, <2>4 DEF Sorted
  <2> HIDE DEF N
  <2> QED BY <1>0, <1>1, <2>1, <2>3, <2>4
<1>2. CASE ~(m.high_priority /\ P # {})
  <2>1. InsertIndex(q, m) = Len(q) + 1
    BY <1>2 DEF InsertIndex
  <2> QED BY <1>0, <1>2, <2>1
<1> QED BY <1>1, <1>2

----------------------------------------------------------------------------
(* The array operations.                                                   *)

\* Removing a position moves what is behind it up by one.
LEMMA RemoveProperties ==
    ASSUME NEW q \in Seq(Messages), NEW i \in 1 .. Len(q)
    PROVE  /\ RemoveAt(q, i) \in Seq(Messages)
           /\ Len(RemoveAt(q, i)) = Len(q) - 1
           /\ \A j \in 1 .. Len(q) - 1 :
                 RemoveAt(q, i)[j] = IF j < i THEN q[j] ELSE q[j + 1]
<1> DEFINE a == SubSeq(q, 1, i - 1)
           b == SubSeq(q, i + 1, Len(q))
<1>0. Len(q) \in Nat /\ \A j \in 1 .. Len(q) : q[j] \in Messages
  BY LenProperties, ElementOfSeq
<1>1. /\ a \in Seq(Messages) /\ Len(a) = i - 1
      /\ \A j \in 1 .. i - 1 : a[j] = q[j]
  BY <1>0, SubSeqProperties
<1>2. /\ b \in Seq(Messages) /\ Len(b) = Len(q) - i
      /\ \A j \in 1 .. Len(q) - i : b[j] = q[i + j]
  BY <1>0, SubSeqProperties
<1> HIDE DEF a, b
<1>3. /\ a \o b \in Seq(Messages) /\ Len(a \o b) = Len(a) + Len(b)
      /\ \A j \in 1 .. Len(a) + Len(b) :
            (a \o b)[j] = IF j <= Len(a) THEN a[j] ELSE b[j - Len(a)]
  BY <1>1, <1>2, ConcatProperties, Zenon
<1>4. Len(a) + Len(b) = Len(q) - 1
  BY <1>0, <1>1, <1>2
<1>5. ASSUME NEW j \in 1 .. Len(q) - 1
      PROVE  (a \o b)[j] = IF j < i THEN q[j] ELSE q[j + 1]
  <2>1. (a \o b)[j] = IF j <= Len(a) THEN a[j] ELSE b[j - Len(a)]
    BY <1>3, <1>4
  <2>2. CASE j < i
    BY <1>1, <2>1, <2>2
  <2>3. CASE j >= i
    <3>1. j - Len(a) \in 1 .. Len(q) - i /\ i + (j - Len(a)) = j + 1
      BY <1>0, <1>1, <2>3
    <3> QED BY <1>1, <1>2, <2>1, <2>3, <3>1
  <2>4. j < i \/ j >= i
    BY <1>0
  <2> QED BY <2>2, <2>3, <2>4, Zenon
<1> QED BY <1>3, <1>4, <1>5 DEF RemoveAt, a, b

\* Inserting at a position moves it and what is behind it down by one.
LEMMA InsertProperties ==
    ASSUME NEW q \in Seq(Messages), NEW i \in 1 .. Len(q) + 1,
           NEW m \in Messages
    PROVE  /\ InsertAt(q, i, m) \in Seq(Messages)
           /\ Len(InsertAt(q, i, m)) = Len(q) + 1
           /\ \A j \in 1 .. Len(q) + 1 :
                 InsertAt(q, i, m)[j] =
                     IF j < i THEN q[j] ELSE IF j = i THEN m ELSE q[j - 1]
<1> DEFINE a == SubSeq(q, 1, i - 1)
           c == a \o <<m>>
           b == SubSeq(q, i, Len(q))
<1>0. Len(q) \in Nat /\ \A j \in 1 .. Len(q) : q[j] \in Messages
  BY LenProperties, ElementOfSeq
<1>1. /\ a \in Seq(Messages) /\ Len(a) = i - 1
      /\ \A j \in 1 .. i - 1 : a[j] = q[j]
  BY <1>0, SubSeqProperties
<1>2. /\ b \in Seq(Messages) /\ Len(b) = Len(q) - i + 1
      /\ \A j \in 1 .. Len(q) - i + 1 : b[j] = q[i + j - 1]
  BY <1>0, SubSeqProperties
<1>3. /\ <<m>> \in Seq(Messages) /\ Len(<<m>>) = 1 /\ <<m>>[1] = m
  OBVIOUS
<1> HIDE DEF a, b
<1>4. /\ c \in Seq(Messages) /\ Len(c) = i
      /\ \A j \in 1 .. i : c[j] = IF j <= i - 1 THEN a[j] ELSE <<m>>[j - (i - 1)]
  BY <1>0, <1>1, <1>3, ConcatProperties
<1>5. c[i] = m /\ \A j \in 1 .. i - 1 : c[j] = q[j]
  BY <1>1, <1>3, <1>4
<1> HIDE DEF c
<1>6. /\ c \o b \in Seq(Messages) /\ Len(c \o b) = Len(c) + Len(b)
      /\ \A j \in 1 .. Len(c) + Len(b) :
            (c \o b)[j] = IF j <= Len(c) THEN c[j] ELSE b[j - Len(c)]
  BY <1>2, <1>4, ConcatProperties, Zenon
<1>7. Len(c) + Len(b) = Len(q) + 1
  BY <1>0, <1>2, <1>4
<1>8. InsertAt(q, i, m) = c \o b
  BY DEF InsertAt, a, b, c
<1>9. ASSUME NEW j \in 1 .. Len(q) + 1
      PROVE  (c \o b)[j] =
                 IF j < i THEN q[j] ELSE IF j = i THEN m ELSE q[j - 1]
  <2>1. (c \o b)[j] = IF j <= i THEN c[j] ELSE b[j - i]
    BY <1>4, <1>6, <1>7
  <2>2. CASE j <= i
    BY <1>5, <2>1, <2>2
  <2>3. CASE j > i
    <3>1. j - i \in 1 .. Len(q) - i + 1 /\ i + (j - i) - 1 = j - 1
      BY <1>0, <2>3
    <3> QED BY <1>2, <2>1, <2>3, <3>1
  <2>4. j <= i \/ j > i
    BY <1>0
  <2> QED BY <2>2, <2>3, <2>4, Zenon
<1> QED BY <1>6, <1>7, <1>8, <1>9

----------------------------------------------------------------------------
(* What the operations keep.                                               *)

\* A queue keeps its order and its fresh values when a message is removed.
LEMMA RemoveKeeps ==
    ASSUME NEW q \in Seq(Messages), NEW i \in 1 .. Len(q), NEW wanted,
           Sorted(q), Fresh(q, wanted)
    PROVE  Sorted(RemoveAt(q, i)) /\ Fresh(RemoveAt(q, i), wanted)
<1> DEFINE r == RemoveAt(q, i)
           old == [j \in Int |-> IF j < i THEN j ELSE j + 1]
<1>1. /\ Len(q) \in Nat /\ DOMAIN q = 1 .. Len(q)
      /\ r \in Seq(Messages) /\ DOMAIN r = 1 .. Len(q) - 1
      /\ \A j \in 1 .. Len(q) - 1 : r[j] = IF j < i THEN q[j] ELSE q[j + 1]
  BY RemoveProperties, LenProperties
<1> HIDE DEF r
<1>2. \A j \in DOMAIN r : old[j] \in DOMAIN q /\ r[j] = q[old[j]]
  BY <1>1
<1>3. ASSUME NEW j \in DOMAIN r, NEW k \in DOMAIN r
      PROVE  /\ j < k => old[j] < old[k]
             /\ old[j] = old[k] => j = k
  BY <1>1
<1> HIDE DEF old
<1>4. Sorted(r)
  <2> SUFFICES ASSUME NEW j \in DOMAIN r, NEW k \in DOMAIN r, j < k,
                      r[k].high_priority
               PROVE  r[j].high_priority
    BY DEF Sorted
  <2>1. /\ old[j] \in DOMAIN q /\ old[k] \in DOMAIN q
        /\ r[j] = q[old[j]] /\ r[k] = q[old[k]] /\ old[j] < old[k]
    BY <1>2, <1>3
  <2>2. q[old[k]].high_priority
    BY <2>1
  <2>3. q[old[j]].high_priority
    BY <2>1, <2>2, Zenon DEF Sorted
  <2> QED BY <2>1, <2>3
<1>5. Fresh(r, wanted)
  <2> SUFFICES ASSUME NEW j \in DOMAIN r, r[j].replaceable
               PROVE  /\ r[j].value = wanted[r[j].id]
                      /\ \A k \in DOMAIN r :
                            (r[k].replaceable /\ r[k].id = r[j].id) => j = k
    BY DEF Fresh
  <2>1. /\ old[j] \in DOMAIN q /\ r[j] = q[old[j]]
        /\ q[old[j]].replaceable
    BY <1>2
  <2>2. r[j].value = wanted[r[j].id]
    BY <2>1, Zenon DEF Fresh
  <2>3. ASSUME NEW k \in DOMAIN r, r[k].replaceable, r[k].id = r[j].id
        PROVE  j = k
    <3>1. /\ old[k] \in DOMAIN q /\ r[k] = q[old[k]]
          /\ q[old[k]].replaceable /\ q[old[k]].id = q[old[j]].id
      BY <1>2, <2>1, <2>3
    <3>2. old[j] = old[k]
      BY <2>1, <3>1, Zenon DEF Fresh
    <3> QED BY <1>3, <3>2
  <2> QED BY <2>2, <2>3
<1> QED BY <1>4, <1>5 DEF r

\* The same when a message is inserted where the code inserts it, provided
\* that it is fresh itself.
LEMMA InsertKeeps ==
    ASSUME NEW q \in Seq(Messages), NEW m \in Messages, NEW wanted,
           Sorted(q), Fresh(q, wanted),
           m.high_priority => ~m.replaceable,
           m.replaceable => /\ m.value = wanted[m.id]
                            /\ \A j \in 1 .. Len(q) :
                                  q[j].replaceable => q[j].id # m.id
    PROVE  /\ Sorted(InsertAt(q, InsertIndex(q, m), m))
           /\ Fresh(InsertAt(q, InsertIndex(q, m), m), wanted)
<1> DEFINE n == InsertIndex(q, m)
           r == InsertAt(q, n, m)
           old == [j \in Int |-> IF j < n THEN j ELSE j - 1]
<1>1. /\ n \in 1 .. Len(q) + 1
      /\ m.high_priority =>
            \A i \in 1 .. Len(q) : q[i].high_priority <=> i < n
      /\ ~m.high_priority => n = Len(q) + 1
  BY InsertIndexProperties
<1> HIDE DEF n
<1>2. /\ Len(q) \in Nat /\ DOMAIN q = 1 .. Len(q)
      /\ r \in Seq(Messages) /\ DOMAIN r = 1 .. Len(q) + 1
      /\ \A j \in 1 .. Len(q) + 1 :
            r[j] = IF j < n THEN q[j] ELSE IF j = n THEN m ELSE q[j - 1]
  BY <1>1, InsertProperties, LenProperties
<1> HIDE DEF r
<1>3. /\ n \in DOMAIN r /\ r[n] = m
      /\ \A j \in DOMAIN r \ {n} : old[j] \in DOMAIN q /\ r[j] = q[old[j]]
  BY <1>1, <1>2
<1>4. ASSUME NEW j \in DOMAIN r \ {n}, NEW k \in DOMAIN r \ {n}
      PROVE  /\ j < k => old[j] < old[k]
             /\ old[j] = old[k] => j = k
  BY <1>1, <1>2
<1>5. Sorted(r)
  <2> SUFFICES ASSUME NEW j \in DOMAIN r, NEW k \in DOMAIN r, j < k,
                      r[k].high_priority
               PROVE  r[j].high_priority
    BY DEF Sorted
  <2>1. CASE j # n /\ k # n
    <3> HIDE DEF old
    <3>1. j \in DOMAIN r \ {n} /\ k \in DOMAIN r \ {n}
      BY <2>1
    <3>2. old[j] < old[k] /\ q[old[k]].high_priority
      BY <1>3, <1>4, <3>1
    <3>3. q[old[j]].high_priority
      BY <1>3, <3>1, <3>2 DEF Sorted
    <3> QED BY <1>3, <3>1, <3>3
  <2>2. CASE k = n
    BY <1>1, <1>2, <1>3, <2>2
  <2>3. CASE j = n
    <3>1. ~m.high_priority => FALSE
      BY <1>1, <1>2, <2>3
    <3> QED BY <1>3, <2>3, <3>1
  <2> QED BY <2>1, <2>2, <2>3
<1>6. Fresh(r, wanted)
  <2> HIDE DEF old
  <2> SUFFICES ASSUME NEW j \in DOMAIN r, r[j].replaceable
               PROVE  /\ r[j].value = wanted[r[j].id]
                      /\ \A k \in DOMAIN r :
                            (r[k].replaceable /\ r[k].id = r[j].id) => j = k
    BY DEF Fresh
  <2>1. CASE j = n
    BY <1>2, <1>3, <2>1
  <2>2. CASE j # n
    <3>1. /\ j \in DOMAIN r \ {n} /\ old[j] \in DOMAIN q
          /\ r[j] = q[old[j]] /\ q[old[j]].replaceable
      BY <1>3, <2>2
    <3>2. r[j].value = wanted[r[j].id]
      BY <3>1, Zenon DEF Fresh
    <3>3. ASSUME NEW k \in DOMAIN r, r[k].replaceable, r[k].id = r[j].id
          PROVE  j = k
      <4>1. k # n
        BY <1>2, <1>3, <3>1, <3>3
      <4>2. /\ k \in DOMAIN r \ {n} /\ old[k] \in DOMAIN q
            /\ r[k] = q[old[k]] /\ q[old[k]].replaceable
            /\ q[old[k]].id = q[old[j]].id
        BY <1>3, <3>1, <3>3, <4>1
      <4>3. old[j] = old[k]
        BY <3>1, <4>2, Zenon DEF Fresh
      <4> QED BY <1>4, <3>1, <4>2, <4>3
    <3> QED BY <3>2, <3>3
  <2> QED BY <2>1, <2>2
<1> QED BY <1>5, <1>6 DEF r, n

\* The queue after the copy at position i got the value v.
Replaced(q, i, v) == [q EXCEPT ![i].value = v]

\* The same when the pending copy of a value is replaced by the new value.
LEMMA ReplaceKeeps ==
    ASSUME NEW q \in Seq(Messages), NEW i \in 1 .. Len(q), NEW id, NEW v,
           NEW wanted \in [Ids -> Values \cup {Nothing}],
           id \in Ids, v \in Values,
           q[i].replaceable, q[i].id = id,
           Sorted(q), Fresh(q, wanted)
    PROVE  /\ Replaced(q, i, v) \in Seq(Messages)
           /\ Len(Replaced(q, i, v)) = Len(q)
           /\ Sorted(Replaced(q, i, v))
           /\ Fresh(Replaced(q, i, v), [wanted EXCEPT ![id] = v])
<1> DEFINE m == [q[i] EXCEPT !.value = v]
           r == [q EXCEPT ![i] = m]
<1>1. q[i] \in Messages
  BY ElementOfSeq
<1>2. /\ m \in Messages /\ m.value = v /\ m.id = id /\ m.replaceable
      /\ m.high_priority = q[i].high_priority
  BY <1>1 DEF Messages
<1>3. r = Replaced(q, i, v)
  BY DEF Replaced
<1> HIDE DEF m
<1>4. /\ r \in Seq(Messages) /\ Len(r) = Len(q)
      /\ \A j \in 1 .. Len(q) : r[j] = IF j = i THEN m ELSE q[j]
  BY <1>2, ExceptSeq
<1>5. DOMAIN r = 1 .. Len(q) /\ DOMAIN q = 1 .. Len(q)
  BY LenProperties
<1> HIDE DEF r
<1>6. Sorted(r)
  BY <1>2, <1>4, <1>5 DEF Sorted
<1>7. Fresh(r, [wanted EXCEPT ![id] = v])
  <2>1. \A j \in 1 .. Len(q) : j # i /\ q[j].replaceable => q[j].id # id
    BY <1>5 DEF Fresh
  <2>2. \A j \in 1 .. Len(q) : q[j].id \in Ids
    <3>1. \A j \in 1 .. Len(q) : q[j] \in Messages
      BY ElementOfSeq
    <3> QED BY <3>1 DEF Messages
  <2> QED BY <1>2, <1>4, <1>5, <2>1, <2>2 DEF Fresh
<1> QED BY <1>3, <1>4, <1>6, <1>7

\* A newly wanted value does not make a queue stale that has no copy of it.
LEMMA WantKeeps ==
    ASSUME NEW q \in Seq(Messages), NEW id \in Ids, NEW v,
           NEW wanted \in [Ids -> Values \cup {Nothing}],
           \A i \in 1 .. Len(q) : q[i].replaceable => q[i].id # id,
           Fresh(q, wanted)
    PROVE  Fresh(q, [wanted EXCEPT ![id] = v])
<1>1. DOMAIN q = 1 .. Len(q)
  BY LenProperties
<1>2. \A i \in 1 .. Len(q) : q[i].id \in Ids
  <2>1. \A i \in 1 .. Len(q) : q[i] \in Messages
    BY ElementOfSeq
  <2> QED BY <2>1 DEF Messages
<1> QED BY <1>1, <1>2 DEF Fresh

----------------------------------------------------------------------------
(* The invariant.                                                          *)

\* The constants that are sizes are positive.
LEMMA Positive ==
    /\ Capacity \in Nat \ {0} /\ FifoDepth \in Nat \ {0}
    /\ StuckTimeout \in Nat \ {0} /\ TickModulus \in Nat \ {0}
    /\ MaxStops \in Nat
BY SizeAssumption

\* The health state of any queue is well typed.
Healths == [pending_since_tick : Ticks, timer_active : BOOLEAN,
            stuck_reported : BOOLEAN, stuck_active : BOOLEAN]

\* CAN_Transport_UpdateQueueHealth keeps the stuck timer well typed.
LEMMA HealthType ==
    ASSUME tick \in Ticks, NEW h \in Healths, NEW n \in Nat
    PROVE  UpdatedHealth(h, n) \in Healths
<1> DEFINE since == IF h.timer_active THEN h.pending_since_tick ELSE tick
           stuck == (tick - since + TickModulus) % TickModulus >= StuckTimeout
<1>1. since \in Ticks
  BY DEF Healths
<1> HIDE DEF since
<1>2. stuck \in BOOLEAN
  OBVIOUS
<1> HIDE DEF stuck
<1> DEFINE again == h.timer_active /\ h.stuck_reported
           reported == again \/ (stuck /\ ~again)
           active == h.stuck_active \/ (stuck /\ ~again)
<1>3. reported \in BOOLEAN /\ active \in BOOLEAN
  OBVIOUS
<1>4. UpdatedHealth(h, n) =
         IF n = 0
         THEN [h EXCEPT !.timer_active = FALSE, !.stuck_reported = FALSE,
                        !.stuck_active = FALSE]
         ELSE [pending_since_tick |-> since, timer_active |-> TRUE,
               stuck_reported |-> reported, stuck_active |-> active]
  BY Zenon DEF UpdatedHealth, since, stuck
<1> HIDE DEF reported, active
<1>5. CASE n = 0
  BY <1>4, <1>5 DEF Healths
<1>6. CASE n # 0
  <2>1. UpdatedHealth(h, n) =
           [pending_since_tick |-> since, timer_active |-> TRUE,
            stuck_reported |-> reported, stuck_active |-> active]
    BY <1>4, <1>6
  <2>2. \A x \in Ticks : \A b, c \in BOOLEAN :
            [pending_since_tick |-> x, timer_active |-> TRUE,
             stuck_reported |-> b, stuck_active |-> c] \in Healths
    BY DEF Healths
  <2> QED BY <1>1, <1>3, <2>1, <2>2, Zenon
<1> QED BY <1>5, <1>6

\* The initial queue is empty.
LEMMA InitInv == Init => IInv
<1> SUFFICES ASSUME Init PROVE IInv
  OBVIOUS
<1>1. TypeOK
  <2>1. tx_queue \in Seq(Messages) /\ Len(tx_queue) <= Capacity
    BY Positive DEF Init
  <2>2. health \in Healths
    BY Positive DEF Init, Healths, Ticks
  <2>3. tick \in Ticks /\ fifo_level \in 0 .. FifoDepth
        /\ stops \in 0 .. MaxStops /\ age \in 0 .. StuckTimeout
    BY Positive DEF Init, Ticks
  <2> QED BY <2>1, <2>2, <2>3 DEF Init, TypeOK, Healths
<1>2. NothingWithoutController /\ EventsFirst /\ FreshOnce
  BY DEF Init, NothingWithoutController, EventsFirst, FreshOnce
<1> QED BY <1>1, <1>2 DEF IInv

\* What a step may do to the queue, with its new values wanted.
QueueOK ==
    /\ tx_queue \in Seq(Messages) /\ Len(tx_queue) <= Capacity
    /\ newest \in [Ids -> Values \cup {Nothing}]
    /\ Sorted(tx_queue) /\ Fresh(tx_queue, newest)

RestOK ==
    /\ can_handle \in BOOLEAN
    /\ health \in Healths
    /\ result \in {"OK", "QUEUED", "QUEUE_FULL", "NOT_INITIALIZED"}
    /\ call \in {"idle", "draining"}
    /\ tick \in Ticks /\ polled \in BOOLEAN
    /\ started \in BOOLEAN
    /\ fifo_level \in 0 .. FifoDepth
    /\ stops \in 0 .. MaxStops
    /\ handed \in Messages \cup {Nothing}
    /\ age \in 0 .. StuckTimeout

\* The invariant is about the queue and about the rest.
LEMMA InvParts == IInv <=> QueueOK /\ RestOK /\ NothingWithoutController
BY Zenon DEF IInv, QueueOK, RestOK, TypeOK, Healths, EventsFirst, FreshOnce,
             Sorted, Fresh

\* The same after a step.
LEMMA InvPartsNext ==
    QueueOK' /\ RestOK' /\ NothingWithoutController' => IInv'
BY Zenon DEF IInv, QueueOK, RestOK, TypeOK, Healths, EventsFirst, FreshOnce,
             Sorted, Fresh

\* A tick advanced by one wraps to a tick.
LEMMA TickType ==
    ASSUME tick \in Ticks
    PROVE  (tick + 1) % TickModulus \in Ticks
BY Positive DEF Ticks

\* The controller and the time do not touch the queue.
LEMMA EnvironmentInv ==
    ASSUME IInv,
           Transmit \/ ControllerStops \/ ControllerStarts \/ Tick
    PROVE  IInv'
<1>1. UNCHANGED <<can_handle, tx_queue, health, result, call, handed, newest>>
  BY DEF Transmit, ControllerStops, ControllerStarts, Tick, firmware
<1>2. QueueOK' /\ NothingWithoutController'
  BY <1>1, InvParts DEF QueueOK, Sorted, Fresh, NothingWithoutController
<1>3. /\ fifo_level' \in 0 .. FifoDepth /\ stops' \in 0 .. MaxStops
      /\ tick' \in Ticks /\ age' \in 0 .. StuckTimeout
  BY InvParts, Positive, TickType
     DEF RestOK, Transmit, ControllerStops, ControllerStarts, Tick, firmware,
         time, controller
<1>4. polled' \in BOOLEAN /\ started' \in BOOLEAN
  BY InvParts, Zenon
     DEF RestOK, Transmit, ControllerStops, ControllerStarts, Tick, firmware,
         time, controller
<1>5. RestOK'
  BY <1>1, <1>3, <1>4, InvParts, Zenon DEF RestOK, Healths, Ticks
<1> QED BY <1>2, <1>5, InvPartsNext

\* Handing a message over and answering keep their types.
LEMMA AnswerType ==
    ASSUME RestOK, QueueOK, NEW r \in {"OK", "QUEUED", "QUEUE_FULL"},
           Answer(r)
    PROVE  /\ result' \in {"OK", "QUEUED", "QUEUE_FULL", "NOT_INITIALIZED"}
           /\ health' \in Healths
           /\ age' \in 0 .. StuckTimeout
<1>1. Len(tx_queue) \in Nat
  BY LenProperties DEF QueueOK
<1>2. health' \in Healths
  BY <1>1, HealthType DEF RestOK, Answer
<1> QED BY <1>2 DEF RestOK, Answer

\* An insertion into a queue that has room and is in order.
LEMMA InsertType ==
    ASSUME RestOK, QueueOK, NEW q \in Seq(Messages), NEW m \in Messages,
           Len(q) < Capacity, Sorted(q), Insert(q, m)
    PROVE  /\ result' \in {"OK", "QUEUED", "QUEUE_FULL", "NOT_INITIALIZED"}
           /\ health' \in Healths
           /\ age' \in 0 .. StuckTimeout
           /\ tx_queue' \in Seq(Messages) /\ Len(tx_queue') <= Capacity
<1>1. Len(tx_queue) \in Nat /\ Len(q) \in Nat
  BY LenProperties DEF QueueOK
<1>2. health' \in Healths
  <2>1. CASE tx_queue = <<>>
    <3>1. health' = [pending_since_tick |-> tick, timer_active |-> TRUE,
                     stuck_reported |-> FALSE, stuck_active |-> FALSE]
      BY <2>1 DEF Insert
    <3> QED BY <3>1 DEF Healths, RestOK
  <2>2. CASE tx_queue # <<>>
    BY <1>1, <2>2, HealthType DEF RestOK, Insert
  <2> QED BY <2>1, <2>2
<1>3. age' \in 0 .. StuckTimeout
  BY Positive DEF Insert, RestOK
<1>4. tx_queue' \in Seq(Messages) /\ Len(tx_queue') = Len(q) + 1
  BY InsertIndexProperties, InsertProperties DEF Insert
<1> QED BY <1>1, <1>2, <1>3, <1>4, Positive DEF Insert

\* What is wanted after a request for m.
Wanted(m) == IF m.replaceable THEN [newest EXCEPT ![m.id] = m.value] ELSE newest

\* A request keeps the queue in order and fresh with respect to what is
\* wanted afterwards.
LEMMA EnqueueInv ==
    ASSUME RestOK, QueueOK, NEW m \in Messages, Enqueue(m),
           m.high_priority => ~m.replaceable,
           m.replaceable => FindPending(tx_queue, m) = 0
    PROVE  /\ result' \in {"OK", "QUEUED", "QUEUE_FULL", "NOT_INITIALIZED"}
           /\ health' \in Healths
           /\ age' \in 0 .. StuckTimeout
           /\ tx_queue' \in Seq(Messages) /\ Len(tx_queue') <= Capacity
           /\ Sorted(tx_queue') /\ Fresh(tx_queue', Wanted(m))
<1> DEFINE w == Wanted(m)
<1>0. m.id \in Ids /\ m.value \in Values
  BY DEF Messages
<1>1. m.replaceable => \A i \in 1 .. Len(tx_queue) :
                           tx_queue[i].replaceable => tx_queue[i].id # m.id
  BY PendingProperties DEF QueueOK
<1>2. Fresh(tx_queue, w)
  <2>1. CASE m.replaceable
    BY <1>0, <1>1, <2>1, WantKeeps DEF QueueOK, Wanted
  <2>2. CASE ~m.replaceable
    BY <2>2 DEF QueueOK, Wanted
  <2> QED BY <2>1, <2>2
<1>3. m.replaceable => m.value = w[m.id]
  BY <1>0 DEF QueueOK, Wanted
<1> HIDE DEF w
<1>4. CASE Len(tx_queue) < Capacity /\ Insert(tx_queue, m)
  <2>1. /\ Sorted(InsertAt(tx_queue, InsertIndex(tx_queue, m), m))
        /\ Fresh(InsertAt(tx_queue, InsertIndex(tx_queue, m), m), w)
    BY <1>1, <1>2, <1>3, InsertKeeps DEF QueueOK
  <2>2. tx_queue' = InsertAt(tx_queue, InsertIndex(tx_queue, m), m)
    BY <1>4 DEF Insert
  <2> QED BY <1>4, <2>1, <2>2, InsertType DEF QueueOK, w
<1>5. CASE /\ Len(tx_queue) = Capacity
           /\ m.high_priority /\ EvictIndex(tx_queue) # 0
           /\ Insert(RemoveAt(tx_queue, EvictIndex(tx_queue)), m)
  <2> DEFINE q == RemoveAt(tx_queue, EvictIndex(tx_queue))
  <2>1. EvictIndex(tx_queue) \in 1 .. Len(tx_queue)
    BY <1>5, EvictProperties DEF QueueOK
  <2>2. q \in Seq(Messages) /\ Len(q) = Len(tx_queue) - 1
    BY <2>1, RemoveProperties DEF QueueOK
  <2>3. Sorted(q) /\ Fresh(q, w)
    BY <1>2, <2>1, RemoveKeeps DEF QueueOK
  <2>4. Len(q) < Capacity
    BY <1>5, <2>2, Positive
  <2>5. ~m.replaceable
    BY <1>5
  <2>6. Insert(q, m)
    BY <1>5
  <2> HIDE DEF q
  <2>7. Sorted(InsertAt(q, InsertIndex(q, m), m)) /\ Fresh(InsertAt(q, InsertIndex(q, m), m), w)
    BY <2>2, <2>3, <2>5, InsertKeeps
  <2>8. tx_queue' = InsertAt(q, InsertIndex(q, m), m)
    BY <2>6 DEF Insert
  <2> QED BY <2>2, <2>3, <2>4, <2>6, <2>7, <2>8, InsertType DEF w
<1>6. CASE Answer("QUEUE_FULL") /\ UNCHANGED tx_queue
  BY <1>2, <1>6, AnswerType DEF QueueOK, w
<1> QED BY <1>4, <1>5, <1>6 DEF Enqueue

\* The controller's FIFO takes a message only when it has room.
LEMMA HandOverType ==
    ASSUME RestOK, Sendable, NEW m \in Messages, HandOver(m)
    PROVE  /\ fifo_level' \in 0 .. FifoDepth
           /\ handed' \in Messages \cup {Nothing}
           /\ started' \in BOOLEAN
           /\ stops' \in 0 .. MaxStops
BY Positive DEF RestOK, Sendable, HandOver

\* A request, with a controller.
LEMMA RequestInv ==
    ASSUME RestOK, QueueOK, NEW m \in Messages, Request(m),
           m.high_priority => ~m.replaceable
    PROVE  /\ result' \in {"OK", "QUEUED", "QUEUE_FULL", "NOT_INITIALIZED"}
           /\ health' \in Healths
           /\ age' \in 0 .. StuckTimeout
           /\ tx_queue' \in Seq(Messages) /\ Len(tx_queue') <= Capacity
           /\ Sorted(tx_queue') /\ Fresh(tx_queue', Wanted(m))
           /\ fifo_level' \in 0 .. FifoDepth
           /\ handed' \in Messages \cup {Nothing}
           /\ started' \in BOOLEAN
           /\ stops' \in 0 .. MaxStops
<1> DEFINE p == FindPending(tx_queue, m)
<1>0. m.id \in Ids /\ m.value \in Values
  BY DEF Messages
<1>1. CASE /\ tx_queue = <<>> /\ Sendable
           /\ HandOver(m) /\ Answer("OK") /\ UNCHANGED tx_queue
  <2>1. Sorted(tx_queue') /\ Fresh(tx_queue', Wanted(m))
    BY <1>1 DEF Sorted, Fresh
  <2> QED BY <1>1, <2>1, AnswerType, HandOverType DEF QueueOK
<1>2. CASE /\ m.replaceable /\ p # 0
           /\ tx_queue' = [tx_queue EXCEPT ![p].value = m.value]
           /\ Answer("QUEUED")
           /\ UNCHANGED <<controller, handed>>
  <2>1. /\ p \in 1 .. Len(tx_queue) /\ tx_queue[p].id = m.id
        /\ tx_queue[p].replaceable
    BY <1>2, PendingProperties DEF QueueOK
  <2> HIDE DEF p
  <2>2. /\ tx_queue' \in Seq(Messages) /\ Len(tx_queue') = Len(tx_queue)
        /\ Sorted(tx_queue')
        /\ Fresh(tx_queue', [newest EXCEPT ![m.id] = m.value])
    <3>1. /\ tx_queue \in Seq(Messages)
          /\ newest \in [Ids -> Values \cup {Nothing}]
          /\ Sorted(tx_queue) /\ Fresh(tx_queue, newest)
      BY DEF QueueOK
    <3>2. tx_queue' = Replaced(tx_queue, p, m.value)
      BY <1>2 DEF p, Replaced
    <3> QED BY <1>0, <2>1, <3>1, <3>2, ReplaceKeeps
  <2>3. Wanted(m) = [newest EXCEPT ![m.id] = m.value]
    BY <1>2 DEF Wanted
  <2>4. /\ fifo_level' = fifo_level /\ handed' = handed
        /\ started' = started /\ stops' = stops
    BY <1>2 DEF controller
  <2> QED BY <1>2, <2>2, <2>3, <2>4, AnswerType, Zenon DEF QueueOK, RestOK
<1>3. CASE /\ ~(m.replaceable /\ p # 0)
           /\ Enqueue(m)
           /\ UNCHANGED <<controller, handed>>
  <2>1. m.replaceable => FindPending(tx_queue, m) = 0
    BY <1>3
  <2>2. /\ fifo_level' = fifo_level /\ handed' = handed
        /\ started' = started /\ stops' = stops
    BY <1>3 DEF controller
  <2> HIDE DEF p
  <2> QED BY <1>3, <2>1, <2>2, EnqueueInv, Zenon DEF RestOK
<1> QED BY <1>1, <1>2, <1>3 DEF Request

\* Every publishing function keeps the invariant: an event is never
\* replaceable, and only a replaceable request changes what is wanted.
LEMMA SendInv ==
    ASSUME IInv, NEW f \in Frames, NEW r \in BOOLEAN, NEW h \in BOOLEAN,
           h => ~r, Send(f, r, h)
    PROVE  IInv'
<1> DEFINE m == [id |-> f.id, value |-> f.value,
                 high_priority |-> h, replaceable |-> r]
<1>1. /\ m \in Messages /\ (m.high_priority => ~m.replaceable)
      /\ m.id = f.id /\ m.value = f.value /\ m.replaceable = r
  BY DEF Frames, Messages
<1>2. /\ QueueOK /\ RestOK /\ NothingWithoutController
  BY InvParts
<1>3. /\ can_handle' = can_handle /\ call' = call
      /\ tick' = tick /\ polled' = polled
  BY DEF Send, time
<1>4. newest' = Wanted(m)
  BY <1>1, Zenon DEF Send, Wanted
<1>5. can_handle => Request(m)
  BY Zenon DEF Send
<1>6. ~can_handle => /\ result' = "NOT_INITIALIZED"
                     /\ UNCHANGED <<tx_queue, health, age, fifo_level, handed,
                                    started, stops>>
  BY DEF Send, controller
<1> HIDE DEF m
<1>7. newest' \in [Ids -> Values \cup {Nothing}]
  <2>1. m.id \in Ids /\ m.value \in Values
    BY <1>1 DEF Messages
  <2> QED BY <1>2, <1>4, <2>1 DEF Wanted, QueueOK
<1>8. CASE can_handle
  <2>1. Request(m)
    BY <1>5, <1>8
  <2>2. QueueOK'
    BY <1>1, <1>2, <1>4, <1>7, <2>1, RequestInv DEF QueueOK
  <2>3. RestOK'
    BY <1>1, <1>2, <1>3, <2>1, RequestInv, Zenon DEF RestOK, Healths, Ticks
  <2>4. NothingWithoutController'
    BY <1>3, <1>8 DEF NothingWithoutController
  <2> QED BY <2>2, <2>3, <2>4, InvPartsNext
<1>9. CASE ~can_handle
  <2>1. tx_queue = <<>> /\ tx_queue' = <<>>
    BY <1>2, <1>6, <1>9 DEF NothingWithoutController
  <2>2. QueueOK'
    BY <1>7, <2>1, Positive DEF QueueOK, Sorted, Fresh
  <2>3. RestOK'
    BY <1>2, <1>3, <1>6, <1>9, Zenon DEF RestOK, Healths, Ticks
  <2> QED BY <2>1, <2>2, <2>3, InvPartsNext DEF NothingWithoutController
<1> QED BY <1>8, <1>9

\* CAN_Transport_Process and CAN_Transport_GetStats take the queue from its
\* front or leave it alone.
LEMMA ProcessInv ==
    ASSUME IInv, Process \/ GetStats
    PROVE  IInv'
<1>1. QueueOK /\ RestOK /\ NothingWithoutController
  BY InvParts
<1>2. Len(tx_queue) \in Nat
  BY <1>1, LenProperties DEF QueueOK
<1>3. UpdatedHealth(health, Len(tx_queue)) \in Healths
  BY <1>1, <1>2, HealthType DEF RestOK
<1>4. CASE ProcessBegins \/ ProcessEnds \/ GetStats
  <2>1. UNCHANGED <<can_handle, tx_queue, result, tick, started, fifo_level,
                    stops, handed, newest, age>>
    BY <1>4 DEF ProcessBegins, ProcessEnds, GetStats, controller, time
  <2>2. health' \in Healths
    BY <1>1, <1>3, <1>4, Zenon
       DEF ProcessBegins, ProcessEnds, GetStats, RestOK
  <2>3. call' \in {"idle", "draining"} /\ polled' \in BOOLEAN
    BY <1>1, <1>4, Zenon
       DEF ProcessBegins, ProcessEnds, GetStats, RestOK, time
  <2>4. QueueOK' /\ NothingWithoutController'
    BY <1>1, <2>1 DEF QueueOK, Sorted, Fresh, NothingWithoutController
  <2>5. RestOK'
    BY <1>1, <2>1, <2>2, <2>3, Zenon DEF RestOK, Healths, Ticks
  <2> QED BY <2>4, <2>5, InvPartsNext
<1>5. CASE DrainOne
  <2> DEFINE q == tx_queue
             r == Tail(tx_queue)
  <2>1. /\ q \in Seq(Messages) /\ q # <<>> /\ Sorted(q) /\ Fresh(q, newest)
        /\ Len(q) <= Capacity
    BY <1>1, <1>5 DEF QueueOK, DrainOne
  <2>2. /\ Head(q) \in Messages /\ r \in Seq(Messages)
        /\ Len(r) = Len(q) - 1
        /\ \A i \in 1 .. Len(r) : r[i] = q[i + 1]
    BY <2>1, HeadTailProperties
  <2>3. DOMAIN q = 1 .. Len(q) /\ DOMAIN r = 1 .. Len(r)
    BY <2>1, <2>2, LenProperties
  <2>4. tx_queue' = r /\ newest' = newest
    BY <1>5 DEF DrainOne
  <2> HIDE DEF r
  <2>5. Sorted(r)
    <3> SUFFICES ASSUME NEW j \in DOMAIN r, NEW k \in DOMAIN r, j < k,
                        r[k].high_priority
                 PROVE  r[j].high_priority
      BY DEF Sorted
    <3>1. /\ j + 1 \in DOMAIN q /\ k + 1 \in DOMAIN q /\ j + 1 < k + 1
          /\ r[j] = q[j + 1] /\ r[k] = q[k + 1]
      BY <1>2, <2>2, <2>3
    <3> QED BY <2>1, <3>1 DEF Sorted
  <2>6. Fresh(r, newest)
    <3> SUFFICES ASSUME NEW j \in DOMAIN r, r[j].replaceable
                 PROVE  /\ r[j].value = newest[r[j].id]
                        /\ \A k \in DOMAIN r :
                              (r[k].replaceable /\ r[k].id = r[j].id) => j = k
      BY DEF Fresh
    <3>1. j + 1 \in DOMAIN q /\ r[j] = q[j + 1]
      BY <1>2, <2>2, <2>3
    <3>2. r[j].value = newest[r[j].id]
      BY <2>1, <3>1 DEF Fresh
    <3>3. ASSUME NEW k \in DOMAIN r, r[k].replaceable, r[k].id = r[j].id
          PROVE  j = k
      <4>1. k + 1 \in DOMAIN q /\ r[k] = q[k + 1]
        BY <1>2, <2>2, <2>3
      <4>2. j + 1 = k + 1
        BY <2>1, <3>1, <3>3, <4>1 DEF Fresh
      <4> QED BY <2>2, <2>3, <4>2
    <3> QED BY <3>2, <3>3
  <2>7. QueueOK'
    <3>1. Len(r) <= Capacity
      BY <1>2, <2>1, <2>2, Positive
    <3> QED BY <1>1, <2>2, <2>4, <2>5, <2>6, <3>1 DEF QueueOK
  <2>8. /\ fifo_level' \in 0 .. FifoDepth
        /\ handed' \in Messages \cup {Nothing}
        /\ started' \in BOOLEAN /\ stops' \in 0 .. MaxStops
    BY <1>1, <1>5, <2>2, HandOverType DEF DrainOne
  <2>9. age' \in 0 .. StuckTimeout
    BY <1>1, <1>5, Positive DEF DrainOne, RestOK
  <2>10. UNCHANGED <<can_handle, health, result, call, tick, polled>>
    BY <1>5 DEF DrainOne, time
  <2>11. RestOK'
    BY <1>1, <2>8, <2>9, <2>10, Zenon DEF RestOK, Healths, Ticks
  <2>12. NothingWithoutController'
    BY <1>1, <2>1, <2>10 DEF NothingWithoutController
  <2> QED BY <2>7, <2>11, <2>12, InvPartsNext
<1> QED BY <1>4, <1>5 DEF Process

\* The inductive invariant.
THEOREM Invariance == Spec => []IInv
<1>1. ASSUME IInv, Next
      PROVE  IInv'
  <2>1. CASE Publish
    <3>1. CASE SendClassic
      BY <1>1, <3>1, SendInv, FramesAssumption DEF SendClassic
    <3>2. CASE SendClassicLatest
      BY <1>1, <3>2, SendInv, FramesAssumption DEF SendClassicLatest
    <3>3. CASE SendClassicHighPriority
      BY <1>1, <3>3, SendInv, FramesAssumption DEF SendClassicHighPriority
    <3> QED BY <2>1, <3>1, <3>2, <3>3 DEF Publish
  <2> QED BY <1>1, <2>1, ProcessInv, EnvironmentInv DEF Next
<1>2. ASSUME IInv, UNCHANGED vars
      PROVE  IInv'
  BY <1>2 DEF vars, time, controller, IInv, TypeOK, Ticks,
              NothingWithoutController, EventsFirst, FreshOnce
<1> QED BY <1>1, <1>2, InitInv, PTL DEF Spec

\* Type correctness; in particular the array never overflows.
THEOREM TypeCorrect == Spec => []TypeOK
BY Invariance, PTL DEF IInv

\* Events wait ahead of periodic messages in every reachable state, after
\* any sequence of insertions, evictions and replacements.
THEOREM EventsAreFirst == Spec => []EventsFirst
BY Invariance, PTL DEF IInv

\* A periodic value in the queue is the newest, and the only one of its
\* identifier.
THEOREM ValuesAreFresh == Spec => []FreshOnce
BY Invariance, PTL DEF IInv

----------------------------------------------------------------------------
(* The stuck report.                                                       *)

(***************************************************************************)
(* While the queue is not empty the timer runs, and either the report has  *)
(* been made (and stays, whatever the tick does: the latch) or the tick    *)
(* difference is the time the queue has waited.  Time does not pass the    *)
(* timeout unseen, since the loop polls between two ticks.                 *)
(***************************************************************************)
Reported(h, waited) ==
    h.stuck_reported /\ h.stuck_active /\ waited = StuckTimeout

Elapsed(h, now) == (now - h.pending_since_tick + TickModulus) % TickModulus

Counting(h, waited, now) ==
    ~h.stuck_reported /\ ~h.stuck_active /\ Elapsed(h, now) = waited

\* The timer of a queue that is not empty.
Timed(h, waited, now) ==
    h.timer_active /\ (Reported(h, waited) \/ Counting(h, waited, now))

Silent(h) == ~h.timer_active /\ ~h.stuck_active

StuckInv ==
    /\ tx_queue # <<>> =>
          /\ Timed(health, age, tick)
          /\ Reported(health, age) \/ age < StuckTimeout \/ ~polled
    /\ call = "idle" /\ tx_queue = <<>> => Silent(health)

Health(since, active, reported, stuck) ==
    [pending_since_tick |-> since, timer_active |-> active,
     stuck_reported |-> reported, stuck_active |-> stuck]

\* UpdatedHealth of a queue that waits: the timer goes on, and when the
\* timeout has passed the report is there.
LEMMA HealthOfWaiting ==
    ASSUME NEW h \in Healths, NEW n \in Nat \ {0}, NEW waited \in 0 .. StuckTimeout,
           tick \in Ticks, Timed(h, waited, tick)
    PROVE  /\ Timed(UpdatedHealth(h, n), waited, tick)
           /\ waited < StuckTimeout \/ Reported(UpdatedHealth(h, n), waited)
<1> DEFINE u == UpdatedHealth(h, n)
           stuck == Elapsed(h, tick) >= StuckTimeout /\ ~h.stuck_reported
           reported == h.stuck_reported \/ stuck
           active == h.stuck_active \/ stuck
<1>0. h.timer_active
  BY DEF Timed
<1>1. u = Health(h.pending_since_tick, TRUE, reported, active)
  BY <1>0, Zenon DEF UpdatedHealth, Elapsed, Health
<1> HIDE DEF u
<1>2. /\ u.timer_active = TRUE
      /\ u.pending_since_tick = h.pending_since_tick
      /\ u.stuck_reported = reported
      /\ u.stuck_active = active
  <2> HIDE DEF reported, active
  <2> QED BY <1>1 DEF Health
<1>3. Elapsed(u, tick) = Elapsed(h, tick)
  BY <1>2 DEF Elapsed
<1>4. CASE Reported(h, waited)
  <2>1. u.stuck_reported /\ u.stuck_active
    BY <1>2, <1>4, Zenon DEF Reported
  <2> QED BY <1>2, <1>4, <2>1, Zenon DEF Reported, Timed, u
<1>5. CASE Counting(h, waited, tick) /\ waited = StuckTimeout
  <2>1. Elapsed(h, tick) >= StuckTimeout
    BY <1>5, Positive DEF Counting
  <2>2. stuck
    BY <1>5, <2>1, Zenon DEF Counting
  <2>3. u.stuck_reported /\ u.stuck_active
    BY <1>2, <2>2, Zenon
  <2> QED BY <1>2, <1>5, <2>3, Zenon DEF Reported, Timed, u
<1>6. CASE Counting(h, waited, tick) /\ waited # StuckTimeout
  <2>1. waited < StuckTimeout /\ ~(Elapsed(h, tick) >= StuckTimeout)
    BY <1>6, Positive DEF Counting
  <2>2. ~u.stuck_reported /\ ~u.stuck_active
    BY <1>2, <1>6, <2>1, Zenon DEF Counting
  <2> QED BY <1>2, <1>3, <1>6, <2>1, <2>2, Zenon DEF Counting, Timed, u
<1> QED BY <1>4, <1>5, <1>6, Zenon DEF Timed

\* UpdatedHealth of an empty queue: the report is withdrawn.
LEMMA HealthOfEmpty ==
    ASSUME NEW h \in Healths
    PROVE  Silent(UpdatedHealth(h, 0))
BY DEF UpdatedHealth, Healths, Silent

\* The timer of a queue that just became non-empty.
LEMMA HealthOfFirst ==
    ASSUME tick \in Ticks
    PROVE  Timed([pending_since_tick |-> tick, timer_active |-> TRUE,
                  stuck_reported |-> FALSE, stuck_active |-> FALSE], 0, tick)
<1>1. (tick - tick + TickModulus) % TickModulus = 0
  BY Positive DEF Ticks
<1> QED BY <1>1 DEF Timed, Counting, Elapsed

\* One more tick is one more in the difference, except when the time stands
\* still or the report has been made.
LEMMA ElapsedAdvances ==
    ASSUME NEW now \in Ticks, NEW since \in Ticks, NEW waited \in Nat,
           waited < StuckTimeout, TickModulus # 1,
           (now - since + TickModulus) % TickModulus = waited
    PROVE  (((now + 1) % TickModulus) - since + TickModulus) % TickModulus
               = waited + 1
<1>0. /\ TickModulus \in Nat /\ waited + 1 < TickModulus
      /\ now \in Int /\ 0 <= now /\ now < TickModulus
      /\ since \in Int /\ 0 <= since /\ since < TickModulus
  BY Positive, TickAssumption DEF Ticks
<1>1. \A x \in Nat : x < TickModulus => x % TickModulus = x
                                       /\ (x + TickModulus) % TickModulus = x
  BY <1>0
<1>2. CASE now + 1 < TickModulus
  <2>1. (now + 1) % TickModulus = now + 1
    BY <1>0, <1>1, <1>2
  <2>2. CASE now >= since
    <3>1. waited = now - since
      BY <1>0, <1>1, <2>2
    <3> QED BY <1>0, <1>1, <2>1, <2>2, <3>1
  <2>3. CASE now < since
    <3>1. waited = now - since + TickModulus
      BY <1>0, <1>1, <2>3
    <3> QED BY <1>0, <1>1, <2>1, <2>3, <3>1
  <2> QED BY <1>0, <2>2, <2>3
<1>3. CASE now + 1 = TickModulus
  <2>1. (now + 1) % TickModulus = 0
    BY <1>0, <1>3
  <2>2. waited = now - since
    BY <1>0, <1>1, <1>3
  <2> QED BY <1>0, <1>1, <1>3, <2>1, <2>2
<1> QED BY <1>0, <1>2, <1>3

\* Whenever UpdatedHealth sees the queue as the step leaves it, empty or not.
LEMMA UpdateKeepsReport ==
    ASSUME IInv, StuckInv,
           health' = UpdatedHealth(health, Len(tx_queue)),
           tx_queue' = <<>> <=> tx_queue = <<>>,
           UNCHANGED <<age, tick>>
    PROVE  StuckInv'
<1>1. RestOK /\ Len(tx_queue) \in Nat /\ (Len(tx_queue) = 0 <=> tx_queue = <<>>)
  BY InvParts, EmptySeq, LenProperties DEF QueueOK
<1>2. CASE tx_queue = <<>>
  <2>1. Silent(health')
    BY <1>1, <1>2, HealthOfEmpty DEF RestOK
  <2> QED BY <1>2, <2>1 DEF StuckInv
<1>3. CASE tx_queue # <<>>
  <2>1. /\ Timed(health', age, tick)
        /\ age < StuckTimeout \/ Reported(health', age)
    <3>1. Len(tx_queue) \in Nat \ {0}
      BY <1>1, <1>3
    <3> QED BY <1>1, <1>3, <3>1, HealthOfWaiting DEF RestOK, StuckInv
  <2>2. /\ Timed(health', age', tick')
        /\ age' < StuckTimeout \/ Reported(health', age')
    BY <2>1
  <2> QED BY <1>3, <2>2, Zenon DEF StuckInv
<1> QED BY <1>2, <1>3

\* A request keeps the report.
LEMMA RequestKeepsReport ==
    ASSUME IInv, StuckInv, NEW m \in Messages, Request(m),
           m.high_priority => ~m.replaceable, UNCHANGED tick, UNCHANGED call
    PROVE  StuckInv'
<1>1. QueueOK /\ RestOK
  BY InvParts
<1>2. ASSUME NEW r \in {"OK", "QUEUED", "QUEUE_FULL"}, Answer(r),
             tx_queue' = <<>> <=> tx_queue = <<>>
      PROVE  StuckInv'
  BY <1>2, UpdateKeepsReport DEF Answer
<1>3. ASSUME NEW q \in Seq(Messages), Sorted(q), Insert(q, m)
      PROVE  StuckInv'
  <2>1. tx_queue' # <<>>
    <3>1. tx_queue' \in Seq(Messages) /\ Len(tx_queue') = Len(q) + 1
      BY <1>3, InsertIndexProperties, InsertProperties DEF Insert
    <3> QED BY <3>1, LenProperties, EmptySeq
  <2>2. CASE tx_queue = <<>>
    <3>1. Timed(health', age', tick')
      BY <1>1, <1>3, <2>2, HealthOfFirst DEF Insert, RestOK
    <3>2. age' < StuckTimeout
      BY <1>3, <2>2, Positive DEF Insert
    <3> QED BY <2>1, <3>1, <3>2, Zenon DEF StuckInv
  <2>3. CASE tx_queue # <<>>
    BY <1>3, <2>1, <2>3, UpdateKeepsReport DEF Insert
  <2> QED BY <2>2, <2>3
<1>4. CASE Answer("OK") /\ UNCHANGED tx_queue
  BY <1>2, <1>4
<1>5. CASE /\ m.replaceable /\ FindPending(tx_queue, m) # 0
           /\ tx_queue' = [tx_queue EXCEPT ![FindPending(tx_queue, m)].value =
                                                m.value]
           /\ Answer("QUEUED")
  <2>1. FindPending(tx_queue, m) \in 1 .. Len(tx_queue)
    BY <1>1, <1>5, PendingProperties DEF QueueOK
  <2>2. tx_queue # <<>> /\ 1 \in DOMAIN tx_queue'
    BY <1>1, <1>5, <2>1 DEF QueueOK
  <2> QED BY <1>2, <1>5, <2>2
<1>6. CASE Enqueue(m)
  <2>1. CASE Len(tx_queue) < Capacity /\ Insert(tx_queue, m)
    BY <1>1, <1>3, <2>1 DEF QueueOK
  <2>2. CASE /\ EvictIndex(tx_queue) # 0
             /\ Insert(RemoveAt(tx_queue, EvictIndex(tx_queue)), m)
    <3>1. EvictIndex(tx_queue) \in 1 .. Len(tx_queue)
      BY <1>1, <2>2, EvictProperties DEF QueueOK
    <3>2. /\ RemoveAt(tx_queue, EvictIndex(tx_queue)) \in Seq(Messages)
          /\ Sorted(RemoveAt(tx_queue, EvictIndex(tx_queue)))
      BY <1>1, <3>1, RemoveProperties, RemoveKeeps DEF QueueOK
    <3> QED BY <1>3, <2>2, <3>2
  <2>3. CASE Answer("QUEUE_FULL") /\ UNCHANGED tx_queue
    BY <1>2, <2>3
  <2> QED BY <1>6, <2>1, <2>2, <2>3 DEF Enqueue
<1> QED BY <1>4, <1>5, <1>6 DEF Request

\* So does a publishing function, with or without a controller.
LEMMA SendKeepsReport ==
    ASSUME IInv, StuckInv, NEW f \in Frames, NEW r \in BOOLEAN,
           NEW h \in BOOLEAN, h => ~r, Send(f, r, h)
    PROVE  StuckInv'
<1> DEFINE m == [id |-> f.id, value |-> f.value,
                 high_priority |-> h, replaceable |-> r]
<1>1. m \in Messages /\ (m.high_priority => ~m.replaceable)
  BY DEF Frames, Messages
<1>2. UNCHANGED tick /\ UNCHANGED polled /\ UNCHANGED call
  BY DEF Send, time
<1>3. can_handle => Request(m)
  BY Zenon DEF Send
<1>4. ~can_handle => UNCHANGED <<tx_queue, health, age>>
  BY DEF Send
<1> HIDE DEF m
<1>5. CASE can_handle
  BY <1>1, <1>2, <1>3, <1>5, RequestKeepsReport
<1>6. CASE ~can_handle
  BY <1>2, <1>4, <1>6 DEF StuckInv
<1> QED BY <1>5, <1>6

\* Time passes only between polls, so the difference reaches the timeout
\* before it can wrap.
LEMMA TickKeepsReport ==
    ASSUME IInv, StuckInv, Tick
    PROVE  StuckInv'
<1>1. RestOK
  BY InvParts
<1>2. /\ polled /\ call' = call /\ tx_queue' = tx_queue /\ health' = health
      /\ tick' = (tick + 1) % TickModulus /\ (polled' <=> TickModulus = 1)
      /\ age' = IF tx_queue = <<>> \/ age = StuckTimeout \/ TickModulus = 1
                THEN age ELSE age + 1
  BY DEF Tick
<1>3. CASE tx_queue = <<>>
  BY <1>2, <1>3 DEF StuckInv
<1>4. CASE tx_queue # <<>> /\ TickModulus = 1
  <2>1. tick' = tick /\ age' = age
    BY <1>1, <1>2, <1>4 DEF RestOK, Ticks
  <2> QED BY <1>2, <1>4, <2>1 DEF StuckInv
<1>5. CASE tx_queue # <<>> /\ TickModulus # 1 /\ age = StuckTimeout
  <2>1. Reported(health, age)
    BY <1>2, <1>5, Positive DEF StuckInv
  <2> QED BY <1>2, <1>5, <2>1, Zenon DEF StuckInv, Timed
<1>6. CASE tx_queue # <<>> /\ TickModulus # 1 /\ age # StuckTimeout
  <2>1. health.timer_active /\ Counting(health, age, tick)
    BY <1>2, <1>6, Zenon DEF StuckInv, Timed, Reported
  <2>2. age \in Nat /\ age < StuckTimeout /\ age' = age + 1
    BY <1>1, <1>2, <1>6, Positive DEF RestOK
  <2>3. Elapsed(health, tick') = age'
    BY <1>1, <1>2, <1>6, <2>1, <2>2, ElapsedAdvances
       DEF RestOK, Healths, Counting, Elapsed
  <2>4. Counting(health', age', tick')
    BY <1>2, <2>1, <2>3, Zenon DEF Counting
  <2>5. ~polled'
    BY <1>2, <1>6, Zenon
  <2> QED BY <1>2, <1>6, <2>1, <2>4, <2>5, Zenon DEF StuckInv, Timed
<1> QED BY <1>3, <1>4, <1>5, <1>6

\* CAN_Transport_Process looks at the queue before and after it drains it.
LEMMA ProcessKeepsReport ==
    ASSUME IInv, StuckInv, Process \/ GetStats
    PROVE  StuckInv'
<1>1. QueueOK /\ RestOK /\ NothingWithoutController
  BY InvParts
<1>2. CASE ProcessEnds \/ GetStats
  BY <1>2, UpdateKeepsReport DEF ProcessEnds, GetStats, time
<1>3. CASE ProcessBegins
  <2>1. CASE can_handle
    BY <1>3, <2>1, UpdateKeepsReport DEF ProcessBegins
  <2>2. CASE ~can_handle
    <3>1. tx_queue = <<>> /\ UNCHANGED <<tx_queue, call, health>>
      BY <1>1, <1>3, <2>2 DEF ProcessBegins, NothingWithoutController
    <3> QED BY <3>1 DEF StuckInv
  <2> QED BY <2>1, <2>2
<1>4. CASE DrainOne
  <2>1. /\ tx_queue # <<>> /\ tx_queue' = Tail(tx_queue)
        /\ call' = "draining" /\ UNCHANGED <<health, tick, polled>>
        /\ age' = IF Len(tx_queue) = 1 THEN 0 ELSE age
    BY <1>4 DEF DrainOne, time
  <2>2. tx_queue' # <<>> => Len(tx_queue) # 1
    BY <1>1, <2>1 DEF QueueOK
  <2> QED BY <2>1, <2>2 DEF StuckInv
<1> QED BY <1>2, <1>3, <1>4 DEF Process

\* Whatever the traffic, and although the tick wraps, the report between
\* calls is exact: no queue that moves is called stuck, and none that stands
\* for the timeout stays unreported after the next poll.
THEOREM StuckQueueIsReported == Spec => []StuckIsReported
<1>1. Init => StuckInv
  BY DEF Init, StuckInv, Silent
<1>2. ASSUME IInv, StuckInv, Next
      PROVE  StuckInv'
  <2>1. CASE Publish
    BY <1>2, <2>1, SendKeepsReport, FramesAssumption
       DEF Publish, SendClassic, SendClassicLatest, SendClassicHighPriority
  <2>2. CASE Transmit \/ ControllerStops \/ ControllerStarts
    <3>1. UNCHANGED <<tx_queue, health, call, age, tick, polled>>
      BY <2>2 DEF Transmit, ControllerStops, ControllerStarts, firmware, time
    <3> QED BY <1>2, <3>1 DEF StuckInv
  <2> QED BY <1>2, <2>1, <2>2, ProcessKeepsReport, TickKeepsReport DEF Next
<1>3. IInv /\ StuckInv /\ UNCHANGED vars => StuckInv'
  BY DEF vars, time, StuckInv
<1>4. IInv /\ StuckInv => StuckIsReported
  <2> SUFFICES ASSUME IInv, StuckInv, call = "idle"
               PROVE  /\ health.stuck_active =>
                             tx_queue # <<>> /\ age = StuckTimeout
                      /\ (polled /\ tx_queue # <<>> /\ age = StuckTimeout)
                             => health.stuck_active
    BY DEF StuckIsReported
  <2>1. ~(StuckTimeout < StuckTimeout)
    BY Positive
  <2> QED BY <2>1, Zenon DEF StuckInv, Silent, Timed, Reported, Counting
<1> QED BY <1>1, <1>2, <1>3, <1>4, Invariance, PTL DEF Spec

----------------------------------------------------------------------------
(* The two queues of the publishers in the one array.                      *)

\* The events of q are its first n messages.
Split(q, n) ==
    /\ n \in 0 .. Len(q)
    /\ \A i \in 1 .. Len(q) : q[i].high_priority <=> i <= n

\* In a queue that is in order the events end where EventCount says.
LEMMA SortedSplit ==
    ASSUME NEW q \in Seq(Messages), Sorted(q)
    PROVE  Split(q, EventCount(q))
<1> DEFINE I == {i \in 1 .. Len(q) : q[i].high_priority}
<1>0. Len(q) \in Nat /\ DOMAIN q = 1 .. Len(q)
  BY LenProperties
<1>1. EventCount(q) = IF I # {} THEN Max(I) ELSE 0
  BY DEF EventCount, SelectLastInSeq
<1>2. CASE I = {}
  BY <1>0, <1>1, <1>2 DEF Split
<1>3. CASE I # {}
  <2>1. \E x \in I : \A y \in I : x >= y
    <3>1. I \in SUBSET (1 .. Len(q))
      OBVIOUS
    <3> QED BY <1>0, <1>3, <3>1, GreatestExists
  <2>2. EventCount(q) \in I /\ \A y \in I : EventCount(q) >= y
    BY <1>1, <1>3, <2>1 DEF Max
  <2>3. ASSUME NEW i \in 1 .. Len(q)
        PROVE  q[i].high_priority <=> i <= EventCount(q)
    BY <1>0, <2>2 DEF Sorted
  <2> QED BY <2>2, <2>3 DEF Split
<1> QED BY <1>2, <1>3

\* The number of events is the only such position.
LEMMA SplitUnique ==
    ASSUME NEW q \in Seq(Messages), NEW n, Split(q, n)
    PROVE  EventCount(q) = n
<1>1. Len(q) \in Nat
  BY LenProperties
<1> DEFINE I == {i \in 1 .. Len(q) : q[i].high_priority}
<1>2. I = 1 .. n
  BY <1>1 DEF Split
<1>3. EventCount(q) = IF I # {} THEN Max(I) ELSE 0
  BY DEF EventCount, SelectLastInSeq
<1>4. CASE n = 0
  BY <1>2, <1>3, <1>4
<1>5. CASE n # 0
  <2>1. n \in I /\ \A y \in I : n >= y
    BY <1>1, <1>2, <1>5 DEF Split
  <2>2. Max(I) \in I /\ \A y \in I : Max(I) >= y
    BY <2>1 DEF Max
  <2>3. Max(I) = n
    BY <1>1, <1>2, <2>1, <2>2 DEF Split
  <2> QED BY <1>3, <2>1, <2>3
<1> QED BY <1>4, <1>5

\* What the two queues hold.
LEMMA SplitParts ==
    ASSUME NEW q \in Seq(Messages), NEW n, Split(q, n)
    PROVE  /\ Events(q) \in Seq(Messages) /\ Len(Events(q)) = n
           /\ \A i \in 1 .. n : Events(q)[i] = q[i]
           /\ Periodic(q) \in Seq(Messages) /\ Len(Periodic(q)) = Len(q) - n
           /\ \A i \in 1 .. Len(q) - n : Periodic(q)[i] = q[n + i]
<1>0. /\ Len(q) \in Nat /\ n \in 0 .. Len(q)
      /\ \A i \in 1 .. Len(q) : q[i] \in Messages
  BY LenProperties, ElementOfSeq DEF Split
<1>1. Events(q) = SubSeq(q, 1, n) /\ Periodic(q) = SubSeq(q, n + 1, Len(q))
  BY SplitUnique DEF Events, Periodic
<1>2. /\ SubSeq(q, 1, n) \in Seq(Messages) /\ Len(SubSeq(q, 1, n)) = n
      /\ \A i \in 1 .. n : SubSeq(q, 1, n)[i] = q[i]
  <2>1. 1 \in Int /\ n \in Int /\ \A i \in 1 .. n : q[i] \in Messages
    BY <1>0
  <2> QED BY <1>0, <2>1, SubSeqProperties
<1>3. /\ SubSeq(q, n + 1, Len(q)) \in Seq(Messages)
      /\ Len(SubSeq(q, n + 1, Len(q))) = Len(q) - n
      /\ \A i \in 1 .. Len(q) - n : SubSeq(q, n + 1, Len(q))[i] = q[n + i]
  <2>1. n + 1 \in Int /\ Len(q) \in Int
        /\ \A i \in n + 1 .. Len(q) : q[i] \in Messages
    BY <1>0
  <2> QED BY <1>0, <2>1, SubSeqProperties
<1> QED BY <1>1, <1>2, <1>3, Zenon

\* Two sequences of messages with the same elements are the same.
LEMMA SameMessages ==
    ASSUME NEW s \in Seq(Messages), NEW t \in Seq(Messages),
           Len(s) = Len(t), \A i \in 1 .. Len(s) : s[i] = t[i]
    PROVE  s = t
BY SeqEqual

\* An insertion appends to the events or to the periodic messages.
LEMMA InsertSplit ==
    ASSUME NEW q \in Seq(Messages), NEW m \in Messages, Sorted(q)
    PROVE  LET r == InsertAt(q, InsertIndex(q, m), m)
           IN  IF m.high_priority
               THEN /\ Events(r) = Append(Events(q), m)
                    /\ Periodic(r) = Periodic(q)
               ELSE /\ Events(r) = Events(q)
                    /\ Periodic(r) = Append(Periodic(q), m)
<1> DEFINE k == InsertIndex(q, m)
           r == InsertAt(q, k, m)
           n == EventCount(q)
<1>1. /\ k \in 1 .. Len(q) + 1
      /\ m.high_priority =>
            \A i \in 1 .. Len(q) : q[i].high_priority <=> i < k
      /\ ~m.high_priority => k = Len(q) + 1
  BY InsertIndexProperties
<1>2. Len(q) \in Nat /\ Split(q, n)
  BY SortedSplit, LenProperties
<1> HIDE DEF k, n
<1>3. /\ r \in Seq(Messages) /\ Len(r) = Len(q) + 1
      /\ \A j \in 1 .. Len(q) + 1 :
            r[j] = IF j < k THEN q[j] ELSE IF j = k THEN m ELSE q[j - 1]
  BY <1>1, InsertProperties
<1> HIDE DEF r
<1>4. /\ Events(q) \in Seq(Messages) /\ Len(Events(q)) = n
      /\ \A i \in 1 .. n : Events(q)[i] = q[i]
      /\ Periodic(q) \in Seq(Messages) /\ Len(Periodic(q)) = Len(q) - n
      /\ \A i \in 1 .. Len(q) - n : Periodic(q)[i] = q[n + i]
  BY <1>2, SplitParts
<1>5. CASE m.high_priority
  <2>1. k = n + 1
    <3>1. \A i \in 1 .. Len(q) : i < k <=> i <= n
      BY <1>1, <1>2, <1>5 DEF Split
    <3> QED BY <1>1, <1>2, <3>1 DEF Split
  <2>2. Split(r, n + 1)
    <3>1. n + 1 \in 0 .. Len(r)
      BY <1>2, <1>3 DEF Split
    <3>2. ASSUME NEW i \in 1 .. Len(r)
          PROVE  r[i].high_priority <=> i <= n + 1
      <4>1. CASE i < k
        BY <1>2, <1>3, <2>1, <4>1 DEF Split
      <4>2. CASE i = k
        BY <1>2, <1>3, <1>5, <2>1, <4>2 DEF Split
      <4>3. CASE i > k
        <5>1. i - 1 \in 1 .. Len(q) /\ r[i] = q[i - 1]
          BY <1>1, <1>2, <1>3, <4>3
        <5> QED BY <1>2, <2>1, <4>3, <5>1 DEF Split
      <4> QED BY <1>1, <1>3, <4>1, <4>2, <4>3
    <3> QED BY <3>1, <3>2 DEF Split
  <2>3. /\ Events(r) \in Seq(Messages) /\ Len(Events(r)) = n + 1
        /\ \A i \in 1 .. n + 1 : Events(r)[i] = r[i]
        /\ Periodic(r) \in Seq(Messages)
        /\ Len(Periodic(r)) = Len(r) - (n + 1)
        /\ \A i \in 1 .. Len(r) - (n + 1) : Periodic(r)[i] = r[n + 1 + i]
    BY <1>3, <2>2, SplitParts
  <2>4. Periodic(r) = Periodic(q)
    <3>1. \A i \in 1 .. Len(q) - n : r[n + 1 + i] = q[n + i]
      BY <1>2, <1>3, <2>1 DEF Split
    <3>2. Len(r) - (n + 1) = Len(q) - n
      BY <1>2, <1>3 DEF Split
    <3>3. \A i \in 1 .. Len(q) - n : Periodic(r)[i] = Periodic(q)[i]
      BY <1>4, <2>3, <3>1, <3>2
    <3> QED BY <1>4, <2>3, <3>2, <3>3, SameMessages
  <2>5. Events(r) = Append(Events(q), m)
    <3> DEFINE a == Append(Events(q), m)
    <3>1. /\ a \in Seq(Messages) /\ Len(a) = n + 1
          /\ \A i \in 1 .. n : a[i] = q[i]
          /\ a[n + 1] = m
      BY <1>4, AppendProperties
    <3> HIDE DEF a
    <3>2. \A i \in 1 .. n + 1 : a[i] = r[i]
      BY <1>2, <1>3, <2>1, <3>1 DEF Split
    <3>3. \A i \in 1 .. n + 1 : Events(r)[i] = a[i]
      BY <2>3, <3>2
    <3>4. Events(r) \in Seq(Messages) /\ Len(Events(r)) = n + 1
      BY <2>3
    <3>5. Events(r) = a
      BY <3>1, <3>3, <3>4, SameMessages
    <3> QED BY <3>5 DEF a
  <2> QED BY <1>5, <2>4, <2>5 DEF k, r
<1>6. CASE ~m.high_priority
  <2>1. k = Len(q) + 1
    BY <1>1, <1>6
  <2>2. Split(r, n)
    <3>1. n \in 0 .. Len(r)
      BY <1>2, <1>3 DEF Split
    <3>2. ASSUME NEW i \in 1 .. Len(r)
          PROVE  r[i].high_priority <=> i <= n
      <4>1. CASE i < k
        BY <1>2, <1>3, <2>1, <4>1 DEF Split
      <4>2. CASE i = k
        BY <1>2, <1>3, <1>6, <2>1, <4>2 DEF Split
      <4> QED BY <1>2, <1>3, <2>1, <4>1, <4>2
    <3> QED BY <3>1, <3>2 DEF Split
  <2>3. /\ Events(r) \in Seq(Messages) /\ Len(Events(r)) = n
        /\ \A i \in 1 .. n : Events(r)[i] = r[i]
        /\ Periodic(r) \in Seq(Messages) /\ Len(Periodic(r)) = Len(r) - n
        /\ \A i \in 1 .. Len(r) - n : Periodic(r)[i] = r[n + i]
    BY <1>3, <2>2, SplitParts
  <2>4. Events(r) = Events(q)
    <3>1. \A i \in 1 .. n : r[i] = q[i]
      BY <1>2, <1>3, <2>1 DEF Split
    <3>2. \A i \in 1 .. n : Events(r)[i] = Events(q)[i]
      BY <1>4, <2>3, <3>1
    <3> QED BY <1>4, <2>3, <3>2, SameMessages
  <2>5. Periodic(r) = Append(Periodic(q), m)
    <3> DEFINE a == Append(Periodic(q), m)
    <3>1. /\ a \in Seq(Messages) /\ Len(a) = Len(q) - n + 1
          /\ \A i \in 1 .. Len(q) - n : a[i] = q[n + i]
          /\ a[Len(q) - n + 1] = m
      BY <1>4, AppendProperties
    <3> HIDE DEF a
    <3>2. Len(r) - n = Len(q) - n + 1
      BY <1>2, <1>3 DEF Split
    <3>3. ASSUME NEW i \in 1 .. Len(q) - n + 1
          PROVE  a[i] = r[n + i]
      <4>1. n \in Nat /\ n + i \in 1 .. Len(q) + 1
        BY <1>2 DEF Split
      <4>2. CASE i <= Len(q) - n
        <5>1. n + i < k /\ i \in 1 .. Len(q) - n
          BY <1>2, <2>1, <4>1, <4>2
        <5> QED BY <1>3, <3>1, <4>1, <5>1
      <4>3. CASE i = Len(q) - n + 1
        <5>1. n + i = k
          BY <1>2, <2>1, <4>1, <4>3
        <5> QED BY <1>1, <1>3, <3>1, <4>1, <4>3, <5>1
      <4> QED BY <1>2, <4>1, <4>2, <4>3
    <3>4. \A i \in 1 .. Len(q) - n + 1 : Periodic(r)[i] = a[i]
      BY <2>3, <3>2, <3>3
    <3>5. Periodic(r) \in Seq(Messages) /\ Len(Periodic(r)) = Len(q) - n + 1
      BY <2>3, <3>2
    <3>6. Periodic(r) = a
      BY <3>1, <3>4, <3>5, SameMessages
    <3> QED BY <3>6 DEF a
  <2> QED BY <1>6, <2>4, <2>5 DEF k, r
<1> QED BY <1>5, <1>6

\* An eviction takes a message from the periodic ones.
LEMMA RemoveSplit ==
    ASSUME NEW q \in Seq(Messages), NEW i \in 1 .. Len(q), Sorted(q),
           ~q[i].high_priority
    PROVE  /\ i - EventCount(q) \in 1 .. Len(Periodic(q))
           /\ Periodic(q)[i - EventCount(q)] = q[i]
           /\ Events(RemoveAt(q, i)) = Events(q)
           /\ Periodic(RemoveAt(q, i)) =
                  RemoveAt(Periodic(q), i - EventCount(q))
<1> DEFINE r == RemoveAt(q, i)
           n == EventCount(q)
           p == RemoveAt(Periodic(q), i - n)
<1>1. Len(q) \in Nat /\ Split(q, n)
  BY SortedSplit, LenProperties
<1> HIDE DEF n, p
<1>2. /\ r \in Seq(Messages) /\ Len(r) = Len(q) - 1
      /\ \A j \in 1 .. Len(q) - 1 : r[j] = IF j < i THEN q[j] ELSE q[j + 1]
  BY RemoveProperties
<1> HIDE DEF r
<1>3. /\ Events(q) \in Seq(Messages) /\ Len(Events(q)) = n
      /\ \A j \in 1 .. n : Events(q)[j] = q[j]
      /\ Periodic(q) \in Seq(Messages) /\ Len(Periodic(q)) = Len(q) - n
      /\ \A j \in 1 .. Len(q) - n : Periodic(q)[j] = q[n + j]
  BY <1>1, SplitParts
<1>4. n \in Nat /\ n < i /\ i - n \in 1 .. Len(q) - n /\ n + (i - n) = i
  BY <1>1 DEF Split
<1>5. Split(r, n)
  <2>1. n \in 0 .. Len(r)
    BY <1>1, <1>2, <1>4
  <2>2. ASSUME NEW j \in 1 .. Len(r)
        PROVE  r[j].high_priority <=> j <= n
    <3>1. CASE j < i
      <4>1. j \in 1 .. Len(q) /\ r[j] = q[j]
        BY <1>1, <1>2, <3>1
      <4> QED BY <1>1, <4>1 DEF Split
    <3>2. CASE ~(j < i)
      <4>1. j + 1 \in 1 .. Len(q) /\ ~(j + 1 <= n) /\ ~(j <= n)
        BY <1>1, <1>2, <1>4, <3>2
      <4>2. r[j] = q[j + 1]
        BY <1>2, <3>2
      <4> QED BY <1>1, <4>1, <4>2 DEF Split
    <3> QED BY <3>1, <3>2
  <2> QED BY <2>1, <2>2 DEF Split
<1>6. /\ Events(r) \in Seq(Messages) /\ Len(Events(r)) = n
      /\ \A j \in 1 .. n : Events(r)[j] = r[j]
      /\ Periodic(r) \in Seq(Messages) /\ Len(Periodic(r)) = Len(r) - n
      /\ \A j \in 1 .. Len(r) - n : Periodic(r)[j] = r[n + j]
  BY <1>2, <1>5, SplitParts
<1>7. Events(r) = Events(q)
  <2>1. \A j \in 1 .. n : r[j] = q[j]
    BY <1>1, <1>2, <1>4
  <2>2. \A j \in 1 .. n : Events(r)[j] = Events(q)[j]
    BY <1>3, <1>6, <2>1
  <2> QED BY <1>3, <1>6, <2>2, SameMessages
<1>8. Periodic(r) = p
  <2>1. /\ p \in Seq(Messages) /\ Len(p) = Len(q) - n - 1
        /\ \A j \in 1 .. Len(q) - n - 1 :
              p[j] = IF j < i - n THEN Periodic(q)[j] ELSE Periodic(q)[j + 1]
    BY <1>3, <1>4, RemoveProperties DEF p
  <2>2. ASSUME NEW j \in 1 .. Len(q) - n - 1
        PROVE  p[j] = r[n + j]
    <3>1. n + j \in 1 .. Len(q) - 1 /\ j \in 1 .. Len(q) - n
          /\ j + 1 \in 1 .. Len(q) - n /\ n + (j + 1) = n + j + 1
      BY <1>1, <1>4
    <3>2. CASE j < i - n
      BY <1>2, <1>3, <1>4, <2>1, <3>1, <3>2
    <3>3. CASE ~(j < i - n)
      <4>1. ~(n + j < i)
        BY <1>4, <3>3
      <4>2. r[n + j] = q[n + j + 1]
        BY <1>2, <3>1, <4>1
      <4>3. p[j] = Periodic(q)[j + 1]
        BY <2>1, <3>3
      <4>4. Periodic(q)[j + 1] = q[n + j + 1]
        BY <1>3, <3>1
      <4> QED BY <4>2, <4>3, <4>4
    <3> QED BY <3>2, <3>3
  <2>3. Len(r) - n = Len(q) - n - 1
    BY <1>1, <1>2, <1>4
  <2>4. \A j \in 1 .. Len(q) - n - 1 : Periodic(r)[j] = p[j]
    BY <1>6, <2>2, <2>3
  <2> QED BY <1>6, <2>1, <2>3, <2>4, SameMessages
<1> QED BY <1>3, <1>4, <1>7, <1>8 DEF n, r, p

\* A pending value is replaced where it waits.
LEMMA ReplaceSplit ==
    ASSUME NEW q \in Seq(Messages), NEW i \in 1 .. Len(q), Sorted(q),
           NEW m \in Messages, ~q[i].high_priority, ~m.high_priority,
           q[i].id = m.id, q[i].replaceable, m.replaceable
    PROVE  /\ Events(Replaced(q, i, m.value)) = Events(q)
           /\ Periodic(Replaced(q, i, m.value)) =
                  ReplaceAt(Periodic(q), i - EventCount(q), m)
<1> DEFINE r == [q EXCEPT ![i] = m]
           n == EventCount(q)
           p == [Periodic(q) EXCEPT ![i - n] = m]
<1>1. Len(q) \in Nat /\ Split(q, n)
  BY SortedSplit, LenProperties
<1> HIDE DEF n
<1>2. Replaced(q, i, m.value) = r
  <2>1. q[i] \in Messages
    BY ElementOfSeq
  <2>2. q[i].high_priority = m.high_priority /\ q[i].replaceable = m.replaceable
    BY <2>1, Zenon DEF Messages
  <2>3. [q[i] EXCEPT !.value = m.value] = m
    BY <2>1, <2>2 DEF Messages
  <2> QED BY <2>3 DEF Replaced
<1>3. /\ r \in Seq(Messages) /\ Len(r) = Len(q)
      /\ \A j \in 1 .. Len(q) : r[j] = IF j = i THEN m ELSE q[j]
  BY ExceptSeq
<1> HIDE DEF r
<1>4. /\ Events(q) \in Seq(Messages) /\ Len(Events(q)) = n
      /\ \A j \in 1 .. n : Events(q)[j] = q[j]
      /\ Periodic(q) \in Seq(Messages) /\ Len(Periodic(q)) = Len(q) - n
      /\ \A j \in 1 .. Len(q) - n : Periodic(q)[j] = q[n + j]
  BY <1>1, SplitParts
<1>5. n \in Nat /\ n < i /\ i - n \in 1 .. Len(q) - n /\ n + (i - n) = i
  BY <1>1 DEF Split
<1>6. Split(r, n)
  BY <1>1, <1>3, <1>5 DEF Split
<1>7. /\ Events(r) \in Seq(Messages) /\ Len(Events(r)) = n
      /\ \A j \in 1 .. n : Events(r)[j] = r[j]
      /\ Periodic(r) \in Seq(Messages) /\ Len(Periodic(r)) = Len(r) - n
      /\ \A j \in 1 .. Len(r) - n : Periodic(r)[j] = r[n + j]
  BY <1>3, <1>6, SplitParts
<1>8. Events(r) = Events(q)
  <2>1. \A j \in 1 .. n : r[j] = q[j]
    BY <1>1, <1>3, <1>5
  <2>2. \A j \in 1 .. n : Events(r)[j] = Events(q)[j]
    BY <1>4, <1>7, <2>1
  <2> QED BY <1>4, <1>7, <2>2, SameMessages
<1>9. Periodic(r) = p
  <2>1. /\ p \in Seq(Messages) /\ Len(p) = Len(q) - n
        /\ \A j \in 1 .. Len(q) - n :
              p[j] = IF j = i - n THEN m ELSE Periodic(q)[j]
    BY <1>4, <1>5, ExceptSeq
  <2> HIDE DEF p
  <2>2. ASSUME NEW j \in 1 .. Len(q) - n
        PROVE  p[j] = r[n + j]
    <3>1. n + j \in 1 .. Len(q) /\ (j = i - n <=> n + j = i)
      BY <1>1, <1>5
    <3> QED BY <1>3, <1>4, <2>1, <3>1
  <2>3. \A j \in 1 .. Len(q) - n : Periodic(r)[j] = p[j]
    BY <1>3, <1>7, <2>2
  <2> QED BY <1>3, <1>7, <2>1, <2>3, SameMessages
<1> QED BY <1>2, <1>8, <1>9 DEF n, p, ReplaceAt

\* The first message of the queue is the first event, or else the first
\* periodic message.
LEMMA TailSplit ==
    ASSUME NEW q \in Seq(Messages), q # <<>>, Sorted(q)
    PROVE  \/ /\ Events(q) # <<>> /\ Head(q) = Head(Events(q))
              /\ Events(Tail(q)) = Tail(Events(q))
              /\ Periodic(Tail(q)) = Periodic(q)
           \/ /\ Events(q) = <<>> /\ Periodic(q) # <<>>
              /\ Head(q) = Head(Periodic(q))
              /\ Events(Tail(q)) = Events(q)
              /\ Periodic(Tail(q)) = Tail(Periodic(q))
<1> DEFINE r == Tail(q)
           n == EventCount(q)
<1>1. Len(q) \in Nat \ {0} /\ Split(q, n)
  BY SortedSplit, EmptySeq
<1> HIDE DEF n
<1>2. /\ r \in Seq(Messages) /\ Len(r) = Len(q) - 1
      /\ \A j \in 1 .. Len(r) : r[j] = q[j + 1]
  BY HeadTailProperties
<1>3. Head(q) = q[1]
  BY <1>1
<1> HIDE DEF r
<1>4. /\ Events(q) \in Seq(Messages) /\ Len(Events(q)) = n
      /\ \A j \in 1 .. n : Events(q)[j] = q[j]
      /\ Periodic(q) \in Seq(Messages) /\ Len(Periodic(q)) = Len(q) - n
      /\ \A j \in 1 .. Len(q) - n : Periodic(q)[j] = q[n + j]
  BY <1>1, SplitParts
<1>5. n \in Nat /\ n <= Len(q)
  BY <1>1 DEF Split
<1>6. CASE n # 0
  <2> DEFINE e == Tail(Events(q))
  <2>1. Split(r, n - 1)
    BY <1>1, <1>2, <1>5, <1>6 DEF Split
  <2>2. /\ Events(r) \in Seq(Messages) /\ Len(Events(r)) = n - 1
        /\ \A j \in 1 .. n - 1 : Events(r)[j] = r[j]
        /\ Periodic(r) \in Seq(Messages)
        /\ Len(Periodic(r)) = Len(r) - (n - 1)
        /\ \A j \in 1 .. Len(r) - (n - 1) : Periodic(r)[j] = r[n - 1 + j]
    BY <1>2, <2>1, SplitParts
  <2>3. Events(q) # <<>>
    BY <1>4, <1>6, EmptySeq
  <2>4. /\ e \in Seq(Messages) /\ Len(e) = n - 1
        /\ \A j \in 1 .. n - 1 : e[j] = Events(q)[j + 1]
    BY <1>4, <2>3, HeadTailProperties
  <2>5. Head(q) = Head(Events(q))
    BY <1>3, <1>4, <1>5, <1>6
  <2> HIDE DEF e
  <2>6. Events(r) = e
    <3>1. ASSUME NEW j \in 1 .. n - 1
          PROVE  Events(r)[j] = e[j]
      <4>1. j \in 1 .. Len(r) /\ j + 1 \in 1 .. n
        BY <1>1, <1>2, <1>5
      <4>2. Events(r)[j] = q[j + 1]
        BY <1>2, <2>2, <4>1
      <4>3. e[j] = q[j + 1]
        BY <1>4, <2>4, <4>1
      <4> QED BY <4>2, <4>3
    <3> QED BY <2>2, <2>4, <3>1, SameMessages
  <2>7. Periodic(r) = Periodic(q)
    <3>1. Len(r) - (n - 1) = Len(q) - n
      BY <1>1, <1>2, <1>5
    <3>2. ASSUME NEW j \in 1 .. Len(q) - n
          PROVE  Periodic(r)[j] = Periodic(q)[j]
      <4>1. n - 1 + j \in 1 .. Len(r) /\ n - 1 + j + 1 = n + j
        BY <1>1, <1>2, <1>5, <1>6
      <4>2. Periodic(r)[j] = r[n - 1 + j]
        BY <2>2, <3>1
      <4>3. r[n - 1 + j] = q[n + j]
        BY <1>2, <4>1
      <4> QED BY <1>4, <4>2, <4>3
    <3> QED BY <1>4, <2>2, <3>1, <3>2, SameMessages
  <2> QED BY <2>3, <2>5, <2>6, <2>7 DEF e, r
<1>7. CASE n = 0
  <2> DEFINE p == Tail(Periodic(q))
  <2>1. Split(r, 0)
    BY <1>1, <1>2, <1>5, <1>7 DEF Split
  <2>2. /\ Events(r) \in Seq(Messages) /\ Len(Events(r)) = 0
        /\ Periodic(r) \in Seq(Messages) /\ Len(Periodic(r)) = Len(r)
        /\ \A j \in 1 .. Len(r) : Periodic(r)[j] = r[j]
    <3>1. Len(r) - 0 = Len(r) /\ \A j \in 1 .. Len(r) : 0 + j = j
      BY <1>1, <1>2
    <3> QED BY <1>2, <2>1, <3>1, SplitParts
  <2>3. Events(q) = <<>> /\ Events(r) = Events(q)
    BY <1>4, <1>7, <2>2, EmptySeq
  <2>4. /\ Len(Periodic(q)) = Len(q)
        /\ \A j \in 1 .. Len(q) : Periodic(q)[j] = q[j]
    <3>1. Len(q) - n = Len(q) /\ \A j \in 1 .. Len(q) : n + j = j
      BY <1>1, <1>7
    <3> QED BY <1>4, <3>1
  <2>5. Periodic(q) # <<>>
    BY <1>1, <2>4
  <2>6. Head(q) = Head(Periodic(q))
    BY <1>1, <1>3, <2>4
  <2>7. /\ p \in Seq(Messages) /\ Len(p) = Len(q) - 1
        /\ \A j \in 1 .. Len(q) - 1 : p[j] = Periodic(q)[j + 1]
    BY <1>4, <2>4, <2>5, HeadTailProperties
  <2> HIDE DEF p
  <2>8. Periodic(r) = p
    <3>1. ASSUME NEW j \in 1 .. Len(q) - 1
          PROVE  Periodic(r)[j] = p[j]
      <4>1. j \in 1 .. Len(r) /\ j + 1 \in 1 .. Len(q)
        BY <1>1, <1>2
      <4> QED BY <1>2, <2>2, <2>4, <2>7, <4>1
    <3> QED BY <1>2, <2>2, <2>7, <3>1, SameMessages
  <2> QED BY <2>3, <2>5, <2>6, <2>8 DEF p, r
<1> QED BY <1>6, <1>7

\* When no message can be evicted, none is replaceable.
LEMMA NothingToEvict ==
    ASSUME NEW q \in Seq(Messages), EvictIndex(q) = 0
    PROVE  \A i \in 1 .. Len(q) : ~q[i].replaceable
<1> DEFINE I == {i \in 1 .. Len(q) : q[i].replaceable}
<1>0. Len(q) \in Nat
  BY LenProperties
<1>1. EvictIndex(q) = IF I # {} THEN Max(I) ELSE 0
  BY DEF EvictIndex, SelectLastInSeq
<1>2. CASE I = {}
  BY <1>2
<1>3. CASE I # {}
  <2>1. \E x \in I : \A y \in I : x >= y
    <3>1. I \in SUBSET (1 .. Len(q))
      OBVIOUS
    <3> QED BY <1>0, <1>3, <3>1, GreatestExists
  <2>2. Max(I) \in I
    BY <2>1 DEF Max
  <2> QED BY <1>0, <1>1, <1>3, <2>2
<1> QED BY <1>2, <1>3

\* Only periodic messages are ever replaced or evicted.
OnlyPeriodic(q) ==
    \A i \in 1 .. Len(q) : q[i].replaceable => ~q[i].high_priority

\* An eviction keeps that.
LEMMA RemoveOnly ==
    ASSUME NEW q \in Seq(Messages), NEW i \in 1 .. Len(q), OnlyPeriodic(q)
    PROVE  OnlyPeriodic(RemoveAt(q, i))
<1> DEFINE r == RemoveAt(q, i)
<1>1. /\ Len(q) \in Nat /\ Len(r) = Len(q) - 1
      /\ \A j \in 1 .. Len(q) - 1 : r[j] = IF j < i THEN q[j] ELSE q[j + 1]
  BY RemoveProperties, LenProperties
<1> HIDE DEF r
<1>2. ASSUME NEW j \in 1 .. Len(r)
      PROVE  \E k \in 1 .. Len(q) : r[j] = q[k]
  BY <1>1
<1> QED BY <1>2, Zenon DEF OnlyPeriodic, r

\* So does an insertion, since an event is never replaceable.
LEMMA InsertOnly ==
    ASSUME NEW q \in Seq(Messages), NEW m \in Messages, Sorted(q),
           OnlyPeriodic(q), m.high_priority => ~m.replaceable
    PROVE  OnlyPeriodic(InsertAt(q, InsertIndex(q, m), m))
<1> DEFINE k == InsertIndex(q, m)
           r == InsertAt(q, k, m)
<1>1. k \in 1 .. Len(q) + 1
  BY InsertIndexProperties
<1> HIDE DEF k
<1>2. /\ Len(q) \in Nat /\ Len(r) = Len(q) + 1
      /\ \A j \in 1 .. Len(q) + 1 :
            r[j] = IF j < k THEN q[j] ELSE IF j = k THEN m ELSE q[j - 1]
  BY <1>1, InsertProperties, LenProperties
<1> HIDE DEF r
<1>3. ASSUME NEW j \in 1 .. Len(r)
      PROVE  r[j] = m \/ \E i \in 1 .. Len(q) : r[j] = q[i]
  BY <1>1, <1>2
<1> QED BY <1>3, Zenon DEF OnlyPeriodic, k, r

\* And so does a replacement.
LEMMA ReplaceOnly ==
    ASSUME NEW q \in Seq(Messages), NEW i \in 1 .. Len(q), NEW v \in Values,
           OnlyPeriodic(q)
    PROVE  OnlyPeriodic(Replaced(q, i, v))
<1> DEFINE m == [q[i] EXCEPT !.value = v]
           r == [q EXCEPT ![i] = m]
<1>1. q[i] \in Messages
  BY ElementOfSeq
<1>2. /\ m \in Messages /\ m.replaceable = q[i].replaceable
      /\ m.high_priority = q[i].high_priority
  BY <1>1 DEF Messages
<1>3. Replaced(q, i, v) = r
  BY DEF Replaced
<1> HIDE DEF m
<1>4. /\ Len(r) = Len(q)
      /\ \A j \in 1 .. Len(q) : r[j] = IF j = i THEN m ELSE q[j]
  BY <1>2, ExceptSeq
<1> QED BY <1>2, <1>3, <1>4 DEF OnlyPeriodic

\* What the abstract specification says of the room, said of the array.
LEMMA AbstractRoom ==
    ASSUME QueueOK
    PROVE  /\ Service!Room <=> Len(tx_queue) < Capacity
           /\ Service!Idle <=> tx_queue = <<>>
<1> DEFINE n == EventCount(tx_queue)
<1>1. tx_queue \in Seq(Messages) /\ Len(tx_queue) \in Nat /\ Split(tx_queue, n)
  BY SortedSplit, LenProperties DEF QueueOK
<1> HIDE DEF n
<1>2. /\ Events(tx_queue) \in Seq(Messages) /\ Len(Events(tx_queue)) = n
      /\ Periodic(tx_queue) \in Seq(Messages)
      /\ Len(Periodic(tx_queue)) = Len(tx_queue) - n
  BY <1>1, SplitParts
<1>3. n \in Nat /\ n <= Len(tx_queue)
  BY <1>1 DEF Split
<1>4. Service!Room <=> Len(tx_queue) < Capacity
  BY <1>1, <1>2, <1>3 DEF Service!Room
<1>5. Service!Idle <=> tx_queue = <<>>
  <2>1. Events(tx_queue) = <<>> <=> n = 0
    BY <1>2, EmptySeq
  <2>2. Periodic(tx_queue) = <<>> <=> Len(tx_queue) - n = 0
    BY <1>2, EmptySeq
  <2>3. tx_queue = <<>> <=> Len(tx_queue) = 0
    BY <1>1, EmptySeq
  <2> QED BY <1>1, <1>3, <2>1, <2>2, <2>3 DEF Service!Idle
<1> QED BY <1>4, <1>5

\* The periodic messages are those of the array behind the events.
LEMMA PeriodicFrom ==
    ASSUME NEW q \in Seq(Messages), Sorted(q), NEW i \in DOMAIN Periodic(q)
    PROVE  \E j \in 1 .. Len(q) : Periodic(q)[i] = q[j]
<1> DEFINE n == EventCount(q)
<1>1. Len(q) \in Nat /\ Split(q, n)
  BY SortedSplit, LenProperties
<1> HIDE DEF n
<1>2. /\ Periodic(q) \in Seq(Messages) /\ Len(Periodic(q)) = Len(q) - n
      /\ \A j \in 1 .. Len(q) - n : Periodic(q)[j] = q[n + j]
  BY <1>1, SplitParts
<1>3. i \in 1 .. Len(q) - n
  BY <1>2, LenProperties
<1>4. n + i \in 1 .. Len(q) /\ Periodic(q)[i] = q[n + i]
  BY <1>1, <1>2, <1>3 DEF Split
<1> QED BY <1>4

\* The two queues after a step are those of the array after it.
LEMMA PartsNext ==
    /\ Events(tx_queue)' = Events(tx_queue')
    /\ Periodic(tx_queue)' = Periodic(tx_queue')
BY DEF Events, Periodic, EventCount, SelectLastInSeq

\* The abstract specification edits sequences as the code does.
LEMMA SameEdits ==
    ASSUME NEW s, NEW i, NEW m
    PROVE  /\ Service!RemoveAt(s, i) = RemoveAt(s, i)
           /\ Service!ReplaceAt(s, i, m) = ReplaceAt(s, i, m)
BY DEF Service!RemoveAt, RemoveAt, Service!ReplaceAt, ReplaceAt

\* A request that is queued.
LEMMA EnqueueService ==
    ASSUME QueueOK, OnlyPeriodic(tx_queue), NEW m \in Messages, Enqueue(m),
           UNCHANGED handed, m.high_priority => ~m.replaceable,
           m.replaceable => FindPending(tx_queue, m) = 0
    PROVE  /\ Service!AcceptEvent(m) \/ Service!AcceptPeriodic(m)
                                     \/ Service!Refuse(m)
           /\ OnlyPeriodic(tx_queue')
<1> DEFINE q == tx_queue
<1>1. q \in Seq(Messages) /\ Sorted(q)
  BY DEF QueueOK
<1>2. Service!Copies(m) = {}
  <2>1. ASSUME NEW i \in DOMAIN Periodic(q), m.replaceable,
               Periodic(q)[i].replaceable, Periodic(q)[i].id = m.id
        PROVE  FALSE
    <3>1. PICK j \in 1 .. Len(q) : Periodic(q)[i] = q[j]
      BY <1>1, PeriodicFrom
    <3> QED BY <1>1, <2>1, <3>1, PendingProperties
  <2> QED BY <2>1 DEF Service!Copies
<1>3. CASE Len(q) < Capacity /\ Insert(q, m)
  <2>1. Service!Room
    BY <1>3, AbstractRoom
  <2>2. tx_queue' = InsertAt(q, InsertIndex(q, m), m) /\ result' = "QUEUED"
    BY <1>3 DEF Insert
  <2>3. OnlyPeriodic(tx_queue')
    BY <1>1, <2>2, InsertOnly
  <2>4. IF m.high_priority
        THEN Events(tx_queue)' = Append(Events(q), m)
             /\ Periodic(tx_queue)' = Periodic(q)
        ELSE Events(tx_queue)' = Events(q)
             /\ Periodic(tx_queue)' = Append(Periodic(q), m)
    BY <1>1, <2>2, InsertSplit, PartsNext
  <2>5. CASE m.high_priority
    BY <2>1, <2>2, <2>3, <2>4, <2>5 DEF Service!AcceptEvent
  <2>6. CASE ~m.high_priority
    BY <1>2, <2>1, <2>2, <2>3, <2>4, <2>6 DEF Service!AcceptPeriodic
  <2> QED BY <2>5, <2>6
<1>4. CASE /\ Len(q) = Capacity /\ m.high_priority /\ EvictIndex(q) # 0
           /\ Insert(RemoveAt(q, EvictIndex(q)), m)
  <2> DEFINE e == EvictIndex(q)
             r == RemoveAt(q, e)
             n == EventCount(q)
  <2>1. e \in 1 .. Len(q) /\ q[e].replaceable
    BY <1>1, <1>4, EvictProperties
  <2>2. ~q[e].high_priority
    BY <2>1 DEF OnlyPeriodic
  <2> HIDE DEF e
  <2>3. /\ e - n \in 1 .. Len(Periodic(q))
        /\ Periodic(q)[e - n] = q[e]
        /\ Events(r) = Events(q)
        /\ Periodic(r) = RemoveAt(Periodic(q), e - n)
    BY <1>1, <2>1, <2>2, RemoveSplit
  <2>4. r \in Seq(Messages) /\ Sorted(r) /\ OnlyPeriodic(r)
    BY <1>1, <2>1, RemoveProperties, RemoveKeeps, RemoveOnly DEF QueueOK
  <2>5. tx_queue' = InsertAt(r, InsertIndex(r, m), m) /\ result' = "QUEUED"
    BY <1>4 DEF Insert, e
  <2> HIDE DEF r
  <2>6. OnlyPeriodic(tx_queue')
    BY <2>4, <2>5, InsertOnly
  <2>7. /\ Events(tx_queue)' = Append(Events(q), m)
        /\ Periodic(tx_queue)' = RemoveAt(Periodic(q), e - n)
    BY <1>4, <2>3, <2>4, <2>5, InsertSplit, PartsNext
  <2>8. ~Service!Room
    BY <1>4, AbstractRoom, Positive
  <2>9. e - n \in DOMAIN Periodic(q) /\ Periodic(q)[e - n].replaceable
    <3>1. DOMAIN Periodic(q) = 1 .. Len(Periodic(q))
      BY <1>1, SortedSplit, SplitParts, LenProperties
    <3> QED BY <2>1, <2>3, <3>1
  <2> HIDE DEF n
  <2>10. \E i \in DOMAIN Periodic(q) :
            /\ Periodic(q)[i].replaceable
            /\ Periodic(tx_queue)' = Service!RemoveAt(Periodic(q), i)
    BY <2>7, <2>9, SameEdits, Zenon
  <2>11. Service!AcceptEvent(m)
    BY <1>4, <2>5, <2>7, <2>8, <2>10, Zenon DEF Service!AcceptEvent
  <2> QED BY <2>6, <2>11
<1>5. CASE /\ Len(q) = Capacity
           /\ ~(m.high_priority /\ EvictIndex(q) # 0)
           /\ Answer("QUEUE_FULL") /\ UNCHANGED tx_queue
  <2>1. ~Service!Room
    BY <1>5, AbstractRoom, Positive
  <2>2. m.high_priority =>
            \A i \in DOMAIN Periodic(q) : ~Periodic(q)[i].replaceable
    BY <1>1, <1>5, NothingToEvict, PeriodicFrom
  <2>3. /\ Events(tx_queue)' = Events(q) /\ Periodic(tx_queue)' = Periodic(q)
        /\ result' = "QUEUE_FULL"
    BY <1>5, PartsNext DEF Answer
  <2> QED BY <1>2, <1>5, <2>1, <2>2, <2>3 DEF Service!Refuse
<1> QED BY <1>3, <1>4, <1>5 DEF Enqueue

\* A request, with a controller.
LEMMA RequestService ==
    ASSUME QueueOK, OnlyPeriodic(tx_queue), NEW m \in Messages, Request(m),
           m.high_priority => ~m.replaceable
    PROVE  /\ \/ Service!PassOn(m) \/ Service!AcceptEvent(m)
              \/ Service!AcceptPeriodic(m) \/ Service!Refuse(m)
           /\ OnlyPeriodic(tx_queue')
<1> DEFINE q == tx_queue
           i == FindPending(q, m)
           n == EventCount(q)
<1>1. q \in Seq(Messages) /\ Sorted(q)
  BY DEF QueueOK
<1>2. CASE /\ q = <<>> /\ HandOver(m) /\ Answer("OK") /\ UNCHANGED tx_queue
  <2>1. /\ Events(tx_queue)' = Events(q) /\ Periodic(tx_queue)' = Periodic(q)
        /\ result' = "OK" /\ handed' = m
    BY <1>2, PartsNext DEF Answer, HandOver
  <2> QED BY <1>2, <2>1, AbstractRoom DEF Service!PassOn
<1>3. CASE /\ m.replaceable /\ i # 0
           /\ tx_queue' = [tx_queue EXCEPT ![i].value = m.value]
           /\ Answer("QUEUED") /\ UNCHANGED <<controller, handed>>
  <2>1. /\ i \in 1 .. Len(q) /\ q[i].id = m.id /\ q[i].replaceable
        /\ ~q[i].high_priority /\ ~m.high_priority
    BY <1>1, <1>3, PendingProperties DEF OnlyPeriodic
  <2>2. tx_queue' = Replaced(q, i, m.value) /\ result' = "QUEUED"
        /\ handed' = handed
    BY <1>3 DEF Replaced, Answer
  <2> HIDE DEF i
  <2>3. OnlyPeriodic(tx_queue')
    BY <1>1, <2>1, <2>2, ReplaceOnly DEF Messages
  <2>4. /\ Events(tx_queue)' = Events(q)
        /\ Periodic(tx_queue)' = ReplaceAt(Periodic(q), i - n, m)
    <3>1. /\ Events(Replaced(q, i, m.value)) = Events(q)
          /\ Periodic(Replaced(q, i, m.value)) =
                 ReplaceAt(Periodic(q), i - n, m)
      <4>1. q \in Seq(Messages) /\ Sorted(q) /\ m.replaceable
        BY <1>1, <1>3
      <4> HIDE DEF q
      <4> QED BY <2>1, <4>1, ReplaceSplit
    <3> QED BY <2>2, <3>1, PartsNext
  <2>5. i - n \in 1 .. Len(Periodic(q)) /\ Periodic(q)[i - n] = q[i]
    BY <1>1, <2>1, RemoveSplit
  <2>6. DOMAIN Periodic(q) = 1 .. Len(Periodic(q))
    BY <1>1, SortedSplit, SplitParts, LenProperties
  <2> HIDE DEF n
  <2>7. i - n \in Service!Copies(m)
    BY <1>3, <2>1, <2>5, <2>6 DEF Service!Copies
  <2>8. \E j \in Service!Copies(m) :
            Periodic(tx_queue)' = Service!ReplaceAt(Periodic(q), j, m)
    BY <2>4, <2>7, SameEdits, Zenon
  <2>9. Service!AcceptPeriodic(m)
    BY <2>1, <2>2, <2>4, <2>8, Zenon DEF Service!AcceptPeriodic
  <2> QED BY <2>3, <2>9
<1>4. CASE /\ ~(m.replaceable /\ i # 0)
           /\ Enqueue(m) /\ UNCHANGED <<controller, handed>>
  BY <1>4, EnqueueService
<1> QED BY <1>2, <1>3, <1>4 DEF Request

\* A publishing function, with or without a controller.
LEMMA SendService ==
    ASSUME IInv, OnlyPeriodic(tx_queue), NEW f \in Frames, NEW r \in BOOLEAN,
           NEW h \in BOOLEAN, h => ~r, Send(f, r, h)
    PROVE  Service!Next /\ OnlyPeriodic(tx_queue')
<1> DEFINE m == [id |-> f.id, value |-> f.value,
                 high_priority |-> h, replaceable |-> r]
<1>1. m \in Messages /\ (m.high_priority => ~m.replaceable)
  BY DEF Frames, Messages
<1>2. QueueOK /\ NothingWithoutController
  BY InvParts
<1>3. can_handle => Request(m)
  BY Zenon DEF Send
<1>4. ~can_handle => /\ result' = "NOT_INITIALIZED"
                     /\ UNCHANGED <<tx_queue, handed>>
  BY DEF Send
<1> HIDE DEF m
<1>5. CASE can_handle
  BY <1>1, <1>2, <1>3, <1>5, RequestService DEF Service!Next
<1>6. CASE ~can_handle
  <2>1. tx_queue = <<>>
    BY <1>2, <1>6 DEF NothingWithoutController
  <2>2. /\ Events(tx_queue)' = Events(tx_queue)
        /\ Periodic(tx_queue)' = Periodic(tx_queue)
    BY <1>4, <1>6, PartsNext
  <2>3. Service!Unavailable
    BY <1>2, <1>4, <1>6, <2>1, <2>2, AbstractRoom DEF Service!Unavailable
  <2> QED BY <1>4, <1>6, <2>3 DEF Service!Next
<1> QED BY <1>5, <1>6

\* A step of the drain loop.
LEMMA DrainService ==
    ASSUME QueueOK, OnlyPeriodic(tx_queue), DrainOne
    PROVE  Service!HandOver /\ OnlyPeriodic(tx_queue')
<1> DEFINE q == tx_queue
<1>1. q \in Seq(Messages) /\ Sorted(q) /\ q # <<>>
  BY DEF QueueOK, DrainOne
<1>2. tx_queue' = Tail(q) /\ handed' = Head(q) /\ result' = result
  BY DEF DrainOne, HandOver
<1>3. /\ Events(tx_queue)' = Events(Tail(q))
      /\ Periodic(tx_queue)' = Periodic(Tail(q))
  BY <1>2, PartsNext
<1>4. Service!HandOver
  <2>1. CASE /\ Events(q) # <<>> /\ Head(q) = Head(Events(q))
             /\ Events(Tail(q)) = Tail(Events(q))
             /\ Periodic(Tail(q)) = Periodic(q)
    BY <1>2, <1>3, <2>1 DEF Service!HandOver
  <2>2. CASE /\ Events(q) = <<>> /\ Periodic(q) # <<>>
             /\ Head(q) = Head(Periodic(q))
             /\ Events(Tail(q)) = Events(q)
             /\ Periodic(Tail(q)) = Tail(Periodic(q))
    BY <1>2, <1>3, <2>2 DEF Service!HandOver
  <2> QED BY <1>1, <2>1, <2>2, TailSplit
<1>5. OnlyPeriodic(Tail(q))
  <2>1. /\ Len(q) \in Nat /\ Len(Tail(q)) = Len(q) - 1
        /\ \A i \in 1 .. Len(Tail(q)) : Tail(q)[i] = q[i + 1]
    BY <1>1, HeadTailProperties, LenProperties
  <2>2. \A i \in 1 .. Len(Tail(q)) : i + 1 \in 1 .. Len(q)
    BY <2>1
  <2> QED BY <2>1, <2>2 DEF OnlyPeriodic
<1> QED BY <1>2, <1>4, <1>5

\* The array, with its insertions, evictions and replacements in place, keeps
\* the two promises of can_transport.h: every step of the queue is a step of
\* the two abstract queues or leaves them alone.
THEOREM QueueImplementsService == Spec => ImplementsService
<1>1. Init => Service!Init /\ OnlyPeriodic(tx_queue)
  <2> SUFFICES ASSUME Init
               PROVE  Service!Init /\ OnlyPeriodic(tx_queue)
    OBVIOUS
  <2>1. tx_queue = <<>> /\ handed = Nothing /\ result = "OK"
    BY DEF Init
  <2>2. Service!Idle
    BY <2>1, InitInv, InvParts, AbstractRoom
  <2> QED BY <2>1, <2>2 DEF Service!Init, Service!Idle, OnlyPeriodic
<1>2. ASSUME IInv, OnlyPeriodic(tx_queue), [Next]_vars
      PROVE  [Service!Next]_(Service!vars) /\ OnlyPeriodic(tx_queue)'
  <2>1. CASE UNCHANGED <<tx_queue, handed, result>>
    <3>1. UNCHANGED Service!vars
      BY <2>1, PartsNext DEF Service!vars
    <3> QED BY <1>2, <2>1, <3>1 DEF OnlyPeriodic
  <2>2. CASE Publish
    BY <1>2, <2>2, SendService, FramesAssumption
       DEF Publish, SendClassic, SendClassicLatest, SendClassicHighPriority,
           OnlyPeriodic
  <2>3. CASE DrainOne
    BY <1>2, <2>3, DrainService, InvParts DEF Service!Next, OnlyPeriodic
  <2>4. CASE \/ ProcessBegins \/ ProcessEnds \/ GetStats \/ Transmit
             \/ ControllerStops \/ ControllerStarts \/ Tick
             \/ UNCHANGED vars
    <3>1. UNCHANGED <<tx_queue, handed, result>>
      BY <2>4 DEF ProcessBegins, ProcessEnds, GetStats, Transmit,
                  ControllerStops, ControllerStarts, Tick, firmware, vars
    <3> QED BY <2>1, <3>1
  <2> QED BY <1>2, <2>2, <2>3, <2>4 DEF Next, Process
<1> QED BY <1>1, <1>2, Invariance, PTL
       DEF Spec, ImplementsService, Service!Spec
=============================================================================
