----------------------- MODULE GatewayEventQueueProofs -----------------------
(***************************************************************************)
(* Proofs about GatewayEventQueue, for any codes, kinds, queue size, drain *)
(* limit and number of events.                                             *)
(***************************************************************************)
EXTENDS GatewayEventQueue, FiniteSetTheorems, SequenceTheorems, TLAPS

-----------------------------------------------------------------------------
\* The inductive invariant.

\* Events whose order the Core relies on.
Related(d, e) ==
    /\ d.kind = e.kind
    /\ d.kind \in {"control", "execution"} \/ SameKey(d, e)

\* Within a sequence, and between two of which the first arrives before.
Ordered(s) == \A i, j \in DOMAIN s : i < j /\ Related(s[i], s[j]) => s[i].at < s[j].at
OrderedPair(s, t) == \A i \in DOMAIN s, j \in DOMAIN t : Related(s[i], t[j]) => s[i].at < t[j].at
InTime ==
    /\ Ordered(queue) /\ Ordered(batch) /\ Ordered(posted)
    /\ OrderedPair(batch, queue) /\ OrderedPair(posted, batch) /\ OrderedPair(posted, queue)

\* The queue has one event per key.
Distinct(s) == \A i, j \in DOMAIN s : SameKey(s[i], s[j]) => i = j

\* Events carry the time of their emission.
Past(s) == \A i \in DOMAIN s : s[i].at <= Len(emitted)
Dated ==
    /\ \A i \in DOMAIN emitted : emitted[i].at = i
    /\ Past(queue) /\ Past(batch) /\ Past(posted)

\* The newest event of a key, and every event without one, is somewhere.
Known == ToSet(queue) \cup ToSet(batch) \cup ToSet(posted) \cup dropped \cup lost
Newest(i) == \A j \in DOMAIN emitted : j > i => ~SameKey(emitted[i], emitted[j])
NewestKnown == \A i \in DOMAIN emitted : Newest(i) => emitted[i] \in Known

QueueInv == TypeOK /\ Dated /\ Distinct(queue) /\ InTime /\ NewestKnown

-----------------------------------------------------------------------------
(* Sequences.                                                               *)

\* Taking an element out moves those behind it up.
LEMMA RemoveAtFacts ==
  ASSUME NEW S, NEW s \in Seq(S), NEW i \in 1..Len(s)
  PROVE  /\ RemoveAt(s, i) \in Seq(S)
         /\ Len(RemoveAt(s, i)) = Len(s) - 1
         /\ \A k \in 1..(Len(s) - 1) : RemoveAt(s, i)[k] = s[IF k < i THEN k ELSE k + 1]
<1>1. Len(s) \in Nat /\ \A j \in 1..Len(s) : s[j] \in S
  BY LenProperties, ElementOfSeq
<1>2. /\ SubSeq(s, 1, i - 1) \in Seq(S)
      /\ Len(SubSeq(s, 1, i - 1)) = i - 1
      /\ \A k \in 1..(i - 1) : SubSeq(s, 1, i - 1)[k] = s[k]
  <2>1. \A j \in 1..(i - 1) : s[j] \in S
    BY <1>1
  <2>2. /\ SubSeq(s, 1, i - 1) \in Seq(S)
        /\ Len(SubSeq(s, 1, i - 1)) = IF 1 <= i - 1 THEN (i - 1) - 1 + 1 ELSE 0
        /\ \A k \in 1..((i - 1) - 1 + 1) : SubSeq(s, 1, i - 1)[k] = s[1 + k - 1]
    BY <1>1, <2>1, SubSeqProperties
  <2> QED BY <1>1, <2>2
<1>3. /\ SubSeq(s, i + 1, Len(s)) \in Seq(S)
      /\ Len(SubSeq(s, i + 1, Len(s))) = Len(s) - i
      /\ \A k \in 1..(Len(s) - i) : SubSeq(s, i + 1, Len(s))[k] = s[i + k]
  <2>1. \A j \in (i + 1)..Len(s) : s[j] \in S
    BY <1>1
  <2>2. /\ SubSeq(s, i + 1, Len(s)) \in Seq(S)
        /\ Len(SubSeq(s, i + 1, Len(s))) =
              IF i + 1 <= Len(s) THEN Len(s) - (i + 1) + 1 ELSE 0
        /\ \A k \in 1..(Len(s) - (i + 1) + 1) :
              SubSeq(s, i + 1, Len(s))[k] = s[(i + 1) + k - 1]
    BY <1>1, <2>1, SubSeqProperties
  <2>3. \A k \in 1..(Len(s) - i) : (i + 1) + k - 1 = i + k
    BY <1>1
  <2> QED BY <1>1, <2>2, <2>3
<1> DEFINE a == SubSeq(s, 1, i - 1)
           b == SubSeq(s, i + 1, Len(s))
<1>4. /\ a \o b \in Seq(S)
      /\ Len(a \o b) = Len(a) + Len(b)
      /\ \A k \in 1..(Len(a) + Len(b)) :
            (a \o b)[k] = IF k <= Len(a) THEN a[k] ELSE b[k - Len(a)]
  BY <1>2, <1>3, ConcatProperties
<1>5. RemoveAt(s, i) = a \o b
  BY DEF RemoveAt
<1> HIDE DEF a, b
<1>6. Len(a) = i - 1 /\ Len(b) = Len(s) - i
  BY <1>2, <1>3 DEF a, b
<1>7. ASSUME NEW k \in 1..(Len(s) - 1)
      PROVE  (a \o b)[k] = s[IF k < i THEN k ELSE k + 1]
  <2>1. CASE k < i
    BY <1>1, <1>2, <1>4, <1>6, <2>1 DEF a
  <2>2. CASE ~(k < i)
    <3>1. (a \o b)[k] = b[k - (i - 1)]
      <4>1. k \in 1..(Len(a) + Len(b)) /\ ~(k <= Len(a))
        BY <1>1, <1>6, <2>2
      <4>2. (a \o b)[k] = b[k - Len(a)]
        BY <1>4, <4>1
      <4> QED BY <1>6, <4>2
    <3>2. k - (i - 1) \in 1..(Len(s) - i) /\ i + (k - (i - 1)) = k + 1
      BY <1>1, <2>2
    <3>3. b[k - (i - 1)] = s[i + (k - (i - 1))]
      BY <1>3, <3>2 DEF b
    <3> QED BY <2>2, <3>1, <3>2, <3>3
  <2> QED BY <2>1, <2>2
<1>8. Len(a \o b) = Len(s) - 1
  <2>1. Len(a \o b) = (i - 1) + (Len(s) - i)
    BY <1>4, <1>6
  <2> QED BY <1>1, <2>1
<1>9. a \o b \in Seq(S)
  BY <1>4
<1> QED BY <1>5, <1>7, <1>8, <1>9

\* A nonempty set of numbers has a smallest one.
LEMMA SmallestExists ==
  ASSUME NEW T \in SUBSET Nat, T # {}
  PROVE  \E x \in T : \A y \in T : x <= y
<1> DEFINE R == OpToRel(<, Nat)
<1>1. IsWellFoundedOn(R, Nat)
  BY NatLessThanWellFounded
<1>2. \A x, y \in Nat : y < x => <<y, x>> \in R
  BY DEF OpToRel
<1> HIDE DEF R
<1>3. PICK x \in T : \A y \in T : ~(<<y, x>> \in R)
  BY <1>1, WFMin
<1>4. \A y \in T : ~(y < x)
  BY <1>2, <1>3
<1>5. \A y \in T : x <= y
  BY <1>4
<1> QED BY <1>5

LEMMA DomainSize ==
  ASSUME NEW S, NEW s \in Seq(S)
  PROVE  IsFiniteSet(DOMAIN s) /\ Cardinality(DOMAIN s) = Len(s)
<1>1. Len(s) \in Nat /\ DOMAIN s = 1..Len(s)
  BY LenProperties
<1>2. IsFiniteSet(1..Len(s)) /\ Cardinality(1..Len(s)) = IF 1 > Len(s) THEN 0 ELSE Len(s) - 1 + 1
  BY <1>1, FS_Interval
<1>3. (IF 1 > Len(s) THEN 0 ELSE Len(s) - 1 + 1) = Len(s)
  BY <1>1
<1> QED BY <1>1, <1>2, <1>3

\* The places of a sequence in some order.
Lists(p, T) ==
    /\ Cardinality(T) \in Nat
    /\ DOMAIN p = 1..Cardinality(T)
    /\ \A k \in DOMAIN p : p[k] \in T
    /\ \A i \in T : \E k \in DOMAIN p : p[k] = i
    /\ \A k, l \in DOMAIN p : p[k] = p[l] => k = l

LEMMA PlacesFacts ==
  ASSUME NEW S, NEW s \in Seq(S), NEW T \in SUBSET DOMAIN s,
         NEW p \in Bijection(1..Cardinality(T), T)
  PROVE  Lists(p, T) /\ Cardinality(T) <= Len(s)
<1>2. IsFiniteSet(DOMAIN s) /\ Cardinality(DOMAIN s) = Len(s)
  BY DomainSize
<1>3. IsFiniteSet(T) /\ Cardinality(T) <= Len(s)
  BY <1>2, FS_Subset
<1>4. Cardinality(T) \in Nat
  BY <1>3, FS_CardinalityType
<1>5. p \in [1..Cardinality(T) -> T]
  BY DEF Bijection, Injection
<1>6. \A k, l \in DOMAIN p : p[k] = p[l] => k = l
  BY DEF Bijection, Injection, IsInjective
<1>7. \A i \in T : \E k \in 1..Cardinality(T) : p[k] = i
  BY DEF Bijection, Surjection
<1> QED BY <1>3, <1>4, <1>5, <1>6, <1>7 DEF Lists

-----------------------------------------------------------------------------
(* put.                                                                     *)

LEMMA SameKeyFacts ==
  ASSUME NEW a, NEW b, NEW c
  PROVE  /\ SameKey(a, b) => SameKey(b, a)
         /\ SameKey(a, b) /\ SameKey(b, c) => SameKey(a, c)
         /\ SameKey(a, b) /\ SameKey(c, b) => SameKey(a, c)
BY DEF SameKey

LEMMA RelatedFacts ==
  ASSUME NEW a, NEW b, NEW c, Related(a, b)
  PROVE  /\ SameKey(b, c) => SameKey(a, c)
         /\ SameKey(a, c) => SameKey(b, c)
         /\ HighPriority(a) <=> HighPriority(b)
BY DEF Related, SameKey, HighPriority

\* Coalescing appends an event or puts it in the place of the one with its key.
LEMMA CoalescedCases ==
  ASSUME NEW q \in Seq(Event), NEW e \in Event, Distinct(q)
  PROVE  \/ Coalesced(q, e) = Append(q, e) /\ \A i \in DOMAIN q : ~SameKey(q[i], e)
         \/ \E i \in DOMAIN q : SameKey(q[i], e) /\ Coalesced(q, e) = [q EXCEPT ![i] = e]
<1> DEFINE I == {i \in 1..Len(q) : SameKey(q[i], e)}
           last == IF I # {} THEN Max(I) ELSE 0
<1>1. Coalesced(q, e) = IF last = 0 THEN Append(q, e) ELSE [q EXCEPT ![last] = e]
  BY DEF Coalesced, SelectLastInSeq, ReplaceAt
<1>2. DOMAIN q = 1..Len(q) /\ Len(q) \in Nat
  BY LenProperties
<1>3. CASE I = {}
  <2>1. last = 0
    BY <1>3
  <2>2. \A i \in DOMAIN q : ~SameKey(q[i], e)
    BY <1>2, <1>3
  <2> QED BY <1>1, <2>1, <2>2
<1>4. CASE I # {}
  <2> PICK i \in I : TRUE
    BY <1>4
  <2>1. \A j \in I : j = i
    BY <1>2, SameKeyFacts DEF Distinct
  <2>2. Max(I) = i
    BY <1>2, <2>1 DEF Max
  <2>3. last = i /\ i # 0 /\ i \in DOMAIN q /\ SameKey(q[i], e)
    BY <1>2, <1>4, <2>2
  <2> QED BY <1>1, <2>3
<1> QED BY <1>3, <1>4

\* It keeps the order and the keys apart, and forgets only what it replaces.
LEMMA CoalescedFacts ==
  ASSUME NEW q \in Seq(Event), NEW e \in Event, Distinct(q), Ordered(q),
         \A i \in DOMAIN q : q[i].at < e.at
  PROVE  LET c == Coalesced(q, e) IN
         /\ c \in Seq(Event) /\ c # <<>> /\ Len(c) <= Len(q) + 1
         /\ Distinct(c) /\ Ordered(c)
         /\ \A k \in DOMAIN c : c[k] = e \/ \E i \in DOMAIN q : c[k] = q[i]
         /\ \A i \in DOMAIN q : q[i] \in ToSet(c) \/ SameKey(q[i], e)
         /\ e \in ToSet(c)
         /\ Len(c) > Len(q) => c = Append(q, e)
<1> DEFINE c == Coalesced(q, e)
<1>1. DOMAIN q = 1..Len(q) /\ Len(q) \in Nat
  BY LenProperties
<1>2. CASE c = Append(q, e) /\ \A i \in DOMAIN q : ~SameKey(q[i], e)
  <2> HIDE DEF c
  <2>1. /\ c \in Seq(Event) /\ Len(c) = Len(q) + 1 /\ DOMAIN c = 1..(Len(q) + 1)
        /\ \A i \in DOMAIN q : c[i] = q[i]
        /\ c[Len(q) + 1] = e
    BY <1>1, <1>2
  <2>2. \A k \in DOMAIN c : k \in DOMAIN q \/ k = Len(q) + 1
    BY <1>1, <2>1
  <2>3. Distinct(c)
    <3> SUFFICES ASSUME NEW i \in DOMAIN c, NEW j \in DOMAIN c, SameKey(c[i], c[j])
                 PROVE  i = j
      BY DEF Distinct
    <3>1. CASE i \in DOMAIN q /\ j \in DOMAIN q
      BY <2>1, <3>1 DEF Distinct
    <3>2. CASE i \in DOMAIN q /\ j = Len(q) + 1
      BY <1>2, <2>1, <3>2
    <3>3. CASE i = Len(q) + 1 /\ j \in DOMAIN q
      BY <1>2, <2>1, <3>3, SameKeyFacts
    <3> QED BY <2>2, <3>1, <3>2, <3>3
  <2>4. Ordered(c)
    <3> SUFFICES ASSUME NEW i \in DOMAIN c, NEW j \in DOMAIN c, i < j, Related(c[i], c[j])
                 PROVE  c[i].at < c[j].at
      BY DEF Ordered
    <3>1. i \in DOMAIN q
      BY <1>1, <2>1
    <3>2. CASE j \in DOMAIN q
      BY <2>1, <3>1, <3>2 DEF Ordered
    <3>3. CASE j = Len(q) + 1
      BY <2>1, <3>1, <3>3
    <3> QED BY <2>2, <3>2, <3>3
  <2>5. \A k \in DOMAIN c : c[k] = e \/ \E i \in DOMAIN q : c[k] = q[i]
    BY <2>1, <2>2
  <2>6. \A i \in DOMAIN q : q[i] \in ToSet(c)
    BY <1>1, <2>1 DEF ToSet
  <2>7. e \in ToSet(c)
    BY <1>1, <2>1 DEF ToSet
  <2>8. c # <<>> /\ Len(c) <= Len(q) + 1
    BY <1>1, <2>1
  <2> QED BY <1>2, <2>1, <2>3, <2>4, <2>5, <2>6, <2>7, <2>8 DEF c
<1>3. ASSUME NEW r \in DOMAIN q, SameKey(q[r], e), c = [q EXCEPT ![r] = e]
      PROVE  /\ c \in Seq(Event) /\ c # <<>> /\ Len(c) = Len(q)
             /\ Distinct(c) /\ Ordered(c)
             /\ \A k \in DOMAIN c : c[k] = e \/ \E i \in DOMAIN q : c[k] = q[i]
             /\ \A i \in DOMAIN q : q[i] \in ToSet(c) \/ SameKey(q[i], e)
             /\ e \in ToSet(c)
  <2> HIDE DEF c
  <2>1. /\ c \in Seq(Event) /\ Len(c) = Len(q)
        /\ \A i \in 1..Len(q) : c[i] = IF i = r THEN e ELSE q[i]
    BY <1>1, <1>3, ExceptSeq
  <2>2. DOMAIN c = DOMAIN q /\ c # <<>>
    BY <1>1, <2>1, LenProperties
  <2>3. c[r] = e /\ \A i \in DOMAIN q : i # r => c[i] = q[i]
    BY <1>1, <2>1
  <2>4. \A i \in DOMAIN q : SameKey(q[i], e) => i = r
    BY <1>3, SameKeyFacts DEF Distinct
  <2>5. Distinct(c)
    <3> SUFFICES ASSUME NEW i \in DOMAIN c, NEW j \in DOMAIN c, SameKey(c[i], c[j])
                 PROVE  i = j
      BY DEF Distinct
    <3>1. CASE i # r /\ j # r
      BY <2>2, <2>3, <3>1 DEF Distinct
    <3>2. CASE i # r /\ j = r
      BY <2>2, <2>3, <2>4, <3>2
    <3>3. CASE i = r /\ j # r
      BY <2>2, <2>3, <2>4, <3>3, SameKeyFacts
    <3> QED BY <3>1, <3>2, <3>3
  <2>6. Ordered(c)
    <3> SUFFICES ASSUME NEW i \in DOMAIN c, NEW j \in DOMAIN c, i < j, Related(c[i], c[j])
                 PROVE  c[i].at < c[j].at
      BY DEF Ordered
    <3>1. CASE i # r /\ j # r
      BY <2>2, <2>3, <3>1 DEF Ordered
    <3>2. CASE j = r
      BY <1>1, <2>2, <2>3, <3>2
    <3>3. CASE i = r
      <4>1. j # r /\ c[i] = e /\ c[j] = q[j]
        BY <1>1, <2>2, <2>3, <3>3
      <4>2. SameKey(e, e)
        BY <1>3 DEF SameKey
      <4>3. SameKey(q[j], e)
        BY <4>1, <4>2, RelatedFacts
      <4> QED BY <2>2, <2>4, <4>1, <4>3
    <3> QED BY <3>1, <3>2, <3>3
  <2>7. \A i \in DOMAIN q : q[i] \in ToSet(c) \/ SameKey(q[i], e)
    BY <1>3, <2>2, <2>3 DEF ToSet
  <2>8. e \in ToSet(c)
    BY <2>2, <2>3 DEF ToSet
  <2>9. \A k \in DOMAIN c : c[k] = e \/ \E i \in DOMAIN q : c[k] = q[i]
    BY <2>2, <2>3
  <2> QED BY <2>1, <2>2, <2>5, <2>6, <2>7, <2>8, <2>9
<1> HIDE DEF c
<1>4. CASE \E i \in DOMAIN q : SameKey(q[i], e) /\ c = [q EXCEPT ![i] = e]
  <2> PICK r \in DOMAIN q : SameKey(q[r], e) /\ c = [q EXCEPT ![r] = e]
    BY <1>4
  <2>1. Len(c) = Len(q)
    BY <1>3
  <2>2. Len(c) <= Len(q) + 1 /\ ~(Len(c) > Len(q))
    BY <1>1, <2>1
  <2> QED BY <1>3, <2>2 DEF c
<1> QED BY <1>2, <1>4, CoalescedCases DEF c

\* The victim of a full queue: its oldest tick, or its oldest event when it has
\* no tick.
LEMMA VictimFacts ==
  ASSUME NEW q \in Seq(Event), q # <<>>
  PROVE  /\ Victim(q) \in 1..Len(q)
         /\ ~LowPriority(q[Victim(q)]) => \A i \in DOMAIN q : ~LowPriority(q[i])
<1> DEFINE I == {i \in 1..Len(q) : LowPriority(q[i])}
           first == IF I # {} THEN Min(I) ELSE 0
<1>1. Victim(q) = IF first = 0 THEN 1 ELSE first
  BY DEF Victim, SelectInSeq
<1>2. DOMAIN q = 1..Len(q) /\ Len(q) \in Nat \ {0}
  BY LenProperties, EmptySeq
<1>3. CASE I = {}
  <2>1. Victim(q) = 1
    BY <1>1, <1>3
  <2> QED BY <1>2, <1>3, <2>1
<1>4. CASE I # {}
  <2>1. I \in SUBSET Nat
    BY <1>2
  <2>2. \E x \in I : \A y \in I : x <= y
    BY <1>4, <2>1, SmallestExists
  <2>3. Min(I) \in I
    BY <2>2 DEF Min
  <2>4. Victim(q) = Min(I)
    BY <1>1, <1>2, <1>4, <2>3
  <2> QED BY <2>3, <2>4
<1> QED BY <1>3, <1>4

\* Dropping an event keeps the order and the keys apart.
LEMMA DroppedFacts ==
  ASSUME NEW c \in Seq(Event), NEW v \in 1..Len(c), Distinct(c), Ordered(c)
  PROVE  LET q == RemoveAt(c, v) IN
         /\ q \in Seq(Event) /\ Len(q) = Len(c) - 1
         /\ Distinct(q) /\ Ordered(q)
         /\ \A k \in DOMAIN q : \E i \in DOMAIN c : q[k] = c[i]
         /\ \A i \in DOMAIN c : c[i] \in ToSet(q) \/ i = v
<1> DEFINE q == RemoveAt(c, v)
           Old(k) == IF k < v THEN k ELSE k + 1
<1>1. DOMAIN c = 1..Len(c) /\ Len(c) \in Nat
  BY LenProperties
<1>2. /\ q \in Seq(Event) /\ Len(q) = Len(c) - 1
      /\ \A k \in 1..(Len(c) - 1) : q[k] = c[Old(k)]
  BY RemoveAtFacts
<1> HIDE DEF q
<1>3. DOMAIN q = 1..(Len(c) - 1)
  BY <1>2, LenProperties
<1>4. /\ \A k \in DOMAIN q : Old(k) \in DOMAIN c /\ q[k] = c[Old(k)]
      /\ \A k, l \in DOMAIN q : k < l => Old(k) < Old(l)
      /\ \A k, l \in DOMAIN q : Old(k) = Old(l) => k = l
      /\ \A i \in DOMAIN c : i # v => \E k \in DOMAIN q : Old(k) = i
  <2>1. \A k \in DOMAIN q : Old(k) \in DOMAIN c /\ q[k] = c[Old(k)]
    BY <1>1, <1>2, <1>3
  <2>2. \A k, l \in DOMAIN q : k < l => Old(k) < Old(l)
    BY <1>1, <1>3
  <2>3. \A k, l \in DOMAIN q : Old(k) = Old(l) => k = l
    BY <1>1, <1>3
  <2>4. ASSUME NEW i \in DOMAIN c, i # v PROVE \E k \in DOMAIN q : Old(k) = i
    <3>1. CASE i < v
      <4>1. i \in DOMAIN q /\ Old(i) = i
        BY <1>1, <1>3, <3>1
      <4> QED BY <4>1
    <3>2. CASE ~(i < v)
      <4>1. i - 1 \in DOMAIN q /\ Old(i - 1) = i
        BY <1>1, <1>3, <2>4, <3>2
      <4> QED BY <4>1
    <3> QED BY <3>1, <3>2
  <2> QED BY <2>1, <2>2, <2>3, <2>4
<1> HIDE DEF Old
<1>5. Distinct(q)
  BY <1>4 DEF Distinct
<1>6. Ordered(q)
  BY <1>4 DEF Ordered
<1>7. \A k \in DOMAIN q : \E i \in DOMAIN c : q[k] = c[i]
  BY <1>4
<1>8. \A i \in DOMAIN c : c[i] \in ToSet(q) \/ i = v
  BY <1>4 DEF ToSet
<1> QED BY <1>2, <1>5, <1>6, <1>7, <1>8 DEF q

\* put as a whole.
LEMMA PutFacts ==
  ASSUME NEW q \in Seq(Event), NEW e \in Event, Distinct(q), Ordered(q),
         \A i \in DOMAIN q : q[i].at < e.at, Len(q) <= MaxSize
  PROVE  LET c == Coalesced(q, e)
             r == Put(q, e)
         IN
         /\ r \in Seq(Event) /\ Len(r) <= MaxSize
         /\ Distinct(r) /\ Ordered(r)
         /\ ToSet(c) \subseteq Event
         /\ \A k \in DOMAIN r : r[k] = e \/ \E i \in DOMAIN q : r[k] = q[i]
         /\ \A i \in DOMAIN q : q[i] \in ToSet(c) \/ SameKey(q[i], e)
         /\ e \in ToSet(c)
         /\ \A d \in ToSet(c) \ ToSet(r) : ~LowPriority(d) =>
               /\ \A i \in DOMAIN q : ~LowPriority(q[i])
               /\ \A k \in DOMAIN r : ~LowPriority(r[k])
<1> DEFINE c == Coalesced(q, e)
           r == Put(q, e)
           v == Victim(c)
<1>1. /\ c \in Seq(Event) /\ c # <<>> /\ Len(c) <= Len(q) + 1
      /\ Distinct(c) /\ Ordered(c)
      /\ \A k \in DOMAIN c : c[k] = e \/ \E i \in DOMAIN q : c[k] = q[i]
      /\ \A i \in DOMAIN q : q[i] \in ToSet(c) \/ SameKey(q[i], e)
      /\ e \in ToSet(c)
      /\ Len(c) > Len(q) => c = Append(q, e)
  BY CoalescedFacts
<1>2. r = IF Len(c) > MaxSize THEN RemoveAt(c, v) ELSE c
  BY DEF Put, Overfull
<1> HIDE DEF c, r
<1>3. Len(c) \in Nat /\ Len(q) \in Nat /\ MaxSize \in Nat
  BY <1>1, LenProperties, ConstantsAssumption
<1>4. ToSet(c) \subseteq Event
  BY <1>1, LenProperties, ElementOfSeq DEF ToSet
<1>5. CASE ~(Len(c) > MaxSize)
  <2>1. r = c /\ Len(c) <= MaxSize
    BY <1>2, <1>3, <1>5
  <2> QED BY <1>1, <1>4, <2>1 DEF c, r
<1>6. CASE Len(c) > MaxSize
  <2>1. r = RemoveAt(c, v)
    BY <1>2, <1>6
  <2>2. v \in 1..Len(c) /\ (~LowPriority(c[v]) => \A i \in DOMAIN c : ~LowPriority(c[i]))
    BY <1>1, VictimFacts
  <2>3. /\ r \in Seq(Event) /\ Len(r) = Len(c) - 1
        /\ Distinct(r) /\ Ordered(r)
        /\ \A k \in DOMAIN r : \E i \in DOMAIN c : r[k] = c[i]
        /\ \A i \in DOMAIN c : c[i] \in ToSet(r) \/ i = v
    BY <1>1, <2>1, <2>2, DroppedFacts
  <2>4. Len(r) <= MaxSize
    BY <1>1, <1>3, <2>3
  <2>5. \A k \in DOMAIN r : r[k] = e \/ \E i \in DOMAIN q : r[k] = q[i]
    BY <1>1, <2>3
  <2>6. ASSUME NEW d \in ToSet(c) \ ToSet(r), ~LowPriority(d)
        PROVE  /\ \A i \in DOMAIN q : ~LowPriority(q[i])
               /\ \A k \in DOMAIN r : ~LowPriority(r[k])
    <3>1. d = c[v]
      BY <2>3, <2>6 DEF ToSet
    <3>2. \A i \in DOMAIN c : ~LowPriority(c[i])
      BY <2>2, <2>6, <3>1
    <3>3. c = Append(q, e)
      BY <1>1, <1>3, <1>6
    <3>4. \A i \in DOMAIN q : i \in DOMAIN c /\ c[i] = q[i]
      BY <3>3, LenProperties
    <3> QED BY <2>3, <3>2, <3>4
  <2> QED BY <1>1, <1>4, <2>3, <2>4, <2>5, <2>6 DEF c, r
<1> QED BY <1>5, <1>6

-----------------------------------------------------------------------------
(* drain and the network loop.                                              *)

\* Related events are of one priority, so neither of them overtakes.
LEMMA AheadFacts ==
  ASSUME NEW s, NEW i, NEW j, Ahead(s, i, j), Related(s[i], s[j])
  PROVE  i < j
<1>1. HighPriority(s[i]) <=> HighPriority(s[j])
  BY RelatedFacts
<1> QED BY <1>1 DEF Ahead

LEMMA FunctionIsSeq ==
  ASSUME NEW S, NEW n \in Nat, NEW x \in [1..n -> S]
  PROVE  x \in Seq(S) /\ Len(x) = n
<1>1. x \in Seq(S)
  BY SeqDef
<1>2. DOMAIN x = 1..n /\ Len(x) \in Nat /\ DOMAIN x = 1..Len(x)
  BY <1>1, LenProperties
<1> QED BY <1>1, <1>2

\* Coalescing has nothing left to do in the batch, and the sort moves no event
\* past a related one.
LEMMA PreparedFacts ==
  ASSUME NEW b \in Seq(Event), Distinct(b), Ordered(b), NEW x \in Prepared(b)
  PROVE  x \in Seq(Event) /\ Ordered(x) /\ ToSet(x) = ToSet(b)
<1> DEFINE first == {i \in DOMAIN b : \A j \in DOMAIN b : j < i => ~SameKey(b[j], b[i])}
           IsLast(i, j) == /\ j = i \/ SameKey(b[j], b[i])
                           /\ \A k \in DOMAIN b : k > j => ~SameKey(b[k], b[i])
           last(i) == CHOOSE j \in DOMAIN b : IsLast(i, j)
<1>1. DOMAIN b = 1..Len(b) /\ Len(b) \in Nat
  BY LenProperties
<1>2. PICK p \in Bijection(1..Cardinality(first), first) :
        /\ \A k, l \in DOMAIN p : k < l => Ahead(b, p[k], p[l])
        /\ x = [k \in DOMAIN p |-> b[last(p[k])]]
  BY DEF Prepared, Listing
<1>3. first = DOMAIN b
  BY <1>1 DEF Distinct
<1>4. ASSUME NEW i \in DOMAIN b PROVE last(i) = i
  <2>1. IsLast(i, i)
    BY <1>1 DEF Distinct
  <2>2. \A j \in DOMAIN b : IsLast(i, j) => j = i
    BY DEF Distinct
  <2> HIDE DEF Last
  <2> QED BY <2>1, <2>2
<1> HIDE DEF first, last
<1>5. /\ Cardinality(DOMAIN b) \in Nat /\ DOMAIN p = 1..Cardinality(DOMAIN b)
      /\ \A k \in DOMAIN p : p[k] \in DOMAIN b
      /\ \A i \in DOMAIN b : \E k \in DOMAIN p : p[k] = i
  <2>1. p \in Bijection(1..Cardinality(DOMAIN b), DOMAIN b)
    BY <1>3
  <2>2. Lists(p, DOMAIN b)
    BY <2>1, PlacesFacts
  <2> QED BY <2>2 DEF Lists
<1> PICK n \in Nat : n = Cardinality(DOMAIN b)
  BY <1>5
<1>6. x = [k \in 1..n |-> b[p[k]]]
  BY <1>2, <1>4, <1>5
<1>7. /\ x \in Seq(Event) /\ DOMAIN x = 1..n
      /\ \A k \in 1..n : x[k] = b[p[k]]
      /\ ToSet(x) = {b[p[k]] : k \in 1..n}
  <2>1. \A i \in DOMAIN b : b[i] \in Event
    BY <1>1, ElementOfSeq
  <2>2. x \in [1..n -> Event]
    BY <1>5, <1>6, <2>1
  <2>3. x \in Seq(Event)
    BY <2>2, FunctionIsSeq
  <2>4. DOMAIN x = 1..n /\ \A k \in 1..n : x[k] = b[p[k]]
    BY <1>6
  <2> QED BY <2>3, <2>4 DEF ToSet
<1>8. ToSet(x) = ToSet(b)
  BY <1>5, <1>7 DEF ToSet
<1>9. Ordered(x)
  <2> SUFFICES ASSUME NEW k \in 1..n, NEW l \in 1..n, k < l, Related(x[k], x[l])
               PROVE  x[k].at < x[l].at
    BY <1>7 DEF Ordered
  <2>1. x[k] = b[p[k]] /\ x[l] = b[p[l]] /\ p[k] \in DOMAIN b /\ p[l] \in DOMAIN b
    BY <1>5, <1>7
  <2>2. Ahead(b, p[k], p[l])
    BY <1>2, <1>5
  <2>3. p[k] < p[l]
    BY <2>1, <2>2, AheadFacts
  <2> QED BY <2>1, <2>3 DEF Ordered
<1> QED BY <1>7, <1>8, <1>9

\* What drain takes from the first n of the places p, and what it leaves.
TakenFrom(q, p, n, left, taken) ==
    /\ left = DOMAIN q \ {p[k] : k \in 1..n}
    /\ taken = [k \in 1..n |-> q[p[k]]]
RestOf(q, left, r, rest) ==
    /\ r \in Bijection(1..Cardinality(left), left)
    /\ \A k, l \in DOMAIN r : k < l => r[k] < r[l]
    /\ rest = [k \in DOMAIN r |-> q[r[k]]]

SplitOf(q, taken, rest) ==
    /\ taken \in Seq(Event) /\ Distinct(taken) /\ Ordered(taken)
    /\ rest \in Seq(Event) /\ Distinct(rest) /\ Ordered(rest) /\ Len(rest) <= Len(q)
    /\ OrderedPair(taken, rest)
    /\ ToSet(taken) \cup ToSet(rest) = ToSet(q)

\* The queue is split into the events taken and the rest, and no event is taken
\* before a related one that is older.
LEMMA DrainedFacts ==
  ASSUME NEW q \in Seq(Event), Distinct(q), Ordered(q), NEW p \in Drained(q),
         NEW n \in 0..Len(q), NEW left, NEW taken, TakenFrom(q, p, n, left, taken),
         NEW r, NEW rest, RestOf(q, left, r, rest)
  PROVE  SplitOf(q, taken, rest)
<1>1. DOMAIN q = 1..Len(q) /\ Len(q) \in Nat /\ n \in Nat
  BY LenProperties
<1>2. /\ p \in Bijection(1..Cardinality(DOMAIN q), DOMAIN q)
      /\ \A k, l \in DOMAIN p : k < l => Ahead(q, p[k], p[l])
  BY DEF Drained, Listing
<1>3. /\ DOMAIN p = 1..Len(q)
      /\ \A k \in DOMAIN p : p[k] \in DOMAIN q
      /\ \A i \in DOMAIN q : \E k \in DOMAIN p : p[k] = i
      /\ \A k, l \in DOMAIN p : p[k] = p[l] => k = l
  <2>1. Cardinality(DOMAIN q) = Len(q)
    BY DomainSize
  <2>2. Lists(p, DOMAIN q)
    BY <1>2, PlacesFacts
  <2> QED BY <2>1, <2>2 DEF Lists
<1>4. \A k \in 1..n : k \in DOMAIN p /\ p[k] \in DOMAIN q
  BY <1>1, <1>3
<1> USE DEF TakenFrom, RestOf
<1>5. /\ Cardinality(left) \in Nat /\ Cardinality(left) <= Len(q)
      /\ DOMAIN r = 1..Cardinality(left)
      /\ \A k \in DOMAIN r : r[k] \in left
      /\ \A i \in left : \E k \in DOMAIN r : r[k] = i
      /\ \A k, l \in DOMAIN r : r[k] = r[l] => k = l
  <2>1. left \in SUBSET DOMAIN q
    OBVIOUS
  <2>2. Lists(r, left) /\ Cardinality(left) <= Len(q)
    BY <2>1, PlacesFacts
  <2> QED BY <2>2 DEF Lists
<1> PICK m \in Nat : m = Cardinality(left)
  BY <1>5
<1>6. /\ taken \in Seq(Event) /\ DOMAIN taken = 1..n
      /\ \A k \in 1..n : taken[k] = q[p[k]]
      /\ ToSet(taken) = {q[p[k]] : k \in 1..n}
  <2>1. taken \in [1..n -> Event]
    BY <1>1, <1>4, ElementOfSeq
  <2>2. taken \in Seq(Event)
    BY <1>1, <2>1, FunctionIsSeq
  <2> QED BY <2>2 DEF ToSet
<1>7. /\ rest \in Seq(Event) /\ Len(rest) = m /\ DOMAIN rest = 1..m
      /\ \A k \in 1..m : rest[k] = q[r[k]]
      /\ ToSet(rest) = {q[r[k]] : k \in 1..m}
  <2>1. rest \in [1..m -> Event]
    BY <1>1, <1>5, ElementOfSeq
  <2>2. rest \in Seq(Event) /\ Len(rest) = m
    BY <2>1, FunctionIsSeq
  <2>3. DOMAIN rest = 1..m /\ \A k \in 1..m : rest[k] = q[r[k]]
    BY <1>5
  <2> QED BY <2>2, <2>3 DEF ToSet
<1>8. Distinct(taken) /\ Distinct(rest)
  <2>1. Distinct(taken)
    BY <1>3, <1>4, <1>6 DEF Distinct
  <2>2. Distinct(rest)
    BY <1>5, <1>7 DEF Distinct
  <2> QED BY <2>1, <2>2
<1>9. Ordered(taken)
  <2> SUFFICES ASSUME NEW k \in 1..n, NEW l \in 1..n, k < l, Related(taken[k], taken[l])
               PROVE  taken[k].at < taken[l].at
    BY <1>6 DEF Ordered
  <2>1. taken[k] = q[p[k]] /\ taken[l] = q[p[l]] /\ Ahead(q, p[k], p[l])
    BY <1>2, <1>4, <1>6
  <2>2. p[k] < p[l]
    BY <2>1, AheadFacts
  <2> QED BY <1>4, <2>1, <2>2 DEF Ordered
<1>10. Ordered(rest)
  BY <1>5, <1>7 DEF Ordered
<1>11. OrderedPair(taken, rest)
  <2> SUFFICES ASSUME NEW k \in 1..n, NEW l \in 1..m, Related(taken[k], rest[l])
               PROVE  taken[k].at < rest[l].at
    BY <1>6, <1>7 DEF OrderedPair
  <2>1. taken[k] = q[p[k]] /\ rest[l] = q[r[l]] /\ r[l] \in left
    BY <1>5, <1>6, <1>7
  <2>2. PICK h \in DOMAIN p : p[h] = r[l]
    BY <1>3, <2>1
  <2>3. h \notin 1..n
    BY <2>1, <2>2
  <2>4. k < h
    BY <1>1, <1>3, <2>3
  <2>5. Ahead(q, p[k], p[h])
    BY <1>2, <1>4, <2>4
  <2>6. p[k] < p[h]
    BY <2>1, <2>2, <2>5, AheadFacts
  <2> QED BY <1>3, <1>4, <2>1, <2>2, <2>6 DEF Ordered
<1>12. ToSet(taken) \cup ToSet(rest) = ToSet(q)
  <2>1. ToSet(taken) \subseteq ToSet(q) /\ ToSet(rest) \subseteq ToSet(q)
    BY <1>4, <1>5, <1>6, <1>7 DEF ToSet
  <2>2. ASSUME NEW i \in DOMAIN q PROVE q[i] \in ToSet(taken) \cup ToSet(rest)
    <3>1. CASE i \in left
      <4>1. PICK k \in DOMAIN r : r[k] = i
        BY <1>5, <3>1
      <4>2. k \in 1..m /\ q[i] = q[r[k]]
        BY <1>5, <4>1
      <4> QED BY <1>7, <4>2
    <3>2. CASE i \notin left
      <4>1. PICK k \in 1..n : p[k] = i
        BY <3>2
      <4> QED BY <1>6, <4>1
    <3> QED BY <3>1, <3>2
  <2> QED BY <2>1, <2>2 DEF ToSet
<1>13. Len(rest) <= Len(q)
  BY <1>5, <1>7
<1> QED BY <1>6, <1>7, <1>8, <1>9, <1>10, <1>11, <1>12, <1>13 DEF SplitOf

-----------------------------------------------------------------------------
(* The steps.                                                               *)

\* What depends on the elements of a sequence alone.
LEMMA PairElements ==
  ASSUME NEW s, NEW t, NEW u, NEW v, OrderedPair(s, t),
         ToSet(u) \subseteq ToSet(s), ToSet(v) \subseteq ToSet(t)
  PROVE  OrderedPair(u, v)
<1> SUFFICES ASSUME NEW i \in DOMAIN u, NEW j \in DOMAIN v, Related(u[i], v[j])
             PROVE  u[i].at < v[j].at
  BY DEF OrderedPair
<1>1. u[i] \in ToSet(s) /\ v[j] \in ToSet(t)
  BY DEF ToSet
<1>2. PICK k \in DOMAIN s : s[k] = u[i]
  BY <1>1 DEF ToSet
<1>3. PICK l \in DOMAIN t : t[l] = v[j]
  BY <1>1 DEF ToSet
<1> QED BY <1>2, <1>3 DEF OrderedPair

LEMMA PastElements ==
  ASSUME NEW s, NEW u, Past(s), ToSet(u) \subseteq ToSet(s)
  PROVE  Past(u)
<1> SUFFICES ASSUME NEW i \in DOMAIN u PROVE u[i].at <= Len(emitted)
  BY DEF Past
<1>1. PICK k \in DOMAIN s : s[k] = u[i]
  BY DEF ToSet
<1> QED BY <1>1 DEF Past

LEMMA TypeFacts ==
  ASSUME TypeOK
  PROVE  /\ queue \in Seq(Event) /\ batch \in Seq(Event)
         /\ emitted \in Seq(Event) /\ posted \in Seq(Event)
         /\ Len(queue) <= MaxSize /\ dropped \subseteq Event /\ lost \subseteq Event
BY DEF TypeOK

LEMMA InitKeeps == Init => QueueInv
<1> SUFFICES ASSUME Init PROVE QueueInv
  OBVIOUS
<1>1. TypeOK
  BY EmptySeq, ConstantsAssumption DEF Init, TypeOK
<1>2. Dated /\ Distinct(queue) /\ InTime /\ NewestKnown
  BY DEF Init, Dated, Past, Distinct, InTime, Ordered, OrderedPair, NewestKnown
<1> QED BY <1>1, <1>2 DEF QueueInv

LEMMA EmitKeeps ==
  ASSUME QueueInv, NEW kind \in Kinds, NEW code \in Codes, Emit(kind, code)
  PROVE  /\ QueueInv'
         /\ \A d \in dropped' \ dropped : ~LowPriority(d) =>
               /\ \A i \in DOMAIN queue : ~LowPriority(queue[i])
               /\ \A i \in DOMAIN queue' : ~LowPriority(queue'[i])
<1> PICK e : e = [kind |-> kind, code |-> code, at |-> Len(emitted) + 1]
  OBVIOUS
<1> PICK c : c = Coalesced(queue, e)
  OBVIOUS
<1>1. /\ queue \in Seq(Event) /\ batch \in Seq(Event)
      /\ emitted \in Seq(Event) /\ posted \in Seq(Event)
      /\ Len(queue) <= MaxSize /\ dropped \subseteq Event /\ lost \subseteq Event
  BY TypeFacts DEF QueueInv
<1>2. /\ Len(emitted) < MaxEvents /\ emitted' = Append(emitted, e)
      /\ queue' = Put(queue, e) /\ dropped' = dropped \cup (ToSet(c) \ ToSet(queue'))
      /\ UNCHANGED <<batch, posted, lost>>
  BY DEF Emit
<1>3. Len(emitted) \in Nat /\ DOMAIN emitted = 1..Len(emitted)
  BY <1>1, LenProperties
<1>4. e \in Event /\ e.at = Len(emitted) + 1
  BY <1>2, <1>3, ConstantsAssumption DEF Event
<1>5. \A d \in Event : d.at \in Nat
  BY ConstantsAssumption DEF Event
<1>6. \A i \in DOMAIN queue : queue[i] \in Event /\ queue[i].at <= Len(emitted)
  BY <1>1, LenProperties, ElementOfSeq DEF QueueInv, Dated, Past
<1>7. \A i \in DOMAIN queue : queue[i].at < e.at
  BY <1>3, <1>4, <1>5, <1>6
<1>8. /\ queue' \in Seq(Event) /\ Len(queue') <= MaxSize
      /\ Distinct(queue') /\ Ordered(queue')
      /\ ToSet(c) \subseteq Event
      /\ \A k \in DOMAIN queue' : queue'[k] = e \/ \E i \in DOMAIN queue : queue'[k] = queue[i]
      /\ \A i \in DOMAIN queue : queue[i] \in ToSet(c) \/ SameKey(queue[i], e)
      /\ e \in ToSet(c)
      /\ \A d \in ToSet(c) \ ToSet(queue') : ~LowPriority(d) =>
            /\ \A i \in DOMAIN queue : ~LowPriority(queue[i])
            /\ \A k \in DOMAIN queue' : ~LowPriority(queue'[k])
  BY <1>1, <1>2, <1>4, <1>7, PutFacts DEF QueueInv, InTime
<1>9. /\ emitted' \in Seq(Event) /\ Len(emitted') = Len(emitted) + 1
      /\ DOMAIN emitted' = 1..(Len(emitted) + 1)
      /\ \A i \in DOMAIN emitted : emitted'[i] = emitted[i]
      /\ emitted'[Len(emitted) + 1] = e
  BY <1>1, <1>2, <1>3, <1>4
<1>10. TypeOK'
  BY <1>1, <1>2, <1>8, <1>9 DEF TypeOK
<1>11. Dated'
  <2>1. \A i \in DOMAIN emitted' : emitted'[i].at = i
    BY <1>3, <1>4, <1>9 DEF QueueInv, Dated
  <2>2. \A k \in DOMAIN queue' : queue'[k].at <= Len(emitted')
    BY <1>3, <1>4, <1>5, <1>6, <1>8, <1>9
  <2>3. ASSUME NEW s \in Seq(Event), Past(s) PROVE \A i \in DOMAIN s : s[i].at <= Len(emitted')
    <3>1. \A i \in DOMAIN s : s[i] \in Event /\ s[i].at <= Len(emitted)
      BY <2>3, LenProperties, ElementOfSeq DEF Past
    <3> QED BY <1>3, <1>5, <1>9, <3>1
  <2>4. Past(batch) /\ Past(posted)
    BY DEF QueueInv, Dated
  <2> QED BY <1>1, <1>2, <2>1, <2>2, <2>3, <2>4 DEF Dated, Past
<1>12. InTime'
  <2>1. ASSUME NEW s \in Seq(Event), Past(s), OrderedPair(s, queue)
        PROVE  OrderedPair(s, queue')
    <3> SUFFICES ASSUME NEW i \in DOMAIN s, NEW k \in DOMAIN queue', Related(s[i], queue'[k])
                 PROVE  s[i].at < queue'[k].at
      BY DEF OrderedPair
    <3>1. s[i] \in Event /\ s[i].at <= Len(emitted)
      BY <2>1, LenProperties, ElementOfSeq DEF Past
    <3>2. CASE queue'[k] = e
      BY <1>3, <1>4, <1>5, <3>1, <3>2
    <3>3. CASE \E j \in DOMAIN queue : queue'[k] = queue[j]
      BY <2>1, <3>3 DEF OrderedPair
    <3> QED BY <1>8, <3>2, <3>3
  <2>2. Past(batch) /\ Past(posted) /\ OrderedPair(batch, queue) /\ OrderedPair(posted, queue)
    BY DEF QueueInv, Dated, InTime
  <2>3. OrderedPair(batch, queue') /\ OrderedPair(posted, queue')
    BY <1>1, <2>1, <2>2
  <2> QED BY <1>2, <1>8, <2>3 DEF QueueInv, InTime, Ordered, OrderedPair
<1>13. NewestKnown'
  <2>1. ToSet(c) \subseteq Known'
    BY <1>2 DEF Known
  <2>2. ASSUME NEW i \in DOMAIN emitted', Newest(i)' PROVE emitted'[i] \in Known'
    <3>1. CASE i = Len(emitted) + 1
      BY <1>8, <1>9, <2>1, <3>1
    <3>2. CASE i \in DOMAIN emitted
      <4>1. Newest(i)
        BY <1>3, <1>9, <2>2, <3>2 DEF Newest
      <4>2. ~SameKey(emitted[i], e)
        BY <1>3, <1>9, <2>2, <3>2 DEF Newest
      <4>3. emitted[i] \in Known
        BY <3>2, <4>1 DEF QueueInv, NewestKnown
      <4>4. CASE emitted[i] \in ToSet(queue)
        BY <1>8, <1>9, <2>1, <3>2, <4>2, <4>4 DEF ToSet
      <4>5. CASE emitted[i] \notin ToSet(queue)
        BY <1>2, <1>9, <3>2, <4>3, <4>5 DEF Known
      <4> QED BY <4>4, <4>5
    <3> QED BY <1>3, <1>9, <3>1, <3>2
  <2> QED BY <2>2 DEF NewestKnown
<1>14. \A d \in dropped' \ dropped : d \in ToSet(c) \ ToSet(queue')
  BY <1>2
<1> QED BY <1>8, <1>10, <1>11, <1>12, <1>13, <1>14 DEF QueueInv

LEMMA DrainKeeps ==
  ASSUME QueueInv, Drain
  PROVE  QueueInv'
<1>1. /\ queue \in Seq(Event) /\ batch \in Seq(Event)
      /\ emitted \in Seq(Event) /\ posted \in Seq(Event)
      /\ Len(queue) <= MaxSize /\ dropped \subseteq Event /\ lost \subseteq Event
  BY TypeFacts DEF QueueInv
<1>2. batch = <<>> /\ UNCHANGED <<emitted, posted, dropped, lost>>
  BY DEF Drain
<1> PICK n : n = IF Len(queue) < DrainLimit THEN Len(queue) ELSE DrainLimit
  OBVIOUS
<1>3. Len(queue) \in Nat /\ n \in 0..Len(queue)
  BY <1>1, LenProperties, ConstantsAssumption
<1>4. PICK p \in Drained(queue) :
        LET left == DOMAIN queue \ {p[k] : k \in 1..n}
        IN  /\ batch' \in Prepared([k \in 1..n |-> queue[p[k]]])
            /\ \E r \in Bijection(1..Cardinality(left), left) :
                  /\ \A k, l \in DOMAIN r : k < l => r[k] < r[l]
                  /\ queue' = [k \in DOMAIN r |-> queue[r[k]]]
  BY DEF Drain, Listing
<1> PICK left : left = DOMAIN queue \ {p[k] : k \in 1..n}
  OBVIOUS
<1> PICK taken : taken = [k \in 1..n |-> queue[p[k]]]
  OBVIOUS
<1>5. PICK r \in Bijection(1..Cardinality(left), left) :
        /\ \A k, l \in DOMAIN r : k < l => r[k] < r[l]
        /\ queue' = [k \in DOMAIN r |-> queue[r[k]]]
  BY <1>4
<1>6. Distinct(queue) /\ Ordered(queue)
  BY DEF QueueInv, InTime
<1>7. /\ taken \in Seq(Event) /\ Distinct(taken) /\ Ordered(taken)
      /\ queue' \in Seq(Event) /\ Distinct(queue') /\ Ordered(queue') /\ Len(queue') <= Len(queue)
      /\ OrderedPair(taken, queue')
      /\ ToSet(taken) \cup ToSet(queue') = ToSet(queue)
  <2>1. TakenFrom(queue, p, n, left, taken)
    BY DEF TakenFrom
  <2>2. RestOf(queue, left, r, queue')
    BY <1>5 DEF RestOf
  <2>3. SplitOf(queue, taken, queue')
    BY <1>1, <1>3, <1>6, <2>1, <2>2, DrainedFacts
  <2> QED BY <2>3 DEF SplitOf
<1>8. batch' \in Prepared(taken)
  BY <1>4
<1>9. batch' \in Seq(Event) /\ Ordered(batch') /\ ToSet(batch') = ToSet(taken)
  BY <1>7, <1>8, PreparedFacts
<1>10. TypeOK'
  <2>1. Len(queue') <= MaxSize
    BY <1>1, <1>3, <1>7, LenProperties, ConstantsAssumption
  <2> QED BY <1>1, <1>2, <1>7, <1>9, <2>1 DEF TypeOK
<1>11. Dated'
  <2>1. Past(batch') /\ Past(queue')
    BY <1>7, <1>9, PastElements DEF QueueInv, Dated
  <2> QED BY <1>2, <2>1 DEF QueueInv, Dated, Past
<1>12. InTime'
  <2>1. OrderedPair(posted, queue)
    BY DEF QueueInv, InTime
  <2>2. ToSet(posted) \subseteq ToSet(posted) /\ ToSet(queue') \subseteq ToSet(queue)
        /\ ToSet(batch') \subseteq ToSet(queue)
    BY <1>7, <1>9
  <2>3. OrderedPair(posted, batch') /\ OrderedPair(posted, queue')
    BY <2>1, <2>2, PairElements
  <2>4. OrderedPair(batch', queue')
    BY <1>7, <1>9, PairElements
  <2> QED BY <1>2, <1>7, <1>9, <2>3, <2>4 DEF QueueInv, InTime, Ordered, OrderedPair
<1>13. NewestKnown'
  <2>1. ToSet(batch) = {}
    BY <1>2 DEF ToSet
  <2>2. Known' = Known
    BY <1>2, <1>7, <1>9, <2>1 DEF Known
  <2> QED BY <1>2, <2>2 DEF QueueInv, NewestKnown, Newest
<1> QED BY <1>7, <1>10, <1>11, <1>12, <1>13 DEF QueueInv

LEMMA PostKeeps ==
  ASSUME QueueInv, PostEvent
  PROVE  QueueInv'
<1>1. /\ queue \in Seq(Event) /\ batch \in Seq(Event)
      /\ emitted \in Seq(Event) /\ posted \in Seq(Event)
      /\ Len(queue) <= MaxSize /\ dropped \subseteq Event /\ lost \subseteq Event
  BY TypeFacts DEF QueueInv
<1>2. /\ batch # <<>> /\ posted' = Append(posted, Head(batch)) /\ batch' = Tail(batch)
      /\ UNCHANGED <<queue, emitted, dropped, lost>>
  BY DEF PostEvent
<1> PICK e : e = Head(batch)
  OBVIOUS
<1>3. /\ e \in Event /\ e = batch[1] /\ batch' \in Seq(Event) /\ 1 \in DOMAIN batch
      /\ \A k \in DOMAIN batch' : k + 1 \in DOMAIN batch /\ 1 < k + 1 /\ batch'[k] = batch[k + 1]
      /\ \A i \in DOMAIN batch : i = 1 \/ \E k \in DOMAIN batch' : k + 1 = i
  <2>1. /\ e \in Event /\ batch' \in Seq(Event) /\ Len(batch') = Len(batch) - 1
        /\ \A i \in 1..Len(batch') : batch'[i] = batch[i + 1]
    BY <1>1, <1>2, HeadTailProperties
  <2>2. /\ Len(batch) \in Nat \ {0} /\ DOMAIN batch = 1..Len(batch)
        /\ DOMAIN batch' = 1..(Len(batch) - 1)
    BY <1>1, <1>2, <2>1, LenProperties, EmptySeq
  <2>3. \A i \in DOMAIN batch : i = 1 \/ \E k \in DOMAIN batch' : k + 1 = i
    <3> SUFFICES ASSUME NEW i \in DOMAIN batch, i # 1 PROVE \E k \in DOMAIN batch' : k + 1 = i
      OBVIOUS
    <3>1. i - 1 \in DOMAIN batch' /\ (i - 1) + 1 = i
      BY <2>2
    <3> QED BY <3>1
  <2> QED BY <1>1, <1>2, <2>1, <2>2, <2>3
<1>4. /\ posted' \in Seq(Event) /\ Len(posted) \in Nat /\ DOMAIN posted = 1..Len(posted)
      /\ DOMAIN posted' = DOMAIN posted \cup {Len(posted) + 1}
      /\ \A i \in DOMAIN posted : posted'[i] = posted[i]
      /\ posted'[Len(posted) + 1] = e
  BY <1>1, <1>2, <1>3, LenProperties
<1>5. TypeOK'
  BY <1>1, <1>2, <1>3, <1>4 DEF TypeOK
<1>6. Dated'
  <2>1. \A i \in DOMAIN posted' : posted'[i].at <= Len(emitted)
    BY <1>3, <1>4 DEF QueueInv, Dated, Past
  <2>2. \A i \in DOMAIN batch' : batch'[i].at <= Len(emitted)
    BY <1>3 DEF QueueInv, Dated, Past
  <2> QED BY <1>2, <2>1, <2>2 DEF QueueInv, Dated, Past
<1>7. InTime'
  <2> USE DEF QueueInv, InTime
  <2>1. Ordered(posted')
    <3> SUFFICES ASSUME NEW i \in DOMAIN posted', NEW j \in DOMAIN posted', i < j,
                        Related(posted'[i], posted'[j])
                 PROVE  posted'[i].at < posted'[j].at
      BY DEF Ordered
    <3>1. i \in DOMAIN posted
      BY <1>4
    <3>2. CASE j \in DOMAIN posted
      BY <1>4, <3>1, <3>2 DEF Ordered
    <3>3. CASE j = Len(posted) + 1
      BY <1>3, <1>4, <3>1, <3>3 DEF OrderedPair
    <3> QED BY <1>4, <3>2, <3>3
  <2>2. Ordered(batch')
    <3> SUFFICES ASSUME NEW i \in DOMAIN batch', NEW j \in DOMAIN batch', i < j,
                        Related(batch'[i], batch'[j])
                 PROVE  batch'[i].at < batch'[j].at
      BY DEF Ordered
    <3>1. DOMAIN batch' = 1..Len(batch') /\ Len(batch') \in Nat
      BY <1>3, LenProperties
    <3>2. i + 1 < j + 1 /\ i + 1 \in DOMAIN batch /\ j + 1 \in DOMAIN batch
      BY <1>3, <3>1
    <3> QED BY <1>3, <3>2 DEF Ordered
  <2>3. OrderedPair(posted', batch')
    <3> SUFFICES ASSUME NEW i \in DOMAIN posted', NEW j \in DOMAIN batch',
                        Related(posted'[i], batch'[j])
                 PROVE  posted'[i].at < batch'[j].at
      BY DEF OrderedPair
    <3>1. j + 1 \in DOMAIN batch /\ 1 < j + 1 /\ batch'[j] = batch[j + 1]
      BY <1>3
    <3>2. CASE i \in DOMAIN posted
      BY <1>4, <3>1, <3>2 DEF OrderedPair
    <3>3. CASE i = Len(posted) + 1
      BY <1>3, <1>4, <3>1, <3>3 DEF Ordered
    <3> QED BY <1>4, <3>2, <3>3
  <2>4. OrderedPair(posted', queue)
    <3> SUFFICES ASSUME NEW i \in DOMAIN posted', NEW j \in DOMAIN queue,
                        Related(posted'[i], queue[j])
                 PROVE  posted'[i].at < queue[j].at
      BY DEF OrderedPair
    <3>1. CASE i \in DOMAIN posted
      BY <1>4, <3>1 DEF OrderedPair
    <3>2. CASE i = Len(posted) + 1
      BY <1>3, <1>4, <3>2 DEF OrderedPair
    <3> QED BY <1>4, <3>1, <3>2
  <2>5. OrderedPair(batch', queue)
    BY <1>3 DEF OrderedPair
  <2> QED BY <1>2, <2>1, <2>2, <2>3, <2>4, <2>5 DEF Ordered, OrderedPair
<1>8. NewestKnown'
  <2>1. ToSet(posted) \subseteq ToSet(posted') /\ e \in ToSet(posted')
    BY <1>4 DEF ToSet
  <2>2. ToSet(batch) \subseteq ToSet(batch') \cup {e}
    BY <1>3 DEF ToSet
  <2>3. Known \subseteq Known'
    BY <1>2, <2>1, <2>2 DEF Known
  <2> QED BY <1>2, <2>3 DEF QueueInv, NewestKnown, Newest
<1>9. Distinct(queue')
  BY <1>2 DEF QueueInv, Distinct
<1> QED BY <1>5, <1>6, <1>7, <1>8, <1>9 DEF QueueInv

LEMMA FailKeeps ==
  ASSUME QueueInv, PostFails
  PROVE  QueueInv'
<1>1. /\ queue \in Seq(Event) /\ batch \in Seq(Event)
      /\ emitted \in Seq(Event) /\ posted \in Seq(Event)
      /\ Len(queue) <= MaxSize /\ dropped \subseteq Event /\ lost \subseteq Event
  BY TypeFacts DEF QueueInv
<1>2. /\ lost' = lost \cup ToSet(batch) /\ batch' = <<>>
      /\ UNCHANGED <<queue, emitted, posted, dropped>>
  BY DEF PostFails
<1>3. ToSet(batch) \subseteq Event
  BY <1>1, LenProperties, ElementOfSeq DEF ToSet
<1>4. TypeOK'
  BY <1>1, <1>2, <1>3, EmptySeq DEF TypeOK
<1>5. Dated' /\ Distinct(queue')
  BY <1>2 DEF QueueInv, Dated, Past, Distinct
<1>6. InTime'
  BY <1>2 DEF QueueInv, InTime, Ordered, OrderedPair
<1>7. NewestKnown'
  <2>1. Known \subseteq Known'
    BY <1>2 DEF Known
  <2> QED BY <1>2, <2>1 DEF QueueInv, NewestKnown, Newest
<1> QED BY <1>4, <1>5, <1>6, <1>7 DEF QueueInv

LEMMA NextKeeps == QueueInv /\ [Next]_vars => QueueInv'
<1> SUFFICES ASSUME QueueInv, [Next]_vars PROVE QueueInv'
  OBVIOUS
<1>1. CASE Next
  BY <1>1, EmitKeeps, DrainKeeps, PostKeeps, FailKeeps DEF Next
<1>2. CASE UNCHANGED vars
  BY <1>2 DEF vars, QueueInv, TypeOK, Dated, Past, Distinct, InTime, Ordered, OrderedPair,
              NewestKnown, Newest, Known
<1> QED BY <1>1, <1>2

-----------------------------------------------------------------------------
(* The theorems.                                                            *)

\* In every behaviour of the queue the types hold, the queue has one event per
\* key, related events are in order across the queue, the batch and what was
\* posted, and the newest events are accounted for.
THEOREM QueueInvariant == Spec => []QueueInv
BY InitKeeps, NextKeeps, PTL DEF Spec

\* GatewayEventQueue never exceeds its size, whatever put and drain do.
THEOREM TypeCorrect == Spec => []TypeOK
<1>1. QueueInv => TypeOK
  BY DEF QueueInv
<1> QED BY <1>1, QueueInvariant, PTL

\* The Core receives the ticks of a code, the condition events of a code and
\* action, the acknowledgements and the executions each in the order of the
\* callbacks, for any queue size and drain limit.
THEOREM CoreStaysInOrder == Spec => []InOrder
<1>1. QueueInv => InOrder
  <2>1. ASSUME NEW d, NEW e, d.kind = e.kind, d.kind \in {"control", "execution"} \/ SameKey(d, e)
        PROVE  Related(d, e)
    BY <2>1 DEF Related
  <2> QED BY <2>1 DEF QueueInv, InTime, Ordered, InOrder
<1> QED BY <1>1, QueueInvariant, PTL

\* When nothing is queued, the newest event of each key and every report have
\* been posted, dropped by a full queue or lost with a batch.
THEOREM NewestAreNotForgotten == Spec => []NothingForgotten
<1>1. ASSUME QueueInv PROVE NothingForgotten
  <2> SUFFICES ASSUME queue \o batch = <<>>, NEW i \in DOMAIN emitted,
                      \A j \in (i + 1)..Len(emitted) : ~SameKey(emitted[i], emitted[j])
               PROVE  emitted[i] \in ToSet(posted) \cup dropped \cup lost
    BY DEF NothingForgotten
  <2>1. queue \in Seq(Event) /\ batch \in Seq(Event) /\ emitted \in Seq(Event)
    BY <1>1, TypeFacts DEF QueueInv
  <2>2. queue = <<>> /\ batch = <<>>
    BY <2>1, ConcatEqualIffEmpty
  <2>3. DOMAIN emitted = 1..Len(emitted) /\ Len(emitted) \in Nat
    BY <2>1, LenProperties
  <2>4. Newest(i)
    BY <2>3 DEF Newest
  <2>5. ToSet(queue) = {} /\ ToSet(batch) = {}
    BY <2>2 DEF ToSet
  <2> QED BY <1>1, <2>4, <2>5 DEF QueueInv, NewestKnown, Known
<1> QED BY <1>1, QueueInvariant, PTL

\* A full queue gives up a report only when neither the queue nor the event that
\* is put is a tick.
THEOREM TicksMakeRoom == Spec => TicksGoFirst
<1> DEFINE Step == \A e \in dropped' \ dropped :
                      ~LowPriority(e) => SelectInSeq(queue \o queue', LowPriority) = 0
<1>1. ASSUME QueueInv, QueueInv', [Next]_vars PROVE Step
  <2>1. ASSUME NEW kind \in Kinds, NEW code \in Codes, Emit(kind, code) PROVE Step
    <3> SUFFICES ASSUME NEW e \in dropped' \ dropped, ~LowPriority(e)
                 PROVE  SelectInSeq(queue \o queue', LowPriority) = 0
      OBVIOUS
    <3>1. /\ \A i \in DOMAIN queue : ~LowPriority(queue[i])
          /\ \A i \in DOMAIN queue' : ~LowPriority(queue'[i])
      BY <1>1, <2>1, EmitKeeps
    <3>2. queue \in Seq(Event) /\ queue' \in Seq(Event)
      BY <1>1 DEF QueueInv, TypeOK
    <3>3. /\ Len(queue) \in Nat /\ DOMAIN queue = 1..Len(queue)
          /\ Len(queue') \in Nat /\ DOMAIN queue' = 1..Len(queue')
      BY <3>2, LenProperties
    <3>4. /\ Len(queue \o queue') = Len(queue) + Len(queue')
          /\ \A i \in 1..(Len(queue) + Len(queue')) :
                (queue \o queue')[i] = IF i <= Len(queue) THEN queue[i] ELSE queue'[i - Len(queue)]
      BY <3>2, ConcatProperties
    <3>5. ASSUME NEW i \in 1..Len(queue \o queue') PROVE ~LowPriority((queue \o queue')[i])
      <4>1. CASE i <= Len(queue)
        BY <3>1, <3>3, <3>4, <4>1
      <4>2. CASE ~(i <= Len(queue))
        <5>1. i - Len(queue) \in DOMAIN queue'
          BY <3>3, <3>4, <4>2
        <5>2. (queue \o queue')[i] = queue'[i - Len(queue)]
          BY <3>3, <3>4, <4>2
        <5> QED BY <3>1, <5>1, <5>2
      <4> QED BY <4>1, <4>2
    <3> QED BY <3>5 DEF SelectInSeq
  <2>2. CASE Drain \/ PostEvent \/ PostFails \/ UNCHANGED vars
    BY <2>2 DEF Drain, PostEvent, PostFails, vars
  <2> QED BY <1>1, <2>1, <2>2 DEF Next
<1>2. QueueInv /\ QueueInv' /\ [Next]_vars => [Step]_vars
  BY <1>1
<1> QED BY <1>2, QueueInvariant, PTL DEF Spec, TicksGoFirst
=============================================================================
