---------------------------- MODULE StreamProofs ----------------------------
(***************************************************************************)
(* Within one view of a run, the event stream shows the desktop the events  *)
(* of that run one by one, each once, in the order they happened (EventLog). *)
(***************************************************************************)
EXTENDS Services, FiniteSetTheorems, SequenceTheorems, WellFoundedInduction, TLAPS

-----------------------------------------------------------------------------
(* Sets of numbers in their order.                                         *)
Increasing(s) == \A i, j \in DOMAIN s : i < j => s[i] < s[j]

Enumerates(s, S) ==
  /\ s \in [1..Cardinality(S) -> S]
  /\ \A x \in S : \E i \in DOMAIN s : s[i] = x
  /\ Increasing(s)

LEMMA SetInduction ==
  ASSUME NEW S \in SUBSET Nat, 0 \in S, \A n \in S : n + 1 \in S
  PROVE  S = Nat
<1> SUFFICES ASSUME Nat \ S # {} PROVE FALSE
  OBVIOUS
<1>1. PICK x \in Nat \ S : \A y \in Nat \ S : ~ (<<y, x>> \in OpToRel(<, Nat))
  BY Zenon, NatLessThanWellFounded, WFMin
<1>2. x # 0 /\ x - 1 \in Nat /\ x - 1 \notin S
  OBVIOUS
<1>3. <<x - 1, x>> \in OpToRel(<, Nat)
  BY <1>2 DEF OpToRel
<1> QED
  BY Zenon, <1>1, <1>2, <1>3

(* Every set of numbers up to n can be enumerated: n is the last of those   *)
(* that are in it.                                                         *)
LEMMA Enumerable ==
  ASSUME NEW n \in Nat, NEW S \in SUBSET (1..n)
  PROVE  \E s : Enumerates(s, S)
<1> DEFINE All(k) == \A T \in SUBSET (1..k) : \E s : Enumerates(s, T)
           Good == {k \in Nat : All(k)}
<1>1. 0 \in Good
  <2>1. ASSUME NEW T \in SUBSET (1..0) PROVE \E s : Enumerates(s, T)
    <3>0. T = {}
      OBVIOUS
    <3>1. T = {} /\ Cardinality(T) = 0
      BY <3>0, FS_EmptySet
    <3> DEFINE none == [i \in 1..0 |-> i]
    <3>2. none \in [1..0 -> T] /\ DOMAIN none = {}
      OBVIOUS
    <3>3. Enumerates(none, T)
      BY <3>1, <3>2 DEF Enumerates, Increasing
    <3> QED
      BY <3>3
  <2> QED
    BY <2>1
<1>2. ASSUME NEW k \in Good PROVE k + 1 \in Good
  <2> k \in Nat /\ All(k)
    OBVIOUS
  <2>1. ASSUME NEW T \in SUBSET (1..(k + 1)) PROVE \E s : Enumerates(s, T)
    <3>1. CASE k + 1 \notin T
      <4>1. T \in SUBSET (1..k)
        BY <3>1
      <4> QED
        BY <4>1
    <3>2. CASE k + 1 \in T
      <4> DEFINE U == T \ {k + 1}
      <4>1. U \in SUBSET (1..k)
        OBVIOUS
      <4>2. PICK s : Enumerates(s, U)
        BY <4>1
      <4>3. IsFiniteSet(U) /\ Cardinality(U) \in Nat
        <5>1. IsFiniteSet(1..k)
          BY FS_Interval
        <5> QED
          BY <4>1, <5>1, FS_Subset, FS_CardinalityType
      <4>4. Cardinality(T) = Cardinality(U) + 1
        <5>1. T = U \cup {k + 1} /\ k + 1 \notin U
          BY <3>2
        <5> QED
          BY <4>3, <5>1, FS_AddElement
      <4> DEFINE m == Cardinality(U)
                 t == [i \in 1..(m + 1) |-> IF i = m + 1 THEN k + 1 ELSE s[i]]
      <4>5. s \in [1..m -> U] /\ (\A x \in U : \E i \in 1..m : s[i] = x) /\ Increasing(s)
        BY <4>2 DEF Enumerates
      <4> HIDE DEF m
      <4>6. m \in Nat /\ Cardinality(T) = m + 1
        BY <4>3, <4>4 DEF m
      <4>7. t \in [1..(m + 1) -> T]
        BY <3>2, <4>5, <4>6
      <4>8. \A x \in T : \E i \in 1..(m + 1) : t[i] = x
        <5> SUFFICES ASSUME NEW x \in T PROVE \E i \in 1..(m + 1) : t[i] = x
          OBVIOUS
        <5>1. CASE x = k + 1
          BY <4>6, <5>1
        <5>2. CASE x # k + 1
          <6>1. PICK i \in 1..m : s[i] = x
            BY <4>5, <5>2
          <6>2. i \in 1..(m + 1) /\ i # m + 1
            BY <4>6
          <6>3. t[i] = x
            BY <6>1, <6>2
          <6> QED
            BY <6>2, <6>3
        <5> QED
          BY <5>1, <5>2
      <4>9. Increasing(t)
        <5> SUFFICES ASSUME NEW i \in 1..(m + 1), NEW j \in 1..(m + 1), i < j
                     PROVE  t[i] < t[j]
          BY DEF Increasing
        <5>0. i \in 1..m /\ i # m + 1
          BY <4>6
        <5>1. i \in 1..m /\ t[i] = s[i] /\ s[i] \in 1..k
          BY <4>1, <4>5, <4>6, <5>0
        <5>2. CASE j = m + 1
          BY <4>6, <5>1, <5>2
        <5>3. CASE j # m + 1
          <6>1. j \in 1..m /\ t[j] = s[j]
            BY <4>6, <5>3
          <6> QED
            BY <4>5, <5>1, <6>1 DEF Increasing
        <5> QED
          BY <5>2, <5>3
      <4> HIDE DEF t
      <4>10. Enumerates(t, T)
        BY <4>6, <4>7, <4>8, <4>9 DEF Enumerates
      <4> QED
        BY <4>10
    <3> QED
      BY <3>1, <3>2
  <2> QED
    BY <2>1
<1> HIDE DEF All
<1>3. Good = Nat
  BY <1>1, <1>2, SetInduction
<1> QED
  BY <1>3 DEF All

LEMMA InOrderEnumerates ==
  ASSUME NEW n \in Nat, NEW S \in SUBSET (1..n)
  PROVE  Enumerates(InOrder(S), S)
<1>1. PICK s : Enumerates(s, S)
  BY Enumerable
<1>2. s \in [1..Cardinality(S) -> S]
  BY <1>1 DEF Enumerates
<1>3. ToSet(s) = S
  BY <1>1, <1>2 DEF Enumerates, ToSet
<1>4. \A i, j \in DOMAIN s : i < j => s[i] < s[j]
  BY <1>1 DEF Enumerates, Increasing
<1>5. /\ InOrder(S) \in [1..Cardinality(S) -> S]
      /\ ToSet(InOrder(S)) = S
      /\ \A i, j \in DOMAIN InOrder(S) : i < j => InOrder(S)[i] < InOrder(S)[j]
  BY <1>2, <1>3, <1>4 DEF InOrder
<1> QED
  BY <1>5 DEF Enumerates, Increasing, ToSet

(* A sequence that has the members of a set, and no others, in their order. *)
Lists(s, S) ==
  /\ s \in Seq(S)
  /\ \A x \in S : \E i \in 1..Len(s) : s[i] = x
  /\ \A i, j \in 1..Len(s) : i < j => s[i] < s[j]

LEMMA InOrderLists ==
  ASSUME NEW n \in Nat, NEW S \in SUBSET (1..n)
  PROVE  Lists(InOrder(S), S)
<1> DEFINE s == InOrder(S)
           m == Cardinality(S)
<1>1. /\ s \in [1..m -> S]
      /\ \A x \in S : \E i \in 1..m : s[i] = x
      /\ \A i, j \in 1..m : i < j => s[i] < s[j]
  BY InOrderEnumerates DEF Enumerates, Increasing
<1>2. m \in Nat
  <2>1. IsFiniteSet(1..n)
    BY FS_Interval
  <2> QED
    BY <2>1, FS_Subset, FS_CardinalityType
<1> HIDE DEF s, m
<1>3. s \in Seq(S) /\ Len(s) = m
  <2>1. s \in Seq(S)
    BY <1>1, <1>2, SeqDef
  <2> QED
    BY <1>1, <1>2, <2>1, LenProperties
<1>4. Lists(s, S)
  BY <1>1, <1>3 DEF Lists
<1> QED
  BY <1>4 DEF s

LEMMA ListFacts ==
  ASSUME NEW S \in SUBSET Nat, NEW s, Lists(s, S)
  PROVE  /\ s \in Seq(S) /\ Len(s) \in Nat
         /\ \A i \in 1..Len(s) : s[i] \in S /\ s[i] \in Nat
         /\ \A x \in S : \E i \in 1..Len(s) : s[i] = x
         /\ \A i, j \in 1..Len(s) : i < j => s[i] < s[j]
         /\ \A i, j \in 1..Len(s) : s[i] < s[j] => i < j
<1>1. s \in Seq(S) /\ Len(s) \in Nat /\ \A i \in 1..Len(s) : s[i] \in S
  BY LenProperties, ElementOfSeq DEF Lists
<1>0. \A i \in 1..Len(s) : s[i] \in Nat
  BY <1>1
<1>2. \A i, j \in 1..Len(s) : i < j => s[i] < s[j]
  BY DEF Lists
<1>3. ASSUME NEW i \in 1..Len(s), NEW j \in 1..Len(s), s[i] < s[j] PROVE i < j
  <2>1. s[i] \in Nat /\ s[j] \in Nat
    BY <1>0
  <2>2. i # j
    BY <1>3, <2>1
  <2>3. ~ (j < i)
    BY <1>2, <1>3, <2>1
  <2> QED
    BY <1>1, <2>2, <2>3
<1> QED
  BY <1>0, <1>1, <1>2, <1>3 DEF Lists

(* There is one such sequence: as far as both go, they agree, because the    *)
(* smaller of two different members would be missing in the other.         *)
LEMMA ListsAgree ==
  ASSUME NEW S \in SUBSET Nat, NEW s, NEW t, Lists(s, S), Lists(t, S)
  PROVE  \A i \in 1..Len(s) : i \in 1..Len(t) => s[i] = t[i]
<1> DEFINE Same(k) == \A i \in 1..Len(s) : i \in 1..Len(t) /\ i <= k => s[i] = t[i]
           Good == {k \in Nat : Same(k)}
<1>0. Len(s) \in Nat /\ Len(t) \in Nat
  BY ListFacts
<1>1. 0 \in Good
  BY <1>0
<1>2. ASSUME NEW k \in Good PROVE k + 1 \in Good
  <2>1. k \in Nat /\ Same(k)
    OBVIOUS
  <2>2. ASSUME k + 1 \in 1..Len(s), k + 1 \in 1..Len(t), s[k + 1] < t[k + 1] PROVE FALSE
    <3>0. s[k + 1] \in S
      BY <2>2, ListFacts
    <3>1. PICK j \in 1..Len(t) : t[j] = s[k + 1]
      BY <3>0 DEF Lists
    <3>2. j < k + 1
      BY <2>2, <3>1, ListFacts
    <3>3. j \in 1..Len(s) /\ j <= k
      BY <1>0, <2>1, <2>2, <3>2
    <3>4. s[j] = s[k + 1] /\ s[j] < s[k + 1] /\ s[j] \in Nat
      BY <2>1, <2>2, <3>1, <3>2, <3>3, ListFacts
    <3> QED
      BY <3>4
  <2>3. ASSUME k + 1 \in 1..Len(s), k + 1 \in 1..Len(t), t[k + 1] < s[k + 1] PROVE FALSE
    <3>0. t[k + 1] \in S
      BY <2>3, ListFacts
    <3>1. PICK j \in 1..Len(s) : s[j] = t[k + 1]
      BY <3>0 DEF Lists
    <3>2. j < k + 1
      BY <2>3, <3>1, ListFacts
    <3>3. j \in 1..Len(t) /\ j <= k
      BY <1>0, <2>1, <2>3, <3>2
    <3>4. t[j] = t[k + 1] /\ t[j] < t[k + 1] /\ t[j] \in Nat
      BY <2>1, <2>3, <3>1, <3>2, <3>3, ListFacts
    <3> QED
      BY <3>4
  <2>4. k + 1 \in 1..Len(s) /\ k + 1 \in 1..Len(t) => s[k + 1] = t[k + 1]
    <3> SUFFICES ASSUME k + 1 \in 1..Len(s), k + 1 \in 1..Len(t)
                 PROVE  s[k + 1] = t[k + 1]
      OBVIOUS
    <3>1. s[k + 1] \in Nat /\ t[k + 1] \in Nat
      BY ListFacts
    <3> QED
      BY <2>2, <2>3, <3>1
  <2>5. ASSUME NEW i \in 1..Len(s), i \in 1..Len(t), i <= k + 1 PROVE s[i] = t[i]
    <3>1. i <= k \/ i = k + 1
      BY <2>1, <2>5
    <3> QED
      BY <2>1, <2>4, <2>5, <3>1
  <2>6. Same(k + 1)
    BY <2>5
  <2> QED
    BY <2>1, <2>6
<1> HIDE DEF Same
<1>3. Good = Nat
  BY <1>1, <1>2, SetInduction
<1>4. Same(Len(s))
  BY <1>0, <1>3
<1> QED
  BY <1>0, <1>4 DEF Same

(* The one that ends before the other would lack a member.                  *)
LEMMA ListsAsLong ==
  ASSUME NEW S \in SUBSET Nat, NEW s, NEW t, Lists(s, S), Lists(t, S)
  PROVE  Len(t) <= Len(s)
<1>0. Len(s) \in Nat /\ Len(t) \in Nat
  BY ListFacts
<1> SUFFICES ASSUME Len(s) + 1 \in 1..Len(t) PROVE FALSE
  BY <1>0
<1> DEFINE x == t[Len(s) + 1]
<1>5. x \in S
  BY ListFacts
<1> HIDE DEF x
<1>1. PICK j \in 1..Len(s) : s[j] = x
  BY <1>5 DEF Lists
<1>2. j \in 1..Len(t) /\ j < Len(s) + 1
  BY <1>0
<1>3. s[j] = t[j]
  BY <1>2, ListsAgree
<1>4. t[j] < t[Len(s) + 1] /\ t[j] \in Nat
  BY <1>2, ListFacts
<1> QED
  BY <1>1, <1>3, <1>4 DEF x

LEMMA ListUnique ==
  ASSUME NEW S \in SUBSET Nat, NEW s, NEW t, Lists(s, S), Lists(t, S)
  PROVE  s = t
<1>1. s \in Seq(S) /\ t \in Seq(S)
  BY DEF Lists
<1>2. Len(s) = Len(t)
  BY ListsAsLong, ListFacts
<1>3. \A i \in 1..Len(s) : s[i] = t[i]
  BY <1>2, ListsAgree
<1> QED
  BY <1>1, <1>2, <1>3, SeqEqual

(* The members after the k-th of a list, and the list with one more.         *)
LEMMA LaterListed ==
  ASSUME NEW S \in SUBSET Nat, NEW s, Lists(s, S), NEW k \in 1..Len(s)
  PROVE  Lists(SubSeq(s, k + 1, Len(s)), {x \in S : x > s[k]})
<1> DEFINE T == {x \in S : x > s[k]}
           t == SubSeq(s, k + 1, Len(s))
<1>0. s \in Seq(S) /\ Len(s) \in Nat /\ k \in Nat
  BY DEF Lists
<1>1. /\ t \in Seq(S) /\ Len(t) = Len(s) - k
      /\ \A i \in 1..Len(t) : t[i] = s[k + i]
  BY <1>0
<1> HIDE DEF t
<1>2. \A i \in 1..Len(t) : k + i \in 1..Len(s) /\ k < k + i
  BY <1>0, <1>1
<1>3. \A i \in 1..Len(t) : t[i] \in T
  BY <1>0, <1>1, <1>2 DEF Lists
<1>4. t \in Seq(T)
  BY <1>1, <1>3
<1>5. ASSUME NEW x \in T PROVE \E i \in 1..Len(t) : t[i] = x
  <2>1. PICK j \in 1..Len(s) : s[j] = x
    BY DEF Lists
  <2>2. j > k
    BY <2>1, ListFacts
  <2>3. j - k \in 1..Len(t) /\ k + (j - k) = j
    BY <1>0, <1>1, <2>2
  <2> QED
    BY <1>1, <2>1, <2>3
<1>6. \A i, j \in 1..Len(t) : i < j => t[i] < t[j]
  BY <1>0, <1>1, <1>2 DEF Lists
<1>7. Lists(t, T)
  BY <1>4, <1>5, <1>6 DEF Lists
<1> QED
  BY <1>7 DEF t

LEMMA OneMoreListed ==
  ASSUME NEW n \in Nat, NEW S \in SUBSET (1..n), NEW s, Lists(s, S)
  PROVE  Lists(Append(s, n + 1), S \cup {n + 1})
<1> DEFINE T == S \cup {n + 1}
           t == Append(s, n + 1)
<1>0. s \in Seq(S) /\ Len(s) \in Nat
  BY DEF Lists
<1>1. s \in Seq(T) /\ n + 1 \in T
  BY <1>0, SeqMonotonic
<1>2. /\ t \in Seq(T) /\ Len(t) = Len(s) + 1 /\ t[Len(s) + 1] = n + 1
      /\ \A i \in 1..Len(s) : t[i] = s[i] /\ s[i] \in 1..n
  <2>1. t \in Seq(T) /\ Len(t) = Len(s) + 1 /\ t[Len(s) + 1] = n + 1
    BY <1>1, AppendProperties
  <2>2. \A i \in 1..Len(s) : t[i] = s[i]
    BY <1>1, AppendProperties
  <2>3. \A i \in 1..Len(s) : s[i] \in S
    BY <1>0, ElementOfSeq
  <2> QED
    BY <2>1, <2>2, <2>3
<1> HIDE DEF t
<1>3. \A i \in 1..Len(t) : i \in 1..Len(s) \/ i = Len(s) + 1
  BY <1>0, <1>2
<1>4. ASSUME NEW x \in T PROVE \E i \in 1..Len(t) : t[i] = x
  <2>1. CASE x = n + 1
    BY <1>0, <1>2, <2>1
  <2>2. CASE x \in S
    <3>1. PICK j \in 1..Len(s) : s[j] = x
      BY <2>2 DEF Lists
    <3> QED
      BY <1>0, <1>2, <3>1
  <2> QED
    BY <2>1, <2>2
<1>5. ASSUME NEW i \in 1..Len(t), NEW j \in 1..Len(t), i < j PROVE t[i] < t[j]
  <2>1. i \in 1..Len(s)
    BY <1>0, <1>2, <1>5
  <2>2. CASE j \in 1..Len(s)
    BY <1>2, <1>5, <2>1, <2>2 DEF Lists
  <2>3. CASE j = Len(s) + 1
    BY <1>2, <2>1, <2>3
  <2> QED
    BY <1>3, <2>2, <2>3
<1>6. Lists(t, T)
  BY <1>2, <1>4, <1>5 DEF Lists
<1> QED
  BY <1>6 DEF t

-----------------------------------------------------------------------------
(* The events of the watched run so far, and its k-th, or 0 before the first. *)
Ours    == {i \in 1..Len(events) : events[i] = Watched}
History == After(Watched, 0)
Reached(k) == IF k = 0 THEN 0 ELSE History[k]

EventsType == events \in Seq(Runs) /\ Len(events) <= MaxEvents

LEMMA HistoryListed ==
  EventsType => /\ Lists(History, Ours) /\ Ours \in SUBSET Nat /\ Ours \in SUBSET Ids
                /\ History \in Seq(Ids) /\ Len(History) \in Nat
<1> SUFFICES ASSUME EventsType
             PROVE  /\ Lists(History, Ours) /\ Ours \in SUBSET Nat /\ Ours \in SUBSET Ids
                    /\ History \in Seq(Ids) /\ Len(History) \in Nat
  OBVIOUS
<1> USE StreamAssumption
<1>1. Len(events) \in Nat
  BY LenProperties DEF EventsType
<1>2. Ours \in SUBSET (1..Len(events)) /\ Ours \in SUBSET Nat /\ Ours \in SUBSET Ids
  BY <1>1 DEF Ours, Ids, EventsType
<1>3. {i \in 1..Len(events) : i > 0 /\ events[i] = Watched} = Ours
  BY <1>1 DEF Ours
<1>4. Lists(History, Ours)
  BY <1>1, <1>2, <1>3, InOrderLists DEF History, After
<1>5. History \in Seq(Ids)
  BY <1>2, <1>4, SeqMonotonic DEF Lists
<1>6. Len(History) \in Nat
  BY <1>5, LenProperties
<1> QED
  BY <1>2, <1>4, <1>5, <1>6

(* A query from the k-th event on finds those that follow it.                *)
LEMMA LaterIsRest ==
  ASSUME EventsType, NEW k \in 0..Len(History)
  PROVE  After(Watched, Reached(k)) = SubSeq(History, k + 1, Len(History))
<1>1. CASE k = 0
  <2>1. After(Watched, Reached(k)) = History
    BY <1>1 DEF Reached, History
  <2> QED
    BY <1>1, <2>1, HistoryListed, SubSeqFull
<1>2. CASE k # 0
  <2>1. k \in 1..Len(History) /\ Reached(k) = History[k]
    BY <1>2 DEF Reached
  <2> DEFINE T == {x \in Ours : x > History[k]}
  <2>2. Len(events) \in Nat
    BY LenProperties DEF EventsType
  <2>3. T = {i \in 1..Len(events) : i > History[k] /\ events[i] = Watched}
    BY DEF Ours
  <2>4. T \in SUBSET (1..Len(events)) /\ T \in SUBSET Nat
    BY <2>2 DEF Ours
  <2>5. Lists(SubSeq(History, k + 1, Len(History)), T)
    BY <2>1, HistoryListed, LaterListed
  <2> HIDE DEF T
  <2>6. After(Watched, Reached(k)) = InOrder(T)
    BY <2>1, <2>3 DEF After
  <2>7. Lists(InOrder(T), T)
    BY <2>2, <2>4, InOrderLists
  <2> QED
    BY <2>4, <2>5, <2>6, <2>7, ListUnique
<1> QED
  BY <1>1, <1>2

(* An event of the run is one more at the end, one of another run none.      *)
LEMMA HistoryGrows ==
  ASSUME EventsType, NEW run \in Runs, AppendEvent(run)
  PROVE  /\ EventsType'
         /\ History' = IF run = Watched THEN Append(History, Len(events) + 1) ELSE History
         /\ Len(events) + 1 \in Ids
<1> DEFINE n == Len(events)
<1>1. n \in Nat /\ events \in Seq(Runs)
  BY LenProperties DEF EventsType
<1>2. /\ events' \in Seq(Runs) /\ Len(events') = n + 1 /\ events'[n + 1] = run
      /\ \A i \in 1..n : events'[i] = events[i]
  BY <1>1, AppendProperties DEF AppendEvent
<1>3. EventsType' /\ n + 1 \in Ids
  BY <1>1, <1>2, StreamAssumption DEF AppendEvent, EventsType, Ids
<1> HIDE DEF n
<1>4. Ours' = IF run = Watched THEN Ours \cup {n + 1} ELSE Ours
  <2>1. \A i : i \in 1..(n + 1) <=> i \in 1..n \/ i = n + 1
    BY <1>1
  <2>2. \A i : i \in Ours' <=> i \in 1..(n + 1) /\ events'[i] = Watched
    BY <1>2 DEF Ours
  <2>3. \A i : i \in Ours <=> i \in 1..n /\ events[i] = Watched
    BY DEF Ours, n
  <2>4. n + 1 \notin 1..n
    BY <1>1
  <2>5. \A i : i \in Ours' <=> i \in Ours \/ (i = n + 1 /\ run = Watched)
    BY <1>2, <2>1, <2>2, <2>3, <2>4
  <2> QED
    BY <2>5
<1>5. Lists(History, Ours) /\ Ours \in SUBSET Nat /\ Ours \in SUBSET (1..n)
  BY HistoryListed DEF Ours, n
<1>6. (Lists(History, Ours) /\ Ours \in SUBSET Nat)'
  BY <1>3, HistoryListed, PTL
<1>7. CASE run = Watched
  <2>1. Lists(Append(History, n + 1), Ours')
    BY <1>1, <1>4, <1>5, <1>7, OneMoreListed
  <2> QED
    BY <1>3, <1>6, <1>7, <2>1, ListUnique DEF n
<1>8. CASE run # Watched
  BY <1>3, <1>4, <1>5, <1>6, <1>8, ListUnique DEF n
<1> QED
  BY <1>7, <1>8

(* What the desktop has applied, what is on the wire and what was fetched    *)
(* follow each other in the history, without a gap and without a repetition; *)
(* the cursor of an open socket is at the last event that was sent.        *)
Follows(s, k) ==
  k + Len(s) <= Len(History) /\ \A i \in 1..Len(s) : s[i] = History[k + i]

StreamInv ==
  /\ EventsType
  /\ store \subseteq Tickets /\ socket \in Sockets /\ drops \in 0..MaxDrops
  /\ cursor \in {0} \cup Ids
  /\ applied \in Seq(Ids) /\ wire \in Seq(Ids) /\ page \in Seq(Ids)
  /\ Follows(applied, 0) /\ Follows(wire, Len(applied))
  /\ Follows(page, Len(applied) + Len(wire))
  /\ ~socket.open => wire = <<>> /\ page = <<>>
  /\ socket.open => cursor = Reached(Len(applied) + Len(wire))

(* The lengths and the members that the steps below speak of.               *)
LEMMA StreamFacts ==
  ASSUME StreamInv
  PROVE  /\ Len(applied) \in Nat /\ Len(wire) \in Nat /\ Len(page) \in Nat
         /\ Len(History) \in Nat /\ History \in Seq(Ids) /\ Ids \subseteq Nat
         /\ \A i \in 1..Len(History) : History[i] \in Ids
         /\ \A i, j \in 1..Len(History) : i < j => History[i] < History[j]
<1>1. applied \in Seq(Ids) /\ wire \in Seq(Ids) /\ page \in Seq(Ids) /\ EventsType
  BY DEF StreamInv
<1>2. Lists(History, Ours) /\ Ours \in SUBSET Nat /\ History \in Seq(Ids)
  BY <1>1, HistoryListed
<1>3. Ids \subseteq Nat
  BY StreamAssumption DEF Ids
<1> QED
  BY <1>1, <1>2, <1>3, LenProperties, ElementOfSeq DEF Lists

LEMMA LastApplied ==
  ASSUME StreamInv
  PROVE  LastEventId = Reached(Len(applied))
<1>0. applied \in Seq(Ids) /\ Len(applied) \in Nat /\ Follows(applied, 0)
  BY StreamFacts DEF StreamInv
<1>1. CASE applied = <<>>
  BY <1>1 DEF LastEventId, Reached
<1>2. CASE applied # <<>>
  <2>1. Len(applied) # 0 /\ Len(applied) \in 1..Len(applied)
    BY <1>0, <1>2, EmptySeq
  <2>2. applied[Len(applied)] = History[Len(applied)]
    BY <1>0, <2>1 DEF Follows
  <2> QED
    BY <1>2, <2>1, <2>2 DEF LastEventId, Last, Reached
<1> QED
  BY <1>1, <1>2

(* What is received is the next event, and newer than those before.          *)
LEMMA NextApplied ==
  ASSUME StreamInv, Receive
  PROVE  /\ wire # <<>> /\ Head(wire) = wire[1] /\ Len(wire) >= 1
         /\ Len(applied) < Len(History)
         /\ Head(wire) = History[Len(applied) + 1]
         /\ applied' = Append(applied, History[Len(applied) + 1])
<1>0. wire # <<>> /\ wire \in Seq(Ids)
  BY DEF Receive, StreamInv
<1>1. Len(wire) \in Nat /\ Len(wire) >= 1 /\ Head(wire) = wire[1]
  BY <1>0, EmptySeq, HeadTailProperties
<1>2. Len(applied) + 1 \in 1..Len(History) /\ wire[1] = History[Len(applied) + 1]
  <2>1. /\ Len(applied) + Len(wire) <= Len(History)
        /\ \A i \in 1..Len(wire) : wire[i] = History[Len(applied) + i]
    BY DEF StreamInv, Follows
  <2>2. 1 \in 1..Len(wire) /\ Len(applied) \in Nat /\ Len(History) \in Nat
    BY <1>1, StreamFacts
  <2> QED
    BY <1>1, <2>1, <2>2
<1>3. Newer(Head(wire))
  <2>1. CASE Len(applied) = 0
    BY <1>1, <1>2, <2>1, StreamFacts, LastApplied DEF Newer, Reached, Ids
  <2>2. CASE Len(applied) # 0
    <3>1. Len(applied) \in 1..Len(History) /\ Len(applied) < Len(applied) + 1
      BY <1>2, <2>2, StreamFacts
    <3>2. History[Len(applied)] < History[Len(applied) + 1]
      BY <1>2, <3>1, StreamFacts
    <3>3. /\ History[Len(applied)] \in Nat /\ History[Len(applied) + 1] \in Nat
          /\ LastEventId = History[Len(applied)]
      BY <1>2, <2>2, <3>1, StreamFacts, LastApplied DEF Reached
    <3> QED
      BY <1>1, <1>2, <3>2, <3>3 DEF Newer
  <2> QED
    BY <2>1, <2>2
<1> QED
  BY <1>0, <1>1, <1>2, <1>3, StreamFacts DEF Receive

LEMMA EventAppended ==
  ASSUME StreamInv, NEW run \in Runs, AppendEvent(run)
  PROVE  StreamInv'
<1>1. /\ UNCHANGED <<store, socket, cursor, page, wire, applied, drops>>
      /\ EventsType
  BY DEF AppendEvent, ticketVars, StreamInv
<1>2. /\ EventsType'
      /\ History' = IF run = Watched THEN Append(History, Len(events) + 1) ELSE History
      /\ Len(events) + 1 \in Ids
  BY <1>1, HistoryGrows
<1>3. Len(History) <= Len(History') /\ \A i \in 1..Len(History) : History'[i] = History[i]
  <2>1. History \in Seq(Ids) /\ Len(History) \in Nat
    BY StreamFacts
  <2> QED
    BY <1>2, <2>1, AppendProperties
<1>4. Len(History) \in Nat /\ Len(History') \in Nat
  <2>1. Len(History) \in Nat
    BY <1>1, HistoryListed
  <2>2. (Len(History) \in Nat)'
    BY <1>2, HistoryListed, PTL
  <2> QED
    BY <2>1, <2>2
<1>5. ASSUME NEW s \in Seq(Ids), NEW k \in Nat, Follows(s, k)
      PROVE  k + Len(s) <= Len(History') /\ \A i \in 1..Len(s) : s[i] = History'[k + i]
  BY <1>3, <1>4, <1>5, LenProperties DEF Follows
<1>6. /\ Follows(applied, 0) /\ Follows(wire, Len(applied))
      /\ Follows(page, Len(applied) + Len(wire))
      /\ Len(applied) \in Nat /\ Len(wire) \in Nat /\ Len(applied) + Len(wire) \in Nat
      /\ applied \in Seq(Ids) /\ wire \in Seq(Ids) /\ page \in Seq(Ids)
  BY StreamFacts DEF StreamInv
<1>7. Follows(applied, 0)' /\ Follows(wire, Len(applied))'
  <2>1. /\ 0 + Len(applied) <= Len(History')
        /\ \A i \in 1..Len(applied) : applied[i] = History'[0 + i]
    BY <1>5, <1>6
  <2>2. /\ Len(applied) + Len(wire) <= Len(History')
        /\ \A i \in 1..Len(wire) : wire[i] = History'[Len(applied) + i]
    BY <1>5, <1>6
  <2> QED
    BY <1>1, <2>1, <2>2 DEF Follows
<1>8. Follows(page, Len(applied) + Len(wire))'
  <2>1. /\ Len(applied) + Len(wire) + Len(page) <= Len(History')
        /\ \A i \in 1..Len(page) : page[i] = History'[Len(applied) + Len(wire) + i]
    BY <1>5, <1>6
  <2> QED
    BY <1>1, <2>1 DEF Follows
<1>9. Reached(Len(applied) + Len(wire))' = Reached(Len(applied) + Len(wire))
  BY <1>1, <1>3, <1>4, <1>6 DEF Reached, Follows
<1> QED
  BY <1>1, <1>2, <1>7, <1>8, <1>9 DEF StreamInv

(* The steps that leave the events alone.                                   *)
LEMMA HistoryStays == events' = events => History' = History /\ (EventsType => EventsType')
  BY DEF History, After, EventsType

LEMMA StreamStarted ==
  ASSUME StreamInv, NEW t \in Tickets, Connect(t)
  PROVE  StreamInv'
<1>1. /\ ~socket.open /\ store' \subseteq Tickets
      /\ UNCHANGED <<events, page, wire, applied, drops>>
  BY DEF Connect, Consume, StreamInv
<1>2. page = <<>> /\ wire = <<>> /\ Len(wire) = 0
  BY <1>1 DEF StreamInv
<1>3. History' = History /\ EventsType'
  BY <1>1, HistoryStays DEF StreamInv
<1>4. LastEventId = Reached(Len(applied)) /\ Len(applied) + Len(wire) = Len(applied)
  BY <1>2, LastApplied, StreamFacts
<1>5. LastEventId \in {0} \cup Ids
  <2>1. Len(applied) # 0 => Len(applied) \in 1..Len(History)
    BY StreamFacts DEF StreamInv, Follows
  <2> QED
    BY <1>4, <2>1, StreamFacts DEF Reached
<1>6. /\ socket' \in Sockets /\ cursor' \in {0} \cup Ids
      /\ socket'.open => cursor' = Reached(Len(applied) + Len(wire))
  <2>1. CASE Opens(t, Watched)
    <3>1. socket' = [open |-> TRUE, ticket |-> NoTicket] /\ cursor' = LastEventId
      BY <2>1 DEF Connect
    <3> QED
      BY <1>4, <1>5, <3>1 DEF Sockets
  <2>2. CASE ~Opens(t, Watched)
    <3>1. socket' = [open |-> FALSE, ticket |-> NoTicket] /\ cursor' = cursor
      BY <2>2 DEF Connect, Shut
    <3>2. cursor \in {0} \cup Ids
      BY DEF StreamInv
    <3> QED
      BY <3>1, <3>2 DEF Sockets
  <2> QED
    BY <2>1, <2>2
<1> QED
  BY <1>1, <1>2, <1>3, <1>6 DEF StreamInv, Follows, Reached

LEMMA PageFetched ==
  ASSUME StreamInv, FetchPage
  PROVE  StreamInv'
<1> DEFINE k == Len(applied) + Len(wire)
           rest == After(Watched, cursor)
           m == IF Len(rest) < PageSize THEN Len(rest) ELSE PageSize
<1>1. /\ socket.open /\ page' = SubSeq(rest, 1, m)
      /\ UNCHANGED <<events, ticketVars, socket, cursor, wire, applied, drops>>
  BY DEF FetchPage, FirstOf
<1>2. History' = History /\ EventsType'
  BY <1>1, HistoryStays DEF StreamInv
<1>3. k \in 0..Len(History) /\ cursor = Reached(k) /\ EventsType
  BY <1>1, StreamFacts DEF StreamInv, Follows
<1>4. rest = SubSeq(History, k + 1, Len(History))
  BY <1>3, LaterIsRest
<1>5. Len(History) \in Nat /\ History \in Seq(Ids)
  BY StreamFacts
<1> HIDE DEF k
<1>6. /\ rest \in Seq(Ids) /\ Len(rest) = Len(History) - k
      /\ \A i \in 1..Len(rest) : rest[i] = History[k + i]
  BY <1>3, <1>4, <1>5
<1> HIDE DEF rest
<1>7. m \in Nat /\ m <= Len(rest)
  BY <1>3, <1>5, <1>6, StreamAssumption
<1> HIDE DEF m
<1>8. /\ page' \in Seq(Ids) /\ Len(page') = m
      /\ \A i \in 1..m : page'[i] = rest[i]
  BY <1>1, <1>3, <1>5, <1>6, <1>7
<1>9. k + Len(page') <= Len(History) /\ \A i \in 1..Len(page') : page'[i] = History[k + i]
  <2>1. k + m <= Len(History) /\ \A i \in 1..m : i \in 1..Len(rest)
    BY <1>3, <1>5, <1>6, <1>7
  <2> QED
    BY <1>6, <1>8, <2>1
<1>10. Follows(page, Len(applied) + Len(wire))'
  BY <1>1, <1>2, <1>9 DEF Follows, k
<1> QED
  BY <1>1, <1>2, <1>8, <1>10 DEF StreamInv, Follows, Reached, ticketVars

LEMMA EventSent ==
  ASSUME StreamInv, SendEvent
  PROVE  StreamInv'
<1> DEFINE a == Len(applied)
           w == Len(wire)
<1>1. /\ socket.open /\ page # <<>> /\ page \in Seq(Ids) /\ wire \in Seq(Ids)
      /\ wire' = Append(wire, Head(page)) /\ cursor' = Head(page) /\ page' = Tail(page)
      /\ UNCHANGED <<events, ticketVars, socket, applied, drops>>
  BY DEF SendEvent, Advance, StreamInv
<1>2. History' = History /\ EventsType'
  BY <1>1, HistoryStays DEF StreamInv
<1>3. a \in Nat /\ w \in Nat /\ Len(page) \in Nat /\ Len(History) \in Nat
  BY StreamFacts
<1>4. Len(page) >= 1 /\ Head(page) = page[1] /\ page[1] \in Ids
  BY <1>1, <1>3, EmptySeq, HeadTailProperties
<1>5. /\ page' \in Seq(Ids) /\ Len(page') = Len(page) - 1
      /\ \A i \in 1..Len(page') : page'[i] = page[i + 1]
  BY <1>1, HeadTailProperties
<1>6. /\ wire' \in Seq(Ids) /\ Len(wire') = w + 1 /\ wire'[w + 1] = page[1]
      /\ \A i \in 1..w : wire'[i] = wire[i]
  BY <1>1, <1>4, AppendProperties
<1>7. /\ a + w + Len(page) <= Len(History)
      /\ \A i \in 1..Len(page) : page[i] = History[a + w + i]
      /\ \A i \in 1..w : wire[i] = History[a + i]
  BY DEF StreamInv, Follows
<1> HIDE DEF a, w
<1>8. a + Len(wire') <= Len(History) /\ \A i \in 1..Len(wire') : wire'[i] = History[a + i]
  <2>1. 1 \in 1..Len(page) /\ a + w + 1 <= Len(History)
    BY <1>3, <1>4, <1>7
  <2>2. wire'[w + 1] = History[a + (w + 1)]
    <3>1. page[1] = History[a + w + 1]
      BY <1>7, <2>1
    <3>2. a + w + 1 = a + (w + 1)
      BY <1>3
    <3> QED
      BY <1>6, <3>1, <3>2
  <2>3. ASSUME NEW i \in 1..Len(wire') PROVE wire'[i] = History[a + i]
    <3>1. i \in 1..w \/ i = w + 1
      BY <1>3, <1>6
    <3> QED
      BY <1>6, <1>7, <2>2, <3>1
  <2>4. a + Len(wire') <= Len(History)
    BY <1>3, <1>6, <2>1
  <2> QED
    BY <2>3, <2>4
<1>9. /\ a + Len(wire') + Len(page') <= Len(History)
      /\ \A i \in 1..Len(page') : page'[i] = History[a + Len(wire') + i]
  <2>1. a + Len(wire') + Len(page') = a + w + Len(page)
    BY <1>3, <1>5, <1>6
  <2>2. ASSUME NEW i \in 1..Len(page') PROVE page'[i] = History[a + Len(wire') + i]
    <3>1. Len(page') = Len(page) - 1 /\ i \in Nat /\ i >= 1 /\ i <= Len(page')
      BY <1>3, <1>5
    <3>2. i + 1 \in 1..Len(page)
      BY <1>3, <3>1
    <3>3. Len(wire') = w + 1
      BY <1>6
    <3>4. a + w + (i + 1) = a + Len(wire') + i
      BY <1>3, <3>1, <3>3
    <3> QED
      BY <1>5, <1>7, <3>2, <3>4
  <2> QED
    BY <1>7, <2>1, <2>2
<1>10. cursor' = History[a + Len(wire')] /\ a + Len(wire') # 0 /\ cursor' \in Ids
  <2>1. Len(wire') = w + 1 /\ w + 1 \in 1..Len(wire') /\ a + (w + 1) # 0
    BY <1>3, <1>6
  <2>2. cursor' = wire'[w + 1] /\ cursor' \in Ids
    BY <1>1, <1>4, <1>6
  <2> QED
    BY <1>8, <2>1, <2>2
<1>11. a' = a
  BY <1>1 DEF a
<1>12. Follows(wire, Len(applied))' /\ Follows(page, Len(applied) + Len(wire))'
  BY <1>2, <1>8, <1>9, <1>11 DEF Follows, a
<1>13. (cursor = Reached(Len(applied) + Len(wire)))'
  BY <1>2, <1>10, <1>11 DEF Reached, a
<1> QED
  BY <1>1, <1>2, <1>5, <1>6, <1>10, <1>12, <1>13 DEF StreamInv, Follows, ticketVars

LEMMA EventReceived ==
  ASSUME StreamInv, Receive
  PROVE  StreamInv'
<1> DEFINE a == Len(applied)
           w == Len(wire)
<1>1. /\ wire' = Tail(wire) /\ wire # <<>> /\ wire \in Seq(Ids) /\ applied \in Seq(Ids)
      /\ UNCHANGED <<events, ticketVars, socket, cursor, page, drops>>
  BY DEF Receive, StreamInv
<1>2. History' = History /\ EventsType'
  BY <1>1, HistoryStays DEF StreamInv
<1>3. a \in Nat /\ w \in Nat /\ Len(page) \in Nat /\ Len(History) \in Nat
  BY StreamFacts
<1>4. /\ w >= 1 /\ a < Len(History)
      /\ applied' = Append(applied, History[a + 1])
  BY NextApplied
<1>5. a + 1 \in 1..Len(History) /\ History[a + 1] \in Ids
  BY <1>3, <1>4, StreamFacts
<1>6. /\ wire' \in Seq(Ids) /\ Len(wire') = w - 1
      /\ \A i \in 1..Len(wire') : wire'[i] = wire[i + 1]
  BY <1>1, HeadTailProperties
<1>7. /\ applied' \in Seq(Ids) /\ Len(applied') = a + 1 /\ applied'[a + 1] = History[a + 1]
      /\ \A i \in 1..a : applied'[i] = applied[i]
  BY <1>1, <1>4, <1>5, AppendProperties
<1>8. /\ a + w + Len(page) <= Len(History)
      /\ \A i \in 1..Len(page) : page[i] = History[a + w + i]
      /\ \A i \in 1..w : wire[i] = History[a + i]
      /\ \A i \in 1..a : applied[i] = History[0 + i]
  BY DEF StreamInv, Follows
<1> HIDE DEF a, w
<1>9. /\ Len(applied') + Len(wire') = a + w
      /\ 0 + Len(applied') <= Len(History)
      /\ \A i \in 1..Len(applied') : applied'[i] = History[0 + i]
  BY <1>3, <1>4, <1>5, <1>6, <1>7, <1>8
<1>10. /\ Len(applied') + Len(wire') <= Len(History)
       /\ \A i \in 1..Len(wire') : wire'[i] = History[Len(applied') + i]
  <2>1. ASSUME NEW i \in 1..Len(wire') PROVE wire'[i] = History[Len(applied') + i]
    <3>1. i + 1 \in 1..w /\ a + (i + 1) = Len(applied') + i
      BY <1>3, <1>6, <1>7
    <3> QED
      BY <1>6, <1>8, <3>1
  <2>2. Len(applied') + Len(wire') <= Len(History)
    BY <1>3, <1>8, <1>9
  <2> QED
    BY <2>1, <2>2
<1>11. Follows(applied, 0)' /\ Follows(wire, Len(applied))'
  BY <1>2, <1>9, <1>10 DEF Follows
<1>12. Follows(page, Len(applied) + Len(wire))'
  BY <1>1, <1>2, <1>8, <1>9 DEF Follows
<1>13. socket'.open => cursor' = Reached(Len(applied) + Len(wire))'
  BY <1>1, <1>2, <1>9 DEF StreamInv, Reached, a, w
<1>14. ~socket'.open => wire' = <<>> /\ page' = <<>>
  BY <1>1 DEF StreamInv
<1> QED
  BY <1>1, <1>2, <1>6, <1>7, <1>11, <1>12, <1>13, <1>14 DEF StreamInv, ticketVars

LEMMA StreamRests ==
  ASSUME StreamInv, UNCHANGED <<events, socket, cursor, page, wire, applied, drops>>,
         store' \subseteq Tickets
  PROVE  StreamInv'
<1>1. History' = History /\ EventsType'
  BY HistoryStays DEF StreamInv
<1> QED
  BY <1>1 DEF StreamInv, Follows, Reached

LEMMA StreamCut ==
  ASSUME StreamInv, socket' \in Sockets, ~socket'.open, page' = <<>>, wire' = <<>>,
         UNCHANGED <<events, cursor, applied>>, drops' \in 0..MaxDrops,
         store' \subseteq Tickets
  PROVE  StreamInv'
<1>1. History' = History /\ EventsType'
  BY HistoryStays DEF StreamInv
<1>2. Len(applied) <= Len(History) /\ Len(applied) \in Nat /\ Len(History) \in Nat
  BY StreamFacts DEF StreamInv, Follows
<1>3. Follows(<<>>, Len(applied)) /\ Follows(<<>>, Len(applied) + Len(<<>>))
  BY <1>2 DEF Follows
<1>4. (Follows(applied, 0) /\ Follows(wire, Len(applied)))'
  BY <1>1, <1>3 DEF StreamInv, Follows
<1>5. Follows(page, Len(applied) + Len(wire))'
  BY <1>1, <1>3 DEF Follows
<1>6. wire' \in Seq(Ids) /\ page' \in Seq(Ids)
  BY EmptySeq
<1> QED
  BY <1>1, <1>4, <1>5, <1>6 DEF StreamInv

(* A view that is closed has applied nothing and has nothing under way.       *)
LEMMA StreamStartsOver ==
  ASSUME StreamInv, CloseView, UNCHANGED <<events, ticketVars, cursor>>,
         drops' \in 0..MaxDrops
  PROVE  StreamInv'
<1>1. History' = History /\ EventsType'
  BY HistoryStays DEF StreamInv
<1>2. Len(History) \in Nat /\ <<>> \in Seq(Ids) /\ Len(<<>>) = 0
  BY StreamFacts, EmptySeq
<1>3. Follows(<<>>, 0)
  BY <1>2 DEF Follows
<1>4. page' = <<>> /\ wire' = <<>> /\ applied' = <<>> /\ socket' = Shut
  BY DEF CloseView
<1>5. (Follows(applied, 0) /\ Follows(wire, Len(applied)))'
  BY <1>1, <1>2, <1>3, <1>4 DEF Follows
<1>6. Follows(page, Len(applied) + Len(wire))'
  BY <1>1, <1>2, <1>3, <1>4 DEF Follows
<1>7. socket' \in Sockets /\ ~socket'.open
  BY <1>4 DEF Sockets, Shut
<1> QED
  BY <1>1, <1>2, <1>4, <1>5, <1>6, <1>7 DEF StreamInv, ticketVars

LEMMA StreamKeeps == StreamInv /\ [Next]_vars => StreamInv'
<1> SUFFICES ASSUME StreamInv, [Next]_vars PROVE StreamInv'
  OBVIOUS
<1> USE StreamAssumption
<1>0. store \subseteq Tickets /\ socket \in Sockets /\ drops \in 0..MaxDrops
  BY DEF StreamInv
<1>1. CASE UNCHANGED streamVars
  BY <1>0, <1>1, StreamRests DEF streamVars, ticketVars
<1>2. CASE StreamStep
  <2>1. ASSUME NEW run \in Runs, AppendEvent(run) PROVE StreamInv'
    BY <2>1, EventAppended
  <2>2. ASSUME NEW t \in Tickets, Issue(t) PROVE StreamInv'
    <3>1. /\ UNCHANGED <<events, cursor, applied, drops>> /\ store' \subseteq Tickets
          /\ ~socket.open /\ page' = page /\ wire' = wire
          /\ socket' \in Sockets /\ ~socket'.open
      BY <1>0, <2>2 DEF Issue, Shut, Sockets
    <3>2. page' = <<>> /\ wire' = <<>>
      BY <3>1 DEF StreamInv
    <3> QED
      BY <1>0, <3>1, <3>2, StreamCut
  <2>3. ASSUME NEW t \in Tickets, Connect(t) PROVE StreamInv'
    BY <2>3, StreamStarted
  <2>4. ASSUME NEW t \in Tickets, Expire(t) PROVE StreamInv'
    BY <1>0, <2>4, StreamRests DEF Expire
  <2>5. ASSUME NEW t \in Tickets, NEW run \in Runs, Present(t, run) PROVE StreamInv'
    BY <1>0, <2>5, StreamRests DEF Present, Consume
  <2>6. CASE FetchPage
    BY <2>6, PageFetched
  <2>7. CASE SendEvent
    BY <2>7, EventSent
  <2>8. CASE Receive
    BY <2>8, EventReceived
  <2>9. CASE Drop
    BY <1>0, <2>9, StreamCut DEF Drop, ticketVars, Shut, Sockets
  <2>10. CASE RestartServer
    <3>1. socket' \in Sockets /\ ~socket'.open
      BY <1>0, <2>10 DEF RestartServer, Shut, Sockets
    <3> QED
      BY <1>0, <2>10, <3>1, StreamCut DEF RestartServer
  <2>11. CASE OpenRun
    BY <1>0, <2>11, StreamRests DEF OpenRun, ticketVars
  <2>12. CASE CloseRun
    BY <1>0, <2>12, StreamStartsOver DEF CloseRun
  <2>13. CASE SyncRuntime
    BY <1>0, <2>13, StreamStartsOver DEF SyncRuntime
  <2> QED
    BY <1>2, <2>1, <2>2, <2>3, <2>4, <2>5, <2>6, <2>7, <2>8, <2>9, <2>10, <2>11, <2>12, <2>13
    DEF StreamStep, Reconnecting, Streaming
<1> QED
  BY <1>1, <1>2 DEF Next, vars, Authoring, Starting, Supervising, StreamingEvents,
                    Collecting, SettingUpNodes

LEMMA NothingHappened == StreamInit => EventsType /\ History = <<>>
<1> SUFFICES ASSUME StreamInit PROVE EventsType /\ History = <<>>
  OBVIOUS
<1>1. events = <<>> /\ Len(events) = 0 /\ EventsType
  BY EmptySeq, StreamAssumption DEF StreamInit, EventsType
<1>2. Ours = {} /\ Lists(History, Ours) /\ Len(History) \in Nat
  BY <1>1, HistoryListed DEF Ours
<1>3. History \in Seq({})
  BY <1>2 DEF Lists
<1> QED
  BY <1>1, <1>3, EmptySeq, LenProperties

LEMMA StreamBegins == Init => StreamInv
<1> SUFFICES ASSUME StreamInit PROVE StreamInv
  BY DEF Init
<1>1. EventsType /\ History = <<>>
  BY NothingHappened
<1>2. <<>> \in Seq(Ids) /\ Len(<<>>) = 0
  BY EmptySeq
<1>3. Follows(<<>>, 0)
  BY <1>1, <1>2 DEF Follows
<1> QED
  BY <1>1, <1>2, <1>3, StreamAssumption DEF StreamInit, StreamInv, Sockets, Shut

(* Without a view nothing has been applied and nothing is under way.          *)
ViewInv ==
  /\ viewing \in BOOLEAN /\ current \in BOOLEAN
  /\ ~viewing => applied = <<>> /\ socket = Shut

LEMMA ViewStep == StreamInv /\ ViewInv /\ [Next]_vars => ViewInv'
<1> SUFFICES ASSUME StreamInv, ViewInv, [Next]_vars PROVE ViewInv'
  OBVIOUS
<1>1. CASE UNCHANGED <<viewing, current, applied, socket>>
  BY <1>1 DEF ViewInv
<1>2. CASE UNCHANGED streamVars
  BY <1>1, <1>2 DEF streamVars, viewVars
<1>3. CASE StreamStep
  <2>1. ASSUME NEW t \in Tickets, Issue(t) PROVE ViewInv'
    BY <2>1 DEF Issue, ViewInv, viewVars
  <2>2. ASSUME NEW t \in Tickets, Connect(t) PROVE ViewInv'
    <3>1. t # NoTicket /\ socket.ticket = t
      BY <2>2, TicketAssumption DEF Connect
    <3>2. viewing
      BY <3>1 DEF ViewInv, Shut
    <3> QED
      BY <2>2, <3>2 DEF Connect, ViewInv, viewVars
  <2>3. ASSUME NEW t \in Tickets, Expire(t) \/ \E run \in Runs : Present(t, run)
        PROVE  ViewInv'
    BY <1>1, <2>3 DEF Expire, Present, viewVars
  <2>4. CASE FetchPage \/ SendEvent \/ \E run \in Runs : AppendEvent(run)
    BY <1>1, <2>4 DEF FetchPage, SendEvent, AppendEvent, viewVars
  <2>5. CASE Receive
    <3>1. socket.open
      BY <2>5 DEF Receive, StreamInv
    <3>2. viewing
      BY <3>1 DEF ViewInv, Shut
    <3> QED
      BY <2>5, <3>2 DEF Receive, ViewInv, viewVars
  <2>6. CASE Drop
    BY <2>6 DEF Drop, ViewInv, viewVars
  <2>7. CASE RestartServer
    BY <2>7 DEF RestartServer, ViewInv
  <2>8. CASE OpenRun
    BY <2>8 DEF OpenRun, ViewInv
  <2>9. CASE CloseRun \/ SyncRuntime
    BY <2>9 DEF CloseRun, SyncRuntime, CloseView, ViewInv
  <2> QED
    BY <1>3, <2>1, <2>2, <2>3, <2>4, <2>5, <2>6, <2>7, <2>8, <2>9
    DEF StreamStep, Reconnecting, Streaming
<1> QED
  BY <1>2, <1>3 DEF Next, vars, Authoring, Starting, Supervising, StreamingEvents,
                    Collecting, SettingUpNodes

LEMMA ViewBegins == Init => ViewInv
  BY DEF Init, StreamInit, ViewInv

(* Whatever drops and expires, and whatever other runs append in between, for *)
(* any page size: from when the desktop opens a view of its run until it      *)
(* closes it, it applies the events of the run one by one, each once, in the  *)
(* order they happened, from the first on.  It applies none after the user    *)
(* has gone elsewhere, or the desktop has found the coordinator replaced,     *)
(* until it opens a view that starts over (api/events.py, runEventState.ts,   *)
(* useRunEvents.ts, workspaceStore.ts).                                      *)
THEOREM StreamKeepsLog == Spec => StreamImplements
<1>1. Init => Log!EventLogInit
  BY NothingHappened DEF Init, StreamInit, Log!EventLogInit, History
<1>2. StreamInv /\ ViewInv /\ [Next]_vars => [Log!EventLogNext]_<<History, viewing, applied>>
  <2> DEFINE Kept == UNCHANGED <<History, viewing, applied>>
  <2> SUFFICES ASSUME StreamInv, ViewInv, [Next]_vars
               PROVE  Log!EventLogNext \/ Kept
    OBVIOUS
  <2>1. ASSUME NEW run \in Runs, AppendEvent(run)
        PROVE  Log!EventLogNext \/ Kept
    <3>1. /\ History' = IF run = Watched THEN Append(History, Len(events) + 1) ELSE History
          /\ Len(events) + 1 \in Ids
      BY <2>1, HistoryGrows DEF StreamInv
    <3>2. applied' = applied /\ viewing' = viewing
      BY <2>1 DEF AppendEvent, viewVars
    <3> QED
      BY <3>1, <3>2 DEF Log!EventLogNext, Log!Happen, History
  <2>2. CASE Receive
    <3>1. History' = History /\ viewing' = viewing /\ socket.open
      BY <2>2, HistoryStays DEF Receive, viewVars, StreamInv
    <3>2. viewing
      BY <3>1 DEF ViewInv, Shut
    <3> QED
      BY <2>2, <3>1, <3>2, NextApplied DEF Log!EventLogNext, Log!See, History
  <2>3. CASE UNCHANGED <<events, viewing, applied>>
    BY <2>3, HistoryStays
  <2>4. CASE UNCHANGED streamVars
    BY <2>3, <2>4 DEF streamVars, viewVars
  <2>5. CASE OpenRun
    <3>1. History' = History
      BY <2>5, HistoryStays DEF OpenRun
    <3> QED
      BY <2>5, <3>1 DEF OpenRun, Log!EventLogNext, Log!Open, History
  <2>6. ASSUME CloseView, events' = events PROVE Log!EventLogNext \/ Kept
    <3>1. History' = History
      BY <2>6, HistoryStays
    <3>2. CASE viewing
      BY <2>6, <3>1, <3>2 DEF CloseView, Log!EventLogNext, Log!Close, History
    <3>3. CASE ~viewing
      BY <2>6, <3>1, <3>3 DEF CloseView, ViewInv
    <3> QED
      BY <3>2, <3>3
  <2>7. CASE StreamStep
    <3>1. ASSUME NEW t \in Tickets, Issue(t) \/ Connect(t) \/ Expire(t)
          PROVE  UNCHANGED <<events, viewing, applied>>
      BY <3>1 DEF Issue, Connect, Expire, viewVars
    <3>2. ASSUME NEW t \in Tickets, NEW run \in Runs, Present(t, run)
          PROVE  UNCHANGED <<events, viewing, applied>>
      BY <3>2 DEF Present, viewVars
    <3>3. ASSUME FetchPage \/ SendEvent \/ Drop \/ RestartServer
          PROVE  UNCHANGED <<events, viewing, applied>>
      BY <3>3 DEF FetchPage, SendEvent, Drop, RestartServer, viewVars
    <3>4. ASSUME CloseRun \/ SyncRuntime PROVE CloseView /\ events' = events
      BY <3>4 DEF CloseRun, SyncRuntime
    <3> QED
      BY <2>1, <2>2, <2>3, <2>5, <2>6, <2>7, <3>1, <3>2, <3>3, <3>4
      DEF StreamStep, Reconnecting, Streaming
  <2> QED
    BY <2>4, <2>7 DEF Next, vars, Authoring, Starting, Supervising, StreamingEvents,
                      Collecting, SettingUpNodes
<1> QED
  BY <1>1, <1>2, StreamBegins, StreamKeeps, ViewBegins, ViewStep, PTL
  DEF Spec, StreamImplements, Log!EventLogSpec, History
====
