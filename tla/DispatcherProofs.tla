-------------------------- MODULE DispatcherProofs --------------------------
(***************************************************************************)
(* Theorems about Dispatcher, for every set of packets and rooms, every    *)
(* capacity and time to live of the table, and every length of the clock   *)
(* and of the history.                                                     *)
(*                                                                         *)
(* The first half is about the table alone: against any log of marks, it   *)
(* is the newest of the last marks, and what is not in it is old or        *)
(* outnumbered (Window); expiry, refreshing and eviction keep it so.       *)
(***************************************************************************)
EXTENDS Dispatcher, FiniteSetTheorems, SequenceTheorems, TLAPS

---------------------------------------------------------------------------
(* Counting                                                                *)

(* A set of places has a first one.                                        *)
LEMMA LeastExists ==
  ASSUME NEW n \in Nat, NEW T \in SUBSET (1..n), T # {}
  PROVE  \E i \in T : \A j \in T : i <= j
<1> DEFINE Below == {1..(i - 1) : i \in T}
           R == StrictSubsetOrdering(1..n)
<1>1. /\ Below \subseteq FiniteSubsetsOf(1..n) /\ Below # {}
  <2>1. ASSUME NEW i \in T PROVE 1..(i - 1) \in FiniteSubsetsOf(1..n)
    <3>1. IsFiniteSet(1..(i - 1)) /\ 1..(i - 1) \subseteq 1..n
      BY FS_Interval
    <3> QED
      BY <3>1 DEF FiniteSubsetsOf
  <2> QED
    BY <2>1
<1>2. PICK X \in Below : \A Y \in Below : <<Y, X>> \notin R
  <2>1. IsWellFoundedOn(R, FiniteSubsetsOf(1..n))
    BY FS_StrictSubsetOrderingWellFounded
  <2> HIDE DEF Below, R
  <2> QED
    BY <1>1, <2>1, WFMin
<1>3. PICK i \in T : X = 1..(i - 1)
  OBVIOUS
<1>4. ASSUME NEW j \in T, j < i PROVE FALSE
  <2>1. 1..(j - 1) \subseteq 1..(i - 1) /\ 1..(j - 1) # 1..(i - 1)
    <3>1. j \in 1..(i - 1) /\ j \notin 1..(j - 1)
      BY <1>4
    <3>2. 1..(j - 1) \subseteq 1..(i - 1)
      BY <1>4
    <3> QED
      BY <3>1, <3>2
  <2>2. <<1..(j - 1), 1..(i - 1)>> \in R
    <3>1. 1..(i - 1) \subseteq 1..n /\ 1..(j - 1) \subseteq 1..n
      OBVIOUS
    <3> QED
      BY <2>1, <3>1 DEF StrictSubsetOrdering
  <2> QED
    BY <1>2, <1>3, <2>2
<1> QED
  BY <1>4

(* As many packets as places that hold different ones.                     *)
LEMMA DistinctCount ==
  ASSUME NEW n \in Nat, NEW f, NEW S, IsFiniteSet(S),
         \A k \in 1..n : f[k] \in S,
         \A k, l \in 1..n : k < l => f[k] # f[l]
  PROVE  Cardinality(S) >= n
<1> DEFINE g == [k \in 1..n |-> f[k]]
<1>1. g \in Injection(1..n, S)
  BY DEF Injection, IsInjective
<1>2. IsFiniteSet(1..n) /\ Cardinality(1..n) = n
  BY FS_Interval
<1>3. Cardinality(1..n) <= Cardinality(S)
  BY <1>1, FS_Injection
<1> QED
  BY <1>2, <1>3, FS_CardinalityType

(* No more packets than places that hold them all.                         *)
LEMMA PlaceCount ==
  ASSUME NEW a \in Nat, NEW b \in Nat, a <= b, NEW f, NEW S,
         \A x \in S : \E k \in (a + 1)..b : f[k] = x
  PROVE  IsFiniteSet(S) /\ Cardinality(S) \in Nat /\ Cardinality(S) <= b - a
<1> DEFINE T == {f[k] : k \in (a + 1)..b}
           g == [k \in (a + 1)..b |-> f[k]]
<1>1. g \in Surjection((a + 1)..b, T)
  BY DEF Surjection
<1>2. IsFiniteSet((a + 1)..b) /\ Cardinality((a + 1)..b) = b - a
  <2>1. a + 1 \in Int /\ b \in Int
    OBVIOUS
  <2>2. /\ IsFiniteSet((a + 1)..b)
        /\ Cardinality((a + 1)..b) = IF a + 1 > b THEN 0 ELSE b - (a + 1) + 1
    BY Zenon, <2>1, FS_Interval
  <2> QED
    BY <2>2
<1>3. IsFiniteSet(T) /\ Cardinality(T) <= b - a
  BY <1>1, <1>2, FS_Surjection
<1>4. S \in SUBSET T
  OBVIOUS
<1> HIDE DEF T, g
<1>5. IsFiniteSet(S) /\ Cardinality(S) <= Cardinality(T)
  BY <1>3, <1>4, FS_Subset
<1> QED
  BY <1>3, <1>5, FS_CardinalityType

---------------------------------------------------------------------------
(* A table against a log                                                   *)

(* The place in a log where a packet was last marked.                      *)
LastIn(log, p) ==
  {i \in 1..Len(log) : log[i].packet = p /\ \A j \in (i + 1)..Len(log) : log[j].packet # p}

After(log, i) == {log[j].packet : j \in (i + 1)..Len(log)}

Stale(log, i, t) == log[i].at + Ttl <= t
Many(log, i) == Cardinality(After(log, i)) >= Capacity

(* A log of marks up to a time, in order.                                  *)
IsLog(log, t) ==
  /\ log \in Seq(Entries(Packets))
  /\ \A i \in 1..Len(log) : log[i].at <= t /\ \E m \in LastIn(log, log[i].packet) : i <= m
  /\ \A i, j \in 1..Len(log) : i <= j => log[i].at <= log[j].at

(* What is in the table is in the log, in its order; what is in the log    *)
(* and not in the table is before all of it, and old or outnumbered.       *)
Marks(T, log) ==
  \A k \in 1..Len(T) : \E i \in LastIn(log, T[k].packet) : log[i].at = T[k].at
Ordered(T, log) ==
  \A k, l \in 1..Len(T) : k < l =>
    \A i \in LastIn(log, T[k].packet), j \in LastIn(log, T[l].packet) : i < j
Newest(T, log, t) ==
  \A p \in Packets : ~Holds(T, p) => \A i \in LastIn(log, p) :
    /\ Stale(log, i, t) \/ Many(log, i)
    /\ \A k \in 1..Len(T) : \A j \in LastIn(log, T[k].packet) : i < j

Window(T, log, t) ==
  /\ T \in Seq(Entries(Packets))
  /\ Marks(T, log) /\ Ordered(T, log) /\ Newest(T, log, t)

LEMMA OneLast ==
  ASSUME NEW log, Len(log) \in Nat, NEW p, NEW i \in LastIn(log, p), NEW j \in LastIn(log, p)
  PROVE  i = j
BY DEF LastIn

LEMMA EntryFields ==
  ASSUME NEW s \in Seq(Entries(Packets)), NEW i \in 1..Len(s)
  PROVE  s[i].packet \in Packets /\ s[i].at \in Nat
<1>1. s[i] \in Entries(Packets)
  BY ElementOfSeq
<1> QED
  BY <1>1 DEF Entries

LEMMA AfterFinite ==
  ASSUME NEW log, Len(log) \in Nat, NEW i \in 1..Len(log)
  PROVE  IsFiniteSet(After(log, i)) /\ Cardinality(After(log, i)) \in Nat
<1> DEFINE f == [j \in (i + 1)..Len(log) |-> log[j].packet]
           n == Len(log)
           S == After(log, i)
<1>1. i \in Nat /\ n \in Nat /\ i <= n
  OBVIOUS
<1>2. \A x \in S : \E j \in (i + 1)..n : f[j] = x
  BY DEF After
<1> HIDE DEF f, n, S
<1>3. IsFiniteSet(S) /\ Cardinality(S) \in Nat /\ Cardinality(S) <= n - i
  BY <1>1, <1>2, PlaceCount
<1> QED
  BY <1>3 DEF S

---------------------------------------------------------------------------
(* Expiry                                                                  *)

(* The first entry that is not stale, or the end.                          *)
LEMMA ExpiredAt ==
  ASSUME NEW T, Len(T) \in Nat, NEW t
  PROVE  \E f \in 1..(Len(T) + 1) : FirstFresh(T, t, f) /\ Expired(T, t) = SubSeq(T, f, Len(T))
<1> DEFINE Ends == {i \in 1..(Len(T) + 1) : i <= Len(T) => Fresh(T[i].at, t)}
<1>1. \E i \in 1..(Len(T) + 1) : FirstFresh(T, t, i)
  <2>1. Len(T) + 1 \in Ends /\ Ends \in SUBSET (1..(Len(T) + 1)) /\ Len(T) + 1 \in Nat
    OBVIOUS
  <2> HIDE DEF Ends
  <2>2. PICK i \in Ends : \A j \in Ends : i <= j
    BY <2>1, LeastExists
  <2> USE DEF Ends
  <2>3. i \in 1..(Len(T) + 1) /\ (i <= Len(T) => Fresh(T[i].at, t))
    OBVIOUS
  <2>4. ASSUME NEW j \in 1..(i - 1) PROVE ~Fresh(T[j].at, t)
    <3>1. j \in 1..(Len(T) + 1) /\ j <= Len(T) /\ ~(i <= j)
      BY <2>3
    <3> QED
      BY <2>2, <3>1
  <2> QED
    BY <2>3, <2>4 DEF FirstFresh
<1> QED
  BY <1>1 DEF Expired

(* What is left from a place on.                                           *)
LEMMA Suffix ==
  ASSUME NEW T \in Seq(Entries(Packets)), NEW f \in 1..(Len(T) + 1)
  PROVE  LET U == SubSeq(T, f, Len(T))
         IN  /\ U \in Seq(Entries(Packets)) /\ Len(U) \in Nat /\ Len(U) = Len(T) - f + 1
             /\ \A k \in 1..Len(U) : f + k - 1 \in 1..Len(T) /\ U[k] = T[f + k - 1]
             /\ \A k \in f..Len(T) : k - f + 1 \in 1..Len(U) /\ T[k] = U[k - f + 1]
<1> DEFINE n == Len(T)
           U == SubSeq(T, f, n)
<1>1. n \in Nat /\ f \in Nat /\ 1 <= f /\ f <= n + 1
  BY LenProperties
<1>2. \A i \in f..n : T[i] \in Entries(Packets)
  BY <1>1, ElementOfSeq
<1> HIDE DEF n
<1>3. f \in Int /\ n \in Int
  BY <1>1
<1>4. /\ U \in Seq(Entries(Packets))
      /\ Len(U) = IF f <= n THEN n - f + 1 ELSE 0
      /\ \A i \in 1..(n - f + 1) : U[i] = T[f + i - 1]
  BY <1>2, <1>3, SubSeqProperties
<1> HIDE DEF U
<1>5. Len(U) \in Nat /\ Len(U) = n - f + 1
  BY <1>1, <1>4
<1>6. ASSUME NEW k \in 1..Len(U) PROVE f + k - 1 \in 1..n /\ U[k] = T[f + k - 1]
  BY <1>1, <1>4, <1>5
<1>7. ASSUME NEW k \in f..n PROVE k - f + 1 \in 1..Len(U) /\ T[k] = U[k - f + 1]
  <2>1. k - f + 1 \in 1..Len(U)
    BY <1>1, <1>5
  <2>2. f + (k - f + 1) - 1 = k
    BY <1>1
  <2> QED
    BY <1>6, <2>1, <2>2
<1> QED
  BY <1>4, <1>5, <1>6, <1>7 DEF U, n

LEMMA ExpiredWindow ==
  ASSUME NEW T, NEW log, NEW t \in Nat, IsLog(log, t), Window(T, log, t)
  PROVE  /\ Window(Expired(T, t), log, t) /\ Len(Expired(T, t)) \in Nat
         /\ Len(Expired(T, t)) <= Len(T)
<1>n. Len(T) \in Nat /\ T \in Seq(Entries(Packets)) /\ Len(log) \in Nat
  BY LenProperties DEF Window, IsLog
<1>1. PICK f \in 1..(Len(T) + 1) : FirstFresh(T, t, f) /\ Expired(T, t) = SubSeq(T, f, Len(T))
  BY <1>n, ExpiredAt
<1> DEFINE U == Expired(T, t)
<1>2. /\ U \in Seq(Entries(Packets)) /\ Len(U) \in Nat /\ Len(U) = Len(T) - f + 1
      /\ \A k \in 1..Len(U) : f + k - 1 \in 1..Len(T) /\ U[k] = T[f + k - 1]
      /\ \A k \in f..Len(T) : k - f + 1 \in 1..Len(U) /\ T[k] = U[k - f + 1]
  BY <1>n, <1>1, Suffix
<1> HIDE DEF U
<1>3. Marks(U, log)
  <2> SUFFICES ASSUME NEW k \in 1..Len(U)
               PROVE  \E i \in LastIn(log, U[k].packet) : log[i].at = U[k].at
    BY DEF Marks
  <2>1. f + k - 1 \in 1..Len(T) /\ U[k] = T[f + k - 1]
    BY <1>2
  <2> QED
    BY <2>1 DEF Window, Marks
<1>4. Ordered(U, log)
  <2> SUFFICES ASSUME NEW k \in 1..Len(U), NEW l \in 1..Len(U), k < l,
                      NEW i \in LastIn(log, U[k].packet), NEW j \in LastIn(log, U[l].packet)
               PROVE  i < j
    BY DEF Ordered
  <2>1. f + k - 1 \in 1..Len(T) /\ f + l - 1 \in 1..Len(T) /\ f + k - 1 < f + l - 1
    BY <1>2
  <2>2. U[k] = T[f + k - 1] /\ U[l] = T[f + l - 1]
    BY <1>2
  <2> QED
    BY <2>1, <2>2 DEF Window, Ordered
<1>5. Newest(U, log, t)
  <2> SUFFICES ASSUME NEW p \in Packets, ~Holds(U, p), NEW i \in LastIn(log, p)
               PROVE  /\ Stale(log, i, t) \/ Many(log, i)
                      /\ \A k \in 1..Len(U) : \A j \in LastIn(log, U[k].packet) : i < j
    BY DEF Newest
  <2>1. CASE ~Holds(T, p)
    <3>1. /\ Stale(log, i, t) \/ Many(log, i)
          /\ \A k \in 1..Len(T) : \A j \in LastIn(log, T[k].packet) : i < j
      BY <2>1 DEF Window, Newest
    <3> QED
      BY <1>2, <3>1
  <2>2. CASE Holds(T, p)
    <3>1. PICK k \in 1..Len(T) : T[k].packet = p
      BY <2>2 DEF Holds
    <3>2. k < f
      <4>1. ASSUME k >= f PROVE FALSE
        <5>1. k \in f..Len(T)
          BY <4>1
        <5>2. k - f + 1 \in 1..Len(U) /\ U[k - f + 1].packet = p
          BY <1>2, <3>1, <5>1
        <5> QED
          BY <5>2 DEF Holds
      <4> QED
        BY <4>1
    <3>3. ~Fresh(T[k].at, t)
      <4>1. k \in 1..(f - 1)
        BY <3>2
      <4> QED
        BY <1>1, <4>1 DEF FirstFresh
    <3>4. log[i].at = T[k].at
      BY <1>n, <3>1, OneLast DEF Window, Marks
    <3>5. Stale(log, i, t)
      <4>1. T[k].at \in Nat
        BY <1>n, EntryFields
      <4>2. Ttl \in Nat
        BY TableAssumption
      <4> QED
        BY <3>3, <3>4, <4>1, <4>2 DEF Stale, Fresh
    <3>6. ASSUME NEW l \in 1..Len(U), NEW j \in LastIn(log, U[l].packet) PROVE i < j
      <4>1. f + l - 1 \in 1..Len(T) /\ k < f + l - 1 /\ U[l] = T[f + l - 1]
        BY <1>2, <3>2
      <4> QED
        BY <3>1, <4>1 DEF Window, Ordered
    <3> QED
      BY <3>5, <3>6
  <2> QED
    BY <2>1, <2>2
<1> QED
  BY <1>2, <1>3, <1>4, <1>5 DEF Window, U

(* What is heard later is forgotten later.                                 *)
LEMMA LaterIsFresher ==
  ASSUME NEW a \in Nat, NEW b \in Nat, NEW d \in Nat, NEW t \in Nat, a <= b, a + d > t
  PROVE  b + d > t
OBVIOUS

(* What a table that was kept says of a packet at any time: whether it is  *)
(* in it and fresh.                                                        *)
LEMMA SeenFresh ==
  ASSUME NEW T, NEW log, NEW t \in Nat, IsLog(log, t), Window(T, log, t), NEW p
  PROVE  Seen(T, p, t) <=> \E k \in 1..Len(T) : T[k].packet = p /\ Fresh(T[k].at, t)
<1>n. Len(T) \in Nat /\ T \in Seq(Entries(Packets)) /\ Len(log) \in Nat
  BY LenProperties DEF Window, IsLog
<1>1. PICK f \in 1..(Len(T) + 1) : FirstFresh(T, t, f) /\ Expired(T, t) = SubSeq(T, f, Len(T))
  BY <1>n, ExpiredAt
<1> DEFINE U == Expired(T, t)
<1>2. /\ Len(U) \in Nat /\ Len(U) = Len(T) - f + 1
      /\ \A k \in 1..Len(U) : f + k - 1 \in 1..Len(T) /\ U[k] = T[f + k - 1]
      /\ \A k \in f..Len(T) : k - f + 1 \in 1..Len(U) /\ T[k] = U[k - f + 1]
  BY <1>n, <1>1, Suffix
<1>3. Seen(T, p, t) <=> \E k \in 1..Len(U) : U[k].packet = p
  BY DEF Seen, Holds
<1> HIDE DEF U
<1>4. ASSUME NEW k \in f..Len(T) PROVE Fresh(T[k].at, t)
  <2>1. f \in 1..Len(T) /\ k \in 1..Len(T) /\ f <= k
    BY <1>n
  <2>2. Fresh(T[f].at, t)
    BY <1>1, <2>1 DEF FirstFresh
  <2>3. PICK i \in LastIn(log, T[f].packet) : log[i].at = T[f].at
    BY <2>1 DEF Window, Marks
  <2>4. PICK j \in LastIn(log, T[k].packet) : log[j].at = T[k].at
    BY <2>1 DEF Window, Marks
  <2>5. i \in 1..Len(log) /\ j \in 1..Len(log)
    BY <2>3, <2>4 DEF LastIn
  <2>6. i <= j
    <3>1. CASE f = k
      <4>1. i = j
        BY <1>n, <2>3, <2>4, <3>1, OneLast
      <4> QED
        BY <2>5, <4>1
    <3>2. CASE f < k
      <4>1. i < j
        BY <2>1, <2>3, <2>4, <3>2 DEF Window, Ordered
      <4> QED
        BY <2>5, <4>1
    <3> QED
      BY <2>1, <3>1, <3>2
  <2>7. log[i].at <= log[j].at /\ log[i].at \in Nat /\ log[j].at \in Nat
    <3>1. log \in Seq(Entries(Packets))
      BY DEF IsLog
    <3> QED
      BY <2>5, <2>6, <3>1, EntryFields DEF IsLog
  <2>8. Ttl \in Nat
    BY TableAssumption
  <2>9. log[i].at + Ttl > t
    BY <2>2, <2>3 DEF Fresh
  <2>10. log[j].at + Ttl > t
    BY <2>7, <2>8, <2>9, LaterIsFresher
  <2> QED
    BY <2>4, <2>10 DEF Fresh
<1>5. ASSUME NEW k \in 1..Len(U), U[k].packet = p
      PROVE  \E l \in 1..Len(T) : T[l].packet = p /\ Fresh(T[l].at, t)
  <2>1. f + k - 1 \in 1..Len(T) /\ f + k - 1 \in f..Len(T) /\ U[k] = T[f + k - 1]
    BY <1>2
  <2> QED
    BY <1>4, <1>5, <2>1
<1>6. ASSUME NEW k \in 1..Len(T), T[k].packet = p, Fresh(T[k].at, t)
      PROVE  \E l \in 1..Len(U) : U[l].packet = p
  <2>1. ~(k < f)
    <3>1. k < f => k \in 1..(f - 1)
      OBVIOUS
    <3> QED
      BY <1>1, <1>6, <3>1 DEF FirstFresh
  <2>2. k \in f..Len(T)
    BY <1>n, <2>1
  <2> QED
    BY <1>2, <1>6, <2>2
<1> QED
  BY <1>3, <1>5, <1>6

(* What is in the table is not outnumbered.                                *)
LEMMA HeldNotMany ==
  ASSUME NEW T, NEW log, NEW t \in Nat, IsLog(log, t), Window(T, log, t), Len(T) <= Capacity,
         NEW k \in 1..Len(T), NEW i \in LastIn(log, T[k].packet)
  PROVE  ~Many(log, i)
<1>n. Len(T) \in Nat /\ T \in Seq(Entries(Packets)) /\ Len(log) \in Nat
      /\ log \in Seq(Entries(Packets))
  BY LenProperties DEF Window, IsLog
<1>0. i \in 1..Len(log)
  BY DEF LastIn
<1>1. ASSUME NEW j \in (i + 1)..Len(log) PROVE \E l \in (k + 1)..Len(T) : T[l].packet = log[j].packet
  <2>1. j \in 1..Len(log) /\ i < j
    BY <1>n, <1>0
  <2>2. PICK m \in LastIn(log, log[j].packet) : j <= m
    BY <2>1 DEF IsLog
  <2>3. log[j].packet \in Packets /\ log[j].packet # T[k].packet
    BY <1>n, <2>1, EntryFields DEF LastIn
  <2>4. m \in Nat /\ i < m
    BY <1>n, <1>0, <2>1, <2>2 DEF LastIn
  <2>5. Holds(T, log[j].packet)
    <3>1. ASSUME ~Holds(T, log[j].packet) PROVE m < i
      BY <2>2, <2>3, <3>1 DEF Window, Newest
    <3> QED
      BY <1>0, <2>4, <3>1
  <2>6. PICK l \in 1..Len(T) : T[l].packet = log[j].packet
    BY <2>5 DEF Holds
  <2>7. l < k => m < i
    BY <2>2, <2>6 DEF Window, Ordered
  <2> QED
    BY <1>n, <1>0, <2>3, <2>4, <2>6, <2>7
<1> DEFINE S == After(log, i)
           n == Len(T)
           f == [l \in 1..n |-> T[l].packet]
<1>2. \A x \in S : \E l \in (k + 1)..n : f[l] = x
  <2>1. \A l \in (k + 1)..n : l \in 1..n
    BY <1>n
  <2> QED
    BY <1>1, <2>1 DEF After
<1>3. k \in Nat /\ n \in Nat /\ k <= n
  BY <1>n
<1>5. Capacity \in Nat /\ n <= Capacity /\ k >= 1
  BY TableAssumption
<1> HIDE DEF S, n, f
<1>4. IsFiniteSet(S) /\ Cardinality(S) \in Nat /\ Cardinality(S) <= n - k
  BY <1>2, <1>3, PlaceCount
<1> QED
  BY <1>3, <1>4, <1>5 DEF Many, S

(* The table is the window it promises to be.                              *)
LEMMA SeenInWindow ==
  ASSUME NEW T, NEW log, NEW t \in Nat, IsLog(log, t), Window(T, log, t), Len(T) <= Capacity,
         NEW p \in Packets
  PROVE  Seen(T, p, t) <=> /\ \E i \in LastIn(log, p) : log[i].at + Ttl > t
                           /\ ~\E i \in LastIn(log, p) : Many(log, i)
<1>n. Len(T) \in Nat /\ T \in Seq(Entries(Packets)) /\ Len(log) \in Nat
      /\ log \in Seq(Entries(Packets))
  BY LenProperties DEF Window, IsLog
<1>1. ASSUME NEW k \in 1..Len(T), T[k].packet = p, Fresh(T[k].at, t)
      PROVE  /\ \E i \in LastIn(log, p) : log[i].at + Ttl > t
             /\ ~\E i \in LastIn(log, p) : Many(log, i)
  <2>1. PICK i \in LastIn(log, p) : log[i].at = T[k].at
    BY <1>1 DEF Window, Marks
  <2>2. log[i].at + Ttl > t
    BY <1>1, <2>1 DEF Fresh
  <2>3. \A j \in LastIn(log, p) : ~Many(log, j)
    BY <1>1, HeldNotMany
  <2> QED
    BY <2>1, <2>2, <2>3
<1>2. ASSUME NEW i \in LastIn(log, p), log[i].at + Ttl > t, ~Many(log, i)
      PROVE  \E k \in 1..Len(T) : T[k].packet = p /\ Fresh(T[k].at, t)
  <2>1. i \in 1..Len(log)
    BY DEF LastIn
  <2>2. log[i].at \in Nat /\ Ttl \in Nat
    BY <1>n, <2>1, EntryFields, TableAssumption
  <2>3. ~Stale(log, i, t)
    BY <1>2, <2>2 DEF Stale
  <2>4. PICK k \in 1..Len(T) : T[k].packet = p
    BY <1>2, <2>3 DEF Window, Newest, Holds
  <2>5. log[i].at = T[k].at
    BY <1>n, <2>4, OneLast DEF Window, Marks
  <2> QED
    BY <1>2, <2>4, <2>5 DEF Fresh
<1> QED
  BY <1>1, <1>2, SeenFresh

---------------------------------------------------------------------------
(* Marking                                                                 *)

(* A mark is the last of its packet and leaves those of the others.        *)
LEMMA LongerLog ==
  ASSUME NEW log \in Seq(Entries(Packets)), NEW p \in Packets, NEW t \in Nat
  PROVE  LET more == Append(log, [packet |-> p, at |-> t])
         IN  /\ more \in Seq(Entries(Packets)) /\ Len(log) \in Nat /\ Len(more) = Len(log) + 1
             /\ \A i \in 1..Len(log) : more[i] = log[i]
             /\ more[Len(log) + 1] = [packet |-> p, at |-> t]
             /\ LastIn(more, p) = {Len(log) + 1}
             /\ \A q : q # p => LastIn(more, q) = LastIn(log, q)
<1> DEFINE e == [packet |-> p, at |-> t]
           n == Len(log)
           more == Append(log, e)
<1>e. e \in Entries(Packets) /\ e.packet = p
  BY DEF Entries
<1>1. /\ more \in Seq(Entries(Packets)) /\ n \in Nat /\ Len(more) = n + 1
      /\ \A i \in 1..n : more[i] = log[i]
      /\ more[n + 1] = e
  BY <1>e, AppendProperties, LenProperties
<1> HIDE DEF more, e, n
<1>2. LastIn(more, p) = {n + 1}
  <2>1. n + 1 \in LastIn(more, p)
    BY <1>1, <1>e DEF LastIn
  <2>2. ASSUME NEW i \in LastIn(more, p) PROVE i = n + 1
    <3>1. i \in 1..(n + 1) /\ \A j \in (i + 1)..(n + 1) : more[j].packet # p
      BY <1>1 DEF LastIn
    <3> QED
      BY <1>1, <1>e, <3>1
  <2> QED
    BY <2>1, <2>2
<1>3. ASSUME NEW q, q # p PROVE LastIn(more, q) = LastIn(log, q)
  <2>1. ASSUME NEW i \in LastIn(more, q) PROVE i \in LastIn(log, q)
    <3>1. /\ i \in 1..(n + 1) /\ more[i].packet = q
          /\ \A j \in (i + 1)..(n + 1) : more[j].packet # q
      BY <1>1 DEF LastIn
    <3>2. i \in 1..n
      BY <1>1, <1>e, <1>3, <3>1
    <3>3. \A j \in (i + 1)..n : log[j].packet # q
      BY <1>1, <3>1, <3>2
    <3> QED
      BY <1>1, <3>1, <3>2, <3>3 DEF LastIn, n
  <2>2. ASSUME NEW i \in LastIn(log, q) PROVE i \in LastIn(more, q)
    <3>1. i \in 1..n /\ log[i].packet = q /\ \A j \in (i + 1)..n : log[j].packet # q
      BY DEF LastIn, n
    <3>2. \A j \in (i + 1)..(n + 1) : more[j].packet # q
      <4> SUFFICES ASSUME NEW j \in (i + 1)..(n + 1) PROVE more[j].packet # q
        OBVIOUS
      <4>1. CASE j = n + 1
        BY <1>1, <1>e, <1>3, <4>1
      <4>2. CASE j # n + 1
        <5>1. j \in (i + 1)..n /\ j \in 1..n
          BY <1>1, <3>1, <4>2
        <5> QED
          BY <1>1, <3>1, <5>1
      <4> QED
        BY <4>1, <4>2
    <3> QED
      BY <1>1, <3>1, <3>2 DEF LastIn
  <2> QED
    BY <2>1, <2>2
<1> QED
  BY <1>1, <1>2, <1>3 DEF more, e, n

LEMMA LogGrows ==
  ASSUME NEW log, NEW t \in Nat, IsLog(log, t), NEW p \in Packets
  PROVE  IsLog(Append(log, [packet |-> p, at |-> t]), t)
<1> DEFINE n == Len(log)
           more == Append(log, [packet |-> p, at |-> t])
<1>1. /\ more \in Seq(Entries(Packets)) /\ n \in Nat /\ Len(more) = n + 1
      /\ \A i \in 1..n : more[i] = log[i]
      /\ more[n + 1].packet = p /\ more[n + 1].at = t
      /\ LastIn(more, p) = {n + 1}
      /\ \A q : q # p => LastIn(more, q) = LastIn(log, q)
  BY LongerLog DEF IsLog
<1>2. /\ \A i \in 1..n : log[i].at <= t /\ \E m \in LastIn(log, log[i].packet) : i <= m
      /\ \A i, j \in 1..n : i <= j => log[i].at <= log[j].at
  BY DEF IsLog
<1> HIDE DEF more, n
<1>3. ASSUME NEW i \in 1..(n + 1)
      PROVE  more[i].at <= t /\ \E m \in LastIn(more, more[i].packet) : i <= m
  <2>1. CASE i = n + 1
    <3>1. more[i].at = t /\ more[i].packet = p /\ i \in Nat
      BY <1>1, <2>1
    <3>2. i \in LastIn(more, more[i].packet)
      BY <1>1, <2>1, <3>1
    <3> QED
      BY <3>1, <3>2
  <2>2. CASE i # n + 1
    <3>1. i \in 1..n /\ more[i] = log[i] /\ i <= n + 1
      BY <1>1, <2>2
    <3>2. log[i].at <= t /\ \E m \in LastIn(log, log[i].packet) : i <= m
      BY <1>2, <3>1
    <3>3. CASE log[i].packet = p
      <4>1. n + 1 \in LastIn(more, more[i].packet)
        BY <1>1, <3>1, <3>3
      <4> QED
        BY <3>1, <3>2, <4>1
    <3>4. CASE log[i].packet # p
      <4>1. LastIn(more, more[i].packet) = LastIn(log, log[i].packet)
        BY <1>1, <3>1, <3>4
      <4> QED
        BY <3>1, <3>2, <4>1
    <3> QED
      BY <3>3, <3>4
  <2> QED
    BY <2>1, <2>2
<1>4. ASSUME NEW i \in 1..(n + 1), NEW j \in 1..(n + 1), i <= j PROVE more[i].at <= more[j].at
  <2>1. CASE j = n + 1
    BY <1>1, <1>3, <2>1
  <2>2. CASE j # n + 1
    <3>1. i \in 1..n /\ j \in 1..n
      BY <1>1, <1>4, <2>2
    <3> QED
      BY <1>1, <1>2, <1>4, <3>1
  <2> QED
    BY <2>1, <2>2
<1> QED
  BY <1>1, <1>3, <1>4 DEF IsLog, more

(* What popping an entry leaves, and in which order.                       *)
LEMMA Popped ==
  ASSUME NEW U \in Seq(Entries(Packets)), NEW p,
         \A k, l \in 1..Len(U) : U[k].packet = p /\ U[l].packet = p => k = l
  PROVE  LET X == Without(U, p)
         IN  /\ X \in Seq(Entries(Packets)) /\ Len(X) \in Nat /\ Len(X) <= Len(U)
             /\ \E h \in [1..Len(X) -> 1..Len(U)] :
                  /\ \A k \in 1..Len(X) : X[k] = U[h[k]] /\ X[k].packet # p
                  /\ \A k, l \in 1..Len(X) : k < l => h[k] < h[l]
                  /\ \A m \in 1..Len(U) : U[m].packet # p => \E k \in 1..Len(X) : h[k] = m
<1> DEFINE n == Len(U)
           X == Without(U, p)
<1>n. n \in Nat
  BY LenProperties
<1>1. CASE ~Holds(U, p)
  <2>1. X = U
    BY <1>1 DEF Without
  <2>2. \A k \in 1..n : U[k].packet # p
    BY <1>1 DEF Holds
  <2> HIDE DEF X
  <2>3. X \in Seq(Entries(Packets)) /\ Len(X) = n /\ \A k \in 1..n : X[k] = U[k]
    BY <2>1
  <2> HIDE DEF n
  <2>4. PICK h : h = [k \in 1..n |-> k]
    OBVIOUS
  <2>5. /\ h \in [1..n -> 1..n] /\ \A k \in 1..n : h[k] = k
        /\ \A k, l \in 1..n : k < l => h[k] < h[l]
    BY <2>4
  <2>6. \A k \in 1..n : X[k] = U[h[k]] /\ X[k].packet # p
    BY <2>2, <2>3, <2>5
  <2>7. \A m \in 1..n : U[m].packet # p => \E k \in 1..n : h[k] = m
    BY <2>5
  <2>8. Len(X) \in Nat /\ Len(X) <= n
    BY <1>n, <2>3
  <2>9. /\ h \in [1..Len(X) -> 1..n]
        /\ \A k \in 1..Len(X) : X[k] = U[h[k]] /\ X[k].packet # p
        /\ \A k, l \in 1..Len(X) : k < l => h[k] < h[l]
        /\ \A m \in 1..n : U[m].packet # p => \E k \in 1..Len(X) : h[k] = m
    BY Zenon, <2>3, <2>5, <2>6, <2>7
  <2> QED
    BY Zenon, <2>3, <2>8, <2>9 DEF n, X
<1>2. CASE Holds(U, p)
  <2> DEFINE r == CHOOSE i \in 1..Len(U) : U[i].packet = p
             A == SubSeq(U, 1, r - 1)
             B == SubSeq(U, r + 1, n)
  <2>1. r \in 1..n /\ U[r].packet = p
    BY <1>2 DEF Holds
  <2>2. X = A \o B
    BY <1>2 DEF Without
  <2> HIDE DEF X, r
  <2>3. r \in Nat /\ 1 <= r /\ r <= n
    BY <1>n, <2>1
  <2>4. \A m \in 1..n : U[m] \in Entries(Packets)
    BY ElementOfSeq
  <2> HIDE DEF n
  <2>5. /\ A \in Seq(Entries(Packets)) /\ Len(A) = r - 1
        /\ \A k \in 1..(r - 1) : A[k] = U[k]
    <3>1. 1 \in Int /\ r - 1 \in Int
      BY <2>3
    <3>2. \A m \in 1..(r - 1) : U[m] \in Entries(Packets)
      BY <1>n, <2>3, <2>4
    <3>3. /\ A \in Seq(Entries(Packets))
          /\ Len(A) = IF 1 <= r - 1 THEN (r - 1) - 1 + 1 ELSE 0
          /\ \A k \in 1..((r - 1) - 1 + 1) : A[k] = U[1 + k - 1]
      BY <3>1, <3>2, SubSeqProperties
    <3> HIDE DEF A
    <3>4. \A k \in 1..(r - 1) : k \in 1..((r - 1) - 1 + 1) /\ 1 + k - 1 = k
      BY <2>3
    <3>5. Len(A) = r - 1
      BY <2>3, <3>3
    <3> QED
      BY <3>3, <3>4, <3>5
  <2>6. /\ B \in Seq(Entries(Packets)) /\ Len(B) = n - r
        /\ \A k \in 1..(n - r) : B[k] = U[r + k]
    <3>1. r + 1 \in Int /\ n \in Int
      BY <1>n, <2>3
    <3>2. \A m \in (r + 1)..n : U[m] \in Entries(Packets)
      BY <1>n, <2>3, <2>4
    <3>3. /\ B \in Seq(Entries(Packets))
          /\ Len(B) = IF r + 1 <= n THEN n - (r + 1) + 1 ELSE 0
          /\ \A k \in 1..(n - (r + 1) + 1) : B[k] = U[(r + 1) + k - 1]
      BY <3>1, <3>2, SubSeqProperties
    <3> HIDE DEF B
    <3>4. \A k \in 1..(n - r) : k \in 1..(n - (r + 1) + 1) /\ (r + 1) + k - 1 = r + k
      BY <1>n, <2>3
    <3>5. Len(B) = n - r
      BY <1>n, <2>3, <3>3
    <3> QED
      BY <3>3, <3>4, <3>5
  <2> HIDE DEF A, B
  <2>7. /\ X \in Seq(Entries(Packets)) /\ Len(X) = n - 1
        /\ \A k \in 1..(n - 1) : X[k] = IF k < r THEN U[k] ELSE U[k + 1]
    <3>1. /\ X \in Seq(Entries(Packets)) /\ Len(X) = Len(A) + Len(B)
          /\ \A k \in 1..(Len(A) + Len(B)) : X[k] = IF k <= Len(A) THEN A[k] ELSE B[k - Len(A)]
      BY <2>2, <2>5, <2>6, ConcatProperties
    <3>2. Len(A) + Len(B) = n - 1
      BY <1>n, <2>3, <2>5, <2>6
    <3>3. ASSUME NEW k \in 1..(n - 1), k < r PROVE X[k] = U[k]
      <4>1. k <= Len(A) /\ k \in 1..(r - 1) /\ k \in 1..(Len(A) + Len(B))
        BY <1>n, <2>3, <2>5, <3>2, <3>3
      <4> QED
        BY <2>5, <3>1, <4>1
    <3>4. ASSUME NEW k \in 1..(n - 1), ~(k < r) PROVE X[k] = U[k + 1]
      <4>1. /\ ~(k <= Len(A)) /\ k - Len(A) \in 1..(n - r) /\ r + (k - Len(A)) = k + 1
            /\ k \in 1..(Len(A) + Len(B))
        BY <1>n, <2>3, <2>5, <3>2, <3>4
      <4> QED
        BY <2>6, <3>1, <4>1
    <3> QED
      BY <3>1, <3>2, <3>3, <3>4
  <2>8. PICK h : h = [k \in 1..(n - 1) |-> IF k < r THEN k ELSE k + 1]
    OBVIOUS
  <2>9. \A m \in 1..n : U[m].packet = p => m = r
    BY <2>1 DEF n
  <2>10. /\ h \in [1..(n - 1) -> 1..n]
         /\ \A k \in 1..(n - 1) : h[k] # r
         /\ \A k, l \in 1..(n - 1) : k < l => h[k] < h[l]
    BY <1>n, <2>3, <2>8
  <2>11. \A k \in 1..(n - 1) : X[k] = U[h[k]]
    BY <2>7, <2>8
  <2>12. \A k \in 1..(n - 1) : X[k].packet # p
    BY <2>9, <2>10, <2>11
  <2>13. ASSUME NEW m \in 1..n, U[m].packet # p PROVE \E k \in 1..(n - 1) : h[k] = m
    <3>1. m # r
      BY <2>1, <2>13
    <3>2. CASE m < r
      <4>1. m \in 1..(n - 1) /\ h[m] = m
        BY <1>n, <2>3, <2>8, <3>2
      <4> QED
        BY <4>1
    <3>3. CASE m > r
      <4>1. m - 1 \in 1..(n - 1) /\ h[m - 1] = m
        BY <1>n, <2>3, <2>8, <3>3
      <4> QED
        BY <4>1
    <3> QED
      BY <2>3, <3>1, <3>2, <3>3
  <2>14. n - 1 \in Nat /\ n - 1 <= n
    BY <1>n, <2>3
  <2>15. Len(X) \in Nat /\ Len(X) <= n
    BY <2>7, <2>14
  <2>16. /\ h \in [1..Len(X) -> 1..n]
         /\ \A k \in 1..Len(X) : X[k] = U[h[k]] /\ X[k].packet # p
         /\ \A k, l \in 1..Len(X) : k < l => h[k] < h[l]
         /\ \A m \in 1..n : U[m].packet # p => \E k \in 1..Len(X) : h[k] = m
    BY Zenon, <2>7, <2>10, <2>11, <2>12, <2>13
  <2> QED
    BY Zenon, <2>7, <2>15, <2>16 DEF n, X
<1> QED
  BY <1>1, <1>2

(* A table holds a packet once.                                            *)
LEMMA HeldOnce ==
  ASSUME NEW T, NEW log, Len(T) \in Nat, Len(log) \in Nat, Marks(T, log), Ordered(T, log),
         NEW k \in 1..Len(T), NEW l \in 1..Len(T), k < l
  PROVE  T[k].packet # T[l].packet
<1>1. SUFFICES ASSUME T[k].packet = T[l].packet PROVE FALSE
  OBVIOUS
<1>2. PICK i \in LastIn(log, T[k].packet) : TRUE
  BY DEF Marks
<1>3. i < i
  BY <1>1, <1>2 DEF Ordered
<1>4. i \in Nat
  BY <1>2 DEF LastIn
<1> QED
  BY <1>3, <1>4

LEMMA ManyStays ==
  ASSUME NEW log \in Seq(Entries(Packets)), NEW p \in Packets, NEW t \in Nat,
         NEW i \in 1..Len(log), Many(log, i)
  PROVE  Many(Append(log, [packet |-> p, at |-> t]), i)
<1> DEFINE more == Append(log, [packet |-> p, at |-> t])
           S == After(more, i)
           R == After(log, i)
<1>1. /\ more \in Seq(Entries(Packets)) /\ Len(log) \in Nat /\ Len(more) = Len(log) + 1
      /\ \A k \in 1..Len(log) : more[k] = log[k]
  BY LongerLog
<1> HIDE DEF more
<1>2. R \in SUBSET S
  <2>1. ASSUME NEW k \in (i + 1)..Len(log) PROVE log[k].packet \in S
    <3>1. k \in (i + 1)..Len(more) /\ more[k].packet = log[k].packet
      BY <1>1
    <3> QED
      BY <3>1 DEF After
  <2> QED
    BY <2>1 DEF After
<1>3. i \in 1..Len(more) /\ Len(more) \in Nat
  BY <1>1
<1>4. IsFiniteSet(S) /\ Cardinality(S) \in Nat /\ Cardinality(R) \in Nat
  BY <1>1, <1>3, AfterFinite
<1> HIDE DEF S, R
<1>5. Cardinality(R) <= Cardinality(S)
  BY <1>2, <1>4, FS_Subset
<1>6. Cardinality(R) >= Capacity /\ Capacity \in Nat
  BY TableAssumption DEF Many, R
<1>7. Cardinality(S) >= Capacity
  BY <1>4, <1>5, <1>6
<1> QED
  BY <1>7 DEF Many, S, more

(* A packet that is marked goes to the end of the table as of the log.     *)
LEMMA RefreshedWindow ==
  ASSUME NEW U, NEW log, NEW t \in Nat, IsLog(log, t), Window(U, log, t), NEW p \in Packets
  PROVE  /\ Window(Refreshed(U, p, t), Append(log, [packet |-> p, at |-> t]), t)
         /\ Len(Refreshed(U, p, t)) \in Nat /\ Len(Refreshed(U, p, t)) <= Len(U) + 1
<1> DEFINE e == [packet |-> p, at |-> t]
           n == Len(log)
           more == Append(log, e)
           X == Without(U, p)
           x == Len(X)
           R == Append(X, e)
<1>n. Len(U) \in Nat /\ U \in Seq(Entries(Packets)) /\ log \in Seq(Entries(Packets))
  BY LenProperties DEF Window, IsLog
<1>1. /\ n \in Nat /\ Len(more) = n + 1
      /\ \A i \in 1..n : more[i] = log[i]
      /\ more[n + 1] = e
      /\ LastIn(more, p) = {n + 1}
      /\ \A q : q # p => LastIn(more, q) = LastIn(log, q)
  BY <1>n, LongerLog
<1>2. \A k, l \in 1..Len(U) : U[k].packet = p /\ U[l].packet = p => k = l
  <2> SUFFICES ASSUME NEW k \in 1..Len(U), NEW l \in 1..Len(U), U[k].packet = U[l].packet, k # l
               PROVE  FALSE
    OBVIOUS
  <2>1. k < l \/ l < k
    BY <1>n
  <2> QED
    BY <1>n, <1>1, <2>1, HeldOnce DEF Window
<1>3. /\ X \in Seq(Entries(Packets)) /\ x \in Nat /\ x <= Len(U)
      /\ \E h \in [1..x -> 1..Len(U)] :
           /\ \A k \in 1..x : X[k] = U[h[k]] /\ X[k].packet # p
           /\ \A k, l \in 1..x : k < l => h[k] < h[l]
           /\ \A m \in 1..Len(U) : U[m].packet # p => \E k \in 1..x : h[k] = m
  BY Zenon, <1>n, <1>2, Popped
<1> HIDE DEF X, x
<1>4. PICK h \in [1..x -> 1..Len(U)] :
           /\ \A k \in 1..x : X[k] = U[h[k]] /\ X[k].packet # p
           /\ \A k, l \in 1..x : k < l => h[k] < h[l]
           /\ \A m \in 1..Len(U) : U[m].packet # p => \E k \in 1..x : h[k] = m
  BY <1>3
<1>5. /\ R \in Seq(Entries(Packets)) /\ Len(R) = x + 1
      /\ \A k \in 1..x : R[k] = X[k]
      /\ R[x + 1] = e /\ e.packet = p /\ e.at = t
  <2>1. e \in Entries(Packets)
    BY DEF Entries
  <2> QED
    BY <1>3, <2>1, AppendProperties DEF x
<1> HIDE DEF R, e, more
<1>6. ASSUME NEW k \in 1..(x + 1), k # x + 1
      PROVE  /\ k \in 1..x /\ h[k] \in 1..Len(U) /\ R[k] = U[h[k]] /\ R[k].packet # p
             /\ LastIn(more, R[k].packet) = LastIn(log, U[h[k]].packet)
  <2>1. k \in 1..x
    BY <1>3, <1>6
  <2> QED
    BY <1>1, <1>4, <1>5, <2>1
<1>7. ASSUME NEW q, NEW i \in LastIn(log, q) PROVE i \in 1..n
  BY <1>7 DEF LastIn
<1> HIDE DEF n
<1>8. Marks(R, more)
  <2> SUFFICES ASSUME NEW k \in 1..(x + 1)
               PROVE  \E i \in LastIn(more, R[k].packet) : more[i].at = R[k].at
    BY <1>5 DEF Marks
  <2>1. CASE k = x + 1
    BY <1>1, <1>5, <2>1
  <2>2. CASE k # x + 1
    <3>1. PICK i \in LastIn(log, U[h[k]].packet) : log[i].at = U[h[k]].at
      BY <1>6, <2>2 DEF Window, Marks
    <3>2. more[i].at = R[k].at
      BY <1>1, <1>6, <1>7, <2>2, <3>1
    <3> QED
      BY <1>6, <2>2, <3>1, <3>2
  <2> QED
    BY <2>1, <2>2
<1>9. Ordered(R, more)
  <2> SUFFICES ASSUME NEW k \in 1..(x + 1), NEW l \in 1..(x + 1), k < l,
                      NEW i \in LastIn(more, R[k].packet), NEW j \in LastIn(more, R[l].packet)
               PROVE  i < j
    BY <1>5 DEF Ordered
  <2>1. k # x + 1
    BY <1>3
  <2>2. i \in LastIn(log, U[h[k]].packet) /\ i \in 1..n
    BY <1>6, <1>7, <2>1
  <2>3. CASE l = x + 1
    <3>1. j = n + 1
      BY <1>1, <1>5, <2>3
    <3> QED
      BY <1>1, <2>2, <3>1
  <2>4. CASE l # x + 1
    <3>1. h[k] < h[l]
      BY <1>4, <1>6, <2>1, <2>4
    <3>2. j \in LastIn(log, U[h[l]].packet)
      BY <1>6, <2>4
    <3> QED
      BY <1>6, <2>1, <2>2, <2>4, <3>1, <3>2 DEF Window, Ordered
  <2> QED
    BY <2>3, <2>4
<1>10. Newest(R, more, t)
  <2> SUFFICES ASSUME NEW q \in Packets, ~Holds(R, q), NEW i \in LastIn(more, q)
               PROVE  /\ Stale(more, i, t) \/ Many(more, i)
                      /\ \A k \in 1..Len(R) : \A j \in LastIn(more, R[k].packet) : i < j
    BY DEF Newest
  <2>1. \A k \in 1..(x + 1) : R[k].packet # q
    BY <1>5 DEF Holds
  <2>2. q # p
    <3>1. x + 1 \in 1..(x + 1)
      BY <1>3
    <3> QED
      BY <1>5, <2>1, <3>1
  <2>3. i \in LastIn(log, q) /\ i \in 1..n
    BY <1>1, <1>7, <2>2
  <2>4. ~Holds(U, q)
    <3> SUFFICES ASSUME NEW m \in 1..Len(U), U[m].packet = q PROVE FALSE
      BY DEF Holds
    <3>1. PICK k \in 1..x : h[k] = m
      BY <1>4, <2>2
    <3>2. k \in 1..(x + 1) /\ R[k].packet = q
      BY <1>3, <1>4, <1>5, <3>1
    <3> QED
      BY <2>1, <3>2
  <2>5. /\ Stale(log, i, t) \/ Many(log, i)
        /\ \A k \in 1..Len(U) : \A j \in LastIn(log, U[k].packet) : i < j
    BY <2>3, <2>4 DEF Window, Newest
  <2>6. Stale(more, i, t) \/ Many(more, i)
    <3>1. CASE Stale(log, i, t)
      BY <1>1, <2>3, <3>1 DEF Stale
    <3>2. CASE Many(log, i)
      BY <1>n, <2>3, <3>2, ManyStays DEF more, e, n
    <3> QED
      BY <2>5, <3>1, <3>2
  <2>7. ASSUME NEW k \in 1..(x + 1), NEW j \in LastIn(more, R[k].packet) PROVE i < j
    <3>1. CASE k = x + 1
      <4>1. j = n + 1
        BY <1>1, <1>5, <3>1
      <4> QED
        BY <1>1, <2>3, <4>1
    <3>2. CASE k # x + 1
      <4>1. h[k] \in 1..Len(U) /\ j \in LastIn(log, U[h[k]].packet)
        BY <1>6, <3>2
      <4> QED
        BY <2>5, <4>1
    <3> QED
      BY <3>1, <3>2
  <2> QED
    BY <1>5, <2>6, <2>7
<1>11. R = Refreshed(U, p, t)
  BY DEF R, X, e, Refreshed
<1>12. Len(R) \in Nat /\ Len(R) <= Len(U) + 1
  BY <1>n, <1>3, <1>5
<1>13. Window(R, more, t)
  BY <1>5, <1>8, <1>9, <1>10 DEF Window
<1> QED
  BY <1>11, <1>12, <1>13 DEF more, e

(* What is evicted has a full table of others after it.                    *)
LEMMA EvictedWindow ==
  ASSUME NEW V, NEW log, NEW t \in Nat, Len(log) \in Nat, Window(V, log, t)
  PROVE  /\ Window(Evicted(V), log, t)
         /\ Len(Evicted(V)) \in Nat /\ Len(Evicted(V)) <= Capacity
<1> DEFINE v == Len(V)
           f == v - Capacity + 1
           W == SubSeq(V, f, v)
<1>n. v \in Nat /\ V \in Seq(Entries(Packets)) /\ Capacity \in Nat
  BY LenProperties, TableAssumption DEF Window
<1>1. CASE v <= Capacity
  <2>1. Evicted(V) = V
    BY <1>n, <1>1 DEF Evicted
  <2> QED
    BY <1>n, <1>1, <2>1
<1>2. CASE v > Capacity
  <2>1. Evicted(V) = W
    BY <1>2 DEF Evicted
  <2>2. f \in 1..(v + 1) /\ v - f + 1 = Capacity
    BY <1>n, <1>2
  <2> HIDE DEF f
  <2>3. /\ W \in Seq(Entries(Packets)) /\ Len(W) \in Nat /\ Len(W) = v - f + 1
        /\ \A k \in 1..Len(W) : f + k - 1 \in 1..v /\ W[k] = V[f + k - 1]
        /\ \A k \in f..v : k - f + 1 \in 1..Len(W) /\ V[k] = W[k - f + 1]
    BY <1>n, <2>2, Suffix
  <2>4. Len(W) = Capacity
    BY <2>2, <2>3
  <2>w. Marks(V, log) /\ Ordered(V, log) /\ Newest(V, log, t)
    BY DEF Window
  <2> HIDE DEF W, v
  <2>5. Marks(W, log)
    <3> SUFFICES ASSUME NEW k \in 1..Len(W)
                 PROVE  \E i \in LastIn(log, W[k].packet) : log[i].at = W[k].at
      BY DEF Marks
    <3>1. f + k - 1 \in 1..Len(V) /\ W[k] = V[f + k - 1]
      BY <2>3 DEF v
    <3> QED
      BY <2>w, <3>1 DEF Marks
  <2>6. ASSUME NEW k \in 1..Len(V), k < f, NEW i \in LastIn(log, V[k].packet),
               NEW l \in 1..Len(W), NEW j \in LastIn(log, W[l].packet)
        PROVE  i < j
    <3>1. f + l - 1 \in 1..Len(V) /\ k < f + l - 1 /\ W[l] = V[f + l - 1]
      BY <1>n, <2>2, <2>3, <2>6 DEF v
    <3> QED
      BY <2>w, <3>1 DEF Ordered
  <2>7. Ordered(W, log)
    <3> SUFFICES ASSUME NEW k \in 1..Len(W), NEW l \in 1..Len(W), k < l,
                        NEW i \in LastIn(log, W[k].packet), NEW j \in LastIn(log, W[l].packet)
                 PROVE  i < j
      BY DEF Ordered
    <3>1. f + k - 1 \in 1..Len(V) /\ f + l - 1 \in 1..Len(V) /\ f + k - 1 < f + l - 1
      BY <1>n, <2>2, <2>3 DEF v
    <3>2. W[k] = V[f + k - 1] /\ W[l] = V[f + l - 1]
      BY <2>3
    <3> QED
      BY <2>w, <3>1, <3>2 DEF Ordered
  <2>8. ASSUME NEW k \in 1..Len(V), k < f, NEW i \in LastIn(log, V[k].packet) PROVE Many(log, i)
    <3> DEFINE S == After(log, i)
               g == [l \in 1..Capacity |-> W[l].packet]
    <3>1. i \in 1..Len(log)
      BY DEF LastIn
    <3>2. \A l \in 1..Capacity : g[l] \in S
      <4> SUFFICES ASSUME NEW l \in 1..Capacity PROVE W[l].packet \in S
        OBVIOUS
      <4>1. PICK j \in LastIn(log, W[l].packet) : TRUE
        BY <2>4, <2>5 DEF Marks
      <4>2. i < j
        BY <2>4, <2>6, <2>8
      <4>3. j \in (i + 1)..Len(log) /\ log[j].packet = W[l].packet
        BY <3>1, <4>1, <4>2 DEF LastIn
      <4> QED
        BY <4>3 DEF After
    <3>3. \A l, m \in 1..Capacity : l < m => g[l] # g[m]
      <4> SUFFICES ASSUME NEW l \in 1..Capacity, NEW m \in 1..Capacity, l < m
                   PROVE  W[l].packet # W[m].packet
        OBVIOUS
      <4>1. l \in 1..Len(W) /\ m \in 1..Len(W)
        BY <2>4
      <4> QED
        BY <2>3, <2>5, <2>7, <4>1, HeldOnce
    <3>4. IsFiniteSet(S) /\ Cardinality(S) \in Nat
      BY <3>1, AfterFinite
    <3> HIDE DEF S, g
    <3>5. Cardinality(S) >= Capacity
      BY <1>n, <3>2, <3>3, <3>4, DistinctCount
    <3> QED
      BY <3>5 DEF Many, S
  <2>9. Newest(W, log, t)
    <3> SUFFICES ASSUME NEW p \in Packets, ~Holds(W, p), NEW i \in LastIn(log, p)
                 PROVE  /\ Stale(log, i, t) \/ Many(log, i)
                        /\ \A l \in 1..Len(W) : \A j \in LastIn(log, W[l].packet) : i < j
      BY DEF Newest
    <3>1. CASE ~Holds(V, p)
      <4>1. /\ Stale(log, i, t) \/ Many(log, i)
            /\ \A k \in 1..Len(V) : \A j \in LastIn(log, V[k].packet) : i < j
        BY <2>w, <3>1 DEF Newest
      <4>2. \A l \in 1..Len(W) : f + l - 1 \in 1..Len(V) /\ W[l] = V[f + l - 1]
        BY <2>3 DEF v
      <4> QED
        BY <4>1, <4>2
    <3>2. CASE Holds(V, p)
      <4>1. PICK k \in 1..Len(V) : V[k].packet = p
        BY <3>2 DEF Holds
      <4>2. k < f
        <5>1. ASSUME ~(k < f) PROVE FALSE
          <6>1. k \in f..v
            BY <1>n, <2>2, <5>1 DEF v
          <6>2. k - f + 1 \in 1..Len(W) /\ W[k - f + 1].packet = p
            BY <2>3, <4>1, <6>1
          <6> QED
            BY <6>2 DEF Holds
        <5> QED
          BY <5>1
      <4>3. Many(log, i)
        BY <2>8, <4>1, <4>2
      <4>4. ASSUME NEW l \in 1..Len(W), NEW j \in LastIn(log, W[l].packet) PROVE i < j
        BY <2>6, <4>1, <4>2
      <4> QED
        BY <4>3, <4>4
    <3> QED
      BY <3>1, <3>2
  <2>10. Window(W, log, t)
    BY <2>3, <2>5, <2>7, <2>9 DEF Window
  <2>11. Len(W) \in Nat /\ Len(W) <= Capacity
    BY <1>n, <2>4
  <2> QED
    BY <2>1, <2>10, <2>11
<1> QED
  BY <1>n, <1>1, <1>2

(* mark: the three together.                                               *)
LEMMA MarkWindow ==
  ASSUME NEW T, NEW log, NEW t \in Nat, IsLog(log, t), Window(T, log, t), NEW p \in Packets
  PROVE  /\ IsLog(Append(log, [packet |-> p, at |-> t]), t)
         /\ Window(Mark(T, p, t), Append(log, [packet |-> p, at |-> t]), t)
         /\ Len(Mark(T, p, t)) <= Capacity
<1> DEFINE more == Append(log, [packet |-> p, at |-> t])
           U == Expired(T, t)
           V == Refreshed(U, p, t)
<1>1. IsLog(more, t)
  BY LogGrows
<1>2. Len(more) \in Nat
  BY <1>1, LenProperties DEF IsLog
<1>3. Window(U, log, t)
  BY ExpiredWindow
<1>4. Window(V, more, t)
  BY <1>3, RefreshedWindow
<1> HIDE DEF U, V, more
<1>5. Window(Evicted(V), more, t) /\ Len(Evicted(V)) <= Capacity
  BY <1>2, <1>4, EvictedWindow
<1> QED
  BY <1>1, <1>5 DEF Mark, U, V, more

LEMMA TickWindow ==
  ASSUME NEW T, NEW log, NEW t \in Nat, IsLog(log, t), Window(T, log, t)
  PROVE  IsLog(log, t + 1) /\ Window(T, log, t + 1)
<1>1. ASSUME NEW i \in 1..Len(log) PROVE log[i].at <= t + 1
  <2>1. log[i].at <= t /\ log[i].at \in Nat
    BY EntryFields DEF IsLog
  <2> QED
    BY <2>1
<1>2. ASSUME NEW i \in 1..Len(log), Stale(log, i, t) PROVE Stale(log, i, t + 1)
  <2>1. log[i].at \in Nat /\ Ttl \in Nat
    BY EntryFields, TableAssumption DEF IsLog
  <2> QED
    BY <1>2, <2>1 DEF Stale
<1>3. IsLog(log, t + 1)
  BY <1>1 DEF IsLog
<1>4. Newest(T, log, t + 1)
  <2>1. \A p : \A i \in LastIn(log, p) : i \in 1..Len(log)
    BY DEF LastIn
  <2> QED
    BY <1>2, <2>1 DEF Window, Newest
<1> QED
  BY <1>3, <1>4 DEF Window
---------------------------------------------------------------------------
(* The dispatcher's table                                                  *)

(* Whatever the time, the table is the window of the history.              *)
WindowInv == now >= 1 /\ IsLog(marks, now) /\ Window(table, marks, now)

(* Copies of a packet do not outlive its entry: whatever was sent or heard *)
(* is around, or waits to be transmitted, a bounded time after its mark.   *)
MeshInv ==
  /\ \A p \in Packets : until[p] <= now + EchoMax
  /\ \A p \in Packets : \A m \in LastIn(marks, p) :
       until[p] <= marks[m].at + SendTtl + EchoMax
  /\ \A item \in outbound : \E m \in LastIn(marks, item.packet) :
       item.expires <= marks[m].at + SendTtl
  /\ \A p \in Packets \ Own : LastIn(marks, p) # {} => until[p] # 0

(* The place of the first room that claims a packet.                       *)
FirstClaim(p, i) ==
  Rooms[i] \in Claimants[p] /\ \A j \in 1..(i - 1) : Rooms[j] \notin Claimants[p]

(* Only first rooms claim, and of a packet that was marked the first room  *)
(* has, unless its turn is still to come.                                  *)
RouteInv ==
  /\ \A pair \in claimed : \E i \in 1..Len(Rooms) : pair[2] = Rooms[i] /\ FirstClaim(pair[1], i)
  /\ \A p \in Packets : LastIn(marks, p) # {} /\ turn.packet # p =>
       \A i \in 1..Len(Rooms) : FirstClaim(p, i) => <<p, Rooms[i]>> \in claimed
  /\ turn # Idle => \A i \in 1..Len(Rooms) : Rooms[i] \in Claimants[turn.packet] => i \in turn.rooms

LEMMA Timing ==
  /\ Ttl \in Nat /\ SendTtl \in Nat /\ EchoMax \in Nat /\ SendTtl + EchoMax < Ttl
BY TableAssumption, TimingAssumption

LEMMA TimesAreNat ==
  ASSUME WindowInv, NEW p, NEW m \in LastIn(marks, p)
  PROVE  m \in 1..Len(marks) /\ marks[m].at \in Nat /\ marks[m].at <= now
<1>1. m \in 1..Len(marks)
  BY DEF LastIn
<1> QED
  BY <1>1, EntryFields DEF WindowInv, IsLog

LEMMA InitTypes == Init => TypeOK /\ WindowInv
<1> SUFFICES ASSUME Init PROVE TypeOK /\ WindowInv
  OBVIOUS
<1> USE DEF Init
<1>1. table = <<>> /\ marks = <<>> /\ now = 1
  OBVIOUS
<1>2. TypeOK
  <2>1. Capacity \in Nat
    BY TableAssumption
  <2> QED
    BY <2>1 DEF TypeOK, Entries
<1>3. \A p : LastIn(<<>>, p) = {}
  BY DEF LastIn
<1>4. IsLog(<<>>, 1) /\ Window(<<>>, <<>>, 1)
  BY <1>3 DEF IsLog, Window, Marks, Ordered, Newest
<1> QED
  BY <1>1, <1>2, <1>4 DEF WindowInv

(* A step that marks a packet keeps the table and its history.             *)
LEMMA MarkTypes ==
  ASSUME TypeOK, WindowInv, NEW p \in Packets, Marked(p), table' = Mark(table, p, now), now' = now
  PROVE  WindowInv' /\ table' \in Seq(Entries(Packets)) /\ Len(table') <= Capacity
         /\ marks' \in Seq(Entries(Packets))
<1> DEFINE log == Append(marks, [packet |-> p, at |-> now])
           T == Mark(table, p, now)
<1>1. now \in Nat /\ now >= 1 /\ IsLog(marks, now) /\ Window(table, marks, now)
  BY DEF TypeOK, WindowInv
<1>2. IsLog(log, now) /\ Window(T, log, now) /\ Len(T) <= Capacity
  BY <1>1, MarkWindow
<1>3. marks' = log /\ table' = T
  BY DEF Marked
<1> HIDE DEF log, T
<1>4. WindowInv'
  BY <1>1, <1>2, <1>3 DEF WindowInv
<1> QED
  BY <1>2, <1>3, <1>4 DEF IsLog, Window

LEMMA NextTypes == TypeOK /\ WindowInv /\ [Next]_vars => TypeOK' /\ WindowInv'
<1> SUFFICES ASSUME TypeOK, WindowInv, [Next]_vars PROVE TypeOK' /\ WindowInv'
  OBVIOUS
<1>n. now \in Nat /\ SendTtl \in Nat /\ EchoMax \in Nat
  BY Timing DEF TypeOK
<1>1. ASSUME NEW p \in Packets, Send(p) PROVE TypeOK' /\ WindowInv'
  <2>1. /\ WindowInv' /\ table' \in Seq(Entries(Packets)) /\ Len(table') <= Capacity
        /\ marks' \in Seq(Entries(Packets))
    BY <1>1, MarkTypes DEF Send, MarkedToSend
  <2>2. outbound' \subseteq [packet : Own, expires : Nat]
    BY <1>n, <1>1 DEF Send, TypeOK
  <2> QED
    BY <1>1, <2>1, <2>2 DEF Send, TypeOK
<1>2. ASSUME NEW p \in Packets, Dispatch(p) PROVE TypeOK' /\ WindowInv'
  <2>1. /\ WindowInv' /\ table' \in Seq(Entries(Packets)) /\ Len(table') <= Capacity
        /\ marks' \in Seq(Entries(Packets))
    BY <1>2, MarkTypes DEF Dispatch
  <2>2. turn' = Idle \/ turn' \in [packet : Packets, rooms : (SUBSET (1..Len(Rooms))) \ {{}}]
    <3>1. Candidates(p) \subseteq 1..Len(Rooms)
      BY DispatcherAssumption DEF Candidates, ByHash, Kinds
    <3> QED
      BY <1>2, <3>1 DEF Dispatch
  <2>3. until' \in [Packets -> Nat]
    BY <1>n, <1>2 DEF Dispatch, TypeOK
  <2> QED
    BY <1>2, <2>1, <2>2, <2>3 DEF Dispatch, TypeOK
<1>3. ASSUME NEW p \in Packets, Originate(p) PROVE TypeOK' /\ WindowInv'
  <2>1. until' \in [Packets -> Nat]
    BY <1>n, <1>3 DEF Originate, TypeOK
  <2> QED
    BY <1>3, <2>1 DEF Originate, TypeOK, WindowInv
<1>4. CASE Offer
  <2> DEFINE next == First(turn.rooms)
  <2>1. turn \in [packet : Packets, rooms : (SUBSET (1..Len(Rooms))) \ {{}}]
    BY <1>4 DEF Offer, TypeOK
  <2>2. next \in 1..Len(Rooms)
    <3>1. turn.rooms \in SUBSET (1..Len(Rooms)) /\ turn.rooms # {}
      BY <2>1
    <3>2. Len(Rooms) \in Nat
      BY DispatcherAssumption, LenProperties
    <3>3. \E i \in turn.rooms : \A j \in turn.rooms : i <= j
      BY <3>1, <3>2, LeastExists
    <3> QED
      BY <3>1, <3>3 DEF First
  <2>3. Rooms[next] \in RoomSet /\ turn.packet \in Packets
    BY <2>1, <2>2 DEF RoomSet
  <2> HIDE DEF next
  <2>4. \/ claimed' = claimed \cup {<<turn.packet, Rooms[next]>>} /\ turn' = Idle
        \/ /\ turn' = IF turn.rooms \ {next} = {} THEN Idle
                      ELSE [turn EXCEPT !.rooms = turn.rooms \ {next}]
           /\ claimed' = claimed
    BY <1>4 DEF Offer, next
  <2>5. claimed' \subseteq Packets \X RoomSet
    BY <2>3, <2>4 DEF TypeOK
  <2>6. turn' = Idle \/ turn' \in [packet : Packets, rooms : (SUBSET (1..Len(Rooms))) \ {{}}]
    BY <2>1, <2>4
  <2> QED
    BY <1>4, <2>5, <2>6 DEF Offer, TypeOK, WindowInv
<1>5. CASE Tick
  <2>1. IsLog(marks, now + 1) /\ Window(table, marks, now + 1)
    BY <1>n, TickWindow DEF WindowInv
  <2>2. now' = now + 1 /\ now' >= 1
    BY <1>n, <1>5 DEF Tick
  <2> QED
    BY <1>n, <1>5, <2>1, <2>2 DEF Tick, TypeOK, WindowInv
<1>6. ASSUME NEW item \in outbound, Transmit(item) PROVE TypeOK' /\ WindowInv'
  <2>1. until' \in [Packets -> Nat]
    <3>1. now + EchoMax \in Nat /\ until \in [Packets -> Nat]
      BY <1>n DEF TypeOK
    <3>2. until' = [until EXCEPT ![item.packet] = now + EchoMax]
      BY <1>6 DEF Transmit
    <3> QED
      BY <3>1, <3>2
  <2>2. outbound' \subseteq [packet : Own, expires : Nat]
    BY <1>6 DEF Transmit, TypeOK
  <2> QED
    BY <1>6, <2>1, <2>2 DEF Transmit, TypeOK, WindowInv
<1>7. ASSUME NEW item \in outbound, Drop(item) PROVE TypeOK' /\ WindowInv'
  BY <1>7 DEF Drop, TypeOK, WindowInv
<1>8. CASE UNCHANGED vars
  BY <1>8 DEF vars, TypeOK, WindowInv
<1> QED
  BY <1>1, <1>2, <1>3, <1>4, <1>5, <1>6, <1>7, <1>8 DEF Next

LEMMA TypesAlways == Spec => [](TypeOK /\ WindowInv)
<1>1. Init => TypeOK /\ WindowInv
  BY InitTypes
<1>2. (TypeOK /\ WindowInv) /\ [Next]_vars => (TypeOK /\ WindowInv)'
  BY NextTypes
<1> QED
  BY <1>1, <1>2, PTL DEF Spec

(* Every variable has its type, and the table its capacity (TypeOK).       *)
THEOREM DispatcherTypes == Spec => []TypeOK
BY TypesAlways, PTL

(* The table says at any time what the whole history says of a packet      *)
(* (TableIsWindow, mesh/dedupe.py), whatever its capacity, the packets and *)
(* their order: by WindowInv, of which this is the part one can see.       *)
THEOREM TableAlwaysWindow == Spec => []TableIsWindow
<1>1. TypeOK /\ WindowInv => TableIsWindow
  <2> SUFFICES ASSUME TypeOK, WindowInv, NEW p \in Packets
               PROVE  Seen(table, p, now) <=> /\ \E i \in LastMark(p) : marks[i].at + Ttl > now
                                              /\ ~Outnumbered(p)
    BY DEF TableIsWindow
  <2>1. Seen(table, p, now) <=> /\ \E i \in LastIn(marks, p) : marks[i].at + Ttl > now
                                /\ ~\E i \in LastIn(marks, p) : Many(marks, i)
    BY SeenInWindow DEF TypeOK, WindowInv
  <2>2. LastMark(p) = LastIn(marks, p)
    BY DEF LastMark, LastIn
  <2>3. Outnumbered(p) <=> \E i \in LastIn(marks, p) : Many(marks, i)
    BY <2>2 DEF Outnumbered, Many, After
  <2> QED
    BY <2>1, <2>2, <2>3
<1> QED
  BY <1>1, TypesAlways, PTL

---------------------------------------------------------------------------
(* Packets on the air                                                      *)

(* What a mark changes: the last mark of its packet, and no other.         *)
LEMMA MarkedLast ==
  ASSUME TypeOK, NEW p \in Packets, Marked(p)
  PROVE  /\ LastIn(marks', p) = {Len(marks) + 1} /\ marks'[Len(marks) + 1].at = now
         /\ \A q : q # p => /\ LastIn(marks', q) = LastIn(marks, q)
                            /\ \A m \in LastIn(marks, q) : marks'[m] = marks[m]
<1> DEFINE more == Append(marks, [packet |-> p, at |-> now])
<1>1. marks \in Seq(Entries(Packets)) /\ now \in Nat /\ marks' = more
  BY DEF TypeOK, Marked
<1>2. /\ \A i \in 1..Len(marks) : more[i] = marks[i]
      /\ more[Len(marks) + 1] = [packet |-> p, at |-> now]
      /\ LastIn(more, p) = {Len(marks) + 1}
      /\ \A q : q # p => LastIn(more, q) = LastIn(marks, q)
  BY <1>1, LongerLog
<1> HIDE DEF more
<1>3. \A q : \A m \in LastIn(marks, q) : m \in 1..Len(marks)
  BY DEF LastIn
<1> QED
  BY <1>1, <1>2, <1>3

(* A step that marks a packet, and sets how long it is around or waits.    *)
LEMMA MarkMesh ==
  ASSUME TypeOK, WindowInv, MeshInv, NEW p \in Packets, Marked(p), now' = now,
         until' \in [Packets -> Nat],
         \A q \in Packets : q # p => until'[q] = until[q],
         until'[p] <= now + EchoMax, p \notin Own => until'[p] # 0,
         \A item \in outbound' : item \in outbound \/ item = [packet |-> p, expires |-> now + SendTtl]
  PROVE  MeshInv'
<1>n. now \in Nat /\ SendTtl \in Nat /\ EchoMax \in Nat
  BY Timing DEF TypeOK
<1> DEFINE n == Len(marks) + 1
<1>1. /\ LastIn(marks', p) = {n} /\ marks'[n].at = now
      /\ \A q : q # p => /\ LastIn(marks', q) = LastIn(marks, q)
                         /\ \A m \in LastIn(marks, q) : marks'[m] = marks[m]
  BY MarkedLast
<1> HIDE DEF n
<1>2. ASSUME NEW q \in Packets PROVE until'[q] <= now + EchoMax
  BY DEF MeshInv
<1>3. ASSUME NEW q \in Packets, NEW m \in LastIn(marks', q)
      PROVE  until'[q] <= marks'[m].at + SendTtl + EchoMax
  <2>1. CASE q = p
    <3>1. marks'[m].at = now /\ until'[q] \in Nat
      BY <1>1, <2>1
    <3> QED
      BY <1>n, <1>2, <3>1
  <2>2. CASE q # p
    <3>1. m \in LastIn(marks, q) /\ marks'[m] = marks[m]
      BY <1>1, <2>2
    <3> QED
      BY <2>2, <3>1 DEF MeshInv
  <2> QED
    BY <2>1, <2>2
<1>4. ASSUME NEW item \in outbound'
      PROVE  \E m \in LastIn(marks', item.packet) : item.expires <= marks'[m].at + SendTtl
  <2>1. CASE item.packet = p
    <3>1. item.expires <= now + SendTtl
      <4>1. CASE item = [packet |-> p, expires |-> now + SendTtl]
        BY <1>n, <4>1
      <4>2. CASE item \in outbound
        <5>1. PICK m \in LastIn(marks, item.packet) : item.expires <= marks[m].at + SendTtl
          BY <4>2 DEF MeshInv
        <5>2. marks[m].at \in Nat /\ marks[m].at <= now
          BY <5>1, TimesAreNat
        <5>3. item.expires \in Nat
          BY <4>2 DEF TypeOK
        <5> QED
          BY <1>n, <5>1, <5>2, <5>3
      <4> QED
        BY <4>1, <4>2
    <3> QED
      BY <1>1, <2>1, <3>1
  <2>2. CASE item.packet # p
    <3>1. item \in outbound
      BY <2>2
    <3>2. PICK m \in LastIn(marks, item.packet) : item.expires <= marks[m].at + SendTtl
      BY <3>1 DEF MeshInv
    <3>3. m \in LastIn(marks', item.packet) /\ marks'[m] = marks[m]
      BY <1>1, <2>2, <3>2
    <3> QED
      BY <3>2, <3>3
  <2> QED
    BY <2>1, <2>2
<1>5. ASSUME NEW q \in Packets \ Own, LastIn(marks', q) # {} PROVE until'[q] # 0
  <2>1. CASE q = p
    BY <2>1
  <2>2. CASE q # p
    BY <1>1, <1>5, <2>2 DEF MeshInv
  <2> QED
    BY <2>1, <2>2
<1> QED
  BY <1>2, <1>3, <1>4, <1>5 DEF MeshInv

LEMMA InitMesh == Init => MeshInv
<1> SUFFICES ASSUME Init PROVE MeshInv
  OBVIOUS
<1>1. \A p : LastIn(marks, p) = {}
  BY DEF Init, LastIn
<1>2. \A p \in Packets : until[p] = 0
  BY DEF Init
<1>3. now = 1 /\ outbound = {} /\ EchoMax \in Nat
  BY Timing DEF Init
<1> QED
  BY <1>1, <1>2, <1>3 DEF MeshInv

LEMMA NextMesh == TypeOK /\ WindowInv /\ MeshInv /\ [Next]_vars => MeshInv'
<1> SUFFICES ASSUME TypeOK, WindowInv, MeshInv, [Next]_vars PROVE MeshInv'
  OBVIOUS
<1>n. now \in Nat /\ SendTtl \in Nat /\ EchoMax \in Nat /\ now >= 1
  BY Timing DEF TypeOK, WindowInv
<1>u. until \in [Packets -> Nat]
  BY DEF TypeOK
<1>1. ASSUME NEW p \in Packets, Send(p) PROVE MeshInv'
  <2>1. Marked(p) /\ now' = now /\ until' = until /\ p \in Own
    BY <1>1 DEF Send
  <2>2. \A item \in outbound' : item \in outbound \/ item = [packet |-> p, expires |-> now + SendTtl]
    BY <1>1 DEF Send
  <2>3. until'[p] <= now + EchoMax
    BY <2>1 DEF MeshInv
  <2> QED
    BY <1>u, <2>1, <2>2, <2>3, MarkMesh
<1>2. ASSUME NEW p \in Packets, Dispatch(p) PROVE MeshInv'
  <2>1. Marked(p) /\ now' = now /\ outbound' = outbound
        /\ until' = [until EXCEPT ![p] = now + EchoMax]
    BY <1>2 DEF Dispatch
  <2>2. /\ until' \in [Packets -> Nat] /\ until'[p] = now + EchoMax
        /\ \A q \in Packets : q # p => until'[q] = until[q]
    BY <1>n, <1>u, <2>1
  <2>3. until'[p] <= now + EchoMax /\ until'[p] # 0
    BY <1>n, <2>2
  <2> QED
    BY <2>1, <2>2, <2>3, MarkMesh
<1>3. ASSUME NEW p \in Packets, Originate(p) PROVE MeshInv'
  <2>1. marks' = marks /\ now' = now /\ outbound' = outbound
    BY <1>3 DEF Originate
  <2>2. /\ until' \in [Packets -> Nat] /\ until'[p] = now + EchoMax
        /\ \A q \in Packets : q # p => until'[q] = until[q]
    BY <1>n, <1>u, <1>3 DEF Originate
  <2>3. LastIn(marks, p) = {}
    BY <1>3 DEF Originate, MeshInv
  <2> QED
    BY <1>n, <2>1, <2>2, <2>3 DEF MeshInv
<1>4. CASE Offer
  BY <1>4 DEF Offer, MeshInv
<1>5. CASE Tick
  <2>1. \A p \in Packets : until[p] <= now + 1 + EchoMax
    <3> SUFFICES ASSUME NEW p \in Packets PROVE until[p] <= now + 1 + EchoMax
      OBVIOUS
    <3>1. until[p] \in Nat /\ until[p] <= now + EchoMax
      BY <1>u DEF MeshInv
    <3> QED
      BY <1>n, <3>1
  <2>2. now' = now + 1 /\ until' = until /\ marks' = marks /\ outbound' = outbound
    BY <1>5 DEF Tick
  <2> QED
    BY <2>1, <2>2 DEF MeshInv
<1>6. ASSUME NEW item \in outbound, Transmit(item) PROVE MeshInv'
  <2> DEFINE p == item.packet
  <2>1. marks' = marks /\ now' = now /\ outbound' \subseteq outbound
    BY <1>6 DEF Transmit
  <2>2. p \in Packets /\ item.expires \in Nat /\ now <= item.expires
    BY <1>6, DispatcherAssumption DEF Transmit, TypeOK
  <2>3. /\ until'[p] = now + EchoMax
        /\ \A q \in Packets : q # p => until'[q] = until[q]
    <3>1. until' = [until EXCEPT ![p] = now + EchoMax]
      BY <1>6 DEF Transmit
    <3> QED
      BY <1>u, <2>2, <3>1
  <2>4. ASSUME NEW m \in LastIn(marks, p) PROVE until'[p] <= marks[m].at + SendTtl + EchoMax
    <3>1. PICK k \in LastIn(marks, p) : item.expires <= marks[k].at + SendTtl
      BY DEF MeshInv
    <3>2. k = m
      <4>1. Len(marks) \in Nat
        BY LenProperties DEF TypeOK
      <4> QED
        BY <3>1, <4>1, OneLast
    <3>3. marks[m].at \in Nat
      BY TimesAreNat
    <3> QED
      BY <1>n, <2>2, <2>3, <3>1, <3>2, <3>3
  <2> HIDE DEF p
  <2>5. ASSUME NEW q \in Packets PROVE until'[q] <= now' + EchoMax
    BY <1>n, <2>1, <2>3 DEF MeshInv
  <2>6. ASSUME NEW q \in Packets, NEW m \in LastIn(marks', q)
        PROVE  until'[q] <= marks'[m].at + SendTtl + EchoMax
    BY <2>1, <2>3, <2>4 DEF MeshInv
  <2>7. ASSUME NEW q \in Packets \ Own, LastIn(marks', q) # {} PROVE until'[q] # 0
    BY <1>n, <2>1, <2>3, <2>7 DEF MeshInv
  <2>8. \A other \in outbound' : \E m \in LastIn(marks', other.packet) :
          other.expires <= marks'[m].at + SendTtl
    BY <2>1 DEF MeshInv
  <2> QED
    BY <2>5, <2>6, <2>7, <2>8 DEF MeshInv
<1>7. ASSUME NEW item \in outbound, Drop(item) PROVE MeshInv'
  BY <1>7 DEF Drop, MeshInv
<1>8. CASE UNCHANGED vars
  BY <1>8 DEF vars, MeshInv
<1> QED
  BY <1>1, <1>2, <1>3, <1>4, <1>5, <1>6, <1>7, <1>8 DEF Next

LEMMA MeshAlways == Spec => [](TypeOK /\ WindowInv /\ MeshInv)
<1>1. Init => TypeOK /\ WindowInv /\ MeshInv
  BY InitTypes, InitMesh
<1>2. (TypeOK /\ WindowInv /\ MeshInv) /\ [Next]_vars => (TypeOK /\ WindowInv /\ MeshInv)'
  BY NextTypes, NextMesh
<1> QED
  BY <1>1, <1>2, PTL DEF Spec

(* A packet is offered to rooms once (HandledOnce, mesh/dispatcher.py): it *)
(* is heard only while copies of it are around (MeshInv), and until then   *)
(* its entry is in the table, unless a full table of others came after it  *)
(* (WindowInv).  It takes SendTtl + EchoMax < Ttl, TimingAssumption.       *)
THEOREM PacketsHandledOnce == Spec => HandledOnce
<1>1. TypeOK /\ WindowInv /\ MeshInv /\ [Next]_vars =>
        [\A p \in Packets :
           turn = Idle /\ turn' # Idle /\ turn'.packet = p =>
             LastMark(p) = {} \/ Outnumbered(p)]_vars
  <2> SUFFICES ASSUME TypeOK, WindowInv, MeshInv, Next, NEW p \in Packets,
                      turn = Idle, turn' # Idle, turn'.packet = p, LastMark(p) # {}
               PROVE  Outnumbered(p)
    BY DEF vars
  <2>n. now \in Nat /\ Ttl \in Nat /\ SendTtl \in Nat /\ EchoMax \in Nat
        /\ SendTtl + EchoMax < Ttl
    BY Timing DEF TypeOK
  <2>1. Dispatch(p)
    <3>1. PICK q \in Packets : Dispatch(q)
      BY DEF Next, Send, Originate, Offer, Tick, Transmit, Drop
    <3>2. q = p
      BY <3>1 DEF Dispatch
    <3> QED
      BY <3>1, <3>2
  <2>2. ~Seen(table, p, now) /\ now <= until[p] /\ until[p] \in Nat
    BY <2>1 DEF Dispatch, TypeOK
  <2>3. PICK m \in LastIn(marks, p) : TRUE
    BY DEF LastMark, LastIn
  <2>4. until[p] <= marks[m].at + SendTtl + EchoMax /\ marks[m].at \in Nat
    BY TimesAreNat DEF MeshInv
  <2>5. marks[m].at + Ttl > now
    BY <2>n, <2>2, <2>4
  <2>6. PICK i \in LastIn(marks, p) : Many(marks, i)
    BY <2>2, <2>5, SeenInWindow DEF TypeOK, WindowInv
  <2> QED
    BY <2>6 DEF Outnumbered, LastMark, LastIn, Many, After
<1> QED
  BY <1>1, MeshAlways, PTL DEF Spec, HandledOnce

---------------------------------------------------------------------------
(* The rooms a packet is offered to                                        *)

LEMMA Claims ==
  ASSUME NEW p \in Packets, NEW i \in 1..Len(Rooms), Rooms[i] \in Claimants[p]
  PROVE  i \in Candidates(p) /\ p \notin Own
<1>1. /\ KindOf[p] \in {"ACK", "addressed", "other"} /\ Claimants[p] # {} /\ p \notin Own
      /\ KindOf[p] # "other"
      /\ KindOf[p] = "addressed" => HashOf[Rooms[i]] = DestOf[p]
  BY DispatcherAssumption DEF Kinds
<1> QED
  BY <1>1 DEF Candidates, ByHash

LEMMA InitRoute == Init => RouteInv
<1> SUFFICES ASSUME Init PROVE RouteInv
  OBVIOUS
<1>1. \A p : LastIn(marks, p) = {}
  BY DEF Init, LastIn
<1> QED
  BY <1>1 DEF Init, RouteInv

LEMMA NextRoute == TypeOK /\ WindowInv /\ RouteInv /\ [Next]_vars => RouteInv'
<1> SUFFICES ASSUME TypeOK, WindowInv, RouteInv, [Next]_vars PROVE RouteInv'
  OBVIOUS
<1> USE DEF FirstClaim
<1>1. ASSUME NEW p \in Packets, Send(p) PROVE RouteInv'
  <2>1. Marked(p) /\ turn' = turn /\ claimed' = claimed /\ p \in Own
    BY <1>1 DEF Send
  <2>2. \A i \in 1..Len(Rooms) : Rooms[i] \notin Claimants[p]
    BY <2>1, Claims
  <2>3. \A q : q # p => LastIn(marks', q) = LastIn(marks, q)
    BY <2>1, MarkedLast
  <2>4. ASSUME NEW q \in Packets, LastIn(marks', q) # {}, turn'.packet # q,
               NEW i \in 1..Len(Rooms), FirstClaim(q, i)
        PROVE  <<q, Rooms[i]>> \in claimed'
    <3>1. q # p
      BY <2>2, <2>4
    <3> QED
      BY <2>1, <2>3, <2>4, <3>1 DEF RouteInv
  <2> QED
    BY <2>1, <2>4 DEF RouteInv
<1>2. ASSUME NEW p \in Packets, Dispatch(p) PROVE RouteInv'
  <2>1. /\ Marked(p) /\ claimed' = claimed /\ turn = Idle
        /\ turn' = IF Seen(table, p, now) \/ Candidates(p) = {} THEN Idle
                   ELSE [packet |-> p, rooms |-> Candidates(p)]
    BY <1>2 DEF Dispatch
  <2>2. turn.packet \notin Packets
    BY <2>1, DispatcherAssumption DEF Idle
  <2>3. \A q : q # p => LastIn(marks', q) = LastIn(marks, q)
    BY <2>1, MarkedLast
  <2>4. Seen(table, p, now) => LastIn(marks, p) # {}
    BY SeenInWindow DEF TypeOK, WindowInv
  <2>5. ASSUME NEW q \in Packets, LastIn(marks', q) # {}, turn'.packet # q,
               NEW i \in 1..Len(Rooms), FirstClaim(q, i)
        PROVE  <<q, Rooms[i]>> \in claimed'
    <3>1. LastIn(marks, q) # {}
      <4>1. CASE q # p
        BY <2>3, <2>5, <4>1
      <4>2. CASE q = p
        <5>1. i \in Candidates(p)
          BY <2>5, <4>2, Claims
        <5>2. Seen(table, p, now)
          BY <2>1, <2>5, <4>2, <5>1
        <5> QED
          BY <2>4, <4>2, <5>2
      <4> QED
        BY <4>1, <4>2
    <3> QED
      BY <2>1, <2>2, <2>5, <3>1 DEF RouteInv
  <2>6. ASSUME turn' # Idle, NEW i \in 1..Len(Rooms), Rooms[i] \in Claimants[turn'.packet]
        PROVE  i \in turn'.rooms
    <3>1. turn'.packet = p /\ turn'.rooms = Candidates(p)
      BY <2>1, <2>6
    <3> QED
      BY <2>6, <3>1, Claims
  <2> QED
    BY <2>1, <2>5, <2>6 DEF RouteInv
<1>3. CASE Offer
  <2> DEFINE p == turn.packet
             next == First(turn.rooms)
             rest == turn.rooms \ {next}
  <2>1. turn \in [packet : Packets, rooms : (SUBSET (1..Len(Rooms))) \ {{}}] /\ turn # Idle
    BY <1>3 DEF Offer, TypeOK
  <2>2. next \in turn.rooms /\ \A j \in turn.rooms : next <= j
    <3>1. turn.rooms \in SUBSET (1..Len(Rooms)) /\ turn.rooms # {}
      BY <2>1
    <3>2. Len(Rooms) \in Nat
      BY DispatcherAssumption, LenProperties
    <3>3. \E i \in turn.rooms : \A j \in turn.rooms : i <= j
      BY <3>1, <3>2, LeastExists
    <3> QED
      BY <3>3 DEF First
  <2>3. next \in 1..Len(Rooms) /\ p \in Packets
    BY <2>1, <2>2
  <2>4. \A i \in 1..Len(Rooms) : Rooms[i] \in Claimants[p] => i \in turn.rooms /\ next <= i
    BY <2>1, <2>2 DEF RouteInv
  <2>5. \/ /\ Rooms[next] \in Claimants[p] /\ turn' = Idle
           /\ claimed' = claimed \cup {<<p, Rooms[next]>>}
        \/ /\ Rooms[next] \notin Claimants[p] /\ claimed' = claimed
           /\ turn' = IF rest = {} THEN Idle ELSE [turn EXCEPT !.rooms = rest]
    BY <1>3 DEF Offer
  <2>m. marks' = marks
    BY <1>3 DEF Offer
  <2> HIDE DEF next
  <2>6. CASE Rooms[next] \in Claimants[p]
    <3>1. turn' = Idle /\ claimed' = claimed \cup {<<p, Rooms[next]>>}
      BY <2>5, <2>6
    <3>2. FirstClaim(p, next)
      <4>1. ASSUME NEW j \in 1..(next - 1) PROVE Rooms[j] \notin Claimants[p]
        <5>1. j \in 1..Len(Rooms) /\ ~(next <= j)
          BY <2>3
        <5> QED
          BY <2>4, <5>1
      <4> QED
        BY <2>6, <4>1
    <3>3. ASSUME NEW i \in 1..Len(Rooms), FirstClaim(p, i) PROVE i = next
      <4>1. next <= i
        BY <2>4, <3>3
      <4>2. ~(next < i)
        <5>1. next < i => next \in 1..(i - 1)
          BY <2>3
        <5> QED
          BY <2>6, <3>3, <5>1
      <4> QED
        BY <2>3, <4>1, <4>2
    <3>4. ASSUME NEW pair \in claimed'
          PROVE  \E i \in 1..Len(Rooms) : pair[2] = Rooms[i] /\ FirstClaim(pair[1], i)
      <4>1. CASE pair \in claimed
        BY <4>1 DEF RouteInv
      <4>2. CASE pair = <<p, Rooms[next]>>
        BY <2>3, <3>2, <4>2
      <4> QED
        BY <3>1, <4>1, <4>2
    <3>5. ASSUME NEW q \in Packets, LastIn(marks', q) # {},
                 NEW i \in 1..Len(Rooms), FirstClaim(q, i)
          PROVE  <<q, Rooms[i]>> \in claimed'
      <4>1. CASE q = p
        BY <3>1, <3>3, <3>5, <4>1
      <4>2. CASE q # p
        BY <2>m, <3>1, <3>5, <4>2 DEF RouteInv
      <4> QED
        BY <4>1, <4>2
    <3> QED
      BY <3>1, <3>4, <3>5 DEF RouteInv
  <2>7. CASE Rooms[next] \notin Claimants[p]
    <3>1. claimed' = claimed /\ turn' = IF rest = {} THEN Idle ELSE [turn EXCEPT !.rooms = rest]
      BY <2>5, <2>7
    <3>2. \A i \in 1..Len(Rooms) : Rooms[i] \in Claimants[p] => i \in rest
      BY <2>4, <2>7
    <3>3. ASSUME NEW q \in Packets, LastIn(marks', q) # {}, turn'.packet # q,
                 NEW i \in 1..Len(Rooms), FirstClaim(q, i)
          PROVE  <<q, Rooms[i]>> \in claimed'
      <4>1. CASE q = p
        <5>1. rest # {}
          BY <3>2, <3>3, <4>1
        <5>2. turn'.packet = p
          BY <2>1, <3>1, <5>1
        <5> QED
          BY <3>3, <4>1, <5>2
      <4>2. CASE q # p
        BY <2>m, <3>1, <3>3, <4>2 DEF RouteInv
      <4> QED
        BY <4>1, <4>2
    <3>4. ASSUME turn' # Idle, NEW i \in 1..Len(Rooms), Rooms[i] \in Claimants[turn'.packet]
          PROVE  i \in turn'.rooms
      <4>1. turn'.packet = p /\ turn'.rooms = rest
        BY <2>1, <3>1, <3>4
      <4> QED
        BY <3>2, <3>4, <4>1
    <3> QED
      BY <3>1, <3>3, <3>4 DEF RouteInv
  <2> QED
    BY <2>6, <2>7
<1>4. ASSUME marks' = marks, turn' = turn, claimed' = claimed PROVE RouteInv'
  BY <1>4 DEF RouteInv
<1>5. CASE Tick
  BY <1>4, <1>5 DEF Tick
<1>6. ASSUME NEW p \in Packets, Originate(p) PROVE RouteInv'
  BY <1>4, <1>6 DEF Originate
<1>7. ASSUME NEW item \in outbound, Transmit(item) \/ Drop(item) PROVE RouteInv'
  BY <1>4, <1>7 DEF Transmit, Drop
<1>8. CASE UNCHANGED vars
  BY <1>4, <1>8 DEF vars
<1> QED
  BY <1>1, <1>2, <1>3, <1>5, <1>6, <1>7, <1>8 DEF Next

(* A packet goes to the first room that claims it and to no other          *)
(* (RightRoomClaims, _route): a room that was not offered it yet has it    *)
(* coming, and what the table calls seen was offered before (RouteInv).    *)
THEOREM RoomsClaimRight == Spec => []RightRoomClaims
<1>1. Init => TypeOK /\ WindowInv /\ RouteInv
  BY InitTypes, InitRoute
<1>2. (TypeOK /\ WindowInv /\ RouteInv) /\ [Next]_vars => (TypeOK /\ WindowInv /\ RouteInv)'
  BY NextTypes, NextRoute
<1>3. TypeOK /\ WindowInv /\ RouteInv => RightRoomClaims
  <2> SUFFICES ASSUME TypeOK, RouteInv, NEW p \in Packets, LastMark(p) # {}, turn.packet # p,
                      NEW r \in RoomSet
               PROVE  <<p, r>> \in claimed <=>
                        \E i \in 1..Len(Rooms) : r = Rooms[i] /\ FirstClaim(p, i)
    BY DEF RightRoomClaims, FirstClaim
  <2>1. LastIn(marks, p) # {}
    BY DEF LastMark, LastIn
  <2> QED
    BY <2>1 DEF RouteInv
<1> QED
  BY <1>1, <1>2, <1>3, PTL DEF Spec
=============================================================================
