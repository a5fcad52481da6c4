---------------------------- MODULE ProcList_proofs ----------------------------
(***************************************************************************)
(* The list of processes: what the tree shows is right, in the right order *)
(* and as many as are counted, for any processes and any settings.         *)
(***************************************************************************)
EXTENDS ProcList, FiniteSetTheorems, SequenceTheorems, TLAPS

(* Induction over data that are sets.                                      *)

\* What holds of zero and of a number's successor holds of every number.
LEMMA NatInduct ==
    ASSUME NEW T, T \subseteq Nat, 0 \in T, \A n \in T : n + 1 \in T
    PROVE  T = Nat
<1> SUFFICES ASSUME Nat \ T # {} PROVE FALSE
  OBVIOUS
<1> DEFINE D == {0..n : n \in Nat \ T}
<1>1. D # {} /\ D \subseteq FiniteSubsetsOf(Nat)
  <2>1. ASSUME NEW n \in Nat PROVE 0..n \in FiniteSubsetsOf(Nat)
    BY FS_Interval DEF FiniteSubsetsOf
  <2> QED
    BY <2>1
<1>2. PICK d \in D : \A e \in D : ~ (<<e, d>> \in StrictSubsetOrdering(Nat))
  <2> HIDE DEF D
  <2> QED
    BY <1>1, WFMin, FS_StrictSubsetOrderingWellFounded
<1>3. PICK n \in Nat \ T : d = 0..n
  OBVIOUS
<1>4. n - 1 \in Nat \ T
  OBVIOUS
<1>5. 0..(n - 1) \in D
  BY <1>4
<1>6. <<0..(n - 1), 0..n>> \in StrictSubsetOrdering(Nat)
  <2>1. n \in 0..n /\ n \notin 0..(n - 1) /\ 0..(n - 1) \subseteq 0..n /\ 0..n \subseteq Nat
    OBVIOUS
  <2> QED
    BY <2>1 DEF StrictSubsetOrdering
<1> QED
  BY <1>2, <1>3, <1>5, <1>6

\* What holds of a number when it holds of all that are less holds of every number.
LEMMA LessInduct ==
    ASSUME NEW T, T \subseteq Nat, \A n \in Nat : (\A m \in Nat : m < n => m \in T) => n \in T
    PROVE  T = Nat
<1> DEFINE U == {n \in Nat : \A m \in Nat : m <= n => m \in T}
<1>1. U \subseteq Nat /\ 0 \in U /\ \A n \in U : n + 1 \in U
  OBVIOUS
<1>2. U = Nat
  <2> HIDE DEF U
  <2> QED
    BY <1>1, NatInduct
<1>3. ASSUME NEW n \in Nat PROVE n \in T
  BY <1>2
<1> QED
  BY <1>3

\* Processes: what holds of each one when it holds of those with lower pids.
LEMMA UpInduct ==
    ASSUME NEW T, \A p \in Pids : (\A q \in Pids : q < p => q \in T) => p \in T
    PROVE  Pids \subseteq T
<1> DEFINE U == {n \in Nat : n \in Pids => n \in T}
<1>1. Pids \subseteq Nat
  BY ProcListAssumption
<1>2. U \subseteq Nat /\ \A n \in Nat : (\A m \in Nat : m < n => m \in U) => n \in U
  BY <1>1
<1>3. U = Nat
  <2> HIDE DEF U
  <2> QED
    BY <1>2, LessInduct
<1> QED
  BY <1>1, <1>3

\* A finite set: what holds of the empty set, and of a set with one more.
LEMMA SetInduct ==
    ASSUME NEW S, IsFiniteSet(S), NEW C, {} \in C,
           \A T \in SUBSET S : \A x \in S \ T : T \in C => T \cup {x} \in C
    PROVE  S \in C
<1> DEFINE N == {n \in Nat : \A T \in SUBSET S : Cardinality(T) = n => T \in C}
<1>1. N \subseteq Nat /\ 0 \in N
  BY FS_EmptySet, FS_Subset
<1>2. ASSUME NEW n \in N PROVE n + 1 \in N
  <2> SUFFICES ASSUME NEW T \in SUBSET S, Cardinality(T) = n + 1 PROVE T \in C
    OBVIOUS
  <2>1. IsFiniteSet(T) /\ T # {}
    BY FS_Subset, FS_EmptySet
  <2>2. PICK x \in T : TRUE
    BY <2>1
  <2>3. Cardinality(T \ {x}) = n
    <3>1. Cardinality(T \ {x}) = Cardinality(T) - 1
      BY <2>1, FS_RemoveElement
    <3> QED
      BY <3>1
  <2>4. T \ {x} \in C
    BY <2>3
  <2> QED
    BY <2>4
<1>3. N = Nat
  <2> HIDE DEF N
  <2> QED
    BY <1>1, <1>2, NatInduct
<1>4. Cardinality(S) \in N
  BY <1>3, FS_CardinalityType
<1> QED
  BY <1>4

\* Processes: what holds of each one when it holds of those with higher pids.
LEMMA DownInduct ==
    ASSUME NEW T, \A p \in Pids : (\A q \in Pids : q > p => q \in T) => p \in T
    PROVE  Pids \subseteq T
<1>1. Pids \subseteq Nat /\ IsFiniteSet(Pids)
  BY ProcListAssumption
<1> DEFINE C == {S \in SUBSET Pids : S = {} \/ \E p \in S : \A q \in S : q <= p}
<1>2. {} \in C /\ \A S \in SUBSET Pids : \A x \in Pids \ S : S \in C => S \cup {x} \in C
  <2> SUFFICES ASSUME NEW S \in C, NEW x \in Pids PROVE S \cup {x} \in C
    OBVIOUS
  <2>1. CASE S = {}
    BY <2>1, <1>1
  <2>2. ASSUME NEW p \in S, \A q \in S : q <= p PROVE S \cup {x} \in C
    <3>1. CASE x <= p
      BY <2>2, <3>1, <1>1
    <3>2. CASE p < x
      BY <2>2, <3>2, <1>1
    <3> QED
      BY <3>1, <3>2, <1>1
  <2> QED
    BY <2>1, <2>2
<1>3. ASSUME NEW S \in SUBSET Pids PROVE S \in C
  <2>1. IsFiniteSet(S)
    BY <1>1, FS_Subset
  <2>2. \A R \in SUBSET S : \A x \in S \ R : R \in C => R \cup {x} \in C
    BY <1>2
  <2> HIDE DEF C
  <2> QED
    BY <2>1, <2>2, <1>2, SetInduct
<1>4. Pids \ T \in C
  BY <1>3
<1> QED
  BY <1>4, <1>1

-----------------------------------------------------------------------------
(* Lists in order.                                                         *)

StrictOrder(S, R) ==
    /\ \A x \in S : <<x, x>> \notin R
    /\ \A x, y \in S : x # y => <<x, y>> \in R \/ <<y, x>> \in R
    /\ \A x, y, z \in S : <<x, y>> \in R /\ <<y, z>> \in R => <<x, z>> \in R

Before(S, R, x) == {y \in S : <<y, x>> \in R}

\* A list that holds the elements of S, each one once, in the order R.
Line(s, S, R) ==
    /\ s \in Seq(S) /\ IsInjective(s) /\ ToSet(s) = S /\ Len(s) = Cardinality(S)
    /\ \A i, j \in 1..Len(s) : i < j <=> <<s[i], s[j]>> \in R

\* As many elements come before an element as its place says.
LEMMA PlacesTaken ==
    ASSUME NEW S, IsFiniteSet(S), NEW R, StrictOrder(S, R)
    PROVE  \A n \in 1..Cardinality(S) : \E x \in S : Cardinality(Before(S, R, x)) = n - 1
<1> DEFINE N == Cardinality(S)
           place == [x \in S |-> Cardinality(Before(S, R, x))]
<1>1. N \in Nat
  BY FS_CardinalityType
<1>2. ASSUME NEW x \in S PROVE IsFiniteSet(Before(S, R, x)) /\ place[x] \in 0..(N - 1)
  <2>1. Before(S, R, x) \subseteq S \ {x}
    BY DEF Before, StrictOrder
  <2>2. IsFiniteSet(S \ {x}) /\ Cardinality(S \ {x}) = N - 1
    BY FS_RemoveElement
  <2>3. IsFiniteSet(Before(S, R, x)) /\ Cardinality(Before(S, R, x)) <= N - 1
    BY <2>1, <2>2, FS_Subset
  <2>4. Cardinality(Before(S, R, x)) \in Nat
    BY <2>3, FS_CardinalityType
  <2> QED
    BY <1>1, <2>3, <2>4
<1>3. ASSUME NEW x \in S, NEW y \in S, <<x, y>> \in R PROVE place[x] < place[y]
  <2>1. Before(S, R, x) \subseteq Before(S, R, y)
    BY <1>3 DEF Before, StrictOrder
  <2>2. x \in Before(S, R, y) /\ x \notin Before(S, R, x)
    BY <1>3 DEF Before, StrictOrder
  <2>3. place[x] <= place[y] /\ place[x] # place[y]
    BY <1>2, <2>1, <2>2, FS_Subset
  <2> QED
    BY <1>2, <2>3
<1>4. place \in Injection(S, 0..(N - 1))
  <2>1. place \in [S -> 0..(N - 1)]
    BY <1>2
  <2>2. \A x, y \in S : place[x] = place[y] => x = y
    <3> SUFFICES ASSUME NEW x \in S, NEW y \in S, x # y PROVE place[x] # place[y]
      OBVIOUS
    <3>1. <<x, y>> \in R \/ <<y, x>> \in R
      BY DEF StrictOrder
    <3>2. place[x] \in Int /\ place[y] \in Int
      BY <1>2
    <3> HIDE DEF place
    <3> QED
      BY <1>3, <3>1, <3>2
  <2> HIDE DEF place
  <2> QED
    BY <2>1, <2>2 DEF Injection, IsInjective
<1>5. IsFiniteSet(0..(N - 1)) /\ Cardinality(0..(N - 1)) = N
  BY <1>1, FS_Interval, SMTT(30)
<1>6. place \in Surjection(S, 0..(N - 1))
  <2> HIDE DEF place
  <2> QED
    BY <1>4, <1>5, FS_Injection
<1> SUFFICES ASSUME NEW n \in 1..N PROVE \E x \in S : Cardinality(Before(S, R, x)) = n - 1
  OBVIOUS
<1>7. PICK x \in S : place[x] = n - 1
  <2>1. n - 1 \in 0..(N - 1)
    BY <1>1
  <2> HIDE DEF place
  <2> QED
    BY <1>6, <2>1 DEF Surjection
<1> QED
  BY <1>7

LEMMA OrderedLine ==
    ASSUME NEW S, IsFiniteSet(S), NEW R, StrictOrder(S, R)
    PROVE  Line(Ordered(S, R), S, R)
<1> DEFINE N == Cardinality(S)
           s == Ordered(S, R)
<1>1. N \in Nat
  BY FS_CardinalityType
<1>2. ASSUME NEW n \in 1..N PROVE s[n] \in S /\ Cardinality(Before(S, R, s[n])) = n - 1
  <2>1. s[n] = CHOOSE x \in S : Cardinality(Before(S, R, x)) = n - 1
    BY DEF Ordered, Before
  <2> HIDE DEF s
  <2> QED
    BY <2>1, PlacesTaken
<1>3. DOMAIN s = 1..N /\ s = [n \in DOMAIN s |-> s[n]]
  <2> DEFINE F(n) == CHOOSE x \in S : Cardinality({y \in S : <<y, x>> \in R}) = n - 1
  <2>1. s = [n \in 1..N |-> F(n)]
    BY DEF Ordered
  <2> HIDE DEF F, s
  <2> QED
    BY <2>1
<1> HIDE DEF s
<1>4. s \in [1..N -> S] /\ s \in Seq(S) /\ Len(s) = N /\ DOMAIN s = 1..N
  BY <1>1, <1>2, <1>3
<1>5. IsInjective(s)
  BY <1>2, <1>4 DEF IsInjective
<1>6. \A x \in S : \E n \in 1..N : s[n] = x
  <2>1. s \in Injection(1..N, S)
    BY <1>4, <1>5 DEF Injection
  <2>2. Cardinality(1..N) = N
    BY <1>1, FS_Interval
  <2>3. s \in Surjection(1..N, S)
    BY <2>1, <2>2, FS_Injection
  <2> QED
    BY <2>3 DEF Surjection
<1>7. ToSet(s) = S
  BY <1>2, <1>4, <1>6 DEF ToSet
<1>8. ASSUME NEW x \in S, NEW y \in S, <<x, y>> \in R
      PROVE  Cardinality(Before(S, R, x)) <= Cardinality(Before(S, R, y))
  <2>1. Before(S, R, x) \subseteq Before(S, R, y) /\ Before(S, R, y) \subseteq S
    BY <1>8 DEF Before, StrictOrder
  <2> QED
    BY <2>1, FS_Subset
<1>9. ASSUME NEW i \in 1..N, NEW j \in 1..N PROVE i < j <=> <<s[i], s[j]>> \in R
  <2>1. i < j => <<s[i], s[j]>> \in R
    <3> SUFFICES ASSUME i < j, <<s[i], s[j]>> \notin R PROVE FALSE
      OBVIOUS
    <3>1. s[i] # s[j]
      BY <1>4, <1>5 DEF IsInjective
    <3>2. <<s[j], s[i]>> \in R
      BY <1>2, <3>1 DEF StrictOrder
    <3> QED
      BY <1>2, <1>8, <3>2
  <2>2. <<s[i], s[j]>> \in R => i < j
    <3> SUFFICES ASSUME <<s[i], s[j]>> \in R, ~(i < j) PROVE FALSE
      OBVIOUS
    <3>1. i = j
      BY <1>2, <1>8
    <3> QED
      BY <1>2, <3>1 DEF StrictOrder
  <2> QED
    BY <2>1, <2>2
<1>10. \A i, j \in 1..Len(s) : i < j <=> <<s[i], s[j]>> \in R
  BY <1>4, <1>9
<1>11. Line(s, S, R)
  BY <1>4, <1>5, <1>7, <1>10 DEF Line
<1> QED
  BY <1>11 DEF s

\* What comes before what in a list.
LEMMA LeadsMeans ==
    ASSUME NEW seq, NEW p, NEW q
    PROVE  <<p, q>> \in Leads(seq) <=>
             \E j \in DOMAIN seq : \E i \in 1..(j - 1) : p = seq[i] /\ q = seq[j]
  BY DEF Leads

\* In a list without repetitions that is a strict order.
LEMMA LeadsOrder ==
    ASSUME NEW S, NEW seq \in Seq(S), IsInjective(seq)
    PROVE  /\ StrictOrder(ToSet(seq), Leads(seq))
           /\ \A i, j \in 1..Len(seq) : i < j <=> <<seq[i], seq[j]>> \in Leads(seq)
<1>1. DOMAIN seq = 1..Len(seq) /\ Len(seq) \in Nat
  OBVIOUS
<1>2. \A i, j \in 1..Len(seq) : seq[i] = seq[j] => i = j
  BY <1>1 DEF IsInjective
<1>3. ASSUME NEW i \in 1..Len(seq), NEW j \in 1..Len(seq)
      PROVE  i < j <=> <<seq[i], seq[j]>> \in Leads(seq)
  <2>1. i < j => <<seq[i], seq[j]>> \in Leads(seq)
    BY <1>1, LeadsMeans
  <2>2. <<seq[i], seq[j]>> \in Leads(seq) => i < j
    <3> SUFFICES ASSUME <<seq[i], seq[j]>> \in Leads(seq) PROVE i < j
      OBVIOUS
    <3>1. PICK b \in 1..Len(seq) : \E a \in 1..(b - 1) : seq[i] = seq[a] /\ seq[j] = seq[b]
      BY <1>1, LeadsMeans
    <3>2. PICK a \in 1..(b - 1) : seq[i] = seq[a] /\ seq[j] = seq[b]
      BY <3>1
    <3>3. i = a /\ j = b
      BY <1>1, <1>2, <3>2
    <3> QED
      BY <3>3
  <2> QED
    BY <2>1, <2>2
<1>4. \A x \in ToSet(seq) : \E i \in 1..Len(seq) : x = seq[i]
  BY <1>1 DEF ToSet
<1>5. ASSUME NEW x \in ToSet(seq), NEW y \in ToSet(seq), NEW z \in ToSet(seq)
      PROVE  /\ <<x, x>> \notin Leads(seq)
             /\ x # y => <<x, y>> \in Leads(seq) \/ <<y, x>> \in Leads(seq)
             /\ <<x, y>> \in Leads(seq) /\ <<y, z>> \in Leads(seq) => <<x, z>> \in Leads(seq)
  <2>1. PICK i \in 1..Len(seq) : x = seq[i]
    BY <1>4
  <2>2. PICK j \in 1..Len(seq) : y = seq[j]
    BY <1>4
  <2>3. PICK k \in 1..Len(seq) : z = seq[k]
    BY <1>4
  <2>4. (i < j <=> <<x, y>> \in Leads(seq)) /\ (j < i <=> <<y, x>> \in Leads(seq))
    BY <1>3, <2>1, <2>2
  <2>5. (j < k <=> <<y, z>> \in Leads(seq)) /\ (i < k <=> <<x, z>> \in Leads(seq))
    BY <1>3, <2>1, <2>2, <2>3
  <2>6. ~(i < i) /\ (i < i <=> <<x, x>> \in Leads(seq))
    BY <1>3, <2>1
  <2>7. x # y => i # j
    BY <2>1, <2>2
  <2>8. i \in Int /\ j \in Int /\ k \in Int
    OBVIOUS
  <2> QED
    BY <2>4, <2>5, <2>6, <2>7, <2>8
<1> QED
  BY <1>3, <1>5 DEF StrictOrder

\* Such a list is finite, and is as long as it has elements.
LEMMA ListIsLine ==
    ASSUME NEW S, NEW seq \in Seq(S), IsInjective(seq)
    PROVE  /\ ToSet(seq) \subseteq S /\ IsFiniteSet(ToSet(seq))
           /\ Cardinality(ToSet(seq)) = Len(seq)
<1>1. DOMAIN seq = 1..Len(seq) /\ Len(seq) \in Nat
  OBVIOUS
<1>2. seq \in Bijection(1..Len(seq), ToSet(seq))
  <2>1. seq \in [1..Len(seq) -> ToSet(seq)]
    BY <1>1 DEF ToSet
  <2>2. \A x \in ToSet(seq) : \E i \in 1..Len(seq) : seq[i] = x
    BY <1>1 DEF ToSet
  <2> QED
    BY <2>1, <2>2 DEF Bijection, Injection, Surjection
<1>3. IsFiniteSet(1..Len(seq)) /\ Cardinality(1..Len(seq)) = Len(seq)
  BY <1>1, FS_Interval
<1>4. ExistsBijection(1..Len(seq), ToSet(seq))
  BY <1>2 DEF ExistsBijection
<1>5. ToSet(seq) \subseteq S
  BY <1>1 DEF ToSet
<1> QED
  BY <1>3, <1>4, <1>5, FS_Bijection

\* A part of a strict order is one.
LEMMA PartOrder ==
    ASSUME NEW S, NEW R, StrictOrder(S, R), NEW T \in SUBSET S
    PROVE  StrictOrder(T, R)
  BY DEF StrictOrder

\* The list that is left when some are dropped.
LEMMA OnlyLine ==
    ASSUME NEW S, NEW seq \in Seq(S), IsInjective(seq), NEW T
    PROVE  Line(Only(seq, T), ToSet(seq) \cap T, Leads(seq))
<1>1. IsFiniteSet(ToSet(seq) \cap T)
  BY ListIsLine, FS_Subset
<1>2. StrictOrder(ToSet(seq) \cap T, Leads(seq))
  BY LeadsOrder, PartOrder
<1> QED
  BY <1>1, <1>2, OrderedLine DEF Only

\* The sort by a key.
LEMMA EarlierMeans ==
    ASSUME NEW seq, NEW key, NEW p, NEW q
    PROVE  <<p, q>> \in Earlier(seq, key) <=>
             /\ p \in ToSet(seq) /\ q \in ToSet(seq)
             /\ key[p] < key[q] \/ (key[p] = key[q] /\ <<p, q>> \in Leads(seq))
  BY DEF Earlier

LEMMA EarlierOrder ==
    ASSUME NEW S, NEW seq \in Seq(S), IsInjective(seq), NEW key, \A p \in S : key[p] \in Int
    PROVE  StrictOrder(ToSet(seq), Earlier(seq, key))
<1>1. StrictOrder(ToSet(seq), Leads(seq)) /\ ToSet(seq) \subseteq S
  BY LeadsOrder, ListIsLine
<1>2. \A p, q \in ToSet(seq) : <<p, q>> \in Earlier(seq, key) <=>
             key[p] < key[q] \/ (key[p] = key[q] /\ <<p, q>> \in Leads(seq))
  BY EarlierMeans
<1>3. \A p \in ToSet(seq) : key[p] \in Int
  BY <1>1
<1>4. ASSUME NEW x \in ToSet(seq) PROVE <<x, x>> \notin Earlier(seq, key)
  <2>1. key[x] \in Int /\ <<x, x>> \notin Leads(seq)
    BY <1>1, <1>3 DEF StrictOrder
  <2>2. ~(key[x] < key[x])
    BY <2>1
  <2> QED
    BY <1>2, <2>1, <2>2
<1>5. ASSUME NEW x \in ToSet(seq), NEW y \in ToSet(seq), x # y
      PROVE  <<x, y>> \in Earlier(seq, key) \/ <<y, x>> \in Earlier(seq, key)
  <2>1. key[x] \in Int /\ key[y] \in Int
    BY <1>3
  <2>2. <<x, y>> \in Leads(seq) \/ <<y, x>> \in Leads(seq)
    BY <1>1, <1>5 DEF StrictOrder
  <2>3. key[x] < key[y] \/ key[y] < key[x] \/ key[x] = key[y]
    BY <2>1
  <2> QED
    BY <1>2, <2>2, <2>3
<1>6. ASSUME NEW x \in ToSet(seq), NEW y \in ToSet(seq), NEW z \in ToSet(seq),
             <<x, y>> \in Earlier(seq, key), <<y, z>> \in Earlier(seq, key)
      PROVE  <<x, z>> \in Earlier(seq, key)
  <2>1. key[x] \in Int /\ key[y] \in Int /\ key[z] \in Int
    BY <1>3
  <2>2. <<x, y>> \in Leads(seq) /\ <<y, z>> \in Leads(seq) => <<x, z>> \in Leads(seq)
    BY <1>1 DEF StrictOrder
  <2> QED
    BY <1>2, <1>6, <2>1, <2>2
<1> QED
  BY <1>4, <1>5, <1>6 DEF StrictOrder

LEMMA StableSortLine ==
    ASSUME NEW S, NEW seq \in Seq(S), IsInjective(seq), NEW key, \A p \in S : key[p] \in Int
    PROVE  Line(StableSort(seq, key), ToSet(seq), Earlier(seq, key))
  BY ListIsLine, EarlierOrder, OrderedLine DEF StableSort

\* New processes are in the order of their pids.
LEMMA AscendingLine ==
    ASSUME NEW S \in SUBSET Pids
    PROVE  Line(Ascending(S), S, {pq \in S \X S : pq[1] < pq[2]})
<1>0. IsFiniteSet(Pids) /\ Pids \subseteq Int
  BY ProcListAssumption
<1>1. IsFiniteSet(S) /\ S \subseteq Int
  BY <1>0, FS_Subset
<1>2. StrictOrder(S, {pq \in S \X S : pq[1] < pq[2]})
  BY <1>1 DEF StrictOrder
<1> QED
  BY <1>1, <1>2, OrderedLine DEF Ascending

\* Which element of a line comes first is what the order says.
LEMMA LineLeads ==
    ASSUME NEW S, NEW R, NEW s, Line(s, S, R), NEW x \in S, NEW y \in S
    PROVE  <<x, y>> \in Leads(s) <=> <<x, y>> \in R
<1>1. s \in Seq(S) /\ IsInjective(s) /\ DOMAIN s = 1..Len(s)
  BY DEF Line
<1>2. PICK i \in 1..Len(s), j \in 1..Len(s) : x = s[i] /\ y = s[j]
  BY <1>1 DEF Line, ToSet
<1> QED
  BY <1>1, <1>2, LeadsOrder DEF Line

\* Lists in the same order of the same elements are equal.
LEMMA OrderedSame ==
    ASSUME NEW S, NEW R, NEW Q, \A x, y \in S : <<x, y>> \in R <=> <<x, y>> \in Q
    PROVE  Ordered(S, R) = Ordered(S, Q)
<1>1. \A x \in S : {y \in S : <<y, x>> \in R} = {y \in S : <<y, x>> \in Q}
  OBVIOUS
<1> DEFINE F(n) == CHOOSE x \in S : Cardinality({y \in S : <<y, x>> \in R}) = n - 1
           G(n) == CHOOSE x \in S : Cardinality({y \in S : <<y, x>> \in Q}) = n - 1
<1>2. \A n \in 1..Cardinality(S) : F(n) = G(n)
  <2> SUFFICES ASSUME NEW n \in 1..Cardinality(S) PROVE F(n) = G(n)
    OBVIOUS
  <2>1. \A x \in S : Cardinality({y \in S : <<y, x>> \in R}) = n - 1
                       <=> Cardinality({y \in S : <<y, x>> \in Q}) = n - 1
    BY <1>1
  <2> QED
    BY <2>1
<1>3. Ordered(S, R) = [n \in 1..Cardinality(S) |-> F(n)]
      /\ Ordered(S, Q) = [n \in 1..Cardinality(S) |-> G(n)]
  BY DEF Ordered
<1> HIDE DEF F, G
<1> QED
  BY <1>2, <1>3

-----------------------------------------------------------------------------
(* Sums.                                                                   *)

\* g gives each part of S what f adds up to on it.
Additive(g, f, S) ==
    /\ g \in [SUBSET S -> Nat] /\ g[{}] = 0
    /\ \A T \in SUBSET S : \A x \in T : g[T] = g[T \ {x}] + f[x]

LEMMA AdditiveAdd ==
    ASSUME NEW S, NEW x, x \notin S, NEW f, \A y \in S \cup {x} : f[y] \in Nat,
           NEW g, Additive(g, f, S)
    PROVE  \E h : Additive(h, f, S \cup {x})
<1> DEFINE h == [T \in SUBSET (S \cup {x}) |-> IF x \in T THEN g[T \ {x}] + f[x] ELSE g[T]]
<1>1. ASSUME NEW T \in SUBSET (S \cup {x})
      PROVE  /\ T \ {x} \in SUBSET S /\ (x \notin T => T \in SUBSET S)
             /\ h[T] = IF x \in T THEN g[T \ {x}] + f[x] ELSE g[T]
  OBVIOUS
<1>2. \A T \in SUBSET S : g[T] \in Nat /\ \A y \in T : g[T] = g[T \ {y}] + f[y]
  BY DEF Additive
<1>3. h \in [SUBSET (S \cup {x}) -> Nat]
  <2>1. \A T \in SUBSET (S \cup {x}) : h[T] \in Nat
    <3> SUFFICES ASSUME NEW T \in SUBSET (S \cup {x}) PROVE h[T] \in Nat
      OBVIOUS
    <3>1. CASE x \in T
      <4>1. g[T \ {x}] \in Nat
        BY <1>1, <1>2
      <4> HIDE DEF h
      <4> QED
        BY <1>1, <3>1, <4>1
    <3>2. CASE x \notin T
      <4>1. g[T] \in Nat
        BY <1>1, <1>2, <3>2
      <4> HIDE DEF h
      <4> QED
        BY <1>1, <3>2, <4>1
    <3> QED
      BY <3>1, <3>2
  <2> QED
    BY <2>1
<1>4. h[{}] = 0
  BY DEF Additive
<1>5. ASSUME NEW T \in SUBSET (S \cup {x}), NEW y \in T PROVE h[T] = h[T \ {y}] + f[y]
  <2>0. T \ {y} \in SUBSET (S \cup {x})
    OBVIOUS
  <2>1. CASE y = x
    <3>1. x \in T /\ x \notin T \ {y} /\ T \ {x} = T \ {y}
      BY <2>1
    <3>2. h[T] = g[T \ {x}] + f[x] /\ h[T \ {y}] = g[T \ {x}]
      BY <1>1, <2>0, <3>1
    <3> HIDE DEF h
    <3> QED
      BY <2>1, <3>2
  <2>2. CASE y # x /\ x \in T
    <3>1. T \ {x} \in SUBSET S /\ y \in T \ {x} /\ (T \ {y}) \ {x} = (T \ {x}) \ {y}
      BY <2>2
    <3>2. h[T] = g[T \ {x}] + f[x] /\ h[T \ {y}] = g[(T \ {y}) \ {x}] + f[x]
      BY <1>1, <2>0, <2>2
    <3>3. g[T \ {x}] = g[(T \ {x}) \ {y}] + f[y]
      BY <1>2, <3>1
    <3>4. g[T \ {x}] \in Nat /\ g[(T \ {x}) \ {y}] \in Nat
      BY <1>2, <3>1
    <3>5. h[T \ {y}] = g[(T \ {x}) \ {y}] + f[x]
      BY <3>1, <3>2
    <3>6. f[y] \in Nat /\ f[x] \in Nat
      BY <2>2
    <3> HIDE DEF h
    <3>7. h[T] = (g[(T \ {x}) \ {y}] + f[y]) + f[x]
      BY <3>2, <3>3
    <3> QED
      BY <3>4, <3>5, <3>6, <3>7
  <2>3. CASE x \notin T
    <3>1. T \in SUBSET S /\ y \in T /\ x \notin T \ {y}
      BY <2>3
    <3>2. h[T] = g[T] /\ h[T \ {y}] = g[T \ {y}] /\ g[T] = g[T \ {y}] + f[y]
      BY <1>1, <1>2, <2>0, <3>1
    <3> HIDE DEF h
    <3> QED
      BY <3>2
  <2> QED
    BY <2>1, <2>2, <2>3
<1> HIDE DEF h
<1>6. Additive(h, f, S \cup {x})
  BY <1>3, <1>4, <1>5 DEF Additive
<1> QED
  BY <1>6

LEMMA AdditiveExists ==
    ASSUME NEW S, IsFiniteSet(S), NEW f, \A x \in S : f[x] \in Nat
    PROVE  \E g : Additive(g, f, S)
<1> DEFINE C == {T \in SUBSET S : \E g : Additive(g, f, T)}
<1>1. {} \in C
  <2>1. Additive([T \in SUBSET {} |-> 0], f, {})
    BY DEF Additive
  <2> QED
    BY <2>1
<1>2. ASSUME NEW T \in SUBSET S, NEW x \in S \ T, T \in C PROVE T \cup {x} \in C
  BY <1>2, AdditiveAdd
<1>3. S \in C
  <2> HIDE DEF C
  <2> QED
    BY <1>1, <1>2, SetInduct
<1> QED
  BY <1>3

\* The fold is such a sum, whichever element it takes first.
LEMMA SumIs ==
    ASSUME NEW S, IsFiniteSet(S), NEW f, NEW g, Additive(g, f, S)
    PROVE  Sum(f, S) = g[S]
<1> DEFINE Some(T) == CHOOSE x \in T : TRUE
           Step(h) == [T \in SUBSET S |-> IF T = {} THEN 0 ELSE h[T \ {Some(T)}] + f[Some(T)]]
           iter == CHOOSE h : h = Step(h)
<1>1. Sum(f, S) = iter[S]
  BY DEF Sum, FoldSet, MapThenFoldSet
<1>2. g = Step(g)
  <2>1. DOMAIN g = SUBSET S /\ g = [T \in DOMAIN g |-> g[T]]
    BY DEF Additive
  <2>2. ASSUME NEW T \in SUBSET S
        PROVE  g[T] = IF T = {} THEN 0 ELSE g[T \ {Some(T)}] + f[Some(T)]
    <3>1. T # {} => Some(T) \in T
      OBVIOUS
    <3> HIDE DEF Some
    <3> QED
      BY <3>1 DEF Additive
  <2> HIDE DEF Some
  <2> QED
    BY <2>1, <2>2
<1>3. iter = Step(iter)
  <2> HIDE DEF Step
  <2> QED
    BY <1>2
<1>4. ASSUME NEW T \in SUBSET S
      PROVE  iter[T] = IF T = {} THEN 0 ELSE iter[T \ {Some(T)}] + f[Some(T)]
  <2> HIDE DEF iter, Some
  <2> QED
    BY <1>3
<1> HIDE DEF iter
<1> DEFINE N == {n \in Nat : \A T \in SUBSET S : Cardinality(T) = n => iter[T] = g[T]}
<1>5. N \subseteq Nat /\ 0 \in N
  <2> SUFFICES ASSUME NEW T \in SUBSET S, Cardinality(T) = 0 PROVE iter[T] = g[T]
    OBVIOUS
  <2>1. T = {}
    BY FS_EmptySet, FS_Subset
  <2> QED
    BY <1>4, <2>1 DEF Additive
<1>6. ASSUME NEW n \in N PROVE n + 1 \in N
  <2> SUFFICES ASSUME NEW T \in SUBSET S, Cardinality(T) = n + 1 PROVE iter[T] = g[T]
    OBVIOUS
  <2>1. IsFiniteSet(T)
    BY FS_Subset
  <2>2. T # {}
    BY FS_EmptySet
  <2>3. Some(T) \in T
    BY <2>2
  <2> HIDE DEF Some
  <2>4. Cardinality(T \ {Some(T)}) = Cardinality(T) - 1
    BY <2>1, <2>3, FS_RemoveElement
  <2>5. Cardinality(T \ {Some(T)}) = n
    BY <2>4
  <2>6. iter[T \ {Some(T)}] = g[T \ {Some(T)}]
    BY <2>5
  <2>7. iter[T] = iter[T \ {Some(T)}] + f[Some(T)]
    BY <1>4, <2>2
  <2>8. g[T] = g[T \ {Some(T)}] + f[Some(T)]
    BY <2>3 DEF Additive
  <2> QED
    BY <2>6, <2>7, <2>8
<1>7. N = Nat
  <2> HIDE DEF N
  <2> QED
    BY <1>5, <1>6, NatInduct
<1>8. Cardinality(S) \in N
  BY <1>7, FS_CardinalityType
<1>9. iter[S] = g[S]
  BY <1>8
<1> QED
  BY <1>1, <1>9 DEF iter

\* What a sum is: nothing for no process, and one more adds its own.
LEMMA SumEmpty ==
    ASSUME NEW f
    PROVE  Sum(f, {}) = 0
<1>1. IsFiniteSet({}) /\ \A x \in {} : f[x] \in Nat
  BY FS_EmptySet
<1>2. PICK g : Additive(g, f, {})
  BY <1>1, AdditiveExists
<1> QED
  BY <1>1, <1>2, SumIs DEF Additive

LEMMA SumAdd ==
    ASSUME NEW S, IsFiniteSet(S), NEW x, x \notin S, NEW f, \A y \in S \cup {x} : f[y] \in Nat
    PROVE  /\ Sum(f, S) \in Nat
           /\ Sum(f, S \cup {x}) = Sum(f, S) + f[x]
<1>1. IsFiniteSet(S \cup {x})
  BY FS_AddElement
<1>2. PICK g : Additive(g, f, S \cup {x})
  BY <1>1, AdditiveExists
<1> DEFINE h == [T \in SUBSET S |-> g[T]]
<1>3. Additive(h, f, S)
  <2>1. \A T \in SUBSET S : T \in SUBSET (S \cup {x}) /\ g[T] \in Nat
    BY <1>2 DEF Additive
  <2>2. h \in [SUBSET S -> Nat] /\ h[{}] = 0
    BY <1>2, <2>1 DEF Additive
  <2>3. ASSUME NEW T \in SUBSET S, NEW y \in T PROVE h[T] = h[T \ {y}] + f[y]
    <3>1. g[T] = g[T \ {y}] + f[y]
      BY <1>2, <2>1 DEF Additive
    <3> QED
      BY <3>1
  <2> HIDE DEF h
  <2> QED
    BY <2>2, <2>3 DEF Additive
<1>4. Sum(f, S) = g[S] /\ Sum(f, S \cup {x}) = g[S \cup {x}]
  <2>1. Sum(f, S) = h[S]
    BY <1>3, SumIs
  <2> QED
    BY <1>1, <1>2, <2>1, SumIs
<1>5. (S \cup {x}) \ {x} = S
  OBVIOUS
<1>6. g[S \cup {x}] = g[(S \cup {x}) \ {x}] + f[x] /\ g[S] \in Nat
  BY <1>2 DEF Additive
<1> QED
  BY <1>4, <1>5, <1>6

LEMMA SumNat ==
    ASSUME NEW S, IsFiniteSet(S), NEW f, \A y \in S : f[y] \in Nat
    PROVE  Sum(f, S) \in Nat
<1>1. PICK g : Additive(g, f, S)
  BY AdditiveExists
<1>2. Sum(f, S) = g[S]
  BY <1>1, SumIs
<1> QED
  BY <1>1, <1>2 DEF Additive

\* Sums of what is equal are equal.
LEMMA SumSame ==
    ASSUME NEW S, IsFiniteSet(S), NEW f, NEW g, \A y \in S : f[y] \in Nat /\ f[y] = g[y]
    PROVE  Sum(f, S) = Sum(g, S)
<1> DEFINE C == {T \in SUBSET S : Sum(f, T) = Sum(g, T)}
<1>1. {} \in C
  BY SumEmpty
<1>2. ASSUME NEW T \in SUBSET S, NEW x \in S \ T, T \in C PROVE T \cup {x} \in C
  <2>1. IsFiniteSet(T) /\ x \notin T /\ \A y \in T \cup {x} : f[y] \in Nat /\ g[y] \in Nat
    BY FS_Subset
  <2>2. Sum(f, T \cup {x}) = Sum(f, T) + f[x] /\ Sum(g, T \cup {x}) = Sum(g, T) + g[x]
    BY <2>1, SumAdd
  <2> QED
    BY <1>2, <2>2
<1>3. S \in C
  <2> HIDE DEF C
  <2> QED
    BY <1>1, <1>2, SetInduct
<1> QED
  BY <1>3

\* The sum over two sets that share nothing.
LEMMA SumUnion ==
    ASSUME NEW S, IsFiniteSet(S), NEW T, IsFiniteSet(T), S \cap T = {},
           NEW f, \A y \in S \cup T : f[y] \in Nat
    PROVE  Sum(f, S \cup T) = Sum(f, S) + Sum(f, T)
<1> DEFINE C == {U \in SUBSET T : Sum(f, S \cup U) = Sum(f, S) + Sum(f, U)}
<1>0. Sum(f, S) \in Nat
  BY SumNat
<1>1. {} \in C
  <2>1. S \cup {} = S
    OBVIOUS
  <2> QED
    BY <1>0, <2>1, SumEmpty
<1>2. ASSUME NEW U \in SUBSET T, NEW x \in T \ U, U \in C PROVE U \cup {x} \in C
  <2>1. IsFiniteSet(U) /\ x \notin U /\ \A y \in U \cup {x} : f[y] \in Nat
    BY FS_Subset
  <2>2. IsFiniteSet(S \cup U) /\ x \notin S \cup U /\ \A y \in (S \cup U) \cup {x} : f[y] \in Nat
    BY <2>1, FS_Union
  <2>3. Sum(f, U \cup {x}) = Sum(f, U) + f[x] /\ Sum(f, U) \in Nat
    BY <2>1, SumAdd
  <2>4. Sum(f, (S \cup U) \cup {x}) = Sum(f, S \cup U) + f[x]
    BY <2>2, SumAdd
  <2>5. (S \cup U) \cup {x} = S \cup (U \cup {x}) /\ f[x] \in Nat
    BY <2>1
  <2>6. Sum(f, S \cup (U \cup {x})) = (Sum(f, S) + Sum(f, U)) + f[x]
    BY <1>2, <2>4, <2>5
  <2>7. Sum(f, S \cup (U \cup {x})) = Sum(f, S) + Sum(f, U \cup {x})
    BY <1>0, <2>3, <2>5, <2>6
  <2> QED
    BY <2>7
<1>3. T \in C
  <2> HIDE DEF C
  <2> QED
    BY <1>1, <1>2, SetInduct
<1> QED
  BY <1>3

LEMMA SumPart ==
    ASSUME NEW S, IsFiniteSet(S), NEW T \in SUBSET S, NEW f, \A y \in S : f[y] \in Nat
    PROVE  Sum(f, T) \in Nat /\ Sum(f, S) \in Nat /\ Sum(f, T) <= Sum(f, S)
<1>1. IsFiniteSet(T) /\ IsFiniteSet(S \ T) /\ T \cup (S \ T) = S /\ T \cap (S \ T) = {}
  BY FS_Subset
<1>2. Sum(f, T) \in Nat /\ Sum(f, S \ T) \in Nat /\ Sum(f, S) \in Nat
  BY <1>1, SumNat
<1>3. Sum(f, T \cup (S \ T)) = Sum(f, T) + Sum(f, S \ T)
  BY <1>1, SumUnion
<1> QED
  BY <1>1, <1>2, <1>3

\* A sum of ones counts.
LEMMA SumCount ==
    ASSUME NEW S, IsFiniteSet(S), NEW f, \A y \in S : f[y] \in {0, 1}
    PROVE  Sum(f, S) = Cardinality({y \in S : f[y] = 1})
<1> DEFINE Ones(T) == {y \in T : f[y] = 1}
           C == {T \in SUBSET S : Sum(f, T) = Cardinality(Ones(T))}
<1>1. {} \in C
  <2>1. Ones({}) = {}
    OBVIOUS
  <2> QED
    BY <2>1, SumEmpty, FS_EmptySet
<1>2. ASSUME NEW T \in SUBSET S, NEW x \in S \ T, T \in C PROVE T \cup {x} \in C
  <2>1. IsFiniteSet(T) /\ x \notin T /\ \A y \in T \cup {x} : f[y] \in Nat
    BY FS_Subset
  <2>2. Sum(f, T \cup {x}) = Sum(f, T) + f[x]
    BY <2>1, SumAdd
  <2>3. IsFiniteSet(Ones(T)) /\ x \notin Ones(T)
    BY <2>1, FS_Subset
  <2>4. Cardinality(Ones(T)) \in Nat /\ Cardinality(Ones(T) \cup {x}) = Cardinality(Ones(T)) + 1
    BY <2>3, FS_AddElement, FS_CardinalityType
  <2>5. Ones(T \cup {x}) = IF f[x] = 1 THEN Ones(T) \cup {x} ELSE Ones(T)
    OBVIOUS
  <2>6. f[x] = 0 \/ f[x] = 1
    BY <1>2
  <2>7. Sum(f, T) = Cardinality(Ones(T))
    BY <1>2
  <2> HIDE DEF Ones
  <2>8. Sum(f, T \cup {x}) = Cardinality(Ones(T \cup {x}))
    BY <2>2, <2>4, <2>5, <2>6, <2>7
  <2> QED
    BY <2>8
<1>3. S \in C
  <2> HIDE DEF C
  <2> QED
    BY <1>1, <1>2, SetInduct
<1> QED
  BY <1>3

\* The sum of the sums over sets that share nothing.
LEMMA SumFamily ==
    ASSUME NEW K, IsFiniteSet(K), NEW F, \A k \in K : IsFiniteSet(F[k]),
           \A j, k \in K : j # k => F[j] \cap F[k] = {},
           NEW f, \A k \in K : \A y \in F[k] : f[y] \in Nat,
           NEW g, \A k \in K : g[k] = Sum(f, F[k])
    PROVE  Sum(g, K) = Sum(f, UNION {F[k] : k \in K})
<1> DEFINE All(T) == UNION {F[k] : k \in T}
           C == {T \in SUBSET K : IsFiniteSet(All(T)) /\ Sum(g, T) = Sum(f, All(T))}
<1>0. \A k \in K : g[k] \in Nat
  BY SumNat
<1>1. {} \in C
  <2>1. All({}) = {}
    OBVIOUS
  <2> QED
    BY <2>1, SumEmpty, FS_EmptySet
<1>2. ASSUME NEW T \in SUBSET K, NEW x \in K \ T, T \in C PROVE T \cup {x} \in C
  <2>1. IsFiniteSet(T) /\ x \notin T /\ \A y \in T \cup {x} : g[y] \in Nat
    BY <1>0, FS_Subset
  <2>2. Sum(g, T \cup {x}) = Sum(g, T) + g[x]
    BY <2>1, SumAdd
  <2>3. All(T \cup {x}) = All(T) \cup F[x] /\ All(T) \cap F[x] = {}
    BY <1>2
  <2>4. IsFiniteSet(All(T)) /\ IsFiniteSet(F[x]) /\ \A y \in All(T) \cup F[x] : f[y] \in Nat
    BY <1>2
  <2>5. Sum(g, T) = Sum(f, All(T)) /\ g[x] = Sum(f, F[x])
    BY <1>2
  <2> HIDE DEF All
  <2>6. Sum(f, All(T) \cup F[x]) = Sum(f, All(T)) + Sum(f, F[x])
    BY <2>3, <2>4, SumUnion
  <2>7. IsFiniteSet(All(T) \cup F[x])
    BY <2>4, FS_Union
  <2> QED
    BY <2>2, <2>3, <2>5, <2>6, <2>7
<1>3. K \in C
  <2> HIDE DEF C
  <2> QED
    BY <1>1, <1>2, SetInduct
<1> QED
  BY <1>3

-----------------------------------------------------------------------------
(* Functions that are recursive along the tree.                            *)

LEMMA Highest == \E top \in Pids : \A p \in Pids : p <= top
<1> SUFFICES ASSUME \A top \in Pids : \E p \in Pids : ~(p <= top) PROVE FALSE
  OBVIOUS
<1> DEFINE T == {p \in Pids : FALSE}
<1>1. \A p \in Pids : (\A q \in Pids : q > p => q \in T) => p \in T
  BY ProcListAssumption
<1>2. Pids \subseteq T
  <2> HIDE DEF T
  <2> QED
    BY <1>1, DownInduct
<1> QED
  BY <1>2, ProcListAssumption

\* From the parents down: there is a function that gives to the roots what base says,
\* and to the others what step makes of the value of the parent.
Upward(up, R) == \A p \in Pids \ R : up[p] \in Pids /\ up[p] < p
Descends(f, R, up, base, step) ==
    \A p \in Pids : f[p] = IF p \in R THEN base[p] ELSE step[<<p, f[up[p]]>>]

LEMMA TopDown ==
    ASSUME NEW V, NEW R, NEW up, Upward(up, R),
           NEW base \in [Pids -> V], NEW step \in [Pids \X V -> V]
    PROVE  \E f \in [Pids -> V] : Descends(f, R, up, base, step)
<1>u. \A p \in Pids \ R : up[p] \in Pids /\ up[p] < p
  BY DEF Upward
<1> DEFINE Value(f, p) == IF p \in R THEN base[p] ELSE step[<<p, f[up[p]]>>]
           N == {n \in Nat : \E f \in [Pids -> V] : \A p \in Pids : p <= n => f[p] = Value(f, p)}
<1>0. Pids \subseteq Nat \ {0}
  BY ProcListAssumption
<1>1. ASSUME NEW f \in [Pids -> V], NEW p \in Pids PROVE Value(f, p) \in V
  BY <1>u
<1>2. N \subseteq Nat /\ 0 \in N
  <2>1. \A p \in Pids : ~(p <= 0)
    BY <1>0
  <2> QED
    BY <2>1
<1>3. ASSUME NEW n \in N PROVE n + 1 \in N
  <2>1. PICK f \in [Pids -> V] : \A p \in Pids : p <= n => f[p] = Value(f, p)
    OBVIOUS
  <2> DEFINE g == [p \in Pids |-> IF p = n + 1 THEN Value(f, p) ELSE f[p]]
  <2>2. g \in [Pids -> V]
    <3> HIDE DEF Value
    <3> QED
      BY <1>1
  <2>3. ASSUME NEW p \in Pids, p <= n + 1 PROVE Value(g, p) = Value(f, p)
    <3>1. p \in R \/ (up[p] \in Pids /\ up[p] # n + 1)
      BY <1>u, <1>0, <2>3
    <3>2. p \in R \/ g[up[p]] = f[up[p]]
      BY <3>1
    <3> HIDE DEF g
    <3> QED
      BY <3>2
  <2>4. ASSUME NEW p \in Pids, p <= n + 1 PROVE g[p] = Value(g, p)
    <3>1. CASE p = n + 1
      <4>1. g[p] = Value(f, p)
        BY <3>1
      <4> HIDE DEF g, Value
      <4> QED
        BY <2>3, <2>4, <4>1
    <3>2. CASE p # n + 1
      <4>1. g[p] = f[p] /\ p <= n
        BY <1>0, <2>4, <3>2
      <4> HIDE DEF g, Value
      <4> QED
        BY <2>1, <2>3, <2>4, <4>1
    <3> QED
      BY <3>1, <3>2
  <2> HIDE DEF g, Value
  <2> QED
    BY <2>2, <2>4
<1>4. N = Nat
  <2> HIDE DEF N
  <2> QED
    BY <1>2, <1>3, NatInduct
<1>5. PICK top \in Pids : \A p \in Pids : p <= top
  BY Highest
<1>6. top \in N
  BY <1>0, <1>4
<1>7. PICK f \in [Pids -> V] : \A p \in Pids : p <= top => f[p] = Value(f, p)
  BY <1>6
<1>8. Descends(f, R, up, base, step)
  BY <1>5, <1>7 DEF Descends
<1> QED
  BY <1>8

\* From the leaves up: each process has its own and what those of K add.
LEMMA AccumulatedIs ==
    ASSUME NEW own, \A p \in Pids : own[p] \in Nat,
           NEW K \in [Pids -> SUBSET Pids], \A p \in Pids : \A k \in K[p] : p < k
    PROVE  /\ Accumulated(own, K) \in [Pids -> Nat]
           /\ \A p \in Pids : Accumulated(own, K)[p] = own[p] + Sum(Accumulated(own, K), K[p])
<1> DEFINE Value(f, p) == own[p] + Sum(f, K[p])
           N(top) == {n \in Nat : \E f \in [Pids -> Nat] :
                                    \A p \in Pids : p + n > top => f[p] = Value(f, p)}
<1>0. Pids \subseteq Nat /\ IsFiniteSet(Pids)
  BY ProcListAssumption
<1>1. ASSUME NEW f \in [Pids -> Nat], NEW p \in Pids PROVE Value(f, p) \in Nat /\ IsFiniteSet(K[p])
  <2>1. IsFiniteSet(K[p]) /\ \A k \in K[p] : f[k] \in Nat
    BY <1>0, FS_Subset
  <2> QED
    BY <2>1, SumNat
<1>2. PICK top \in Pids : \A p \in Pids : p <= top
  BY Highest
<1>3. N(top) \subseteq Nat /\ 0 \in N(top)
  <2>1. \A p \in Pids : ~(p + 0 > top)
    BY <1>0, <1>2
  <2>2. [p \in Pids |-> 0] \in [Pids -> Nat]
    OBVIOUS
  <2> HIDE DEF Value
  <2> QED
    BY <2>1, <2>2
<1>4. ASSUME NEW n \in N(top) PROVE n + 1 \in N(top)
  <2>1. PICK f \in [Pids -> Nat] : \A p \in Pids : p + n > top => f[p] = Value(f, p)
    OBVIOUS
  <2> DEFINE g == [p \in Pids |-> IF p + n = top THEN Value(f, p) ELSE f[p]]
  <2>2. g \in [Pids -> Nat]
    <3> HIDE DEF Value
    <3> QED
      BY <1>1
  <2>3. ASSUME NEW p \in Pids, p + n >= top PROVE Value(g, p) = Value(f, p)
    <3>1. \A k \in K[p] : k \in Pids /\ k + n # top
      BY <1>0, <1>2, <2>3
    <3>2. \A k \in K[p] : f[k] \in Nat /\ f[k] = g[k]
      BY <3>1
    <3>3. IsFiniteSet(K[p])
      BY <1>1
    <3> HIDE DEF g
    <3>4. Sum(f, K[p]) = Sum(g, K[p])
      BY <3>2, <3>3, SumSame
    <3> QED
      BY <3>4
  <2>4. ASSUME NEW p \in Pids, p + (n + 1) > top PROVE g[p] = Value(g, p)
    <3>0. p + n >= top
      BY <1>0, <1>2, <2>4
    <3>1. CASE p + n = top
      <4>1. g[p] = Value(f, p)
        BY <3>1
      <4> HIDE DEF g, Value
      <4> QED
        BY <2>3, <3>0, <4>1
    <3>2. CASE p + n # top
      <4>1. g[p] = f[p] /\ p + n > top
        BY <1>0, <3>0, <3>2
      <4> HIDE DEF g, Value
      <4> QED
        BY <2>1, <2>3, <3>0, <4>1
    <3> QED
      BY <3>1, <3>2
  <2> HIDE DEF g, Value
  <2> QED
    BY <2>2, <2>4
<1>5. N(top) = Nat
  <2> HIDE DEF N
  <2> QED
    BY <1>3, <1>4, NatInduct
<1>6. top \in N(top)
  BY <1>0, <1>5
<1>7. PICK f \in [Pids -> Nat] : \A p \in Pids : p + top > top => f[p] = Value(f, p)
  BY <1>6
<1>8. \A p \in Pids : f[p] = Value(f, p)
  BY <1>0, <1>7, ProcListAssumption
<1> DEFINE Step(h) == [p \in Pids |-> own[p] + Sum(h, K[p])]
           all == CHOOSE h : h = Step(h)
<1>9. Accumulated(own, K) = all
  BY DEF Accumulated
<1>10. f = Step(f)
  BY <1>8
<1>11. all = Step(all)
  <2> HIDE DEF Step
  <2> QED
    BY <1>10
<1>12. \A p \in Pids : all[p] = own[p] + Sum(all, K[p])
  <2> HIDE DEF all
  <2> QED
    BY <1>11
<1>13. DOMAIN all = Pids /\ all = [p \in DOMAIN all |-> all[p]]
  <2> HIDE DEF all
  <2> QED
    BY <1>11
<1> HIDE DEF all
<1>14. \A p \in Pids : all[p] \in Nat
  <2> DEFINE T == {p \in Pids : all[p] \in Nat}
  <2>1. ASSUME NEW p \in Pids, \A q \in Pids : q > p => q \in T PROVE p \in T
    <3>1. \A k \in K[p] : all[k] \in Nat
      <4>1. \A k \in K[p] : k \in Pids /\ k > p
        BY <1>0
      <4> QED
        BY <2>1, <4>1
    <3>2. IsFiniteSet(K[p])
      BY <1>0, FS_Subset
    <3>3. Sum(all, K[p]) \in Nat
      BY <3>1, <3>2, SumNat
    <3> QED
      BY <1>12, <3>3
  <2>2. Pids \subseteq T
    <3> HIDE DEF T
    <3> QED
      BY <2>1, DownInduct
  <2> QED
    BY <2>2
<1>15. all \in [Pids -> Nat]
  BY <1>13, <1>14
<1> QED
  BY <1>9, <1>12, <1>15

-----------------------------------------------------------------------------
(* The list, and what each step of a collection leaves of it.              *)

Entries == [ppid : Pids \cup {None}, use : Nat, filt : BOOLEAN, coll : BOOLEAN,
            idx : 0..Cardinality(Pids), dead : BOOLEAN]
Ops == [collapse : Pids \cup {None}, expand : Pids \cup {None}, children : Pids \cup {None},
        all : BOOLEAN]
Lists == [order : Seq(Pids), ent : [Pids -> Entries], dead : SUBSET Pids, found : SUBSET Pids,
          known : Orders, op : Ops, hidden : Nat, rows : Int]
Modes == [o : Orders, full : BOOLEAN, read : BOOLEAN, should : BOOLEAN, paused : BOOLEAN,
          aggregate : BOOLEAN, entering : BOOLEAN, resort : BOOLEAN, tree : BOOLEAN]

\* A list of processes, each one once, with nothing known of the others; parents have
\* lower pids; the dead are marked.
Sound(l) ==
    /\ l \in Lists /\ IsInjective(l.order)
    /\ \A p \in Pids \ Listed(l) : l.ent[p] = Blank
    /\ \A p \in Pids : l.ent[p].ppid < p /\ (l.ent[p].dead <=> p \in l.dead)
    /\ l.dead \subseteq Listed(l)

LEMMA PidsAre ==
    /\ IsFiniteSet(Pids) /\ Pids \subseteq Nat \ {0} /\ 1 \in Pids
    /\ None = 0 /\ None \notin Pids /\ Cardinality(Pids) \in Nat
  BY ProcListAssumption, FS_CardinalityType DEF None

LEMMA BlankEntry == Blank \in Entries
  BY PidsAre DEF Blank, Entries

\* What is listed.
LEMMA ListedIs ==
    ASSUME NEW l, Sound(l)
    PROVE  /\ Listed(l) \subseteq Pids /\ IsFiniteSet(Listed(l))
           /\ Cardinality(Listed(l)) = Len(l.order) /\ Len(l.order) \in 0..Cardinality(Pids)
<1>1. l.order \in Seq(Pids) /\ IsInjective(l.order)
  BY DEF Sound, Lists
<1>2. Listed(l) \subseteq Pids /\ IsFiniteSet(Listed(l)) /\ Cardinality(Listed(l)) = Len(l.order)
  BY <1>1, ListIsLine DEF Listed
<1>3. Cardinality(Listed(l)) <= Cardinality(Pids) /\ Cardinality(Listed(l)) \in Nat
  BY <1>2, PidsAre, FS_Subset, FS_CardinalityType
<1> QED
  BY <1>2, <1>3, PidsAre

\* Changing the entries of the listed.
LEMMA EntriesKept ==
    ASSUME NEW l, Sound(l), NEW f \in [Pids -> Entries],
           \A p \in Pids : f[p].ppid < p /\ f[p].dead = l.ent[p].dead,
           \A p \in Pids \ Listed(l) : f[p] = Blank
    PROVE  /\ Sound([l EXCEPT !.ent = f]) /\ [l EXCEPT !.ent = f].ent = f
           /\ Listed([l EXCEPT !.ent = f]) = Listed(l)
<1> DEFINE k == [l EXCEPT !.ent = f]
<1>1. l \in Lists
  BY DEF Sound
<1>2. k \in Lists /\ k.order = l.order /\ k.ent = f /\ k.dead = l.dead
  BY <1>1 DEF Lists
<1> HIDE DEF k
<1>3. Listed(k) = Listed(l)
  BY <1>2 DEF Listed
<1>4. Sound(k)
  BY <1>2, <1>3 DEF Sound
<1> QED
  BY <1>2, <1>3, <1>4 DEF k

\* Changing the order.
LEMMA OrderKept ==
    ASSUME NEW l, Sound(l), NEW s, NEW R, Line(s, Listed(l), R)
    PROVE  /\ Sound([l EXCEPT !.order = s]) /\ [l EXCEPT !.order = s].order = s
           /\ Listed([l EXCEPT !.order = s]) = Listed(l) /\ Len(s) = Len(l.order)
<1> DEFINE k == [l EXCEPT !.order = s]
<1>1. l \in Lists /\ s \in Seq(Pids) /\ IsInjective(s) /\ ToSet(s) = Listed(l)
  <2>1. s \in Seq(Listed(l)) /\ Listed(l) \subseteq Pids
    BY ListedIs DEF Line
  <2> QED
    BY <2>1, SeqMonotonic DEF Sound, Line
<1>2. k \in Lists /\ k.order = s /\ k.ent = l.ent /\ k.dead = l.dead
  BY <1>1 DEF Lists
<1> HIDE DEF k
<1>3. Listed(k) = Listed(l)
  BY <1>1, <1>2 DEF Listed
<1>4. Sound(k)
  BY <1>1, <1>2, <1>3 DEF Sound
<1>5. Len(s) = Len(l.order)
  BY ListedIs DEF Line
<1> QED
  BY <1>2, <1>3, <1>4, <1>5 DEF k

\* Sorting by a key.
LEMMA Resorted ==
    ASSUME NEW l, Sound(l), NEW key, \A p \in Pids : key[p] \in Int
    PROVE  Line(StableSort(l.order, key), Listed(l), Earlier(l.order, key))
<1>1. l.order \in Seq(Pids) /\ IsInjective(l.order)
  BY DEF Sound, Lists
<1> QED
  BY <1>1, StableSortLine DEF Listed

LEMMA SortKeyInt ==
    ASSUME NEW l, Sound(l), NEW o \in Orders
    PROVE  \A p \in Pids : SortKey(l.ent, o)[p] \in Int
<1>1. \A p \in Pids : p \in Int /\ l.ent[p].use \in Int
  BY PidsAre DEF Sound, Lists, Entries
<1> QED
  BY <1>1 DEF SortKey
-----------------------------------------------------------------------------
(* Reading /proc.                                                          *)

\* A process is younger than its parent.
Younger(S) == \A p \in S : parent[p] \in Pids \cup {None} /\ parent[p] < p
ReadAgain(e, p) == [e EXCEPT !.use = Own[p], !.ppid = IF @ = None THEN parent[p] ELSE @]

LEMMA ScannedIs ==
    ASSUME NEW l, Sound(l), NEW S \in SUBSET Pids, NEW paused \in BOOLEAN, Younger(S)
    PROVE  LET k == Scanned(l, S, paused) IN
           /\ Sound(k) /\ k.found = S /\ k.hidden = l.hidden /\ k.rows = l.rows
           /\ k.known = l.known /\ k.op = l.op /\ k.dead = l.dead
           /\ Listed(k) = Listed(l) \cup (IF paused THEN {} ELSE S)
           /\ paused => k.order = l.order
           /\ \A p \in (S \cap Listed(k)) \ l.dead : k.ent[p] = ReadAgain(l.ent[p], p)
           /\ \A p \in Pids \ ((S \cap Listed(k)) \ l.dead) : k.ent[p] = l.ent[p]
<1> DEFINE new == IF paused THEN {} ELSE S \ Listed(l)
           l1  == [l EXCEPT !.found = S, !.order = @ \o Ascending(new)]
           Ent(p) == IF p \in (S \cap Listed(l1)) \ l.dead
                       THEN [l.ent[p] EXCEPT !.use = Own[p],
                                             !.ppid = IF @ = None THEN parent[p] ELSE @]
                       ELSE l.ent[p]
           k == Scanned(l, S, paused)
<1>1. l \in Lists /\ l.order \in Seq(Pids) /\ IsInjective(l.order) /\ DOMAIN l.order = 1..Len(l.order)
  BY DEF Sound, Lists
<1>2. new \in SUBSET Pids /\ new \cap Listed(l) = {}
  OBVIOUS
<1>3. Ascending(new) \in Seq(new) /\ IsInjective(Ascending(new)) /\ ToSet(Ascending(new)) = new
  BY <1>2, AscendingLine DEF Line
<1>4. Ascending(new) \in Seq(Pids) /\ DOMAIN Ascending(new) = 1..Len(Ascending(new))
  BY <1>2, <1>3, SeqMonotonic
<1> DEFINE o == l.order \o Ascending(new)
<1>5. /\ o \in Seq(Pids) /\ IsInjective(o) /\ ToSet(o) = Listed(l) \cup new
      /\ new = {} => o = l.order
  <2> HIDE DEF new
  <2> DEFINE a == Ascending(new)
             n == Len(l.order)
  <2>1. n \in Nat /\ Len(a) \in Nat /\ o \in Seq(Pids) /\ Len(o) = n + Len(a) /\ DOMAIN o = 1..(n + Len(a))
    BY <1>1, <1>4
  <2>2. \A i \in 1..(n + Len(a)) : o[i] = IF i <= n THEN l.order[i] ELSE a[i - n]
    BY <1>1, <1>4, ConcatProperties
  <2>3. \A i \in 1..n : l.order[i] \in Listed(l)
    BY <1>1 DEF Listed, ToSet
  <2>4. \A i \in 1..Len(a) : a[i] \in new
    BY <1>3, <1>4 DEF ToSet
  <2>5. \A i, j \in 1..n : l.order[i] = l.order[j] => i = j
    BY <1>1 DEF IsInjective
  <2>6. \A i, j \in 1..Len(a) : a[i] = a[j] => i = j
    BY <1>3, <1>4 DEF IsInjective
  <2> HIDE DEF o, a, n
  <2>7. IsInjective(o)
    <3> SUFFICES ASSUME NEW i \in 1..(n + Len(a)), NEW j \in 1..(n + Len(a)), o[i] = o[j]
                 PROVE  i = j
      BY <2>1 DEF IsInjective
    <3>1. CASE i <= n /\ j <= n
      BY <2>2, <2>5, <3>1
    <3>2. CASE i > n /\ j > n
      <4>1. i - n \in 1..Len(a) /\ j - n \in 1..Len(a) /\ a[i - n] = a[j - n]
        BY <2>1, <2>2, <3>2
      <4>2. i - n = j - n
        BY <2>6, <4>1
      <4> QED
        BY <2>1, <4>2
    <3>3. CASE i <= n /\ j > n
      <4>1. o[i] \in Listed(l) /\ o[j] \in new
        BY <2>1, <2>2, <2>3, <2>4, <3>3
      <4> QED
        BY <1>2, <4>1
    <3>4. CASE i > n /\ j <= n
      <4>1. o[j] \in Listed(l) /\ o[i] \in new
        BY <2>1, <2>2, <2>3, <2>4, <3>4
      <4> QED
        BY <1>2, <4>1
    <3> QED
      BY <2>1, <3>1, <3>2, <3>3, <3>4
  <2>8. ToSet(o) = Listed(l) \cup new
    <3>1. ASSUME NEW x \in ToSet(o) PROVE x \in Listed(l) \cup new
      <4>1. PICK i \in 1..(n + Len(a)) : x = o[i]
        BY <2>1 DEF ToSet
      <4>2. CASE i <= n
        BY <2>2, <2>3, <4>1, <4>2
      <4>3. CASE i > n
        <5>1. i - n \in 1..Len(a)
          BY <2>1, <4>3
        <5> QED
          BY <2>1, <2>2, <2>4, <4>1, <4>3, <5>1
      <4> QED
        BY <2>1, <4>2, <4>3
    <3>2. ASSUME NEW x \in Listed(l) PROVE x \in ToSet(o)
      <4>1. PICK i \in 1..n : x = l.order[i]
        BY <1>1 DEF Listed, ToSet, n
      <4>2. i \in 1..(n + Len(a)) /\ o[i] = x
        BY <2>1, <2>2, <4>1
      <4> QED
        BY <2>1, <4>2 DEF ToSet
    <3>3. ASSUME NEW x \in new PROVE x \in ToSet(o)
      <4>1. PICK i \in 1..Len(a) : x = a[i]
        BY <1>3, <1>4 DEF ToSet, a
      <4>2. i + n \in 1..(n + Len(a)) /\ ~(i + n <= n) /\ (i + n) - n = i
        BY <2>1
      <4>3. o[i + n] = x
        BY <2>2, <4>1, <4>2
      <4> QED
        BY <2>1, <4>2, <4>3 DEF ToSet
    <3> QED
      BY <3>1, <3>2, <3>3
  <2>9. new = {} => o = l.order
    <3> SUFFICES ASSUME new = {} PROVE o = l.order
      OBVIOUS
    <3>1. Len(a) = 0
      BY <2>1, <2>4
    <3>2. a = <<>>
      BY <1>4, <3>1, EmptySeq DEF a
    <3> QED
      BY <1>1, <3>2 DEF o, a
  <2> QED
    BY <2>1, <2>7, <2>8, <2>9
<1>6. /\ l1 \in Lists /\ l1.order = o /\ l1.ent = l.ent /\ l1.dead = l.dead /\ l1.found = S
      /\ l1.hidden = l.hidden /\ l1.rows = l.rows /\ l1.known = l.known /\ l1.op = l.op
  <2> HIDE DEF new
  <2> QED
    BY <1>1, <1>5 DEF Lists
<1>7. Listed(l1) = Listed(l) \cup new
  BY <1>5, <1>6 DEF Listed
<1>8. k = [l1 EXCEPT !.ent = [p \in Pids |-> Ent(p)]]
  BY DEF Scanned
<1> HIDE DEF l1, o, new, k
<1>9. Sound(l1)
  <2>1. \A p \in Pids \ Listed(l1) : l1.ent[p] = Blank
    BY <1>6, <1>7 DEF Sound
  <2>2. \A p \in Pids : l1.ent[p].ppid < p /\ (l1.ent[p].dead <=> p \in l1.dead)
    BY <1>6 DEF Sound
  <2>3. l1.dead \subseteq Listed(l1)
    BY <1>6, <1>7 DEF Sound
  <2> QED
    BY <1>5, <1>6, <2>1, <2>2, <2>3 DEF Sound
<1> DEFINE f == [p \in Pids |-> Ent(p)]
<1>10. \A p \in Pids : l1.ent[p] \in Entries /\ Own[p] \in Nat
  BY <1>9, ProcListAssumption DEF Sound, Lists
<1>11. \A p \in Pids : Ent(p) \in Entries /\ Ent(p).ppid < p /\ Ent(p).dead = l1.ent[p].dead
  <2> SUFFICES ASSUME NEW p \in Pids
               PROVE  Ent(p) \in Entries /\ Ent(p).ppid < p /\ Ent(p).dead = l1.ent[p].dead
    OBVIOUS
  <2>1. l1.ent[p] \in Entries /\ Own[p] \in Nat /\ l1.ent[p].ppid < p
    BY <1>9, <1>10 DEF Sound
  <2>3. l.ent[p] = l1.ent[p]
    BY <1>6
  <2>2. p \in S => parent[p] \in Pids \cup {None} /\ parent[p] < p
    BY DEF Younger
  <2> QED
    BY <2>1, <2>2, <2>3 DEF Entries
<1>12. \A p \in Pids \ Listed(l1) : f[p] = Blank
  BY <1>6, <1>9 DEF Sound
<1>13. f \in [Pids -> Entries] /\ \A p \in Pids : f[p].ppid < p /\ f[p].dead = l1.ent[p].dead
  BY <1>11
<1>14. Sound(k) /\ k.ent = f /\ Listed(k) = Listed(l1)
  <2> HIDE DEF f
  <2> QED
    BY <1>8, <1>9, <1>12, <1>13, EntriesKept DEF f
<1>15. /\ k.found = S /\ k.hidden = l.hidden /\ k.rows = l.rows
       /\ k.known = l.known /\ k.op = l.op /\ k.dead = l.dead /\ k.order = l1.order
  <2> HIDE DEF Ent
  <2> QED
    BY <1>6, <1>8 DEF Lists
<1>16. Listed(k) = Listed(l) \cup (IF paused THEN {} ELSE S)
  BY <1>7, <1>14 DEF new
<1>17. paused => k.order = l.order
  BY <1>5, <1>6, <1>15 DEF new
<1>18. \A p \in Pids : k.ent[p] = Ent(p)
  BY <1>14
<1>19. \A p \in Pids :
         IF p \in (S \cap Listed(k)) \ l.dead
           THEN k.ent[p] = [l.ent[p] EXCEPT !.use = Own[p],
                                     !.ppid = IF @ = None THEN parent[p] ELSE @]
           ELSE k.ent[p] = l.ent[p]
  BY <1>6, <1>14, <1>18
<1>20. /\ \A p \in (S \cap Listed(k)) \ l.dead : k.ent[p] = ReadAgain(l.ent[p], p)
       /\ \A p \in Pids \ ((S \cap Listed(k)) \ l.dead) : k.ent[p] = l.ent[p]
  BY <1>19 DEF ReadAgain
<1> QED
  BY <1>14, <1>15, <1>16, <1>17, <1>20 DEF k

-----------------------------------------------------------------------------
(* The steps up to the tree.                                               *)

\* What no step of a collection but its first ones changes.
Kept(k, l) ==
    k.found = l.found /\ k.known = l.known /\ k.rows = l.rows /\ k.dead = l.dead

Died(e) == [e EXCEPT !.use = 0, !.dead = TRUE]

LEMMA SweptIs ==
    ASSUME NEW l, Sound(l), NEW paused \in BOOLEAN, paused \/ l.dead \cap l.found = {}
    PROVE  LET k == Swept(l, paused) IN
           /\ Sound(k) /\ k.found = l.found /\ k.hidden = l.hidden /\ k.rows = l.rows
           /\ k.known = l.known /\ k.op = l.op
           /\ paused => /\ k.order = l.order /\ k.dead = l.dead \cup (Listed(l) \ l.found)
                        /\ Listed(k) = Listed(l)
           /\ ~paused => k.dead = {} /\ Listed(k) = Listed(l) \cap l.found
           /\ \A p \in Listed(k) \cap l.found : k.ent[p] = l.ent[p]
           /\ \A p \in Listed(k) \ l.found : k.ent[p] = Died(l.ent[p])
<1> DEFINE k == Swept(l, paused)
           gone == Listed(l) \ l.found
<1>1. /\ l \in Lists /\ l.order \in Seq(Pids) /\ IsInjective(l.order)
      /\ \A p \in Pids : l.ent[p] \in Entries /\ l.ent[p].ppid < p
  BY DEF Sound, Lists
<1>2. Listed(l) \subseteq Pids /\ None \notin Pids /\ \A p \in Pids : None < p
  BY ListedIs, PidsAre DEF None
<1>3. CASE paused
  <2> DEFINE f == [p \in Pids |-> IF p \in gone THEN [l.ent[p] EXCEPT !.use = 0, !.dead = TRUE]
                                  ELSE l.ent[p]]
  <2>1. k = [[l EXCEPT !.ent = f] EXCEPT !.dead = @ \cup gone]
    BY <1>3 DEF Swept, With
  <2>2. \A p \in Pids : f[p] \in Entries /\ f[p].ppid < p
    BY <1>1 DEF Entries
  <2>3. \A p \in Pids : f[p].dead = (l.ent[p].dead \/ p \in gone)
    BY <1>1 DEF Entries
  <2>4. f \in [Pids -> Entries]
    BY <2>2
  <2>5. \A p \in Pids \ Listed(l) : f[p] = Blank
    BY DEF Sound
  <2>6. \A p \in Pids : f[p] = IF p \in gone THEN [l.ent[p] EXCEPT !.use = 0, !.dead = TRUE]
                               ELSE l.ent[p]
    OBVIOUS
  <2> HIDE DEF f
  <2>7. /\ k \in Lists /\ k.order = l.order /\ k.ent = f /\ k.dead = l.dead \cup gone
        /\ k.found = l.found /\ k.hidden = l.hidden /\ k.rows = l.rows
        /\ k.known = l.known /\ k.op = l.op
    BY <1>1, <1>2, <2>1, <2>4 DEF Lists
  <2> HIDE DEF k
  <2>8. Listed(k) = Listed(l)
    BY <2>7 DEF Listed
  <2>9. \A p \in Pids : k.ent[p].ppid < p /\ (k.ent[p].dead <=> p \in k.dead)
    BY <2>2, <2>3, <2>7 DEF Sound
  <2>10. Sound(k)
    BY <1>1, <2>5, <2>7, <2>8, <2>9 DEF Sound
  <2> QED
    <3>1. /\ \A p \in Listed(k) \cap l.found : k.ent[p] = l.ent[p]
          /\ \A p \in Listed(k) \ l.found : k.ent[p] = Died(l.ent[p])
      BY <1>2, <2>6, <2>7, <2>8 DEF Died
    <3> QED
      BY <1>3, <2>7, <2>8, <2>10, <3>1 DEF k
<1>4. CASE ~paused
  <2> DEFINE f == [p \in Pids |-> IF p \in gone THEN Blank ELSE l.ent[p]]
             s == Only(l.order, l.found)
  <2>1. k = [[l EXCEPT !.ent = f] EXCEPT !.order = s, !.dead = {}]
    BY <1>4 DEF Swept, With
  <2>2. Line(s, Listed(l) \cap l.found, Leads(l.order))
    BY <1>1, OnlyLine DEF Listed
  <2> HIDE DEF s
  <2>3. s \in Seq(Pids) /\ IsInjective(s) /\ ToSet(s) = Listed(l) \cap l.found
    <3>1. s \in Seq(Listed(l) \cap l.found) /\ Listed(l) \cap l.found \subseteq Pids
      BY <1>2, <2>2 DEF Line
    <3> QED
      BY <2>2, <3>1, SeqMonotonic DEF Line
  <2>4. f \in [Pids -> Entries]
    BY <1>1, BlankEntry
  <2>5. \A p \in Pids : f[p] = IF p \in gone THEN Blank ELSE l.ent[p]
    OBVIOUS
  <2> HIDE DEF f
  <2>6. /\ k \in Lists /\ k.order = s /\ k.ent = f /\ k.dead = {}
        /\ k.found = l.found /\ k.hidden = l.hidden /\ k.rows = l.rows
        /\ k.known = l.known /\ k.op = l.op
    BY <1>1, <2>1, <2>3, <2>4 DEF Lists
  <2> HIDE DEF k
  <2>7. Listed(k) = Listed(l) \cap l.found
    BY <2>3, <2>6 DEF Listed
  <2>8. \A p \in Pids \ Listed(k) : k.ent[p] = Blank
    BY <2>5, <2>6, <2>7 DEF Sound
  <2>9. Blank.ppid = None /\ Blank.dead = FALSE
    BY DEF Blank
  <2>10. \A p \in Pids : k.ent[p].ppid < p
    BY <1>1, <1>2, <2>5, <2>6, <2>9
  <2>11. \A p \in Pids : ~k.ent[p].dead
    <3> SUFFICES ASSUME NEW p \in Pids PROVE ~k.ent[p].dead
      OBVIOUS
    <3>1. CASE p \in Listed(k)
      <4>1. k.ent[p] = l.ent[p] /\ p \in l.found
        BY <2>5, <2>6, <2>7, <3>1
      <4>2. p \notin l.dead
        BY <1>4, <4>1
      <4> QED
        BY <4>1, <4>2 DEF Sound
    <3>2. CASE p \notin Listed(k)
      BY <2>8, <2>9, <3>2
    <3> QED
      BY <3>1, <3>2
  <2>12. Sound(k)
    BY <2>3, <2>6, <2>8, <2>10, <2>11 DEF Sound
  <2> QED
    <3>1. /\ \A p \in Listed(k) \cap l.found : k.ent[p] = l.ent[p]
          /\ \A p \in Listed(k) \ l.found : k.ent[p] = Died(l.ent[p])
      BY <1>2, <2>5, <2>6, <2>7
    <3> QED
      BY <1>4, <2>6, <2>7, <2>12, <3>1 DEF k
<1> QED
  BY <1>3, <1>4

LEMMA FilteredIs ==
    ASSUME NEW l, Sound(l), NEW m \in Modes
    PROVE  LET k == Filtered(l, m) IN
           /\ Sound(k) /\ Kept(k, l) /\ k.order = l.order /\ k.op = l.op
           /\ ~m.should => k = l
           /\ m.should => k.hidden \in 0..Len(k.order)
           /\ m.should => k.hidden = Cardinality({p \in Listed(k) : ~m.o.tree /\ ~Matches(p, m.o)})
           /\ m.should => \A p \in Listed(k) :
                k.ent[p] = [l.ent[p] EXCEPT !.filt = ~m.o.tree /\ ~Matches(p, m.o)]
<1> DEFINE k == Filtered(l, m)
           out == {p \in Listed(l) : ~m.o.tree /\ ~Matches(p, m.o)}
           f == [p \in Pids |-> [l.ent[p] EXCEPT !.filt = p \in out]]
<1>1. /\ l \in Lists
      /\ \A p \in Pids : l.ent[p] \in Entries /\ l.ent[p].ppid < p
  BY DEF Sound, Lists
<1>2. CASE ~m.should
  BY <1>2 DEF Filtered, Kept
<1>3. CASE m.should
  <2>1. k = [[l EXCEPT !.ent = f] EXCEPT !.hidden = Cardinality(out)]
    BY <1>3 DEF Filtered
  <2>2. out \subseteq Listed(l)
    OBVIOUS
  <2>3. Cardinality(out) \in 0..Len(l.order) /\ Cardinality(out) \in Nat
    <3>1. IsFiniteSet(Listed(l)) /\ Cardinality(Listed(l)) = Len(l.order)
      BY ListedIs
    <3> HIDE DEF out
    <3>2. Cardinality(out) <= Cardinality(Listed(l)) /\ Cardinality(out) \in Nat
      BY <2>2, <3>1, FS_Subset, FS_CardinalityType
    <3> QED
      BY <3>1, <3>2
  <2>4. \A p \in Pids : f[p] = [l.ent[p] EXCEPT !.filt = p \in out]
    OBVIOUS
  <2>5. \A p \in Listed(l) : (p \in out) = (~m.o.tree /\ ~Matches(p, m.o))
    <3>1. \A p \in Listed(l) : p \in out <=> ~m.o.tree /\ ~Matches(p, m.o)
      OBVIOUS
    <3> HIDE DEF out
    <3> QED
      BY <3>1
  <2>6. Listed(l) \subseteq Pids
    BY ListedIs
  <2> HIDE DEF f
  <2>7. f \in [Pids -> Entries] /\ \A p \in Pids : f[p].ppid < p /\ f[p].dead = l.ent[p].dead
    <3>1. \A p \in Pids : (p \in out) \in BOOLEAN
      OBVIOUS
    <3> HIDE DEF out
    <3>2. \A p \in Pids : [l.ent[p] EXCEPT !.filt = p \in out] \in Entries
      BY <1>1, <3>1 DEF Entries
    <3>3. \A p \in Pids : f[p] \in Entries /\ f[p].ppid < p /\ f[p].dead = l.ent[p].dead
      BY <1>1, <2>4, <3>2 DEF Entries
    <3>4. f = [p \in Pids |-> f[p]]
      BY <2>4 DEF f
    <3> QED
      BY <3>3, <3>4
  <2>8. \A p \in Pids \ Listed(l) : f[p] = Blank
    <3> SUFFICES ASSUME NEW p \in Pids \ Listed(l) PROVE f[p] = Blank
      OBVIOUS
    <3>1. l.ent[p] = Blank /\ (p \in out) = FALSE
      BY DEF Sound
    <3>2. [Blank EXCEPT !.filt = FALSE] = Blank
      <4>1. Blank.filt = FALSE
        BY Zenon DEF Blank
      <4>2. \A v \in Entries : v.filt = FALSE => [v EXCEPT !.filt = FALSE] = v
        BY DEF Entries
      <4> QED
        BY <4>1, <4>2, BlankEntry
    <3> QED
      BY <2>4, <3>1, <3>2
  <2> DEFINE j == [l EXCEPT !.ent = f]
  <2>9. Sound(j) /\ j.ent = f /\ Listed(j) = Listed(l)
    BY <2>7, <2>8, EntriesKept
  <2>10. Kept(j, l) /\ j.order = l.order /\ j.op = l.op
    BY <1>1 DEF Lists, Kept
  <2> HIDE DEF j
  <2>11. /\ k \in Lists /\ k.ent = j.ent /\ k.order = j.order /\ k.dead = j.dead
         /\ k.hidden = Cardinality(out) /\ Kept(k, j) /\ k.op = j.op
    <3>1. j \in Lists
      BY <2>9 DEF Sound
    <3>2. k = [j EXCEPT !.hidden = Cardinality(out)]
      BY <2>1 DEF j
    <3> HIDE DEF out, k
    <3> QED
      BY <2>3, <3>1, <3>2 DEF Lists, Kept
  <2> HIDE DEF k
  <2>12. Listed(k) = Listed(l)
    BY <2>9, <2>11 DEF Listed
  <2>13. Sound(k)
    BY <2>9, <2>11, <2>12 DEF Sound
  <2>14. Kept(k, l)
    BY <2>10, <2>11 DEF Kept
  <2>15. \A p \in Listed(k) : k.ent[p] = [l.ent[p] EXCEPT !.filt = ~m.o.tree /\ ~Matches(p, m.o)]
    <3> HIDE DEF out
    <3> QED
      BY <2>4, <2>5, <2>6, <2>9, <2>11, <2>12
  <2>16. k.hidden \in 0..Len(k.order)
    BY <2>3, <2>10, <2>11
  <2> QED
    BY <1>3, <2>10, <2>11, <2>12, <2>13, <2>14, <2>15, <2>16 DEF k
<1> QED
  BY <1>2, <1>3

LEMMA SortedIs ==
    ASSUME NEW l, Sound(l), NEW m \in Modes
    PROVE  LET k == Sorted(l, m) IN
           /\ Sound(k) /\ Kept(k, l) /\ k.ent = l.ent /\ k.hidden = l.hidden /\ k.op = l.op
           /\ Listed(k) = Listed(l) /\ Len(k.order) = Len(l.order)
           /\ ~m.resort /\ m.paused => k = l
<1> DEFINE k == Sorted(l, m)
           s == StableSort(l.order, SortKey(l.ent, m.o))
<1>1. CASE ~m.resort /\ (~m.full \/ m.paused)
  BY <1>1 DEF Sorted, Kept
<1>2. CASE ~(~m.resort /\ (~m.full \/ m.paused))
  <2>1. k = [l EXCEPT !.order = s] /\ ~(~m.resort /\ m.paused)
    BY <1>2 DEF Sorted
  <2>2. m.o \in Orders
    BY DEF Modes
  <2>3. Line(s, Listed(l), Earlier(l.order, SortKey(l.ent, m.o)))
    BY <2>2, SortKeyInt, Resorted
  <2> HIDE DEF s, k
  <2>4. Sound(k) /\ Listed(k) = Listed(l) /\ Len(k.order) = Len(l.order)
    BY <2>1, <2>3, OrderKept
  <2>5. Kept(k, l) /\ k.ent = l.ent /\ k.hidden = l.hidden /\ k.op = l.op
    BY <2>1 DEF Sound, Lists, Kept
  <2> QED
    BY <2>1, <2>4, <2>5 DEF k
<1> QED
  BY <1>1, <1>2

\* A list that differs in what is collapsed only.
Refolded(k, l) ==
    /\ Kept(k, l) /\ k.order = l.order /\ k.hidden = l.hidden
    /\ \A p \in Pids : /\ k.ent[p].ppid = l.ent[p].ppid /\ k.ent[p].use = l.ent[p].use
                       /\ k.ent[p].filt = l.ent[p].filt /\ k.ent[p].idx = l.ent[p].idx
                       /\ k.ent[p].dead = l.ent[p].dead

\* The entries g are those of l but for what is collapsed among S.
Folds(g, l, S) ==
    /\ DOMAIN g = Pids /\ g = [p \in DOMAIN g |-> g[p]]
    /\ \A p \in Pids \ S : g[p] = l.ent[p]
    /\ \A p \in S : \E c \in BOOLEAN : g[p] = [l.ent[p] EXCEPT !.coll = c]

LEMMA RefoldedIs ==
    ASSUME NEW l, Sound(l), NEW S \in SUBSET Listed(l), NEW g, Folds(g, l, S)
    PROVE  LET k == [l EXCEPT !.ent = g] IN
           Sound(k) /\ Refolded(k, l) /\ k.op = l.op /\ Listed(k) = Listed(l) /\ k.ent = g
<1> DEFINE k == [l EXCEPT !.ent = g]
<1>1. \A p \in Pids : l.ent[p] \in Entries /\ l.ent[p].ppid < p
  BY DEF Sound, Lists
<1>2. Listed(l) \subseteq Pids
  BY ListedIs
<1>3. \A p \in Pids : /\ g[p] \in Entries /\ g[p].ppid = l.ent[p].ppid /\ g[p].dead = l.ent[p].dead
                      /\ g[p].use = l.ent[p].use /\ g[p].filt = l.ent[p].filt
                      /\ g[p].idx = l.ent[p].idx
  <2> SUFFICES ASSUME NEW p \in Pids
               PROVE  /\ g[p] \in Entries /\ g[p].ppid = l.ent[p].ppid /\ g[p].dead = l.ent[p].dead
                      /\ g[p].use = l.ent[p].use /\ g[p].filt = l.ent[p].filt
                      /\ g[p].idx = l.ent[p].idx
    OBVIOUS
  <2>1. CASE p \notin S
    BY <1>1, <2>1 DEF Folds
  <2>2. CASE p \in S
    <3>1. PICK c \in BOOLEAN : g[p] = [l.ent[p] EXCEPT !.coll = c]
      BY <2>2 DEF Folds
    <3> QED
      BY <1>1, <3>1 DEF Entries
  <2> QED
    BY <2>1, <2>2
<1>4. DOMAIN g = Pids /\ g = [p \in DOMAIN g |-> g[p]] /\ \A p \in Pids \ S : g[p] = l.ent[p]
  BY DEF Folds
<1>5. g \in [Pids -> Entries]
  BY <1>3, <1>4
<1>6. \A p \in Pids \ Listed(l) : g[p] = Blank
  BY <1>4 DEF Sound
<1>7. \A p \in Pids : g[p].ppid < p /\ g[p].dead = l.ent[p].dead
  BY <1>1, <1>3
<1>8. Sound(k) /\ k.ent = g /\ Listed(k) = Listed(l)
  BY <1>5, <1>6, <1>7, EntriesKept
<1>9. Kept(k, l) /\ k.order = l.order /\ k.hidden = l.hidden /\ k.op = l.op
  BY DEF Sound, Lists, Kept
<1> HIDE DEF k
<1>10. Refolded(k, l)
  BY <1>3, <1>8, <1>9 DEF Refolded
<1> QED
  BY <1>8, <1>9, <1>10 DEF k

LEMMA ToggledIs ==
    ASSUME NEW l, Sound(l)
    PROVE  LET k == Toggled(l) IN
           /\ Sound(k) /\ Refolded(k, l) /\ k.op = NoOp /\ Listed(k) = Listed(l)
           /\ l.op = NoOp => k.ent = l.ent
<1> DEFINE op   == l.op
           one  == IF op.collapse # None THEN op.collapse ELSE op.expand
           kids == IF op.children \in Listed(l) THEN Kids(l, op.children) ELSE {}
           l1   == With(l, kids, LAMBDA e : [e EXCEPT !.coll = ~@])
           l2   == With(l1, {one} \cap Listed(l), LAMBDA e :
                     [e EXCEPT !.coll = IF op.collapse = op.expand THEN ~@
                                        ELSE op.collapse # None])
           below == {p \in Listed(l) : l.ent[p].ppid \in Listed(l)}
           all  == \E p \in below : Kids(l, p) # {} /\ ~l2.ent[p].coll
           l3   == IF op.all THEN With(l2, below, LAMBDA e : [e EXCEPT !.coll = all]) ELSE l2
           k == Toggled(l)
<1>1. k = [l3 EXCEPT !.op = NoOp]
  BY Zenon DEF Toggled
<1>2. kids \subseteq Listed(l) /\ {one} \cap Listed(l) \subseteq Listed(l) /\ below \subseteq Listed(l)
  BY DEF Kids
<1>3. Sound(l1) /\ Refolded(l1, l) /\ l1.op = l.op /\ Listed(l1) = Listed(l)
  <2> DEFINE g == [p \in Pids |-> IF p \in kids THEN [l.ent[p] EXCEPT !.coll = ~@] ELSE l.ent[p]]
  <2>1. l1 = [l EXCEPT !.ent = g]
    BY DEF With
  <2> HIDE DEF kids
  <2>2. DOMAIN g = Pids /\ \A p \in Pids \ kids : g[p] = l.ent[p]
    OBVIOUS
  <2>3. \A p \in kids : \E c \in BOOLEAN : g[p] = [l.ent[p] EXCEPT !.coll = c]
    <3> SUFFICES ASSUME NEW p \in kids PROVE \E c \in BOOLEAN : g[p] = [l.ent[p] EXCEPT !.coll = c]
      OBVIOUS
    <3>1. g[p] = [l.ent[p] EXCEPT !.coll = ~l.ent[p].coll]
      BY <1>2, ListedIs
    <3> QED
      BY <3>1
  <2>4. g = [p \in DOMAIN g |-> g[p]]
    OBVIOUS
  <2> HIDE DEF g, l1
  <2>5. Folds(g, l, kids)
    BY <2>2, <2>3, <2>4 DEF Folds
  <2> QED
    BY <1>2, <2>1, <2>5, RefoldedIs
<1> HIDE DEF kids, l1
<1>4. Sound(l2) /\ Refolded(l2, l1) /\ l2.op = l1.op /\ Listed(l2) = Listed(l1)
  <2> DEFINE S == {one} \cap Listed(l)
             C(p) == IF op.collapse = op.expand THEN ~l1.ent[p].coll ELSE op.collapse # None
             g == [p \in Pids |-> IF p \in S THEN [l1.ent[p] EXCEPT !.coll = C(p)] ELSE l1.ent[p]]
  <2>1. l2 = [l1 EXCEPT !.ent = g]
    BY DEF With
  <2>2. \A p \in S : C(p) \in BOOLEAN
    OBVIOUS
  <2>3. S \subseteq Listed(l1) /\ S \subseteq Pids
    BY <1>2, <1>3, ListedIs
  <2> HIDE DEF C, S
  <2>4. DOMAIN g = Pids /\ \A p \in Pids \ S : g[p] = l1.ent[p]
    OBVIOUS
  <2>5. \A p \in S : g[p] = [l1.ent[p] EXCEPT !.coll = C(p)]
    BY <2>3
  <2>6. \A p \in S : \E c \in BOOLEAN : g[p] = [l1.ent[p] EXCEPT !.coll = c]
    BY <2>2, <2>5
  <2>7. g = [p \in DOMAIN g |-> g[p]]
    OBVIOUS
  <2> HIDE DEF g, l2
  <2>8. Folds(g, l1, S)
    BY <2>4, <2>6, <2>7 DEF Folds
  <2> QED
    BY <1>3, <2>1, <2>3, <2>8, RefoldedIs
<1> HIDE DEF l2
<1>5. Sound(l3) /\ Refolded(l3, l2) /\ Listed(l3) = Listed(l2)
  <2> HIDE DEF below, all
  <2>1. CASE ~op.all
    BY <1>4, <2>1 DEF Refolded, Kept
  <2>2. CASE op.all
    <3> DEFINE g == [p \in Pids |-> IF p \in below THEN [l2.ent[p] EXCEPT !.coll = all]
                                    ELSE l2.ent[p]]
    <3>1. l3 = [l2 EXCEPT !.ent = g]
      BY <2>2 DEF With
    <3>2. DOMAIN g = Pids /\ \A p \in Pids \ below : g[p] = l2.ent[p]
      OBVIOUS
    <3>3. all \in BOOLEAN
      BY DEF all
    <3>4. \A p \in below : g[p] = [l2.ent[p] EXCEPT !.coll = all]
      BY <1>2, ListedIs
    <3>5. \A p \in below : \E c \in BOOLEAN : g[p] = [l2.ent[p] EXCEPT !.coll = c]
      BY <3>3, <3>4
    <3>6. g = [p \in DOMAIN g |-> g[p]]
      OBVIOUS
    <3>7. below \subseteq Listed(l2)
      BY <1>2, <1>3, <1>4
    <3> HIDE DEF g, l3
    <3>8. Folds(g, l2, below)
      BY <3>2, <3>5, <3>6 DEF Folds
    <3> QED
      BY <1>4, <3>1, <3>7, <3>8, RefoldedIs
  <2> QED
    BY <2>1, <2>2
<1>6. l.op = NoOp => l3.ent = l.ent
  <2> SUFFICES ASSUME l.op = NoOp PROVE l3.ent = l.ent
    OBVIOUS
  <2>1. one = None /\ op.children = None
    BY DEF NoOp
  <2>4. ~op.all
    <3>1. NoOp.all = FALSE
      BY Zenon DEF NoOp
    <3> QED
      BY <3>1
  <2>2. None \notin Listed(l)
    BY ListedIs, PidsAre
  <2>3. kids = {} /\ {one} \cap Listed(l) = {} /\ l3 = l2
    <3> HIDE DEF below, all, one
    <3> QED
      BY <2>1, <2>2, <2>4 DEF kids
  <2>9. l.ent \in [Pids -> Entries] /\ l1.ent \in [Pids -> Entries]
    BY <1>3 DEF Sound, Lists
  <2>5. l1 = [l EXCEPT !.ent = [p \in Pids |-> l.ent[p]]]
    BY <2>3 DEF l1, With
  <2>6. l1.ent = l.ent
    BY <2>9, <2>5 DEF Sound, Lists
  <2>7. l2 = [l1 EXCEPT !.ent = [p \in Pids |-> l1.ent[p]]]
    <3> HIDE DEF one
    <3> QED
      BY <2>3 DEF l2, With
  <2>8. l2.ent = l1.ent
    BY <1>3, <2>9, <2>7 DEF Sound, Lists
  <2> QED
    BY <2>3, <2>6, <2>8
<1> HIDE DEF l3
<1>7. Refolded(l3, l)
  <2>1. Refolded(l2, l)
    BY <1>3, <1>4 DEF Refolded, Kept
  <2> QED
    BY <1>5, <2>1 DEF Refolded, Kept
<1> HIDE DEF k
<1>8. /\ k \in Lists /\ k.order = l3.order /\ k.ent = l3.ent /\ k.dead = l3.dead /\ k.op = NoOp
      /\ k.hidden = l3.hidden /\ Kept(k, l3)
  <2>1. NoOp \in Ops
    <3>1. NoOp.all = FALSE /\ FALSE \in BOOLEAN
      BY Zenon DEF NoOp
    <3> QED
      BY <3>1 DEF NoOp, Ops
  <2>2. l3 \in Lists
    BY <1>5 DEF Sound
  <2> QED
    BY <1>1, <2>1, <2>2 DEF Lists, Kept
<1>9. Listed(k) = Listed(l3)
  BY <1>8 DEF Listed
<1>10. Sound(k)
  BY <1>5, <1>8, <1>9 DEF Sound
<1>11. Refolded(k, l)
  BY <1>7, <1>8 DEF Refolded, Kept
<1> QED
  BY <1>3, <1>4, <1>5, <1>6, <1>8, <1>9, <1>10, <1>11 DEF k

LEMMA RecountedIs ==
    ASSUME NEW l, Sound(l), NEW m \in Modes
    PROVE  LET k == Recounted(l, m) IN
           /\ Sound(k) /\ Kept(k, l) /\ k.order = l.order /\ k.ent = l.ent /\ k.op = l.op
           /\ Listed(k) = Listed(l)
           /\ k.hidden = IF m.should \/ m.o.filter THEN 0 ELSE l.hidden
<1> DEFINE k == Recounted(l, m)
           n == IF m.should \/ m.o.filter THEN 0 ELSE l.hidden
<1>1. k = [l EXCEPT !.hidden = n] /\ n \in Nat
  BY DEF Recounted, Sound, Lists
<1> HIDE DEF k, n
<1>2. /\ k \in Lists /\ Kept(k, l) /\ k.order = l.order /\ k.ent = l.ent /\ k.dead = l.dead
      /\ k.op = l.op /\ k.hidden = n
  BY <1>1 DEF Sound, Lists, Kept
<1>3. Listed(k) = Listed(l)
  BY <1>2 DEF Listed
<1>4. Sound(k)
  BY <1>2, <1>3 DEF Sound
<1> QED
  BY <1>2, <1>3, <1>4 DEF k, n

LEMMA PidNat == \A p \in Pids : p \in Int /\ p \in Nat /\ p > 0
<1>1. Pids \subseteq Nat \ {0}
  BY PidsAre
<1> QED
  BY <1>1

\* A parent is a lower pid or none.
LEMMA ParentLower ==
    ASSUME NEW l, Sound(l)
    PROVE  \A p \in Pids : /\ l.ent[p] \in Entries /\ l.ent[p].ppid \in Int
                           /\ l.ent[p].ppid < p /\ l.ent[p].ppid >= 0
                           /\ l.ent[p].ppid = None \/ l.ent[p].ppid \in Pids
<1>1. \A p \in Pids : l.ent[p] \in Entries /\ l.ent[p].ppid < p
  BY DEF Sound, Lists
<1>2. \A p \in Pids : l.ent[p].ppid \in Pids \cup {None}
  BY <1>1 DEF Entries
<1> QED
  BY <1>1, <1>2, PidNat DEF None

LEMMA InitParent ==
    ASSUME NEW l, Sound(l)
    PROVE  l.ent[1].ppid = None
<1>1. PICK p \in Pids : p = 1
  BY PidsAre
<1>2. l.ent[p].ppid \in Int /\ l.ent[p].ppid < p /\ l.ent[p].ppid >= 0
  BY ParentLower
<1>3. l.ent[p].ppid = 0
  BY <1>1, <1>2
<1> QED
  BY <1>1, <1>3, PidsAre

LEMMA GroupedIs ==
    ASSUME NEW l, Sound(l), NEW paused \in BOOLEAN
    PROVE  LET k == Grouped(l, paused)
               orphans == IF paused THEN {} ELSE {p \in Listed(l) : l.ent[p].ppid \notin l.found}
           IN
           /\ Sound(k) /\ Kept(k, l) /\ k.hidden = l.hidden /\ k.op = l.op
           /\ Listed(k) = Listed(l) /\ Len(k.order) = Len(l.order)
           /\ \A p \in orphans : k.ent[p] = [l.ent[p] EXCEPT !.ppid = None]
           /\ \A p \in Pids \ orphans : k.ent[p] = l.ent[p]
           /\ paused => k.ent = l.ent
           /\ \A p, q \in Listed(k) :
                <<p, q>> \in Leads(k.order) <=>
                  \/ k.ent[p].ppid < k.ent[q].ppid
                  \/ k.ent[p].ppid = k.ent[q].ppid /\ <<p, q>> \in Leads(l.order)
<1> DEFINE k == Grouped(l, paused)
           orphans == IF paused THEN {} ELSE {p \in Listed(l) : l.ent[p].ppid \notin l.found}
           f == [p \in Pids |-> IF p \in orphans THEN [l.ent[p] EXCEPT !.ppid = None] ELSE l.ent[p]]
           l1 == [l EXCEPT !.ent = f]
           key == [p \in Pids |-> l1.ent[p].ppid]
           s == StableSort(l1.order, key)
<1>1. k = [l1 EXCEPT !.order = s]
  BY DEF Grouped, With
<1>2. orphans \subseteq Listed(l) /\ Listed(l) \subseteq Pids
  BY ListedIs
<1>3. \A p \in Pids : f[p] = IF p \in orphans THEN [l.ent[p] EXCEPT !.ppid = None] ELSE l.ent[p]
  OBVIOUS
<1>4. DOMAIN f = Pids /\ f = [p \in DOMAIN f |-> f[p]]
  OBVIOUS
<1>5. \A p \in Pids : l.ent[p] \in Entries /\ l.ent[p].ppid < p /\ None < p
  BY PidsAre DEF Sound, Lists
<1> HIDE DEF f
<1>6. \A p \in Pids : f[p] \in Entries /\ f[p].ppid < p /\ f[p].dead = l.ent[p].dead
  BY <1>3, <1>5 DEF Entries
<1>7. f \in [Pids -> Entries]
  BY <1>4, <1>6
<1>8. \A p \in Pids \ Listed(l) : f[p] = Blank
  BY <1>2, <1>3 DEF Sound
<1>9. Sound(l1) /\ l1.ent = f /\ Listed(l1) = Listed(l)
  BY <1>6, <1>7, <1>8, EntriesKept
<1>10. Kept(l1, l) /\ l1.order = l.order /\ l1.hidden = l.hidden /\ l1.op = l.op
  BY DEF Sound, Lists, Kept
<1> HIDE DEF l1
<1>11. \A p \in Pids : key[p] = f[p].ppid
  BY <1>9
<1>12. \A p \in Pids : key[p] \in Int
  <2> SUFFICES ASSUME NEW p \in Pids PROVE key[p] \in Int
    OBVIOUS
  <2>1. key[p] \in Pids \cup {None}
    BY <1>6, <1>11 DEF Entries
  <2> QED
    BY <2>1, PidNat DEF None
<1> HIDE DEF key
<1>13. Line(s, Listed(l1), Earlier(l1.order, key))
  BY <1>9, <1>12, Resorted
<1> HIDE DEF s, k
<1>14. Sound(k) /\ k.order = s /\ Listed(k) = Listed(l1) /\ Len(s) = Len(l1.order)
  BY <1>1, <1>9, <1>13, OrderKept
<1>15. Kept(k, l1) /\ k.hidden = l1.hidden /\ k.op = l1.op /\ k.ent = f
  BY <1>1, <1>9 DEF Sound, Lists, Kept
<1>16. Kept(k, l)
  BY <1>10, <1>15 DEF Kept
<1>17. ASSUME NEW p \in Listed(k), NEW q \in Listed(k)
       PROVE  <<p, q>> \in Leads(k.order) <=>
                \/ k.ent[p].ppid < k.ent[q].ppid
                \/ k.ent[p].ppid = k.ent[q].ppid /\ <<p, q>> \in Leads(l.order)
  <2>1. <<p, q>> \in Leads(s) <=> <<p, q>> \in Earlier(l.order, key)
    BY <1>10, <1>13, <1>14, LineLeads
  <2>2. <<p, q>> \in Earlier(l.order, key) <=>
          key[p] < key[q] \/ (key[p] = key[q] /\ <<p, q>> \in Leads(l.order))
    <3>1. p \in ToSet(l.order) /\ q \in ToSet(l.order)
      BY <1>9, <1>14 DEF Listed
    <3> QED
      BY <3>1, EarlierMeans
  <2>3. key[p] = k.ent[p].ppid /\ key[q] = k.ent[q].ppid
    BY <1>2, <1>9, <1>11, <1>14, <1>15
  <2> QED
    BY <1>14, <2>1, <2>2, <2>3
<1>18. paused => k.ent = l.ent
  <2> SUFFICES ASSUME paused PROVE k.ent = l.ent
    OBVIOUS
  <2>1. \A p \in Pids : f[p] = l.ent[p]
    BY <1>3
  <2>2. l.ent \in [Pids -> Entries]
    BY DEF Sound, Lists
  <2> QED
    BY <1>7, <1>15, <2>1, <2>2
<1>19. /\ \A p \in orphans : k.ent[p] = [l.ent[p] EXCEPT !.ppid = None]
       /\ \A p \in Pids \ orphans : k.ent[p] = l.ent[p]
  <2> HIDE DEF orphans
  <2> QED
    BY <1>2, <1>3, <1>15
<1>20. Listed(k) = Listed(l) /\ Len(k.order) = Len(l.order) /\ k.hidden = l.hidden /\ k.op = l.op
  BY <1>9, <1>10, <1>14, <1>15
<1> QED
  BY <1>14, <1>16, <1>17, <1>18, <1>19, <1>20, Zenon DEF k, orphans

\* The first of the list is one without a parent.
Family(l) == Sound(l) /\ 1 \in Listed(l) /\ l.ent[Head(l.order)].ppid = None

LEMMA InitFirst ==
    ASSUME NEW l, Sound(l), 1 \in Listed(l),
           \A p, q \in Listed(l) : <<p, q>> \in Leads(l.order) => l.ent[p].ppid <= l.ent[q].ppid
    PROVE  Family(l)
<1>1. l.order \in Seq(Pids) /\ IsInjective(l.order) /\ DOMAIN l.order = 1..Len(l.order)
  BY DEF Sound, Lists
<1>3. l.ent[1].ppid = None
  BY InitParent DEF Family
<1>4. PICK i \in 1..Len(l.order) : l.order[i] = 1
  BY <1>1 DEF Listed, ToSet
<1>5. 1 \in 1..Len(l.order) /\ Len(l.order) \in Nat
  BY <1>1, <1>4
<1>6. Head(l.order) = l.order[1] /\ l.order[1] \in Listed(l)
  BY <1>1, <1>5 DEF Listed, ToSet
<1>7. CASE i = 1
  BY <1>3, <1>4, <1>6, <1>7 DEF Family
<1>8. CASE i # 1
  <2>1. <<l.order[1], 1>> \in Leads(l.order)
    <3>1. 1 < i
      BY <1>4, <1>8
    <3> QED
      BY <1>1, <1>4, <1>5, <3>1, LeadsOrder
  <2>2. l.ent[l.order[1]].ppid <= l.ent[1].ppid
    BY <1>6, <2>1
  <2>4. l.ent[l.order[1]].ppid = None
    <3>1. l.order[1] \in Pids
      BY <1>6, ListedIs
    <3>2. l.ent[l.order[1]].ppid \in Int /\ l.ent[l.order[1]].ppid >= 0
      BY <3>1, ParentLower
    <3>3. l.ent[1].ppid = 0
      BY <1>3, PidsAre
    <3> QED
      BY <2>2, <3>2, <3>3, PidsAre
  <2> QED
    BY <1>6, <2>4 DEF Family
<1> QED
  BY <1>7, <1>8

LEMMA RootsAre ==
    ASSUME NEW l, Family(l)
    PROVE  /\ Roots(l) = {p \in Listed(l) : l.ent[p].ppid = None}
           /\ 1 \in Roots(l)
<1>1. Roots(l) = {p \in Listed(l) : l.ent[p].ppid = None}
  BY DEF Family, Roots, Kids
<1>3. l.ent[1].ppid = None
  BY InitParent DEF Family
<1> QED
  BY <1>1, <1>3 DEF Family

LEMMA AutoCollapsedIs ==
    ASSUME NEW l, Sound(l), NEW entering \in BOOLEAN
    PROVE  LET k == AutoCollapsed(l, entering) IN
           /\ Sound(k) /\ Refolded(k, l) /\ k.op = l.op /\ Listed(k) = Listed(l)
           /\ ~entering => k = l
<1> DEFINE k == AutoCollapsed(l, entering)
           big == {p \in Listed(l) \ Roots(l) :
                     /\ l.ent[p].ppid \notin Roots(l)
                     /\ Cardinality(Kids(l, p)) >= AutoCollapse}
<1>1. CASE ~(entering /\ AutoCollapse > 0)
  BY <1>1 DEF AutoCollapsed, Refolded, Kept
<1>2. CASE entering /\ AutoCollapse > 0
  <2> DEFINE g == [p \in Pids |-> IF p \in big THEN [l.ent[p] EXCEPT !.coll = TRUE] ELSE l.ent[p]]
  <2>1. k = [l EXCEPT !.ent = g]
    BY <1>2 DEF AutoCollapsed, With
  <2>2. big \in SUBSET Listed(l) /\ Listed(l) \subseteq Pids
    BY ListedIs
  <2> HIDE DEF big
  <2>3. DOMAIN g = Pids /\ \A p \in Pids \ big : g[p] = l.ent[p]
    OBVIOUS
  <2>4. \A p \in big : \E c \in BOOLEAN : g[p] = [l.ent[p] EXCEPT !.coll = c]
    <3> SUFFICES ASSUME NEW p \in big PROVE \E c \in BOOLEAN : g[p] = [l.ent[p] EXCEPT !.coll = c]
      OBVIOUS
    <3>1. g[p] = [l.ent[p] EXCEPT !.coll = TRUE]
      BY <2>2
    <3>2. TRUE \in BOOLEAN
      OBVIOUS
    <3> QED
      BY <3>1, <3>2, Zenon
  <2>5. g = [p \in DOMAIN g |-> g[p]]
    OBVIOUS
  <2> HIDE DEF g, k
  <2>6. Folds(g, l, big)
    BY <2>3, <2>4, <2>5 DEF Folds
  <2>7. Sound(k) /\ Refolded(k, l) /\ k.op = l.op /\ Listed(k) = Listed(l)
    BY <2>1, <2>2, <2>6, RefoldedIs
  <2> QED
    BY <1>2, <2>7 DEF k
<1> QED
  BY <1>1, <1>2

-----------------------------------------------------------------------------
(* Families.                                                               *)

LEMMA AboveIs ==
    ASSUME NEW l, Sound(l)
    PROVE  \A p \in Pids :
             Above(l, p) = IF l.ent[p].ppid \notin Listed(l) THEN {}
                           ELSE {l.ent[p].ppid} \cup Above(l, l.ent[p].ppid)
<1> DEFINE V == SUBSET (Pids \cup {None})
           R == {p \in Pids : l.ent[p].ppid \notin Listed(l)}
           par == [p \in Pids |-> l.ent[p].ppid]
           base == [p \in Pids |-> {}]
           step == [pv \in Pids \X V |-> {par[pv[1]]} \cup pv[2]]
           Step(h) == [q \in Pids |-> IF l.ent[q].ppid \notin Listed(l) THEN {}
                                      ELSE {l.ent[q].ppid} \cup h[l.ent[q].ppid]]
           up == CHOOSE h : h = Step(h)
<1>1. \A p \in Pids : par[p] = l.ent[p].ppid
  OBVIOUS
<1>2. Listed(l) \subseteq Pids /\ \A p \in Pids : l.ent[p].ppid < p
  BY ListedIs, ParentLower
<1>3. \A p \in Pids \ R : par[p] \in Pids /\ par[p] < p
  BY <1>1, <1>2
<1>4. base \in [Pids -> V]
  OBVIOUS
<1>5. step \in [Pids \X V -> V]
  <2>1. \A p \in Pids : par[p] \in Pids \cup {None}
    BY <1>1, ParentLower
  <2> HIDE DEF par
  <2> QED
    BY <2>1
<1>6. \A p \in Pids, v \in V : step[<<p, v>>] = {l.ent[p].ppid} \cup v
  BY <1>1
<1> HIDE DEF step
<1>7. PICK f \in [Pids -> V] : Descends(f, R, par, base, step)
  <2> HIDE DEF V, base, R, par
  <2>1. Upward(par, R)
    BY <1>3 DEF Upward
  <2> QED
    BY <1>4, <1>5, <2>1, TopDown
<1>8. \A p \in Pids : f[p] = IF l.ent[p].ppid \notin Listed(l) THEN {}
                             ELSE {l.ent[p].ppid} \cup f[l.ent[p].ppid]
  <2> SUFFICES ASSUME NEW p \in Pids
               PROVE  f[p] = IF l.ent[p].ppid \notin Listed(l) THEN {}
                             ELSE {l.ent[p].ppid} \cup f[l.ent[p].ppid]
    OBVIOUS
  <2>1. CASE p \in R
    BY <1>7, <2>1 DEF Descends
  <2>2. CASE p \notin R
    <3>1. par[p] \in Pids /\ par[p] = l.ent[p].ppid
      BY <1>1, <1>3, <2>2
    <3>2. f[par[p]] \in V /\ f[p] = step[<<p, f[par[p]]>>]
      BY <1>7, <2>2, <3>1 DEF Descends
    <3>3. l.ent[p].ppid \in Listed(l)
      BY <2>2
    <3> HIDE DEF V, par
    <3>4. f[p] = {l.ent[p].ppid} \cup f[par[p]]
      BY <1>6, <3>2
    <3> QED
      BY <3>1, <3>3, <3>4
  <2> QED
    BY <2>1, <2>2
<1>9. f = Step(f)
  BY <1>8
<1>10. up = Step(up)
  <2> HIDE DEF Step
  <2> QED
    BY <1>9
<1>11. \A p \in Pids : Above(l, p) = up[p]
  BY DEF Above
<1>12. \A p \in Pids : up[p] = IF l.ent[p].ppid \notin Listed(l) THEN {}
                               ELSE {l.ent[p].ppid} \cup up[l.ent[p].ppid]
  <2> HIDE DEF up
  <2> QED
    BY <1>10
<1> HIDE DEF up
<1> QED
  BY <1>2, <1>11, <1>12

LEMMA AboveLower ==
    ASSUME NEW l, Sound(l)
    PROVE  \A p \in Pids : \A q \in Above(l, p) : q \in Listed(l) /\ q \in Pids /\ q < p
<1> DEFINE T == {p \in Pids : \A q \in Above(l, p) : q \in Listed(l) /\ q < p}
<1>1. ASSUME NEW p \in Pids, \A q \in Pids : q < p => q \in T PROVE p \in T
  <2>1. CASE l.ent[p].ppid \notin Listed(l)
    BY <2>1, AboveIs
  <2>2. CASE l.ent[p].ppid \in Listed(l)
    <3>1. l.ent[p].ppid \in Pids /\ l.ent[p].ppid < p
      BY <2>2, ListedIs, ParentLower
    <3>2. Above(l, p) = {l.ent[p].ppid} \cup Above(l, l.ent[p].ppid)
      BY <2>2, AboveIs
    <3>3. ASSUME NEW q \in Above(l, l.ent[p].ppid) PROVE q \in Listed(l) /\ q < p
      <4>1. q \in Listed(l) /\ q < l.ent[p].ppid
        BY <1>1, <3>1
      <4>2. q \in Int /\ l.ent[p].ppid \in Int /\ p \in Int
        BY <3>1, <4>1, ListedIs, PidNat
      <4> QED
        BY <3>1, <4>1, <4>2
    <3> QED
      BY <2>2, <3>1, <3>2, <3>3
  <2> QED
    BY <2>1, <2>2
<1>2. Pids \subseteq T
  <2> HIDE DEF T
  <2> QED
    BY <1>1, UpInduct
<1> QED
  BY <1>2, ListedIs

\* p with those below it.
Fam(l, p) == {q \in Listed(l) : q = p \/ p \in Above(l, q)}

\* One that is in the family of a process is itself that process or is in the family of a
\* child of it.
LEMMA FamUp ==
    ASSUME NEW l, Sound(l), NEW p \in Listed(l), NEW q \in Listed(l), q # p
    PROVE  q \in Fam(l, p) <=> l.ent[q].ppid \in Fam(l, p)
<1>1. q \in Pids /\ p \in Pids
  BY ListedIs
<1>2. CASE l.ent[q].ppid \notin Listed(l)
  BY <1>1, <1>2, AboveIs DEF Fam
<1>3. CASE l.ent[q].ppid \in Listed(l)
  <2>1. Above(l, q) = {l.ent[q].ppid} \cup Above(l, l.ent[q].ppid)
    BY <1>1, <1>3, AboveIs
  <2> QED
    BY <1>3, <2>1 DEF Fam
<1> QED
  BY <1>2, <1>3

LEMMA FamSplit ==
    ASSUME NEW l, Sound(l), NEW p \in Listed(l)
    PROVE  /\ Fam(l, p) = {p} \cup UNION {Fam(l, k) : k \in Kids(l, p)}
           /\ p \notin UNION {Fam(l, k) : k \in Kids(l, p)}
<1> DEFINE U == UNION {Fam(l, k) : k \in Kids(l, p)}
<1>0. p \in Pids /\ Listed(l) \subseteq Pids
  BY ListedIs
<1>1. ASSUME NEW k \in Kids(l, p) PROVE k \in Listed(l) /\ k \in Pids /\ l.ent[k].ppid = p /\ p < k
  <2>1. k \in Listed(l) /\ k \in Pids /\ l.ent[k].ppid = p
    BY <1>0 DEF Kids
  <2> QED
    BY <2>1, ParentLower
<1>2. ASSUME NEW k \in Kids(l, p), NEW q \in Fam(l, k) PROVE q \in Fam(l, p) /\ q # p
  <2> DEFINE T == {x \in Pids : x \in Fam(l, k) => x \in Fam(l, p) /\ x # p}
  <2>1. ASSUME NEW x \in Pids, \A y \in Pids : y < x => y \in T PROVE x \in T
    <3> SUFFICES ASSUME x \in Fam(l, k) PROVE x \in Fam(l, p) /\ x # p
      OBVIOUS
    <3>1. CASE x = k
      <4>1. x # p
        BY <1>0, <1>1, <3>1, PidNat
      <4>2. p \in Fam(l, p)
        BY DEF Fam
      <4> QED
        BY <1>1, <3>1, <4>1, <4>2, FamUp
    <3>2. CASE x # k
      <4>1. x \in Listed(l) /\ k \in Listed(l)
        BY <1>1 DEF Fam
      <4>2. l.ent[x].ppid \in Fam(l, k)
        BY <3>2, <4>1, FamUp
      <4>3. l.ent[x].ppid \in Pids /\ l.ent[x].ppid < x
        BY <1>0, <4>1, <4>2, ParentLower DEF Fam
      <4>4. l.ent[x].ppid \in Fam(l, p)
        BY <2>1, <4>2, <4>3
      <4>5. x # p
        <5>1. k \in Above(l, x)
          BY <3>2 DEF Fam
        <5>2. k < x
          BY <5>1, AboveLower
        <5>3. p < k /\ k \in Int /\ p \in Int
          BY <1>0, <1>1, PidNat
        <5> QED
          BY <5>2, <5>3
      <4> QED
        BY <4>1, <4>4, <4>5, FamUp
    <3> QED
      BY <3>1, <3>2
  <2>2. Pids \subseteq T
    <3> HIDE DEF T
    <3> QED
      BY <2>1, UpInduct
  <2>3. q \in Pids
    BY <1>0 DEF Fam
  <2> QED
    BY <2>2, <2>3
<1>3. ASSUME NEW q \in Fam(l, p), q # p PROVE q \in U
  <2> DEFINE T == {x \in Pids : x \in Fam(l, p) /\ x # p => x \in U}
  <2>1. ASSUME NEW x \in Pids, \A y \in Pids : y < x => y \in T PROVE x \in T
    <3> SUFFICES ASSUME x \in Fam(l, p), x # p PROVE x \in U
      OBVIOUS
    <3> DEFINE u == l.ent[x].ppid
    <3>1. x \in Listed(l)
      BY DEF Fam
    <3>2. u \in Fam(l, p)
      BY <3>1, FamUp
    <3>3. u \in Pids /\ u < x
      BY <1>0, <3>2, ParentLower DEF Fam
    <3>4. CASE u = p
      <4>1. x \in Kids(l, p) /\ x \in Fam(l, x)
        BY <3>1, <3>4 DEF Kids, Fam
      <4> QED
        BY <4>1
    <3>5. CASE u # p
      <4>1. PICK k \in Kids(l, p) : u \in Fam(l, k)
        BY <2>1, <3>2, <3>3, <3>5
      <4>2. CASE x = k
        BY <4>2, <3>1 DEF Fam
      <4>3. CASE x # k
        BY <1>1, <3>1, <4>1, <4>3, FamUp
      <4> QED
        BY <4>2, <4>3
    <3> QED
      BY <3>4, <3>5
  <2>2. Pids \subseteq T
    <3> HIDE DEF T
    <3> QED
      BY <2>1, UpInduct
  <2>3. q \in Pids
    BY <1>0 DEF Fam
  <2> QED
    BY <1>3, <2>2, <2>3
<1>4. p \in Fam(l, p)
  BY DEF Fam
<1>5. p \notin U
  BY <1>2
<1>6. \A q : q \in Fam(l, p) <=> q \in {p} \cup U
  BY <1>2, <1>3, <1>4
<1> QED
  BY <1>5, <1>6

\* Siblings have nothing below them in common.
LEMMA FamDisjoint ==
    ASSUME NEW l, Sound(l), NEW j \in Listed(l), NEW k \in Listed(l), j # k,
           l.ent[j].ppid = l.ent[k].ppid
    PROVE  Fam(l, j) \cap Fam(l, k) = {}
<1> DEFINE T == {x \in Pids : ~(x \in Fam(l, j) /\ x \in Fam(l, k))}
<1>0. Listed(l) \subseteq Pids
  BY ListedIs
<1>1. ASSUME NEW a \in Listed(l), NEW b \in Listed(l), l.ent[a].ppid = l.ent[b].ppid, a # b
      PROVE  a \notin Fam(l, b)
  <2> SUFFICES ASSUME a \in Fam(l, b) PROVE FALSE
    OBVIOUS
  <2>1. l.ent[b].ppid \in Fam(l, b)
    BY <1>1, FamUp
  <2>2. l.ent[b].ppid \in Pids /\ b \in Pids /\ l.ent[b].ppid < b
    BY <1>0, <2>1, ParentLower DEF Fam
  <2>3. b \in Above(l, l.ent[b].ppid)
    BY <2>1, <2>2, PidNat DEF Fam
  <2>4. b < l.ent[b].ppid
    BY <2>2, <2>3, AboveLower
  <2> QED
    BY <2>2, <2>4, PidNat
<1>2. ASSUME NEW x \in Pids, \A y \in Pids : y < x => y \in T PROVE x \in T
  <2> SUFFICES ASSUME x \in Fam(l, j), x \in Fam(l, k) PROVE FALSE
    OBVIOUS
  <2>1. x # j /\ x # k
    BY <1>1
  <2>2. x \in Listed(l)
    BY DEF Fam
  <2>3. l.ent[x].ppid \in Fam(l, j) /\ l.ent[x].ppid \in Fam(l, k)
    BY <2>1, <2>2, FamUp
  <2>4. l.ent[x].ppid \in Pids /\ l.ent[x].ppid < x
    BY <1>0, <2>3, ParentLower DEF Fam
  <2> QED
    BY <1>2, <2>3, <2>4
<1>3. Pids \subseteq T
  <2> HIDE DEF T
  <2> QED
    BY <1>2, UpInduct
<1> QED
  BY <1>0, <1>3 DEF Fam

\* What a family accumulates is the sum over it.
LEMMA FamSum ==
    ASSUME NEW l, Sound(l), NEW own, \A p \in Pids : own[p] \in Nat,
           NEW K \in [Pids -> SUBSET Pids], \A p \in Pids : \A k \in K[p] : p < k,
           NEW T \in SUBSET Listed(l), \A p \in T : K[p] = Kids(l, p) /\ Kids(l, p) \subseteq T
    PROVE  \A p \in T : Accumulated(own, K)[p] = Sum(own, Fam(l, p))
<1> DEFINE all == Accumulated(own, K)
           C == {p \in Pids : p \in T => all[p] = Sum(own, Fam(l, p))}
<1>0. Listed(l) \subseteq Pids /\ IsFiniteSet(Listed(l))
  BY ListedIs
<1>1. \A p \in Pids : all[p] = own[p] + Sum(all, K[p])
  BY AccumulatedIs
<1> HIDE DEF all
<1>2. \A p \in Listed(l) : Fam(l, p) \subseteq Listed(l) /\ Fam(l, p) \subseteq Pids /\ IsFiniteSet(Fam(l, p))
  <2>1. \A p \in Listed(l) : Fam(l, p) \subseteq Listed(l)
    BY DEF Fam
  <2> QED
    BY <1>0, <2>1, FS_Subset
<1>3. ASSUME NEW p \in Pids, \A q \in Pids : q > p => q \in C PROVE p \in C
  <2> SUFFICES ASSUME p \in T PROVE all[p] = Sum(own, Fam(l, p))
    OBVIOUS
  <2> DEFINE F == [k \in Kids(l, p) |-> Fam(l, k)]
             U == UNION {Fam(l, k) : k \in Kids(l, p)}
  <2>1. K[p] = Kids(l, p) /\ Kids(l, p) \subseteq T /\ Kids(l, p) \subseteq Listed(l)
    OBVIOUS
  <2>2. IsFiniteSet(Kids(l, p))
    BY <1>0, <2>1, FS_Subset
  <2>3. \A k \in Kids(l, p) : F[k] = Fam(l, k) /\ IsFiniteSet(F[k]) /\ F[k] \subseteq Pids
    BY <1>2, <2>1
  <2>4. \A j, k \in Kids(l, p) : j # k => F[j] \cap F[k] = {}
    <3> SUFFICES ASSUME NEW j \in Kids(l, p), NEW k \in Kids(l, p), j # k PROVE F[j] \cap F[k] = {}
      OBVIOUS
    <3>1. j \in Listed(l) /\ k \in Listed(l) /\ l.ent[j].ppid = p /\ l.ent[k].ppid = p
      BY DEF Kids
    <3>2. Fam(l, j) \cap Fam(l, k) = {}
      BY <3>1, FamDisjoint
    <3> QED
      BY <2>3, <3>2
  <2>5. \A k \in Kids(l, p) : all[k] = Sum(own, F[k])
    <3> SUFFICES ASSUME NEW k \in Kids(l, p) PROVE all[k] = Sum(own, F[k])
      OBVIOUS
    <3>1. k \in Pids /\ k > p /\ k \in T
      BY <1>0, <2>1, PidNat
    <3> QED
      BY <1>3, <2>3, <3>1
  <2>6. \A k \in Kids(l, p) : \A y \in F[k] : own[y] \in Nat
    BY <2>3
  <2> HIDE DEF F
  <2>7. Sum(all, Kids(l, p)) = Sum(own, UNION {F[k] : k \in Kids(l, p)})
    BY <2>2, <2>3, <2>4, <2>5, <2>6, SumFamily
  <2>8. UNION {F[k] : k \in Kids(l, p)} = U
    BY <2>3
  <2>9. Fam(l, p) = {p} \cup U /\ p \notin U
    BY FamSplit
  <2> HIDE DEF U
  <2>10. IsFiniteSet(U) /\ U \subseteq Pids
    <3>1. U \subseteq Fam(l, p)
      BY <2>9
    <3> QED
      BY <1>2, <3>1, FS_Subset
  <2>11. Sum(own, U \cup {p}) = Sum(own, U) + own[p] /\ Sum(own, U) \in Nat
    <3>1. \A y \in U \cup {p} : own[y] \in Nat
      BY <2>10
    <3> QED
      BY <2>9, <2>10, <3>1, SumAdd
  <2>12. {p} \cup U = U \cup {p}
    OBVIOUS
  <2>13. all[p] = own[p] + Sum(own, U)
    BY <1>1, <2>1, <2>7, <2>8
  <2>14. own[p] \in Nat
    OBVIOUS
  <2>15. Sum(own, Fam(l, p)) = Sum(own, U) + own[p]
    BY <2>9, <2>11, <2>12
  <2> QED
    BY <2>11, <2>13, <2>14, <2>15
<1>4. Pids \subseteq C
  <2> HIDE DEF C
  <2> QED
    BY <1>3, DownInduct
<1> QED
  BY <1>0, <1>4 DEF all

-----------------------------------------------------------------------------
(* _tree_gen().                                                            *)

LEMMA CallsAre ==
    ASSUME NEW l, Sound(l), NEW m \in Modes
    PROVE  LET call == Calls(l, m) IN
           \A p \in Pids :
             LET q == l.ent[p].ppid IN
             /\ call[p].collapsed \in BOOLEAN /\ call[p].found \in BOOLEAN
             /\ p \in Roots(l) \/ q \notin Pids => ~call[p].collapsed /\ ~call[p].found
             /\ p \notin Roots(l) /\ q \in Pids =>
                  /\ call[p].collapsed <=> Under(l, q, call[q].collapsed)
                  /\ call[p].found <=> FoundBelow(call[q].found, Asks(call[q].found, m),
                                                  Out(q, call[q].found, m))
<1> DEFINE V == [collapsed : BOOLEAN, found : BOOLEAN]
           R == {p \in Pids : p \in Roots(l) \/ l.ent[p].ppid \notin Pids}
           par == [p \in Pids |-> l.ent[p].ppid]
           no == [collapsed |-> FALSE, found |-> FALSE]
           base == [p \in Pids |-> no]
           After(q, v) == [collapsed |-> Under(l, q, v.collapsed),
                           found |-> FoundBelow(v.found, Asks(v.found, m), Out(q, v.found, m))]
           step == [pv \in Pids \X V |-> After(par[pv[1]], pv[2])]
           Step(h) == [p \in Pids |->
                         LET q == l.ent[p].ppid IN
                         IF p \in Roots(l) \/ q \notin Pids THEN no ELSE After(q, h[q])]
           call == CHOOSE h : h = Step(h)
<1>1. \A p \in Pids : par[p] = l.ent[p].ppid
  OBVIOUS
<1>2. \A p \in Pids \ R : par[p] \in Pids /\ par[p] < p
  BY <1>1, ParentLower
<1>3. no \in V /\ ~no.collapsed /\ ~no.found
  <2>1. no.collapsed = FALSE /\ no.found = FALSE
    OBVIOUS
  <2>2. no \in V
    BY Zenon
  <2> QED
    BY <2>1, <2>2
<1>4. \A q, v : After(q, v).collapsed = Under(l, q, v.collapsed)
  OBVIOUS
<1>5. \A q, v : After(q, v).found = FoundBelow(v.found, Asks(v.found, m), Out(q, v.found, m))
  OBVIOUS
<1>6. \A q, v : Under(l, q, v.collapsed) \in BOOLEAN
  BY DEF Under
<1>7. \A q, v : FoundBelow(v.found, Asks(v.found, m), Out(q, v.found, m)) \in BOOLEAN
  BY DEF FoundBelow
<1>8. \A q, v : After(q, v) \in V
  BY <1>6, <1>7
<1> HIDE DEF no, After
<1>9. base \in [Pids -> V]
  BY <1>3
<1>10. step \in [Pids \X V -> V]
  <2> HIDE DEF par, V
  <2> QED
    BY <1>8
<1>11. \A p \in Pids, v \in V : step[<<p, v>>] = After(par[p], v)
  <2> HIDE DEF par, V
  <2> QED
    OBVIOUS
<1> HIDE DEF step
<1>12. PICK f \in [Pids -> V] : Descends(f, R, par, base, step)
  <2> HIDE DEF V, base, R, par
  <2>1. Upward(par, R)
    BY <1>2 DEF Upward
  <2> QED
    BY <1>9, <1>10, <2>1, TopDown
<1>13. \A p \in Pids : f[p] = IF p \in Roots(l) \/ l.ent[p].ppid \notin Pids THEN no
                              ELSE After(l.ent[p].ppid, f[l.ent[p].ppid])
  <2> SUFFICES ASSUME NEW p \in Pids
               PROVE  f[p] = IF p \in Roots(l) \/ l.ent[p].ppid \notin Pids THEN no
                             ELSE After(l.ent[p].ppid, f[l.ent[p].ppid])
    OBVIOUS
  <2>1. CASE p \in R
    BY <1>12, <2>1 DEF Descends
  <2>2. CASE p \notin R
    <3>1. par[p] \in Pids /\ par[p] = l.ent[p].ppid
      BY <1>1, <1>2, <2>2
    <3>2. f[par[p]] \in V /\ f[p] = step[<<p, f[par[p]]>>]
      BY <1>12, <2>2, <3>1 DEF Descends
    <3>3. ~(p \in Roots(l) \/ l.ent[p].ppid \notin Pids)
      BY <2>2
    <3> HIDE DEF V, par
    <3>4. f[p] = After(par[p], f[par[p]])
      BY <1>11, <3>2
    <3> QED
      BY <3>1, <3>3, <3>4
  <2> QED
    BY <2>1, <2>2
<1>14. f = Step(f)
  BY <1>13
<1>15. call = Step(call)
  <2> HIDE DEF Step
  <2> QED
    BY <1>14
<1>16. Calls(l, m) = call
  BY DEF Calls, After, no
<1>17. \A p \in Pids : call[p] = IF p \in Roots(l) \/ l.ent[p].ppid \notin Pids THEN no
                                 ELSE After(l.ent[p].ppid, call[l.ent[p].ppid])
  <2> HIDE DEF call
  <2> QED
    BY <1>15
<1> HIDE DEF call
<1>18. \A p \in Pids : call[p] \in V
  BY <1>3, <1>8, <1>17
<1>19. \A p \in Pids : call[p].collapsed \in BOOLEAN /\ call[p].found \in BOOLEAN
  BY <1>18
<1>20. ASSUME NEW p \in Pids, p \in Roots(l) \/ l.ent[p].ppid \notin Pids
       PROVE  ~call[p].collapsed /\ ~call[p].found
  BY <1>3, <1>17, <1>20
<1>21. ASSUME NEW p \in Pids, NEW q \in Pids, p \notin Roots(l), l.ent[p].ppid = q
       PROVE  /\ call[p].collapsed = Under(l, q, call[q].collapsed)
              /\ call[p].found = FoundBelow(call[q].found, Asks(call[q].found, m),
                                            Out(q, call[q].found, m))
  <2>1. call[p] = After(q, call[q])
    BY <1>17, <1>21
  <2> QED
    BY <1>4, <1>5, <2>1
<1> HIDE DEF V
<1>22. ASSUME NEW p \in Pids, p \notin Roots(l), l.ent[p].ppid \in Pids
       PROVE  LET q == l.ent[p].ppid IN
              /\ call[p].collapsed <=> Under(l, q, call[q].collapsed)
              /\ call[p].found <=> FoundBelow(call[q].found, Asks(call[q].found, m),
                                              Out(q, call[q].found, m))
  BY <1>21, <1>22
<1> QED
  BY <1>16, <1>19, <1>20, <1>22

\* The processes that the filter hides, those that hide their children, and the children.
Excluded(l, m) == {p \in Visited(l) : Out(p, Calls(l, m)[p].found, m)}
Hiders(l, m) ==
    {p \in Visited(l) \ Excluded(l, m) : m.full /\ Under(l, p, Calls(l, m)[p].collapsed)}
Hidden(l, m) == UNION {Kids(l, p) : p \in Hiders(l, m)}
\* Those that add up the usage of their children, and what each then has.
Adders(l, m) == IF m.full /\ m.aggregate THEN Visited(l) ELSE Hiders(l, m)
Uses(l) == [p \in Pids |-> l.ent[p].use]
Added(l, m) ==
    [p \in Pids |-> IF p \in Adders(l, m) THEN {k \in Kids(l, p) : ~l.ent[k].dead} ELSE {}]

LEMMA GenIs ==
    ASSUME NEW l, Sound(l), NEW m \in Modes
    PROVE  LET k == Gen(l, m) IN
           /\ Sound(k) /\ Kept(k, l) /\ k.order = l.order /\ k.op = l.op
           /\ Listed(k) = Listed(l)
           /\ \A p \in Pids : /\ k.ent[p].ppid = l.ent[p].ppid /\ k.ent[p].coll = l.ent[p].coll
                              /\ k.ent[p].idx = l.ent[p].idx /\ k.ent[p].dead = l.ent[p].dead
           /\ \A p \in Pids \ Visited(l) : k.ent[p] = l.ent[p]
           /\ \A p \in Visited(l) :
                /\ k.ent[p].use = Accumulated(Uses(l), Added(l, m))[p]
                /\ k.ent[p].filt <=> \/ p \in Excluded(l, m) \cup Hidden(l, m)
                                     \/ Asks(Calls(l, m)[p].found, m) /\ l.ent[p].filt
                                     \/ Calls(l, m)[p].collapsed /\ Kids(l, p) # {}
           /\ Cardinality(Excluded(l, m)) \in Nat /\ Cardinality(Hidden(l, m)) \in Nat
           /\ k.hidden = l.hidden + Cardinality(Excluded(l, m)) + Cardinality(Hidden(l, m))
<1> DEFINE k == Gen(l, m)
           call == Calls(l, m)
           visited == Visited(l)
           kids == [p \in Pids |-> Kids(l, p)]
           out == {p \in visited : Out(p, call[p].found, m)}
           keeps == {p \in visited : Asks(call[p].found, m)}
           hides == {p \in visited \ out : m.full /\ Under(l, p, call[p].collapsed)}
           adds == IF m.full /\ m.aggregate THEN visited ELSE hides
           hidden == UNION {kids[p] : p \in hides}
           use == Accumulated([p \in Pids |-> l.ent[p].use],
                    [p \in Pids |-> IF p \in adds THEN {q \in kids[p] : ~l.ent[q].dead} ELSE {}])
           Filt(p) == \/ p \in out \cup hidden
                      \/ p \in keeps /\ l.ent[p].filt
                      \/ call[p].collapsed /\ kids[p] # {}
           f == [p \in Pids |-> IF p \in visited
                                  THEN [l.ent[p] EXCEPT !.use = use[p], !.filt = Filt(p)]
                                  ELSE l.ent[p]]
           n == l.hidden + Cardinality(out) + Cardinality(hidden)
<1>0. visited \subseteq Listed(l) /\ Listed(l) \subseteq Pids /\ IsFiniteSet(Listed(l))
  BY ListedIs DEF Visited
<1>1. k = [[l EXCEPT !.ent = f] EXCEPT !.hidden = n]
  BY DEF Gen
<1>2. out = Excluded(l, m)
  BY DEF Excluded
<1>3. hides = Hiders(l, m)
  BY DEF Hiders, Excluded
<1>4. \A p \in Pids : kids[p] = Kids(l, p)
  OBVIOUS
<1>5. hidden = Hidden(l, m)
  <2> HIDE DEF hides, kids
  <2>1. hides \subseteq Pids
    BY <1>0 DEF hides
  <2> QED
    BY <1>3, <1>4, <2>1 DEF Hidden
<1>6. adds = Adders(l, m)
  <2> HIDE DEF hides
  <2> QED
    BY <1>3 DEF Adders
<1>7. use = Accumulated(Uses(l), Added(l, m))
  <2> HIDE DEF adds
  <2>1. [p \in Pids |-> IF p \in adds THEN {q \in kids[p] : ~l.ent[q].dead} ELSE {}] = Added(l, m)
    BY <1>4, <1>6 DEF Added
  <2> QED
    BY <2>1 DEF Uses
<1>8. \A p \in visited : p \in keeps <=> Asks(call[p].found, m)
  OBVIOUS
<1> HIDE DEF kids, out, hides, adds, hidden, use, keeps
<1>9. \A p \in Pids : Uses(l)[p] \in Nat
  BY ParentLower DEF Uses, Entries
<1>10. Added(l, m) \in [Pids -> SUBSET Pids]
  BY <1>0 DEF Added, Kids
<1>11. \A p \in Pids : \A q \in Added(l, m)[p] : p < q
  <2> SUFFICES ASSUME NEW p \in Pids, NEW q \in Added(l, m)[p] PROVE p < q
    OBVIOUS
  <2>1. q \in Kids(l, p)
    BY DEF Added
  <2>2. q \in Pids /\ l.ent[q].ppid = p
    BY <1>0, <2>1 DEF Kids
  <2> QED
    BY <2>2, ParentLower
<1>12. use \in [Pids -> Nat]
  BY <1>7, <1>9, <1>10, <1>11, AccumulatedIs
<1>13. \A p \in Pids : Filt(p) \in BOOLEAN
  OBVIOUS
<1>14. \A p \in visited :
         Filt(p) <=> \/ p \in Excluded(l, m) \cup Hidden(l, m)
                     \/ Asks(Calls(l, m)[p].found, m) /\ l.ent[p].filt
                     \/ Calls(l, m)[p].collapsed /\ Kids(l, p) # {}
  BY <1>0, <1>2, <1>4, <1>5, <1>8
<1> HIDE DEF Filt
<1>15. \A p \in visited : f[p] = [l.ent[p] EXCEPT !.use = use[p], !.filt = Filt(p)]
  BY <1>0
<1>16. \A p \in Pids \ visited : f[p] = l.ent[p]
  OBVIOUS
<1>17. DOMAIN f = Pids /\ f = [p \in DOMAIN f |-> f[p]]
  OBVIOUS
<1> HIDE DEF f
<1>18. ASSUME NEW p \in Pids
       PROVE  /\ f[p] \in Entries /\ f[p].ppid = l.ent[p].ppid /\ f[p].coll = l.ent[p].coll
              /\ f[p].idx = l.ent[p].idx /\ f[p].dead = l.ent[p].dead
  <2>1. l.ent[p] \in Entries
    BY ParentLower
  <2>2. CASE p \notin visited
    BY <1>16, <2>1, <2>2
  <2>3. CASE p \in visited
    <3>1. use[p] \in Nat /\ Filt(p) \in BOOLEAN
      BY <1>12, <1>13
    <3> QED
      BY <1>15, <2>1, <2>3, <3>1 DEF Entries
  <2> QED
    BY <2>2, <2>3
<1>19. ASSUME NEW p \in visited PROVE f[p].use = use[p] /\ (f[p].filt <=> Filt(p))
  <2>1. l.ent[p] \in Entries /\ p \in Pids
    BY <1>0, ParentLower
  <2>2. f[p].use = use[p] /\ f[p].filt = Filt(p)
    BY <1>15, <2>1 DEF Entries
  <2> QED
    BY <2>2
<1>20. f \in [Pids -> Entries]
  BY <1>17, <1>18
<1>21. \A p \in Pids : f[p].ppid < p /\ f[p].dead = l.ent[p].dead
  BY <1>18, ParentLower
<1>22. \A p \in Pids \ Listed(l) : f[p] = Blank
  BY <1>0, <1>16 DEF Sound
<1> DEFINE j == [l EXCEPT !.ent = f]
<1>23. Sound(j) /\ j.ent = f /\ Listed(j) = Listed(l)
  BY <1>20, <1>21, <1>22, EntriesKept
<1>24. Kept(j, l) /\ j.order = l.order /\ j.op = l.op
  BY DEF Sound, Lists, Kept
<1> HIDE DEF j
<1>25. Cardinality(out) \in Nat /\ Cardinality(hidden) \in Nat
  <2>1. out \subseteq Listed(l) /\ hidden \subseteq Listed(l)
    BY <1>0, <1>4 DEF out, hidden, hides, Kids
  <2> QED
    BY <1>0, <2>1, FS_Subset, FS_CardinalityType
<1>26. n \in Nat
  BY <1>25 DEF Sound, Lists
<1> HIDE DEF n, k
<1>27. /\ k \in Lists /\ k.ent = f /\ k.order = j.order /\ k.dead = j.dead /\ k.hidden = n
       /\ Kept(k, j) /\ k.op = j.op
  <2>1. j \in Lists /\ k = [j EXCEPT !.hidden = n]
    BY <1>1, <1>23 DEF Sound, j
  <2> QED
    BY <1>23, <1>26, <2>1 DEF Lists, Kept
<1>28. Listed(k) = Listed(l)
  BY <1>23, <1>27 DEF Listed
<1>29. Sound(k)
  BY <1>23, <1>27, <1>28 DEF Sound
<1>30. Kept(k, l) /\ k.order = l.order /\ k.op = l.op
  BY <1>24, <1>27 DEF Kept
<1>31. \A p \in visited :
         /\ k.ent[p].use = Accumulated(Uses(l), Added(l, m))[p]
         /\ k.ent[p].filt <=> \/ p \in Excluded(l, m) \cup Hidden(l, m)
                              \/ Asks(Calls(l, m)[p].found, m) /\ l.ent[p].filt
                              \/ Calls(l, m)[p].collapsed /\ Kids(l, p) # {}
  <2> SUFFICES ASSUME NEW p \in visited
               PROVE  /\ k.ent[p].use = Accumulated(Uses(l), Added(l, m))[p]
                      /\ k.ent[p].filt <=> \/ p \in Excluded(l, m) \cup Hidden(l, m)
                                           \/ Asks(Calls(l, m)[p].found, m) /\ l.ent[p].filt
                                           \/ Calls(l, m)[p].collapsed /\ Kids(l, p) # {}
    OBVIOUS
  <2>1. k.ent[p].use = Accumulated(Uses(l), Added(l, m))[p]
    BY <1>7, <1>19, <1>27
  <2>2. k.ent[p].filt <=> Filt(p)
    BY <1>19, <1>27
  <2> QED
    BY <1>14, <2>1, <2>2, Zenon
<1>32. k.hidden = l.hidden + Cardinality(Excluded(l, m)) + Cardinality(Hidden(l, m))
  BY <1>2, <1>5, <1>27 DEF n
<1>33. \A p \in Pids : /\ k.ent[p].ppid = l.ent[p].ppid /\ k.ent[p].coll = l.ent[p].coll
                       /\ k.ent[p].idx = l.ent[p].idx /\ k.ent[p].dead = l.ent[p].dead
  BY <1>18, <1>27
<1>34. \A p \in Pids \ visited : k.ent[p] = l.ent[p]
  BY <1>16, <1>27
<1>35. Cardinality(Excluded(l, m)) \in Nat /\ Cardinality(Hidden(l, m)) \in Nat
  BY <1>2, <1>5, <1>25
<1> QED
  BY <1>28, <1>29, <1>30, <1>31, <1>32, <1>33, <1>34, <1>35 DEF k

LEMMA VisitedUp ==
    ASSUME NEW l, Family(l), NEW p \in Visited(l), p \notin Roots(l)
    PROVE  /\ l.ent[p].ppid \in Visited(l) /\ l.ent[p].ppid \in Listed(l) /\ l.ent[p].ppid < p
           /\ l.ent[p].ppid \in Pids /\ p \in Pids
           /\ Above(l, p) = {l.ent[p].ppid} \cup Above(l, l.ent[p].ppid)
<1>1. p \in Listed(l) /\ p \in Pids /\ Above(l, p) \cap Roots(l) # {}
  BY ListedIs DEF Visited, Family
<1>2. l.ent[p].ppid \in Listed(l) /\ Above(l, p) = {l.ent[p].ppid} \cup Above(l, l.ent[p].ppid)
  BY <1>1, AboveIs DEF Family
<1>3. l.ent[p].ppid \in Visited(l)
  BY <1>1, <1>2 DEF Visited
<1>4. l.ent[p].ppid < p /\ l.ent[p].ppid \in Pids
  BY <1>1, <1>2, ListedIs, ParentLower DEF Family
<1> QED
  BY <1>1, <1>2, <1>3, <1>4

LEMMA VisitedDown ==
    ASSUME NEW l, Family(l), NEW q \in Visited(l), NEW p \in Kids(l, q)
    PROVE  p \in Visited(l) /\ p \notin Roots(l) /\ l.ent[p].ppid = q /\ p \in Pids /\ q \in Pids
<1>1. /\ q \in Listed(l) /\ p \in Listed(l) /\ p \in Pids /\ q \in Pids /\ l.ent[p].ppid = q
      /\ ({q} \cup Above(l, q)) \cap Roots(l) # {}
  BY ListedIs DEF Visited, Kids, Family
<1>2. Above(l, p) = {q} \cup Above(l, q)
  BY <1>1, AboveIs DEF Family
<1>3. p \in Visited(l)
  BY <1>1, <1>2 DEF Visited
<1>4. p \notin Roots(l)
  BY <1>1, RootsAre, PidsAre
<1> QED
  BY <1>1, <1>3, <1>4

LEMMA RootAlone ==
    ASSUME NEW l, Family(l), NEW p \in Roots(l)
    PROVE  p \in Visited(l) /\ p \in Pids /\ p \in Listed(l) /\ Above(l, p) = {}
<1>1. p \in Listed(l) /\ l.ent[p].ppid = None /\ p \in Pids /\ None \notin Listed(l)
  BY RootsAre, ListedIs, PidsAre DEF Family
<1>2. Above(l, p) = {}
  BY <1>1, AboveIs DEF Family
<1> QED
  BY <1>1, <1>2 DEF Visited

\* What is collapsed above, and what is found above.
LEMMA CollapsedAbove ==
    ASSUME NEW l, Family(l), NEW m \in Modes
    PROVE  \A p \in Visited(l) :
             Calls(l, m)[p].collapsed <=> \E q \in Above(l, p) : l.ent[q].coll
<1> DEFINE call == Calls(l, m)
           Goal(p) == call[p].collapsed <=> \E q \in Above(l, p) : l.ent[q].coll
           T == {p \in Pids : p \in Visited(l) => Goal(p)}
<1>0. Sound(l) /\ Visited(l) \subseteq Pids
  BY ListedIs DEF Family, Visited
<1>1. ASSUME NEW p \in Pids, \A q \in Pids : q < p => q \in T PROVE p \in T
  <2> SUFFICES ASSUME p \in Visited(l) PROVE Goal(p)
    OBVIOUS
  <2>1. CASE p \in Roots(l)
    <3>1. Above(l, p) = {}
      BY <2>1, RootAlone
    <3>2. ~call[p].collapsed
      BY <1>0, <2>1, CallsAre
    <3> QED
      BY <3>1, <3>2
  <2>2. CASE p \notin Roots(l)
    <3> DEFINE u == l.ent[p].ppid
    <3>1. /\ u \in Visited(l) /\ u < p /\ u \in Pids
          /\ Above(l, p) = {u} \cup Above(l, u)
      BY <2>2, VisitedUp
    <3>2. call[p].collapsed <=> Under(l, u, call[u].collapsed)
      BY <1>0, <2>2, <3>1, CallsAre
    <3>3. Goal(u)
      <4>1. u \in T
        BY <1>1, <3>1
      <4> HIDE DEF Goal
      <4> QED
        BY <3>1, <4>1
    <3> HIDE DEF u, call
    <3>4. (\E q \in Above(l, p) : l.ent[q].coll) <=> l.ent[u].coll \/ \E q \in Above(l, u) : l.ent[q].coll
      BY <3>1
    <3> QED
      BY <3>2, <3>3, <3>4 DEF Under
  <2> QED
    BY <2>1, <2>2
<1>2. Pids \subseteq T
  <2> HIDE DEF T
  <2> QED
    BY <1>1, UpInduct
<1> HIDE DEF Goal
<1>3. \A p \in Visited(l) : Goal(p)
  BY <1>0, <1>2
<1> QED
  BY <1>3 DEF Goal

LEMMA FoundAbove ==
    ASSUME NEW l, Family(l), NEW m \in Modes, m.should
    PROVE  \A p \in Visited(l) :
             Calls(l, m)[p].found <=> \E q \in Above(l, p) : Matches(q, m.o)
<1> DEFINE call == Calls(l, m)
           Goal(p) == call[p].found <=> \E q \in Above(l, p) : Matches(q, m.o)
           T == {p \in Pids : p \in Visited(l) => Goal(p)}
<1>0. Sound(l) /\ Visited(l) \subseteq Pids
  BY ListedIs DEF Family, Visited
<1>1. ASSUME NEW p \in Pids, \A q \in Pids : q < p => q \in T PROVE p \in T
  <2> SUFFICES ASSUME p \in Visited(l) PROVE Goal(p)
    OBVIOUS
  <2>1. CASE p \in Roots(l)
    <3>1. Above(l, p) = {}
      BY <2>1, RootAlone
    <3>2. ~call[p].found
      BY <1>0, <2>1, CallsAre
    <3> QED
      BY <3>1, <3>2
  <2>2. CASE p \notin Roots(l)
    <3> DEFINE u == l.ent[p].ppid
    <3>1. /\ u \in Visited(l) /\ u < p /\ u \in Pids
          /\ Above(l, p) = {u} \cup Above(l, u)
      BY <2>2, VisitedUp
    <3>2. call[p].found <=> FoundBelow(call[u].found, Asks(call[u].found, m), Out(u, call[u].found, m))
      BY <1>0, <2>2, <3>1, CallsAre
    <3>3. Goal(u)
      <4>1. u \in T
        BY <1>1, <3>1
      <4> HIDE DEF Goal
      <4> QED
        BY <3>1, <4>1
    <3> HIDE DEF u, call
    <3>4. (\E q \in Above(l, p) : Matches(q, m.o)) <=>
             Matches(u, m.o) \/ \E q \in Above(l, u) : Matches(q, m.o)
      BY <3>1
    <3>5. call[p].found <=> call[u].found \/ Matches(u, m.o)
      BY <3>2 DEF FoundBelow, Out, Asks
    <3> QED
      BY <3>3, <3>4, <3>5
  <2> QED
    BY <2>1, <2>2
<1>2. Pids \subseteq T
  <2> HIDE DEF T
  <2> QED
    BY <1>1, UpInduct
<1> HIDE DEF Goal
<1>3. \A p \in Visited(l) : Goal(p)
  BY <1>0, <1>2
<1> QED
  BY <1>3 DEF Goal

\* No process is counted twice among the hidden.
LEMMA HiddenApart ==
    ASSUME NEW l, Family(l), NEW m \in Modes, m.full => m.should
    PROVE  /\ Excluded(l, m) \subseteq Listed(l) /\ Hidden(l, m) \subseteq Listed(l)
           /\ Excluded(l, m) \cap Hidden(l, m) = {}
<1>0. Sound(l)
  BY DEF Family
<1>1. Excluded(l, m) \subseteq Listed(l)
  BY DEF Excluded, Visited
<1>2. ASSUME NEW p \in Hidden(l, m)
      PROVE  p \in Listed(l) /\ p \notin Excluded(l, m)
  <2>1. PICK q \in Hiders(l, m) : p \in Kids(l, q)
    BY DEF Hidden
  <2>2. q \in Visited(l) /\ q \notin Excluded(l, m) /\ m.full
    BY DEF Hiders
  <2>3. p \in Visited(l) /\ p \notin Roots(l) /\ l.ent[p].ppid = q /\ p \in Pids /\ q \in Pids
    BY <2>1, <2>2, VisitedDown
  <2> DEFINE call == Calls(l, m)
  <2>4. call[p].found <=> FoundBelow(call[q].found, Asks(call[q].found, m), Out(q, call[q].found, m))
    BY <1>0, <2>3, CallsAre
  <2>5. ~Out(q, call[q].found, m) /\ m.should
    BY <2>2 DEF Excluded
  <2> HIDE DEF call
  <2>6. call[p].found
    BY <2>4, <2>5 DEF FoundBelow, Asks
  <2>7. ~Out(p, call[p].found, m)
    BY <2>6 DEF Out, Asks
  <2> QED
    BY <2>3, <2>7 DEF Excluded, Visited, call
<1> QED
  BY <1>1, <1>2

\* The count of the hidden stays within the list.
LEMMA HiddenFits ==
    ASSUME NEW l, Family(l), NEW m \in Modes, m.full => m.should,
           l.hidden \in 0..Len(l.order), m.should \/ m.o.filter => l.hidden = 0
    PROVE  Gen(l, m).hidden \in 0..Len(l.order)
<1> DEFINE E == Excluded(l, m)
           H == Hidden(l, m)
<1>0. Sound(l) /\ IsFiniteSet(Listed(l)) /\ Cardinality(Listed(l)) = Len(l.order) /\ Len(l.order) \in Nat
  BY ListedIs DEF Family
<1>1. E \subseteq Listed(l) /\ H \subseteq Listed(l) /\ E \cap H = {}
  BY HiddenApart
<1>2. /\ Gen(l, m).hidden = l.hidden + Cardinality(E) + Cardinality(H)
      /\ Cardinality(E) \in Nat /\ Cardinality(H) \in Nat
  BY <1>0, GenIs
<1>3. CASE m.should \/ m.o.filter
  <2> HIDE DEF E, H
  <2>1. IsFiniteSet(E) /\ IsFiniteSet(H) /\ E \cup H \subseteq Listed(l)
    BY <1>0, <1>1, FS_Subset
  <2>2. Cardinality(E \cup H) = Cardinality(E) + Cardinality(H) - Cardinality(E \cap H)
    BY <2>1, FS_Union
  <2>3. Cardinality(E \cap H) = 0
    BY <1>1, FS_EmptySet
  <2>4. Cardinality(E \cup H) <= Cardinality(Listed(l))
    BY <1>0, <2>1, FS_Subset
  <2> QED
    BY <1>0, <1>2, <1>3, <2>2, <2>3, <2>4
<1>4. CASE ~(m.should \/ m.o.filter)
  <2>1. E = {}
    BY <1>4 DEF Excluded, Out, Asks
  <2>2. H = {}
    BY <1>4 DEF Hidden, Hiders
  <2>3. Cardinality(E) = 0 /\ Cardinality(H) = 0
    BY <2>1, <2>2, FS_EmptySet
  <2> QED
    BY <1>0, <1>2, <2>3
<1> QED
  BY <1>3, <1>4

\* What a full collection hides in the tree, and how many it counts.
LEMMA HiddenIs ==
    ASSUME NEW l, Family(l), NEW m \in Modes, m.full, m.should
    PROVE  \A p \in Visited(l) :
             p \in Hidden(l, m) <=> /\ Calls(l, m)[p].collapsed
                                    /\ l.ent[p].ppid \notin Excluded(l, m)
<1> SUFFICES ASSUME NEW p \in Visited(l)
             PROVE  p \in Hidden(l, m) <=> /\ Calls(l, m)[p].collapsed
                                           /\ l.ent[p].ppid \notin Excluded(l, m)
  OBVIOUS
<1> DEFINE call == Calls(l, m)
<1>0. Sound(l)
  BY DEF Family
<1>1. ASSUME NEW q \in Hiders(l, m), p \in Kids(l, q)
      PROVE  call[p].collapsed /\ l.ent[p].ppid \notin Excluded(l, m)
  <2>1. q \in Visited(l) /\ q \notin Excluded(l, m) /\ Under(l, q, call[q].collapsed)
    BY DEF Hiders
  <2>2. p \notin Roots(l) /\ l.ent[p].ppid = q /\ p \in Pids /\ q \in Pids
    BY <1>1, <2>1, VisitedDown
  <2>3. call[p].collapsed <=> Under(l, q, call[q].collapsed)
    BY <1>0, <2>2, CallsAre
  <2> QED
    BY <2>1, <2>2, <2>3
<1>2. ASSUME call[p].collapsed, l.ent[p].ppid \notin Excluded(l, m) PROVE p \in Hidden(l, m)
  <2>1. p \in Pids /\ p \in Listed(l)
    BY <1>0, ListedIs DEF Visited
  <2>2. p \notin Roots(l)
    BY <1>0, <1>2, <2>1, CallsAre
  <2> DEFINE q == l.ent[p].ppid
  <2>3. q \in Visited(l) /\ q \in Pids
    BY <2>2, VisitedUp
  <2>4. call[p].collapsed <=> Under(l, q, call[q].collapsed)
    BY <1>0, <2>1, <2>2, <2>3, CallsAre
  <2>5. q \in Hiders(l, m)
    BY <1>2, <2>3, <2>4 DEF Hiders
  <2>6. p \in Kids(l, q)
    BY <2>1 DEF Kids
  <2> QED
    BY <2>5, <2>6 DEF Hidden
<1>3. p \in Hidden(l, m) => \E q \in Hiders(l, m) : p \in Kids(l, q)
  BY DEF Hidden
<1> HIDE DEF call
<1> QED
  BY <1>1, <1>2, <1>3 DEF call

LEMMA ShownIs ==
    ASSUME NEW l, Family(l), NEW m \in Modes, m.full, m.should,
           \A p \in Pids : ~l.ent[p].filt
    PROVE  LET k == Gen(l, m) IN
           /\ ~m.o.filter =>
                \A p \in Visited(l) : k.ent[p].filt <=> \E q \in Above(l, p) : l.ent[q].coll
           /\ m.o.filter /\ (\A p \in Listed(l) : ~l.ent[p].coll) =>
                \A p \in Visited(l) : k.ent[p].filt <=> (Above(l, p) \cup {p}) \cap Matching = {}
           /\ ~m.o.filter \/ (\A p \in Listed(l) : ~l.ent[p].coll) =>
                {p \in Listed(l) : k.ent[p].filt} = Excluded(l, m) \cup Hidden(l, m)
<1> DEFINE call == Calls(l, m)
           k == Gen(l, m)
<1>0. Sound(l) /\ Visited(l) \subseteq Pids /\ Visited(l) \subseteq Listed(l)
  BY ListedIs DEF Family, Visited
<1>1. \A p \in Visited(l) :
        k.ent[p].filt <=> \/ p \in Excluded(l, m) \cup Hidden(l, m)
                          \/ call[p].collapsed /\ Kids(l, p) # {}
  <2> SUFFICES ASSUME NEW p \in Visited(l)
               PROVE  k.ent[p].filt <=> \/ p \in Excluded(l, m) \cup Hidden(l, m)
                                        \/ call[p].collapsed /\ Kids(l, p) # {}
    OBVIOUS
  <2>1. k.ent[p].filt <=> \/ p \in Excluded(l, m) \cup Hidden(l, m)
                          \/ Asks(call[p].found, m) /\ l.ent[p].filt
                          \/ call[p].collapsed /\ Kids(l, p) # {}
    BY <1>0, GenIs
  <2>2. ~l.ent[p].filt
    BY <1>0
  <2> QED
    BY <2>1, <2>2, Zenon
<1>2. \A p \in Visited(l) : call[p].collapsed <=> \E q \in Above(l, p) : l.ent[q].coll
  BY CollapsedAbove
<1>3. \A p \in Visited(l) : call[p].found <=> \E q \in Above(l, p) : Matches(q, m.o)
  BY FoundAbove
<1>4. \A p \in Visited(l) :
        p \in Hidden(l, m) <=> call[p].collapsed /\ l.ent[p].ppid \notin Excluded(l, m)
  BY HiddenIs, Zenon
<1>5. \A p \in Visited(l) : p \in Excluded(l, m) <=> ~call[p].found /\ ~Matches(p, m.o)
  BY DEF Excluded, Out, Asks
<1>6. Excluded(l, m) \subseteq Visited(l)
  BY DEF Excluded
<1>7. Hidden(l, m) \subseteq Visited(l)
  <2> SUFFICES ASSUME NEW p \in Hidden(l, m) PROVE p \in Visited(l)
    OBVIOUS
  <2>1. PICK q \in Hiders(l, m) : p \in Kids(l, q)
    BY DEF Hidden
  <2>2. q \in Visited(l)
    BY DEF Hiders
  <2> QED
    BY <2>1, <2>2, VisitedDown
<1>8. \A p \in Listed(l) \ Visited(l) : ~k.ent[p].filt
  <2> SUFFICES ASSUME NEW p \in Listed(l) \ Visited(l) PROVE ~k.ent[p].filt
    OBVIOUS
  <2>1. p \in Pids
    BY <1>0, ListedIs
  <2>2. k.ent[p] = l.ent[p]
    BY <1>0, <2>1, GenIs
  <2> QED
    BY <2>1, <2>2
<1> HIDE DEF k, call
<1>9. CASE ~m.o.filter
  <2>1. Excluded(l, m) = {}
    BY <1>5, <1>6, <1>9 DEF Matches
  <2>2. \A p \in Visited(l) : p \in Hidden(l, m) <=> call[p].collapsed
    BY <1>4, <2>1
  <2>3. \A p \in Visited(l) : k.ent[p].filt <=> p \in Hidden(l, m)
    BY <1>1, <2>1, <2>2
  <2>4. \A p \in Visited(l) : k.ent[p].filt <=> \E q \in Above(l, p) : l.ent[q].coll
    <3> SUFFICES ASSUME NEW p \in Visited(l)
                 PROVE  k.ent[p].filt <=> \E q \in Above(l, p) : l.ent[q].coll
      OBVIOUS
    <3>1. k.ent[p].filt <=> call[p].collapsed
      BY <2>2, <2>3
    <3>2. call[p].collapsed <=> \E q \in Above(l, p) : l.ent[q].coll
      BY <1>2
    <3> QED
      BY <3>1, <3>2, Zenon
  <2>5. {p \in Listed(l) : k.ent[p].filt} = Excluded(l, m) \cup Hidden(l, m)
    BY <1>0, <1>7, <1>8, <2>1, <2>3
  <2> QED
    BY <1>9, <2>4, <2>5 DEF k
<1>10. CASE m.o.filter /\ \A p \in Listed(l) : ~l.ent[p].coll
  <2>1. \A p \in Visited(l) : ~call[p].collapsed
    <3> SUFFICES ASSUME NEW p \in Visited(l) PROVE ~call[p].collapsed
      OBVIOUS
    <3>1. \A q \in Above(l, p) : q \in Listed(l)
      BY <1>0, AboveLower
    <3>2. ~\E q \in Above(l, p) : l.ent[q].coll
      BY <1>10, <3>1
    <3>3. call[p].collapsed <=> \E q \in Above(l, p) : l.ent[q].coll
      BY <1>2
    <3> QED
      BY <3>2, <3>3, Zenon
  <2>2. Hidden(l, m) = {}
    BY <1>4, <1>7, <2>1
  <2>3. \A p \in Visited(l) : k.ent[p].filt <=> p \in Excluded(l, m)
    BY <1>1, <2>1, <2>2
  <2>4. \A p \in Visited(l) : k.ent[p].filt <=> (Above(l, p) \cup {p}) \cap Matching = {}
    <3> SUFFICES ASSUME NEW p \in Visited(l)
                 PROVE  k.ent[p].filt <=> (Above(l, p) \cup {p}) \cap Matching = {}
      OBVIOUS
    <3>1. k.ent[p].filt <=> ~call[p].found /\ p \notin Matching
      BY <1>5, <1>10, <2>3 DEF Matches
    <3>2. call[p].found <=> \E q \in Above(l, p) : q \in Matching
      BY <1>3, <1>10 DEF Matches
    <3> QED
      BY <3>1, <3>2
  <2>5. {p \in Listed(l) : k.ent[p].filt} = Excluded(l, m) \cup Hidden(l, m)
    BY <1>0, <1>6, <1>8, <2>2, <2>3
  <2> QED
    BY <1>10, <2>4, <2>5 DEF k
<1>11. CASE m.o.filter /\ ~\A p \in Listed(l) : ~l.ent[p].coll
  BY <1>11
<1> QED
  BY <1>9, <1>10, <1>11

\* The count of the hidden is the number of those that are hidden.
LEMMA HiddenCounted ==
    ASSUME NEW l, Family(l), NEW m \in Modes, m.full, m.should,
           \A p \in Pids : ~l.ent[p].filt, l.hidden = 0,
           ~m.o.filter \/ \A p \in Listed(l) : ~l.ent[p].coll
    PROVE  Gen(l, m).hidden = Cardinality({p \in Listed(l) : Gen(l, m).ent[p].filt})
<1> DEFINE E == Excluded(l, m)
           H == Hidden(l, m)
<1>0. Sound(l) /\ IsFiniteSet(Listed(l))
  BY ListedIs DEF Family
<1>1. E \subseteq Listed(l) /\ H \subseteq Listed(l) /\ E \cap H = {}
  BY HiddenApart
<1>2. /\ Gen(l, m).hidden = l.hidden + Cardinality(E) + Cardinality(H)
      /\ Cardinality(E) \in Nat /\ Cardinality(H) \in Nat
  BY <1>0, GenIs
<1>3. {p \in Listed(l) : Gen(l, m).ent[p].filt} = E \cup H
  BY ShownIs
<1> HIDE DEF E, H
<1>4. IsFiniteSet(E) /\ IsFiniteSet(H)
  BY <1>0, <1>1, FS_Subset
<1>5. Cardinality(E \cup H) = Cardinality(E) + Cardinality(H) - Cardinality(E \cap H)
  BY <1>4, FS_Union
<1>6. Cardinality(E \cap H) = 0
  BY <1>1, FS_EmptySet
<1>7. Cardinality(E \cup H) = Cardinality(E) + Cardinality(H)
  BY <1>2, <1>5, <1>6
<1>8. Gen(l, m).hidden = Cardinality(E) + Cardinality(H)
  BY <1>2
<1> QED
  BY <1>3, <1>7, <1>8

\* The usage of a process that adds up its family.
LEMMA UsageSummed ==
    ASSUME NEW l, Family(l), NEW m \in Modes, m.full, m.should, ~m.o.filter,
           \A p \in Listed(l) : ~l.ent[p].dead,
           NEW p \in Visited(l), m.aggregate \/ l.ent[p].coll
    PROVE  Gen(l, m).ent[p].use = Sum(Uses(l), Fam(l, p))
<1> DEFINE T == Adders(l, m)
           K == Added(l, m)
           call == Calls(l, m)
<1>0. Sound(l) /\ Listed(l) \subseteq Pids /\ Visited(l) \subseteq Listed(l)
  BY ListedIs DEF Family, Visited
<1>1. Excluded(l, m) = {}
  BY DEF Excluded, Out, Matches
<1>2. T \in SUBSET Listed(l) /\ T \subseteq Visited(l)
  BY <1>0 DEF Adders, Hiders
<1>3. p \in T
  BY <1>1 DEF Adders, Hiders, Under
<1>4. \A q \in T : K[q] = Kids(l, q)
  <2> SUFFICES ASSUME NEW q \in T PROVE K[q] = Kids(l, q)
    OBVIOUS
  <2>1. q \in Pids
    BY <1>0, <1>2
  <2>2. K[q] = {k \in Kids(l, q) : ~l.ent[k].dead}
    BY <2>1 DEF Added
  <2>3. Kids(l, q) \subseteq Listed(l)
    BY DEF Kids
  <2> QED
    BY <2>2, <2>3
<1>5. \A q \in T : Kids(l, q) \subseteq T
  <2> SUFFICES ASSUME NEW q \in T, NEW k \in Kids(l, q) PROVE k \in T
    OBVIOUS
  <2>1. k \in Visited(l) /\ k \notin Roots(l) /\ l.ent[k].ppid = q /\ k \in Pids /\ q \in Pids
    BY <1>2, VisitedDown
  <2>2. CASE m.aggregate
    BY <2>1, <2>2 DEF Adders
  <2>3. CASE ~m.aggregate
    <3>1. q \in Hiders(l, m)
      BY <2>3 DEF Adders
    <3>2. Under(l, q, call[q].collapsed)
      BY <3>1 DEF Hiders
    <3>3. call[k].collapsed <=> Under(l, q, call[q].collapsed)
      BY <1>0, <2>1, CallsAre
    <3>4. Under(l, k, call[k].collapsed)
      BY <3>2, <3>3 DEF Under
    <3> QED
      BY <1>1, <2>1, <2>3, <3>4 DEF Adders, Hiders
  <2> QED
    BY <2>2, <2>3
<1> HIDE DEF T
<1>6. \A q \in Pids : Uses(l)[q] \in Nat
  BY <1>0, ParentLower DEF Uses, Entries
<1>7. K \in [Pids -> SUBSET Pids]
  BY <1>0 DEF Added, Kids
<1>8. \A q \in Pids : \A k \in K[q] : q < k
  <2> SUFFICES ASSUME NEW q \in Pids, NEW k \in K[q] PROVE q < k
    OBVIOUS
  <2>1. k \in Kids(l, q)
    BY DEF Added
  <2>2. k \in Pids /\ l.ent[k].ppid = q
    BY <1>0, <2>1 DEF Kids
  <2> QED
    BY <1>0, <2>2, ParentLower
<1>9. Gen(l, m).ent[p].use = Accumulated(Uses(l), K)[p]
  BY <1>0, GenIs
<1> HIDE DEF K
<1>10. \A q \in T : Accumulated(Uses(l), K)[q] = Sum(Uses(l), Fam(l, q))
  BY <1>0, <1>2, <1>4, <1>5, <1>6, <1>7, <1>8, FamSum
<1> QED
  BY <1>3, <1>9, <1>10

\* Lists of the same families.
LEMMA SameFamilies ==
    ASSUME NEW l, Sound(l), NEW k, Sound(k), Listed(k) = Listed(l),
           \A p \in Pids : k.ent[p].ppid = l.ent[p].ppid
    PROVE  /\ \A p \in Pids : Above(k, p) = Above(l, p)
           /\ \A p : Kids(k, p) = Kids(l, p) /\ Fam(k, p) = Fam(l, p)
<1> DEFINE T == {p \in Pids : Above(k, p) = Above(l, p)}
<1>0. Listed(l) \subseteq Pids
  BY ListedIs
<1>1. ASSUME NEW p \in Pids, \A q \in Pids : q < p => q \in T PROVE p \in T
  <2>1. Above(l, p) = IF l.ent[p].ppid \notin Listed(l) THEN {}
                      ELSE {l.ent[p].ppid} \cup Above(l, l.ent[p].ppid)
    BY AboveIs
  <2>2. Above(k, p) = IF k.ent[p].ppid \notin Listed(k) THEN {}
                      ELSE {k.ent[p].ppid} \cup Above(k, k.ent[p].ppid)
    BY AboveIs
  <2>3. k.ent[p].ppid = l.ent[p].ppid
    OBVIOUS
  <2>4. l.ent[p].ppid \in Listed(l) => l.ent[p].ppid \in Pids /\ l.ent[p].ppid < p
    BY <1>0, ParentLower
  <2>5. l.ent[p].ppid \in Listed(l) => Above(k, l.ent[p].ppid) = Above(l, l.ent[p].ppid)
    BY <1>1, <2>4
  <2>6. Above(k, p) = Above(l, p)
    BY <2>1, <2>2, <2>3, <2>5
  <2> QED
    BY <2>6
<1>2. Pids \subseteq T
  <2> HIDE DEF T
  <2> QED
    BY <1>1, UpInduct
<1>3. \A p \in Pids : Above(k, p) = Above(l, p)
  BY <1>2
<1>4. \A p : Kids(k, p) = Kids(l, p)
  BY <1>0 DEF Kids
<1>5. \A p : Fam(k, p) = Fam(l, p)
  BY <1>0, <1>3 DEF Fam
<1> QED
  BY <1>3, <1>4, <1>5

LEMMA SameTree ==
    ASSUME NEW l, Family(l), NEW k, Family(k), Listed(k) = Listed(l),
           \A p \in Pids : k.ent[p].ppid = l.ent[p].ppid
    PROVE  Roots(k) = Roots(l) /\ Visited(k) = Visited(l)
<1>0. Listed(l) \subseteq Pids /\ Sound(l) /\ Sound(k)
  BY ListedIs DEF Family
<1>1. Roots(k) = Roots(l)
  BY <1>0, RootsAre
<1>2. \A p \in Pids : Above(k, p) = Above(l, p)
  BY <1>0, SameFamilies
<1> QED
  BY <1>0, <1>1, <1>2 DEF Visited
-----------------------------------------------------------------------------
(* tree_sort().                                                            *)

Ones(l) == [p \in Pids |-> IF l.ent[p].filt THEN 0 ELSE 1]
RowsOf(l) == Accumulated(Ones(l), [p \in Pids |-> Kids(l, p)])
SiblingKey(l, m) ==
    IF m.o.by = "pid" \/ (m.paused /\ ~m.resort) THEN [p \in Pids |-> 0] ELSE SortKey(l.ent, m.o)
Elders(l, m, p) ==
    {q \in Kids(l, l.ent[p].ppid) : <<q, p>> \in Earlier(l.order, SiblingKey(l, m))}

\* next[p] is the number p gets if it is shown.
Numbers(l, m, next) ==
    /\ next \in [Pids -> Nat]
    /\ \A p \in Pids : next[p] = Sum(RowsOf(l), Elders(l, m, p)) +
                         IF p \in Roots(l) \/ l.ent[p].ppid \notin Pids THEN 0
                         ELSE next[l.ent[p].ppid] + Ones(l)[l.ent[p].ppid]

LEMMA RowsAre ==
    ASSUME NEW l, Sound(l)
    PROVE  /\ \A p \in Pids : Ones(l)[p] = IF l.ent[p].filt THEN 0 ELSE 1
           /\ RowsOf(l) \in [Pids -> Nat]
           /\ \A p \in Pids : RowsOf(l)[p] = Ones(l)[p] + Sum(RowsOf(l), Kids(l, p))
           /\ \A p \in Listed(l) : RowsOf(l)[p] = Sum(Ones(l), Fam(l, p))
<1> DEFINE K == [p \in Pids |-> Kids(l, p)]
<1>0. Listed(l) \subseteq Pids
  BY ListedIs
<1>1. \A p \in Pids : Ones(l)[p] = IF l.ent[p].filt THEN 0 ELSE 1
  BY DEF Ones
<1>2. \A p \in Pids : Ones(l)[p] \in Nat
  BY <1>1
<1>3. K \in [Pids -> SUBSET Pids] /\ \A p \in Pids : K[p] = Kids(l, p)
  BY <1>0 DEF Kids
<1>4. \A p \in Pids : \A k \in K[p] : p < k
  <2> SUFFICES ASSUME NEW p \in Pids, NEW k \in Kids(l, p) PROVE p < k
    OBVIOUS
  <2>1. k \in Pids /\ l.ent[k].ppid = p
    BY <1>0 DEF Kids
  <2> QED
    BY <2>1, ParentLower
<1>5. \A p \in Listed(l) : K[p] = Kids(l, p) /\ Kids(l, p) \subseteq Listed(l)
  BY <1>0, <1>3 DEF Kids
<1>6. RowsOf(l) = Accumulated(Ones(l), K)
  BY DEF RowsOf
<1> HIDE DEF K
<1>7. /\ Accumulated(Ones(l), K) \in [Pids -> Nat]
      /\ \A p \in Pids :
           Accumulated(Ones(l), K)[p] = Ones(l)[p] + Sum(Accumulated(Ones(l), K), K[p])
  BY <1>2, <1>3, <1>4, AccumulatedIs
<1>8. \A p \in Listed(l) : Accumulated(Ones(l), K)[p] = Sum(Ones(l), Fam(l, p))
  BY <1>2, <1>3, <1>4, <1>5, FamSum
<1>9. \A p \in Pids : RowsOf(l)[p] = Ones(l)[p] + Sum(RowsOf(l), Kids(l, p))
  BY <1>3, <1>6, <1>7
<1> QED
  BY <1>1, <1>6, <1>7, <1>8, <1>9

LEMMA SiblingKeyInt ==
    ASSUME NEW l, Sound(l), NEW m \in Modes
    PROVE  \A p \in Pids : SiblingKey(l, m)[p] \in Int
<1>1. m.o \in Orders
  BY DEF Modes
<1>2. \A p \in Pids : SortKey(l.ent, m.o)[p] \in Int
  BY <1>1, SortKeyInt
<1> QED
  BY <1>2 DEF SiblingKey

\* The elder siblings, in the sense of a strict total order.
LEMMA EldersAre ==
    ASSUME NEW l, Sound(l), NEW m \in Modes
    PROVE  /\ StrictOrder(Listed(l), Earlier(l.order, SiblingKey(l, m)))
           /\ \A p \in Pids : /\ Elders(l, m, p) \subseteq Listed(l) /\ IsFiniteSet(Elders(l, m, p))
                              /\ Sum(RowsOf(l), Elders(l, m, p)) \in Nat
<1>0. Listed(l) \subseteq Pids /\ IsFiniteSet(Listed(l)) /\ l.order \in Seq(Pids) /\ IsInjective(l.order)
  BY ListedIs DEF Sound, Lists
<1>1. StrictOrder(Listed(l), Earlier(l.order, SiblingKey(l, m)))
  BY <1>0, SiblingKeyInt, EarlierOrder DEF Listed
<1>2. ASSUME NEW p \in Pids
      PROVE  /\ Elders(l, m, p) \subseteq Listed(l) /\ IsFiniteSet(Elders(l, m, p))
             /\ Sum(RowsOf(l), Elders(l, m, p)) \in Nat
  <2>1. Elders(l, m, p) \subseteq Listed(l)
    BY DEF Elders, Kids
  <2>2. IsFiniteSet(Elders(l, m, p))
    BY <1>0, <2>1, FS_Subset
  <2>3. \A q \in Elders(l, m, p) : RowsOf(l)[q] \in Nat
    BY <1>0, <2>1, RowsAre
  <2> QED
    BY <2>1, <2>2, <2>3, SumNat
<1> QED
  BY <1>1, <1>2

LEMMA NextIs ==
    ASSUME NEW l, Family(l), NEW m \in Modes, NEW next, Numbers(l, m, next)
    PROVE  /\ \A p \in Pids : /\ next[p] \in Nat /\ RowsOf(l)[p] \in Nat /\ Ones(l)[p] \in {0, 1}
                              /\ RowsOf(l)[p] >= Ones(l)[p]
           /\ \A p \in Listed(l) : l.ent[p].ppid = None =>
                next[p] = Sum(RowsOf(l), Elders(l, m, p))
           /\ \A p \in Listed(l) : l.ent[p].ppid \in Pids =>
                next[p] = Sum(RowsOf(l), Elders(l, m, p)) +
                            (next[l.ent[p].ppid] + Ones(l)[l.ent[p].ppid])
<1>0. Sound(l) /\ Listed(l) \subseteq Pids /\ None \notin Pids
  BY ListedIs, PidsAre DEF Family
<1>1. \A p \in Pids : next[p] \in Nat /\ RowsOf(l)[p] \in Nat /\ Ones(l)[p] \in {0, 1}
  BY <1>0, RowsAre DEF Numbers
<1>2. ASSUME NEW p \in Pids PROVE RowsOf(l)[p] >= Ones(l)[p]
  <2>1. RowsOf(l)[p] = Ones(l)[p] + Sum(RowsOf(l), Kids(l, p))
    BY <1>0, RowsAre
  <2>2. IsFiniteSet(Kids(l, p)) /\ Kids(l, p) \subseteq Pids
    <3>1. Kids(l, p) \subseteq Listed(l) /\ IsFiniteSet(Listed(l))
      BY <1>0, ListedIs DEF Kids
    <3> QED
      BY <1>0, <3>1, FS_Subset
  <2>3. Sum(RowsOf(l), Kids(l, p)) \in Nat
    BY <1>1, <2>2, SumNat
  <2> QED
    BY <1>1, <2>1, <2>3
<1>3. \A p \in Listed(l) : p \in Roots(l) <=> l.ent[p].ppid = None
  BY RootsAre
<1>4. \A p \in Listed(l) : l.ent[p].ppid = None => next[p] = Sum(RowsOf(l), Elders(l, m, p))
  <2> SUFFICES ASSUME NEW p \in Listed(l), l.ent[p].ppid = None
               PROVE  next[p] = Sum(RowsOf(l), Elders(l, m, p))
    OBVIOUS
  <2>1. next[p] = Sum(RowsOf(l), Elders(l, m, p)) + 0
    BY <1>0, <1>3 DEF Numbers
  <2>2. Sum(RowsOf(l), Elders(l, m, p)) \in Nat
    BY <1>0, EldersAre
  <2> QED
    BY <2>1, <2>2
<1>5. \A p \in Listed(l) : l.ent[p].ppid \in Pids =>
        next[p] = Sum(RowsOf(l), Elders(l, m, p)) +
                    (next[l.ent[p].ppid] + Ones(l)[l.ent[p].ppid])
  BY <1>0, <1>3 DEF Numbers
<1> QED
  BY <1>1, <1>2, <1>4, <1>5

LEMMA SiblingSpan ==
    ASSUME NEW l, Family(l), NEW m \in Modes, NEW next, Numbers(l, m, next),
           NEW a \in Listed(l), NEW b \in Listed(l), l.ent[a].ppid = l.ent[b].ppid,
           <<a, b>> \in Earlier(l.order, SiblingKey(l, m))
    PROVE  next[a] + RowsOf(l)[a] <= next[b]
<1> DEFINE A == Elders(l, m, a)
           B == Elders(l, m, b)
           R == Earlier(l.order, SiblingKey(l, m))
           f == RowsOf(l)
<1>0. Sound(l) /\ Listed(l) \subseteq Pids /\ a \in Pids /\ b \in Pids
  BY ListedIs DEF Family
<1>1. StrictOrder(Listed(l), R)
  BY <1>0, EldersAre
<1>2. A \subseteq Listed(l) /\ IsFiniteSet(A) /\ B \subseteq Listed(l) /\ IsFiniteSet(B)
  BY <1>0, EldersAre
<1>3. a \notin A
  BY <1>1 DEF StrictOrder, Elders
<1>4. A \cup {a} \subseteq B
  <2>1. a \in B
    BY DEF Elders, Kids
  <2>2. ASSUME NEW x \in A PROVE x \in B
    <3>1. x \in Listed(l) /\ x \in Kids(l, l.ent[b].ppid) /\ <<x, a>> \in R
      BY <1>2 DEF Elders
    <3>2. <<x, b>> \in R
      BY <1>1, <3>1 DEF StrictOrder
    <3> QED
      BY <3>1, <3>2 DEF Elders
  <2> QED
    BY <2>1, <2>2
<1>5. \A x \in B : f[x] \in Nat
  BY <1>0, <1>2, NextIs
<1> HIDE DEF A, B, f
<1>6. Sum(f, A \cup {a}) = Sum(f, A) + f[a] /\ Sum(f, A) \in Nat
  <2>1. \A x \in A \cup {a} : f[x] \in Nat
    BY <1>4, <1>5
  <2> QED
    BY <1>2, <1>3, <2>1, SumAdd
<1>7. Sum(f, A \cup {a}) <= Sum(f, B) /\ Sum(f, B) \in Nat
  BY <1>2, <1>4, <1>5, SumPart
<1>8. f[a] \in Nat
  BY <1>4, <1>5
<1>9. CASE l.ent[b].ppid = None
  <2>1. next[a] = Sum(f, A) /\ next[b] = Sum(f, B)
    BY <1>0, <1>9, NextIs DEF f, A, B
  <2> QED
    BY <1>6, <1>7, <1>8, <2>1 DEF f
<1>10. CASE l.ent[b].ppid # None
  <2> DEFINE u == l.ent[b].ppid
  <2>1. u \in Pids
    BY <1>0, <1>10, ParentLower
  <2>2. next[u] \in Nat /\ Ones(l)[u] \in Nat
    BY <2>1, NextIs
  <2>3. next[a] = Sum(f, A) + (next[u] + Ones(l)[u]) /\ next[b] = Sum(f, B) + (next[u] + Ones(l)[u])
    BY <1>0, <2>1, NextIs DEF f, A, B
  <2> HIDE DEF u
  <2> QED
    BY <1>6, <1>7, <1>8, <2>2, <2>3 DEF f
<1> QED
  BY <1>9, <1>10

LEMMA ChildSpan ==
    ASSUME NEW l, Family(l), NEW m \in Modes, NEW next, Numbers(l, m, next),
           NEW p \in Listed(l), NEW c \in Kids(l, p)
    PROVE  /\ next[p] + Ones(l)[p] <= next[c]
           /\ next[c] + RowsOf(l)[c] <= next[p] + RowsOf(l)[p]
<1> DEFINE A == Elders(l, m, c)
           B == Kids(l, p)
           R == Earlier(l.order, SiblingKey(l, m))
           f == RowsOf(l)
<1>0. /\ Sound(l) /\ Listed(l) \subseteq Pids /\ IsFiniteSet(Listed(l)) /\ p \in Pids /\ c \in Pids
      /\ c \in Listed(l) /\ l.ent[c].ppid = p
  BY ListedIs DEF Family, Kids
<1>1. StrictOrder(Listed(l), R)
  BY <1>0, EldersAre
<1>2. A \subseteq Listed(l) /\ IsFiniteSet(A) /\ Sum(f, A) \in Nat
  BY <1>0, EldersAre
<1>3. c \notin A
  BY <1>0, <1>1 DEF StrictOrder, Elders
<1>4. A \cup {c} \subseteq B /\ B \subseteq Listed(l)
  BY <1>0 DEF Elders, Kids
<1>5. IsFiniteSet(B) /\ \A x \in B : f[x] \in Nat
  BY <1>0, <1>4, FS_Subset, NextIs
<1>6. next[c] = Sum(f, A) + (next[p] + Ones(l)[p])
  BY <1>0, NextIs
<1>7. f[p] = Ones(l)[p] + Sum(f, B)
  BY <1>0, RowsAre
<1> HIDE DEF A, B, f
<1>8. Sum(f, A \cup {c}) = Sum(f, A) + f[c]
  <2>1. \A x \in A \cup {c} : f[x] \in Nat
    BY <1>4, <1>5
  <2> QED
    BY <1>2, <1>3, <2>1, SumAdd
<1>9. Sum(f, A \cup {c}) <= Sum(f, B) /\ Sum(f, B) \in Nat
  BY <1>4, <1>5, SumPart
<1>10. f[c] \in Nat /\ next[p] \in Nat /\ Ones(l)[p] \in Nat
  BY <1>0, NextIs DEF f
<1> QED
  BY <1>2, <1>6, <1>7, <1>8, <1>9, <1>10 DEF f

LEMMA DownSpan ==
    ASSUME NEW l, Family(l), NEW m \in Modes, NEW next, Numbers(l, m, next),
           NEW p \in Listed(l), NEW x \in Fam(l, p)
    PROVE  /\ next[x] + RowsOf(l)[x] <= next[p] + RowsOf(l)[p]
           /\ next[p] <= next[x]
           /\ x # p => next[p] + Ones(l)[p] <= next[x]
<1> DEFINE Goal(y) == /\ next[y] + RowsOf(l)[y] <= next[p] + RowsOf(l)[p]
                      /\ next[p] <= next[y]
                      /\ y # p => next[p] + Ones(l)[p] <= next[y]
           T == {y \in Pids : y \in Fam(l, p) => Goal(y)}
<1>0. Sound(l) /\ Listed(l) \subseteq Pids /\ p \in Pids
  BY ListedIs DEF Family
<1>1. \A q \in Pids : next[q] \in Nat /\ RowsOf(l)[q] \in Nat /\ Ones(l)[q] \in Nat
  BY NextIs
<1>2. ASSUME NEW y \in Pids, \A q \in Pids : q < y => q \in T PROVE y \in T
  <2> SUFFICES ASSUME y \in Fam(l, p) PROVE Goal(y)
    OBVIOUS
  <2>1. CASE y = p
    BY <1>1, <2>1
  <2>2. CASE y # p
    <3> DEFINE u == l.ent[y].ppid
    <3>1. y \in Listed(l)
      BY DEF Fam
    <3>2. u \in Fam(l, p)
      BY <1>0, <2>2, <3>1, FamUp
    <3>3. u \in Listed(l) /\ u \in Pids /\ u < y
      BY <1>0, <3>2, ParentLower DEF Fam
    <3>4. y \in Kids(l, u)
      BY <3>1 DEF Kids
    <3> HIDE DEF u
    <3>5. /\ next[u] + Ones(l)[u] <= next[y]
          /\ next[y] + RowsOf(l)[y] <= next[u] + RowsOf(l)[u]
      BY <3>3, <3>4, ChildSpan
    <3>6. Goal(u)
      <4>1. u \in T
        BY <1>2, <3>3
      <4> HIDE DEF Goal
      <4> QED
        BY <3>2, <4>1
    <3>7. /\ next[u] \in Nat /\ RowsOf(l)[u] \in Nat /\ Ones(l)[u] \in Nat /\ next[y] \in Nat
          /\ RowsOf(l)[y] \in Nat /\ next[p] \in Nat /\ RowsOf(l)[p] \in Nat /\ Ones(l)[p] \in Nat
      BY <1>0, <1>1, <3>3
    <3> QED
      BY <3>5, <3>6, <3>7
  <2> QED
    BY <2>1, <2>2
<1>3. Pids \subseteq T
  <2> HIDE DEF T
  <2> QED
    BY <1>2, UpInduct
<1>4. x \in Pids
  BY <1>0 DEF Fam
<1> HIDE DEF Goal
<1>5. Goal(x)
  BY <1>3, <1>4
<1> QED
  BY <1>5 DEF Goal

\* The visited are the families of the roots; their numbers stay within the list.
LEMMA VisitedFam ==
    ASSUME NEW l, Family(l)
    PROVE  /\ \A p \in Visited(l) : \E r \in Roots(l) : p \in Fam(l, r)
           /\ Visited(l) = UNION {Fam(l, r) : r \in Roots(l)}
  BY DEF Visited, Fam

LEMMA RootSpan ==
    ASSUME NEW l, Family(l), NEW m \in Modes, NEW next, Numbers(l, m, next),
           NEW r \in Roots(l)
    PROVE  next[r] + RowsOf(l)[r] <= Len(l.order)
<1> DEFINE A == Elders(l, m, r)
           B == Roots(l)
           R == Earlier(l.order, SiblingKey(l, m))
           f == RowsOf(l)
           one == Ones(l)
           V == Visited(l)
<1>0. /\ Sound(l) /\ Listed(l) \subseteq Pids /\ IsFiniteSet(Listed(l))
      /\ Cardinality(Listed(l)) = Len(l.order) /\ Len(l.order) \in Nat
  BY ListedIs DEF Family
<1>1. r \in Listed(l) /\ r \in Pids /\ l.ent[r].ppid = None /\ B \subseteq Listed(l)
  BY <1>0, RootsAre
<1>2. StrictOrder(Listed(l), R)
  BY <1>0, EldersAre
<1>3. A \subseteq Listed(l) /\ IsFiniteSet(A) /\ Sum(f, A) \in Nat
  BY <1>0, <1>1, EldersAre
<1>4. r \notin A
  BY <1>1, <1>2 DEF StrictOrder, Elders
<1>5. A \cup {r} \subseteq B
  BY <1>1, RootsAre DEF Elders, Kids
<1>6. IsFiniteSet(B) /\ \A x \in B : f[x] \in Nat
  BY <1>0, <1>1, FS_Subset, NextIs
<1>7. next[r] = Sum(f, A)
  BY <1>1, NextIs
<1>8. V \subseteq Listed(l) /\ IsFiniteSet(V)
  <2>1. V \subseteq Listed(l)
    BY DEF Visited
  <2> QED
    BY <1>0, <2>1, FS_Subset
<1>9. V = UNION {Fam(l, k) : k \in B}
  BY VisitedFam
<1>10. \A k \in B : f[k] = Sum(one, Fam(l, k))
  BY <1>0, <1>1, RowsAre
<1>11. \A p \in Pids : one[p] \in {0, 1}
  BY NextIs
<1>12. \A k \in B : Fam(l, k) \subseteq Listed(l) /\ IsFiniteSet(Fam(l, k))
  <2>1. \A k \in B : Fam(l, k) \subseteq Listed(l)
    BY DEF Fam
  <2> QED
    BY <1>0, <2>1, FS_Subset
<1>13. \A j, k \in B : j # k => Fam(l, j) \cap Fam(l, k) = {}
  <2>1. \A j \in B : j \in Listed(l) /\ l.ent[j].ppid = None
    BY RootsAre
  <2> QED
    BY <1>0, <2>1, FamDisjoint
<1> HIDE DEF A, B, f, one, V
<1>14. Sum(f, A \cup {r}) = Sum(f, A) + f[r]
  <2>1. \A x \in A \cup {r} : f[x] \in Nat
    BY <1>5, <1>6
  <2> QED
    BY <1>3, <1>4, <2>1, SumAdd
<1>15. Sum(f, A \cup {r}) <= Sum(f, B) /\ Sum(f, B) \in Nat
  BY <1>5, <1>6, SumPart
<1>16. Sum(f, B) = Sum(one, V)
  <2> DEFINE F == [k \in B |-> Fam(l, k)]
  <2>1. \A k \in B : F[k] = Fam(l, k)
    OBVIOUS
  <2> HIDE DEF F
  <2>2. \A k \in B : IsFiniteSet(F[k]) /\ f[k] = Sum(one, F[k])
    BY <1>10, <1>12, <2>1
  <2>3. \A j, k \in B : j # k => F[j] \cap F[k] = {}
    BY <1>13, <2>1
  <2>4. \A k \in B : \A y \in F[k] : one[y] \in Nat
    BY <1>0, <1>11, <1>12, <2>1
  <2>5. Sum(f, B) = Sum(one, UNION {F[k] : k \in B})
    BY <1>6, <2>2, <2>3, <2>4, SumFamily
  <2>6. UNION {F[k] : k \in B} = V
    BY <1>9, <2>1
  <2> QED
    BY <2>5, <2>6
<1>17. Sum(one, V) <= Len(l.order) /\ Sum(one, V) \in Nat
  <2>1. \A y \in V : one[y] \in {0, 1}
    BY <1>0, <1>8, <1>11
  <2>2. Sum(one, V) = Cardinality({y \in V : one[y] = 1})
    BY <1>8, <2>1, SumCount
  <2>3. {y \in V : one[y] = 1} \subseteq Listed(l)
    BY <1>8
  <2>4. /\ Cardinality({y \in V : one[y] = 1}) <= Cardinality(Listed(l))
        /\ Cardinality({y \in V : one[y] = 1}) \in Nat
    BY <1>0, <2>3, FS_Subset, FS_CardinalityType
  <2> QED
    BY <1>0, <2>2, <2>4
<1>18. f[r] \in Nat
  BY <1>5, <1>6
<1> QED
  BY <1>0, <1>3, <1>7, <1>14, <1>15, <1>16, <1>17, <1>18 DEF f

LEMMA VisitedSpan ==
    ASSUME NEW l, Family(l), NEW m \in Modes, NEW next, Numbers(l, m, next)
    PROVE  \A p \in Visited(l) : next[p] + RowsOf(l)[p] <= Len(l.order)
<1> SUFFICES ASSUME NEW p \in Visited(l) PROVE next[p] + RowsOf(l)[p] <= Len(l.order)
  OBVIOUS
<1>0. Sound(l) /\ Listed(l) \subseteq Pids /\ Len(l.order) \in Nat
  BY ListedIs DEF Family
<1>1. PICK r \in Roots(l) : p \in Fam(l, r)
  BY VisitedFam
<1>2. r \in Listed(l) /\ r \in Pids /\ p \in Pids
  BY <1>0, RootsAre DEF Visited
<1>3. next[p] + RowsOf(l)[p] <= next[r] + RowsOf(l)[r]
  BY <1>1, <1>2, DownSpan
<1>4. next[r] + RowsOf(l)[r] <= Len(l.order)
  BY RootSpan
<1>5. next[p] \in Nat /\ RowsOf(l)[p] \in Nat /\ next[r] \in Nat /\ RowsOf(l)[r] \in Nat
  BY <1>2, NextIs
<1> QED
  BY <1>0, <1>3, <1>4, <1>5

\* The numbers of two families of which none holds the other lie apart.
LEMMA SiblingsApart ==
    ASSUME NEW l, Family(l), NEW m \in Modes, NEW next, Numbers(l, m, next),
           NEW a \in Listed(l), NEW b \in Listed(l), l.ent[a].ppid = l.ent[b].ppid, a # b,
           NEW x \in Fam(l, b)
    PROVE  next[a] + RowsOf(l)[a] <= next[x] \/ next[x] + RowsOf(l)[x] <= next[a]
<1>0. Sound(l) /\ Listed(l) \subseteq Pids /\ a \in Pids /\ b \in Pids /\ x \in Pids
  BY ListedIs DEF Family, Fam
<1>1. \A q \in Pids : next[q] \in Nat /\ RowsOf(l)[q] \in Nat
  BY NextIs
<1>2. next[x] + RowsOf(l)[x] <= next[b] + RowsOf(l)[b] /\ next[b] <= next[x]
  BY DownSpan
<1>3. \/ <<a, b>> \in Earlier(l.order, SiblingKey(l, m))
      \/ <<b, a>> \in Earlier(l.order, SiblingKey(l, m))
  BY <1>0, EldersAre DEF StrictOrder
<1>4. next[a] + RowsOf(l)[a] <= next[b] \/ next[b] + RowsOf(l)[b] <= next[a]
  BY <1>3, SiblingSpan
<1>5. /\ next[a] \in Nat /\ next[b] \in Nat /\ next[x] \in Nat
      /\ RowsOf(l)[a] \in Nat /\ RowsOf(l)[b] \in Nat /\ RowsOf(l)[x] \in Nat
  BY <1>0, <1>1
<1> QED
  BY <1>2, <1>4, <1>5

LEMMA FamiliesApart ==
    ASSUME NEW l, Family(l), NEW m \in Modes, NEW next, Numbers(l, m, next),
           NEW x \in Visited(l), NEW p \in Visited(l), x \notin Fam(l, p), x \notin Above(l, p)
    PROVE  next[p] + RowsOf(l)[p] <= next[x] \/ next[x] + RowsOf(l)[x] <= next[p]
<1> DEFINE Apart(y) == next[y] + RowsOf(l)[y] <= next[x] \/ next[x] + RowsOf(l)[x] <= next[y]
           T == {y \in Pids : y \in Visited(l) /\ x \notin Fam(l, y) /\ x \notin Above(l, y) => Apart(y)}
<1>0. /\ Sound(l) /\ Listed(l) \subseteq Pids /\ Visited(l) \subseteq Listed(l)
      /\ x \in Pids /\ p \in Pids /\ x \in Listed(l)
  BY ListedIs DEF Family, Visited
<1>1. \A q \in Pids : next[q] \in Nat /\ RowsOf(l)[q] \in Nat
  BY NextIs
<1>2. ASSUME NEW y \in Pids, \A q \in Pids : q < y => q \in T PROVE y \in T
  <2> SUFFICES ASSUME y \in Visited(l), x \notin Fam(l, y), x \notin Above(l, y) PROVE Apart(y)
    OBVIOUS
  <2>1. CASE y \in Roots(l)
    <3>1. PICK r \in Roots(l) : x \in Fam(l, r)
      BY VisitedFam
    <3>2. r \in Listed(l) /\ y \in Listed(l) /\ l.ent[r].ppid = l.ent[y].ppid /\ r # y
      BY <2>1, <3>1, RootsAre
    <3> QED
      BY <3>1, <3>2, SiblingsApart
  <2>2. CASE y \notin Roots(l)
    <3> DEFINE u == l.ent[y].ppid
    <3>1. /\ u \in Visited(l) /\ u \in Listed(l) /\ u < y /\ u \in Pids
          /\ Above(l, y) = {u} \cup Above(l, u)
      BY <2>2, VisitedUp
    <3>2. y \in Listed(l) /\ y \in Kids(l, u)
      BY <1>0 DEF Kids
    <3>3. CASE x \in Fam(l, u)
      <4>1. x # u
        BY <3>1
      <4>2. PICK k \in Kids(l, u) : x \in Fam(l, k)
        BY <1>0, <3>1, <3>3, <4>1, FamSplit
      <4>3. k \in Listed(l) /\ l.ent[k].ppid = l.ent[y].ppid /\ k # y
        BY <4>2 DEF Kids
      <4> QED
        BY <3>2, <4>2, <4>3, SiblingsApart
    <3>4. CASE x \notin Fam(l, u)
      <4>1. x \notin Above(l, u)
        BY <3>1
      <4>2. Apart(u)
        <5>1. u \in T
          BY <1>2, <3>1
        <5> HIDE DEF Apart
        <5> QED
          BY <3>1, <3>4, <4>1, <5>1
      <4>3. /\ next[u] + Ones(l)[u] <= next[y]
            /\ next[y] + RowsOf(l)[y] <= next[u] + RowsOf(l)[u]
        BY <3>1, <3>2, ChildSpan
      <4>4. /\ next[u] \in Nat /\ next[y] \in Nat /\ next[x] \in Nat /\ RowsOf(l)[x] \in Nat
            /\ RowsOf(l)[u] \in Nat /\ RowsOf(l)[y] \in Nat /\ Ones(l)[u] \in Nat
        BY <1>0, <1>1, <3>1, NextIs
      <4> HIDE DEF u
      <4> QED
        BY <4>2, <4>3, <4>4
    <3> QED
      BY <3>3, <3>4
  <2> QED
    BY <2>1, <2>2
<1>3. Pids \subseteq T
  <2> HIDE DEF T
  <2> QED
    BY <1>2, UpInduct
<1> HIDE DEF Apart
<1>4. Apart(p)
  BY <1>0, <1>3
<1> QED
  BY <1>4 DEF Apart

LEMMA NumberedIs ==
    ASSUME NEW l, Family(l), NEW m \in Modes
    PROVE  LET k == Numbered(l, m) IN
           /\ Sound(k) /\ Kept(k, l) /\ k.order = l.order /\ k.op = l.op /\ k.hidden = l.hidden
           /\ Listed(k) = Listed(l)
           /\ \A p \in Pids : /\ k.ent[p].ppid = l.ent[p].ppid /\ k.ent[p].coll = l.ent[p].coll
                              /\ k.ent[p].use = l.ent[p].use /\ k.ent[p].filt = l.ent[p].filt
                              /\ k.ent[p].dead = l.ent[p].dead
           /\ \A p \in Pids \ Visited(l) : k.ent[p] = l.ent[p]
           /\ \E next : /\ Numbers(l, m, next)
                        /\ \A p \in Visited(l) : ~l.ent[p].filt => k.ent[p].idx = next[p]
<1> DEFINE k == Numbered(l, m)
           key     == IF m.o.by = "pid" \/ (m.paused /\ ~m.resort) THEN [p \in Pids |-> 0]
                      ELSE SortKey(l.ent, m.o)
           one     == [p \in Pids |-> IF l.ent[p].filt THEN 0 ELSE 1]
           rows    == Accumulated(one, [p \in Pids |-> Kids(l, p)])
           Elder(p) == {q \in Kids(l, l.ent[p].ppid) : <<q, p>> \in Earlier(l.order, key)}
           Step(number) == [p \in Pids |->
             LET q     == l.ent[p].ppid
                 root  == p \in Roots(l) \/ q \notin Pids
                 next  == Sum(rows, Elder(p)) + IF root THEN 0 ELSE number[q].next + one[q]
                 max   == IF root THEN Len(l.order)
                          ELSE IF l.ent[q].coll \/ number[q].idx = number[q].max THEN 1 ELSE 0
             IN [next |-> next, max |-> max, idx |-> IF l.ent[p].filt THEN max ELSE next]]
           number == CHOOSE h : h = Step(h)
           visited == Visited(l)
           f == [p \in Pids |-> IF p \in visited
                                  THEN [l.ent[p] EXCEPT !.idx = number[p].idx]
                                  ELSE l.ent[p]]
           V == [next : Nat, max : Nat, idx : Nat]
           R == {p \in Pids : p \in Roots(l) \/ l.ent[p].ppid \notin Pids}
           par == [p \in Pids |-> l.ent[p].ppid]
           S(p) == Sum(RowsOf(l), Elders(l, m, p))
           E(p, n, x) == [next |-> n, max |-> x, idx |-> IF l.ent[p].filt THEN x ELSE n]
           base == [p \in Pids |-> E(p, S(p) + 0, Len(l.order))]
           After(p, q, v) == E(p, S(p) + (v.next + Ones(l)[q]),
                               IF l.ent[q].coll \/ v.idx = v.max THEN 1 ELSE 0)
           step == [pv \in Pids \X V |-> IF pv[1] \in R THEN base[pv[1]]
                                         ELSE After(pv[1], par[pv[1]], pv[2])]
<1>0. /\ Sound(l) /\ Listed(l) \subseteq Pids /\ Visited(l) \subseteq Listed(l)
      /\ Len(l.order) \in Nat /\ Len(l.order) \in 0..Cardinality(Pids) /\ Cardinality(Pids) \in Nat
  BY ListedIs, PidsAre DEF Family, Visited
<1>1. k = [l EXCEPT !.ent = f]
  BY DEF Numbered
<1>2. key = SiblingKey(l, m) /\ one = Ones(l) /\ rows = RowsOf(l)
  BY DEF SiblingKey, Ones, RowsOf
<1>3. \A p : Elder(p) = Elders(l, m, p)
  BY <1>2 DEF Elders
<1> HIDE DEF key, one, rows, Elder
<1>4. \A p \in Pids : S(p) \in Nat
  BY <1>0, EldersAre
<1>5. \A p \in Pids : Ones(l)[p] \in Nat
  BY <1>0, RowsAre
<1>6. \A p \in Pids \ R : par[p] \in Pids /\ par[p] < p /\ par[p] = l.ent[p].ppid
  BY <1>0, ParentLower
<1> HIDE DEF S
<1>7. \A p, n, x : /\ E(p, n, x).next = n /\ E(p, n, x).max = x
                   /\ E(p, n, x).idx = IF l.ent[p].filt THEN x ELSE n
  OBVIOUS
<1>8. \A p, n, x : n \in Nat /\ x \in Nat => E(p, n, x) \in V
  OBVIOUS
<1> HIDE DEF E
<1>9. base \in [Pids -> V] /\ \A p \in Pids : base[p] = E(p, S(p) + 0, Len(l.order))
  BY <1>0, <1>4, <1>8
<1> HIDE DEF base
<1>10. \A p, q \in Pids, v \in V : After(p, q, v) \in V
  <2> SUFFICES ASSUME NEW p \in Pids, NEW q \in Pids, NEW v \in V PROVE After(p, q, v) \in V
    OBVIOUS
  <2>1. S(p) + (v.next + Ones(l)[q]) \in Nat
    BY <1>4, <1>5
  <2>2. (IF l.ent[q].coll \/ v.idx = v.max THEN 1 ELSE 0) \in Nat
    OBVIOUS
  <2> QED
    BY <1>8, <2>1, <2>2
<1> HIDE DEF After
<1>11. step \in [Pids \X V -> V]
  <2>1. ASSUME NEW p \in Pids, NEW v \in V
        PROVE  (IF p \in R THEN base[p] ELSE After(p, par[p], v)) \in V
    <3> HIDE DEF V, R, par
    <3> QED
      BY <1>6, <1>9, <1>10
  <2> HIDE DEF V, R, par
  <2> QED
    BY <2>1
<1>12. \A p \in Pids \ R, v \in V : step[<<p, v>>] = After(p, par[p], v)
  <2> HIDE DEF V, R, par
  <2> QED
    OBVIOUS
<1> HIDE DEF step
<1>13. PICK g \in [Pids -> V] : Descends(g, R, par, base, step)
  <2>1. Upward(par, R)
    <3> HIDE DEF R, par
    <3> QED
      BY <1>6 DEF Upward
  <2> HIDE DEF V, R, par
  <2> QED
    BY <1>9, <1>11, <2>1, TopDown
<1>14. \A p \in Pids : g[p] = IF p \in R THEN base[p] ELSE After(p, l.ent[p].ppid, g[l.ent[p].ppid])
  <2> SUFFICES ASSUME NEW p \in Pids
               PROVE g[p] = IF p \in R THEN base[p] ELSE After(p, l.ent[p].ppid, g[l.ent[p].ppid])
    OBVIOUS
  <2> HIDE DEF V, R, par
  <2>1. CASE p \in R
    BY <1>13, <2>1 DEF Descends
  <2>2. CASE p \notin R
    <3>1. par[p] \in Pids /\ par[p] = l.ent[p].ppid
      BY <1>6, <2>2
    <3>2. g[par[p]] \in V /\ g[p] = step[<<p, g[par[p]]>>]
      BY <1>13, <2>2, <3>1 DEF Descends
    <3>3. g[p] = After(p, par[p], g[par[p]])
      BY <1>12, <2>2, <3>2
    <3> QED
      BY <2>2, <3>1, <3>3
  <2> QED
    BY <2>1, <2>2
<1>14a. ASSUME NEW h
       PROVE  DOMAIN Step(h) = Pids /\ Step(h) = [p \in DOMAIN Step(h) |-> Step(h)[p]]
  OBVIOUS
<1>15. ASSUME NEW h, NEW p \in Pids
       PROVE  Step(h)[p] = IF p \in R THEN base[p]
                           ELSE After(p, l.ent[p].ppid, h[l.ent[p].ppid])
  <2>1. Sum(rows, Elder(p)) = S(p) /\ one = Ones(l)
    BY <1>2, <1>3 DEF S
  <2>2. CASE p \in R
    <3>1. p \in Roots(l) \/ l.ent[p].ppid \notin Pids
      BY <2>2
    <3> HIDE DEF R
    <3>2. Step(h)[p] = E(p, S(p) + 0, Len(l.order))
      BY <2>1, <3>1 DEF E
    <3> HIDE DEF Step
    <3> QED
      BY <1>9, <2>2, <3>2
  <2>3. CASE p \notin R
    <3>1. ~(p \in Roots(l) \/ l.ent[p].ppid \notin Pids)
      BY <2>3
    <3> HIDE DEF R
    <3>2. Step(h)[p] = After(p, l.ent[p].ppid, h[l.ent[p].ppid])
      BY <2>1, <3>1 DEF After, E
    <3> HIDE DEF Step
    <3> QED
      BY <2>3, <3>2
  <2> QED
    BY <2>2, <2>3
<1> HIDE DEF Step
<1>16. g = Step(g)
  <2> HIDE DEF R, V
  <2>1. g = [p \in Pids |-> g[p]]
    BY <1>13
  <2>2. \A p \in Pids : g[p] = Step(g)[p]
    BY <1>14, <1>15
  <2>3. DOMAIN Step(g) = Pids /\ Step(g) = [p \in DOMAIN Step(g) |-> Step(g)[p]]
    BY <1>14a
  <2> QED
    BY <2>1, <2>2, <2>3
<1>17. number = Step(number)
  BY <1>16
<1> HIDE DEF number
<1>18. \A p \in Pids : number[p] = IF p \in R THEN base[p]
                                  ELSE After(p, l.ent[p].ppid, number[l.ent[p].ppid])
  <2> HIDE DEF R
  <2>1. \A p \in Pids : Step(number)[p] = IF p \in R THEN base[p]
                                 ELSE After(p, l.ent[p].ppid, number[l.ent[p].ppid])
    BY <1>15
  <2> QED
    BY <1>17, <2>1
<1>19. \A p \in Pids : number[p] \in V
  <2> DEFINE T == {p \in Pids : number[p] \in V}
  <2>1. ASSUME NEW p \in Pids, \A q \in Pids : q < p => q \in T PROVE p \in T
    <3>1. CASE p \in R
      <4> HIDE DEF R, V
      <4> QED
        BY <1>9, <1>18, <3>1
    <3>2. CASE p \notin R
      <4>1. l.ent[p].ppid \in Pids /\ l.ent[p].ppid < p
        BY <1>0, <3>2, ParentLower
      <4> HIDE DEF R, V
      <4>2. number[l.ent[p].ppid] \in V
        BY <2>1, <4>1
      <4> QED
        BY <1>10, <1>18, <3>2, <4>1, <4>2
    <3> QED
      BY <3>1, <3>2
  <2>2. Pids \subseteq T
    <3> HIDE DEF T
    <3> QED
      BY <2>1, UpInduct
  <2> QED
    BY <2>2
<1> DEFINE next == [p \in Pids |-> number[p].next]
<1>20. \A p \in Pids : next[p] = number[p].next /\ next[p] \in Nat
  BY <1>19
<1>21. next \in [Pids -> Nat]
  BY <1>20
<1> HIDE DEF next
<1>22. \A p \in Pids : next[p] = S(p) + IF p \in Roots(l) \/ l.ent[p].ppid \notin Pids THEN 0
                                        ELSE next[l.ent[p].ppid] + Ones(l)[l.ent[p].ppid]
  <2> SUFFICES ASSUME NEW p \in Pids
               PROVE  next[p] = S(p) + IF p \in Roots(l) \/ l.ent[p].ppid \notin Pids THEN 0
                                       ELSE next[l.ent[p].ppid] + Ones(l)[l.ent[p].ppid]
    OBVIOUS
  <2>1. CASE p \in R
    <3>1. number[p] = E(p, S(p) + 0, Len(l.order))
      BY <1>9, <1>18, <2>1
    <3>2. p \in Roots(l) \/ l.ent[p].ppid \notin Pids
      BY <2>1
    <3>3. next[p] = S(p) + 0
      BY <1>7, <1>20, <3>1
    <3> QED
      BY <3>2, <3>3
  <2>2. CASE p \notin R
    <3>1. ~(p \in Roots(l) \/ l.ent[p].ppid \notin Pids) /\ l.ent[p].ppid \in Pids
      BY <2>2
    <3>2. number[p] = After(p, l.ent[p].ppid, number[l.ent[p].ppid])
      BY <1>18, <2>2
    <3>3. number[p].next = S(p) + (number[l.ent[p].ppid].next + Ones(l)[l.ent[p].ppid])
      BY <1>7, <3>2 DEF After
    <3> QED
      BY <1>20, <3>1, <3>3
  <2> QED
    BY <2>1, <2>2
<1>23. Numbers(l, m, next)
  BY <1>21, <1>22 DEF Numbers, S
<1>24. ASSUME NEW p \in Pids
       PROVE  /\ number[p].idx = IF l.ent[p].filt THEN number[p].max ELSE next[p]
              /\ number[p].max \in {Len(l.order), 0, 1}
  <2>1. CASE p \in R
    <3>1. number[p] = E(p, S(p) + 0, Len(l.order))
      BY <1>9, <1>18, <2>1
    <3> QED
      BY <1>7, <1>20, <3>1
  <2>2. CASE p \notin R
    <3> DEFINE x == IF l.ent[l.ent[p].ppid].coll \/ number[l.ent[p].ppid].idx = number[l.ent[p].ppid].max
                      THEN 1 ELSE 0
               n == S(p) + (number[l.ent[p].ppid].next + Ones(l)[l.ent[p].ppid])
    <3>1. number[p] = E(p, n, x)
      BY <1>18, <2>2 DEF After
    <3>2. x \in {0, 1}
      OBVIOUS
    <3> HIDE DEF x, n
    <3> QED
      BY <1>7, <1>20, <3>1, <3>2
  <2> QED
    BY <2>1, <2>2
<1>25. \A p \in visited : number[p].idx \in 0..Cardinality(Pids)
  <2> SUFFICES ASSUME NEW p \in visited PROVE number[p].idx \in 0..Cardinality(Pids)
    OBVIOUS
  <2>1. p \in Pids
    BY <1>0
  <2>2. next[p] + RowsOf(l)[p] <= Len(l.order)
    BY <1>23, VisitedSpan
  <2>3. next[p] \in Nat /\ RowsOf(l)[p] \in Nat
    BY <1>23, <2>1, NextIs
  <2>4. 1 <= Cardinality(Pids)
    <3>1. Cardinality(Pids) # 0
      BY PidsAre, FS_EmptySet
    <3> QED
      BY <1>0, <3>1
  <2>5. next[p] \in 0..Cardinality(Pids)
    BY <1>0, <2>2, <2>3
  <2>6. number[p].max \in 0..Cardinality(Pids)
    BY <1>0, <1>24, <2>1, <2>4
  <2> QED
    BY <1>24, <2>1, <2>5, <2>6
<1>26. \A p \in visited : f[p] = [l.ent[p] EXCEPT !.idx = number[p].idx]
  BY <1>0
<1>27. \A p \in Pids \ visited : f[p] = l.ent[p]
  OBVIOUS
<1>28. DOMAIN f = Pids /\ f = [p \in DOMAIN f |-> f[p]]
  OBVIOUS
<1> HIDE DEF f
<1>29. ASSUME NEW p \in Pids
       PROVE  /\ f[p] \in Entries /\ f[p].ppid = l.ent[p].ppid /\ f[p].coll = l.ent[p].coll
              /\ f[p].use = l.ent[p].use /\ f[p].filt = l.ent[p].filt /\ f[p].dead = l.ent[p].dead
  <2>1. l.ent[p] \in Entries
    BY <1>0, ParentLower
  <2>2. CASE p \notin visited
    BY <1>27, <2>1, <2>2
  <2>3. CASE p \in visited
    BY <1>25, <1>26, <2>1, <2>3 DEF Entries
  <2> QED
    BY <2>2, <2>3
<1>30. f \in [Pids -> Entries]
  BY <1>28, <1>29
<1>31. \A p \in Pids : f[p].ppid < p /\ f[p].dead = l.ent[p].dead
  BY <1>0, <1>29, ParentLower
<1>32. \A p \in Pids \ Listed(l) : f[p] = Blank
  BY <1>0, <1>27 DEF Sound
<1>33. Sound(k) /\ k.ent = f /\ Listed(k) = Listed(l)
  <2> DEFINE j == [l EXCEPT !.ent = f]
  <2>1. Sound(j) /\ j.ent = f /\ Listed(j) = Listed(l)
    BY <1>0, <1>30, <1>31, <1>32, EntriesKept
  <2> HIDE DEF k
  <2>2. k = j
    BY <1>1
  <2> HIDE DEF j
  <2> QED
    BY <2>1, <2>2
<1>34. Kept(k, l) /\ k.order = l.order /\ k.op = l.op /\ k.hidden = l.hidden
  <2> HIDE DEF k
  <2> QED
    BY <1>0, <1>1 DEF Sound, Lists, Kept
<1>35. \A p \in visited : ~l.ent[p].filt => k.ent[p].idx = next[p]
  <2> SUFFICES ASSUME NEW p \in visited, ~l.ent[p].filt PROVE k.ent[p].idx = next[p]
    OBVIOUS
  <2>1. l.ent[p] \in Entries /\ p \in Pids
    BY <1>0, ParentLower
  <2>2. f[p].idx = number[p].idx
    BY <1>26, <2>1 DEF Entries
  <2> QED
    BY <1>24, <1>33, <2>1, <2>2
<1> HIDE DEF k, V, R, par
<1>36. \E n : /\ Numbers(l, m, n)
              /\ \A p \in Visited(l) : ~l.ent[p].filt => k.ent[p].idx = n[p]
  BY <1>23, <1>35
<1>37. \A p \in Pids : /\ k.ent[p].ppid = l.ent[p].ppid /\ k.ent[p].coll = l.ent[p].coll
                       /\ k.ent[p].use = l.ent[p].use /\ k.ent[p].filt = l.ent[p].filt
                       /\ k.ent[p].dead = l.ent[p].dead
  BY <1>29, <1>33
<1>38. \A p \in Pids \ Visited(l) : k.ent[p] = l.ent[p]
  BY <1>27, <1>33
<1> QED
  BY <1>33, <1>34, <1>36, <1>37, <1>38 DEF k

LEMMA InOrderIs ==
    ASSUME NEW l, Sound(l)
    PROVE  LET k == InOrder(l) IN
           /\ Sound(k) /\ Kept(k, l) /\ k.ent = l.ent /\ k.hidden = l.hidden /\ k.op = l.op
           /\ Listed(k) = Listed(l) /\ Len(k.order) = Len(l.order)
           /\ \A p, q \in Listed(l) :
                <<p, q>> \in Leads(k.order) <=>
                  \/ l.ent[p].idx < l.ent[q].idx
                  \/ l.ent[p].idx = l.ent[q].idx /\ <<p, q>> \in Leads(l.order)
<1> DEFINE k == InOrder(l)
           key == [p \in Pids |-> l.ent[p].idx]
           s == StableSort(l.order, key)
<1>1. k = [l EXCEPT !.order = s]
  BY DEF InOrder
<1>2. \A p \in Pids : key[p] = l.ent[p].idx
  OBVIOUS
<1> HIDE DEF key
<1>3. \A p \in Pids : key[p] \in Int
  <2> SUFFICES ASSUME NEW p \in Pids PROVE key[p] \in Int
    OBVIOUS
  <2>1. l.ent[p].idx \in 0..Cardinality(Pids)
    BY ParentLower DEF Entries
  <2> QED
    BY <1>2, <2>1
<1>4. Line(s, Listed(l), Earlier(l.order, key))
  BY <1>3, Resorted
<1> HIDE DEF s, k
<1>5. Sound(k) /\ k.order = s /\ Listed(k) = Listed(l) /\ Len(k.order) = Len(l.order)
  BY <1>1, <1>4, OrderKept
<1>6. Kept(k, l) /\ k.ent = l.ent /\ k.hidden = l.hidden /\ k.op = l.op
  BY <1>1 DEF Sound, Lists, Kept
<1>7. ASSUME NEW p \in Listed(l), NEW q \in Listed(l)
      PROVE  <<p, q>> \in Leads(k.order) <=>
               \/ l.ent[p].idx < l.ent[q].idx
               \/ l.ent[p].idx = l.ent[q].idx /\ <<p, q>> \in Leads(l.order)
  <2>1. <<p, q>> \in Leads(s) <=> <<p, q>> \in Earlier(l.order, key)
    BY <1>4, LineLeads
  <2>2. <<p, q>> \in Earlier(l.order, key) <=>
          key[p] < key[q] \/ (key[p] = key[q] /\ <<p, q>> \in Leads(l.order))
    <3>1. p \in ToSet(l.order) /\ q \in ToSet(l.order)
      BY DEF Listed
    <3> QED
      BY <3>1, EarlierMeans
  <2>3. key[p] = l.ent[p].idx /\ key[q] = l.ent[q].idx
    BY <1>2, ListedIs
  <2> QED
    BY <1>5, <2>1, <2>2, <2>3
<1> QED
  BY <1>5, <1>6, <1>7 DEF k

LEMMA CountedIs ==
    ASSUME NEW l, Sound(l)
    PROVE  LET k == Counted(l) IN
           /\ Sound(k) /\ k.found = l.found /\ k.known = l.known /\ k.dead = l.dead
           /\ k.order = l.order /\ k.ent = l.ent /\ k.hidden = l.hidden /\ k.op = l.op
           /\ Listed(k) = Listed(l) /\ k.rows = Len(l.order) - l.hidden
<1> DEFINE k == Counted(l)
           n == Len(l.order) - l.hidden
<1>1. k = [l EXCEPT !.rows = n] /\ n \in Int
  <2>1. Len(l.order) \in Int /\ l.hidden \in Int
    BY ListedIs DEF Sound, Lists
  <2> QED
    BY <2>1 DEF Counted
<1> HIDE DEF k, n
<1>2. /\ k \in Lists /\ k.found = l.found /\ k.known = l.known /\ k.dead = l.dead
      /\ k.order = l.order /\ k.ent = l.ent /\ k.hidden = l.hidden /\ k.op = l.op /\ k.rows = n
  BY <1>1 DEF Sound, Lists
<1>3. Listed(k) = Listed(l)
  BY <1>2 DEF Listed
<1>4. Sound(k)
  BY <1>2, <1>3 DEF Sound
<1> QED
  BY <1>2, <1>3, <1>4 DEF k, n
-----------------------------------------------------------------------------
(* The tree.                                                               *)

\* The list as _tree_gen() finds it.
Planted(l, m) == AutoCollapsed(Grouped(Recounted(Toggled(l), m), m.paused), m.entering)

Orphans(l, paused) == IF paused THEN {} ELSE {p \in Listed(l) : l.ent[p].ppid \notin l.found}

LEMMA PlantedIs ==
    ASSUME NEW l, Sound(l), 1 \in Listed(l), NEW m \in Modes
    PROVE  LET a == Planted(l, m) IN
           /\ Family(a) /\ Kept(a, l) /\ a.op = NoOp
           /\ Listed(a) = Listed(l) /\ Len(a.order) = Len(l.order)
           /\ a.hidden = IF m.should \/ m.o.filter THEN 0 ELSE l.hidden
           /\ \A p \in Pids : /\ a.ent[p].use = l.ent[p].use /\ a.ent[p].filt = l.ent[p].filt
                              /\ a.ent[p].idx = l.ent[p].idx /\ a.ent[p].dead = l.ent[p].dead
                              /\ a.ent[p].ppid = IF p \in Orphans(l, m.paused) THEN None
                                                 ELSE l.ent[p].ppid
           /\ l.op = NoOp /\ m.paused /\ ~m.entering => a.ent = l.ent
           /\ \A p, q \in Listed(l) :
                <<p, q>> \in Leads(a.order) <=>
                  \/ a.ent[p].ppid < a.ent[q].ppid
                  \/ a.ent[p].ppid = a.ent[q].ppid /\ <<p, q>> \in Leads(l.order)
<1> DEFINE t == Toggled(l)
           r == Recounted(t, m)
           g == Grouped(r, m.paused)
           a == AutoCollapsed(g, m.entering)
<1>0. Planted(l, m) = a /\ m.paused \in BOOLEAN /\ m.entering \in BOOLEAN
  BY DEF Planted, Modes
<1>1. /\ Sound(t) /\ Refolded(t, l) /\ t.op = NoOp /\ Listed(t) = Listed(l)
      /\ l.op = NoOp => t.ent = l.ent
  BY ToggledIs
<1> HIDE DEF t
<1>2. /\ Sound(r) /\ Kept(r, t) /\ r.order = t.order /\ r.ent = t.ent /\ r.op = t.op
      /\ Listed(r) = Listed(t)
      /\ r.hidden = IF m.should \/ m.o.filter THEN 0 ELSE t.hidden
  BY <1>1, RecountedIs
<1> HIDE DEF r
<1> DEFINE orphans == IF m.paused THEN {} ELSE {p \in Listed(r) : r.ent[p].ppid \notin r.found}
<1>3. /\ Sound(g) /\ Kept(g, r) /\ g.hidden = r.hidden /\ g.op = r.op
      /\ Listed(g) = Listed(r) /\ Len(g.order) = Len(r.order)
      /\ \A p \in orphans : g.ent[p] = [r.ent[p] EXCEPT !.ppid = None]
      /\ \A p \in Pids \ orphans : g.ent[p] = r.ent[p]
      /\ m.paused => g.ent = r.ent
      /\ \A p, q \in Listed(g) :
           <<p, q>> \in Leads(g.order) <=>
             \/ g.ent[p].ppid < g.ent[q].ppid
             \/ g.ent[p].ppid = g.ent[q].ppid /\ <<p, q>> \in Leads(r.order)
  <2>1. Sound(r) /\ m.paused \in BOOLEAN
    BY <1>0, <1>2
  <2> HIDE DEF orphans
  <2> QED
    BY ONLY <2>1, GroupedIs DEF orphans, g
<1> HIDE DEF g
<1>4. /\ Sound(a) /\ Refolded(a, g) /\ a.op = g.op /\ Listed(a) = Listed(g)
      /\ ~m.entering => a = g
  BY <1>0, <1>3, AutoCollapsedIs
<1> HIDE DEF a
<1>5. orphans = Orphans(l, m.paused) /\ Listed(l) \subseteq Pids
  <2>1. \A p \in Pids : r.ent[p].ppid = l.ent[p].ppid
    BY <1>1, <1>2 DEF Refolded
  <2>2. Listed(r) = Listed(l) /\ Listed(l) \subseteq Pids /\ r.found = l.found
    BY <1>1, <1>2, ListedIs DEF Refolded, Kept
  <2> QED
    BY <2>1, <2>2 DEF Orphans
<1> HIDE DEF orphans
<1>6. ASSUME NEW p \in Pids
      PROVE  /\ g.ent[p].use = l.ent[p].use /\ g.ent[p].filt = l.ent[p].filt
             /\ g.ent[p].idx = l.ent[p].idx /\ g.ent[p].dead = l.ent[p].dead
             /\ g.ent[p].ppid = IF p \in Orphans(l, m.paused) THEN None ELSE l.ent[p].ppid
  <2>1. /\ r.ent[p].use = l.ent[p].use /\ r.ent[p].filt = l.ent[p].filt
        /\ r.ent[p].idx = l.ent[p].idx /\ r.ent[p].dead = l.ent[p].dead
        /\ r.ent[p].ppid = l.ent[p].ppid /\ r.ent[p] \in Entries
    BY <1>1, <1>2, ParentLower DEF Refolded
  <2>2. CASE p \in orphans
    <3>1. g.ent[p] = [r.ent[p] EXCEPT !.ppid = None]
      BY <1>3, <2>2
    <3> QED
      BY <1>5, <2>1, <2>2, <3>1 DEF Entries
  <2>3. CASE p \notin orphans
    <3>1. g.ent[p] = r.ent[p]
      BY <1>3, <2>3
    <3> QED
      BY <1>5, <2>1, <2>3, <3>1
  <2> QED
    BY <2>2, <2>3
<1>7. \A p \in Pids : /\ a.ent[p].use = l.ent[p].use /\ a.ent[p].filt = l.ent[p].filt
                      /\ a.ent[p].idx = l.ent[p].idx /\ a.ent[p].dead = l.ent[p].dead
                      /\ a.ent[p].ppid = IF p \in Orphans(l, m.paused) THEN None
                                         ELSE l.ent[p].ppid
                      /\ a.ent[p].ppid = g.ent[p].ppid
  BY <1>4, <1>6 DEF Refolded
<1>8. a.order = g.order /\ a.hidden = g.hidden /\ r.order = l.order /\ t.hidden = l.hidden
  BY <1>1, <1>2, <1>4 DEF Refolded
<1>9. Listed(a) = Listed(l) /\ Listed(g) = Listed(l) /\ Len(a.order) = Len(l.order)
  BY <1>1, <1>2, <1>3, <1>4, <1>8
<1>10. Kept(a, l)
  BY <1>1, <1>2, <1>3, <1>4 DEF Refolded, Kept
<1>11. ASSUME NEW p \in Listed(l), NEW q \in Listed(l)
       PROVE  <<p, q>> \in Leads(a.order) <=>
                \/ a.ent[p].ppid < a.ent[q].ppid
                \/ a.ent[p].ppid = a.ent[q].ppid /\ <<p, q>> \in Leads(l.order)
  <2>1. <<p, q>> \in Leads(g.order) <=>
          \/ g.ent[p].ppid < g.ent[q].ppid
          \/ g.ent[p].ppid = g.ent[q].ppid /\ <<p, q>> \in Leads(r.order)
    BY <1>3, <1>9
  <2>2. a.ent[p].ppid = g.ent[p].ppid /\ a.ent[q].ppid = g.ent[q].ppid
    BY <1>5, <1>7
  <2> QED
    BY <1>8, <2>1, <2>2
<1>12. Family(a)
  <2>1. ASSUME NEW p \in Listed(a), NEW q \in Listed(a), <<p, q>> \in Leads(a.order)
        PROVE  a.ent[p].ppid <= a.ent[q].ppid
    <3>1. p \in Pids /\ q \in Pids /\ p \in Listed(l) /\ q \in Listed(l)
      BY <1>5, <1>9
    <3>2. a.ent[p].ppid \in Int /\ a.ent[q].ppid \in Int
      BY <1>4, <3>1, ParentLower
    <3> QED
      BY <1>11, <2>1, <3>1, <3>2
  <2>2. 1 \in Listed(a)
    BY <1>9
  <2> QED
    BY <1>4, <2>1, <2>2, InitFirst
<1>13. a.op = NoOp /\ a.hidden = IF m.should \/ m.o.filter THEN 0 ELSE l.hidden
  BY <1>1, <1>2, <1>3, <1>4, <1>8
<1>14. l.op = NoOp /\ m.paused /\ ~m.entering => a.ent = l.ent
  BY <1>1, <1>2, <1>3, <1>4
<1> QED
  BY <1>0, <1>7, <1>9, <1>10, <1>11, <1>12, <1>13, <1>14

LEMMA FamilyKept ==
    ASSUME NEW l, Family(l), NEW k, Sound(k), k.order = l.order,
           \A p \in Pids : k.ent[p].ppid = l.ent[p].ppid
    PROVE  Family(k)
<1>1. Listed(k) = Listed(l)
  BY DEF Listed
<1>2. Head(l.order) \in Pids
  <2>1. l.order \in Seq(Pids) /\ Listed(l) = ToSet(l.order) /\ Len(l.order) \in Nat
    BY DEF Family, Sound, Lists, Listed
  <2>2. Len(l.order) # 0
    <3> SUFFICES ASSUME Len(l.order) = 0 PROVE FALSE
      OBVIOUS
    <3>1. DOMAIN l.order = {}
      BY <2>1
    <3>2. ToSet(l.order) = {}
      BY <3>1 DEF ToSet
    <3> QED
      BY <2>1, <3>2 DEF Family
  <2> QED
    BY <2>1, <2>2
<1> QED
  BY <1>1, <1>2 DEF Family

\* The lists that the parts of the tree's making hand on to each other.
LEMMA TreeSteps ==
    ASSUME NEW l, Sound(l), 1 \in Listed(l), NEW m \in Modes
    PROVE  LET a == Planted(l, m)
               g == Gen(a, m)
               n == Numbered(g, m)
           IN /\ Family(a) /\ Family(g) /\ Family(n)
              /\ Listed(a) = Listed(l) /\ Listed(g) = Listed(l) /\ Listed(n) = Listed(l)
              /\ Kept(a, l) /\ Kept(g, l) /\ Kept(n, l)
              /\ a.op = NoOp /\ g.op = NoOp /\ n.op = NoOp
              /\ g.order = a.order /\ n.order = a.order /\ Len(a.order) = Len(l.order)
              /\ n.hidden = g.hidden
              /\ m.tree => Tree(l, m) = InOrder(n)
              /\ ~m.tree => Tree(l, m) = l
<1> DEFINE a == Planted(l, m)
           g == Gen(a, m)
           n == Numbered(g, m)
<1>1. /\ m.tree => Tree(l, m) = InOrder(n)
      /\ ~m.tree => Tree(l, m) = l
  BY DEF Tree, Planted
<1>2. /\ Family(a) /\ Kept(a, l) /\ a.op = NoOp
      /\ Listed(a) = Listed(l) /\ Len(a.order) = Len(l.order)
  BY PlantedIs
<1> HIDE DEF a
<1>3. /\ Sound(g) /\ Kept(g, a) /\ g.order = a.order /\ g.op = a.op
      /\ Listed(g) = Listed(a)
      /\ \A p \in Pids : g.ent[p].ppid = a.ent[p].ppid
  <2>1. Sound(a)
    BY <1>2 DEF Family
  <2> QED
    BY <2>1, GenIs
<1> HIDE DEF g
<1>4. Family(g)
  BY <1>2, <1>3, FamilyKept
<1>5. /\ Sound(n) /\ Kept(n, g) /\ n.order = g.order /\ n.op = g.op /\ n.hidden = g.hidden
      /\ Listed(n) = Listed(g)
      /\ \A p \in Pids : n.ent[p].ppid = g.ent[p].ppid
  BY <1>4, NumberedIs
<1> HIDE DEF n
<1>6. Family(n)
  BY <1>4, <1>5, FamilyKept
<1>7. Kept(g, l) /\ Kept(n, l)
  BY <1>2, <1>3, <1>5 DEF Kept
<1> QED
  BY <1>1, <1>2, <1>3, <1>4, <1>5, <1>6, <1>7 DEF a, g, n

LEMMA TreeIs ==
    ASSUME NEW l, Sound(l), 1 \in Listed(l), NEW m \in Modes, m.full => m.should,
           l.hidden \in 0..Len(l.order)
    PROVE  LET t == Tree(l, m) IN
           /\ Sound(t) /\ Kept(t, l) /\ Listed(t) = Listed(l)
           /\ t.hidden \in 0..Len(t.order)
           /\ m.tree \/ l.op = NoOp => t.op = NoOp
<1> DEFINE a == Planted(l, m)
           g == Gen(a, m)
           n == Numbered(g, m)
           t == Tree(l, m)
<1>1. /\ Family(a) /\ Family(g) /\ Family(n)
      /\ Listed(n) = Listed(l) /\ Kept(n, l) /\ n.op = NoOp
      /\ g.order = a.order /\ n.order = a.order /\ Len(a.order) = Len(l.order)
      /\ n.hidden = g.hidden
      /\ m.tree => t = InOrder(n)
      /\ ~m.tree => t = l
  BY TreeSteps
<1>2. g.hidden \in 0..Len(a.order)
  <2>1. a.hidden = IF m.should \/ m.o.filter THEN 0 ELSE l.hidden
    BY PlantedIs
  <2>2. Len(l.order) \in Nat
    BY ListedIs
  <2> HIDE DEF a
  <2>3. a.hidden \in 0..Len(a.order)
    BY <1>1, <2>1, <2>2
  <2> QED
    BY <1>1, <2>1, <2>3, HiddenFits
<1> HIDE DEF a, g, n, t
<1>3. CASE m.tree
  <2> DEFINE k == InOrder(n)
  <2>1. /\ Sound(k) /\ Kept(k, n) /\ k.hidden = n.hidden /\ k.op = n.op
        /\ Listed(k) = Listed(n) /\ Len(k.order) = Len(n.order)
    <3>1. Sound(n)
      BY <1>1 DEF Family
    <3> QED
      BY <3>1, InOrderIs
  <2>2. t = k
    BY <1>1, <1>3
  <2> HIDE DEF k
  <2>3. Kept(k, l)
    BY <1>1, <2>1 DEF Kept
  <2>4. Sound(t) /\ Kept(t, l) /\ Listed(t) = Listed(l) /\ t.op = NoOp
    BY <1>1, <2>1, <2>2, <2>3
  <2>5. t.hidden \in 0..Len(t.order)
    BY <1>1, <1>2, <2>1, <2>2
  <2> QED
    BY <2>4, <2>5 DEF t
<1>4. CASE ~m.tree
  <2>1. t = l
    BY <1>1, <1>4
  <2> QED
    BY <1>4, <2>1 DEF t, Kept
<1> QED
  BY <1>3, <1>4
-----------------------------------------------------------------------------
(* A collection.                                                           *)

Settings == [order : Orders, paused : BOOLEAN, aggregate : BOOLEAN]

\* What the kernel grants: init runs, a process is younger than its parent.
World ==
    /\ alive \subseteq born /\ born \subseteq Pids /\ 1 \in alive
    /\ parent \in [Pids -> Pids \cup {None}] /\ \A p \in Pids : parent[p] < p
    /\ \A p \in alive \ {1} : parent[p] \in alive
    /\ \A p \in born, q \in Pids \ born : p < q

LEMMA ModeIs ==
    ASSUME NEW l, Sound(l), NEW s \in Settings, NEW noUpdate \in BOOLEAN
    PROVE  LET m == Mode(l, s, noUpdate) IN
           /\ m \in Modes /\ m.o = s.order /\ m.paused = s.paused /\ m.aggregate = s.aggregate
           /\ (m.full <=> ~noUpdate) /\ (m.full => m.read) /\ (m.read => m.should)
           /\ m.full => (m.tree <=> s.order.tree)
           /\ m.tree => s.order.tree
           /\ ~m.read => ~m.full /\ l.order # <<>>
           /\ l.known = s.order => ~m.resort /\ ~m.entering
<1>1. s.order \in Orders /\ l.known \in Orders /\ s.paused \in BOOLEAN /\ s.aggregate \in BOOLEAN
  BY DEF Settings, Sound, Lists
<1>2. /\ s.order.tree \in BOOLEAN /\ s.order.filter \in BOOLEAN /\ s.order.rev \in BOOLEAN
      /\ l.known.tree \in BOOLEAN /\ l.known.filter \in BOOLEAN /\ l.known.rev \in BOOLEAN
  BY <1>1 DEF Orders
<1> QED
  BY <1>1, <1>2 DEF Mode, Modes

LEMMA ReadIs ==
    ASSUME World, NEW l, Sound(l), l.dead \cap alive = {}, NEW m \in Modes, m.read
    PROVE  LET k == Read(l, m) IN
           /\ Sound(k) /\ k.hidden = l.hidden /\ k.known = l.known /\ k.op = l.op
           /\ k.found = alive /\ k.dead \cap alive = {}
           /\ Listed(k) = IF m.paused THEN Listed(l) ELSE alive
           /\ m.paused => k.order = l.order
           /\ \A p \in Listed(k) : p \notin alive <=> p \in k.dead
           /\ \A p \in Listed(k) \cap alive : k.ent[p] = ReadAgain(l.ent[p], p)
           /\ \A p \in Listed(k) \ alive : k.ent[p] = Died(l.ent[p])
<1> DEFINE s == Scanned(l, alive, m.paused)
           k == Swept(s, m.paused)
<1>1. Read(l, m) = k
  BY DEF Read
<1>2. m.paused \in BOOLEAN /\ alive \subseteq Pids
  BY DEF Modes, World
<1>3. Younger(alive)
  BY <1>2 DEF World, Younger
<1>4. /\ Sound(s) /\ s.found = alive /\ s.hidden = l.hidden
      /\ s.known = l.known /\ s.op = l.op /\ s.dead = l.dead
      /\ Listed(s) = Listed(l) \cup (IF m.paused THEN {} ELSE alive)
      /\ m.paused => s.order = l.order
      /\ \A p \in (alive \cap Listed(s)) \ l.dead : s.ent[p] = ReadAgain(l.ent[p], p)
      /\ \A p \in Pids \ ((alive \cap Listed(s)) \ l.dead) : s.ent[p] = l.ent[p]
  <2>1. Sound(l) /\ alive \in SUBSET Pids /\ m.paused \in BOOLEAN
    BY <1>2
  <2> QED
    BY ONLY <1>3, <2>1, ScannedIs DEF s
<1> HIDE DEF s
<1>5. /\ Sound(k) /\ k.found = s.found /\ k.hidden = s.hidden
      /\ k.known = s.known /\ k.op = s.op
      /\ m.paused => /\ k.order = s.order /\ k.dead = s.dead \cup (Listed(s) \ s.found)
                     /\ Listed(k) = Listed(s)
      /\ ~m.paused => k.dead = {} /\ Listed(k) = Listed(s) \cap s.found
      /\ \A p \in Listed(k) \cap s.found : k.ent[p] = s.ent[p]
      /\ \A p \in Listed(k) \ s.found : k.ent[p] = Died(s.ent[p])
  <2>1. m.paused \/ s.dead \cap s.found = {}
    BY <1>4
  <2>2. Sound(s) /\ m.paused \in BOOLEAN
    BY <1>2, <1>4
  <2> QED
    BY ONLY <2>1, <2>2, SweptIs DEF k
<1> HIDE DEF k
<1>6. Listed(k) = (IF m.paused THEN Listed(l) ELSE alive) /\ Listed(k) \subseteq Listed(s)
  BY <1>2, <1>4, <1>5, SMTT(30)
<1>7. Listed(k) \subseteq Pids /\ l.dead \subseteq Listed(l)
  BY <1>5, ListedIs DEF Sound
<1>8. k.dead \cap alive = {} /\ \A p \in Listed(k) : p \notin alive <=> p \in k.dead
  <2>1. CASE m.paused
    BY <1>4, <1>5, <1>6, <2>1
  <2>2. CASE ~m.paused
    BY <1>4, <1>5, <1>6, <2>2
  <2> QED
    BY <2>1, <2>2
<1>9. ASSUME NEW p \in Listed(k) \cap alive
      PROVE  k.ent[p] = ReadAgain(l.ent[p], p)
  <2>1. p \in (alive \cap Listed(s)) \ l.dead /\ p \in Pids
    BY <1>6, <1>7
  <2>2. k.ent[p] = s.ent[p]
    BY <1>4, <1>5
  <2>3. s.ent[p] = ReadAgain(l.ent[p], p)
    BY <1>4, <2>1
  <2> QED
    BY <2>2, <2>3
<1>10. ASSUME NEW p \in Listed(k) \ alive
       PROVE  k.ent[p] = Died(l.ent[p])
  <2>1. p \notin (alive \cap Listed(s)) \ l.dead /\ p \in Pids
    BY <1>7
  <2>2. k.ent[p] = Died(s.ent[p])
    BY <1>4, <1>5
  <2>3. s.ent[p] = l.ent[p]
    BY <1>4, <2>1
  <2> QED
    BY <2>2, <2>3
<1>11. m.paused => k.order = l.order
  BY <1>4, <1>5
<1> QED
  BY <1>1, <1>4, <1>5, <1>6, <1>8, <1>9, <1>10, <1>11, Zenon

LEMMA SoundSame ==
    ASSUME NEW l, Sound(l), NEW k \in Lists,
           k.order = l.order, k.ent = l.ent, k.dead = l.dead
    PROVE  Sound(k) /\ Listed(k) = Listed(l)
BY DEF Sound, Listed

\* What the collection begins with: the settings noted in the list.
Noted(l, s) == [l EXCEPT !.known = s.order]

LEMMA NotedIs ==
    ASSUME NEW l, Sound(l), NEW s \in Settings
    PROVE  LET k == Noted(l, s) IN
           /\ Sound(k) /\ Listed(k) = Listed(l) /\ k.known = s.order
           /\ k.order = l.order /\ k.ent = l.ent /\ k.dead = l.dead /\ k.found = l.found
           /\ k.op = l.op /\ k.hidden = l.hidden /\ k.rows = l.rows
<1> DEFINE k == Noted(l, s)
<1>1. /\ k \in Lists /\ k.known = s.order
      /\ k.order = l.order /\ k.ent = l.ent /\ k.dead = l.dead /\ k.found = l.found
      /\ k.op = l.op /\ k.hidden = l.hidden /\ k.rows = l.rows
  BY DEF Noted, Sound, Lists, Settings
<1> HIDE DEF k
<1>2. Sound(k) /\ Listed(k) = Listed(l)
  BY <1>1, SoundSame
<1> QED
  BY <1>1, <1>2 DEF k

\* The lists of a collection, one after the other; z is the list as it is left.
LEMMA CollectedSteps ==
    ASSUME NEW l, NEW s, NEW noUpdate
    PROVE  LET m == Mode(l, s, noUpdate)
           IN Collected(l, s, noUpdate) =
                Counted(Tree(Sorted(Filtered(Read(Noted(l, s), m), m), m), m))
BY DEF Collected, Arranged, Noted

\* The processes that are there when the tree is made.
LEMMA SortedSteps ==
    ASSUME World, NEW l, Sound(l), l.dead \cap alive = {}, l.hidden \in 0..Len(l.order),
           NEW m \in Modes, m.read => m.should, ~m.read => ~m.full /\ 1 \in Listed(l),
           m.read => 1 \in Listed(l) \/ ~m.paused
    PROVE  LET k == Sorted(Filtered(Read(l, m), m), m) IN
           /\ Sound(k) /\ k.known = l.known /\ k.op = l.op /\ k.dead \cap alive = {}
           /\ k.hidden \in 0..Len(k.order) /\ 1 \in Listed(k)
           /\ Listed(k) = IF m.read /\ ~m.paused THEN alive ELSE Listed(l)
<1> DEFINE r == Read(l, m)
           f == Filtered(r, m)
           k == Sorted(f, m)
<1>1. /\ Sound(r) /\ r.known = l.known /\ r.op = l.op /\ r.hidden = l.hidden
      /\ r.dead \cap alive = {}
      /\ Listed(r) = IF m.read /\ ~m.paused THEN alive ELSE Listed(l)
      /\ ~m.read => r = l
  <2>1. CASE m.read
    BY <2>1, ReadIs
  <2>2. CASE ~m.read
    BY <2>2 DEF Read
  <2> QED
    BY <2>1, <2>2
<1> HIDE DEF r
<1>2. /\ Sound(f) /\ Kept(f, r) /\ f.order = r.order /\ f.op = r.op
      /\ m.should => f.hidden \in 0..Len(f.order)
      /\ ~m.should => f = r
  BY <1>1, FilteredIs
<1>3. Listed(f) = Listed(r)
  BY <1>2 DEF Listed
<1> HIDE DEF f
<1>4. f.hidden \in 0..Len(f.order)
  <2>1. CASE m.should
    BY <1>2, <2>1
  <2>2. CASE ~m.should
    <3>1. f = r /\ r = l
      BY <1>1, <1>2, <2>2
    <3> QED
      BY <3>1
  <2> QED
    BY <2>1, <2>2
<1>5. /\ Sound(k) /\ Kept(k, f) /\ k.ent = f.ent /\ k.hidden = f.hidden /\ k.op = f.op
      /\ Listed(k) = Listed(f) /\ Len(k.order) = Len(f.order)
  BY <1>2, SortedIs
<1> HIDE DEF k
<1>6. k.known = l.known /\ k.op = l.op /\ k.dead \cap alive = {}
  BY <1>1, <1>2, <1>5 DEF Kept
<1>7. k.hidden \in 0..Len(k.order)
  BY <1>4, <1>5
<1>8. 1 \in alive
  BY DEF World
<1>9. Listed(k) = (IF m.read /\ ~m.paused THEN alive ELSE Listed(l)) /\ 1 \in Listed(k)
  BY <1>1, <1>3, <1>5, <1>8
<1> QED
  BY <1>5, <1>6, <1>7, <1>9 DEF k, f, r

\* What every collection leaves is a list as it should be.
LEMMA CollectedIs ==
    ASSUME World, NEW l, Sound(l), l.dead \cap alive = {}, l.hidden \in 0..Len(l.order),
           NEW s \in Settings, NEW noUpdate \in BOOLEAN, s.paused \/ noUpdate => 1 \in Listed(l),
           l.op = NoOp \/ (s.order.tree /\ ~noUpdate)
    PROVE  LET z == Collected(l, s, noUpdate) IN
           /\ Sound(z) /\ z.known = s.order /\ z.op = NoOp /\ z.dead \cap alive = {}
           /\ z.hidden \in 0..Len(z.order) /\ z.rows \in 0..Len(z.order) /\ 1 \in Listed(z)
           /\ Listed(z) \subseteq Listed(l) \cup alive
<1> DEFINE m == Mode(l, s, noUpdate)
           n == Noted(l, s)
           k == Sorted(Filtered(Read(n, m), m), m)
           t == Tree(k, m)
           z == Counted(t)
<1>1. Collected(l, s, noUpdate) = z
  BY CollectedSteps
<1>2. /\ m \in Modes /\ m.paused = s.paused /\ (m.full <=> ~noUpdate) /\ (m.full => m.read)
      /\ (m.read => m.should) /\ (m.full => (m.tree <=> s.order.tree))
  BY ModeIs
<1>3. /\ Sound(n) /\ Listed(n) = Listed(l) /\ n.known = s.order
      /\ n.dead = l.dead /\ n.op = l.op /\ n.hidden = l.hidden /\ n.order = l.order
  BY NotedIs
<1> HIDE DEF m, n
<1>4. n.dead \cap alive = {} /\ n.hidden \in 0..Len(n.order)
  BY <1>3
<1>5. /\ ~m.read => ~m.full /\ 1 \in Listed(n)
      /\ m.read => 1 \in Listed(n) \/ ~m.paused
      /\ m.read => m.should
  BY <1>2, <1>3
<1>6. /\ Sound(k) /\ k.known = n.known /\ k.op = n.op /\ k.dead \cap alive = {}
      /\ k.hidden \in 0..Len(k.order) /\ 1 \in Listed(k)
      /\ Listed(k) = IF m.read /\ ~m.paused THEN alive ELSE Listed(n)
  BY <1>2, <1>3, <1>4, <1>5, SortedSteps
<1> HIDE DEF k
<1>7. /\ Sound(t) /\ Kept(t, k) /\ Listed(t) = Listed(k)
      /\ t.hidden \in 0..Len(t.order)
      /\ m.tree \/ k.op = NoOp => t.op = NoOp
  BY <1>2, <1>6, TreeIs
<1> HIDE DEF t
<1>8. /\ Sound(z) /\ z.known = t.known /\ z.dead = t.dead
      /\ z.order = t.order /\ z.hidden = t.hidden /\ z.op = t.op
      /\ Listed(z) = Listed(t) /\ z.rows = Len(t.order) - t.hidden
  BY <1>7, CountedIs
<1> HIDE DEF z
<1>9. z.known = s.order /\ z.dead \cap alive = {} /\ z.op = NoOp
  BY <1>2, <1>3, <1>6, <1>7, <1>8 DEF Kept
<1>10. z.hidden \in 0..Len(z.order) /\ z.rows \in 0..Len(z.order)
  <2>1. Len(t.order) \in Nat
    BY <1>7, ListedIs
  <2> QED
    BY <1>7, <1>8, <2>1
<1>11. 1 \in Listed(z) /\ Listed(z) \subseteq Listed(l) \cup alive
  BY <1>3, <1>6, <1>7, <1>8
<1> QED
  BY <1>1, <1>8, <1>9, <1>10, <1>11

\* So does one that is cut short.
LEMMA CutShortIs ==
    ASSUME World, NEW l, Sound(l), NEW s \in Settings, NEW S \in SUBSET alive,
           l.hidden \in 0..Len(l.order), l.rows \in 0..Len(l.order)
    PROVE  LET z == CutShort(l, s, S) IN
           /\ Sound(z) /\ z.known = s.order /\ z.op = l.op /\ z.dead = l.dead
           /\ z.hidden \in 0..Len(z.order) /\ z.rows \in 0..Len(z.order)
           /\ Listed(l) \subseteq Listed(z) /\ Listed(z) \subseteq Listed(l) \cup alive
<1> DEFINE n == Noted(l, s)
           z == Scanned(n, S, s.paused)
<1>1. CutShort(l, s, S) = z
  BY DEF CutShort, Noted
<1>2. s.paused \in BOOLEAN /\ S \in SUBSET Pids /\ S \subseteq alive /\ Younger(S)
  BY DEF Settings, World, Younger
<1>3. /\ Sound(n) /\ Listed(n) = Listed(l) /\ n.known = s.order
      /\ n.dead = l.dead /\ n.op = l.op /\ n.hidden = l.hidden /\ n.order = l.order
      /\ n.rows = l.rows
  BY NotedIs
<1> HIDE DEF n
<1>4. /\ Sound(z) /\ z.hidden = n.hidden /\ z.rows = n.rows
      /\ z.known = n.known /\ z.op = n.op /\ z.dead = n.dead
      /\ Listed(z) = Listed(n) \cup (IF s.paused THEN {} ELSE S)
  BY <1>2, <1>3, ScannedIs
<1> HIDE DEF z
<1>5. Listed(l) \subseteq Listed(z) /\ Listed(z) \subseteq Listed(l) \cup alive
  BY <1>2, <1>3, <1>4
<1>6. Len(l.order) <= Len(z.order) /\ Len(l.order) \in Nat /\ Len(z.order) \in Nat
  <2>1. /\ Cardinality(Listed(l)) = Len(l.order) /\ Cardinality(Listed(z)) = Len(z.order)
        /\ IsFiniteSet(Listed(z)) /\ Len(l.order) \in Nat /\ Len(z.order) \in Nat
    <3>1. /\ IsFiniteSet(Listed(z)) /\ Cardinality(Listed(z)) = Len(z.order)
          /\ Len(z.order) \in 0..Cardinality(Pids)
      BY <1>4, ListedIs
    <3>2. Cardinality(Listed(l)) = Len(l.order) /\ Len(l.order) \in 0..Cardinality(Pids)
      BY ListedIs
    <3> QED
      BY <3>1, <3>2, PidsAre
  <2> QED
    BY <1>5, <2>1, FS_Subset
<1> QED
  BY <1>1, <1>3, <1>4, <1>5, <1>6

-----------------------------------------------------------------------------
(* The invariant.                                                          *)

\* The list between two collections.
ListKept ==
    /\ Sound(list) /\ list.hidden \in 0..Len(list.order) /\ list.rows \in 0..Len(list.order)
    /\ list.op = NoOp /\ list.known = set.order
    /\ Listed(list) \subseteq born /\ list.dead \cap alive = {}
    /\ last # "none" => 1 \in Listed(list)

Kinds == {"none", "full", "cached", "cut"}

IInv ==
    /\ World /\ ListKept /\ set \in Settings /\ (set.paused => last # "none")
    /\ last \in Kinds /\ events \in 0..MaxEvents

LEMMA InitKept == Init => IInv
<1> SUFFICES ASSUME Init PROVE IInv
  OBVIOUS
<1>1. /\ alive = Started /\ born = Started /\ 1 \in Started /\ Started \subseteq Pids
      /\ \A p \in Started, q \in Pids \ Started : p < q
      /\ MaxEvents \in Nat
  BY ProcListAssumption DEF Init
<1>2. World
  <2>1. /\ parent \in [Pids -> Pids \cup {None}]
        /\ \A p \in Pids : IF p = 1 \/ p \notin Started THEN parent[p] = None
                           ELSE parent[p] \in Started /\ parent[p] < p
    BY DEF Init
  <2>2. \A p \in Pids : None < p
    BY PidNat, PidsAre
  <2> QED
    BY <1>1, <2>1, <2>2 DEF World
<1>3. set \in Settings /\ ~set.paused
  <2>1. [tree |-> FALSE, rev |-> FALSE, by |-> "pid", filter |-> FALSE] \in Orders
    BY DEF Orders
  <2> QED
    BY <2>1 DEF Init, Settings
<1>4. /\ list \in Lists /\ list.order = <<>> /\ list.ent = [p \in Pids |-> Blank]
      /\ list.dead = {} /\ list.hidden = 0 /\ list.rows = 0 /\ list.op = NoOp
      /\ list.known = set.order
  <2>1. NoOp \in Ops
    BY DEF NoOp, Ops
  <2>2. [p \in Pids |-> Blank] \in [Pids -> Entries]
    BY BlankEntry
  <2>3. set.order \in Orders
    BY <1>3 DEF Settings
  <2>4. << >> \in Seq(Pids) /\ 0 \in Nat /\ 0 \in Int
    OBVIOUS
  <2>5. list = [order |-> <<>>, ent |-> [p \in Pids |-> Blank], dead |-> {}, found |-> {},
                known |-> set.order, op |-> NoOp, hidden |-> 0, rows |-> 0]
    BY DEF Init
  <2> QED
    BY <2>1, <2>2, <2>3, <2>4, <2>5 DEF Lists
<1>5. Listed(list) = {} /\ IsInjective(list.order) /\ Len(list.order) = 0
  BY <1>4 DEF Listed, ToSet, IsInjective
<1>6. Sound(list)
  <2>1. \A p \in Pids : list.ent[p] = Blank
    BY <1>4
  <2>2. \A p \in Pids : None < p
    BY PidNat, PidsAre
  <2>3. Blank.ppid = None /\ Blank.dead = FALSE
    BY DEF Blank
  <2> QED
    BY <1>4, <1>5, <2>1, <2>2, <2>3 DEF Sound
<1>7. last = "none" /\ events \in 0..MaxEvents
  BY <1>1 DEF Init
<1> QED
  BY <1>1, <1>2, <1>3, <1>4, <1>5, <1>6, <1>7 DEF IInv, ListKept, Kinds

\* Every step that collects, whatever was asked for.
LEMMA CollectsKept ==
    ASSUME IInv, NEW l, Sound(l), NEW noUpdate \in BOOLEAN, set' \in Settings,
           l.dead = list.dead, l.order = list.order, l.hidden = list.hidden,
           l.op = NoOp \/ (set'.order.tree /\ ~noUpdate),
           set'.paused \/ noUpdate => last # "none",
           events' \in 0..MaxEvents, Collects(l, noUpdate)
    PROVE  IInv'
<1> DEFINE s == set'
           z == Collected(l, s, noUpdate)
<1>1. list' = z /\ last' \in Kinds /\ last' # "none" /\ UNCHANGED world
  BY DEF Collects, Kinds
<1>2. World /\ ListKept
  BY DEF IInv
<1>3. World'
  BY <1>1, <1>2 DEF World, world
<1>4. Listed(l) = Listed(list)
  BY DEF Listed
<1>5. l.dead \cap alive = {} /\ l.hidden \in 0..Len(l.order)
  BY <1>2 DEF ListKept
<1>6. s \in Settings /\ (s.paused \/ noUpdate => 1 \in Listed(l))
  BY <1>2, <1>4 DEF ListKept
<1>7. l.op = NoOp \/ (s.order.tree /\ ~noUpdate)
  OBVIOUS
<1> HIDE DEF s
<1>8. /\ Sound(z) /\ z.known = s.order /\ z.op = NoOp /\ z.dead \cap alive = {}
      /\ z.hidden \in 0..Len(z.order) /\ z.rows \in 0..Len(z.order) /\ 1 \in Listed(z)
      /\ Listed(z) \subseteq Listed(l) \cup alive
  BY <1>2, <1>5, <1>6, <1>7, CollectedIs
<1> HIDE DEF z
<1>9. ListKept'
  <2>1. /\ Sound(list') /\ list'.known = set'.order /\ list'.op = NoOp /\ list'.dead \cap alive = {}
        /\ list'.hidden \in 0..Len(list'.order) /\ list'.rows \in 0..Len(list'.order)
        /\ 1 \in Listed(list') /\ Listed(list') \subseteq Listed(list) \cup alive
    BY <1>1, <1>4, <1>8 DEF s
  <2>2. Listed(list') \subseteq born'
    BY <1>1, <1>2, <2>1 DEF World, ListKept, world
  <2>3. alive' = alive
    BY <1>1 DEF world
  <2> QED
    BY <2>1, <2>2, <2>3 DEF ListKept, Sound, Listed
<1> QED
  BY <1>1, <1>3, <1>9 DEF IInv

\* The list with an operation asked for.
LEMMA AskedIs ==
    ASSUME NEW l, Sound(l), NEW op \in Ops
    PROVE  LET k == [l EXCEPT !.op = op] IN
           /\ Sound(k) /\ k.dead = l.dead /\ k.order = l.order /\ k.hidden = l.hidden
           /\ k.ent = l.ent /\ k.found = l.found /\ k.known = l.known /\ k.rows = l.rows
<1> DEFINE k == [l EXCEPT !.op = op]
<1>1. /\ k \in Lists /\ k.dead = l.dead /\ k.order = l.order /\ k.hidden = l.hidden
      /\ k.ent = l.ent /\ k.found = l.found /\ k.known = l.known /\ k.rows = l.rows
  BY DEF Sound, Lists
<1> HIDE DEF k
<1>2. Sound(k)
  BY <1>1, SoundSame
<1> QED
  BY <1>1, <1>2 DEF k

LEMMA WorldMoves ==
    ASSUME IInv, Starts \/ Ends
    PROVE  IInv'
<1>1. World /\ ListKept /\ set \in Settings /\ last \in Kinds /\ (set.paused => last # "none")
  BY DEF IInv
<1>2. events' \in 0..MaxEvents
  <2>1. events \in 0..MaxEvents /\ events < MaxEvents /\ events' = events + 1 /\ MaxEvents \in Nat
    BY ProcListAssumption DEF IInv, Starts, Ends, Happens
  <2> QED
    BY <2>1
<1>3. UNCHANGED <<set, list, last>>
  BY DEF Starts, Ends
<1>4. World' /\ list.dead \cap alive' = {} /\ born \subseteq born'
  <2>1. CASE Starts
    <3>1. PICK p \in Pids \ born, q \in alive :
            /\ \A r \in Pids \ born : p <= r
            /\ alive' = alive \cup {p} /\ born' = born \cup {p}
            /\ parent' = [parent EXCEPT ![p] = q]
      BY <2>1 DEF Starts
    <3>2. p \in Int /\ q \in Pids /\ q \in born /\ \A r \in Pids : r \in Int
      BY <1>1, PidNat DEF World
    <3>3. parent' \in [Pids -> Pids \cup {None}] /\ \A r \in Pids \ {p} : parent'[r] = parent[r]
      BY <1>1, <3>1, <3>2 DEF World
    <3>4. parent'[p] = q /\ q < p
      BY <1>1, <3>1, <3>2 DEF World
    <3>5. \A r \in Pids : parent'[r] < r
      BY <1>1, <3>3, <3>4 DEF World
    <3>6. \A r \in alive' \ {1} : parent'[r] \in alive'
      BY <1>1, <3>1, <3>3, <3>4 DEF World
    <3>7. \A r \in born', s \in Pids \ born' : r < s
      <4> SUFFICES ASSUME NEW r \in born', NEW s \in Pids \ born' PROVE r < s
        OBVIOUS
      <4>1. s \in Pids \ born /\ s # p /\ s \in Int
        BY <3>1, <3>2
      <4>2. CASE r \in born
        BY <1>1, <4>1, <4>2 DEF World
      <4>3. CASE r = p
        BY <3>1, <3>2, <4>1, <4>3
      <4> QED
        BY <3>1, <4>2, <4>3
    <3>8. World'
      BY <1>1, <3>1, <3>2, <3>3, <3>5, <3>6, <3>7 DEF World
    <3>9. p \notin list.dead
      BY <1>1, <3>1 DEF ListKept, Sound
    <3> QED
      BY <1>1, <3>1, <3>8, <3>9 DEF ListKept
  <2>2. CASE Ends
    <3>1. PICK p \in alive \ {1} :
            /\ alive' = alive \ {p} /\ UNCHANGED born
            /\ parent' = [q \in Pids |-> IF parent[q] = p THEN 1 ELSE parent[q]]
      BY <2>2 DEF Ends
    <3>2. p \in Pids /\ 1 \in Pids /\ p > 1 /\ p \in Int
      <4>1. p \in Pids /\ p # 1 /\ 1 \in Pids
        BY <1>1, PidsAre DEF World
      <4> QED
        BY <4>1, PidNat
    <3>3. \A q \in Pids : parent'[q] = IF parent[q] = p THEN 1 ELSE parent[q]
      BY <3>1
    <3>4. parent' \in [Pids -> Pids \cup {None}]
      <4>1. \A q \in Pids : (IF parent[q] = p THEN 1 ELSE parent[q]) \in Pids \cup {None}
        BY <1>1, <3>2 DEF World
      <4> QED
        BY <3>1, <4>1
    <3>5. \A q \in Pids : parent'[q] < q
      BY <1>1, <3>2, <3>3, PidNat DEF World
    <3>6. \A q \in alive' \ {1} : parent'[q] \in alive'
      BY <1>1, <3>1, <3>2, <3>3 DEF World
    <3> QED
      BY <1>1, <3>1, <3>4, <3>5, <3>6 DEF World, ListKept
  <2> QED
    BY <2>1, <2>2
<1>5. ListKept'
  BY <1>1, <1>3, <1>4 DEF ListKept, Sound, Listed
<1> QED
  BY <1>1, <1>2, <1>3, <1>4, <1>5 DEF IInv

LEMMA InterruptedKept ==
    ASSUME IInv, Interrupted
    PROVE  IInv'
<1>1. World /\ ListKept /\ set \in Settings /\ last # "none"
  BY DEF IInv, Interrupted
<1>2. events' \in 0..MaxEvents
  <2>1. events \in 0..MaxEvents /\ events < MaxEvents /\ events' = events + 1 /\ MaxEvents \in Nat
    BY ProcListAssumption DEF IInv, Interrupted, Happens
  <2> QED
    BY <2>1
<1>3. PICK n \in alive : list' = CutShort(list, set, {p \in alive : p <= n})
  BY DEF Interrupted
<1>4. last' = "cut" /\ UNCHANGED <<world, set>>
  BY DEF Interrupted
<1> DEFINE z == CutShort(list, set, {p \in alive : p <= n})
<1>5. /\ Sound(z) /\ z.known = set.order /\ z.op = list.op /\ z.dead = list.dead
      /\ z.hidden \in 0..Len(z.order) /\ z.rows \in 0..Len(z.order)
      /\ Listed(list) \subseteq Listed(z) /\ Listed(z) \subseteq Listed(list) \cup alive
  <2>1. Sound(list) /\ list.hidden \in 0..Len(list.order) /\ list.rows \in 0..Len(list.order)
    BY <1>1 DEF ListKept
  <2>2. {p \in alive : p <= n} \in SUBSET alive
    OBVIOUS
  <2> QED
    BY <1>1, <2>1, <2>2, CutShortIs
<1> HIDE DEF z
<1>6. list' = z
  BY <1>3 DEF z
<1>7. World'
  BY <1>1, <1>4 DEF World, world
<1>8. ListKept'
  <2>1. /\ Sound(list') /\ list'.known = set'.order /\ list'.op = NoOp
        /\ list'.hidden \in 0..Len(list'.order) /\ list'.rows \in 0..Len(list'.order)
        /\ 1 \in Listed(list')
    BY <1>1, <1>4, <1>5, <1>6 DEF ListKept
  <2>2. Listed(list') \subseteq born' /\ list'.dead \cap alive' = {}
    BY <1>1, <1>4, <1>5, <1>6 DEF ListKept, World, world
  <2> QED
    BY <2>1, <2>2 DEF ListKept, Sound, Listed
<1> QED
  BY <1>1, <1>2, <1>4, <1>7, <1>8 DEF IInv, Kinds

\* Every key collects, some with an operation on the tree.
LEMMA KeyCollects ==
    ASSUME IInv, Key
    PROVE  \E op \in Ops, noUpdate \in BOOLEAN :
             \E l \in {list, [list EXCEPT !.op = op]} :
               /\ set' \in Settings /\ Collects(l, noUpdate)
               /\ l = list \/ (set'.order.tree /\ ~noUpdate)
<1>1. Sound(list) /\ list.op \in Ops /\ set \in Settings
  BY DEF IInv, ListKept, Sound, Lists
<1>2. ASSUME NEW noUpdate \in BOOLEAN, set' \in Settings, Collects(list, noUpdate)
      PROVE  \E op \in Ops, b \in BOOLEAN :
               \E l \in {list, [list EXCEPT !.op = op]} :
                 /\ set' \in Settings /\ Collects(l, b)
                 /\ l = list \/ (set'.order.tree /\ ~b)
  BY <1>1, <1>2
<1>3. ASSUME NEW op \in Ops, set.order.tree, UNCHANGED set, Collects([list EXCEPT !.op = op], FALSE)
      PROVE  \E o \in Ops, b \in BOOLEAN :
               \E l \in {list, [list EXCEPT !.op = o]} :
                 /\ set' \in Settings /\ Collects(l, b)
                 /\ l = list \/ (set'.order.tree /\ ~b)
  BY <1>1, <1>3
<1>4. set.order \in Orders
  BY <1>1 DEF Settings
<1>5. CASE KeyTree
  <2>1. set' \in Settings
    BY <1>1, <1>5 DEF KeyTree, Settings, Orders
  <2> QED
    BY <1>2, <1>5, <2>1 DEF KeyTree
<1>6. CASE KeyReverse
  <2>1. set' \in Settings
    BY <1>1, <1>6 DEF KeyReverse, Settings, Orders
  <2> QED
    BY <1>2, <1>6, <2>1 DEF KeyReverse
<1>7. CASE KeySort
  <2>1. set' \in Settings
    BY <1>1, <1>7 DEF KeySort, Settings, Orders
  <2>2. (~set.order.tree) \in BOOLEAN
    BY <1>4 DEF Orders
  <2> QED
    BY <1>2, <1>7, <2>1, <2>2 DEF KeySort
<1>8. CASE KeyFilter
  <2>1. set' \in Settings
    BY <1>1, <1>8 DEF KeyFilter, Settings, Orders
  <2> QED
    BY <1>2, <1>8, <2>1 DEF KeyFilter
<1>9. CASE KeyPause
  <2>1. set' \in Settings
    BY <1>1, <1>9 DEF KeyPause, Settings, Orders
  <2> QED
    BY <1>2, <1>9, <2>1 DEF KeyPause
<1>10. CASE KeyAll
  <2>1. [list.op EXCEPT !.all = TRUE] \in Ops
    BY <1>1 DEF Sound, Lists, Ops
  <2>2. [list EXCEPT !.op.all = TRUE] = [list EXCEPT !.op = [list.op EXCEPT !.all = TRUE]]
    BY <1>1 DEF Sound, Lists
  <2> QED
    BY <1>3, <1>10, <2>1, <2>2 DEF KeyAll
<1>11. CASE KeyFold
  <2>1. PICK p \in ToSet(Rows(list, TRUE)) :
          \/ Collects([list EXCEPT !.op.expand = p], FALSE)
          \/ Collects([list EXCEPT !.op.collapse = p], FALSE)
          \/ Collects([list EXCEPT !.op.expand = p, !.op.collapse = p], FALSE)
          \/ Collects([list EXCEPT !.op.children = p], FALSE)
    BY <1>11 DEF KeyFold
  <2>2. p \in Pids
    <3>1. list.order \in Seq(Pids) /\ IsInjective(list.order)
      BY <1>1 DEF Sound, Lists
    <3>2. \A T : ToSet(Only(list.order, T)) = ToSet(list.order) \cap T
      BY <3>1, OnlyLine DEF Line
    <3>3. ToSet(Rows(list, TRUE)) \subseteq ToSet(list.order)
      BY <3>2 DEF Rows
    <3> QED
      BY <3>1, <3>3, ListIsLine
  <2>3. PICK op \in Ops : Collects([list EXCEPT !.op = op], FALSE)
    <3>1. list \in Lists /\ list.op \in Ops
      BY <1>1 DEF Sound, Lists
    <3>2. CASE Collects([list EXCEPT !.op.expand = p], FALSE)
      <4>1. [list.op EXCEPT !.expand = p] \in Ops
        BY <2>2, <3>1 DEF Ops
      <4>2. [list EXCEPT !.op.expand = p] =
              [list EXCEPT !.op = [list.op EXCEPT !.expand = p]]
        BY <3>1 DEF Lists
      <4> QED
        BY <3>2, <4>1, <4>2
    <3>3. CASE Collects([list EXCEPT !.op.collapse = p], FALSE)
      <4>1. [list.op EXCEPT !.collapse = p] \in Ops
        BY <2>2, <3>1 DEF Ops
      <4>2. [list EXCEPT !.op.collapse = p] =
              [list EXCEPT !.op = [list.op EXCEPT !.collapse = p]]
        BY <3>1 DEF Lists
      <4> QED
        BY <3>3, <4>1, <4>2
    <3>4. CASE Collects([list EXCEPT !.op.expand = p, !.op.collapse = p], FALSE)
      <4>1. [list.op EXCEPT !.expand = p, !.collapse = p] \in Ops
        BY <2>2, <3>1 DEF Ops
      <4>2. [list EXCEPT !.op.expand = p, !.op.collapse = p] =
              [list EXCEPT !.op = [list.op EXCEPT !.expand = p, !.collapse = p]]
        BY <3>1 DEF Lists, Ops
      <4> QED
        BY <3>4, <4>1, <4>2
    <3>5. CASE Collects([list EXCEPT !.op.children = p], FALSE)
      <4>1. [list.op EXCEPT !.children = p] \in Ops
        BY <2>2, <3>1 DEF Ops
      <4>2. [list EXCEPT !.op.children = p] =
              [list EXCEPT !.op = [list.op EXCEPT !.children = p]]
        BY <3>1 DEF Lists
      <4> QED
        BY <3>5, <4>1, <4>2
    <3> QED
      BY <2>1, <3>2, <3>3, <3>4, <3>5
  <2> QED
    BY <1>3, <1>11, <2>3 DEF KeyFold
<1> QED
  BY <1>5, <1>6, <1>7, <1>8, <1>9, <1>10, <1>11 DEF Key

LEMMA KeyKept ==
    ASSUME IInv, Key
    PROVE  IInv'
<1>1. Sound(list) /\ list.op = NoOp /\ last # "none"
  BY DEF IInv, ListKept, Key
<1>2. events' \in 0..MaxEvents
  <2>1. events \in 0..MaxEvents /\ events < MaxEvents /\ events' = events + 1 /\ MaxEvents \in Nat
    BY ProcListAssumption DEF IInv, Key, Happens
  <2> QED
    BY <2>1
<1>3. PICK op \in Ops, noUpdate \in BOOLEAN :
        \E l \in {list, [list EXCEPT !.op = op]} :
          /\ set' \in Settings /\ Collects(l, noUpdate)
          /\ l = list \/ (set'.order.tree /\ ~noUpdate)
  BY KeyCollects
<1>4. PICK l \in {list, [list EXCEPT !.op = op]} :
        /\ set' \in Settings /\ Collects(l, noUpdate)
        /\ l = list \/ (set'.order.tree /\ ~noUpdate)
  BY <1>3
<1>5. /\ Sound(l) /\ l.dead = list.dead /\ l.order = list.order /\ l.hidden = list.hidden
      /\ l.op = NoOp \/ (set'.order.tree /\ ~noUpdate)
  BY <1>1, <1>4, AskedIs, ZenonT(30)
<1> QED
  BY <1>1, <1>2, <1>4, <1>5, CollectsKept

LEMMA StepKept == IInv /\ [Next]_vars => IInv'
<1> SUFFICES ASSUME IInv, [Next]_vars PROVE IInv'
  OBVIOUS
<1>1. /\ Sound(list) /\ list.op = NoOp /\ set \in Settings /\ events \in 0..MaxEvents
      /\ set.paused => last # "none"
  BY DEF IInv, ListKept
<1>2. CASE Starts \/ Ends
  BY <1>2, WorldMoves
<1>3. CASE Timer
  BY <1>1, <1>3, CollectsKept DEF Timer
<1>4. CASE Key
  BY <1>4, KeyKept
<1>5. CASE Interrupted
  BY <1>5, InterruptedKept
<1>6. CASE Redrawn
  BY <1>1, <1>6, CollectsKept DEF Redrawn
<1>7. CASE UNCHANGED vars
  BY <1>7 DEF vars, IInv, World, ListKept, Sound, Listed
<1> QED
  BY <1>2, <1>3, <1>4, <1>5, <1>6, <1>7 DEF Next

\* Where a collection stands between two steps, whatever came before: the statics of
\* Proc are a list of processes each of which is there once, as the system has started
\* them.
THEOREM ProcListInvariant == Spec => []IInv
BY InitKept, StepKept, PTL DEF Spec

\* The types, and that the counts of the hidden and of the rows never leave the list.
THEOREM ProcListTypeOK == Spec => []TypeOK
<1>1. IInv => TypeOK
  <2> SUFFICES ASSUME IInv PROVE TypeOK
    OBVIOUS
  <2>1. World /\ ListKept /\ set \in Settings /\ last \in Kinds /\ events \in 0..MaxEvents
    BY DEF IInv
  <2>2. Sound(list)
    BY <2>1 DEF ListKept
  <2>3. ASSUME NEW p \in Pids
        PROVE  LET e == list.ent[p] IN
               /\ e.ppid \in Pids \cup {None} /\ e.use \in Nat /\ e.idx \in 0..Cardinality(Pids)
               /\ p \notin ToSet(list.order) => e = Blank
    BY <2>2 DEF Sound, Lists, Entries, Listed
  <2>4. list.dead \subseteq ToSet(list.order) /\ list.found \subseteq Pids /\ list.known \in Orders
    BY <2>2 DEF Sound, Lists, Listed
  <2>5. list.order \in Seq(Pids) /\ IsInjective(list.order)
    BY <2>2 DEF Sound, Lists
  <2>6. alive \subseteq born /\ born \subseteq Pids /\ parent \in [Pids -> Pids \cup {None}]
    BY <2>1 DEF World
  <2>7. list.hidden \in 0..Len(list.order) /\ list.rows \in 0..Len(list.order)
    BY <2>1 DEF ListKept
  <2> QED
    BY <2>1, <2>3, <2>4, <2>5, <2>6, <2>7, Zenon DEF TypeOK, Settings, Kinds
<1> QED
  BY <1>1, ProcListInvariant, PTL

-----------------------------------------------------------------------------
(* The rows.                                                               *)

\* The processes that are drawn.
ShownOf(l, tree) ==
    {p \in Listed(l) : ~l.ent[p].filt /\ ~(tree /\ l.ent[p].idx = Len(l.order))}

LEMMA RowsLine ==
    ASSUME NEW l, Sound(l), NEW tree
    PROVE  /\ Line(Rows(l, tree), ShownOf(l, tree), Leads(l.order))
           /\ ToSet(Rows(l, tree)) = ShownOf(l, tree)
           /\ Len(Rows(l, tree)) = Cardinality(ShownOf(l, tree))
<1> DEFINE T == {p \in Pids : ~l.ent[p].filt /\ ~(tree /\ l.ent[p].idx = Len(l.order))}
<1>1. Listed(l) \cap T = ShownOf(l, tree)
  BY ListedIs DEF ShownOf
<1>2. Rows(l, tree) = Only(l.order, T)
  BY DEF Rows
<1> HIDE DEF T
<1>3. l.order \in Seq(Pids) /\ IsInjective(l.order) /\ Listed(l) = ToSet(l.order)
  BY DEF Sound, Lists, Listed
<1>4. Line(Only(l.order, T), ToSet(l.order) \cap T, Leads(l.order))
  BY <1>3, OnlyLine
<1>5. Line(Rows(l, tree), ShownOf(l, tree), Leads(l.order))
  BY <1>1, <1>2, <1>3, <1>4
<1> QED
  BY <1>5 DEF Line

LEMMA RowsMatch ==
    ASSUME NEW l, Sound(l), NEW tree \in BOOLEAN, l.rows = Len(l.order) - l.hidden,
           l.hidden = Cardinality({p \in Listed(l) : l.ent[p].filt}),
           \A p \in Listed(l) : ~l.ent[p].filt => ~(tree /\ l.ent[p].idx = Len(l.order))
    PROVE  l.rows = Len(Rows(l, tree))
<1> DEFINE F == {p \in Listed(l) : l.ent[p].filt}
           S == ShownOf(l, tree)
<1>1. S = Listed(l) \ F
  BY DEF ShownOf
<1>2. IsFiniteSet(Listed(l)) /\ Cardinality(Listed(l)) = Len(l.order)
  BY ListedIs
<1>3. F \subseteq Listed(l) /\ l.hidden = Cardinality(F)
  OBVIOUS
<1> HIDE DEF F
<1>4. Cardinality(Listed(l) \ F) = Cardinality(Listed(l)) - Cardinality(Listed(l) \cap F)
  BY <1>2, FS_Difference
<1>5. Listed(l) \cap F = F
  BY <1>3
<1>6. Len(Rows(l, tree)) = Cardinality(S)
  BY RowsLine
<1> QED
  BY <1>1, <1>2, <1>3, <1>4, <1>5, <1>6
-----------------------------------------------------------------------------
(* A full collection up to the tree.                                       *)

\* What a full collection has when it comes to the tree: the processes as they are.
Fresh(k, m) ==
    /\ Sound(k) /\ 1 \in Listed(k) /\ k.found = alive
    /\ \A p \in Listed(k) : p \in k.dead <=> p \notin alive
    /\ ~m.paused => Listed(k) = alive
    /\ \A p \in Listed(k) \cap alive : k.ent[p].use = Own[p] /\ (p # 1 => k.ent[p].ppid # None)
    /\ \A p \in Pids : k.ent[p].filt <=> p \in Listed(k) /\ ~m.o.tree /\ ~Matches(p, m.o)
    /\ k.hidden = Cardinality({p \in Listed(k) : k.ent[p].filt})

LEMMA FreshIs ==
    ASSUME World, NEW l, Sound(l), l.dead \cap alive = {}, NEW m \in Modes,
           m.full, m.read, m.should, 1 \in Listed(l) \/ ~m.paused
    PROVE  Fresh(Sorted(Filtered(Read(l, m), m), m), m)
<1> DEFINE r == Read(l, m)
           f == Filtered(r, m)
           k == Sorted(f, m)
<1>1. /\ Sound(r) /\ r.found = alive /\ r.dead \cap alive = {}
      /\ Listed(r) = IF m.paused THEN Listed(l) ELSE alive
      /\ \A p \in Listed(r) : p \notin alive <=> p \in r.dead
      /\ \A p \in Listed(r) \cap alive : r.ent[p] = ReadAgain(l.ent[p], p)
  BY ReadIs
<1> HIDE DEF r
<1> DEFINE Filt(p) == ~m.o.tree /\ ~Matches(p, m.o)
<1>2. /\ Sound(f) /\ Kept(f, r) /\ f.order = r.order
      /\ f.hidden = Cardinality({p \in Listed(f) : Filt(p)})
      /\ \A p \in Listed(f) : f.ent[p] = [r.ent[p] EXCEPT !.filt = Filt(p)]
  BY <1>1, FilteredIs
<1>3. Listed(f) = Listed(r)
  BY <1>2 DEF Listed
<1> HIDE DEF f
<1>4. Sound(k) /\ Kept(k, f) /\ k.ent = f.ent /\ k.hidden = f.hidden /\ Listed(k) = Listed(f)
  BY <1>2, SortedIs
<1> HIDE DEF k
<1>5. k.found = alive /\ k.dead = r.dead /\ Listed(k) = Listed(r) /\ Listed(r) \subseteq Pids
  BY <1>1, <1>2, <1>3, <1>4, ListedIs DEF Kept
<1>6. 1 \in Listed(k) /\ (~m.paused => Listed(k) = alive)
  BY <1>1, <1>5 DEF World
<1>7. \A p : Filt(p) \in BOOLEAN
  OBVIOUS
<1>8. ASSUME NEW p \in Listed(k)
      PROVE  /\ k.ent[p].filt = Filt(p)
             /\ k.ent[p].use = r.ent[p].use /\ k.ent[p].ppid = r.ent[p].ppid
  <2>1. r.ent[p] \in Entries /\ k.ent[p] = [r.ent[p] EXCEPT !.filt = Filt(p)]
    BY <1>1, <1>2, <1>4, <1>5, ParentLower
  <2> HIDE DEF Filt
  <2> QED
    BY <2>1 DEF Entries
<1>9. ASSUME NEW p \in Listed(k) \cap alive
      PROVE  k.ent[p].use = Own[p] /\ (p # 1 => k.ent[p].ppid # None)
  <2>1. r.ent[p] = ReadAgain(l.ent[p], p) /\ l.ent[p] \in Entries
    BY <1>1, <1>5, ParentLower
  <2>2. r.ent[p].use = Own[p]
    BY <2>1 DEF ReadAgain, Entries
  <2>3. r.ent[p].ppid = IF l.ent[p].ppid = None THEN parent[p] ELSE l.ent[p].ppid
    BY <2>1 DEF ReadAgain, Entries
  <2>4. p # 1 => parent[p] # None
    BY PidsAre DEF World
  <2> QED
    BY <1>8, <2>2, <2>3, <2>4
<1>10. \A p \in Pids : k.ent[p].filt <=> p \in Listed(k) /\ Filt(p)
  <2> SUFFICES ASSUME NEW p \in Pids PROVE k.ent[p].filt <=> p \in Listed(k) /\ Filt(p)
    OBVIOUS
  <2>1. CASE p \in Listed(k)
    BY <1>8, <2>1
  <2>2. CASE p \notin Listed(k)
    <3>1. k.ent[p] = Blank /\ Blank.filt = FALSE
      BY <1>4, <2>2 DEF Sound, Blank
    <3> QED
      BY <2>2, <3>1
  <2> QED
    BY <2>1, <2>2
<1>11. k.hidden = Cardinality({p \in Listed(k) : k.ent[p].filt})
  <2>1. {p \in Listed(k) : k.ent[p].filt} = {p \in Listed(k) : Filt(p)}
    BY <1>8
  <2> QED
    BY <1>2, <1>4, <2>1
<1> QED
  BY <1>1, <1>4, <1>5, <1>6, <1>9, <1>10, <1>11 DEF Fresh, k, f, r

-----------------------------------------------------------------------------
(* The tree of a full collection.                                          *)

RootedIn(l) == \A p \in Listed(l) : l.ent[p].ppid \in Listed(l) \cup {None}
FoldedIn(l) == \E p \in Listed(l) : l.ent[p].coll

\* The processes that have one without a parent above them, or are one.
Reached(l) == {p \in Listed(l) : \E q \in {p} \cup Above(l, p) : l.ent[q].ppid = None}

LEMMA ReachedVisited ==
    ASSUME NEW l, Family(l)
    PROVE  Visited(l) = Reached(l)
<1>1. Roots(l) = {p \in Listed(l) : l.ent[p].ppid = None}
  BY RootsAre
<1>2. Sound(l) /\ Listed(l) \subseteq Pids
  BY ListedIs DEF Family
<1>3. \A p \in Listed(l) : \A q \in Above(l, p) : q \in Listed(l)
  BY <1>2, AboveLower
<1> QED
  BY <1>1, <1>3 DEF Visited, Reached

\* When no parent is missing every process is in the tree.
LEMMA RootedVisited ==
    ASSUME NEW l, Family(l), RootedIn(l)
    PROVE  Visited(l) = Listed(l)
<1> DEFINE T == {p \in Pids : p \in Listed(l) => p \in Visited(l)}
<1>1. Sound(l) /\ Listed(l) \subseteq Pids /\ Visited(l) \subseteq Listed(l)
  BY ListedIs DEF Family, Visited
<1>2. ASSUME NEW p \in Pids, \A q \in Pids : q < p => q \in T
      PROVE  p \in T
  <2> SUFFICES ASSUME p \in Listed(l) PROVE p \in Visited(l)
    OBVIOUS
  <2>1. CASE l.ent[p].ppid = None
    <3>1. p \in Roots(l)
      BY <2>1, RootsAre
    <3> QED
      BY <3>1, RootAlone
  <2>2. CASE l.ent[p].ppid # None
    <3>1. l.ent[p].ppid \in Listed(l) /\ l.ent[p].ppid \in Pids /\ l.ent[p].ppid < p
      BY <1>1, <2>2, ParentLower DEF RootedIn
    <3>2. l.ent[p].ppid \in Visited(l)
      BY <1>2, <3>1
    <3>3. p \in Kids(l, l.ent[p].ppid)
      BY DEF Kids
    <3> QED
      BY <3>2, <3>3, VisitedDown
  <2> QED
    BY <2>1, <2>2
<1> HIDE DEF T
<1>3. Pids \subseteq T
  BY <1>2, UpInduct
<1> QED
  BY <1>1, <1>3 DEF T

\* The list as a full collection leaves it, from the family it makes the tree of.
Arrange(a, m) == Counted(InOrder(Numbered(Gen(a, m), m)))

LEMMA ArrangeSteps ==
    ASSUME NEW a, Family(a), NEW m \in Modes
    PROVE  LET g == Gen(a, m)
               n == Numbered(g, m)
               z == Arrange(a, m)
           IN /\ Family(g) /\ Family(n) /\ Sound(z)
              /\ Listed(g) = Listed(a) /\ Listed(n) = Listed(a) /\ Listed(z) = Listed(a)
              /\ g.order = a.order /\ Len(z.order) = Len(a.order)
              /\ z.found = a.found /\ z.dead = a.dead
              /\ z.hidden = g.hidden /\ z.rows = Len(z.order) - z.hidden
              /\ Visited(g) = Visited(a)
              /\ \A p \in Pids : /\ Above(z, p) = Above(a, p) /\ Above(g, p) = Above(a, p)
                                 /\ z.ent[p].ppid = a.ent[p].ppid /\ z.ent[p].coll = a.ent[p].coll
                                 /\ z.ent[p].use = g.ent[p].use /\ z.ent[p].filt = g.ent[p].filt
                                 /\ g.ent[p].ppid = a.ent[p].ppid
              /\ \A p : Fam(g, p) = Fam(a, p) /\ Fam(z, p) = Fam(a, p) /\ Kids(z, p) = Kids(a, p)
              /\ \A p \in Pids \ Visited(a) : z.ent[p] = a.ent[p]
              /\ \A p, q \in Listed(a) :
                   <<p, q>> \in Leads(z.order) <=>
                     \/ z.ent[p].idx < z.ent[q].idx
                     \/ z.ent[p].idx = z.ent[q].idx /\ <<p, q>> \in Leads(a.order)
              /\ \E next : /\ Numbers(g, m, next)
                           /\ \A p \in Visited(a) : ~z.ent[p].filt => z.ent[p].idx = next[p]
<1> DEFINE g == Gen(a, m)
           n == Numbered(g, m)
           i == InOrder(n)
           z == Arrange(a, m)
<1>1. z = Counted(i) /\ Sound(a)
  BY DEF Arrange, Family
<1>2. /\ Sound(g) /\ Kept(g, a) /\ g.order = a.order /\ Listed(g) = Listed(a)
      /\ \A p \in Pids : g.ent[p].ppid = a.ent[p].ppid /\ g.ent[p].coll = a.ent[p].coll
      /\ \A p \in Pids \ Visited(a) : g.ent[p] = a.ent[p]
  BY <1>1, GenIs
<1> HIDE DEF g
<1>3. Family(g)
  BY <1>2, FamilyKept
<1>4. /\ Sound(n) /\ Kept(n, g) /\ n.order = g.order /\ n.hidden = g.hidden
      /\ Listed(n) = Listed(g)
      /\ \A p \in Pids : /\ n.ent[p].ppid = g.ent[p].ppid /\ n.ent[p].coll = g.ent[p].coll
                         /\ n.ent[p].use = g.ent[p].use /\ n.ent[p].filt = g.ent[p].filt
      /\ \A p \in Pids \ Visited(g) : n.ent[p] = g.ent[p]
      /\ \E next : /\ Numbers(g, m, next)
                   /\ \A p \in Visited(g) : ~g.ent[p].filt => n.ent[p].idx = next[p]
  BY <1>3, NumberedIs
<1> HIDE DEF n
<1>5. Family(n)
  BY <1>3, <1>4, FamilyKept
<1>6. /\ Sound(i) /\ Kept(i, n) /\ i.ent = n.ent /\ i.hidden = n.hidden
      /\ Listed(i) = Listed(n) /\ Len(i.order) = Len(n.order)
      /\ \A p, q \in Listed(n) :
           <<p, q>> \in Leads(i.order) <=>
             \/ n.ent[p].idx < n.ent[q].idx
             \/ n.ent[p].idx = n.ent[q].idx /\ <<p, q>> \in Leads(n.order)
  BY <1>4, InOrderIs
<1> HIDE DEF i
<1>7. /\ Sound(z) /\ z.found = i.found /\ z.dead = i.dead
      /\ z.order = i.order /\ z.ent = i.ent /\ z.hidden = i.hidden
      /\ Listed(z) = Listed(i) /\ z.rows = Len(i.order) - i.hidden
  BY <1>1, <1>6, CountedIs
<1> HIDE DEF z
<1>8. z.ent = n.ent /\ Listed(z) = Listed(a) /\ Listed(n) = Listed(a)
  BY <1>2, <1>4, <1>6, <1>7
<1>9. Visited(g) = Visited(a)
  BY <1>2, <1>3, SameTree
<1>10. \A p \in Pids : z.ent[p].ppid = a.ent[p].ppid
  BY <1>2, <1>4, <1>8
<1>11. /\ \A p \in Pids : Above(z, p) = Above(a, p)
       /\ \A p : Fam(z, p) = Fam(a, p) /\ Kids(z, p) = Kids(a, p)
  BY <1>1, <1>7, <1>8, <1>10, SameFamilies
<1>12. /\ \A p \in Pids : Above(g, p) = Above(a, p)
       /\ \A p : Fam(g, p) = Fam(a, p)
  BY <1>1, <1>2, SameFamilies
<1>13. ASSUME NEW p \in Pids
       PROVE  /\ z.ent[p].coll = a.ent[p].coll /\ z.ent[p].use = g.ent[p].use
              /\ z.ent[p].filt = g.ent[p].filt
              /\ p \notin Visited(a) => z.ent[p] = a.ent[p]
  BY <1>2, <1>4, <1>8, <1>9
<1>14. \A p, q \in Listed(a) :
         <<p, q>> \in Leads(z.order) <=>
           \/ z.ent[p].idx < z.ent[q].idx
           \/ z.ent[p].idx = z.ent[q].idx /\ <<p, q>> \in Leads(a.order)
  <2>1. z.order = i.order /\ n.order = a.order /\ Listed(n) = Listed(a) /\ z.ent = n.ent
    BY <1>2, <1>4, <1>7, <1>8
  <2>2. \A p, q \in Listed(n) :
          <<p, q>> \in Leads(i.order) <=>
            \/ n.ent[p].idx < n.ent[q].idx
            \/ n.ent[p].idx = n.ent[q].idx /\ <<p, q>> \in Leads(n.order)
    BY <1>6
  <2> SUFFICES ASSUME NEW p \in Listed(a), NEW q \in Listed(a)
               PROVE  <<p, q>> \in Leads(z.order) <=>
                        \/ z.ent[p].idx < z.ent[q].idx
                        \/ z.ent[p].idx = z.ent[q].idx /\ <<p, q>> \in Leads(a.order)
    OBVIOUS
  <2>3. <<p, q>> \in Leads(i.order) <=>
          \/ n.ent[p].idx < n.ent[q].idx
          \/ n.ent[p].idx = n.ent[q].idx /\ <<p, q>> \in Leads(n.order)
    BY <2>1, <2>2
  <2> QED
    BY ONLY <2>1, <2>3
<1>15. \E next : /\ Numbers(g, m, next)
                 /\ \A p \in Visited(a) : ~z.ent[p].filt => z.ent[p].idx = next[p]
  <2>1. PICK next : /\ Numbers(g, m, next)
                    /\ \A p \in Visited(g) : ~g.ent[p].filt => n.ent[p].idx = next[p]
    BY <1>4
  <2>2. \A p \in Visited(a) : p \in Pids
    BY <1>1, ListedIs DEF Visited
  <2> QED
    BY <1>8, <1>9, <1>13, <2>1, <2>2
<1>16. /\ z.found = a.found /\ z.dead = a.dead /\ z.hidden = g.hidden
       /\ z.rows = Len(z.order) - z.hidden /\ Len(z.order) = Len(a.order)
  BY <1>2, <1>4, <1>6, <1>7 DEF Kept
<1> QED
  BY <1>2, <1>3, <1>5, <1>7, <1>8, <1>9, <1>10, <1>11, <1>12, <1>13, <1>14, <1>15, <1>16
     DEF z, n, g

\* The rows of the tree are numbered below the number of processes.
LEMMA TreeNumbers ==
    ASSUME NEW a, Family(a), NEW m \in Modes,
           NEW z, z = Arrange(a, m), NEW p \in Visited(a), ~z.ent[p].filt
    PROVE  z.ent[p].idx # Len(z.order)
<1> DEFINE g == Gen(a, m)
<1>1. /\ Family(g) /\ Visited(g) = Visited(a) /\ g.order = a.order
      /\ Len(z.order) = Len(a.order) /\ Listed(g) = Listed(a)
      /\ \A x \in Pids : z.ent[x].filt = g.ent[x].filt
  BY ArrangeSteps
<1>2. PICK next : /\ Numbers(g, m, next)
                  /\ \A x \in Visited(a) : ~z.ent[x].filt => z.ent[x].idx = next[x]
  BY ArrangeSteps, SMTT(30)
<1> HIDE DEF g
<1>3. Sound(g) /\ p \in Pids /\ Len(g.order) \in Nat
  BY <1>1, ListedIs DEF Family, Visited
<1>4. next[p] + RowsOf(g)[p] <= Len(g.order)
  BY <1>1, <1>2, VisitedSpan
<1>5. next[p] \in Nat /\ RowsOf(g)[p] \in Nat /\ RowsOf(g)[p] >= Ones(g)[p] /\ Ones(g)[p] \in {0, 1}
  BY <1>1, <1>2, <1>3, NextIs
<1>6. Ones(g)[p] = 1
  BY <1>1, <1>3, RowsAre
<1>7. z.ent[p].idx = next[p]
  BY <1>2
<1> QED
  BY <1>1, <1>3, <1>4, <1>5, <1>6, <1>7

\* Which processes the tree shows, and how many it counts as hidden.
LEMMA TreeHides ==
    ASSUME NEW a, Family(a), NEW m \in Modes, m.full, m.should,
           \A p \in Pids : ~a.ent[p].filt, a.hidden = 0,
           NEW z, z = Arrange(a, m)
    PROVE  /\ ~m.o.filter =>
                \A p \in Visited(a) : z.ent[p].filt <=> \E q \in Above(z, p) : z.ent[q].coll
           /\ m.o.filter /\ ~FoldedIn(z) =>
                \A p \in Visited(a) : z.ent[p].filt <=> (Above(z, p) \cup {p}) \cap Matching = {}
           /\ ~m.o.filter \/ ~FoldedIn(z) =>
                z.hidden = Cardinality({p \in Listed(z) : z.ent[p].filt})
<1> DEFINE g == Gen(a, m)
<1>1. /\ Listed(z) = Listed(a) /\ z.hidden = g.hidden
      /\ \A p \in Pids : /\ z.ent[p].coll = a.ent[p].coll /\ z.ent[p].filt = g.ent[p].filt
                         /\ Above(z, p) = Above(a, p)
  BY ArrangeSteps
<1>2. Sound(a) /\ Listed(a) \subseteq Pids /\ Visited(a) \subseteq Pids
  BY ListedIs DEF Family, Visited
<1>3. \A p \in Pids : \A q \in Above(a, p) : q \in Pids
  BY <1>2, AboveLower
<1>4. ~FoldedIn(z) => \A p \in Listed(a) : ~a.ent[p].coll
  BY <1>1, <1>2 DEF FoldedIn
<1>5. /\ ~m.o.filter =>
           \A p \in Visited(a) : g.ent[p].filt <=> \E q \in Above(a, p) : a.ent[q].coll
      /\ m.o.filter /\ (\A p \in Listed(a) : ~a.ent[p].coll) =>
           \A p \in Visited(a) : g.ent[p].filt <=> (Above(a, p) \cup {p}) \cap Matching = {}
  BY ShownIs
<1>6. ~m.o.filter \/ (\A p \in Listed(a) : ~a.ent[p].coll) =>
        g.hidden = Cardinality({p \in Listed(a) : g.ent[p].filt})
  BY HiddenCounted
<1> HIDE DEF g
<1>7. {p \in Listed(z) : z.ent[p].filt} = {p \in Listed(a) : g.ent[p].filt}
  BY <1>1, <1>2
<1>8. ~m.o.filter =>
        \A p \in Visited(a) : z.ent[p].filt <=> \E q \in Above(z, p) : z.ent[q].coll
  BY <1>1, <1>2, <1>3, <1>5
<1>9. m.o.filter /\ ~FoldedIn(z) =>
        \A p \in Visited(a) : z.ent[p].filt <=> (Above(z, p) \cup {p}) \cap Matching = {}
  BY <1>1, <1>2, <1>4, <1>5
<1>10. ~m.o.filter \/ ~FoldedIn(z) =>
         z.hidden = Cardinality({p \in Listed(z) : z.ent[p].filt})
  BY <1>1, <1>4, <1>6, <1>7
<1> QED
  BY <1>8, <1>9, <1>10

\* Two rows of which one stands for the parent of the other have only the family of the
\* parent between them.
LEMMA TreeBetween ==
    ASSUME NEW a, Family(a), NEW m \in Modes, NEW z, z = Arrange(a, m),
           NEW p \in Visited(a), NEW c \in Visited(a), NEW x \in Visited(a),
           c \in Kids(a, p), ~z.ent[p].filt, ~z.ent[c].filt, ~z.ent[x].filt
    PROVE  /\ z.ent[p].idx < z.ent[c].idx
           /\ z.ent[p].idx <= z.ent[x].idx /\ z.ent[x].idx <= z.ent[c].idx => x \in Fam(a, p)
<1> DEFINE g == Gen(a, m)
<1>1. /\ Family(g) /\ Visited(g) = Visited(a) /\ Listed(g) = Listed(a)
      /\ \A y \in Pids : /\ z.ent[y].filt = g.ent[y].filt /\ g.ent[y].ppid = a.ent[y].ppid
                         /\ Above(g, y) = Above(a, y)
      /\ \A y : Fam(g, y) = Fam(a, y)
  BY ArrangeSteps
<1>2. PICK next : /\ Numbers(g, m, next)
                  /\ \A y \in Visited(a) : ~z.ent[y].filt => z.ent[y].idx = next[y]
  <2>1. Family(a) /\ m \in Modes /\ z = Arrange(a, m)
    OBVIOUS
  <2> QED
    BY ONLY <2>1, ArrangeSteps, SMTT(30) DEF g
<1> HIDE DEF g
<1>3. Sound(g) /\ Visited(a) \subseteq Pids /\ Visited(g) \subseteq Listed(g)
  BY <1>1, ListedIs DEF Family, Visited
<1>4. c \in Kids(g, p)
  BY <1>1, <1>3 DEF Kids
<1>5. ASSUME NEW y \in Visited(a), ~z.ent[y].filt
      PROVE  /\ next[y] \in Nat /\ RowsOf(g)[y] \in Nat /\ RowsOf(g)[y] >= 1 /\ Ones(g)[y] = 1
             /\ z.ent[y].idx = next[y]
  <2>1. Ones(g)[y] = 1
    BY <1>1, <1>3, <1>5, RowsAre
  <2> QED
    BY <1>1, <1>2, <1>3, <1>5, <2>1, NextIs
<1>6. /\ next[p] + Ones(g)[p] <= next[c]
      /\ next[c] + RowsOf(g)[c] <= next[p] + RowsOf(g)[p]
  BY <1>1, <1>2, <1>3, <1>4, ChildSpan
<1>7. z.ent[p].idx < z.ent[c].idx
  BY <1>5, <1>6
<1>8. ASSUME z.ent[p].idx <= z.ent[x].idx, z.ent[x].idx <= z.ent[c].idx, x \notin Fam(g, p)
      PROVE  FALSE
  <2>1. next[p] <= next[x] /\ next[x] <= next[c]
    BY <1>5, <1>8
  <2>2. CASE x \in Above(g, p)
    <3>1. p \in Fam(g, x) /\ x \in Listed(g) /\ x < p /\ p \in Int
      BY <1>1, <1>3, <2>2, AboveLower, PidNat DEF Fam
    <3>2. p # x
      BY <3>1
    <3>3. next[x] + Ones(g)[x] <= next[p]
      BY <1>1, <1>2, <3>1, <3>2, DownSpan
    <3> QED
      BY <1>5, <2>1, <3>3
  <2>3. CASE x \notin Above(g, p)
    <3>1. next[p] + RowsOf(g)[p] <= next[x] \/ next[x] + RowsOf(g)[x] <= next[p]
      BY <1>1, <1>2, <1>8, <2>3, FamiliesApart
    <3> QED
      BY <1>5, <1>6, <2>1, <3>1
  <2> QED
    BY <2>2, <2>3
<1> QED
  BY <1>1, <1>7, <1>8

-----------------------------------------------------------------------------
(* The properties, of a list and the settings it was made with.            *)

InTreeIn(l, s) == s.order.tree /\ (s.paused => RootedIn(l))

RowsCountedIn(l, s) ==
    (s.order.tree => InTreeIn(l, s) /\ ~(s.order.filter /\ FoldedIn(l))) =>
        l.rows = Len(Rows(l, s.order.tree))
TreeShownIn(l, s) ==
    InTreeIn(l, s) /\ ~s.order.filter =>
        \A p \in Listed(l) : p \in ToSet(Rows(l, s.order.tree)) <=> \A q \in Above(l, p) : ~l.ent[q].coll
FamiliesFoundIn(l, s) ==
    InTreeIn(l, s) /\ s.order.filter /\ ~FoldedIn(l) =>
        \A p \in Listed(l) : p \in ToSet(Rows(l, s.order.tree)) <=>
                               (Above(l, p) \cup {p}) \cap Matching # {}
TreeOrderIn(l, s) ==
    InTreeIn(l, s) =>
        LET rows == Rows(l, s.order.tree) IN
        \A i, j \in DOMAIN rows :
          l.ent[rows[j]].ppid = rows[i] /\ {rows[i], rows[j]} \subseteq Listed(l) =>
            i < j /\ \A k \in i..j : rows[k] \in Fam(l, rows[i])
SubtreeUsageIn(l, s) ==
    InTreeIn(l, s) /\ ~s.order.filter /\ ~s.paused =>
        \A p \in Listed(l) : s.aggregate \/ l.ent[p].coll => l.ent[p].use = Sum(Own, Fam(l, p))

\* What Mode() says of a full collection.
FullMode(m, s) ==
    /\ m \in Modes /\ m.full /\ m.read /\ m.should /\ m.o = s.order /\ m.paused = s.paused
    /\ m.aggregate = s.aggregate /\ (m.tree <=> s.order.tree)

LEMMA FlatDrawn ==
    ASSUME World, NEW s \in Settings, NEW m, FullMode(m, s), NEW k, Fresh(k, m), ~s.order.tree
    PROVE  RowsCountedIn(Counted(Tree(k, m)), s)
<1> DEFINE z == Counted(k)
<1>1. Tree(k, m) = k
  BY DEF Tree, FullMode
<1>2. Sound(k) /\ k.hidden = Cardinality({p \in Listed(k) : k.ent[p].filt})
  BY DEF Fresh
<1>3. /\ Sound(z) /\ z.order = k.order /\ z.ent = k.ent /\ z.hidden = k.hidden
      /\ Listed(z) = Listed(k) /\ z.rows = Len(k.order) - k.hidden
  BY <1>2, CountedIs
<1> HIDE DEF z
<1>4. s.order.tree \in BOOLEAN
  BY DEF Settings, Orders
<1>5. z.rows = Len(Rows(z, s.order.tree))
  BY <1>2, <1>3, <1>4, RowsMatch
<1> QED
  BY <1>1, <1>5 DEF RowsCountedIn, z

\* The family a full collection makes the tree of.
LEMMA PlantedFresh ==
    ASSUME World, NEW s \in Settings, NEW m, FullMode(m, s), NEW k, Fresh(k, m), s.order.tree,
           NEW a, a = Planted(k, m)
    PROVE  /\ Family(a) /\ Listed(a) = Listed(k) /\ a.hidden = 0 /\ a.found = alive
           /\ a.dead = k.dead
           /\ \A p \in Pids : ~a.ent[p].filt
           /\ ~s.paused => RootedIn(a)
           /\ \A p \in Listed(a) \cap alive : a.ent[p].use = Own[p]
           /\ \A p \in Listed(a) : p \in a.dead <=> p \notin alive
           /\ ~s.paused => Listed(a) = alive
           /\ Counted(Tree(k, m)) = Arrange(a, m)
<1>1. /\ Sound(k) /\ 1 \in Listed(k) /\ k.found = alive /\ Listed(k) \subseteq Pids
      /\ \A p \in Listed(k) : p \in k.dead <=> p \notin alive
      /\ ~s.paused => Listed(k) = alive
      /\ \A p \in Listed(k) \cap alive : k.ent[p].use = Own[p]
  BY ListedIs DEF Fresh, FullMode
<1>2. m \in Modes /\ m.should /\ m.tree /\ m.paused = s.paused /\ m.o.tree
  BY DEF FullMode
<1>3. /\ Family(a) /\ Kept(a, k) /\ Listed(a) = Listed(k)
      /\ a.hidden = IF m.should \/ m.o.filter THEN 0 ELSE k.hidden
      /\ \A p \in Pids : /\ a.ent[p].use = k.ent[p].use /\ a.ent[p].filt = k.ent[p].filt
                         /\ a.ent[p].ppid = IF p \in Orphans(k, m.paused) THEN None
                                            ELSE k.ent[p].ppid
  BY <1>1, <1>2, PlantedIs
<1>4. Counted(Tree(k, m)) = Arrange(a, m)
  BY <1>1, <1>2, TreeSteps DEF Arrange
<1>5. \A p \in Pids : ~a.ent[p].filt
  BY <1>2, <1>3 DEF Fresh
<1>6. a.found = alive /\ a.dead = k.dead
  BY <1>1, <1>3 DEF Kept
<1>7. ~s.paused => RootedIn(a)
  BY <1>1, <1>2, <1>3 DEF RootedIn, Orphans
<1> QED
  BY <1>1, <1>2, <1>3, <1>4, <1>5, <1>6, <1>7

LEMMA TreeDrawnIn ==
    ASSUME World, NEW s \in Settings, NEW m, FullMode(m, s), NEW k, Fresh(k, m), s.order.tree,
           NEW z, z = Counted(Tree(k, m)), s.paused => RootedIn(z)
    PROVE  /\ (s.order.filter /\ FoldedIn(z)) \/ z.rows = Len(Rows(z, TRUE))
           /\ ~s.order.filter =>
                \A p \in Listed(z) : p \in ToSet(Rows(z, TRUE)) <=> \A q \in Above(z, p) : ~z.ent[q].coll
           /\ s.order.filter /\ ~FoldedIn(z) =>
                \A p \in Listed(z) : p \in ToSet(Rows(z, TRUE)) <=>
                                       (Above(z, p) \cup {p}) \cap Matching # {}
<1> DEFINE a == Planted(k, m)
<1>1. /\ Family(a) /\ Listed(a) = Listed(k) /\ a.hidden = 0
      /\ \A p \in Pids : ~a.ent[p].filt
      /\ ~s.paused => RootedIn(a)
      /\ z = Arrange(a, m)
  BY PlantedFresh
<1> HIDE DEF a
<1>2. m \in Modes /\ m.full /\ m.should /\ m.o = s.order
  BY DEF FullMode
<1>3. /\ Sound(z) /\ Listed(z) = Listed(a) /\ z.rows = Len(z.order) - z.hidden
      /\ \A p \in Pids : z.ent[p].ppid = a.ent[p].ppid
  BY <1>1, <1>2, ArrangeSteps
<1>4. Listed(z) \subseteq Pids
  BY <1>3, ListedIs
<1>5. RootedIn(a)
  BY <1>1, <1>3, <1>4 DEF RootedIn
<1>6. Visited(a) = Listed(z)
  BY <1>1, <1>3, <1>5, RootedVisited
<1>7. \A p \in Listed(z) : ~z.ent[p].filt => z.ent[p].idx # Len(z.order)
  BY <1>1, <1>2, <1>6, TreeNumbers
<1>8. \A p \in Listed(z) : p \in ToSet(Rows(z, TRUE)) <=> ~z.ent[p].filt
  <2>1. ToSet(Rows(z, TRUE)) = ShownOf(z, TRUE)
    BY <1>3, RowsLine
  <2> QED
    BY <1>7, <2>1 DEF ShownOf
<1>9. /\ ~m.o.filter =>
           \A p \in Visited(a) : z.ent[p].filt <=> \E q \in Above(z, p) : z.ent[q].coll
      /\ m.o.filter /\ ~FoldedIn(z) =>
           \A p \in Visited(a) : z.ent[p].filt <=> (Above(z, p) \cup {p}) \cap Matching = {}
      /\ ~m.o.filter \/ ~FoldedIn(z) =>
           z.hidden = Cardinality({p \in Listed(z) : z.ent[p].filt})
  BY <1>1, <1>2, TreeHides
<1>10. (s.order.filter /\ FoldedIn(z)) \/ z.rows = Len(Rows(z, TRUE))
  <2> SUFFICES ASSUME ~(s.order.filter /\ FoldedIn(z)) PROVE z.rows = Len(Rows(z, TRUE))
    OBVIOUS
  <2>1. z.hidden = Cardinality({p \in Listed(z) : z.ent[p].filt})
    BY <1>2, <1>9
  <2> QED
    BY <1>3, <1>7, <2>1, RowsMatch
<1>11. ~s.order.filter =>
         \A p \in Listed(z) : p \in ToSet(Rows(z, TRUE)) <=> \A q \in Above(z, p) : ~z.ent[q].coll
  BY <1>2, <1>6, <1>8, <1>9
<1>12. s.order.filter /\ ~FoldedIn(z) =>
         \A p \in Listed(z) : p \in ToSet(Rows(z, TRUE)) <=>
                                (Above(z, p) \cup {p}) \cap Matching # {}
  BY <1>2, <1>6, <1>8, <1>9
<1> QED
  BY <1>10, <1>11, <1>12

LEMMA TreeOrdered ==
    ASSUME World, NEW s \in Settings, NEW m, FullMode(m, s), NEW k, Fresh(k, m), s.order.tree,
           NEW z, z = Counted(Tree(k, m)), s.paused => RootedIn(z)
    PROVE  LET rows == Rows(z, TRUE) IN
           \A i, j \in DOMAIN rows : z.ent[rows[j]].ppid = rows[i] =>
             i < j /\ \A x \in i..j : rows[x] \in Fam(z, rows[i])
<1> DEFINE a == Planted(k, m)
           rows == Rows(z, TRUE)
<1>1. Family(a) /\ Listed(a) = Listed(k) /\ z = Arrange(a, m) /\ (~s.paused => RootedIn(a))
  BY PlantedFresh
<1> HIDE DEF a
<1>2. m \in Modes
  BY DEF FullMode
<1>3. /\ Sound(z) /\ Listed(z) = Listed(a)
      /\ \A p \in Pids : z.ent[p].ppid = a.ent[p].ppid
      /\ \A p : Fam(z, p) = Fam(a, p) /\ Kids(z, p) = Kids(a, p)
      /\ \A p, q \in Listed(a) :
           <<p, q>> \in Leads(z.order) <=>
             \/ z.ent[p].idx < z.ent[q].idx
             \/ z.ent[p].idx = z.ent[q].idx /\ <<p, q>> \in Leads(a.order)
  BY <1>1, <1>2, ArrangeSteps
<1>4. Listed(z) \subseteq Pids /\ \A p \in Pids : z.ent[p].idx \in Int
  <2>1. \A p \in Pids : z.ent[p] \in Entries
    BY <1>3, ParentLower
  <2>2. \A p \in Pids : z.ent[p].idx \in 0..Cardinality(Pids)
    BY <2>1 DEF Entries
  <2> QED
    BY <1>3, <2>2, ListedIs
<1>5. Visited(a) = Listed(z)
  <2>1. RootedIn(a)
    BY <1>1, <1>3, <1>4 DEF RootedIn
  <2> QED
    BY <1>1, <1>3, <2>1, RootedVisited
<1>6. Line(rows, ShownOf(z, TRUE), Leads(z.order))
  BY <1>3, RowsLine
<1> HIDE DEF rows
<1>7. /\ DOMAIN rows = 1..Len(rows) /\ Len(rows) \in Nat
      /\ \A i \in DOMAIN rows : rows[i] \in ShownOf(z, TRUE)
      /\ \A i, j \in DOMAIN rows : i < j <=> <<rows[i], rows[j]>> \in Leads(z.order)
  <2>1. rows \in Seq(ShownOf(z, TRUE))
    BY <1>6 DEF Line
  <2>2. DOMAIN rows = 1..Len(rows) /\ Len(rows) \in Nat
    BY <2>1
  <2>3. \A i \in DOMAIN rows : rows[i] \in ShownOf(z, TRUE)
    BY <2>1, <2>2, ElementOfSeq
  <2> QED
    BY <1>6, <2>2, <2>3 DEF Line
<1>8. ASSUME NEW i \in DOMAIN rows
      PROVE  /\ rows[i] \in Listed(z) /\ ~z.ent[rows[i]].filt /\ rows[i] \in Visited(a)
             /\ z.ent[rows[i]].idx \in Int
  BY <1>4, <1>5, <1>7 DEF ShownOf
<1>9. ASSUME NEW i \in DOMAIN rows, NEW j \in DOMAIN rows, i < j
      PROVE  z.ent[rows[i]].idx <= z.ent[rows[j]].idx
  <2>1. <<rows[i], rows[j]>> \in Leads(z.order)
    BY <1>7, <1>9
  <2>2. rows[i] \in Listed(a) /\ rows[j] \in Listed(a)
    BY <1>3, <1>8
  <2>3. z.ent[rows[i]].idx < z.ent[rows[j]].idx \/ z.ent[rows[i]].idx = z.ent[rows[j]].idx
    BY <1>3, <2>1, <2>2
  <2> QED
    BY <1>8, <2>3
<1>10. ASSUME NEW i \in DOMAIN rows, NEW j \in DOMAIN rows, z.ent[rows[j]].ppid = rows[i]
       PROVE  i < j /\ \A x \in i..j : rows[x] \in Fam(z, rows[i])
  <2>1. rows[j] \in Kids(a, rows[i])
    <3>1. rows[j] \in Listed(z)
      BY <1>8
    <3>2. rows[j] \in Kids(z, rows[i])
      BY ONLY <1>10, <3>1 DEF Kids
    <3>3. \A p : Kids(z, p) = Kids(a, p)
      BY <1>3
    <3> QED
      BY ONLY <3>2, <3>3
  <2>2. z.ent[rows[i]].idx < z.ent[rows[j]].idx
    BY <1>1, <1>2, <1>8, <2>1, TreeBetween
  <2>3. i < j
    <3>1. CASE j < i
      <4>1. z.ent[rows[j]].idx <= z.ent[rows[i]].idx
        BY <1>9, <3>1
      <4> QED
        BY <1>8, <2>2, <4>1
    <3>2. CASE j = i
      BY <1>8, <2>2, <3>2
    <3> QED
      BY <1>7, <3>1, <3>2
  <2>4. ASSUME NEW x \in i..j PROVE rows[x] \in Fam(z, rows[i])
    <3>1. x \in DOMAIN rows /\ i \in Int /\ j \in Int /\ x \in Int
      BY <1>7, <2>4
    <3>2. z.ent[rows[i]].idx <= z.ent[rows[x]].idx /\ z.ent[rows[x]].idx <= z.ent[rows[j]].idx
      BY <1>8, <1>9, <2>4, <3>1
    <3>3. rows[x] \in Fam(a, rows[i])
      BY <1>1, <1>2, <1>8, <2>1, <3>1, <3>2, TreeBetween
    <3> QED
      BY <1>3, <3>3
  <2> QED
    BY <2>3, <2>4
<1> QED
  BY <1>10 DEF rows

LEMMA UsageIn ==
    ASSUME World, NEW s \in Settings, NEW m, FullMode(m, s), NEW k, Fresh(k, m), s.order.tree,
           NEW z, z = Counted(Tree(k, m)), ~s.paused, ~s.order.filter,
           NEW p \in Listed(z), s.aggregate \/ z.ent[p].coll
    PROVE  z.ent[p].use = Sum(Own, Fam(z, p))
<1> DEFINE a == Planted(k, m)
<1>1. /\ Family(a) /\ RootedIn(a) /\ Listed(a) = alive
      /\ \A q \in Listed(a) \cap alive : a.ent[q].use = Own[q]
      /\ \A q \in Listed(a) : q \in a.dead <=> q \notin alive
      /\ z = Arrange(a, m)
  BY PlantedFresh
<1> HIDE DEF a
<1>2. /\ m \in Modes /\ m.full /\ m.should /\ ~m.o.filter /\ m.aggregate = s.aggregate
  BY DEF FullMode
<1>3. /\ Listed(z) = Listed(a)
      /\ \A q \in Pids : /\ z.ent[q].coll = a.ent[q].coll /\ z.ent[q].use = Gen(a, m).ent[q].use
      /\ \A q : Fam(z, q) = Fam(a, q)
  BY <1>1, <1>2, ArrangeSteps
<1>4. Sound(a) /\ Listed(a) \subseteq Pids /\ IsFiniteSet(Listed(a)) /\ p \in Pids
  BY <1>1, <1>3, ListedIs DEF Family
<1>5. \A q \in Listed(a) : ~a.ent[q].dead
  BY <1>1, <1>4 DEF Sound
<1>6. p \in Visited(a) /\ (m.aggregate \/ a.ent[p].coll)
  BY <1>1, <1>2, <1>3, <1>4, RootedVisited
<1>7. Gen(a, m).ent[p].use = Sum(Uses(a), Fam(a, p))
  BY <1>1, <1>2, <1>5, <1>6, UsageSummed
<1>8. Sum(Uses(a), Fam(a, p)) = Sum(Own, Fam(a, p))
  <2>1. Fam(a, p) \subseteq Listed(a) /\ IsFiniteSet(Fam(a, p))
    BY <1>4, FS_Subset DEF Fam
  <2>2. \A q \in Fam(a, p) : Uses(a)[q] \in Nat /\ Uses(a)[q] = Own[q]
    BY <1>1, <1>4, <2>1, ProcListAssumption DEF Uses
  <2> QED
    BY <2>1, <2>2, SumSame
<1> QED
  BY <1>3, <1>4, <1>7, <1>8

\* What a full collection leaves is drawn as it should be.
DrawnIn(l, s) ==
    /\ RowsCountedIn(l, s) /\ TreeShownIn(l, s) /\ FamiliesFoundIn(l, s) /\ TreeOrderIn(l, s)
    /\ SubtreeUsageIn(l, s)

LEMMA DrawnIs ==
    ASSUME World, NEW s \in Settings, NEW m, FullMode(m, s), NEW k, Fresh(k, m)
    PROVE  DrawnIn(Counted(Tree(k, m)), s)
<1> DEFINE z == Counted(Tree(k, m))
<1>1. CASE ~s.order.tree
  <2>1. RowsCountedIn(z, s)
    BY <1>1, FlatDrawn
  <2> HIDE DEF z
  <2> QED
    BY <1>1, <2>1 DEF DrawnIn, TreeShownIn, FamiliesFoundIn, TreeOrderIn, SubtreeUsageIn, InTreeIn, z
<1>2. CASE s.order.tree
  <2>0. s.order.tree = TRUE
    BY <1>2 DEF Settings, Orders
  <2>1. CASE s.paused /\ ~RootedIn(z)
    <3>1. ~InTreeIn(z, s)
      BY <2>1 DEF InTreeIn
    <3> HIDE DEF z
    <3> QED
      BY <1>2, <3>1 DEF DrawnIn, RowsCountedIn, TreeShownIn, FamiliesFoundIn, TreeOrderIn,
                        SubtreeUsageIn, z
  <2>2. CASE ~s.paused \/ RootedIn(z)
    <3>1. /\ (s.order.filter /\ FoldedIn(z)) \/ z.rows = Len(Rows(z, TRUE))
          /\ ~s.order.filter =>
               \A p \in Listed(z) : p \in ToSet(Rows(z, TRUE)) <=>
                                      \A q \in Above(z, p) : ~z.ent[q].coll
          /\ s.order.filter /\ ~FoldedIn(z) =>
               \A p \in Listed(z) : p \in ToSet(Rows(z, TRUE)) <=>
                                      (Above(z, p) \cup {p}) \cap Matching # {}
      BY <1>2, <2>2, TreeDrawnIn
    <3>2. LET rows == Rows(z, TRUE) IN
          \A i, j \in DOMAIN rows : z.ent[rows[j]].ppid = rows[i] =>
            i < j /\ \A x \in i..j : rows[x] \in Fam(z, rows[i])
      BY <1>2, <2>2, TreeOrdered
    <3>3. ~s.paused /\ ~s.order.filter =>
            \A p \in Listed(z) : s.aggregate \/ z.ent[p].coll => z.ent[p].use = Sum(Own, Fam(z, p))
      BY <1>2, UsageIn
    <3> HIDE DEF z
    <3>4. RowsCountedIn(z, s)
      BY <2>0, <3>1 DEF RowsCountedIn
    <3>5. TreeShownIn(z, s)
      BY <2>0, <3>1 DEF TreeShownIn
    <3>6. FamiliesFoundIn(z, s)
      BY <2>0, <3>1 DEF FamiliesFoundIn
    <3>7. TreeOrderIn(z, s)
      BY <2>0, <3>2 DEF TreeOrderIn
    <3>8. SubtreeUsageIn(z, s)
      BY <3>3 DEF SubtreeUsageIn
    <3> QED
      BY <3>4, <3>5, <3>6, <3>7, <3>8 DEF DrawnIn, z
  <2> QED
    BY <2>1, <2>2
<1> QED
  BY <1>1, <1>2

-----------------------------------------------------------------------------
(* The list while it is paused.                                            *)

\* The siblings before p in the list.
ElderOnes(l, p) == {q \in Kids(l, l.ent[p].ppid) : <<q, p>> \in Leads(l.order)}

\* How the numbers, the hiding and the order of a list in tree mode hang together, so
\* that they come out the same when nothing new is read.
TreeStands(l) ==
    /\ \A p \in Listed(l) :
         l.ent[p].filt <=> p \in Reached(l) /\ \E q \in Above(l, p) : l.ent[q].coll
    /\ \A p \in Reached(l) : ~l.ent[p].filt =>
         l.ent[p].idx = Sum(RowsOf(l), ElderOnes(l, p)) +
                          (IF l.ent[p].ppid = None THEN 0 ELSE l.ent[l.ent[p].ppid].idx + 1)
    /\ \A p, q \in Listed(l) :
         \/ l.ent[p].idx < l.ent[q].idx
         \/ l.ent[p].idx = l.ent[q].idx /\ l.ent[p].ppid < l.ent[q].ppid
         => <<p, q>> \in Leads(l.order)

Stands(l, s) ==
    /\ s.paused => \A p \in Listed(l) \ l.dead : p = 1 \/ l.ent[p].ppid # None
    /\ ~s.order.tree => \A p \in Listed(l) : l.ent[p].filt <=> ~Matches(p, s.order)
    /\ s.order.tree /\ ~s.order.filter => TreeStands(l)

LEMMA RowsSame ==
    ASSUME NEW l, Sound(l), NEW k, Sound(k), Listed(k) = Listed(l),
           \A p \in Pids : k.ent[p].ppid = l.ent[p].ppid /\ k.ent[p].filt = l.ent[p].filt
    PROVE  Ones(k) = Ones(l) /\ RowsOf(k) = RowsOf(l)
<1>1. Ones(k) = Ones(l)
  BY DEF Ones
<1>2. \A p : Kids(k, p) = Kids(l, p)
  BY SameFamilies
<1>3. [p \in Pids |-> Kids(k, p)] = [p \in Pids |-> Kids(l, p)]
  BY <1>2
<1> QED
  BY <1>1, <1>3 DEF RowsOf

\* A process that is shown has its parent and all its siblings shown: without a filter
\* only what is above them counts.
LEMMA ShownTogether ==
    ASSUME NEW a, Family(a), NEW z, \A p \in Pids : z.ent[p].coll = a.ent[p].coll,
           \A p \in Visited(a) : z.ent[p].filt <=> \E q \in Above(a, p) : a.ent[q].coll,
           NEW p \in Visited(a), ~z.ent[p].filt
    PROVE  /\ \A q \in Kids(a, a.ent[p].ppid) : q \in Visited(a) /\ ~z.ent[q].filt
           /\ p \notin Roots(a) => a.ent[p].ppid \in Visited(a) /\ ~z.ent[a.ent[p].ppid].filt
<1>1. Sound(a) /\ Visited(a) \subseteq Listed(a) /\ Listed(a) \subseteq Pids
  BY ListedIs DEF Family, Visited
<1>2. CASE p \in Roots(a)
  <2>1. ASSUME NEW q \in Kids(a, a.ent[p].ppid)
        PROVE  q \in Visited(a) /\ ~z.ent[q].filt
    <3>1. q \in Roots(a)
      BY <1>2, RootsAre DEF Kids
    <3>2. q \in Visited(a) /\ Above(a, q) = {}
      BY <3>1, RootAlone
    <3> QED
      BY <3>2
  <2> QED
    BY <1>2, <2>1
<1>3. CASE p \notin Roots(a)
  <2>1. /\ a.ent[p].ppid \in Visited(a)
        /\ Above(a, p) = {a.ent[p].ppid} \cup Above(a, a.ent[p].ppid)
    BY <1>3, VisitedUp
  <2>2. \A q \in Above(a, p) : ~a.ent[q].coll
    OBVIOUS
  <2>3. ~z.ent[a.ent[p].ppid].filt
    BY <2>1, <2>2
  <2>4. ASSUME NEW q \in Kids(a, a.ent[p].ppid)
        PROVE  q \in Visited(a) /\ ~z.ent[q].filt
    <3>1. q \in Visited(a) /\ q \notin Roots(a) /\ a.ent[q].ppid = a.ent[p].ppid
      BY <2>1, VisitedDown
    <3>2. Above(a, q) = {a.ent[q].ppid} \cup Above(a, a.ent[q].ppid)
      BY <3>1, VisitedUp
    <3>3. Above(a, q) = Above(a, p)
      BY <2>1, <3>1, <3>2
    <3> QED
      BY <2>2, <3>1, <3>3
  <2> QED
    BY <2>1, <2>3, <2>4
<1> QED
  BY <1>2, <1>3

\* The tree of a full collection stands.
LEMMA ArrangedStands ==
    ASSUME NEW a, Family(a), NEW m \in Modes, m.full, m.should, ~m.o.filter,
           \A p \in Pids : ~a.ent[p].filt, a.hidden = 0,
           \A p, q \in Listed(a) : a.ent[p].ppid < a.ent[q].ppid => <<p, q>> \in Leads(a.order),
           NEW z, z = Arrange(a, m)
    PROVE  TreeStands(z)
<1> DEFINE g == Gen(a, m)
<1>1. /\ Family(g) /\ Sound(z) /\ Listed(g) = Listed(a) /\ Listed(z) = Listed(a)
      /\ g.order = a.order /\ Visited(g) = Visited(a)
      /\ \A p \in Pids : /\ Above(z, p) = Above(a, p) /\ Above(g, p) = Above(a, p)
                         /\ z.ent[p].ppid = a.ent[p].ppid /\ z.ent[p].coll = a.ent[p].coll
                         /\ z.ent[p].filt = g.ent[p].filt
                         /\ g.ent[p].ppid = a.ent[p].ppid
      /\ \A p : Kids(z, p) = Kids(a, p)
      /\ \A p \in Pids \ Visited(a) : z.ent[p] = a.ent[p]
      /\ \A p, q \in Listed(a) :
           <<p, q>> \in Leads(z.order) <=>
             \/ z.ent[p].idx < z.ent[q].idx
             \/ z.ent[p].idx = z.ent[q].idx /\ <<p, q>> \in Leads(a.order)
  BY ArrangeSteps
<1>2. PICK next : /\ Numbers(g, m, next)
                  /\ \A p \in Visited(a) : ~z.ent[p].filt => z.ent[p].idx = next[p]
  <2>1. Family(a) /\ m \in Modes /\ z = Arrange(a, m)
    OBVIOUS
  <2> QED
    BY ONLY <2>1, ArrangeSteps DEF g
<1> HIDE DEF g
<1>3. /\ Sound(a) /\ Sound(g) /\ Visited(a) \subseteq Listed(a) /\ Listed(a) \subseteq Pids
      /\ \A p \in Pids : z.ent[p].idx \in Int
  <2>1. \A p \in Pids : z.ent[p] \in Entries
    BY <1>1, ParentLower
  <2>2. \A p \in Pids : z.ent[p].idx \in 0..Cardinality(Pids)
    BY <2>1 DEF Entries
  <2> QED
    BY <1>1, <2>2, ListedIs DEF Family, Visited
<1>4. Visited(a) = Reached(z)
  <2>1. \A p \in Listed(a) : \A q \in Above(a, p) : q \in Pids
    BY <1>3, AboveLower
  <2>2. Reached(z) = Reached(a)
    BY <1>1, <1>3, <2>1 DEF Reached
  <2> QED
    BY <2>2, ReachedVisited
<1>5. \A p \in Visited(a) : z.ent[p].filt <=> \E q \in Above(a, p) : a.ent[q].coll
  <2>1. \A p \in Visited(a) : z.ent[p].filt <=> \E q \in Above(z, p) : z.ent[q].coll
    BY TreeHides
  <2>2. \A p \in Listed(a) : \A q \in Above(a, p) : q \in Pids
    BY <1>3, AboveLower
  <2> QED
    BY <1>1, <1>3, <2>1, <2>2
<1>6. ASSUME NEW p \in Listed(z)
      PROVE  z.ent[p].filt <=> p \in Reached(z) /\ \E q \in Above(z, p) : z.ent[q].coll
  <2>1. CASE p \in Visited(a)
    <3>1. z.ent[p].filt <=> \E q \in Above(z, p) : z.ent[q].coll
      BY <2>1, TreeHides
    <3> QED
      BY <1>4, <2>1, <3>1
  <2>2. CASE p \notin Visited(a)
    <3>1. ~z.ent[p].filt
      BY <1>1, <1>3, <2>2
    <3> QED
      BY <1>4, <2>2, <3>1
  <2> QED
    BY <2>1, <2>2
<1>7. ASSUME NEW p \in Listed(z), NEW q \in Listed(z),
             \/ z.ent[p].idx < z.ent[q].idx
             \/ z.ent[p].idx = z.ent[q].idx /\ z.ent[p].ppid < z.ent[q].ppid
      PROVE  <<p, q>> \in Leads(z.order)
  BY <1>1, <1>3, <1>7
<1>8. RowsOf(g) = RowsOf(z)
  BY <1>1, <1>3, RowsSame
<1>9. ASSUME NEW p \in Visited(a), ~z.ent[p].filt
      PROVE  /\ next[p] \in Nat /\ z.ent[p].idx = next[p]
             /\ RowsOf(g)[p] \in Nat /\ RowsOf(g)[p] >= 1 /\ Ones(g)[p] = 1
  <2>1. Ones(g)[p] = 1
    BY <1>1, <1>3, <1>9, RowsAre
  <2> QED
    BY <1>1, <1>2, <1>3, <1>9, <2>1, NextIs
<1>10. ASSUME NEW p \in Visited(a), ~z.ent[p].filt
       PROVE  Elders(g, m, p) = ElderOnes(z, p)
  <2>1. \A q \in Kids(a, a.ent[p].ppid) : q \in Visited(a) /\ ~z.ent[q].filt
    BY <1>1, <1>5, <1>10, ShownTogether
  <2>2. StrictOrder(Listed(g), Earlier(g.order, SiblingKey(g, m)))
    BY <1>3, EldersAre
  <2>3. ASSUME NEW q \in Kids(a, a.ent[p].ppid)
        PROVE  <<q, p>> \in Earlier(g.order, SiblingKey(g, m)) <=> <<q, p>> \in Leads(z.order)
    <3>0. /\ q \in Listed(g) /\ p \in Listed(g) /\ g.ent[q].ppid = g.ent[p].ppid
          /\ q \in Listed(a) /\ p \in Listed(a)
      BY <1>1, <1>3 DEF Kids
    <3>1. /\ next[q] \in Nat /\ z.ent[q].idx = next[q] /\ RowsOf(g)[q] \in Nat
          /\ RowsOf(g)[q] >= 1
          /\ next[p] \in Nat /\ z.ent[p].idx = next[p] /\ RowsOf(g)[p] \in Nat
          /\ RowsOf(g)[p] >= 1
      BY <1>9, <1>10, <2>1
    <3>2. CASE <<q, p>> \in Earlier(g.order, SiblingKey(g, m))
      <4>1. next[q] + RowsOf(g)[q] <= next[p]
        BY <1>1, <1>2, <3>0, <3>2, SiblingSpan
      <4>2. z.ent[q].idx < z.ent[p].idx
        BY <3>1, <4>1
      <4> QED
        BY <1>1, <3>0, <3>2, <4>2
    <3>3. CASE <<p, q>> \in Earlier(g.order, SiblingKey(g, m))
      <4>1. next[p] + RowsOf(g)[p] <= next[q]
        BY <1>1, <1>2, <3>0, <3>3, SiblingSpan
      <4>2. z.ent[p].idx < z.ent[q].idx
        BY <3>1, <4>1
      <4>3. ~(z.ent[q].idx < z.ent[p].idx) /\ z.ent[q].idx # z.ent[p].idx
        BY <3>1, <4>2
      <4>4. <<q, p>> \notin Earlier(g.order, SiblingKey(g, m))
        BY <2>2, <3>0, <3>3 DEF StrictOrder
      <4> QED
        BY <1>1, <3>0, <4>3, <4>4
    <3>4. CASE q = p
      <4>1. <<q, p>> \notin Earlier(g.order, SiblingKey(g, m))
        BY <2>2, <3>0, <3>4 DEF StrictOrder
      <4>2. <<q, p>> \notin Leads(z.order)
        <5>1. z.order \in Seq(Pids) /\ IsInjective(z.order) /\ p \in ToSet(z.order)
          BY <1>1, <3>0 DEF Sound, Lists, Listed
        <5> QED
          BY <3>4, <5>1, LeadsOrder DEF StrictOrder
      <4> QED
        BY <4>1, <4>2
    <3> QED
      BY <2>2, <3>0, <3>2, <3>3, <3>4 DEF StrictOrder
  <2>4. /\ Kids(g, g.ent[p].ppid) = Kids(a, a.ent[p].ppid)
        /\ Kids(z, z.ent[p].ppid) = Kids(a, a.ent[p].ppid)
    BY <1>1, <1>3 DEF Kids
  <2> QED
    BY <2>3, <2>4 DEF Elders, ElderOnes
<1>11. ASSUME NEW p \in Visited(a), ~z.ent[p].filt
       PROVE  z.ent[p].idx = Sum(RowsOf(z), ElderOnes(z, p)) +
                (IF z.ent[p].ppid = None THEN 0 ELSE z.ent[z.ent[p].ppid].idx + 1)
  <2>1. p \in Listed(g) /\ p \in Pids /\ g.ent[p].ppid = z.ent[p].ppid /\ z.ent[p].ppid = a.ent[p].ppid
    BY <1>1, <1>3
  <2>2. CASE z.ent[p].ppid = None
    <3>1. next[p] = Sum(RowsOf(g), Elders(g, m, p))
      BY <1>1, <1>2, <2>1, <2>2, NextIs
    <3>2. Sum(RowsOf(g), Elders(g, m, p)) \in Nat
      BY <1>3, <2>1, EldersAre
    <3> QED
      BY <1>8, <1>9, <1>10, <1>11, <2>2, <3>1, <3>2
  <2>3. CASE z.ent[p].ppid # None
    <3>1. p \notin Roots(a)
      BY <2>1, <2>3, RootsAre
    <3>2. a.ent[p].ppid \in Visited(a) /\ ~z.ent[a.ent[p].ppid].filt /\ a.ent[p].ppid \in Pids
      BY <1>1, <1>3, <1>5, <1>11, <3>1, ShownTogether
    <3>3. next[p] = Sum(RowsOf(g), Elders(g, m, p)) + (next[g.ent[p].ppid] + Ones(g)[g.ent[p].ppid])
      BY <1>1, <1>2, <2>1, <3>2, NextIs
    <3>4. Ones(g)[a.ent[p].ppid] = 1 /\ next[a.ent[p].ppid] = z.ent[a.ent[p].ppid].idx
      BY <1>9, <3>2
    <3> QED
      BY <1>8, <1>9, <1>10, <1>11, <2>1, <2>3, <3>3, <3>4
  <2> QED
    BY <2>2, <2>3
<1> QED
  BY <1>4, <1>6, <1>7, <1>11 DEF TreeStands

LEMMA FullStands ==
    ASSUME World, NEW s \in Settings, NEW m, FullMode(m, s), NEW k, Fresh(k, m)
    PROVE  Stands(Counted(Tree(k, m)), s)
<1> DEFINE a == Planted(k, m)
           z == Counted(Tree(k, m))
<1>1. /\ Sound(k) /\ 1 \in Listed(k) /\ Listed(k) \subseteq Pids
      /\ \A p \in Listed(k) : p \in k.dead <=> p \notin alive
      /\ \A p \in Listed(k) \cap alive : p # 1 => k.ent[p].ppid # None
      /\ \A p \in Pids : k.ent[p].filt <=> p \in Listed(k) /\ ~s.order.tree /\ ~Matches(p, s.order)
  BY ListedIs DEF Fresh, FullMode
<1>2. m \in Modes /\ m.full /\ m.should /\ m.o = s.order /\ m.paused = s.paused
  BY DEF FullMode
<1>3. CASE ~s.order.tree
  <2>1. Tree(k, m) = k
    BY <1>3 DEF Tree, FullMode
  <2>2. z.ent = k.ent /\ Listed(z) = Listed(k) /\ z.dead = k.dead
    BY <1>1, <2>1, CountedIs
  <2> HIDE DEF z
  <2>3. \A p \in Listed(z) \ z.dead : p = 1 \/ z.ent[p].ppid # None
    BY <1>1, <2>2
  <2>4. \A p \in Listed(z) : z.ent[p].filt <=> ~Matches(p, s.order)
    BY <1>1, <1>3, <2>2
  <2> QED
    BY <1>3, <2>3, <2>4 DEF Stands, z
<1>4. CASE s.order.tree
  <2>1. /\ Family(a) /\ Listed(a) = Listed(k) /\ a.hidden = 0 /\ a.dead = k.dead
        /\ \A p \in Pids : ~a.ent[p].filt
        /\ z = Arrange(a, m)
    BY <1>4, PlantedFresh
  <2>2. /\ \A p \in Pids : a.ent[p].ppid = IF p \in Orphans(k, m.paused) THEN None
                                           ELSE k.ent[p].ppid
        /\ \A p, q \in Listed(k) :
             <<p, q>> \in Leads(a.order) <=>
               \/ a.ent[p].ppid < a.ent[q].ppid
               \/ a.ent[p].ppid = a.ent[q].ppid /\ <<p, q>> \in Leads(k.order)
    BY <1>1, <1>2, PlantedIs
  <2> HIDE DEF a, z
  <2>3. /\ Listed(z) = Listed(a) /\ z.dead = a.dead
        /\ \A p \in Pids : z.ent[p].ppid = a.ent[p].ppid
    BY <1>2, <2>1, ArrangeSteps
  <2>4. s.paused => \A p \in Listed(z) \ z.dead : p = 1 \/ z.ent[p].ppid # None
    <3> SUFFICES ASSUME s.paused, NEW p \in Listed(z) \ z.dead, p # 1
                 PROVE  z.ent[p].ppid # None
      OBVIOUS
    <3>1. Orphans(k, m.paused) = {}
      BY <1>2 DEF Orphans
    <3>2. p \in Listed(k) \cap alive /\ p \in Pids
      BY <1>1, <2>1, <2>3
    <3>3. z.ent[p].ppid = k.ent[p].ppid
      BY <2>2, <2>3, <3>1, <3>2
    <3> QED
      BY <1>1, <3>2, <3>3
  <2>5. ~s.order.filter => TreeStands(z)
    <3>1. \A p, q \in Listed(a) : a.ent[p].ppid < a.ent[q].ppid => <<p, q>> \in Leads(a.order)
      BY <2>1, <2>2
    <3> QED
      BY <1>2, <2>1, <3>1, ArrangedStands
  <2> QED
    BY <1>4, <2>4, <2>5 DEF Stands, z
<1> QED
  BY <1>3, <1>4

\* The list that a paused full collection comes to the tree with, when nothing but what
\* the processes use has changed.
Unmoved(k, l) ==
    /\ Sound(k) /\ k.order = l.order /\ Listed(k) = Listed(l) /\ k.op = NoOp
    /\ \A p \in Pids : /\ k.ent[p].ppid = l.ent[p].ppid /\ k.ent[p].coll = l.ent[p].coll
                       /\ k.ent[p].idx = l.ent[p].idx

LEMMA UnmovedIs ==
    ASSUME World, NEW l, Sound(l), l.dead \cap alive = {}, l.op = NoOp, NEW s \in Settings, s.paused,
           l.known = s.order, Stands(l, s)
    PROVE  LET m == Mode(l, s, FALSE)
               k == Sorted(Filtered(Read(Noted(l, s), m), m), m)
           IN Unmoved(k, l) /\ ~m.resort /\ ~m.entering
<1> DEFINE m == Mode(l, s, FALSE)
           n == Noted(l, s)
           r == Read(n, m)
           f == Filtered(r, m)
           k == Sorted(f, m)
<1>1. /\ m \in Modes /\ m.o = s.order /\ m.paused /\ m.read /\ m.should /\ ~m.resort
      /\ ~m.entering
  BY ModeIs, ZenonT(30)
<1>2. /\ Sound(n) /\ Listed(n) = Listed(l) /\ n.order = l.order /\ n.ent = l.ent
      /\ n.dead = l.dead /\ n.op = l.op
  BY NotedIs
<1> HIDE DEF m, n
<1>3. /\ Sound(r) /\ r.op = n.op /\ Listed(r) = Listed(n) /\ r.order = n.order
      /\ \A p \in Listed(r) \cap alive : r.ent[p] = ReadAgain(n.ent[p], p)
      /\ \A p \in Listed(r) \ alive : r.ent[p] = Died(n.ent[p])
  <2>1. World /\ Sound(n) /\ n.dead \cap alive = {} /\ m \in Modes /\ m.read
    BY <1>1, <1>2
  <2>2. /\ Sound(r) /\ r.op = n.op
        /\ Listed(r) = IF m.paused THEN Listed(n) ELSE alive
        /\ m.paused => r.order = n.order
        /\ \A p \in Listed(r) \cap alive : r.ent[p] = ReadAgain(n.ent[p], p)
        /\ \A p \in Listed(r) \ alive : r.ent[p] = Died(n.ent[p])
    BY ONLY <2>1, ReadIs DEF r
  <2> QED
    BY <1>1, <2>2
<1> HIDE DEF r
<1>4. Listed(l) \subseteq Pids /\ \A p \in Pids : l.ent[p] \in Entries
  BY ListedIs, ParentLower
<1>5. ASSUME NEW p \in Pids
      PROVE  /\ r.ent[p].ppid = l.ent[p].ppid /\ r.ent[p].coll = l.ent[p].coll
             /\ r.ent[p].idx = l.ent[p].idx
  <2>1. CASE p \in Listed(l) \cap alive
    <3>1. r.ent[p] = ReadAgain(l.ent[p], p)
      BY <1>2, <1>3, <2>1
    <3>2. l.ent[p].ppid # None \/ p = 1
      BY <2>1 DEF Stands
    <3>3. parent[1] = None
      <4>1. parent[1] \in Pids \cup {None} /\ parent[1] < 1
        BY PidsAre DEF World
      <4> QED
        BY <4>1, PidNat
    <3>4. l.ent[p].ppid # None \/ parent[p] = None
      BY <3>2, <3>3
    <3>5. (IF l.ent[p].ppid = None THEN parent[p] ELSE l.ent[p].ppid) = l.ent[p].ppid
      BY <3>4
    <3> QED
      BY <1>4, <3>1, <3>5 DEF ReadAgain, Entries
  <2>2. CASE p \in Listed(l) \ alive
    <3>1. r.ent[p] = Died(l.ent[p])
      BY <1>2, <1>3, <2>2
    <3> QED
      BY <1>4, <3>1 DEF Died, Entries
  <2>3. CASE p \notin Listed(l)
    <3>1. r.ent[p] = Blank /\ l.ent[p] = Blank
      BY <1>2, <1>3, <2>3 DEF Sound
    <3> QED
      BY <3>1
  <2> QED
    BY <2>1, <2>2, <2>3
<1> DEFINE Filt(p) == ~m.o.tree /\ ~Matches(p, m.o)
<1>6. /\ Sound(f) /\ f.order = r.order /\ f.op = r.op
      /\ \A p \in Listed(f) : f.ent[p] = [r.ent[p] EXCEPT !.filt = Filt(p)]
  BY <1>1, <1>3, FilteredIs, ZenonT(30)
<1> HIDE DEF f, Filt
<1>7. Listed(f) = Listed(l)
  BY <1>2, <1>3, <1>6 DEF Listed
<1>8. ASSUME NEW p \in Pids
      PROVE  /\ f.ent[p].ppid = l.ent[p].ppid /\ f.ent[p].coll = l.ent[p].coll
             /\ f.ent[p].idx = l.ent[p].idx
  <2>1. CASE p \in Listed(l)
    <3>1. f.ent[p] = [r.ent[p] EXCEPT !.filt = Filt(p)] /\ r.ent[p] \in Entries
      BY <1>3, <1>6, <1>7, <2>1, ParentLower
    <3> QED
      BY <1>5, <3>1 DEF Entries
  <2>2. CASE p \notin Listed(l)
    <3>1. f.ent[p] = Blank /\ l.ent[p] = Blank
      BY <1>6, <1>7, <2>2 DEF Sound
    <3> QED
      BY <3>1
  <2> QED
    BY <2>1, <2>2
<1>9. k = f
  BY <1>1, <1>6, SortedIs
<1> HIDE DEF k
<1> QED
  BY <1>1, <1>2, <1>3, <1>6, <1>7, <1>8, <1>9 DEF Unmoved, k, f, r, n, m

LEMMA FlatRowsSame ==
    ASSUME NEW l, Sound(l), NEW z, Sound(z), z.order = l.order,
           \A p \in Listed(l) : z.ent[p].filt <=> l.ent[p].filt
    PROVE  Rows(z, FALSE) = Rows(l, FALSE)
<1>1. Listed(z) = Listed(l)
  BY DEF Listed
<1>2. \A p \in Pids \ Listed(l) : z.ent[p] = l.ent[p]
  BY <1>1 DEF Sound
<1>3. {p \in Pids : ~z.ent[p].filt /\ ~(FALSE /\ z.ent[p].idx = Len(z.order))}
        = {p \in Pids : ~l.ent[p].filt /\ ~(FALSE /\ l.ent[p].idx = Len(l.order))}
  BY <1>2
<1> QED
  BY <1>3 DEF Rows

\* Two lists show the same rows when they show the same processes in the same order.
LEMMA RowsEqual ==
    ASSUME NEW l, Sound(l), NEW z, Sound(z), NEW tree, ShownOf(z, tree) = ShownOf(l, tree),
           \A p, q \in ShownOf(l, tree) : <<p, q>> \in Leads(z.order) <=> <<p, q>> \in Leads(l.order)
    PROVE  Rows(z, tree) = Rows(l, tree)
<1> DEFINE T(k) == {p \in Pids : ~k.ent[p].filt /\ ~(tree /\ k.ent[p].idx = Len(k.order))}
<1>1. /\ ToSet(z.order) \cap T(z) = ShownOf(z, tree) /\ ToSet(l.order) \cap T(l) = ShownOf(l, tree)
  BY ListedIs DEF ShownOf, Listed
<1>2. /\ Rows(z, tree) = Ordered(ToSet(z.order) \cap T(z), Leads(z.order))
      /\ Rows(l, tree) = Ordered(ToSet(l.order) \cap T(l), Leads(l.order))
  BY DEF Rows, Only
<1> HIDE DEF T
<1>3. /\ Rows(z, tree) = Ordered(ShownOf(l, tree), Leads(z.order))
      /\ Rows(l, tree) = Ordered(ShownOf(l, tree), Leads(l.order))
  BY <1>1, <1>2
<1>4. Ordered(ShownOf(l, tree), Leads(z.order)) = Ordered(ShownOf(l, tree), Leads(l.order))
  BY OrderedSame
<1> QED
  BY <1>3, <1>4

\* The tree comes out with the numbers it had.
LEMMA NumbersStay ==
    ASSUME NEW l, Sound(l), TreeStands(l), NEW a, Family(a), Listed(a) = Listed(l),
           \A p \in Pids : a.ent[p].ppid = l.ent[p].ppid /\ a.ent[p].coll = l.ent[p].coll,
           \A p, q \in Listed(l) : a.ent[p].ppid = a.ent[q].ppid =>
             (<<p, q>> \in Leads(a.order) <=> <<p, q>> \in Leads(l.order)),
           \A p \in Pids : ~a.ent[p].filt, a.hidden = 0,
           NEW m \in Modes, m.full, m.should, ~m.o.filter, m.paused, ~m.resort,
           NEW z, z = Arrange(a, m)
    PROVE  /\ Visited(a) = Reached(l)
           /\ \A p \in Pids : z.ent[p].filt = l.ent[p].filt
           /\ \A p \in Visited(a) : ~z.ent[p].filt => z.ent[p].idx = l.ent[p].idx
<1> DEFINE g == Gen(a, m)
<1>1. /\ Family(g) /\ Sound(z) /\ Listed(g) = Listed(a) /\ Listed(z) = Listed(a)
      /\ g.order = a.order /\ Visited(g) = Visited(a)
      /\ \A p \in Pids : /\ Above(z, p) = Above(a, p) /\ Above(g, p) = Above(a, p)
                         /\ z.ent[p].ppid = a.ent[p].ppid /\ z.ent[p].coll = a.ent[p].coll
                         /\ z.ent[p].filt = g.ent[p].filt
                         /\ g.ent[p].ppid = a.ent[p].ppid
      /\ \A p \in Pids \ Visited(a) : z.ent[p] = a.ent[p]
  BY ArrangeSteps
<1>2. PICK next : /\ Numbers(g, m, next)
                  /\ \A p \in Visited(a) : ~z.ent[p].filt => z.ent[p].idx = next[p]
  <2>1. Family(a) /\ m \in Modes /\ z = Arrange(a, m)
    OBVIOUS
  <2> QED
    BY ONLY <2>1, ArrangeSteps DEF g
<1> HIDE DEF g
<1>3. /\ Sound(a) /\ Sound(g) /\ Visited(a) \subseteq Listed(a) /\ Listed(a) \subseteq Pids
  BY <1>1, ListedIs DEF Family, Visited
<1>4. \A p \in Pids : Above(a, p) = Above(l, p)
  BY <1>3, SameFamilies
<1>5. \A p \in Listed(a) : \A q \in Above(a, p) : q \in Pids
  BY <1>3, AboveLower
<1>6. Visited(a) = Reached(l)
  <2>1. Reached(a) = Reached(l)
    BY <1>3, <1>4, <1>5 DEF Reached
  <2> QED
    BY <2>1, ReachedVisited
<1>7. \A p \in Visited(a) : z.ent[p].filt <=> \E q \in Above(a, p) : a.ent[q].coll
  <2>1. \A p \in Visited(a) : z.ent[p].filt <=> \E q \in Above(z, p) : z.ent[q].coll
    BY TreeHides
  <2> QED
    BY <1>1, <1>3, <1>5, <2>1
<1>8. ASSUME NEW p \in Pids
      PROVE  z.ent[p].filt = l.ent[p].filt
  <2>1. z.ent[p] \in Entries /\ l.ent[p] \in Entries
    BY <1>1, ParentLower
  <2>2. CASE p \in Visited(a)
    <3>1. z.ent[p].filt <=> \E q \in Above(a, p) : a.ent[q].coll
      BY <1>7, <2>2
    <3>2. l.ent[p].filt <=> \E q \in Above(l, p) : l.ent[q].coll
      BY <1>3, <1>6, <2>2 DEF TreeStands
    <3>3. z.ent[p].filt <=> l.ent[p].filt
      BY <1>3, <1>4, <1>5, <2>2, <3>1, <3>2
    <3>4. z.ent[p].filt \in BOOLEAN /\ l.ent[p].filt \in BOOLEAN
      BY <2>1 DEF Entries
    <3> QED
      BY <3>3, <3>4
  <2>3. CASE p \in Listed(l) \ Visited(a)
    <3>1. ~z.ent[p].filt
      BY <1>1, <2>3
    <3>2. ~l.ent[p].filt
      BY <1>6, <2>3 DEF TreeStands
    <3>3. z.ent[p].filt \in BOOLEAN /\ l.ent[p].filt \in BOOLEAN
      BY <2>1 DEF Entries
    <3> QED
      BY <3>1, <3>2, <3>3
  <2>4. CASE p \notin Listed(l)
    <3>1. z.ent[p] = Blank /\ l.ent[p] = Blank
      BY <1>1, <2>4 DEF Sound
    <3> QED
      BY <3>1
  <2> QED
    BY <2>2, <2>3, <2>4
<1>9. RowsOf(g) = RowsOf(l) /\ Ones(g) = Ones(l)
  <2>1. \A p \in Pids : g.ent[p].ppid = l.ent[p].ppid /\ g.ent[p].filt = l.ent[p].filt
    BY <1>1, <1>8
  <2> QED
    BY <1>1, <1>3, <2>1, RowsSame
<1>10. ASSUME NEW p \in Visited(a)
       PROVE  Elders(g, m, p) = ElderOnes(l, p)
  <2>1. SiblingKey(g, m) = [q \in Pids |-> 0]
    BY DEF SiblingKey
  <2>2. /\ Kids(g, g.ent[p].ppid) = Kids(l, l.ent[p].ppid) /\ p \in Pids /\ p \in Listed(l)
        /\ \A q \in Kids(l, l.ent[p].ppid) : /\ q \in Pids /\ q \in Listed(l)
                                             /\ a.ent[q].ppid = a.ent[p].ppid
    BY <1>1, <1>3 DEF Kids
  <2>3. ASSUME NEW q \in Kids(l, l.ent[p].ppid)
        PROVE  <<q, p>> \in Earlier(g.order, SiblingKey(g, m)) <=> <<q, p>> \in Leads(l.order)
    <3>1. q \in Pids /\ p \in Pids /\ q \in Listed(l) /\ p \in Listed(l)
      BY <2>2
    <3>2. SiblingKey(g, m)[q] = 0 /\ SiblingKey(g, m)[p] = 0
      BY <2>1, <3>1
    <3>3. q \in ToSet(g.order) /\ p \in ToSet(g.order)
      BY <1>1, <3>1 DEF Listed
    <3>4. <<q, p>> \in Earlier(g.order, SiblingKey(g, m)) <=> <<q, p>> \in Leads(g.order)
      BY <3>2, <3>3, EarlierMeans
    <3> QED
      BY <1>1, <2>2, <3>1, <3>4
  <2> QED
    BY <2>2, <2>3 DEF Elders, ElderOnes
<1> DEFINE T == {p \in Pids : p \in Visited(a) /\ ~z.ent[p].filt => z.ent[p].idx = l.ent[p].idx}
<1>11. ASSUME NEW p \in Pids, \A q \in Pids : q < p => q \in T
       PROVE  p \in T
  <2> SUFFICES ASSUME p \in Visited(a), ~z.ent[p].filt PROVE z.ent[p].idx = l.ent[p].idx
    OBVIOUS
  <2>1. /\ p \in Listed(g) /\ g.ent[p].ppid = l.ent[p].ppid /\ a.ent[p].ppid = l.ent[p].ppid
        /\ z.ent[p].idx = next[p]
    BY <1>1, <1>2, <1>3
  <2>2. l.ent[p].idx = Sum(RowsOf(l), ElderOnes(l, p)) +
                         (IF l.ent[p].ppid = None THEN 0 ELSE l.ent[l.ent[p].ppid].idx + 1)
    BY <1>6, <1>8 DEF TreeStands
  <2>3. CASE l.ent[p].ppid = None
    <3>1. next[p] = Sum(RowsOf(g), Elders(g, m, p))
      BY <1>1, <1>2, <2>1, <2>3, NextIs
    <3>2. Sum(RowsOf(g), Elders(g, m, p)) \in Nat
      BY <1>3, EldersAre
    <3> QED
      BY <1>9, <1>10, <2>1, <2>2, <2>3, <3>1, <3>2
  <2>4. CASE l.ent[p].ppid # None
    <3> DEFINE q == a.ent[p].ppid
    <3>1. p \notin Roots(a)
      BY <2>1, <2>4, RootsAre
    <3>2. q \in Visited(a) /\ ~z.ent[q].filt
      BY <1>1, <1>7, <3>1, ShownTogether
    <3>3. q \in Pids /\ q < p
      BY <3>1, VisitedUp
    <3>4. next[p] = Sum(RowsOf(g), Elders(g, m, p)) + (next[q] + Ones(g)[q])
      BY <1>1, <1>2, <2>1, <3>3, NextIs
    <3>5. Ones(g)[q] = 1
      BY <1>1, <1>3, <3>2, <3>3, RowsAre
    <3>6. next[q] = l.ent[q].idx
      BY <1>2, <1>11, <3>2, <3>3
    <3> HIDE DEF T
    <3> QED
      BY <1>9, <1>10, <2>1, <2>2, <2>4, <3>4, <3>5, <3>6
  <2> QED
    BY <2>3, <2>4
<1> HIDE DEF T
<1>12. Pids \subseteq T
  BY <1>11, UpInduct
<1>13. \A p \in Visited(a) : ~z.ent[p].filt => z.ent[p].idx = l.ent[p].idx
  BY <1>3, <1>12 DEF T
<1> QED
  BY <1>6, <1>8, <1>13

\* So the same rows come in the same order.
LEMMA TreeStays ==
    ASSUME World, NEW s \in Settings, s.order.tree, ~s.order.filter, s.paused,
           NEW m, FullMode(m, s), ~m.resort, ~m.entering,
           NEW l, Sound(l), TreeStands(l), NEW k, Fresh(k, m), Unmoved(k, l)
    PROVE  Rows(Counted(Tree(k, m)), TRUE) = Rows(l, TRUE)
<1> DEFINE a == Planted(k, m)
           z == Counted(Tree(k, m))
<1>1. /\ Sound(k) /\ 1 \in Listed(k) /\ k.op = NoOp /\ Listed(k) = Listed(l) /\ k.order = l.order
      /\ \A p \in Pids : /\ k.ent[p].ppid = l.ent[p].ppid /\ k.ent[p].coll = l.ent[p].coll
                         /\ k.ent[p].idx = l.ent[p].idx
  BY DEF Fresh, Unmoved
<1>2. m \in Modes /\ m.full /\ m.should /\ m.o = s.order /\ m.paused
  BY DEF FullMode
<1>3. /\ Family(a) /\ a.hidden = 0
      /\ \A p \in Pids : ~a.ent[p].filt
      /\ z = Arrange(a, m)
  BY PlantedFresh
<1>4. /\ Listed(a) = Listed(k) /\ Len(a.order) = Len(k.order)
      /\ k.op = NoOp /\ m.paused /\ ~m.entering => a.ent = k.ent
      /\ \A p, q \in Listed(k) :
           <<p, q>> \in Leads(a.order) <=>
             \/ a.ent[p].ppid < a.ent[q].ppid
             \/ a.ent[p].ppid = a.ent[q].ppid /\ <<p, q>> \in Leads(k.order)
  BY <1>1, <1>2, PlantedIs
<1> HIDE DEF a, z
<1>5. a.ent = k.ent /\ Listed(l) \subseteq Pids /\ \A p \in Pids : l.ent[p].ppid \in Int
  BY <1>1, <1>2, <1>4, ListedIs, ParentLower
<1>6. /\ Listed(a) = Listed(l)
      /\ \A p \in Pids : a.ent[p].ppid = l.ent[p].ppid /\ a.ent[p].coll = l.ent[p].coll
  BY <1>1, <1>4, <1>5
<1>7. ASSUME NEW p \in Listed(l), NEW q \in Listed(l)
      PROVE  <<p, q>> \in Leads(a.order) <=>
               \/ l.ent[p].ppid < l.ent[q].ppid
               \/ l.ent[p].ppid = l.ent[q].ppid /\ <<p, q>> \in Leads(l.order)
  BY <1>1, <1>4, <1>5
<1>8. \A p, q \in Listed(l) : a.ent[p].ppid = a.ent[q].ppid =>
        (<<p, q>> \in Leads(a.order) <=> <<p, q>> \in Leads(l.order))
  BY <1>5, <1>6, <1>7
<1>9. /\ Visited(a) = Reached(l)
      /\ \A p \in Pids : z.ent[p].filt = l.ent[p].filt
      /\ \A p \in Visited(a) : ~z.ent[p].filt => z.ent[p].idx = l.ent[p].idx
  BY <1>2, <1>3, <1>6, <1>8, NumbersStay
<1>10. /\ Sound(z) /\ Listed(z) = Listed(a) /\ Len(z.order) = Len(a.order)
       /\ \A p \in Pids \ Visited(a) : z.ent[p] = a.ent[p]
       /\ \A p, q \in Listed(a) :
            <<p, q>> \in Leads(z.order) <=>
              \/ z.ent[p].idx < z.ent[q].idx
              \/ z.ent[p].idx = z.ent[q].idx /\ <<p, q>> \in Leads(a.order)
  BY <1>2, <1>3, ArrangeSteps
<1>11. ASSUME NEW p \in Listed(l), ~z.ent[p].filt
       PROVE  z.ent[p].idx = l.ent[p].idx
  <2>1. CASE p \in Visited(a)
    BY <1>9, <1>11, <2>1
  <2>2. CASE p \notin Visited(a)
    BY <1>1, <1>5, <1>10, <2>2
  <2> QED
    BY <2>1, <2>2
<1>12. ShownOf(z, TRUE) = ShownOf(l, TRUE)
  <2>1. Len(z.order) = Len(l.order) /\ Listed(z) = Listed(l)
    BY <1>1, <1>4, <1>6, <1>10
  <2>2. \A p \in Listed(l) : z.ent[p].filt = l.ent[p].filt
    BY <1>5, <1>9
  <2> QED
    BY <1>11, <2>1, <2>2 DEF ShownOf
<1>13. ASSUME NEW p \in ShownOf(l, TRUE), NEW q \in ShownOf(l, TRUE)
       PROVE  <<p, q>> \in Leads(z.order) <=> <<p, q>> \in Leads(l.order)
  <2>1. /\ p \in Listed(l) /\ q \in Listed(l) /\ p \in Listed(a) /\ q \in Listed(a)
        /\ ~z.ent[p].filt /\ ~z.ent[q].filt
    BY <1>5, <1>6, <1>9 DEF ShownOf
  <2>2. z.ent[p].idx = l.ent[p].idx /\ z.ent[q].idx = l.ent[q].idx
    BY <1>11, <2>1
  <2>3. l.ent[p].idx \in Int /\ l.ent[q].idx \in Int /\ l.ent[p].ppid \in Int /\ l.ent[q].ppid \in Int
    <3>1. p \in Pids /\ q \in Pids /\ l.ent[p] \in Entries /\ l.ent[q] \in Entries
      BY <1>5, <2>1, ParentLower
    <3>2. l.ent[p].idx \in 0..Cardinality(Pids) /\ l.ent[q].idx \in 0..Cardinality(Pids)
      BY <3>1 DEF Entries
    <3> QED
      BY <1>5, <3>1, <3>2
  <2>4. <<p, q>> \in Leads(z.order) <=>
          \/ l.ent[p].idx < l.ent[q].idx
          \/ /\ l.ent[p].idx = l.ent[q].idx
             /\ \/ l.ent[p].ppid < l.ent[q].ppid
                \/ l.ent[p].ppid = l.ent[q].ppid /\ <<p, q>> \in Leads(l.order)
    BY <1>7, <1>10, <2>1, <2>2
  <2>5. StrictOrder(Listed(l), Leads(l.order))
    <3>1. l.order \in Seq(Pids) /\ IsInjective(l.order) /\ Listed(l) = ToSet(l.order)
      BY DEF Sound, Lists, Listed
    <3> QED
      BY <3>1, LeadsOrder
  <2>6. ~(<<p, q>> \in Leads(l.order) /\ <<q, p>> \in Leads(l.order))
    BY <2>1, <2>5 DEF StrictOrder
  <2>7. /\ \/ l.ent[p].idx < l.ent[q].idx
           \/ l.ent[p].idx = l.ent[q].idx /\ l.ent[p].ppid < l.ent[q].ppid
           => <<p, q>> \in Leads(l.order)
        /\ \/ l.ent[q].idx < l.ent[p].idx
           \/ l.ent[q].idx = l.ent[p].idx /\ l.ent[q].ppid < l.ent[p].ppid
           => <<q, p>> \in Leads(l.order)
    BY <2>1 DEF TreeStands
  <2> QED
    BY ONLY <2>3, <2>4, <2>6, <2>7
<1>14. Rows(z, TRUE) = Rows(l, TRUE)
  BY <1>10, <1>12, <1>13, RowsEqual
<1> QED
  BY <1>14 DEF z

\* The first part of a full collection.
LEMMA FullBegins ==
    ASSUME World, NEW l, Sound(l), l.dead \cap alive = {}, NEW s \in Settings,
           s.paused => 1 \in Listed(l)
    PROVE  LET m == Mode(l, s, FALSE)
               k == Sorted(Filtered(Read(Noted(l, s), m), m), m)
           IN FullMode(m, s) /\ Fresh(k, m) /\ Collected(l, s, FALSE) = Counted(Tree(k, m))
<1> DEFINE m == Mode(l, s, FALSE)
           n == Noted(l, s)
           k == Sorted(Filtered(Read(n, m), m), m)
<1>1. Collected(l, s, FALSE) = Counted(Tree(k, m))
  BY CollectedSteps
<1>2. FullMode(m, s)
  BY ModeIs DEF FullMode
<1>3. Sound(n) /\ Listed(n) = Listed(l) /\ n.dead = l.dead
  BY NotedIs
<1> HIDE DEF m, n
<1>4. Fresh(k, m)
  BY <1>2, <1>3, FreshIs DEF FullMode
<1> QED
  BY <1>1, <1>2, <1>4 DEF m, n

LEMMA FullDrawn ==
    ASSUME World, NEW l, Sound(l), l.dead \cap alive = {}, NEW s \in Settings,
           s.paused => 1 \in Listed(l)
    PROVE  DrawnIn(Collected(l, s, FALSE), s) /\ Stands(Collected(l, s, FALSE), s)
BY FullBegins, DrawnIs, FullStands

\* What every full collection establishes, and only the next collection ends.
Drawn == last = "full" => DrawnIn(list, set) /\ Stands(list, set)

LEMMA CollectsDrawn ==
    ASSUME IInv, NEW op \in Ops, NEW l, l = list \/ l = [list EXCEPT !.op = op],
           NEW noUpdate \in BOOLEAN, set' \in Settings, set'.paused => last # "none",
           Collects(l, noUpdate)
    PROVE  Drawn'
<1>1. World /\ ListKept /\ Sound(list)
  BY DEF IInv, ListKept
<1>2. Sound(l) /\ l.dead = list.dead /\ l.order = list.order
  <2>1. CASE l = list
    BY <1>1, <2>1
  <2>2. CASE l = [list EXCEPT !.op = op]
    BY <1>1, <2>2, AskedIs
  <2> QED
    BY <2>1, <2>2
<1>3. Listed(l) = Listed(list)
  BY <1>2 DEF Listed
<1>4. list' = Collected(l, set', noUpdate) /\ last' = IF noUpdate THEN "cached" ELSE "full"
  BY DEF Collects
<1> DEFINE s == set'
<1>5. s \in Settings /\ (s.paused => 1 \in Listed(l)) /\ l.dead \cap alive = {}
  BY <1>1, <1>2, <1>3 DEF ListKept
<1> HIDE DEF s
<1>6. DrawnIn(Collected(l, s, FALSE), s) /\ Stands(Collected(l, s, FALSE), s)
  BY <1>1, <1>2, <1>5, FullDrawn
<1>7. last' = "full" => DrawnIn(list', set') /\ Stands(list', set')
  BY <1>4, <1>6 DEF s
<1> QED
  BY <1>7 DEF Drawn

LEMMA DrawnKept == IInv /\ Drawn /\ [Next]_vars => Drawn'
<1> SUFFICES ASSUME IInv, Drawn, [Next]_vars PROVE Drawn'
  OBVIOUS
<1>1. /\ Sound(list) /\ set \in Settings /\ (set.paused => last # "none")
      /\ NoOp \in Ops
  BY DEF IInv, ListKept, NoOp, Ops
<1>2. CASE UNCHANGED <<set, list, last>>
  BY <1>2 DEF Drawn
<1>3. CASE Timer
  BY <1>1, <1>3, CollectsDrawn DEF Timer
<1>4. CASE Interrupted
  BY <1>4 DEF Interrupted, Drawn
<1>5. CASE Redrawn
  BY <1>1, <1>5, CollectsDrawn DEF Redrawn
<1>6. CASE Key
  <2>1. last # "none"
    BY <1>6 DEF Key
  <2>2. PICK op \in Ops, noUpdate \in BOOLEAN :
          \E l \in {list, [list EXCEPT !.op = op]} :
            set' \in Settings /\ Collects(l, noUpdate)
    BY <1>6, KeyCollects
  <2>3. PICK l \in {list, [list EXCEPT !.op = op]} :
          set' \in Settings /\ Collects(l, noUpdate)
    BY <2>2
  <2> QED
    BY <1>1, <2>1, <2>3, CollectsDrawn
<1> QED
  BY <1>2, <1>3, <1>4, <1>5, <1>6 DEF Next, Starts, Ends, vars

LEMMA DrawnAlways == Spec => []Drawn
<1>1. Init => Drawn
  BY DEF Init, Drawn
<1> QED
  BY <1>1, DrawnKept, ProcListInvariant, PTL DEF Spec

\* A list that is drawn as it should be is what the properties ask of the list.
LEMMA DrawnMeans ==
    ASSUME IInv, Drawn
    PROVE  RowsCounted /\ TreeShown /\ TreeOrder /\ FamiliesFound /\ SubtreeUsage
<1>1. last = "full" => DrawnIn(list, set)
  BY DEF Drawn
<1>2. (InTree <=> last = "full" /\ InTreeIn(list, set)) /\ (Folded <=> FoldedIn(list))
  BY DEF InTree, InTreeIn, Rooted, RootedIn, asked, Folded, FoldedIn
<1>3. \A p : Below(p) = Fam(list, p)
  BY DEF Below, Fam
<1>4. RowsCounted
  BY <1>1, <1>2 DEF RowsCounted, RowsCountedIn, DrawnIn, Shown, asked
<1>5. TreeShown
  BY <1>1, <1>2 DEF TreeShown, TreeShownIn, DrawnIn, Shown, asked, IsShown, InTree
<1>6. FamiliesFound
  BY <1>1, <1>2 DEF FamiliesFound, FamiliesFoundIn, DrawnIn, Shown, asked, IsShown, InTree
<1>7. TreeOrder
  <2> SUFFICES ASSUME InTree PROVE TreeOrder
    BY DEF TreeOrder
  <2>1. TreeOrderIn(list, set) /\ InTreeIn(list, set) /\ Shown = Rows(list, set.order.tree)
    BY <1>1, <1>2 DEF DrawnIn, InTree, Shown, asked
  <2>2. \A i, j \in DOMAIN Shown :
          list.ent[Shown[j]].ppid = Shown[i] /\ {Shown[i], Shown[j]} \subseteq Listed(list) =>
            i < j /\ \A k \in i..j : Shown[k] \in Fam(list, Shown[i])
    BY <2>1 DEF TreeOrderIn
  <2> QED
    BY <1>3, <2>2 DEF TreeOrder, IsParent
<1>8. SubtreeUsage
  BY <1>1, <1>2, <1>3 DEF SubtreeUsage, SubtreeUsageIn, DrawnIn, InTree, asked
<1> QED
  BY <1>4, <1>5, <1>6, <1>7, <1>8

\* What Draw::draw() makes of a full collection in tree mode: the number of rows is the one
\* that bounds scrolling, exactly what is below a collapsed process is hidden, the rows are
\* in preorder, and a filter shows the processes that match with all below them.
THEOREM ProcListTreeDrawn == Spec => []TreeDrawn
<1>1. IInv /\ Drawn => TreeDrawn
  BY DrawnMeans DEF TreeDrawn
<1> QED
  BY <1>1, ProcListInvariant, DrawnAlways, PTL

\* The sums of _tree_gen(): a collapsed process shows the usage of all below it, each
\* counted once, whatever was added, collapsed, killed and collected before.
THEOREM ProcListSubtreeUsage == Spec => []SubtreeUsage
<1>1. IInv /\ Drawn => SubtreeUsage
  BY DrawnMeans
<1> QED
  BY <1>1, ProcListInvariant, DrawnAlways, PTL

\* A full collection of a paused list, the settings being as they were.
LEMMA FrozenIs ==
    ASSUME World, NEW l, Sound(l), l.dead \cap alive = {}, l.op = NoOp, 1 \in Listed(l),
           NEW s \in Settings, s.paused, l.known = s.order, Stands(l, s),
           ~(s.order.tree /\ s.order.filter)
    PROVE  Rows(Collected(l, s, FALSE), s.order.tree) = Rows(l, s.order.tree)
<1> DEFINE m == Mode(l, s, FALSE)
           k == Sorted(Filtered(Read(Noted(l, s), m), m), m)
           z == Counted(Tree(k, m))
<1>1. FullMode(m, s) /\ Fresh(k, m) /\ Collected(l, s, FALSE) = z
  BY FullBegins
<1>2. Unmoved(k, l) /\ ~m.resort /\ ~m.entering
  BY UnmovedIs
<1> HIDE DEF m, k
<1>3. s.order.tree \in BOOLEAN
  BY DEF Settings, Orders
<1>4. CASE ~s.order.tree
  <2>1. Tree(k, m) = k
    BY <1>1, <1>4 DEF Tree, FullMode
  <2>2. Sound(z) /\ z.order = k.order /\ z.ent = k.ent
    BY <1>1, <2>1, CountedIs DEF Fresh
  <2> HIDE DEF z
  <2>3. /\ k.order = l.order /\ Listed(k) = Listed(l) /\ Listed(l) \subseteq Pids
        /\ \A p \in Pids : k.ent[p].filt <=> p \in Listed(k) /\ ~m.o.tree /\ ~Matches(p, m.o)
        /\ m.o = s.order
    BY <1>1, <1>2, ListedIs DEF Fresh, Unmoved, FullMode
  <2>4. \A p \in Listed(l) : z.ent[p].filt <=> l.ent[p].filt
    BY <1>4, <2>2, <2>3 DEF Stands
  <2>5. Rows(z, FALSE) = Rows(l, FALSE)
    BY <2>2, <2>3, <2>4, FlatRowsSame
  <2>6. s.order.tree = FALSE
    BY <1>3, <1>4
  <2> QED
    BY <1>1, <2>5, <2>6
<1>5. CASE s.order.tree
  <2>1. TreeStands(l) /\ ~s.order.filter
    BY <1>5 DEF Stands
  <2>2. Rows(z, TRUE) = Rows(l, TRUE)
    BY <1>1, <1>2, <1>5, <2>1, TreeStays
  <2>3. s.order.tree = TRUE
    BY <1>3, <1>5
  <2> HIDE DEF z
  <2> QED
    BY <1>1, <2>2, <2>3
<1> QED
  BY <1>4, <1>5

\* An update of a paused list, which reads nothing but runs the filter, the tree and the
\* sorting of collect() again, leaves the rows and their order as they were drawn.
THEOREM ProcListPausedFrozen == Spec => PausedFrozen
<1>1. ASSUME IInv, Drawn, [Next]_vars
      PROVE  [last = "full" /\ last' = "full" /\ set.paused /\ set' = set /\ events' = events
                => (asked.tree /\ asked.filter) \/ Rows(list', asked.tree) = Shown]_vars
  <2> SUFFICES ASSUME last = "full", last' = "full", set.paused, set' = set, events' = events,
                      ~(asked.tree /\ asked.filter), ~UNCHANGED vars
               PROVE  Rows(list', asked.tree) = Shown
    OBVIOUS
  <2>1. ~Happens
    <3>1. events \in Nat
      <4>1. events \in 0..MaxEvents
        BY <1>1 DEF IInv
      <4> QED
        BY <4>1, ProcListAssumption
    <3> QED
      BY <3>1 DEF Happens
  <2>2. Timer
    BY <1>1, <2>1 DEF Next, Starts, Ends, Key, Interrupted, Redrawn
  <2>3. list' = Collected(list, set, FALSE)
    BY <2>2 DEF Timer, Collects
  <2>4. /\ World /\ Sound(list) /\ list.dead \cap alive = {} /\ list.op = NoOp
        /\ 1 \in Listed(list) /\ set \in Settings /\ list.known = set.order
        /\ Stands(list, set)
    BY <1>1 DEF IInv, ListKept, Drawn
  <2>5. ~(set.order.tree /\ set.order.filter)
    BY DEF asked
  <2>6. Rows(Collected(list, set, FALSE), set.order.tree) = Rows(list, set.order.tree)
    BY <2>4, <2>5, FrozenIs
  <2> QED
    BY <2>3, <2>6 DEF asked, Shown
<1> QED
  BY <1>1, ProcListInvariant, DrawnAlways, PTL DEF PausedFrozen, Spec

=============================================================================
