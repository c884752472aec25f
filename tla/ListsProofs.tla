----------------------------- MODULE ListsProofs -----------------------------
(***************************************************************************)
(* Facts about numbers and lists that the other proofs share: the least    *)
(* element that stands in for induction, sorted lists, and lists of lists. *)
(***************************************************************************)
EXTENDS Lists, FiniteSetTheorems, NaturalsInduction, SequenceTheorems, TLAPS

\* The least of a set of naturals.
LEMMA LeastNatural ==
  ASSUME NEW S \in SUBSET Nat, S # {}
  PROVE  \E m \in S : \A x \in S : m <= x
<1> DEFINE less == {ss \in Nat \X Nat : ss[1] < ss[2]}
<1>1. IsWellFoundedOn(less, Nat)
  BY NatLessThanWellFounded DEF OpToRel
<1> HIDE DEF less
<1>2. PICK m \in S : \A x \in S : ~ (<<x, m>> \in less)
  BY <1>1, WFMin
<1>3. ASSUME NEW x \in S PROVE m <= x
  <2>1. x \in Nat /\ m \in Nat /\ <<x, m>> \notin less
    BY <1>2
  <2>2. ~ (x < m)
    BY <2>1 DEF less
  <2> QED BY <2>1, <2>2
<1> QED BY <1>2, <1>3

-----------------------------------------------------------------------------
(* Sorted lists                                                            *)

\* R is a strict total order on S.
Orders(R, S) ==
  /\ \A x, y \in S : <<x, y>> \in R => <<y, x>> \notin R
  /\ \A x, y \in S : x # y => <<x, y>> \in R \/ <<y, x>> \in R
  /\ \A x, y, z \in S : <<x, y>> \in R /\ <<y, z>> \in R => <<x, z>> \in R

Below(R, S, x) == {y \in S : <<y, x>> \in R}

\* o lists each element of S once.
IsListing(o, S) ==
  /\ o \in [1..Cardinality(S) -> S] /\ Cardinality(S) \in Nat
  /\ \A x \in S : \E k \in DOMAIN o : o[k] = x
  /\ \A j, k \in DOMAIN o : o[j] = o[k] => j = k

\* Every place has an element with as many before it.
LEMMA PlacesAreTaken ==
  ASSUME NEW S, IsFiniteSet(S), NEW R, Orders(R, S)
  PROVE  /\ \A k \in 1..Cardinality(S) : \E x \in S : Cardinality(Below(R, S, x)) = k - 1
         /\ \A x \in S : Cardinality(Below(R, S, x)) + 1 \in 1..Cardinality(S)
         /\ \A x, y \in S : Cardinality(Below(R, S, x)) = Cardinality(Below(R, S, y)) => x = y
         /\ \A x, y \in S : <<x, y>> \in R => Cardinality(Below(R, S, x)) < Cardinality(Below(R, S, y))
<1> DEFINE N == Cardinality(S)
           place == [x \in S |-> Cardinality(Below(R, S, x)) + 1]
<1>1. N \in Nat
  BY FS_CardinalityType
<1>2. \A x \in S : /\ IsFiniteSet(Below(R, S, x)) /\ Cardinality(Below(R, S, x)) \in Nat
                   /\ Cardinality(Below(R, S, x)) < N
  <2> TAKE x \in S
  <2>1. Below(R, S, x) \in SUBSET S /\ x \notin Below(R, S, x)
    BY DEF Below, Orders
  <2>2. Below(R, S, x) # S
    BY <2>1
  <2>3. /\ IsFiniteSet(Below(R, S, x))
        /\ Cardinality(Below(R, S, x)) <= N /\ Cardinality(Below(R, S, x)) # N
    BY <2>1, <2>2, FS_Subset
  <2> QED BY <1>1, <2>3, FS_CardinalityType
<1>3. \A x, y \in S : <<x, y>> \in R => Cardinality(Below(R, S, x)) < Cardinality(Below(R, S, y))
  <2> SUFFICES ASSUME NEW x \in S, NEW y \in S, <<x, y>> \in R
               PROVE  Cardinality(Below(R, S, x)) < Cardinality(Below(R, S, y))
    OBVIOUS
  <2>1. Below(R, S, x) \in SUBSET Below(R, S, y)
    BY DEF Below, Orders
  <2>2. x \in Below(R, S, y) /\ x \notin Below(R, S, x)
    BY DEF Below, Orders
  <2>3. Below(R, S, x) # Below(R, S, y)
    BY <2>2
  <2> QED BY <1>2, <2>1, <2>3, FS_Subset
<1>4. \A x, y \in S : Cardinality(Below(R, S, x)) = Cardinality(Below(R, S, y)) => x = y
  <2> SUFFICES ASSUME NEW x \in S, NEW y \in S, x # y
               PROVE  Cardinality(Below(R, S, x)) # Cardinality(Below(R, S, y))
    OBVIOUS
  <2>1. <<x, y>> \in R \/ <<y, x>> \in R
    BY DEF Orders
  <2> QED BY <1>2, <1>3, <2>1
<1>5. \A x \in S : Cardinality(Below(R, S, x)) + 1 \in 1..N
  BY <1>1, <1>2
<1>6. place \in [S -> 1..N]
  BY <1>5
<1>7. \A x, y \in S : place[x] = place[y] => x = y
  BY <1>2, <1>4
<1>8. place \in Surjection(S, 1..N)
  <2>1. place \in Injection(S, 1..N)
    <3> HIDE DEF place
    <3> QED BY <1>6, <1>7 DEF Injection, IsInjective
  <2>2. IsFiniteSet(1..N) /\ Cardinality(1..N) = N
    BY <1>1, FS_Interval
  <2> HIDE DEF place
  <2> QED BY <2>1, <2>2, FS_Injection
<1>9. \A k \in 1..N : \E x \in S : place[x] = k
  <2> HIDE DEF place, N
  <2> QED BY <1>8 DEF Surjection
<1>10. \A k \in 1..N : \E x \in S : Cardinality(Below(R, S, x)) = k - 1
  <2> TAKE k \in 1..N
  <2>1. PICK x \in S : place[x] = k
    BY <1>9
  <2>2. Cardinality(Below(R, S, x)) + 1 = k
    BY <2>1
  <2> QED BY <1>1, <1>2, <2>2
<1> QED BY <1>3, <1>4, <1>5, <1>10

\* A list with as many elements before the k-th as there are places before it.
LEMMA ListInOrder ==
  ASSUME NEW S, IsFiniteSet(S), NEW R, Orders(R, S), NEW o,
         o = [k \in 1..Cardinality(S) |-> o[k]],
         \A k \in 1..Cardinality(S) : o[k] \in S /\ Cardinality(Below(R, S, o[k])) = k - 1
  PROVE  IsListing(o, S)
<1>1. Cardinality(S) \in Nat
  BY FS_CardinalityType
<1>2. DOMAIN o = 1..Cardinality(S) /\ o \in [1..Cardinality(S) -> S]
  OBVIOUS
<1>3. \A j, k \in DOMAIN o : o[j] = o[k] => j = k
  <2> SUFFICES ASSUME NEW j \in 1..Cardinality(S), NEW k \in 1..Cardinality(S), o[j] = o[k]
               PROVE  j = k
    BY <1>2
  <2>1. j - 1 = k - 1
    OBVIOUS
  <2> QED BY <1>1, <2>1
<1>4. ASSUME NEW x \in S PROVE \E k \in DOMAIN o : o[k] = x
  <2> DEFINE k == Cardinality(Below(R, S, x)) + 1
  <2>1. k \in 1..Cardinality(S)
    BY PlacesAreTaken
  <2>2. o[k] \in S /\ Cardinality(Below(R, S, o[k])) = k - 1
    BY <2>1
  <2>3. Cardinality(Below(R, S, x)) \in Nat
    <3>1. Below(R, S, x) \in SUBSET S
      BY DEF Below
    <3> QED BY <3>1, FS_Subset, FS_CardinalityType
  <2>4. Cardinality(Below(R, S, o[k])) = Cardinality(Below(R, S, x))
    BY <2>2, <2>3
  <2>5. o[k] = x
    BY <2>2, <2>4, PlacesAreTaken
  <2> QED BY <1>2, <2>1, <2>5
<1> QED BY <1>1, <1>2, <1>3, <1>4 DEF IsListing

\* Such a list is in order.
LEMMA ListIsInOrder ==
  ASSUME NEW S, IsFiniteSet(S), NEW R, Orders(R, S), NEW o, DOMAIN o = 1..Cardinality(S),
         \A k \in 1..Cardinality(S) : o[k] \in S /\ Cardinality(Below(R, S, o[k])) = k - 1
  PROVE  \A i, j \in DOMAIN o : i < j => <<o[i], o[j]>> \in R
<1> SUFFICES ASSUME NEW i \in DOMAIN o, NEW j \in DOMAIN o, i < j PROVE <<o[i], o[j]>> \in R
  OBVIOUS
<1>1. i \in 1..Cardinality(S) /\ j \in 1..Cardinality(S) /\ Cardinality(S) \in Nat
  BY FS_CardinalityType
<1>2. /\ o[i] \in S /\ Cardinality(Below(R, S, o[i])) = i - 1
      /\ o[j] \in S /\ Cardinality(Below(R, S, o[j])) = j - 1
  BY <1>1
<1>3. o[i] # o[j] /\ ~ (j - 1 < i - 1)
  BY <1>1, <1>2
<1>4. <<o[j], o[i]>> \notin R
  BY <1>2, <1>3, PlacesAreTaken
<1> QED BY <1>2, <1>3, <1>4 DEF Orders

\* A listing is a bijection from its places.
LEMMA ListingIsBijection ==
  ASSUME NEW S, NEW o, IsListing(o, S)
  PROVE  DOMAIN o = 1..Cardinality(S) /\ o \in Bijection(1..Cardinality(S), S)
BY Zenon DEF IsListing, Bijection, Injection, Surjection, IsInjective

\* What is picked from a list is there in the order of the places.
LEMMA PickedInOrder ==
  ASSUME NEW s, NEW places \in SUBSET Int, IsFiniteSet(places)
  PROVE  \E at : /\ IsListing(at, places)
                 /\ \A i, j \in DOMAIN at : i < j => at[i] < at[j]
                 /\ Picked(s, places) = [k \in DOMAIN at |-> s[at[k]]]
<1> DEFINE R == {p \in places \X places : p[1] < p[2]}
           less(x) == {y \in places : y < x}
           at == InOrder(places, <)
<1>1. Orders(R, places)
  BY DEF Orders
<1>2. \A x \in places : less(x) = Below(R, places, x)
  BY DEF Below
<1>3. at = [k \in 1..Cardinality(places) |-> CHOOSE x \in places : Cardinality(less(x)) = k - 1]
  BY DEF InOrder
<1>4. Picked(s, places) = [k \in DOMAIN at |-> s[at[k]]]
  BY DEF Picked
<1>5. \A i, j : <<i, j>> \in R => i < j
  OBVIOUS
<1> HIDE DEF at, R, less
<1>6. ASSUME NEW k \in 1..Cardinality(places)
      PROVE  at[k] \in places /\ Cardinality(Below(R, places, at[k])) = k - 1
  <2>1. \E x \in places : Cardinality(less(x)) = k - 1
    <3>1. \E x \in places : Cardinality(Below(R, places, x)) = k - 1
      BY <1>1, PlacesAreTaken
    <3> QED BY <1>2, <3>1
  <2>2. at[k] = CHOOSE x \in places : Cardinality(less(x)) = k - 1
    BY <1>3
  <2>3. at[k] \in places /\ Cardinality(less(at[k])) = k - 1
    BY <2>1, <2>2, Zenon
  <2> QED BY <1>2, <2>3
<1>7. at = [k \in 1..Cardinality(places) |-> at[k]] /\ DOMAIN at = 1..Cardinality(places)
  BY <1>3
<1>8. IsListing(at, places)
  BY <1>1, <1>6, <1>7, ListInOrder
<1>9. \A i, j \in DOMAIN at : i < j => <<at[i], at[j]>> \in R
  BY <1>1, <1>6, <1>7, ListIsInOrder
<1> QED BY <1>4, <1>5, <1>8, <1>9

-----------------------------------------------------------------------------
(* Lists of lists                                                          *)

\* What is in one of two lists is in their concatenation.
LEMMA ToSetOfConcat ==
  ASSUME NEW S, NEW s \in Seq(S), NEW t \in Seq(S)
  PROVE  s \o t \in Seq(S) /\ ToSet(s \o t) = ToSet(s) \cup ToSet(t)
<1>1. /\ s \o t \in Seq(S) /\ Len(s \o t) = Len(s) + Len(t)
      /\ \A i \in 1..(Len(s) + Len(t)) :
           (s \o t)[i] = IF i <= Len(s) THEN s[i] ELSE t[i - Len(s)]
  BY ConcatProperties
<1>2. /\ DOMAIN s = 1..Len(s) /\ DOMAIN t = 1..Len(t) /\ DOMAIN (s \o t) = 1..Len(s \o t)
      /\ Len(s) \in Nat /\ Len(t) \in Nat
  BY <1>1
<1>3. ASSUME NEW i \in DOMAIN (s \o t) PROVE (s \o t)[i] \in ToSet(s) \cup ToSet(t)
  <2>1. CASE i <= Len(s)
    <3>1. i \in DOMAIN s /\ (s \o t)[i] = s[i]
      BY <1>1, <1>2, <2>1
    <3> QED BY <3>1 DEF ToSet
  <2>2. CASE ~ (i <= Len(s))
    <3>1. i - Len(s) \in DOMAIN t /\ (s \o t)[i] = t[i - Len(s)]
      BY <1>1, <1>2, <2>2
    <3> QED BY <3>1 DEF ToSet
  <2> QED BY <2>1, <2>2
<1>4. ASSUME NEW i \in DOMAIN s PROVE s[i] \in ToSet(s \o t)
  <2>1. i \in DOMAIN (s \o t) /\ (s \o t)[i] = s[i]
    BY <1>1, <1>2
  <2> QED BY <2>1 DEF ToSet
<1>5. ASSUME NEW i \in DOMAIN t PROVE t[i] \in ToSet(s \o t)
  <2>1. i + Len(s) \in DOMAIN (s \o t) /\ (i + Len(s)) - Len(s) = i /\ ~ (i + Len(s) <= Len(s))
    BY <1>1, <1>2
  <2>2. (s \o t)[i + Len(s)] = t[i]
    BY <1>1, <1>2, <2>1
  <2> QED BY <2>1, <2>2 DEF ToSet
<1>6. ToSet(s \o t) \subseteq ToSet(s) \cup ToSet(t)
  BY <1>3 DEF ToSet
<1>7. ToSet(s) \subseteq ToSet(s \o t) /\ ToSet(t) \subseteq ToSet(s \o t)
  BY <1>4, <1>5 DEF ToSet
<1> QED BY <1>1, <1>6, <1>7

\* FlattenSeq, list by list.
IsFlattened(f, seqs) ==
  /\ f[1] = seqs[1]
  /\ \A i \in 2..Len(seqs) : f[i] = f[i - 1] \o seqs[i]

\* FlattenSeq joins one list at a time.
LEMMA FlattenSteps ==
  ASSUME NEW seqs, Len(seqs) \in Nat, Len(seqs) # 0
  PROVE  \E f : IsFlattened(f, seqs) /\ FlattenSeq(seqs) = f[Len(seqs)]
<1> DEFINE F(f, n) == [i \in 1..n |-> IF i = 1 THEN seqs[i] ELSE f[i - 1] \o seqs[i]]
           none == {n \in 1..Len(seqs) : ~ \E f : f = F(f, n)}
           e == CHOOSE f : f = F(f, Len(seqs))
<1> HIDE DEF F
<1>1. none = {}
  <2> SUFFICES ASSUME none # {} PROVE FALSE
    OBVIOUS
  <2>1. PICK m \in none : \A i \in none : m <= i
    <3>1. none \in SUBSET Nat
      OBVIOUS
    <3> HIDE DEF none
    <3> QED BY <3>1, LeastNatural
  <2>2. m \in 1..Len(seqs) /\ ~ \E f : f = F(f, m)
    OBVIOUS
  <2>3. m # 1 => \E f : f = F(f, m - 1)
    <3>1. m # 1 => m - 1 \in 1..Len(seqs) /\ m - 1 \notin none
      BY <2>1, <2>2
    <3> QED BY <3>1
  <2> HIDE DEF none
  <2>4. PICK f : m # 1 => f = F(f, m - 1)
    BY <2>3
  <2> DEFINE g == F(f, m)
  <2> USE DEF F
  <2>5. ASSUME NEW i \in 1..m, i # 1 PROVE f[i - 1] = g[i - 1]
    <3>1. m # 1 /\ i - 1 \in 1..(m - 1) /\ i - 1 \in 1..m
      BY <2>2, <2>5
    <3>2. f[i - 1] = IF i - 1 = 1 THEN seqs[i - 1] ELSE f[i - 1 - 1] \o seqs[i - 1]
      BY <2>4, <3>1
    <3> QED BY <3>1, <3>2
  <2>6. g = F(g, m)
    <3>1. \A i \in 1..m : g[i] = IF i = 1 THEN seqs[i] ELSE g[i - 1] \o seqs[i]
      BY <2>5
    <3>2. g = [i \in 1..m |-> g[i]]
      OBVIOUS
    <3> HIDE DEF g
    <3> QED BY <3>1, <3>2
  <2> QED BY <2>2, <2>6
<1>2. \E f : f = F(f, Len(seqs))
  <2>1. Len(seqs) \in 1..Len(seqs) /\ Len(seqs) \notin none
    BY <1>1
  <2> QED BY <2>1
<1>3. e = F(e, Len(seqs))
  BY <1>2, Zenon
<1>4. FlattenSeq(seqs) = e[Len(seqs)]
  BY Zenon DEF FlattenSeq, F
<1> HIDE DEF e
<1>5. \A i \in 1..Len(seqs) : e[i] = IF i = 1 THEN seqs[i] ELSE e[i - 1] \o seqs[i]
  BY <1>3, Zenon DEF F
<1>6. 1 \in 1..Len(seqs) /\ \A i \in 2..Len(seqs) : i \in 1..Len(seqs) /\ i # 1
  OBVIOUS
<1>7. IsFlattened(e, seqs)
  BY <1>5, <1>6, Zenon DEF IsFlattened
<1> QED BY <1>4, <1>7

\* What is in a list of lists is in one of them.
LEMMA FlattenKeeps ==
  ASSUME NEW seqs, DOMAIN seqs = 1..Len(seqs), Len(seqs) \in Nat, Len(seqs) # 0, NEW S,
         \A i \in DOMAIN seqs : seqs[i] \in Seq(S)
  PROVE  /\ FlattenSeq(seqs) \in Seq(S)
         /\ ToSet(FlattenSeq(seqs)) = UNION {ToSet(seqs[i]) : i \in DOMAIN seqs}
<1>1. PICK f : IsFlattened(f, seqs) /\ FlattenSeq(seqs) = f[Len(seqs)]
  BY FlattenSteps
<1> DEFINE P(n) == f[n] \in Seq(S) /\ ToSet(f[n]) = UNION {ToSet(seqs[i]) : i \in 1..n}
           bad == {n \in 1..Len(seqs) : ~ P(n)}
<1>2. P(1)
  BY <1>1 DEF IsFlattened
<1>3. ASSUME NEW n \in 2..Len(seqs), P(n - 1) PROVE P(n)
  <2>1. f[n] = f[n - 1] \o seqs[n]
    BY <1>1 DEF IsFlattened
  <2>2. f[n - 1] \in Seq(S) /\ seqs[n] \in Seq(S)
    BY <1>3
  <2>3. f[n] \in Seq(S) /\ ToSet(f[n]) = ToSet(f[n - 1]) \cup ToSet(seqs[n])
    BY <2>1, <2>2, ToSetOfConcat
  <2>4. 1..n = 1..(n - 1) \cup {n}
    OBVIOUS
  <2> QED BY <1>3, <2>3, <2>4
<1> HIDE DEF P
<1>4. \A n \in 1..Len(seqs) : P(n)
  <2>1. SUFFICES ASSUME bad # {} PROVE FALSE
    OBVIOUS
  <2>2. PICK n \in bad : \A j \in bad : n <= j
    <3>1. bad \in SUBSET Nat
      OBVIOUS
    <3> HIDE DEF bad
    <3> QED BY <2>1, <3>1, LeastNatural
  <2>3. n # 1 => n \in 2..Len(seqs) /\ n - 1 \in 1..Len(seqs) /\ n - 1 \notin bad
    BY <2>2
  <2> QED BY <1>2, <1>3, <2>3
<1>5. P(Len(seqs))
  BY <1>4
<1> QED BY <1>1, <1>5 DEF P

\* The same, of any number of lists.
LEMMA FlattenLists ==
  ASSUME NEW S, NEW seqs \in Seq(Seq(S))
  PROVE  /\ FlattenSeq(seqs) \in Seq(S)
         /\ ToSet(FlattenSeq(seqs)) = UNION {ToSet(seqs[i]) : i \in DOMAIN seqs}
<1>1. /\ DOMAIN seqs = 1..Len(seqs) /\ Len(seqs) \in Nat
      /\ \A i \in DOMAIN seqs : seqs[i] \in Seq(S)
  BY LenProperties, ElementOfSeq
<1>2. CASE Len(seqs) # 0
  BY <1>1, <1>2, FlattenKeeps
<1>3. CASE Len(seqs) = 0
  <2>1. seqs = <<>>
    BY <1>3, EmptySeq
  <2>2. FlattenSeq(seqs) = <<>>
    BY <1>3, <2>1 DEF FlattenSeq
  <2>3. DOMAIN seqs = {} /\ ToSet(<<>>) = {} /\ <<>> \in Seq(S)
    BY <1>1, <1>3, EmptySeq DEF ToSet
  <2> QED BY <2>2, <2>3
<1> QED BY <1>2, <1>3
=============================================================================
