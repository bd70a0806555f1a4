----------------------------- MODULE ListingProofs -----------------------------
(***************************************************************************)
(* What the proofs need of finite sets of numbers, of lists, and of the    *)
(* operators of Listing: the place an element has, what cutting, picking,  *)
(* sorting and joining keep, and recursion over a list.                    *)
(*                                                                         *)
(* The first part is about the places of elements (the rank of a chunk     *)
(* among the ids of its conversation, the sessions that are not listed     *)
(* yet), the second about lists.                                           *)
(***************************************************************************)
EXTENDS Listing, FiniteSetTheorems, SequenceTheorems, WellFoundedInduction, TLAPS

(* The place of k among the elements of a set of numbers.                  *)
Place(K, k) == Cardinality({j \in K : j <= k})

(* Places keep the order of the elements.                                  *)
LEMMA PlaceGrows ==
  ASSUME NEW K \in SUBSET Nat, IsFiniteSet(K), NEW k \in K, NEW l \in K, k < l
  PROVE  Place(K, k) < Place(K, l)
<1> DEFINE A == {j \in K : j <= k}
           B == {j \in K : j <= l}
<1>0. k \in Nat /\ l \in Nat /\ \A j \in K : j \in Nat
  OBVIOUS
<1>1. A \in SUBSET B /\ l \in B \ A /\ B \in SUBSET K
  <2>1. \A j \in A : j \in B
    BY <1>0
  <2>2. l \in B /\ l \notin A
    BY <1>0
  <2> QED BY <2>1, <2>2
<1>2. IsFiniteSet(B)
  BY <1>1, FS_Subset
<1>3. Cardinality(A) <= Cardinality(B) /\ Cardinality(A) # Cardinality(B)
  BY <1>1, <1>2, FS_Subset
<1>4. Cardinality(A) \in Nat /\ Cardinality(B) \in Nat
  BY <1>1, <1>2, FS_Subset, FS_CardinalityType
<1> QED BY <1>3, <1>4 DEF Place

(* Every element has a place.                                              *)
LEMMA PlaceBounds ==
  ASSUME NEW K \in SUBSET Nat, IsFiniteSet(K), NEW k \in K
  PROVE  Place(K, k) \in 1..Cardinality(K)
<1> DEFINE A == {j \in K : j <= k}
<1>1. A \in SUBSET K /\ k \in A
  OBVIOUS
<1>2. IsFiniteSet(A) /\ Cardinality(A) <= Cardinality(K)
  BY <1>1, FS_Subset
<1>3. Cardinality(A) \in Nat \ {0} /\ Cardinality(K) \in Nat
  BY <1>1, <1>2, FS_CardinalityType, FS_EmptySet
<1> QED BY <1>2, <1>3 DEF Place

(* Every place is taken, and by one element.                               *)
LEMMA PlacesTaken ==
  ASSUME NEW K \in SUBSET Nat, IsFiniteSet(K), NEW n \in 1..Cardinality(K)
  PROVE  \E k \in K : Place(K, k) = n
<1> DEFINE P == [k \in K |-> Place(K, k)]
           T == 1..Cardinality(K)
<1>1. P \in [K -> T]
  BY PlaceBounds
<1>2. \A k, l \in K : Place(K, k) = Place(K, l) => k = l
  <2> SUFFICES ASSUME NEW k \in K, NEW l \in K, Place(K, k) = Place(K, l) PROVE k = l
    OBVIOUS
  <2>1. k \in Nat /\ l \in Nat /\ Place(K, k) \in Nat
    BY PlaceBounds, FS_CardinalityType
  <2>2. ~(k < l) /\ ~(l < k)
    BY <2>1, PlaceGrows
  <2> QED BY <2>1, <2>2
<1>3. P \in Injection(K, T)
  BY <1>1, <1>2 DEF Injection, IsInjective
<1>4. Cardinality(K) \in Nat /\ IsFiniteSet(T) /\ Cardinality(T) = Cardinality(K)
  BY FS_CardinalityType, FS_Interval
<1>5. P \in Surjection(K, T)
  BY <1>3, <1>4, FS_Injection
<1> QED BY <1>5 DEF Surjection

(* The first n numbers.                                                    *)
LEMMA FirstNumbers ==
  ASSUME NEW n \in Nat
  PROVE  IsFiniteSet(1..n) /\ Cardinality(1..n) = n
<1>1. IsFiniteSet(1..n) /\ Cardinality(1..n) = IF 1 > n THEN 0 ELSE n - 1 + 1
  BY FS_Interval
<1> QED BY <1>1

(* The numbers m, m + 1, ... that make up the places a set lacks.          *)
Beyond(S, m, len) == {m + (p - Cardinality(S) - 1) : p \in (Cardinality(S) + 1)..len}

(* Past all of the set, they take the places after its last.               *)
LEMMA PlacesBeyond ==
  ASSUME NEW S \in SUBSET Nat, IsFiniteSet(S), NEW m \in Nat, \A i \in S : i < m,
         NEW len \in Nat
  PROVE  LET n == Cardinality(S)
             F == S \cup Beyond(S, m, len)
         IN /\ \A i \in S : Place(F, i) = Place(S, i)
            /\ \A p \in (n + 1)..len : Place(F, m + (p - n - 1)) = p
            /\ len <= Cardinality(F)
            /\ Cardinality(F) = len \/ F = S
<1> DEFINE n == Cardinality(S)
           new == {m + (p - n - 1) : p \in (n + 1)..len}
           F == S \cup new
<1>1. n \in Nat
  BY FS_CardinalityType
<1> HIDE DEF n
<1>2. ASSUME NEW k \in Nat
      PROVE  IsFiniteSet(S \cup (m..(m + k - 1))) /\ Cardinality(S \cup (m..(m + k - 1))) = n + k
  <2> DEFINE T == m..(m + k - 1)
  <2>1. IsFiniteSet(T) /\ Cardinality(T) = k
    <3>1. IsFiniteSet(T) /\ Cardinality(T) = IF m > m + k - 1 THEN 0 ELSE m + k - 1 - m + 1
      BY FS_Interval
    <3> QED BY ONLY <3>1, k \in Nat, m \in Nat
  <2>2. S \cap T = {}
    <3>1. \A i \in S : i \in Nat /\ i < m
      OBVIOUS
    <3>2. \A i \in T : ~(i < m)
      OBVIOUS
    <3> QED BY <3>1, <3>2
  <2> HIDE DEF T
  <2>3. IsFiniteSet(S \cup T) /\ Cardinality(S \cup T) = n + k - 0
    BY <2>1, <2>2, FS_Union, FS_EmptySet DEF n
  <2> QED BY <1>1, <2>3 DEF T
<1>3. ASSUME NEW k \in Nat, k <= len - n
      PROVE  {j \in F : j <= m + k - 1} = S \cup (m..(m + k - 1))
  <2>1. ASSUME NEW j \in F, j <= m + k - 1 PROVE j \in S \cup (m..(m + k - 1))
    BY <1>1, <2>1
  <2>2. ASSUME NEW j \in S PROVE j \in F /\ j <= m + k - 1
    <3>1. j \in Nat /\ j < m
      OBVIOUS
    <3> QED BY <3>1
  <2>3. ASSUME NEW j \in m..(m + k - 1) PROVE j \in F /\ j <= m + k - 1
    <3>1. (j - m + n + 1) \in (n + 1)..len /\ j = m + ((j - m + n + 1) - n - 1)
      BY <1>1, <1>3
    <3> QED BY <3>1
  <2> QED BY <2>1, <2>2, <2>3
<1>4. ASSUME NEW p \in (n + 1)..len PROVE Place(F, m + (p - n - 1)) = p
  <2> DEFINE k == p - n
  <2>1. k \in Nat /\ k <= len - n /\ m + (p - n - 1) = m + k - 1 /\ n + k = p
    BY <1>1
  <2> HIDE DEF k, F
  <2> QED BY <1>2, <1>3, <2>1 DEF Place
<1>5. ASSUME NEW i \in S PROVE Place(F, i) = Place(S, i)
  <2>1. \A j \in new : ~(j <= i)
    <3>1. \A j \in new : j \in Int /\ j >= m
      BY <1>1
    <3>2. i \in Nat /\ i < m
      OBVIOUS
    <3> HIDE DEF new
    <3> QED BY <3>1, <3>2
  <2>2. {j \in F : j <= i} = {j \in S : j <= i}
    BY <2>1
  <2> QED BY <2>2 DEF Place
<1>6. len <= Cardinality(F) /\ (Cardinality(F) = len \/ F = S)
  <2>1. CASE len <= n
    <3>1. (n + 1)..len = {}
      BY <1>1, <2>1
    <3>2. F = S
      BY <3>1
    <3> QED BY <2>1, <3>2 DEF n
  <2>2. CASE len > n
    <3> DEFINE k == len - n
    <3>1. k \in Nat /\ k <= len - n /\ n + k = len
      BY <1>1, <2>2
    <3>2. \A j \in F : j <= m + k - 1
      <4>1. \A j \in S : j \in Nat /\ j < m
        OBVIOUS
      <4> QED BY <1>1, <3>1, <4>1
    <3>3. F = {j \in F : j <= m + k - 1}
      BY <3>2
    <3> HIDE DEF k, F
    <3>4. Cardinality(F) = len
      BY <1>2, <1>3, <3>1, <3>3
    <3> QED BY <3>4
  <2> QED BY <1>1, <2>1, <2>2
<1>7. new = Beyond(S, m, len)
  BY DEF n, Beyond
<1> QED BY <1>4, <1>5, <1>6, <1>7 DEF n

(* A set cut off after its n-th element keeps its places.                  *)
LEMMA FirstPlaces ==
  ASSUME NEW K \in SUBSET Nat, IsFiniteSet(K), NEW n \in Nat, n <= Cardinality(K)
  PROVE  LET K2 == {k \in K : Place(K, k) <= n}
         IN /\ \A k \in K2 : Place(K2, k) = Place(K, k)
            /\ Cardinality(K2) = n
<1> DEFINE K2 == {k \in K : Place(K, k) <= n}
<1>1. ASSUME NEW k \in K PROVE Place(K, k) \in 1..Cardinality(K)
  BY PlaceBounds
<1>2. Cardinality(K) \in Nat
  BY FS_CardinalityType
<1>3. ASSUME NEW k \in K2 PROVE Place(K2, k) = Place(K, k)
  <2>1. ASSUME NEW j \in K, j <= k PROVE j \in K2
    <3>1. j \in Nat /\ k \in Nat /\ (j = k \/ j < k)
      BY <2>1
    <3>2. Place(K, j) <= Place(K, k)
      BY <1>1, <1>2, <3>1, PlaceGrows
    <3> QED BY <1>1, <1>2, <3>2
  <2>2. {j \in K2 : j <= k} = {j \in K : j <= k}
    BY <2>1
  <2> QED BY <2>2 DEF Place
<1> DEFINE P == [k \in K2 |-> Place(K, k)]
           T == 1..n
<1>4. P \in [K2 -> T]
  <2>1. \A k \in K2 : Place(K, k) \in T
    BY <1>1, <1>2
  <2> HIDE DEF K2, T
  <2> QED BY <2>1
<1>5. ASSUME NEW k \in K2, NEW l \in K2, P[k] = P[l] PROVE k = l
  <2>1. k \in Nat /\ l \in Nat /\ Place(K, k) = Place(K, l) /\ Place(K, k) \in Nat
    BY <1>1, <1>2, <1>5
  <2>2. ~(k < l) /\ ~(l < k)
    BY <2>1, PlaceGrows
  <2> QED BY <2>1, <2>2
<1>6. ASSUME NEW t \in T PROVE \E k \in K2 : P[k] = t
  <2>1. t \in 1..Cardinality(K)
    BY <1>2
  <2>2. PICK k \in K : Place(K, k) = t
    BY <2>1, PlacesTaken
  <2> QED BY <2>2
<1>7. IsFiniteSet(K2)
  BY FS_Subset
<1>8. IsFiniteSet(T) /\ Cardinality(T) = n
  BY FirstNumbers
<1>9. Cardinality(K2) = Cardinality(T)
  <2> HIDE DEF K2, P, T
  <2>1. P \in Surjection(K2, T)
    BY <1>4, <1>6 DEF Surjection
  <2>2. P \in Injection(K2, T)
    BY <1>4, <1>5 DEF Injection, IsInjective
  <2> QED BY <1>7, <1>8, <2>1, <2>2, FS_Surjection
<1> QED BY <1>3, <1>8, <1>9

-----------------------------------------------------------------------------
(* Numbers.                                                                *)

(* A set of numbers has a least one.                                       *)
LEMMA LeastOf ==
  ASSUME NEW S \in SUBSET Nat, S # {}
  PROVE  Min(S) \in S /\ \A n \in S : Min(S) <= n
<1>1. PICK m \in S : \A n \in S : ~(<<n, m>> \in OpToRel(<, Nat))
  BY WFMin, NatLessThanWellFounded
<1>2. \A n \in S : ~(n < m)
  BY <1>1 DEF OpToRel
<1>3. \A n \in S : m <= n
  BY <1>2
<1> QED BY <1>3 DEF Min

(* A set of numbers that has 0 and, with each, the next one has all.       *)
LEMMA Induction ==
  ASSUME NEW S, 0 \in S, \A n \in Nat : n \in S => n + 1 \in S
  PROVE  \A n \in Nat : n \in S
<1> DEFINE T == Nat \ S
<1>1. SUFFICES ASSUME T # {} PROVE FALSE
  OBVIOUS
<1>2. PICK m \in T : \A n \in T : m <= n
  BY <1>1, LeastOf
<1>3. m \in Nat \ {0}
  OBVIOUS
<1>4. m - 1 \in Nat /\ m - 1 \notin T
  BY <1>2, <1>3
<1>5. m - 1 + 1 \in S
  BY <1>4
<1> QED BY <1>3, <1>5

(* A finite set of numbers has a greatest one.                             *)
LEMMA GreatestOf ==
  ASSUME NEW S \in SUBSET Nat, IsFiniteSet(S), S # {}
  PROVE  Max(S) \in S /\ \A n \in S : n <= Max(S)
<1>1. Cardinality(S) \in Nat \ {0}
  BY FS_CardinalityType, FS_EmptySet
<1>2. PICK m \in S : Place(S, m) = Cardinality(S)
  BY <1>1, PlacesTaken
<1>3. ASSUME NEW n \in S PROVE n <= m
  <2>1. Place(S, n) <= Place(S, m) /\ Place(S, n) \in Nat
    BY <1>1, <1>2, PlaceBounds
  <2>2. n \in Nat /\ m \in Nat
    OBVIOUS
  <2> QED BY <1>1, <1>2, <2>1, <2>2, PlaceGrows
<1>4. \A n \in S : m >= n
  BY <1>3
<1>5. Max(S) \in S /\ \A n \in S : Max(S) >= n
  BY <1>4 DEF Max
<1>6. Max(S) \in Nat /\ \A n \in S : n \in Nat
  BY <1>5
<1> QED BY <1>5, <1>6

(* The smaller and the greater of two numbers.                             *)
LEMMA MinOfTwo ==
  ASSUME NEW m \in Int, NEW n \in Int
  PROVE  /\ Min({m, n}) = IF m <= n THEN m ELSE n
         /\ Max({m, n}) = IF m <= n THEN n ELSE m
  BY DEF Min, Max

-----------------------------------------------------------------------------
(* Picking entries of a list.                                              *)

(* The list of a set of numbers: every element in its place.               *)
LEMMA AscendingList ==
  ASSUME NEW K \in SUBSET Nat, IsFiniteSet(K)
  PROVE  LET at == Ascending(K)
         IN /\ Cardinality(K) \in Nat
            /\ at \in [1..Cardinality(K) -> K]
            /\ at \in Seq(K) /\ Len(at) = Cardinality(K)
            /\ \A k \in K : \E p \in 1..Cardinality(K) : at[p] = k
            /\ \A p, q \in 1..Cardinality(K) : p < q => at[p] < at[q]
<1> DEFINE c == Cardinality(K)
           at == Ascending(K)
<1>1. c \in Nat
  BY FS_CardinalityType
<1>2. ASSUME NEW p \in 1..c
      PROVE  at[p] \in K /\ Place(K, at[p]) = p
  <2>1. at[p] = CHOOSE i \in K : Place(K, i) = p
    BY DEF Ascending, Place
  <2> QED BY <2>1, PlacesTaken
<1>3. at \in [1..c -> K]
  BY <1>2 DEF Ascending
<1>7. \A j \in K : j \in Nat
  OBVIOUS
<1> HIDE DEF at, c
<1>4. ASSUME NEW k \in K PROVE \E p \in 1..c : at[p] = k
  <2>1. Place(K, k) \in 1..c
    BY PlaceBounds DEF c
  <2>2. at[Place(K, k)] \in K /\ Place(K, at[Place(K, k)]) = Place(K, k)
    BY <1>2, <2>1
  <2>3. k \in Nat /\ at[Place(K, k)] \in Nat
    BY <1>7, <2>2
  <2>4. ~(k < at[Place(K, k)]) /\ ~(at[Place(K, k)] < k)
    <3> DEFINE l == at[Place(K, k)]
    <3>1. Place(K, k) \in Int /\ l \in K /\ Place(K, l) = Place(K, k)
      BY <1>1, <2>1, <2>2
    <3> HIDE DEF l
    <3>2. k < l => Place(K, k) < Place(K, l)
      BY <3>1, PlaceGrows
    <3>3. l < k => Place(K, l) < Place(K, k)
      BY <3>1, PlaceGrows
    <3> QED BY <3>1, <3>2, <3>3 DEF l
  <2>5. k = at[Place(K, k)]
    BY <2>3, <2>4
  <2> QED BY <2>1, <2>5
<1>5. ASSUME NEW p \in 1..c, NEW q \in 1..c, p < q PROVE at[p] < at[q]
  <2>1. at[p] \in K /\ at[q] \in K /\ Place(K, at[p]) = p /\ Place(K, at[q]) = q
    BY <1>2
  <2>2. at[p] \in Nat /\ at[q] \in Nat
    BY <1>7, <2>1
  <2>3. ~(at[q] < at[p])
    <3>1. at[q] < at[p] => Place(K, at[q]) < Place(K, at[p])
      BY <2>1, PlaceGrows
    <3>2. p \in Int /\ q \in Int
      BY <1>1
    <3> QED BY <1>5, <2>1, <3>1, <3>2
  <2>4. at[p] # at[q]
    BY <1>1, <1>5, <2>1
  <2> QED BY <2>2, <2>3, <2>4
<1>6. at \in Seq(K) /\ Len(at) = c
  BY <1>1, <1>3
<1> QED BY <1>1, <1>3, <1>4, <1>5, <1>6 DEF at, c

(* at leads from the positions of one list to those of another and keeps   *)
(* their order.                                                            *)
Leads(at, n, K) ==
  /\ at \in [1..n -> K]
  /\ \A k \in K : \E p \in 1..n : at[p] = k
  /\ \A p, q \in 1..n : p < q => at[p] < at[q]

(* The entries at some positions.                                          *)
LEMMA EntriesList ==
  ASSUME NEW X, NEW s \in Seq(X), NEW K \in SUBSET (1..Len(s))
  PROVE  LET e == Entries(s, K)
         IN /\ e \in Seq(X) /\ Len(e) = Cardinality(K) /\ Cardinality(K) \in 0..Len(s)
            /\ \E at : Leads(at, Len(e), K) /\ \A p \in 1..Len(e) : e[p] = s[at[p]]
            /\ ToSet(e) = {s[i] : i \in K}
<1> DEFINE at == Ascending(K)
           e == Entries(s, K)
           c == Cardinality(K)
<1>1. Len(s) \in Nat /\ s \in [1..Len(s) -> X]
  BY LenProperties
<1>2. K \in SUBSET Nat /\ IsFiniteSet(K) /\ c <= Len(s)
  <2>1. IsFiniteSet(1..Len(s)) /\ Cardinality(1..Len(s)) = Len(s)
    BY <1>1, FirstNumbers
  <2>2. K \in SUBSET (1..Len(s))
    OBVIOUS
  <2>3. IsFiniteSet(K) /\ Cardinality(K) <= Cardinality(1..Len(s))
    BY <2>1, <2>2, FS_Subset
  <2> QED BY <1>1, <2>1, <2>2, <2>3
<1>3. /\ c \in Nat /\ at \in [1..c -> K] /\ DOMAIN at = 1..c
      /\ \A k \in K : \E p \in 1..c : at[p] = k
      /\ \A p, q \in 1..c : p < q => at[p] < at[q]
  BY <1>2, AscendingList
<1>4. e = [p \in 1..c |-> s[at[p]]]
  BY <1>3 DEF Entries
<1> HIDE DEF at, e, c
<1>5. \A p \in 1..c : at[p] \in K /\ s[at[p]] \in X
  BY <1>1, <1>3
<1>6. e \in [1..c -> X]
  BY <1>4, <1>5
<1>7. e \in Seq(X) /\ Len(e) = c
  BY <1>3, <1>6
<1>8. Leads(at, Len(e), K) /\ \A p \in 1..Len(e) : e[p] = s[at[p]]
  BY <1>3, <1>4, <1>7 DEF Leads
<1>9. ToSet(e) = {s[i] : i \in K}
  <2>1. DOMAIN e = 1..c
    BY <1>6
  <2> QED BY <1>3, <1>4, <1>5, <2>1 DEF ToSet
<1> QED BY <1>2, <1>3, <1>7, <1>8, <1>9 DEF e, c

(* Of distinct entries the picked ones are distinct.                       *)
LEMMA EntriesDistinct ==
  ASSUME NEW X, NEW s \in Seq(X), NEW K \in SUBSET (1..Len(s)), IsInjective(s)
  PROVE  IsInjective(Entries(s, K))
<1> DEFINE e == Entries(s, K)
<1>1. e \in Seq(X) /\ Len(e) \in Nat /\ DOMAIN e = 1..Len(e) /\ DOMAIN s = 1..Len(s) /\ Len(s) \in Nat
  BY EntriesList, LenProperties
<1>2. PICK at : Leads(at, Len(e), K) /\ \A p \in 1..Len(e) : e[p] = s[at[p]]
  BY EntriesList
<1> HIDE DEF e
<1> SUFFICES ASSUME NEW p \in 1..Len(e), NEW q \in 1..Len(e), e[p] = e[q] PROVE p = q
  BY <1>1 DEF IsInjective, e
<1>3. at[p] \in K /\ at[q] \in K /\ s[at[p]] = s[at[q]]
  BY <1>2 DEF Leads
<1>4. at[p] = at[q] /\ at[p] \in Nat
  <2>1. at[p] \in 1..Len(s) /\ at[q] \in 1..Len(s)
    BY <1>3
  <2> QED BY <1>1, <1>3, <2>1 DEF IsInjective
<1>5. ~(p < q) /\ ~(q < p)
  BY <1>2, <1>4 DEF Leads
<1> QED BY <1>1, <1>5

(* A list filtered by membership, and the same entries in the same order.  *)
LEMMA WithinList ==
  ASSUME NEW X, NEW s \in Seq(X), NEW S
  PROVE  /\ Within(s, S) \in Seq(X) /\ Len(Within(s, S)) \in 0..Len(s)
         /\ ToSet(Within(s, S)) = ToSet(s) \cap S
         /\ IsInjective(s) => IsInjective(Within(s, S))
         /\ Outside(s, S) \in Seq(X) /\ Len(Outside(s, S)) \in 0..Len(s)
         /\ ToSet(Outside(s, S)) = ToSet(s) \ S
         /\ IsInjective(s) => IsInjective(Outside(s, S))
<1> DEFINE K == {i \in DOMAIN s : s[i] \in S}
           L == {i \in DOMAIN s : s[i] \notin S}
<1>1. DOMAIN s = 1..Len(s)
  BY LenProperties
<1>2. Within(s, S) = Entries(s, K) /\ Outside(s, S) = Entries(s, L)
  BY DEF Within, Outside, Where
<1>3. K \in SUBSET (1..Len(s)) /\ L \in SUBSET (1..Len(s))
  BY <1>1
<1>4. {s[i] : i \in K} = ToSet(s) \cap S /\ {s[i] : i \in L} = ToSet(s) \ S
  BY DEF ToSet
<1> HIDE DEF K, L
<1>5. /\ Entries(s, K) \in Seq(X) /\ Len(Entries(s, K)) \in 0..Len(s)
      /\ ToSet(Entries(s, K)) = {s[i] : i \in K}
      /\ Entries(s, L) \in Seq(X) /\ Len(Entries(s, L)) \in 0..Len(s)
      /\ ToSet(Entries(s, L)) = {s[i] : i \in L}
  BY <1>3, EntriesList
<1>6. IsInjective(s) => IsInjective(Entries(s, K)) /\ IsInjective(Entries(s, L))
  BY <1>3, EntriesDistinct
<1> QED BY <1>2, <1>4, <1>5, <1>6

(* Without repetitions, a list has the same entries, each once.            *)
LEMMA DistinctList ==
  ASSUME NEW X, NEW s \in Seq(X)
  PROVE  /\ Distinct(s) \in Seq(X) /\ Len(Distinct(s)) \in 0..Len(s)
         /\ ToSet(Distinct(s)) = ToSet(s)
         /\ IsInjective(Distinct(s))
<1> DEFINE K == {i \in DOMAIN s : \A j \in 1..(i - 1) : s[j] # s[i]}
           e == Entries(s, K)
<1>1. Len(s) \in Nat /\ DOMAIN s = 1..Len(s)
  BY LenProperties
<1>2. Distinct(s) = e
  BY DEF Distinct
<1>3. K \in SUBSET (1..Len(s))
  BY <1>1
<1>4. ASSUME NEW i \in 1..Len(s) PROVE \E k \in K : s[k] = s[i]
  <2> DEFINE T == {j \in 1..Len(s) : s[j] = s[i]}
  <2>1. T \in SUBSET Nat /\ T # {}
    BY <1>1
  <2>2. PICK k \in T : \A j \in T : k <= j
    BY <2>1, LeastOf
  <2>3. \A j \in 1..(k - 1) : s[j] # s[k]
    <3>1. \A j \in 1..(k - 1) : j \in 1..Len(s) /\ ~(k <= j)
      BY <1>1, <2>1
    <3> QED BY <2>2, <3>1
  <2> QED BY <1>1, <2>3
<1>5. \A k, l \in K : s[k] = s[l] => k = l
  <2> SUFFICES ASSUME NEW k \in K, NEW l \in K, s[k] = s[l], k # l PROVE FALSE
    OBVIOUS
  <2>1. k \in Nat /\ l \in Nat /\ k >= 1 /\ l >= 1
    BY <1>1
  <2>2. k \in 1..(l - 1) \/ l \in 1..(k - 1)
    BY <2>1
  <2> QED BY <2>2
<1>6. {s[k] : k \in K} = ToSet(s)
  BY <1>1, <1>3, <1>4 DEF ToSet
<1> HIDE DEF K, e
<1>7. e \in Seq(X) /\ Len(e) \in 0..Len(s) /\ Len(e) \in Nat /\ ToSet(e) = {s[k] : k \in K}
  BY <1>3, EntriesList, LenProperties DEF e
<1>8. PICK at : Leads(at, Len(e), K) /\ \A p \in 1..Len(e) : e[p] = s[at[p]]
  BY <1>3, EntriesList DEF e
<1>9. IsInjective(e)
  <2>1. DOMAIN e = 1..Len(e)
    BY <1>7, LenProperties
  <2>2. SUFFICES ASSUME NEW p \in 1..Len(e), NEW q \in 1..Len(e), e[p] = e[q] PROVE p = q
    BY <2>1 DEF IsInjective
  <2>3. at[p] \in K /\ at[q] \in K /\ s[at[p]] = s[at[q]]
    BY <1>8, <2>2 DEF Leads
  <2>4. at[p] = at[q] /\ at[p] \in Nat
    <3>1. at[p] \in 1..Len(s)
      BY <1>3, <2>3
    <3> QED BY <1>1, <1>5, <2>3, <3>1
  <2>5. ~(p < q) /\ ~(q < p)
    BY <1>8, <2>4 DEF Leads
  <2> QED BY <1>7, <2>5
<1> QED BY <1>2, <1>6, <1>7, <1>9

-----------------------------------------------------------------------------
(* Sorting.                                                                *)

(* at puts the positions of a list into the order of their keys, greatest  *)
(* first, and keeps the order of equals.                                   *)
Sorts(at, key, n) ==
  /\ at \in [1..n -> 1..n]
  /\ \A i \in 1..n : \E p \in 1..n : at[p] = i
  /\ \A p, q \in 1..n : p < q => \/ key[at[p]] > key[at[q]]
                                 \/ key[at[p]] = key[at[q]] /\ at[p] < at[q]

(* Counting those before an entry gives every entry a place of its own.    *)
LEMMA OrderSorts ==
  ASSUME NEW n \in Nat, NEW key \in [1..n -> Int]
  PROVE  Sorts(Order(key), key, n)
<1> DEFINE Before(i) == {j \in 1..n : key[j] > key[i] \/ (key[j] = key[i] /\ j <= i)}
           place == [i \in 1..n |-> Cardinality(Before(i))]
           at == Order(key)
<1>1. DOMAIN key = 1..n /\ IsFiniteSet(1..n) /\ Cardinality(1..n) = n
  BY FirstNumbers
<1>2. at = [p \in 1..n |-> CHOOSE i \in 1..n : place[i] = p]
  BY <1>1 DEF Order
<1>3. \A i \in 1..n : key[i] \in Int /\ i \in Int
  OBVIOUS
<1>4. ASSUME NEW i \in 1..n
      PROVE  /\ IsFiniteSet(Before(i)) /\ Cardinality(Before(i)) \in Nat
             /\ Cardinality(Before(i)) \in 1..n
  <2>1. Before(i) \in SUBSET (1..n) /\ i \in Before(i)
    BY <1>3
  <2>2. IsFiniteSet(Before(i)) /\ Cardinality(Before(i)) <= n
    BY <1>1, <2>1, FS_Subset
  <2>3. Cardinality(Before(i)) \in Nat /\ Cardinality(Before(i)) # 0
    BY <2>1, <2>2, FS_CardinalityType, FS_EmptySet
  <2> QED BY <2>2, <2>3
<1>5. ASSUME NEW i \in 1..n, NEW j \in 1..n, i # j,
             key[i] > key[j] \/ (key[i] = key[j] /\ i <= j)
      PROVE  Cardinality(Before(i)) < Cardinality(Before(j))
  <2>1. Before(i) \in SUBSET Before(j)
    <3> SUFFICES ASSUME NEW k \in Before(i) PROVE k \in Before(j)
      OBVIOUS
    <3>1. /\ key[k] \in Int /\ key[i] \in Int /\ key[j] \in Int
          /\ k \in 1..n /\ k \in Int /\ i \in Int /\ j \in Int
      BY <1>3
    <3> QED BY <1>5, <3>1
  <2>2. j \in Before(j) /\ j \notin Before(i)
    BY <1>3, <1>5
  <2>3. Cardinality(Before(i)) <= Cardinality(Before(j)) /\ Before(i) # Before(j)
    BY <1>4, <2>1, <2>2, FS_Subset
  <2>4. Cardinality(Before(i)) # Cardinality(Before(j))
    BY <1>4, <2>1, <2>3, FS_Subset
  <2>5. Cardinality(Before(i)) \in Nat /\ Cardinality(Before(j)) \in Nat
    BY <1>4
  <2> HIDE DEF Before
  <2> QED BY <2>3, <2>4, <2>5
<1>0. \A i \in 1..n : place[i] = Cardinality(Before(i))
  OBVIOUS
<1>14. \A i \in 1..n : Cardinality(Before(i)) \in 1..n
  BY <1>4
<1>6. \A i \in 1..n : place[i] \in 1..n
  <2> HIDE DEF Before
  <2> QED BY <1>0, <1>4
<1>7. \A i, j \in 1..n : i # j => \/ key[i] > key[j] \/ (key[i] = key[j] /\ i <= j)
                                  \/ key[j] > key[i] \/ (key[j] = key[i] /\ j <= i)
  BY <1>3
<1>8. ASSUME NEW i \in 1..n, NEW j \in 1..n, i # j PROVE place[i] # place[j]
  <2>1. Cardinality(Before(i)) \in Int /\ Cardinality(Before(j)) \in Int
    <3> HIDE DEF Before
    <3> QED BY <1>14
  <2>2. Cardinality(Before(i)) < Cardinality(Before(j)) \/ Cardinality(Before(j)) < Cardinality(Before(i))
    BY <1>5, <1>7, <1>8
  <2> HIDE DEF Before
  <2> QED BY <2>1, <2>2
<1>9. ASSUME NEW p \in 1..n PROVE \E i \in 1..n : place[i] = p
  <2>1. place \in [1..n -> 1..n]
    BY <1>6
  <2>2. place \in Injection(1..n, 1..n)
    BY <1>8, <2>1 DEF Injection, IsInjective
  <2>3. place \in Surjection(1..n, 1..n)
    BY <1>1, <2>2, FS_Injection
  <2> QED BY <2>3 DEF Surjection
<1>10. ASSUME NEW p \in 1..n PROVE at[p] \in 1..n /\ place[at[p]] = p
  BY <1>2, <1>9
<1>11. at \in [1..n -> 1..n]
  BY <1>2, <1>10
<1>12. ASSUME NEW i \in 1..n PROVE \E p \in 1..n : at[p] = i
  <2>1. place[i] \in 1..n
    BY <1>6
  <2>2. at[place[i]] \in 1..n /\ place[at[place[i]]] = place[i]
    BY <1>10, <2>1
  <2>3. at[place[i]] = i
    BY <1>8, <2>2
  <2> QED BY <2>1, <2>3
<1>13. ASSUME NEW p \in 1..n, NEW q \in 1..n, p < q
       PROVE  \/ key[at[p]] > key[at[q]]
              \/ key[at[p]] = key[at[q]] /\ at[p] < at[q]
  <2>1. at[p] \in 1..n /\ at[q] \in 1..n /\ place[at[p]] = p /\ place[at[q]] = q
    BY <1>10
  <2> DEFINE i == at[p]
             j == at[q]
  <2> HIDE DEF place
  <2>2. i \in 1..n /\ j \in 1..n /\ place[i] < place[j] /\ p \in Int /\ q \in Int /\ i # j
    BY <1>13, <2>1
  <2>3. Cardinality(Before(i)) < Cardinality(Before(j))
        /\ Cardinality(Before(i)) \in Int /\ Cardinality(Before(j)) \in Int
    <3> HIDE DEF Before, i, j
    <3>1. place[i] = Cardinality(Before(i)) /\ place[j] = Cardinality(Before(j))
      BY <1>0, <2>2
    <3>2. Cardinality(Before(i)) \in 1..n /\ Cardinality(Before(j)) \in 1..n
      BY <1>14, <2>2
    <3> QED BY <2>2, <3>1, <3>2
  <2> HIDE DEF i, j
  <2>4. ~(Cardinality(Before(j)) < Cardinality(Before(i)))
    <3> HIDE DEF Before
    <3> QED BY <2>3
  <2>5. ~(key[j] > key[i] \/ (key[j] = key[i] /\ j <= i))
    BY <1>5, <2>2, <2>4
  <2>6. key[i] > key[j] \/ (key[i] = key[j] /\ i < j)
    BY <1>3, <2>2, <2>5
  <2> QED BY <2>6 DEF i, j
<1> QED BY <1>11, <1>12, <1>13 DEF Sorts

(* The list s in the order that at gives.                                  *)
Arranged(s, at) == [p \in DOMAIN s |-> s[at[p]]]

(* A sorted list has the entries of the unsorted one, each as often.       *)
LEMMA ArrangedList ==
  ASSUME NEW X, NEW s \in Seq(X), NEW key \in [1..Len(s) -> Int], NEW at, Sorts(at, key, Len(s))
  PROVE  LET t == Arranged(s, at)
         IN /\ t \in Seq(X) /\ Len(t) = Len(s)
            /\ \A p \in 1..Len(s) : at[p] \in 1..Len(s) /\ t[p] = s[at[p]]
            /\ ToSet(t) = ToSet(s)
            /\ IsInjective(s) => IsInjective(t)
<1> DEFINE t == Arranged(s, at)
<1>1. Len(s) \in Nat /\ DOMAIN s = 1..Len(s) /\ s \in [1..Len(s) -> X]
  BY LenProperties
<1>2. \A p \in 1..Len(s) : at[p] \in 1..Len(s) /\ t[p] = s[at[p]] /\ t[p] \in X
  BY <1>1 DEF Sorts, Arranged
<1>3. t \in [1..Len(s) -> X]
  BY <1>1, <1>2 DEF Arranged
<1>4. t \in Seq(X) /\ Len(t) = Len(s)
  BY <1>1, <1>3
<1> HIDE DEF t
<1>5. ToSet(t) = ToSet(s)
  <2>1. DOMAIN t = 1..Len(s)
    BY <1>3
  <2>2. \A i \in 1..Len(s) : \E p \in 1..Len(s) : at[p] = i
    BY DEF Sorts
  <2>3. ASSUME NEW x \in ToSet(t) PROVE x \in ToSet(s)
    <3>1. PICK p \in 1..Len(s) : x = t[p]
      BY <2>1 DEF ToSet
    <3> QED BY <1>1, <1>2, <3>1 DEF ToSet
  <2>4. ASSUME NEW x \in ToSet(s) PROVE x \in ToSet(t)
    <3>1. PICK i \in 1..Len(s) : x = s[i]
      BY <1>1 DEF ToSet
    <3>2. PICK p \in 1..Len(s) : at[p] = i
      BY <2>2
    <3>3. x = t[p]
      BY <1>2, <3>1, <3>2
    <3> QED BY <2>1, <3>3 DEF ToSet
  <2> QED BY <2>3, <2>4
<1>6. ASSUME IsInjective(s), NEW p \in 1..Len(s), NEW q \in 1..Len(s), t[p] = t[q] PROVE p = q
  <2>1. at[p] = at[q] /\ at[p] \in 1..Len(s)
    BY <1>1, <1>2, <1>6 DEF IsInjective
  <2>2. key[at[p]] \in Int /\ at[p] \in Int
    BY <1>1, <2>1
  <2>3. ~(p < q) /\ ~(q < p)
    <3>1. \A i, j \in 1..Len(s) : i < j => \/ key[at[i]] > key[at[j]]
                                           \/ key[at[i]] = key[at[j]] /\ at[i] < at[j]
      BY DEF Sorts
    <3>2. ~(key[at[p]] > key[at[p]]) /\ ~(at[p] < at[p])
      BY <2>2
    <3> QED BY <2>1, <3>1, <3>2
  <2>4. p \in Int /\ q \in Int
    BY <1>1
  <2> QED BY <2>3, <2>4
<1>7. IsInjective(s) => IsInjective(t)
  BY <1>3, <1>6 DEF IsInjective
<1> QED BY <1>2, <1>4, <1>5, <1>7 DEF t

-----------------------------------------------------------------------------
(* Cutting.                                                                *)

(* s[:n] and s[n:]                                                         *)
LEMMA CutList ==
  ASSUME NEW X, NEW s \in Seq(X), NEW n \in Nat
  PROVE  /\ Upto(s, n) \in Seq(X)
         /\ Len(Upto(s, n)) = IF n <= Len(s) THEN n ELSE Len(s)
         /\ \A i \in 1..Len(Upto(s, n)) : Upto(s, n)[i] = s[i]
         /\ ToSet(Upto(s, n)) = {s[i] : i \in {i \in 1..Len(s) : i <= n}}
         /\ From(s, n) \in Seq(X)
         /\ Len(From(s, n)) = IF n <= Len(s) THEN Len(s) - n ELSE 0
         /\ \A i \in 1..Len(From(s, n)) : From(s, n)[i] = s[n + i]
         /\ ToSet(From(s, n)) = {s[i] : i \in {i \in 1..Len(s) : i > n}}
         /\ n >= Len(s) => Upto(s, n) = s
<1>1. Len(s) \in Nat /\ \A i \in 1..Len(s) : s[i] \in X
  BY LenProperties
<1> DEFINE l == IF n <= Len(s) THEN n ELSE Len(s)
           u == Upto(s, n)
           f == From(s, n)
<1>2. u = SubSeq(s, 1, l) /\ l \in Int /\ l <= Len(s) /\ l >= 0
  BY <1>1, MinOfTwo DEF Upto
<1> HIDE DEF u, l
<1>3. /\ u \in Seq(X) /\ Len(u) = l
      /\ \A i \in 1..Len(u) : u[i] = s[i]
  <2>1. \A i \in 1..l : s[i] \in X
    BY <1>1, <1>2
  <2>2. /\ SubSeq(s, 1, l) \in Seq(X)
        /\ Len(SubSeq(s, 1, l)) = IF 1 <= l THEN l - 1 + 1 ELSE 0
        /\ \A i \in 1..(l - 1 + 1) : SubSeq(s, 1, l)[i] = s[1 + i - 1]
    BY <1>2, <2>1, SubSeqProperties
  <2>3. Len(u) = l /\ \A i \in 1..l : i \in 1..(l - 1 + 1) /\ 1 + i - 1 = i
    BY <1>2, <2>2
  <2> QED BY <1>2, <2>2, <2>3
<1>4. ToSet(u) = {s[i] : i \in {i \in 1..Len(s) : i <= n}}
  <2>1. DOMAIN u = 1..l
    BY <1>3, LenProperties
  <2>2. 1..l = {i \in 1..Len(s) : i <= n}
    BY <1>1 DEF l
  <2>3. \A i \in 1..l : u[i] = s[i]
    BY <1>3
  <2>4. ToSet(u) = {u[i] : i \in 1..l}
    BY <2>1 DEF ToSet
  <2> QED BY <2>2, <2>3, <2>4
<1>5. /\ f \in Seq(X)
      /\ Len(f) = IF n <= Len(s) THEN Len(s) - n ELSE 0
      /\ \A i \in 1..Len(f) : f[i] = s[n + i]
  <2>1. \A i \in (n + 1)..Len(s) : s[i] \in X
    BY <1>1
  <2>2. /\ f \in Seq(X)
        /\ Len(f) = IF n + 1 <= Len(s) THEN Len(s) - (n + 1) + 1 ELSE 0
        /\ \A i \in 1..(Len(s) - (n + 1) + 1) : f[i] = s[n + 1 + i - 1]
    BY <1>1, <2>1, SubSeqProperties DEF From
  <2>3. Len(f) = IF n <= Len(s) THEN Len(s) - n ELSE 0
    BY <1>1, <2>2
  <2>4. \A i \in 1..Len(f) : i \in 1..(Len(s) - (n + 1) + 1) /\ n + 1 + i - 1 = n + i
    BY <1>1, <2>3
  <2> QED BY <2>2, <2>3, <2>4
<1> HIDE DEF f
<1>6. ToSet(f) = {s[i] : i \in {i \in 1..Len(s) : i > n}}
  <2>1. DOMAIN f = 1..Len(f)
    BY <1>5, LenProperties
  <2>2. \A i \in 1..Len(f) : n + i \in {i2 \in 1..Len(s) : i2 > n}
    BY <1>1, <1>5
  <2>3. \A i \in {i2 \in 1..Len(s) : i2 > n} : i - n \in 1..Len(f) /\ f[i - n] = s[i]
    <3> SUFFICES ASSUME NEW i \in 1..Len(s), i > n PROVE i - n \in 1..Len(f) /\ f[i - n] = s[i]
      OBVIOUS
    <3>1. i - n \in 1..Len(f) /\ n + (i - n) = i
      BY <1>1, <1>5
    <3> QED BY <1>5, <3>1
  <2> QED BY <1>5, <2>1, <2>2, <2>3 DEF ToSet
<1>7. n >= Len(s) => u = s
  <2>1. n >= Len(s) => l = Len(s)
    BY <1>1 DEF l
  <2> QED BY <1>2, <2>1, SubSeqFull
<1> QED BY <1>3, <1>4, <1>5, <1>6, <1>7 DEF u, f, l

(* The pieces of a list without repetitions have none and share nothing.   *)
LEMMA CutDistinct ==
  ASSUME NEW X, NEW s \in Seq(X), NEW n \in Nat, IsInjective(s)
  PROVE  /\ IsInjective(Upto(s, n)) /\ IsInjective(From(s, n))
         /\ ToSet(Upto(s, n)) \cap ToSet(From(s, n)) = {}
         /\ ToSet(Upto(s, n)) \cup ToSet(From(s, n)) = ToSet(s)
<1>1. Len(s) \in Nat /\ DOMAIN s = 1..Len(s)
  BY LenProperties
<1> DEFINE u == Upto(s, n)
           f == From(s, n)
<1>2. /\ DOMAIN u = 1..Len(u) /\ Len(u) = (IF n <= Len(s) THEN n ELSE Len(s))
      /\ \A i \in 1..Len(u) : u[i] = s[i]
      /\ ToSet(u) = {s[i] : i \in {i \in 1..Len(s) : i <= n}}
      /\ DOMAIN f = 1..Len(f) /\ Len(f) = (IF n <= Len(s) THEN Len(s) - n ELSE 0)
      /\ \A i \in 1..Len(f) : f[i] = s[n + i]
      /\ ToSet(f) = {s[i] : i \in {i \in 1..Len(s) : i > n}}
  <2>1. u \in Seq(X) /\ f \in Seq(X)
    BY CutList
  <2>2. DOMAIN u = 1..Len(u) /\ DOMAIN f = 1..Len(f)
    BY <2>1, LenProperties
  <2>3. /\ Len(u) = (IF n <= Len(s) THEN n ELSE Len(s))
        /\ \A i \in 1..Len(u) : u[i] = s[i]
        /\ ToSet(u) = {s[i] : i \in {i \in 1..Len(s) : i <= n}}
    BY CutList
  <2>4. /\ Len(f) = (IF n <= Len(s) THEN Len(s) - n ELSE 0)
        /\ \A i \in 1..Len(f) : f[i] = s[n + i]
        /\ ToSet(f) = {s[i] : i \in {i \in 1..Len(s) : i > n}}
    BY CutList
  <2> QED BY <2>2, <2>3, <2>4
<1> HIDE DEF u, f
<1>8. Len(u) \in Nat /\ Len(u) <= Len(s) /\ Len(f) \in Nat /\ (Len(f) # 0 => Len(f) = Len(s) - n)
  <2>1. Len(u) = (IF n <= Len(s) THEN n ELSE Len(s)) /\ Len(f) = (IF n <= Len(s) THEN Len(s) - n ELSE 0)
    BY <1>2
  <2>2. CASE n <= Len(s)
    <3>1. Len(u) = n /\ Len(f) = Len(s) - n
      BY <2>1, <2>2
    <3> QED BY <1>1, <2>2, <3>1
  <2>3. CASE ~(n <= Len(s))
    <3>1. Len(u) = Len(s) /\ Len(f) = 0
      BY <2>1, <2>3
    <3> QED BY <1>1, <2>3, <3>1
  <2> QED BY <2>2, <2>3
<1>3. \A i, j \in 1..Len(s) : s[i] = s[j] => i = j
  BY <1>1 DEF IsInjective
<1>4. IsInjective(u)
  <2>1. \A i \in 1..Len(u) : i \in 1..Len(s)
    <3> DEFINE l == Len(u)
               m == Len(s)
    <3>1. l \in Nat /\ m \in Nat /\ l <= m
      BY <1>1, <1>8
    <3> HIDE DEF l, m
    <3>2. \A i \in 1..l : i \in 1..m
      BY <3>1
    <3> QED BY <3>2 DEF l, m
  <2> QED BY <1>2, <1>3, <2>1 DEF IsInjective
<1>5. IsInjective(f)
  <2>1. \A i \in 1..Len(f) : n + i \in 1..Len(s)
    <3> DEFINE l == Len(f)
               m == Len(s)
    <3>1. l \in Nat /\ m \in Nat /\ (l # 0 => l = m - n)
      BY <1>1, <1>8
    <3> HIDE DEF l, m
    <3>2. \A i \in 1..l : n + i \in 1..m
      BY <3>1
    <3> QED BY <3>2 DEF l, m
  <2>2. \A i, j \in 1..Len(f) : n + i = n + j => i = j
    BY <1>8
  <2> QED BY <1>2, <1>3, <2>1, <2>2 DEF IsInjective
<1>6. ToSet(u) \cap ToSet(f) = {}
  <2>1. \A i, j \in 1..Len(s) : i <= n /\ j > n => s[i] # s[j]
    BY <1>1, <1>3
  <2> QED BY <1>2, <2>1
<1>7. ToSet(u) \cup ToSet(f) = ToSet(s)
  <2>1. \A i \in 1..Len(s) : i <= n \/ i > n
    BY <1>1
  <2> QED BY <1>1, <1>2, <2>1 DEF ToSet
<1> QED BY <1>4, <1>5, <1>6, <1>7 DEF u, f

(* What two lists one after the other have.                                *)
LEMMA ConcatList ==
  ASSUME NEW X, NEW s \in Seq(X), NEW t \in Seq(X)
  PROVE  /\ s \o t \in Seq(X) /\ Len(s \o t) = Len(s) + Len(t)
         /\ ToSet(s \o t) = ToSet(s) \cup ToSet(t)
         /\ IsInjective(s) /\ IsInjective(t) /\ ToSet(s) \cap ToSet(t) = {} => IsInjective(s \o t)
<1>1. /\ Len(s) \in Nat /\ DOMAIN s = 1..Len(s) /\ Len(t) \in Nat /\ DOMAIN t = 1..Len(t)
  BY LenProperties
<1> DEFINE c == s \o t
<1>2. /\ c \in Seq(X) /\ Len(c) = Len(s) + Len(t)
      /\ \A i \in 1..Len(s) + Len(t) : c[i] = IF i <= Len(s) THEN s[i] ELSE t[i - Len(s)]
  BY ConcatProperties
<1> HIDE DEF c
<1>3. DOMAIN c = 1..Len(s) + Len(t)
  BY <1>2, LenProperties
<1>4. \A i \in 1..Len(s) : i \in 1..Len(s) + Len(t) /\ c[i] = s[i]
  BY <1>1, <1>2
<1>5. \A i \in 1..Len(t) : Len(s) + i \in 1..Len(s) + Len(t) /\ c[Len(s) + i] = t[i]
  <2> SUFFICES ASSUME NEW i \in 1..Len(t)
               PROVE  Len(s) + i \in 1..Len(s) + Len(t) /\ c[Len(s) + i] = t[i]
    OBVIOUS
  <2>1. Len(s) + i \in 1..Len(s) + Len(t) /\ ~(Len(s) + i <= Len(s)) /\ Len(s) + i - Len(s) = i
    BY <1>1
  <2> QED BY <1>2, <2>1
<1>6. \A i \in 1..Len(s) + Len(t) : \/ i \in 1..Len(s) /\ c[i] = s[i]
                                    \/ i > Len(s) /\ i - Len(s) \in 1..Len(t) /\ c[i] = t[i - Len(s)]
  <2> SUFFICES ASSUME NEW i \in 1..Len(s) + Len(t)
               PROVE  \/ i \in 1..Len(s) /\ c[i] = s[i]
                      \/ i > Len(s) /\ i - Len(s) \in 1..Len(t) /\ c[i] = t[i - Len(s)]
    OBVIOUS
  <2>1. CASE i <= Len(s)
    <3>1. i \in 1..Len(s)
      BY <1>1, <2>1
    <3> QED BY <1>2, <2>1, <3>1
  <2>2. CASE ~(i <= Len(s))
    <3>1. i > Len(s) /\ i - Len(s) \in 1..Len(t)
      BY <1>1, <2>2
    <3> QED BY <1>2, <2>2, <3>1
  <2> QED BY <2>1, <2>2
<1>7. ToSet(c) = ToSet(s) \cup ToSet(t)
  <2>1. ToSet(c) = {c[i] : i \in 1..Len(s) + Len(t)}
    BY <1>3 DEF ToSet
  <2>2. ToSet(s) = {s[i] : i \in 1..Len(s)} /\ ToSet(t) = {t[i] : i \in 1..Len(t)}
    BY <1>1 DEF ToSet
  <2>3. \A i \in 1..Len(s) : s[i] \in ToSet(c)
    BY <1>4, <2>1
  <2>4. \A i \in 1..Len(t) : t[i] \in ToSet(c)
    BY <1>5, <2>1
  <2>5. \A i \in 1..Len(s) + Len(t) : c[i] \in ToSet(s) \cup ToSet(t)
    BY <1>6, <2>2
  <2> QED BY <2>1, <2>2, <2>3, <2>4, <2>5
<1>8. ASSUME IsInjective(s), IsInjective(t), ToSet(s) \cap ToSet(t) = {},
             NEW i \in 1..Len(s) + Len(t), NEW j \in 1..Len(s) + Len(t), c[i] = c[j]
      PROVE  i = j
  <2>1. i \in Int /\ j \in Int
    BY <1>1
  <2>2. \A k \in 1..Len(s), l \in 1..Len(t) : s[k] # t[l]
    BY <1>1, <1>8 DEF ToSet
  <2>3. CASE i \in 1..Len(s) /\ c[i] = s[i]
    <3>1. j \in 1..Len(s) /\ c[j] = s[j]
      BY <1>6, <1>8, <2>2, <2>3
    <3> QED BY <1>1, <1>8, <2>3, <3>1 DEF IsInjective
  <2>4. CASE i > Len(s) /\ i - Len(s) \in 1..Len(t) /\ c[i] = t[i - Len(s)]
    <3>1. j > Len(s) /\ j - Len(s) \in 1..Len(t) /\ c[j] = t[j - Len(s)]
      BY <1>6, <1>8, <2>2, <2>4
    <3>2. i - Len(s) = j - Len(s)
      BY <1>1, <1>8, <2>4, <3>1 DEF IsInjective
    <3> QED BY <1>1, <2>1, <3>2
  <2> QED BY <1>6, <2>3, <2>4
<1> QED BY <1>2, <1>3, <1>7, <1>8 DEF IsInjective, c

-----------------------------------------------------------------------------
(* Recursion over a list.                                                  *)

(* g starts with e and has each value from the one before by f.            *)
Unfolds(g, f, e, l, S) ==
  g \in [0..l -> S] /\ g[0] = e /\ \A n \in 1..l : g[n] = f[<<n, g[n - 1]>>]

(* What is defined from its predecessor exists.                            *)
LEMMA Recursion ==
  ASSUME NEW S, NEW e \in S, NEW l \in Nat, NEW f \in [(1..l) \X S -> S]
  PROVE  \E g : Unfolds(g, f, e, l, S)
<1> DEFINE Upon(g, m) == g[0] = e /\ \A n \in 1..m : g[n] = f[<<n, g[n - 1]>>]
           T == {m \in Nat : m <= l => \E g \in [0..m -> S] : Upon(g, m)}
<1>1. 0 \in T
  <2> DEFINE g == [n \in 0..0 |-> e]
  <2>1. g \in [0..0 -> S] /\ g[0] = e /\ 1..0 = {}
    OBVIOUS
  <2> QED BY <2>1
<1>2. ASSUME NEW m \in Nat, m \in T PROVE m + 1 \in T
  <2> SUFFICES ASSUME m + 1 <= l PROVE \E g \in [0..(m + 1) -> S] : Upon(g, m + 1)
    OBVIOUS
  <2>1. PICK g \in [0..m -> S] : Upon(g, m)
    BY <1>2
  <2> DEFINE h == [n \in 0..(m + 1) |-> IF n <= m THEN g[n] ELSE f[<<m + 1, g[m]>>]]
  <2>2. <<m + 1, g[m]>> \in (1..l) \X S
    OBVIOUS
  <2>3. h \in [0..(m + 1) -> S]
    BY <2>2
  <2>4. h[0] = g[0]
    OBVIOUS
  <2>5. ASSUME NEW n \in 1..(m + 1) PROVE h[n] = f[<<n, h[n - 1]>>]
    <3>1. CASE n \in 1..m
      <4>1. h[n] = g[n] /\ h[n - 1] = g[n - 1]
        BY <3>1
      <4> QED BY <2>1, <3>1, <4>1
    <3>2. CASE n = m + 1
      <4>1. h[n] = f[<<m + 1, g[m]>>] /\ h[n - 1] = g[m]
        BY <3>2
      <4> QED BY <3>2, <4>1
    <3> QED BY <3>1, <3>2
  <2> QED BY <2>1, <2>3, <2>4, <2>5
<1> HIDE DEF T
<1>3. \A m \in Nat : m \in T
  BY <1>1, <1>2, Induction
<1> QED BY <1>3 DEF T, Unfolds

(* A sum grows by one number after the other.                              *)
LEMMA TotalSteps ==
  ASSUME NEW numbers \in Seq(Nat)
  PROVE  \E g \in [0..Len(numbers) -> Nat] :
           /\ g[0] = 0 /\ Total(numbers) = g[Len(numbers)]
           /\ \A n \in 1..Len(numbers) : g[n] = g[n - 1] + numbers[n]
<1> DEFINE l == Len(numbers)
           Sum(g) == [n \in 0..l |-> IF n = 0 THEN 0 ELSE g[n - 1] + numbers[n]]
           upto == CHOOSE g : g = Sum(g)
           f == [p \in (1..l) \X Nat |-> p[2] + numbers[p[1]]]
<1>1. l \in Nat /\ \A n \in 1..l : numbers[n] \in Nat
  BY LenProperties
<1>2. Total(numbers) = upto[l]
  BY DEF Total
<1>3. f \in [(1..l) \X Nat -> Nat]
  BY <1>1
<1>0. PICK g : Unfolds(g, f, 0, l, Nat)
  <2>1. 0 \in Nat
    OBVIOUS
  <2> HIDE DEF f, l
  <2> QED BY <1>1, <1>3, <2>1, Recursion
<1>4. g \in [0..l -> Nat] /\ g[0] = 0 /\ \A n \in 1..l : g[n] = f[<<n, g[n - 1]>>]
  BY <1>0 DEF Unfolds
<1>5. g = Sum(g)
  <2>1. ASSUME NEW n \in 1..l PROVE g[n] = g[n - 1] + numbers[n]
    <3>1. n - 1 \in 0..l
      BY <1>1
    <3>2. <<n, g[n - 1]>> \in (1..l) \X Nat
      BY <1>4, <3>1
    <3> QED BY <1>4, <3>2
  <2>2. \A n \in 0..l : n = 0 \/ n \in 1..l
    BY <1>1
  <2>3. \A n \in 0..l : g[n] = Sum(g)[n]
    BY <1>4, <2>1, <2>2
  <2> QED BY <1>4, <2>3
<1>6. upto = Sum(upto)
  BY <1>5
<1> HIDE DEF upto
<1> DEFINE T == {n \in Nat : n <= l => upto[n] \in Nat}
<1>7. 0 \in T
  BY <1>1, <1>6
<1>8. ASSUME NEW n \in Nat, n \in T PROVE n + 1 \in T
  <2> SUFFICES ASSUME n + 1 <= l PROVE upto[n + 1] \in Nat
    OBVIOUS
  <2>1. n + 1 \in 0..l /\ n + 1 # 0 /\ n + 1 - 1 = n /\ n + 1 \in 1..l
    BY <1>1
  <2>2. upto[n + 1] = upto[n] + numbers[n + 1]
    BY <1>6, <2>1
  <2>3. upto[n] \in Nat
    BY <1>1, <1>8
  <2> QED BY <1>1, <2>1, <2>2, <2>3
<1> HIDE DEF T
<1>9. \A n \in Nat : n \in T
  BY <1>7, <1>8, Induction
<1>10. \A n \in 0..l : upto[n] \in Nat
  BY <1>1, <1>9 DEF T
<1>11. upto \in [0..l -> Nat]
  BY <1>6, <1>10
<1>12. upto[0] = 0 /\ \A n \in 1..l : upto[n] = upto[n - 1] + numbers[n]
  <2>1. 0 \in 0..l /\ \A n \in 1..l : n \in 0..l /\ n # 0
    BY <1>1
  <2> QED BY <1>6, <2>1
<1> QED BY <1>2, <1>11, <1>12

(* The sum of numbers is one, at least that of any two of them, and equal  *)
(* to the only one that is not zero.                                       *)
LEMMA TotalList ==
  ASSUME NEW numbers \in Seq(Nat)
  PROVE  /\ Total(numbers) \in Nat
         /\ \A m, n \in 1..Len(numbers) : m < n => Total(numbers) >= numbers[m] + numbers[n]
         /\ \A n \in 1..Len(numbers) :
              (\A m \in 1..Len(numbers) : m # n => numbers[m] = 0) => Total(numbers) = numbers[n]
<1> DEFINE l == Len(numbers)
<1>1. l \in Nat /\ \A n \in 1..l : numbers[n] \in Nat
  BY LenProperties
<1>2. PICK g \in [0..l -> Nat] :
        /\ g[0] = 0 /\ Total(numbers) = g[l]
        /\ \A n \in 1..l : g[n] = g[n - 1] + numbers[n]
  BY TotalSteps
<1> HIDE DEF l
<1>3. \A n \in 0..l : g[n] \in Nat
  BY <1>2
<1>4. ASSUME NEW k \in Nat, k + 1 <= l
      PROVE  /\ k + 1 \in 1..l /\ g[k + 1] = g[k] + numbers[k + 1]
             /\ g[k] \in Nat /\ numbers[k + 1] \in Nat
  <2>1. k + 1 \in 1..l /\ k \in 0..l /\ (k + 1) - 1 = k
    BY <1>1, <1>4
  <2> QED BY <1>1, <1>2, <1>3, <2>1
<1>5. ASSUME NEW m \in 1..l, NEW n \in 1..l, m < n
      PROVE  g[l] >= numbers[m] + numbers[n]
  <2> DEFINE Least(k) == (IF m <= k THEN numbers[m] ELSE 0) + (IF n <= k THEN numbers[n] ELSE 0)
             T == {k \in Nat : k <= l => g[k] >= Least(k)}
  <2>1. m \in Nat /\ n \in Nat /\ m > 0 /\ n > 0 /\ numbers[m] \in Nat /\ numbers[n] \in Nat
    BY <1>1
  <2>2. 0 \in T
    BY <1>2, <2>1
  <2>3. ASSUME NEW k \in Nat, k \in T PROVE k + 1 \in T
    <3> SUFFICES ASSUME k + 1 <= l PROVE g[k + 1] >= Least(k + 1)
      OBVIOUS
    <3>1. /\ g[k + 1] = g[k] + numbers[k + 1]
          /\ g[k] \in Nat /\ numbers[k + 1] \in Nat
      BY <1>4
    <3>2. g[k] >= Least(k)
      BY <1>1, <2>3
    <3>3. CASE k + 1 = m
      <4>1. Least(k) = 0 /\ Least(k + 1) = numbers[k + 1]
        BY <1>5, <2>1, <3>3
      <4> QED BY <3>1, <3>2, <4>1
    <3>4. CASE k + 1 = n
      <4>1. m <= k /\ ~(n <= k) /\ m <= k + 1 /\ n <= k + 1
        BY <1>5, <2>1, <3>4
      <4>2. Least(k) = numbers[m]
        BY <2>1, <4>1
      <4>3. Least(k + 1) = numbers[m] + numbers[n]
        BY <4>1
      <4>4. g[k + 1] = g[k] + numbers[n]
        BY <3>1, <3>4
      <4> HIDE DEF Least
      <4> QED BY <2>1, <3>1, <3>2, <4>2, <4>3, <4>4
    <3>5. CASE k + 1 # m /\ k + 1 # n
      <4>1. Least(k + 1) = Least(k) /\ Least(k) \in Nat
        BY <2>1, <3>5
      <4> HIDE DEF Least
      <4> QED BY <3>1, <3>2, <4>1
    <3> QED BY <3>3, <3>4, <3>5
  <2> HIDE DEF T
  <2>4. l \in T
    BY <1>1, <2>2, <2>3, Induction
  <2>5. Least(l) = numbers[m] + numbers[n]
    BY <1>1
  <2> QED BY <1>1, <2>4, <2>5 DEF T
<1>6. ASSUME NEW n \in 1..l, \A m \in 1..l : m # n => numbers[m] = 0
      PROVE  g[l] = numbers[n]
  <2> DEFINE T == {k \in Nat : k <= l => g[k] = IF n <= k THEN numbers[n] ELSE 0}
  <2>1. n \in Nat /\ n > 0 /\ numbers[n] \in Nat
    BY <1>1
  <2>2. 0 \in T
    BY <1>2, <2>1
  <2>3. ASSUME NEW k \in Nat, k \in T PROVE k + 1 \in T
    <3> SUFFICES ASSUME k + 1 <= l PROVE g[k + 1] = IF n <= k + 1 THEN numbers[n] ELSE 0
      OBVIOUS
    <3>1. /\ g[k + 1] = g[k] + numbers[k + 1] /\ k + 1 \in 1..l
          /\ g[k] \in Nat /\ numbers[k + 1] \in Nat
      BY <1>4
    <3>2. g[k] = IF n <= k THEN numbers[n] ELSE 0
      BY <1>1, <2>3
    <3>3. CASE k + 1 = n
      BY <2>1, <3>1, <3>2, <3>3
    <3>4. CASE k + 1 # n
      <4>1. numbers[k + 1] = 0
        BY <1>6, <3>1, <3>4
      <4> QED BY <2>1, <3>1, <3>2, <3>4, <4>1
    <3> QED BY <3>3, <3>4
  <2> HIDE DEF T
  <2>4. l \in T
    BY <1>1, <2>2, <2>3, Induction
  <2>5. n <= l
    BY <1>1
  <2> QED BY <1>1, <2>4, <2>5 DEF T
<1>7. g[l] \in Nat
  BY <1>1, <1>3
<1> QED BY <1>2, <1>5, <1>6, <1>7 DEF l

(* Lists joined, one after the other.                                      *)
LEMMA JoinedSteps ==
  ASSUME NEW X, NEW lists \in Seq(Seq(X))
  PROVE  \E g \in [0..Len(lists) -> Seq(X)] :
           /\ g[0] = << >> /\ Joined(lists) = g[Len(lists)]
           /\ \A n \in 1..Len(lists) : g[n] = g[n - 1] \o lists[n]
<1> DEFINE l == Len(lists)
           Sum(g) == [n \in 0..l |-> IF n = 0 THEN << >> ELSE g[n - 1] \o lists[n]]
           upto == CHOOSE g : g = Sum(g)
           f == [p \in (1..l) \X Seq(X) |-> p[2] \o lists[p[1]]]
<1>1. l \in Nat /\ \A n \in 1..l : lists[n] \in Seq(X)
  BY LenProperties
<1>2. Joined(lists) = upto[l]
  BY DEF Joined
<1>3. f \in [(1..l) \X Seq(X) -> Seq(X)]
  <2> SUFFICES ASSUME NEW p \in (1..l) \X Seq(X) PROVE p[2] \o lists[p[1]] \in Seq(X)
    OBVIOUS
  <2>1. p[2] \in Seq(X) /\ lists[p[1]] \in Seq(X)
    BY <1>1
  <2> QED BY <2>1, ConcatProperties
<1>0. << >> \in Seq(X)
  BY EmptySeq
<1>12. PICK g : Unfolds(g, f, << >>, l, Seq(X))
  <2> HIDE DEF f, l
  <2> QED BY <1>0, <1>1, <1>3, Recursion
<1>4. g \in [0..l -> Seq(X)] /\ g[0] = << >> /\ \A n \in 1..l : g[n] = f[<<n, g[n - 1]>>]
  BY <1>12 DEF Unfolds
<1>10. ASSUME NEW n \in 1..l PROVE g[n] = g[n - 1] \o lists[n]
  <2>1. n - 1 \in 0..l
    BY <1>1
  <2>2. <<n, g[n - 1]>> \in (1..l) \X Seq(X)
    BY <1>4, <2>1
  <2> QED BY <1>4, <2>2
<1>5. g = Sum(g)
  <2>2. \A n \in 0..l : n = 0 \/ n \in 1..l
    BY <1>1
  <2>3. \A n \in 0..l : g[n] = Sum(g)[n]
    BY <1>4, <1>10, <2>2
  <2> QED BY <1>4, <2>3
<1>6. upto = Sum(upto)
  BY <1>5
<1> HIDE DEF upto
<1> DEFINE T == {n \in Nat : n <= l => upto[n] = g[n]}
<1>7. 0 \in T
  BY <1>1, <1>4, <1>6
<1>8. ASSUME NEW n \in Nat, n \in T PROVE n + 1 \in T
  <2> SUFFICES ASSUME n + 1 <= l PROVE upto[n + 1] = g[n + 1]
    OBVIOUS
  <2> DEFINE m == n + 1
  <2>1. m \in 0..l /\ m # 0 /\ m - 1 = n /\ m \in 1..l /\ n <= l
    BY <1>1
  <2> HIDE DEF m, l
  <2>2. upto[m] = upto[m - 1] \o lists[m]
    <3>1. upto[m] = Sum(upto)[m]
      BY <1>6
    <3>2. Sum(upto)[m] = upto[m - 1] \o lists[m]
      BY <2>1
    <3> QED BY <3>1, <3>2
  <2>3. upto[n] = g[n]
    BY <1>8, <2>1
  <2>4. g[m] = g[m - 1] \o lists[m]
    BY <1>10, <2>1
  <2>5. upto[m] = g[m]
    BY <2>1, <2>2, <2>3, <2>4, Zenon
  <2> QED BY <2>5 DEF m
<1> HIDE DEF T
<1>9. \A n \in Nat : n \in T
  BY <1>7, <1>8, Induction
<1>11. upto[l] = g[l]
  BY <1>1, <1>9 DEF T
<1> QED BY <1>2, <1>4, <1>10, <1>11

(* What lists have in common is in their join.                             *)
LEMMA JoinedList ==
  ASSUME NEW X, NEW lists \in Seq(Seq(X))
  PROVE  /\ Joined(lists) \in Seq(X)
         /\ ToSet(Joined(lists)) = UNION {ToSet(lists[n]) : n \in DOMAIN lists}
<1> DEFINE l == Len(lists)
<1>1. /\ l \in Nat /\ DOMAIN lists = 1..l
      /\ \A n \in 1..l : lists[n] \in Seq(X)
  BY LenProperties
<1>2. PICK g \in [0..l -> Seq(X)] :
        /\ g[0] = << >> /\ Joined(lists) = g[l]
        /\ \A n \in 1..l : g[n] = g[n - 1] \o lists[n]
  BY JoinedSteps
<1> HIDE DEF l
<1> DEFINE Under(n) == UNION {ToSet(lists[m]) : m \in 1..n}
           T == {n \in Nat : n <= l => ToSet(g[n]) = Under(n)}
<1>3. 0 \in T
  <2>1. ToSet(<< >>) = {} /\ 1..0 = {}
    BY DEF ToSet
  <2> QED BY <1>2, <2>1
<1>4. ASSUME NEW n \in Nat, n \in T PROVE n + 1 \in T
  <2> SUFFICES ASSUME n + 1 <= l PROVE ToSet(g[n + 1]) = Under(n + 1)
    OBVIOUS
  <2> DEFINE k == n + 1
  <2>1. k \in 1..l /\ k - 1 = n /\ n <= l /\ n \in 0..l
    BY <1>1
  <2> HIDE DEF k
  <2>8. g[k] = g[k - 1] \o lists[k]
    BY <1>2, <2>1, Zenon
  <2>9. g[k] = g[n] \o lists[k]
    BY <2>1, <2>8, Zenon
  <2>2. g[n + 1] = g[n] \o lists[n + 1]
    BY <2>9 DEF k
  <2>3. g[n] \in Seq(X) /\ lists[n + 1] \in Seq(X)
    BY <1>1, <2>1 DEF k
  <2>4. ToSet(g[n + 1]) = ToSet(g[n]) \cup ToSet(lists[n + 1])
    BY <2>2, <2>3, ConcatList
  <2>5. ToSet(g[n]) = Under(n)
    BY <1>4, <2>1
  <2>6. 1..(n + 1) = (1..n) \cup {n + 1}
    OBVIOUS
  <2>7. Under(n + 1) = Under(n) \cup ToSet(lists[n + 1])
    BY <2>6
  <2> HIDE DEF Under
  <2> QED BY <2>4, <2>5, <2>7
<1> HIDE DEF T
<1>5. \A n \in Nat : n \in T
  BY <1>3, <1>4, Induction
<1>6. ToSet(g[l]) = Under(l) /\ g[l] \in Seq(X)
  <2>1. l \in T /\ l <= l /\ l \in 0..l
    BY <1>1, <1>5
  <2>2. ToSet(g[l]) = Under(l)
    BY <2>1 DEF T
  <2> HIDE DEF Under
  <2> QED BY <2>1, <2>2
<1> QED BY <1>1, <1>2, <1>6

-----------------------------------------------------------------------------
(* Sorting what is listed, and keeping places for the first of a sort.     *)

(* SortedBy by keys k: the entries in order of k, each as often; an entry  *)
(* whose key is greater than all others comes first.                       *)
LEMMA SortedList ==
  ASSUME NEW X, NEW s \in Seq(X), NEW k \in [1..Len(s) -> Int]
  PROVE  LET t == Arranged(s, Order(k))
         IN /\ t \in Seq(X) /\ Len(t) = Len(s) /\ ToSet(t) = ToSet(s)
            /\ IsInjective(s) => IsInjective(t)
            /\ \E at : Sorts(at, k, Len(s)) /\ \A p \in 1..Len(s) : at[p] \in 1..Len(s) /\ t[p] = s[at[p]]
            /\ \A j \in 1..Len(s) : (\A i \in 1..Len(s) : i # j => k[i] < k[j]) => t[1] = s[j]
<1> DEFINE at == Order(k)
           t == Arranged(s, at)
<1>1. Len(s) \in Nat
  BY LenProperties
<1>2. Sorts(at, k, Len(s))
  BY <1>1, OrderSorts
<1> HIDE DEF at
<1>3. /\ t \in Seq(X) /\ Len(t) = Len(s) /\ ToSet(t) = ToSet(s)
      /\ IsInjective(s) => IsInjective(t)
      /\ \A p \in 1..Len(s) : at[p] \in 1..Len(s) /\ t[p] = s[at[p]]
  BY <1>2, ArrangedList
<1> HIDE DEF t
<1>4. ASSUME NEW j \in 1..Len(s), \A i \in 1..Len(s) : i # j => k[i] < k[j]
      PROVE  t[1] = s[j]
  <2>1. PICK p \in 1..Len(s) : at[p] = j
    BY <1>2 DEF Sorts
  <2>2. 1 \in 1..Len(s) /\ at[1] \in 1..Len(s)
    BY <1>1, <1>3
  <2>3. ~(1 < p)
    <3> SUFFICES ASSUME 1 < p PROVE FALSE
      OBVIOUS
    <3>1. \A a, b \in 1..Len(s) : a < b => \/ k[at[a]] > k[at[b]]
                                           \/ k[at[a]] = k[at[b]] /\ at[a] < at[b]
      BY <1>2 DEF Sorts
    <3>2. k[at[1]] > k[j] \/ (k[at[1]] = k[j] /\ at[1] < j)
      BY <2>1, <2>2, <3>1
    <3>3. at[1] # j => k[at[1]] < k[j]
      BY <1>4, <2>2
    <3>4. k[at[1]] \in Int /\ k[j] \in Int /\ at[1] \in Int /\ j \in Int
      BY <1>1, <2>2
    <3> QED BY <3>2, <3>3, <3>4
  <2>4. p = 1
    BY <1>1, <2>3
  <2> QED BY <1>3, <2>1, <2>2, <2>4
<1> QED BY <1>2, <1>3, <1>4 DEF t, at

(* The first keep entries of a list, and n - keep of the others in another *)
(* order: n different entries of the list, and the one that comes first in *)
(* the other order is among them.                                          *)
LEMMA Promoted ==
  ASSUME NEW X, NEW s \in Seq(X), IsInjective(s), NEW keep \in Nat, NEW n \in Nat,
         keep <= n, n <= Len(s), NEW k \in [1..Len(From(s, keep)) -> Int]
  PROVE  LET t == Upto(s, keep) \o Upto(Arranged(From(s, keep), Order(k)), n - keep)
         IN /\ t \in Seq(X) /\ Len(t) = n /\ IsInjective(t) /\ ToSet(t) \subseteq ToSet(s)
            /\ \A i \in 1..keep : s[i] \in ToSet(t)
            /\ keep < n => \A i \in 1..Len(s) :
                 (\A j \in (keep + 1)..Len(s) : j # i => k[j - keep] < k[i - keep]) => s[i] \in ToSet(t)
<1> DEFINE u == Upto(s, keep)
           f == From(s, keep)
           a == Arranged(f, Order(k))
           b == Upto(a, n - keep)
           t == u \o b
<1>1. Len(s) \in Nat /\ n - keep \in Nat /\ keep <= Len(s)
  BY LenProperties
<1>2. /\ u \in Seq(X) /\ Len(u) = keep /\ ToSet(u) = {s[i] : i \in {i \in 1..Len(s) : i <= keep}}
      /\ f \in Seq(X) /\ Len(f) = Len(s) - keep /\ \A i \in 1..Len(f) : f[i] = s[keep + i]
  BY <1>1, CutList
<1>3. /\ IsInjective(u) /\ IsInjective(f)
      /\ ToSet(u) \cap ToSet(f) = {} /\ ToSet(u) \cup ToSet(f) = ToSet(s)
  BY CutDistinct
<1>4. /\ a \in Seq(X) /\ Len(a) = Len(f) /\ ToSet(a) = ToSet(f) /\ IsInjective(a)
      /\ \A j \in 1..Len(f) : (\A i \in 1..Len(f) : i # j => k[i] < k[j]) => a[1] = f[j]
  BY <1>2, <1>3, SortedList
<1> HIDE DEF a, u, f
<1>5. /\ b \in Seq(X) /\ Len(b) = n - keep /\ \A i \in 1..Len(b) : b[i] = a[i]
      /\ IsInjective(b) /\ ToSet(b) \subseteq ToSet(a)
  <2>1. /\ b \in Seq(X) /\ Len(b) = (IF n - keep <= Len(a) THEN n - keep ELSE Len(a))
        /\ \A i \in 1..Len(b) : b[i] = a[i]
    BY <1>1, <1>4, CutList
  <2>2. IsInjective(b) /\ ToSet(b) \subseteq ToSet(a)
    BY <1>1, <1>4, CutDistinct
  <2>3. n - keep <= Len(a)
    BY <1>1, <1>2, <1>4
  <2> QED BY <2>1, <2>2, <2>3
<1> HIDE DEF b
<1>6. ToSet(u) \cap ToSet(b) = {} /\ ToSet(u) \cup ToSet(b) \subseteq ToSet(s)
  BY <1>3, <1>4, <1>5
<1>7. t \in Seq(X) /\ Len(t) = keep + (n - keep) /\ IsInjective(t) /\ ToSet(t) = ToSet(u) \cup ToSet(b)
  <2>1. u \in Seq(X) /\ b \in Seq(X) /\ Len(u) = keep /\ Len(b) = n - keep
    BY <1>2, <1>5
  <2>2. IsInjective(u) /\ IsInjective(b) /\ ToSet(u) \cap ToSet(b) = {}
    BY <1>3, <1>5, <1>6
  <2>3. t \in Seq(X) /\ Len(t) = Len(u) + Len(b) /\ ToSet(t) = ToSet(u) \cup ToSet(b)
    BY <2>1, ConcatList
  <2>4. IsInjective(t)
    BY <2>1, <2>2, ConcatList
  <2> QED BY <2>1, <2>3, <2>4
<1> HIDE DEF t
<1>8. Len(t) = n
  BY <1>7
<1>9. \A i \in 1..keep : s[i] \in ToSet(t)
  <2>1. \A i \in 1..keep : i \in 1..Len(s) /\ i <= keep
    BY <1>1
  <2> QED BY <1>2, <1>7, <2>1
<1>10. ASSUME keep < n, NEW i \in 1..Len(s),
              \A j \in (keep + 1)..Len(s) : j # i => k[j - keep] < k[i - keep]
       PROVE  s[i] \in ToSet(t)
  <2>1. CASE i <= keep
    <3>1. i \in 1..keep
      BY <1>1, <2>1
    <3> QED BY <1>9, <3>1
  <2>2. CASE ~(i <= keep)
    <3> DEFINE m == i - keep
    <3>1. m \in 1..Len(f) /\ keep + m = i
      BY <1>1, <1>2, <2>2
    <3>2. ASSUME NEW l \in 1..Len(f), l # m PROVE k[l] < k[m]
      <4>1. keep + l \in (keep + 1)..Len(s) /\ keep + l # i /\ keep + l - keep = l
        BY <1>1, <1>2, <3>1, <3>2
      <4> QED BY <1>10, <4>1
    <3> HIDE DEF m
    <3>3. a[1] = f[m] /\ f[m] = s[i]
      BY <1>2, <1>4, <3>1, <3>2
    <3>4. 1 \in DOMAIN b /\ b[1] = a[1]
      <4>1. 1 \in 1..Len(b) /\ DOMAIN b = 1..Len(b)
        BY <1>1, <1>5, <1>10, LenProperties
      <4> QED BY <1>5, <4>1
    <3>5. s[i] \in ToSet(b)
      BY <3>3, <3>4 DEF ToSet
    <3> QED BY <1>7, <3>5
  <2> QED BY <2>1, <2>2
<1> QED BY <1>6, <1>7, <1>8, <1>9, <1>10 DEF t, a, b, u, f

-----------------------------------------------------------------------------
(* Pages: a list in slices of one size.                                    *)

(* A cut and what follows it are the longer cut.                           *)
LEMMA LongerCut ==
  ASSUME NEW X, NEW s \in Seq(X), NEW m \in Nat, NEW n \in Nat
  PROVE  Upto(s, m) \o Upto(From(s, m), n) = Upto(s, m + n)
<1> DEFINE u == Upto(s, m)
           f == From(s, m)
           w == Upto(f, n)
           c == Upto(s, m + n)
           L == Len(s)
<1>1. L \in Nat /\ m + n \in Nat
  BY LenProperties
<1>2. /\ u \in Seq(X) /\ Len(u) = (IF m <= L THEN m ELSE L) /\ \A i \in 1..Len(u) : u[i] = s[i]
      /\ f \in Seq(X) /\ Len(f) = (IF m <= L THEN L - m ELSE 0) /\ \A i \in 1..Len(f) : f[i] = s[m + i]
  BY CutList
<1>3. /\ c \in Seq(X) /\ Len(c) = (IF m + n <= L THEN m + n ELSE L) /\ \A i \in 1..Len(c) : c[i] = s[i]
  BY <1>1, CutList
<1> HIDE DEF f, u, c
<1>4. w \in Seq(X) /\ Len(w) = (IF n <= Len(f) THEN n ELSE Len(f)) /\ \A i \in 1..Len(w) : w[i] = f[i]
  BY <1>2, CutList
<1> HIDE DEF w
<1>5. /\ u \o w \in Seq(X) /\ Len(u \o w) = Len(u) + Len(w)
      /\ \A i \in 1..Len(u) + Len(w) : (u \o w)[i] = IF i <= Len(u) THEN u[i] ELSE w[i - Len(u)]
  <2>1. u \in Seq(X) /\ w \in Seq(X)
    BY <1>2, <1>4
  <2> QED BY <2>1, ConcatProperties
<1>6. Len(u) \in Nat /\ Len(f) \in Nat /\ Len(w) \in Nat /\ Len(c) \in Nat
  BY <1>2, <1>3, <1>4, LenProperties
<1> HIDE DEF L
<1>7. /\ Len(u) + Len(w) = Len(c) /\ Len(w) <= Len(f)
      /\ Len(w) # 0 => Len(u) = m
  <2>1. CASE m <= L
    <3>1. Len(u) = m /\ Len(f) = L - m
      BY <1>2, <2>1
    <3>2. CASE m + n <= L
      <4>1. Len(c) = m + n /\ n <= Len(f)
        BY <1>1, <1>3, <3>1, <3>2
      <4>2. Len(w) = n
        BY <1>4, <4>1
      <4> QED BY <3>1, <4>1, <4>2
    <3>3. CASE ~(m + n <= L)
      <4>1. Len(c) = L /\ ~(n <= Len(f))
        BY <1>1, <1>3, <3>1, <3>3
      <4>2. Len(w) = Len(f)
        BY <1>4, <4>1
      <4> QED BY <1>1, <1>6, <3>1, <4>1, <4>2
    <3> QED BY <3>2, <3>3
  <2>2. CASE ~(m <= L)
    <3>1. Len(u) = L /\ Len(f) = 0
      BY <1>2, <2>2
    <3>2. ~(m + n <= L)
      BY <1>1, <2>2
    <3>3. Len(c) = L
      BY <1>3, <3>2
    <3>4. Len(w) = 0
      BY <1>4, <1>6, <3>1
    <3> QED BY <1>1, <3>1, <3>3, <3>4
  <2> QED BY <2>1, <2>2
<1>8. ASSUME NEW i \in 1..Len(c) PROVE (u \o w)[i] = c[i]
  <2>1. i \in 1..Len(u) + Len(w)
    BY <1>7
  <2>2. c[i] = s[i]
    BY <1>3
  <2>3. CASE i <= Len(u)
    <3>1. i \in 1..Len(u)
      BY <1>6, <2>3
    <3> QED BY <1>2, <1>5, <2>1, <2>2, <2>3, <3>1
  <2>4. CASE ~(i <= Len(u))
    <3> DEFINE j == i - Len(u)
    <3>1. j \in 1..Len(w) /\ Len(w) # 0
      BY <1>6, <2>1, <2>4
    <3>2. j \in 1..Len(f) /\ m + j = i
      BY <1>6, <1>7, <3>1
    <3>3. (u \o w)[i] = w[j]
      BY <1>5, <2>1, <2>4
    <3> HIDE DEF j
    <3> QED BY <1>2, <1>4, <2>2, <3>1, <3>2, <3>3
  <2> QED BY <2>3, <2>4
<1>9. u \o w = c
  <2> DEFINE v == u \o w
  <2>1. v \in Seq(X) /\ Len(v) = Len(c) /\ \A i \in 1..Len(v) : v[i] = c[i]
    BY <1>5, <1>7, <1>8
  <2> HIDE DEF v
  <2>2. v = c
    BY <1>3, <2>1, SeqEqual
  <2> QED BY <2>2 DEF v
<1> QED BY <1>9 DEF u, w, f, c

(* Pages one after the other are what they were cut from.                  *)
LEMMA PagesJoined ==
  ASSUME NEW X, NEW s \in Seq(X), NEW size \in Nat, NEW lists \in Seq(Seq(X)),
         \A n \in 1..Len(lists) : lists[n] = Upto(From(s, (n - 1) * size), size)
  PROVE  Joined(lists) = Upto(s, Len(lists) * size)
<1> DEFINE l == Len(lists)
<1>1. /\ l \in Nat /\ \A n \in 1..l : lists[n] \in Seq(X)
  BY LenProperties
<1>2. PICK g \in [0..l -> Seq(X)] :
        /\ g[0] = << >> /\ Joined(lists) = g[l]
        /\ \A n \in 1..l : g[n] = g[n - 1] \o lists[n]
  BY JoinedSteps
<1> HIDE DEF l
<1> DEFINE T == {n \in Nat : n <= l => g[n] = Upto(s, n * size)}
<1>3. 0 \in T
  <2>1. 0 * size = 0 /\ 0 \in Nat
    OBVIOUS
  <2>2. Upto(s, 0) \in Seq(X) /\ Len(Upto(s, 0)) = 0
    BY <2>1, CutList, LenProperties
  <2>3. Upto(s, 0) = << >>
    BY <2>2, EmptySeq
  <2> QED BY <1>2, <2>1, <2>3
<1>4. ASSUME NEW n \in Nat, n \in T PROVE n + 1 \in T
  <2> SUFFICES ASSUME n + 1 <= l PROVE g[n + 1] = Upto(s, (n + 1) * size)
    OBVIOUS
  <2> DEFINE k == n + 1
             m == n * size
  <2>1. k \in 1..l /\ k - 1 = n /\ n <= l
    BY <1>1
  <2>2. m \in Nat /\ k * size = m + size
    OBVIOUS
  <2> HIDE DEF k
  <2>3. g[k] = g[k - 1] \o lists[k]
    BY <1>2, <2>1, Zenon
  <2>4. g[n] = Upto(s, m)
    BY <1>4, <2>1
  <2>5. lists[k] = Upto(From(s, (k - 1) * size), size)
    BY <2>1 DEF l
  <2> HIDE DEF m
  <2>6. Upto(s, m) \o Upto(From(s, m), size) = Upto(s, m + size)
    BY <2>2, LongerCut
  <2>7. g[k] = Upto(s, m) \o Upto(From(s, m), size)
    BY <2>1, <2>3, <2>4, <2>5, Zenon DEF m
  <2>8. g[k] = Upto(s, k * size)
    BY <2>2, <2>6, <2>7, Zenon
  <2> QED BY <2>8 DEF k
<1> HIDE DEF T
<1>5. \A n \in Nat : n \in T
  BY <1>3, <1>4, Induction
<1>6. g[l] = Upto(s, l * size)
  BY <1>1, <1>5 DEF T
<1> QED BY <1>2, <1>6 DEF l

(* What a list begins with is cut off again.                               *)
LEMMA CutJoin ==
  ASSUME NEW X, NEW s \in Seq(X), NEW t \in Seq(X), NEW n \in Nat
  PROVE  /\ ToSet(Upto(s \o t, Len(s))) = ToSet(s)
         /\ ToSet(Upto(s, n)) \subseteq ToSet(Upto(s \o t, n))
<1> DEFINE c == s \o t
<1>1. Len(s) \in Nat /\ Len(t) \in Nat /\ DOMAIN s = 1..Len(s)
  BY LenProperties
<1>2. /\ c \in Seq(X) /\ Len(c) = Len(s) + Len(t)
      /\ \A i \in 1..Len(s) + Len(t) : c[i] = IF i <= Len(s) THEN s[i] ELSE t[i - Len(s)]
  BY ConcatProperties
<1> HIDE DEF c
<1>3. \A i \in 1..Len(s) : i \in 1..Len(c) /\ c[i] = s[i]
  BY <1>1, <1>2
<1>4. \A i \in 1..Len(c) : i <= Len(s) => i \in 1..Len(s)
  BY <1>1, <1>2
<1>5. /\ ToSet(Upto(c, Len(s))) = {c[i] : i \in {i \in 1..Len(c) : i <= Len(s)}}
      /\ ToSet(Upto(c, n)) = {c[i] : i \in {i \in 1..Len(c) : i <= n}}
      /\ ToSet(Upto(s, n)) = {s[i] : i \in {i \in 1..Len(s) : i <= n}}
  <2>1. c \in Seq(X) /\ Len(s) \in Nat
    BY <1>1, <1>2
  <2>2. /\ ToSet(Upto(c, Len(s))) = {c[i] : i \in {i \in 1..Len(c) : i <= Len(s)}}
        /\ ToSet(Upto(c, n)) = {c[i] : i \in {i \in 1..Len(c) : i <= n}}
    BY <2>1, CutList
  <2> QED BY <2>2, CutList
<1>6. ToSet(s) = {s[i] : i \in 1..Len(s)}
  BY <1>1 DEF ToSet
<1>7. \A i \in 1..Len(s) : i <= Len(s)
  BY <1>1
<1> HIDE DEF c
<1>8. ToSet(Upto(c, Len(s))) = ToSet(s)
  BY <1>3, <1>4, <1>5, <1>6, <1>7
<1>9. ToSet(Upto(s, n)) \subseteq ToSet(Upto(c, n))
  BY <1>3, <1>5
<1> QED BY <1>8, <1>9 DEF c

-----------------------------------------------------------------------------
(* Small facts about membership and first entries.                         *)

LEMMA SeqOfEntries ==
  ASSUME NEW X, NEW s \in Seq(X), NEW S, ToSet(s) \subseteq S
  PROVE  s \in Seq(S)
<1>1. Len(s) \in Nat /\ s \in [1..Len(s) -> X] /\ DOMAIN s = 1..Len(s)
  BY LenProperties
<1>2. \A i \in 1..Len(s) : s[i] \in S
  BY <1>1 DEF ToSet
<1>3. s \in [1..Len(s) -> S]
  BY <1>1, <1>2
<1> QED BY <1>1, <1>3

(* A list without entries is empty.                                        *)
LEMMA EmptyList ==
  ASSUME NEW X, NEW s \in Seq(X)
  PROVE  /\ s = << >> <=> ToSet(s) = {}
         /\ s = << >> <=> Len(s) = 0
<1>1. Len(s) \in Nat /\ DOMAIN s = 1..Len(s)
  BY LenProperties
<1>2. s = << >> <=> Len(s) = 0
  BY EmptySeq
<1>3. Len(s) # 0 => ToSet(s) # {}
  <2>1. Len(s) # 0 => 1 \in DOMAIN s
    BY <1>1
  <2> QED BY <2>1 DEF ToSet
<1>4. Len(s) = 0 => ToSet(s) = {}
  <2>1. Len(s) = 0 => DOMAIN s = {}
    BY <1>1
  <2> QED BY <2>1 DEF ToSet
<1> QED BY <1>2, <1>3, <1>4

(* The first entry stays first when others are left out.                   *)
LEMMA FirstOutside ==
  ASSUME NEW X, NEW s \in Seq(X), NEW S, Len(s) > 0, s[1] \notin S, NEW n \in Nat, n > 0
  PROVE  s[1] \in ToSet(Upto(Outside(s, S), n))
<1> DEFINE K == {i \in DOMAIN s : s[i] \notin S}
           e == Entries(s, K)
<1>1. Len(s) \in Nat /\ DOMAIN s = 1..Len(s)
  BY LenProperties
<1>2. Outside(s, S) = e
  BY DEF Outside, Where
<1>3. K \in SUBSET (1..Len(s)) /\ 1 \in K
  BY <1>1
<1> HIDE DEF K, e
<1>4. e \in Seq(X) /\ Len(e) \in Nat
  BY <1>3, EntriesList, LenProperties DEF e
<1>5. PICK at : Leads(at, Len(e), K) /\ \A p \in 1..Len(e) : e[p] = s[at[p]]
  BY <1>3, EntriesList DEF e
<1>6. PICK p \in 1..Len(e) : at[p] = 1
  BY <1>3, <1>5 DEF Leads
<1>7. 1 \in 1..Len(e) /\ at[1] \in K
  BY <1>4, <1>5, <1>6 DEF Leads
<1>8. at[1] \in Int /\ at[1] >= 1 /\ p \in Int /\ p >= 1
  <2>1. at[1] \in 1..Len(s)
    BY <1>3, <1>7
  <2>2. at[1] \in Int /\ at[1] >= 1
    BY <2>1
  <2> DEFINE l == Len(e)
  <2>3. p \in 1..l /\ l \in Nat
    BY <1>4, <1>6
  <2> HIDE DEF l
  <2>4. p \in Int /\ p >= 1
    BY <2>3
  <2> QED BY <2>2, <2>4
<1>9. ~(1 < p)
  <2>1. 1 < p => at[1] < at[p]
    BY <1>5, <1>7 DEF Leads
  <2> QED BY <1>6, <1>8, <2>1
<1>10. p = 1
  BY <1>8, <1>9
<1>11. e[1] = s[1]
  BY <1>5, <1>6, <1>7, <1>10
<1>12. ToSet(Upto(e, n)) = {e[i] : i \in {i \in 1..Len(e) : i <= n}}
  BY <1>4, CutList
<1>13. 1 \in {i \in 1..Len(e) : i <= n}
  BY <1>7
<1> QED BY <1>2, <1>11, <1>12, <1>13

(* A cut has nothing that the list has not.                                *)
LEMMA CutEntries ==
  ASSUME NEW X, NEW s \in Seq(X), NEW n \in Nat
  PROVE  Upto(s, n) \in Seq(X) /\ ToSet(Upto(s, n)) \subseteq ToSet(s) /\ Len(Upto(s, n)) <= n
<1>1. DOMAIN s = 1..Len(s) /\ Len(s) \in Nat
  BY LenProperties
<1>2. /\ Upto(s, n) \in Seq(X) /\ ToSet(Upto(s, n)) = {s[i] : i \in {i \in 1..Len(s) : i <= n}}
      /\ Len(Upto(s, n)) = IF n <= Len(s) THEN n ELSE Len(s)
  BY CutList
<1> DEFINE l == Len(Upto(s, n))
           m == Len(s)
<1>3. l = (IF n <= m THEN n ELSE m) /\ m \in Nat
  BY <1>1, <1>2
<1> HIDE DEF l, m
<1>4. l <= n
  BY <1>3
<1> QED BY <1>1, <1>2, <1>4 DEF ToSet, l
=============================================================================
