-------------------------- MODULE RelevanceProofs --------------------------
(***************************************************************************)
(* Relevance, for all constants.                                           *)
(*                                                                         *)
(* First what each stage of a search returns for any lists (the cut for    *)
(* the first page, the sessions, their order, the arms and the slots for   *)
(* the newest matches), then the invariants of the search.                 *)
(***************************************************************************)
EXTENDS Relevance, ListingProofs

-----------------------------------------------------------------------------
(* Numbers of the limits.                                                  *)

(* The places that are kept before those for the newest.                   *)
LEMMA PlacesKept ==
  ASSUME NEW top \in Nat, NEW slots \in Nat
  PROVE  /\ top - Min({top, slots}) \in Nat /\ top - Min({top, slots}) <= top
         /\ (top > 0 /\ slots > 0) => top - Min({top, slots}) < top
  BY MinOfTwo

(* A third of a page, one place at least, or less if fewer are reserved.   *)
Share(size, slots) == size - Min({size, slots, Max({1, size \div 3})})

LEMMA ShareBounds ==
  ASSUME NEW size \in Nat, NEW slots \in Nat
  PROVE  /\ Share(size, slots) \in Nat /\ Share(size, slots) <= size
         /\ (size > 0 /\ slots > 0) => Share(size, slots) < size
         /\ slots = 0 => Share(size, slots) = size
         /\ size > 0 => Share(size, slots) = size - Min({slots, Max({1, size \div 3})})
<1> DEFINE third == size \div 3
           most == Max({1, third})
           S == {size, slots, most}
<1>1. third \in Nat /\ third <= size
  OBVIOUS
<1> HIDE DEF third
<1>2. most \in Nat /\ most >= 1 /\ (size > 0 => most <= size)
  <2>1. 1 \in Int /\ third \in Int
    BY <1>1
  <2>2. most = IF 1 <= third THEN third ELSE 1
    BY <2>1, MinOfTwo
  <2> HIDE DEF most
  <2> QED BY <1>1, <2>2
<1> HIDE DEF most
<1>3. Min(S) \in S /\ Min(S) <= size /\ Min(S) <= slots /\ Min(S) <= most
  BY <1>2, LeastOf
<1>4. Min({slots, most}) = IF slots <= most THEN slots ELSE most
  BY <1>2, MinOfTwo
<1>5. Share(size, slots) = size - Min(S)
  BY DEF Share, most, third
<1>6. size > 0 => Min(S) = Min({slots, most})
  BY <1>2, <1>3, <1>4
<1>7. Min(S) \in Nat /\ (size > 0 /\ slots > 0 => Min(S) > 0) /\ (slots = 0 => Min(S) = 0)
  BY <1>2, <1>3
<1> HIDE DEF S
<1> QED BY <1>3, <1>5, <1>6, <1>7 DEF most, third

-----------------------------------------------------------------------------
(* The cut for the first page.                                             *)

(* The cut takes of the scored chunks, all of them if as many, and never   *)
(* leaves the newest out.                                                  *)
LEMMA SelectHeadList ==
  ASSUME NEW list \in Seq(Candidates), IsInjective(list)
  PROVE  LET h == SelectHead(list)
         IN /\ h \in Seq(Candidates) /\ IsInjective(h)
            /\ ToSet(h) \subseteq ToSet(list) /\ Len(h) <= Len(list)
            /\ Len(list) <= Len(h) => ToSet(h) = ToSet(list)
            /\ RerankTop > 0 /\ RerankRecent > 0 =>
                 \A c \in ToSet(list) :
                   (\A d \in ToSet(list) \ {c} : d.start < c.start) => c \in ToSet(h)
<1> DEFINE h == SelectHead(list)
           keep == RerankTop - Min({RerankTop, RerankRecent})
<1>1. RerankTop \in Nat /\ RerankRecent \in Nat /\ Len(list) \in Nat /\ DOMAIN list = 1..Len(list)
  BY RankingAssumption, LenProperties
<1>2. CASE RerankRecent = 0 \/ Len(list) <= RerankTop
  <2>1. h = Upto(list, RerankTop)
    BY <1>2 DEF SelectHead
  <2>2. /\ h \in Seq(Candidates) /\ Len(h) = (IF RerankTop <= Len(list) THEN RerankTop ELSE Len(list))
        /\ RerankTop >= Len(list) => h = list
    BY <1>1, <2>1, CutList
  <2>3. IsInjective(h) /\ ToSet(h) \subseteq ToSet(list)
    BY <1>1, <2>1, CutDistinct
  <2> HIDE DEF h
  <2>4. Len(h) <= Len(list) /\ (Len(list) <= Len(h) => RerankTop >= Len(list))
    BY <1>1, <2>2
  <2>5. RerankRecent > 0 => h = list
    BY <1>1, <1>2, <2>2
  <2> QED BY <2>2, <2>3, <2>4, <2>5 DEF h
<1>3. CASE ~(RerankRecent = 0 \/ Len(list) <= RerankTop)
  <2> DEFINE f == From(list, keep)
             k == [i \in DOMAIN f |-> f[i].start]
  <2>1. keep \in Nat /\ keep <= RerankTop /\ (RerankTop > 0 /\ RerankRecent > 0 => keep < RerankTop)
    BY <1>1, PlacesKept
  <2>2. h = Upto(list, keep) \o Upto(Arranged(f, Order(k)), RerankTop - keep)
    BY <1>3 DEF SelectHead, SortedBy, Arranged
  <2>3. f \in Seq(Candidates) /\ Len(f) = Len(list) - keep /\ \A i \in 1..Len(f) : f[i] = list[keep + i]
    <3> HIDE DEF keep
    <3>1. /\ f \in Seq(Candidates) /\ Len(f) = (IF keep <= Len(list) THEN Len(list) - keep ELSE 0)
          /\ \A i \in 1..Len(f) : f[i] = list[keep + i]
      BY <2>1, CutList
    <3>2. keep <= Len(list)
      BY <1>1, <1>3, <2>1
    <3> QED BY <3>1, <3>2
  <2>4. k \in [1..Len(f) -> Int] /\ \A i \in 1..Len(f) : k[i] = f[i].start
    <3>1. DOMAIN f = 1..Len(f) /\ \A i \in 1..Len(f) : f[i] \in Candidates
      BY <2>3, LenProperties
    <3>2. \A c \in Candidates : c.start \in Int
      BY RelevanceAssumption DEF Candidates
    <3> QED BY <3>1, <3>2
  <2> HIDE DEF k, h, keep
  <2>5. RerankTop <= Len(list)
    BY <1>1, <1>3
  <2>6. /\ h \in Seq(Candidates) /\ Len(h) = RerankTop /\ IsInjective(h) /\ ToSet(h) \subseteq ToSet(list)
        /\ keep < RerankTop => \A i \in 1..Len(list) :
             (\A j \in (keep + 1)..Len(list) : j # i => k[j - keep] < k[i - keep]) => list[i] \in ToSet(h)
        /\ \A i \in 1..keep : list[i] \in ToSet(h)
    <3>1. k \in [1..Len(From(list, keep)) -> Int]
      BY <2>4
    <3> HIDE DEF f
    <3> DEFINE t == Upto(list, keep) \o Upto(Arranged(From(list, keep), Order(k)), RerankTop - keep)
    <3>2. /\ t \in Seq(Candidates) /\ Len(t) = RerankTop /\ IsInjective(t) /\ ToSet(t) \subseteq ToSet(list)
          /\ \A i \in 1..keep : list[i] \in ToSet(t)
          /\ keep < RerankTop => \A i \in 1..Len(list) :
               (\A j \in (keep + 1)..Len(list) : j # i => k[j - keep] < k[i - keep]) => list[i] \in ToSet(t)
      BY <1>1, <2>1, <2>5, <3>1, Promoted
    <3>3. h = t
      BY <2>2 DEF f
    <3> HIDE DEF t
    <3> QED BY <3>2, <3>3
  <2>7. Len(h) < Len(list)
    BY <1>1, <1>3, <2>6
  <2>8. ASSUME RerankTop > 0, RerankRecent > 0, NEW c \in ToSet(list),
               \A d \in ToSet(list) \ {c} : d.start < c.start
        PROVE  c \in ToSet(h)
    <3>1. PICK i \in 1..Len(list) : c = list[i]
      BY <1>1 DEF ToSet
    <3>2. CASE i <= keep
      <4>1. i \in 1..keep
        BY <1>1, <2>1, <3>2
      <4> QED BY <2>6, <3>1, <4>1
    <3>3. CASE ~(i <= keep)
      <4>1. ASSUME NEW j \in (keep + 1)..Len(list), j # i PROVE k[j - keep] < k[i - keep]
        <5>1. /\ j - keep \in 1..Len(f) /\ i - keep \in 1..Len(f) /\ j \in 1..Len(list)
              /\ keep + (j - keep) = j /\ keep + (i - keep) = i
          BY <1>1, <2>1, <2>3, <3>3
        <5>2. k[j - keep] = list[j].start /\ k[i - keep] = c.start
          BY <2>3, <2>4, <3>1, <5>1
        <5>3. list[j] \in ToSet(list) /\ list[j] # c
          BY <1>1, <3>1, <4>1, <5>1 DEF ToSet, IsInjective
        <5> QED BY <2>8, <5>2, <5>3
      <4>2. keep < RerankTop
        BY <2>1, <2>8
      <4> QED BY <2>6, <3>1, <4>1, <4>2
    <3> QED BY <3>2, <3>3
  <2> QED BY <1>1, <2>6, <2>7, <2>8 DEF h
<1> QED BY <1>2, <1>3

-----------------------------------------------------------------------------
(* Sessions.                                                               *)

Keys == {KeyOf(c) : c \in Candidates}

Sessions ==
  [key : Keys, hits : Seq(DOMAIN Index), context : SUBSET DOMAIN Index, latest : DOMAIN Day,
   matches : BOOLEAN, score : Nat]

(* The time of the newest of some chunks.                                  *)
LEMMA LatestOf ==
  ASSUME NEW S \in SUBSET Candidates, S # {}
  PROVE  /\ Latest(S) \in DOMAIN Day
         /\ \A c \in S : c.start <= Latest(S)
         /\ \E c \in S : c.start = Latest(S)
<1> DEFINE T == {c.start : c \in S}
<1>1. T \subseteq DOMAIN Day /\ T # {}
  BY DEF Candidates
<1>2. T \in SUBSET Nat /\ IsFiniteSet(T)
  BY <1>1, RelevanceAssumption, FS_Subset
<1>3. Max(T) \in T /\ \A t \in T : t <= Max(T)
  BY <1>1, <1>2, GreatestOf
<1>4. Latest(S) = Max(T)
  BY DEF Latest
<1> HIDE DEF Latest
<1> QED BY <1>1, <1>3, <1>4

(* The chunks of a list that belong to one session.                        *)
Own(list, k) == {c \in ToSet(list) : KeyOf(c) = k}

(* A session has the ids of its chunks, the time of the newest, and says   *)
(* whether one of them has the words.                                      *)
LEMMA SessionShape ==
  ASSUME NEW list \in Seq(Candidates), NEW k, k \in {KeyOf(c) : c \in ToSet(list)},
         NEW lexical, NEW found
  PROVE  LET s == SessionOf(list, k, lexical, found)
         IN /\ s \in Sessions /\ s.key = k
            /\ ToSet(s.hits) = {c.id : c \in Own(list, k)}
            /\ \A c \in Own(list, k) : c.start <= s.latest
            /\ \E c \in Own(list, k) : c.start = s.latest
            /\ s.matches <=> \E c \in Own(list, k) : c.id \in lexical \cup found
<1> DEFINE s == SessionOf(list, k, lexical, found)
           K == {i \in DOMAIN list : KeyOf(list[i]) = k}
           hits == Entries(list, K)
           verbatim == {c \in ToSet(hits) : c.id \in lexical}
           matching == {c \in ToSet(hits) : c.id \in lexical \cup found}
           boost == IF verbatim = {} THEN 0 ELSE LexicalBoost[Latest(verbatim)]
           weights == [i \in DOMAIN hits |-> Sigmoid[hits[i].score]]
<1>1. Len(list) \in Nat /\ DOMAIN list = 1..Len(list) /\ ToSet(list) \in SUBSET Candidates
  BY LenProperties DEF ToSet
<1>2. /\ hits \in Seq(Candidates) /\ ToSet(hits) = {list[i] : i \in K}
      /\ DOMAIN hits = 1..Len(hits) /\ Len(hits) \in Nat /\ \A i \in 1..Len(hits) : hits[i] \in Candidates
  <2>1. K \in SUBSET (1..Len(list))
    BY <1>1
  <2> HIDE DEF K
  <2>2. hits \in Seq(Candidates) /\ ToSet(hits) = {list[i] : i \in K}
    BY <2>1, EntriesList
  <2> HIDE DEF hits
  <2> QED BY <2>2, LenProperties
<1>3. ToSet(hits) = Own(list, k) /\ Own(list, k) # {} /\ Own(list, k) \in SUBSET Candidates
  BY <1>1, <1>2 DEF Own, ToSet
<1>4. s = [key |-> k, hits |-> [i \in DOMAIN hits |-> hits[i].id], context |-> {},
           latest |-> Latest(ToSet(hits)), matches |-> matching # {},
           score |-> RecencyBoost[Latest(ToSet(hits))] * (boost + Total(weights))]
  BY DEF SessionOf, Where, Mapped
<1> HIDE DEF hits, K
<1>5. /\ Latest(ToSet(hits)) \in DOMAIN Day
      /\ \A c \in Own(list, k) : c.start <= Latest(ToSet(hits))
      /\ \E c \in Own(list, k) : c.start = Latest(ToSet(hits))
  BY <1>3, LatestOf
<1>6. boost \in Nat
  <2>1. verbatim # {} => Latest(verbatim) \in DOMAIN Day
    BY <1>3, LatestOf
  <2> HIDE DEF verbatim
  <2> QED BY <2>1, RelevanceAssumption
<1>7. Total(weights) \in Nat
  <2>1. \A i \in 1..Len(hits) : Sigmoid[hits[i].score] \in Nat
    BY <1>2, RelevanceAssumption DEF Candidates
  <2>2. weights \in [1..Len(hits) -> Nat]
    BY <1>2, <2>1
  <2>3. weights \in Seq(Nat)
    BY <1>2, <2>2
  <2> HIDE DEF weights
  <2> QED BY <2>3, TotalList
<1>8. RecencyBoost[Latest(ToSet(hits))] * (boost + Total(weights)) \in Nat
  <2>1. RecencyBoost[Latest(ToSet(hits))] \in Nat
    BY <1>5, RelevanceAssumption
  <2> HIDE DEF boost, weights
  <2>2. boost + Total(weights) \in Nat
    BY <1>6, <1>7
  <2> QED BY <2>1, <2>2
<1> DEFINE ids == [i \in DOMAIN hits |-> hits[i].id]
<1>9. ids \in Seq(DOMAIN Index) /\ ToSet(ids) = {c.id : c \in Own(list, k)}
  <2>1. \A i \in 1..Len(hits) : hits[i].id \in DOMAIN Index
    BY <1>2 DEF Candidates
  <2>2. ids \in [1..Len(hits) -> DOMAIN Index] /\ DOMAIN ids = 1..Len(hits)
    BY <1>2, <2>1
  <2>3. ids \in Seq(DOMAIN Index)
    BY <1>2, <2>2
  <2>4. ToSet(hits) = {hits[i] : i \in 1..Len(hits)}
    BY <1>2 DEF ToSet
  <2>5. ToSet(ids) = {hits[i].id : i \in 1..Len(hits)}
    BY <1>2, <2>2 DEF ToSet
  <2> HIDE DEF ids
  <2> QED BY <1>3, <2>3, <2>4, <2>5
<1>10. k \in Keys
  BY <1>1 DEF Keys
<1>11. matching # {} <=> \E c \in Own(list, k) : c.id \in lexical \cup found
  BY <1>3
<1> HIDE DEF ids, weights, boost, matching
<1>12. s = [key |-> k, hits |-> ids, context |-> {},
           latest |-> Latest(ToSet(hits)), matches |-> matching # {},
           score |-> RecencyBoost[Latest(ToSet(hits))] * (boost + Total(weights))]
  BY <1>4 DEF ids
<1>13. s \in Sessions
  BY <1>5, <1>8, <1>9, <1>10, <1>12 DEF Sessions
<1>14. s.key = k /\ s.hits = ids /\ s.latest = Latest(ToSet(hits)) /\ s.matches = (matching # {})
  BY <1>12
<1> HIDE DEF s
<1>15. s.matches <=> \E c \in Own(list, k) : c.id \in lexical \cup found
  BY <1>11, <1>14
<1> QED BY <1>5, <1>9, <1>13, <1>14, <1>15 DEF s

(* A session that has the words claims a place before all that have not.   *)
LEMMA ClaimOrder ==
  ASSUME NEW s \in Sessions, NEW t \in Sessions
  PROVE  /\ Claim(s) \in Nat
         /\ s.matches /\ (t.matches => t.latest < s.latest) => Claim(t) < Claim(s)
<1> DEFINE last == Max(DOMAIN Day)
<1>1. DOMAIN Day # {}
  BY DEF Sessions
<1>2. last \in Nat /\ \A d \in DOMAIN Day : d <= last
  BY <1>1, RelevanceAssumption, GreatestOf
<1> HIDE DEF last
<1>3. /\ s.latest \in Nat /\ t.latest \in Nat /\ s.latest <= last /\ t.latest <= last
      /\ s.matches \in BOOLEAN /\ t.matches \in BOOLEAN
  BY <1>2, RelevanceAssumption DEF Sessions
<1>4. /\ Claim(s) = s.latest + (IF s.matches THEN last + 1 ELSE 0)
      /\ Claim(t) = t.latest + (IF t.matches THEN last + 1 ELSE 0)
  BY DEF Claim, last
<1> QED BY <1>2, <1>3, <1>4

(* The first size of sessions reserved for: nothing is lost, the best by   *)
(* score stay, and the first by its claim has a place.                     *)
LEMMA ReserveSessionsList ==
  ASSUME NEW list \in Seq(Sessions), IsInjective(list), NEW size \in Nat, NEW slots \in Nat
  PROVE  LET r == ReserveSessions(list, size, slots)
         IN /\ r \in Seq(Sessions) /\ IsInjective(r) /\ ToSet(r) = ToSet(list)
            /\ \A i \in 1..Len(list) : i <= Share(size, slots) => list[i] \in ToSet(Upto(r, size))
            /\ size > 0 /\ slots > 0 =>
                 \A s \in ToSet(list) :
                   (\A t \in ToSet(list) \ {s} : Claim(t) < Claim(s)) => s \in ToSet(Upto(r, size))
<1> DEFINE r == ReserveSessions(list, size, slots)
           keep == Share(size, slots)
<1>1. Len(list) \in Nat /\ DOMAIN list = 1..Len(list) /\ \A i \in 1..Len(list) : list[i] \in Sessions
  BY LenProperties
<1>2. /\ keep \in Nat /\ keep <= size /\ (size > 0 /\ slots > 0 => keep < size)
      /\ slots = 0 => keep = size
  BY ShareBounds
<1>3. CASE slots = 0 \/ Len(list) <= size
  <2>1. r = list
    BY <1>3 DEF ReserveSessions
  <2>2. ToSet(Upto(list, size)) = {list[i] : i \in {i \in 1..Len(list) : i <= size}}
    BY CutList
  <2>3. \A i \in 1..Len(list) : i <= keep => list[i] \in ToSet(Upto(list, size))
    BY <1>1, <1>2, <2>2
  <2>4. slots > 0 => ToSet(Upto(list, size)) = ToSet(list)
    <3>1. slots > 0 => Upto(list, size) = list
      BY <1>1, <1>3, CutList
    <3> QED BY <3>1
  <2> HIDE DEF r
  <2> QED BY <2>1, <2>3, <2>4 DEF r
<1>4. CASE ~(slots = 0 \/ Len(list) <= size)
  <2> DEFINE f == From(list, keep)
             k == [i \in DOMAIN f |-> Claim(f[i])]
             chosen == Upto(list, keep) \o Upto(Arranged(f, Order(k)), size - keep)
             by == [i \in DOMAIN chosen |-> chosen[i].score]
             best == Arranged(chosen, Order(by))
             others == Outside(list, ToSet(chosen))
  <2>1. r = best \o others
    BY <1>4 DEF ReserveSessions, SortedBy, Arranged, Share
  <2>2. f \in Seq(Sessions) /\ Len(f) = Len(list) - keep /\ \A i \in 1..Len(f) : f[i] = list[keep + i]
    <3> HIDE DEF keep
    <3>1. /\ f \in Seq(Sessions) /\ Len(f) = (IF keep <= Len(list) THEN Len(list) - keep ELSE 0)
          /\ \A i \in 1..Len(f) : f[i] = list[keep + i]
      BY <1>2, CutList
    <3>2. keep <= Len(list)
      BY <1>1, <1>2, <1>4
    <3> QED BY <3>1, <3>2
  <2>3. k \in [1..Len(From(list, keep)) -> Int] /\ \A i \in 1..Len(f) : k[i] = Claim(f[i])
    <3>1. DOMAIN f = 1..Len(f) /\ \A i \in 1..Len(f) : f[i] \in Sessions
      BY <2>2, LenProperties
    <3>2. \A s \in Sessions : Claim(s) \in Int
      BY ClaimOrder
    <3> HIDE DEF f
    <3>3. k \in [1..Len(f) -> Int] /\ \A i \in 1..Len(f) : k[i] = Claim(f[i])
      BY <3>1, <3>2
    <3> QED BY <3>3 DEF f
  <2> HIDE DEF k, keep, f
  <2>4. /\ chosen \in Seq(Sessions) /\ Len(chosen) = size /\ IsInjective(chosen)
        /\ ToSet(chosen) \subseteq ToSet(list)
        /\ \A i \in 1..keep : list[i] \in ToSet(chosen)
        /\ keep < size => \A i \in 1..Len(list) :
             (\A j \in (keep + 1)..Len(list) : j # i => k[j - keep] < k[i - keep]) => list[i] \in ToSet(chosen)
    <3>1. size <= Len(list)
      BY <1>1, <1>4
    <3> DEFINE t == Upto(list, keep) \o Upto(Arranged(From(list, keep), Order(k)), size - keep)
    <3>2. /\ t \in Seq(Sessions) /\ Len(t) = size /\ IsInjective(t) /\ ToSet(t) \subseteq ToSet(list)
          /\ \A i \in 1..keep : list[i] \in ToSet(t)
          /\ keep < size => \A i \in 1..Len(list) :
               (\A j \in (keep + 1)..Len(list) : j # i => k[j - keep] < k[i - keep]) => list[i] \in ToSet(t)
      BY <1>2, <2>3, <3>1, Promoted
    <3>3. chosen = t
      BY DEF f
    <3> HIDE DEF t, chosen
    <3> QED BY <3>2, <3>3
  <2> HIDE DEF chosen
  <2>5. /\ best \in Seq(Sessions) /\ Len(best) = size /\ IsInjective(best)
        /\ ToSet(best) = ToSet(chosen)
    <3>1. DOMAIN chosen = 1..Len(chosen) /\ \A i \in 1..Len(chosen) : chosen[i] \in Sessions
      BY <2>4, LenProperties
    <3>2. \A s \in Sessions : s.score \in Int
      BY DEF Sessions
    <3>3. by \in [1..Len(chosen) -> Int]
      BY <3>1, <3>2
    <3> HIDE DEF by
    <3> QED BY <2>4, <3>3, SortedList
  <2>6. others \in Seq(Sessions) /\ ToSet(others) = ToSet(list) \ ToSet(chosen) /\ IsInjective(others)
    BY WithinList
  <2> HIDE DEF best, others
  <2>7. r \in Seq(Sessions) /\ IsInjective(r) /\ ToSet(r) = ToSet(list)
    <3>1. ToSet(best) \cap ToSet(others) = {} /\ ToSet(best) \cup ToSet(others) = ToSet(list)
      BY <2>4, <2>5, <2>6
    <3>2. best \in Seq(Sessions) /\ others \in Seq(Sessions)
      BY <2>5, <2>6
    <3>3. /\ best \o others \in Seq(Sessions) /\ ToSet(best \o others) = ToSet(best) \cup ToSet(others)
          /\ IsInjective(best \o others)
      BY <2>5, <2>6, <3>1, <3>2, ConcatList
    <3> QED BY <2>1, <3>1, <3>3
  <2>8. ToSet(chosen) \subseteq ToSet(Upto(r, size))
    <3>1. best \in Seq(Sessions) /\ others \in Seq(Sessions)
      BY <2>5, <2>6
    <3>2. ToSet(Upto(best \o others, Len(best))) = ToSet(best)
      BY <3>1, CutJoin
    <3> QED BY <2>1, <2>5, <3>2
  <2>9. \A i \in 1..Len(list) : i <= keep => list[i] \in ToSet(Upto(r, size))
    <3>1. \A i \in 1..Len(list) : i <= keep => i \in 1..keep
      BY <1>1, <1>2
    <3> QED BY <2>4, <2>8, <3>1
  <2>10. ASSUME size > 0, slots > 0, NEW s \in ToSet(list),
                \A t \in ToSet(list) \ {s} : Claim(t) < Claim(s)
         PROVE  s \in ToSet(Upto(r, size))
    <3>1. PICK i \in 1..Len(list) : s = list[i]
      BY <1>1 DEF ToSet
    <3>2. CASE i <= keep
      BY <2>9, <3>1, <3>2
    <3>3. CASE ~(i <= keep)
      <4>1. ASSUME NEW j \in (keep + 1)..Len(list), j # i PROVE k[j - keep] < k[i - keep]
        <5>1. /\ j - keep \in 1..Len(f) /\ i - keep \in 1..Len(f) /\ j \in 1..Len(list)
              /\ keep + (j - keep) = j /\ keep + (i - keep) = i
          BY <1>1, <1>2, <2>2, <3>3
        <5>2. k[j - keep] = Claim(list[j]) /\ k[i - keep] = Claim(s)
          BY <2>2, <2>3, <3>1, <5>1
        <5>3. list[j] \in ToSet(list) /\ list[j] # s
          BY <1>1, <3>1, <4>1, <5>1 DEF ToSet, IsInjective
        <5> QED BY <2>10, <5>2, <5>3
      <4>2. keep < size
        BY <1>2, <2>10
      <4>3. s \in ToSet(chosen)
        BY <2>4, <3>1, <4>1, <4>2
      <4> QED BY <2>8, <4>3
    <3> QED BY <3>2, <3>3
  <2> HIDE DEF r
  <2> QED BY <2>7, <2>9, <2>10 DEF r, keep
<1> QED BY <1>3, <1>4

(* What a session made of some chunks says of them.                        *)
Tells(s, ranked, lexical, found) ==
  /\ s.key \in {KeyOf(c) : c \in ToSet(ranked)}
  /\ ToSet(s.hits) = {c.id : c \in Own(ranked, s.key)}
  /\ \A c \in Own(ranked, s.key) : c.start <= s.latest
  /\ \E c \in Own(ranked, s.key) : c.start = s.latest
  /\ s.matches <=> \E c \in Own(ranked, s.key) : c.id \in lexical \cup found

(* Every chunk is in one session.                                          *)
Groups(list, ranked, lexical, found) ==
  /\ list \in Seq(Sessions) /\ IsInjective(list)
  /\ \A s, t \in ToSet(list) : s.key = t.key => s = t
  /\ {s.key : s \in ToSet(list)} = {KeyOf(c) : c \in ToSet(ranked)}
  /\ \A s \in ToSet(list) : Tells(s, ranked, lexical, found)

Falls(list) == \A p, q \in 1..Len(list) : p < q => list[p].score >= list[q].score

(* order_sessions groups the chunks, sorts the sessions by score, and      *)
(* reserves places.                                                        *)
LEMMA OrderSessionsList ==
  ASSUME NEW ranked \in Seq(Candidates), NEW size, NEW slots, NEW lexical, NEW found
  PROVE  \E list : /\ Groups(list, ranked, lexical, found) /\ Falls(list)
                   /\ OrderSessions(ranked, size, slots, lexical, found) = ReserveSessions(list, size, slots)
<1> DEFINE d == Distinct(ranked)
           named == [i \in DOMAIN d |-> KeyOf(d[i])]
           keys == Distinct(named)
           Of(k) == SessionOf(d, k, lexical, found)
           sessions == [i \in DOMAIN keys |-> Of(keys[i])]
           by == [i \in DOMAIN sessions |-> sessions[i].score]
           list == Arranged(sessions, Order(by))
<1>1. /\ d \in Seq(Candidates) /\ ToSet(d) = ToSet(ranked) /\ DOMAIN d = 1..Len(d) /\ Len(d) \in Nat
      /\ \A i \in 1..Len(d) : d[i] \in Candidates
  <2>1. d \in Seq(Candidates) /\ ToSet(d) = ToSet(ranked)
    BY DistinctList
  <2> HIDE DEF d
  <2> QED BY <2>1, LenProperties
<1>2. OrderSessions(ranked, size, slots, lexical, found) = ReserveSessions(list, size, slots)
  BY DEF OrderSessions, SortedBy, Arranged, Mapped
<1> HIDE DEF d
<1>3. named \in Seq(Keys) /\ ToSet(named) = {KeyOf(c) : c \in ToSet(ranked)}
  <2>1. \A i \in 1..Len(d) : KeyOf(d[i]) \in Keys
    BY <1>1 DEF Keys
  <2>2. named \in [1..Len(d) -> Keys] /\ DOMAIN named = 1..Len(d)
    BY <1>1, <2>1
  <2>3. named \in Seq(Keys)
    BY <1>1, <2>2
  <2>4. ToSet(named) = {KeyOf(d[i]) : i \in 1..Len(d)}
    BY <1>1, <2>2 DEF ToSet
  <2>5. ToSet(d) = {d[i] : i \in 1..Len(d)}
    BY <1>1 DEF ToSet
  <2> HIDE DEF named
  <2> QED BY <1>1, <2>3, <2>4, <2>5
<1> HIDE DEF named
<1>4. /\ keys \in Seq(Keys) /\ ToSet(keys) = {KeyOf(c) : c \in ToSet(ranked)} /\ IsInjective(keys)
      /\ DOMAIN keys = 1..Len(keys) /\ Len(keys) \in Nat
  <2>1. keys \in Seq(Keys) /\ ToSet(keys) = {KeyOf(c) : c \in ToSet(ranked)} /\ IsInjective(keys)
    BY <1>3, DistinctList
  <2> HIDE DEF keys
  <2> QED BY <2>1, LenProperties
<1> HIDE DEF keys
<1>5. ASSUME NEW k \in ToSet(keys)
      PROVE  Of(k) \in Sessions /\ Of(k).key = k /\ Tells(Of(k), ranked, lexical, found)
  <2>1. k \in {KeyOf(c) : c \in ToSet(d)} /\ Own(d, k) = Own(ranked, k)
    BY <1>1, <1>4 DEF Own
  <2>2. /\ Of(k) \in Sessions /\ Of(k).key = k
        /\ ToSet(Of(k).hits) = {c.id : c \in Own(d, k)}
        /\ \A c \in Own(d, k) : c.start <= Of(k).latest
        /\ \E c \in Own(d, k) : c.start = Of(k).latest
        /\ Of(k).matches <=> \E c \in Own(d, k) : c.id \in lexical \cup found
    BY <1>1, <2>1, SessionShape
  <2> HIDE DEF Of
  <2> QED BY <1>4, <2>1, <2>2 DEF Tells
<1> HIDE DEF Of
<1>6. /\ sessions \in Seq(Sessions) /\ IsInjective(sessions) /\ Len(sessions) = Len(keys)
      /\ ToSet(sessions) = {Of(k) : k \in ToSet(keys)}
  <2>1. \A i \in 1..Len(keys) : keys[i] \in ToSet(keys)
    BY <1>4 DEF ToSet
  <2>2. sessions \in [1..Len(keys) -> Sessions] /\ DOMAIN sessions = 1..Len(keys)
    BY <1>4, <1>5, <2>1
  <2>3. sessions \in Seq(Sessions) /\ Len(sessions) = Len(keys)
    BY <1>4, <2>2
  <2>4. \A i, j \in 1..Len(keys) : sessions[i] = sessions[j] => keys[i] = keys[j]
    BY <1>4, <1>5, <2>1
  <2>5. IsInjective(sessions)
    BY <1>4, <2>2, <2>4 DEF IsInjective
  <2>6. ToSet(sessions) = {sessions[i] : i \in 1..Len(keys)} /\ ToSet(keys) = {keys[i] : i \in 1..Len(keys)}
    BY <1>4, <2>2 DEF ToSet
  <2>7. \A i \in 1..Len(keys) : sessions[i] = Of(keys[i])
    BY <1>4
  <2> HIDE DEF sessions
  <2> QED BY <2>3, <2>5, <2>6, <2>7
<1> HIDE DEF sessions
<1>7. /\ list \in Seq(Sessions) /\ IsInjective(list) /\ ToSet(list) = ToSet(sessions)
      /\ Falls(list)
  <2>1. DOMAIN sessions = 1..Len(sessions) /\ \A i \in 1..Len(sessions) : sessions[i] \in Sessions
    BY <1>6, LenProperties
  <2>2. \A s \in Sessions : s.score \in Int
    BY DEF Sessions
  <2>3. by \in [1..Len(sessions) -> Int] /\ \A i \in 1..Len(sessions) : by[i] = sessions[i].score
    BY <2>1, <2>2
  <2> HIDE DEF by
  <2>4. list \in Seq(Sessions) /\ IsInjective(list) /\ ToSet(list) = ToSet(sessions) /\ Len(list) = Len(sessions)
    BY <1>6, <2>3, SortedList
  <2>5. PICK at : /\ Sorts(at, by, Len(sessions))
                  /\ \A p \in 1..Len(sessions) : at[p] \in 1..Len(sessions) /\ list[p] = sessions[at[p]]
    BY <1>6, <2>3, SortedList
  <2> HIDE DEF list
  <2>6. ASSUME NEW p \in 1..Len(list), NEW q \in 1..Len(list), p < q
        PROVE  list[p].score >= list[q].score
    <3>1. by[at[p]] > by[at[q]] \/ by[at[p]] = by[at[q]]
      BY <2>4, <2>5, <2>6 DEF Sorts
    <3>2. /\ by[at[p]] = list[p].score /\ by[at[q]] = list[q].score
          /\ by[at[p]] \in Int /\ by[at[q]] \in Int
      BY <2>3, <2>4, <2>5
    <3> QED BY <3>1, <3>2
  <2> QED BY <2>4, <2>6 DEF Falls
<1> HIDE DEF list
<1>8. /\ \A s, t \in ToSet(list) : s.key = t.key => s = t
      /\ {s.key : s \in ToSet(list)} = {KeyOf(c) : c \in ToSet(ranked)}
      /\ \A s \in ToSet(list) : Tells(s, ranked, lexical, found)
  <2>1. ToSet(list) = {Of(k) : k \in ToSet(keys)}
    BY <1>6, <1>7
  <2>2. \A s, t \in ToSet(list) : s.key = t.key => s = t
    BY <1>5, <2>1
  <2>3. {s.key : s \in ToSet(list)} = ToSet(keys)
    BY <1>5, <2>1
  <2>4. \A s \in ToSet(list) : Tells(s, ranked, lexical, found)
    BY <1>5, <2>1
  <2> QED BY <1>4, <2>2, <2>3, <2>4
<1> QED BY <1>2, <1>7, <1>8 DEF Groups

(* The same with the places reserved.                                      *)
LEMMA OrderedGroups ==
  ASSUME NEW ranked \in Seq(Candidates), NEW size \in Nat, NEW slots \in Nat, NEW lexical, NEW found
  PROVE  Groups(OrderSessions(ranked, size, slots, lexical, found), ranked, lexical, found)
<1>1. PICK list : /\ Groups(list, ranked, lexical, found) /\ Falls(list)
                  /\ OrderSessions(ranked, size, slots, lexical, found) = ReserveSessions(list, size, slots)
  BY OrderSessionsList
<1> DEFINE r == ReserveSessions(list, size, slots)
<1>2. list \in Seq(Sessions) /\ IsInjective(list)
  BY <1>1 DEF Groups
<1>3. r \in Seq(Sessions) /\ IsInjective(r) /\ ToSet(r) = ToSet(list)
  BY <1>2, ReserveSessionsList
<1> HIDE DEF r
<1>4. Groups(r, ranked, lexical, found)
  BY <1>1, <1>3 DEF Groups
<1> QED BY <1>1, <1>4 DEF r

LEMMA SessionHits ==
  ASSUME NEW list, NEW ranked, NEW lexical, NEW found, Groups(list, ranked, lexical, found),
         NEW s \in ToSet(list)
  PROVE  ToSet(s.hits) \subseteq {c.id : c \in ToSet(ranked)}
<1>1. Tells(s, ranked, lexical, found)
  BY DEF Groups
<1>2. ToSet(s.hits) = {c.id : c \in Own(ranked, s.key)}
  BY <1>1 DEF Tells
<1>3. Own(ranked, s.key) \subseteq ToSet(ranked)
  BY DEF Own
<1> QED BY <1>2, <1>3

(* Everything that was scored, in one order for all pages: each session    *)
(* once, the first page before the rest.                                   *)
LEMMA OrderedSessionsList ==
  ASSUME NEW list \in Seq(Candidates), IsInjective(list), NEW size \in Nat, NEW lexical, NEW found
  PROVE  LET ranked == SelectHead(list)
             head == OrderSessions(ranked, size, SessionRecent, lexical, found)
             o == OrderedSessions(list, ranked, size, lexical, found)
         IN /\ o \in Seq(Sessions) /\ IsInjective(o)
            /\ \A s, t \in ToSet(o) : s.key = t.key => s = t
            /\ {s.key : s \in ToSet(o)} = {KeyOf(c) : c \in ToSet(list)}
            /\ \A s \in ToSet(o) : ToSet(s.hits) \subseteq {c.id : c \in ToSet(list)}
            /\ \A s \in ToSet(o) : s.key \in {KeyOf(c) : c \in ToSet(ranked)} <=> s \in ToSet(head)
            /\ ToSet(head) \subseteq ToSet(o)
            /\ ToSet(Upto(head, size)) \subseteq ToSet(Upto(o, size))
<1> DEFINE ranked == SelectHead(list)
           head == OrderSessions(ranked, size, SessionRecent, lexical, found)
           o == OrderedSessions(list, ranked, size, lexical, found)
           rest == OrderSessions(list, 0, 0, lexical, found)
           new == {i \in DOMAIN rest : \A h \in ToSet(head) : rest[i].key # h.key}
           e == Entries(rest, new)
<1>1. /\ ranked \in Seq(Candidates) /\ ToSet(ranked) \subseteq ToSet(list) /\ Len(ranked) <= Len(list)
      /\ Len(list) <= Len(ranked) => ToSet(ranked) = ToSet(list)
  BY SelectHeadList
<1>0. SessionRecent \in Nat /\ 0 \in Nat
  BY RankingAssumption
<1>8. o = IF Len(list) <= Len(ranked) THEN head ELSE head \o e
  BY DEF OrderedSessions, Where
<1> HIDE DEF ranked
<1>2. Groups(head, ranked, lexical, found) /\ Groups(rest, list, lexical, found)
  BY <1>0, <1>1, OrderedGroups
<1> HIDE DEF head, rest, o
<1>3. /\ head \in Seq(Sessions) /\ IsInjective(head)
      /\ \A s, t \in ToSet(head) : s.key = t.key => s = t
      /\ {s.key : s \in ToSet(head)} = {KeyOf(c) : c \in ToSet(ranked)}
      /\ \A s \in ToSet(head) : ToSet(s.hits) \subseteq {c.id : c \in ToSet(list)}
  <2>1. \A s \in ToSet(head) : ToSet(s.hits) \subseteq {c.id : c \in ToSet(ranked)}
    BY <1>2, SessionHits
  <2>2. {c.id : c \in ToSet(ranked)} \subseteq {c.id : c \in ToSet(list)}
    BY <1>1
  <2> QED BY <1>2, <2>1, <2>2 DEF Groups
<1>4. /\ rest \in Seq(Sessions) /\ IsInjective(rest)
      /\ \A s, t \in ToSet(rest) : s.key = t.key => s = t
      /\ {s.key : s \in ToSet(rest)} = {KeyOf(c) : c \in ToSet(list)}
      /\ \A s \in ToSet(rest) : ToSet(s.hits) \subseteq {c.id : c \in ToSet(list)}
  <2>1. \A s \in ToSet(rest) : ToSet(s.hits) \subseteq {c.id : c \in ToSet(list)}
    BY <1>2, SessionHits
  <2> QED BY <1>2, <2>1 DEF Groups
<1>5. CASE Len(list) <= Len(ranked)
  <2>1. o = head /\ ToSet(ranked) = ToSet(list)
    BY <1>1, <1>5, <1>8
  <2> QED BY <1>3, <2>1 DEF ranked, head, o
<1>6. CASE ~(Len(list) <= Len(ranked))
  <2>1. o = head \o e
    BY <1>6, <1>8
  <2>2. DOMAIN rest = 1..Len(rest) /\ new \in SUBSET (1..Len(rest))
    BY <1>4, LenProperties
  <2>3. ToSet(rest) = {rest[i] : i \in 1..Len(rest)}
    BY <2>2 DEF ToSet
  <2>4. {rest[i] : i \in new} = {s \in ToSet(rest) : \A h \in ToSet(head) : s.key # h.key}
    BY <2>2, <2>3
  <2> HIDE DEF new
  <2>5. e \in Seq(Sessions) /\ ToSet(e) = {rest[i] : i \in new} /\ IsInjective(e)
    BY <1>4, <2>2, EntriesList, EntriesDistinct
  <2> HIDE DEF e
  <2>6. ToSet(e) = {s \in ToSet(rest) : \A h \in ToSet(head) : s.key # h.key}
    BY <2>4, <2>5
  <2>7. ToSet(head) \cap ToSet(e) = {}
    BY <2>6
  <2>8. o \in Seq(Sessions) /\ ToSet(o) = ToSet(head) \cup ToSet(e) /\ IsInjective(o)
    BY <1>3, <2>1, <2>5, <2>7, ConcatList
  <2>9. ToSet(Upto(head, size)) \subseteq ToSet(Upto(o, size))
    BY <1>3, <2>1, <2>5, CutJoin
  <2>10. \A s, t \in ToSet(o) : s.key = t.key => s = t
    BY <1>3, <1>4, <2>6, <2>8
  <2>11. {s.key : s \in ToSet(o)} = {KeyOf(c) : c \in ToSet(list)}
    <3>1. {KeyOf(c) : c \in ToSet(ranked)} \subseteq {KeyOf(c) : c \in ToSet(list)}
      BY <1>1
    <3>2. {s.key : s \in ToSet(o)} = {s.key : s \in ToSet(head)} \cup {s.key : s \in ToSet(e)}
      BY <2>8
    <3>3. {s.key : s \in ToSet(e)} = {s.key : s \in ToSet(rest)} \ {s.key : s \in ToSet(head)}
      BY <2>6
    <3> QED BY <1>3, <1>4, <3>1, <3>2, <3>3
  <2>12. \A s \in ToSet(o) : ToSet(s.hits) \subseteq {c.id : c \in ToSet(list)}
    BY <1>3, <1>4, <2>6, <2>8
  <2>13. \A s \in ToSet(o) : s.key \in {KeyOf(c) : c \in ToSet(ranked)} <=> s \in ToSet(head)
    <3>1. \A s \in ToSet(o) : s.key \in {h.key : h \in ToSet(head)} <=> s \in ToSet(head)
      BY <2>6, <2>8
    <3> QED BY <1>3, <3>1
  <2> QED BY <2>8, <2>9, <2>10, <2>11, <2>12, <2>13 DEF ranked, head, o
<1> QED BY <1>5, <1>6

-----------------------------------------------------------------------------
(* The arms and their fusion.                                              *)

(* An arm finds what its ranking has, and only candidates.                 *)
LEMMA ConstrainedList ==
  ASSUME NEW S, NEW ranking \in Seq(S), NEW candidates
  PROVE  LET found == Constrained(ranking, candidates)
         IN /\ found \in Seq(S) /\ (candidates # Unset => ToSet(found) \subseteq candidates)
            /\ IsInjective(ranking) => IsInjective(found)
<1>1. ArmTop \in Nat /\ 3 * ArmTop \in Nat
  BY RetrievalAssumption
<1>2. Upto(ranking, ArmTop) \in Seq(S) /\ Upto(ranking, 3 * ArmTop) \in Seq(S)
  BY <1>1, CutList
<1>4. IsInjective(ranking) => IsInjective(Upto(ranking, ArmTop)) /\ IsInjective(Upto(ranking, 3 * ArmTop))
  BY <1>1, CutDistinct
<1>3. \A s \in Seq(S) : /\ Upto(Within(s, candidates), ArmTop) \in Seq(S)
                        /\ ToSet(Upto(Within(s, candidates), ArmTop)) \subseteq candidates
                        /\ IsInjective(s) => IsInjective(Upto(Within(s, candidates), ArmTop))
  <2> SUFFICES ASSUME NEW s \in Seq(S)
               PROVE  /\ Upto(Within(s, candidates), ArmTop) \in Seq(S)
                      /\ ToSet(Upto(Within(s, candidates), ArmTop)) \subseteq candidates
                      /\ IsInjective(s) => IsInjective(Upto(Within(s, candidates), ArmTop))
    OBVIOUS
  <2> DEFINE w == Within(s, candidates)
  <2>1. w \in Seq(S) /\ ToSet(w) \subseteq candidates /\ (IsInjective(s) => IsInjective(w))
    BY WithinList
  <2> HIDE DEF w
  <2>2. Upto(w, ArmTop) \in Seq(S) /\ ToSet(Upto(w, ArmTop)) \subseteq ToSet(w)
    BY <1>1, <2>1, CutEntries
  <2>3. IsInjective(w) => IsInjective(Upto(w, ArmTop))
    BY <1>1, <2>1, CutDistinct
  <2> QED BY <2>1, <2>2, <2>3 DEF w
<1> DEFINE found == Constrained(ranking, candidates)
           large == Upto(ranking, 3 * ArmTop)
<1>5. CASE candidates = Unset
  <2>1. found = Upto(ranking, ArmTop)
    BY <1>5 DEF Constrained
  <2> QED BY <1>2, <1>4, <1>5, <2>1
<1>6. CASE candidates # Unset /\ Cardinality(candidates) > InlineLimit
  <2>1. found = Upto(Within(large, candidates), ArmTop)
    BY <1>6 DEF Constrained
  <2>2. large \in Seq(S) /\ (IsInjective(ranking) => IsInjective(large))
    BY <1>2, <1>4
  <2> HIDE DEF large
  <2> QED BY <1>3, <2>1, <2>2
<1>7. CASE candidates # Unset /\ ~(Cardinality(candidates) > InlineLimit)
  <2>1. found = Upto(Within(ranking, candidates), ArmTop)
    BY <1>7 DEF Constrained
  <2> QED BY <1>3, <2>1
<1> QED BY <1>5, <1>6, <1>7

LEMMA PhraseSearchList ==
  ASSUME NEW S, NEW q, q.verbatim \in Seq(S), NEW candidates
  PROVE  LET found == PhraseSearch(q, candidates)
         IN /\ found \in Seq(S) /\ (candidates # Unset => ToSet(found) \subseteq candidates)
            /\ IsInjective(q.verbatim) => IsInjective(found)
<1> DEFINE v == q.verbatim
           cut == Upto(v, PhraseTop)
           within == Within(v, candidates)
<1>1. PhraseTop \in Nat
  BY RetrievalAssumption
<1>2. cut \in Seq(S) /\ within \in Seq(S) /\ ToSet(within) \subseteq candidates
  BY <1>1, CutList, WithinList
<1>7. IsInjective(v) => IsInjective(cut) /\ IsInjective(within)
  BY <1>1, CutDistinct, WithinList
<1> HIDE DEF cut, within, v
<1>3. /\ Within(cut, candidates) \in Seq(S) /\ ToSet(Within(cut, candidates)) \subseteq candidates
      /\ IsInjective(cut) => IsInjective(Within(cut, candidates))
  BY <1>2, WithinList
<1>8. IsInjective(within) => IsInjective(Upto(within, PhraseTop))
  BY <1>1, <1>2, CutDistinct
<1>4. Upto(within, PhraseTop) \in Seq(S) /\ ToSet(Upto(within, PhraseTop)) \subseteq candidates
  BY <1>1, <1>2, CutEntries
<1>5. << >> \in Seq(S) /\ ToSet(<< >>) = {} /\ IsInjective(<< >>)
  <2>1. IsInjective(<< >>)
    BY DEF IsInjective
  <2> QED BY <2>1, EmptySeq, EmptyList
<1>9. v = q.verbatim
  BY DEF v
<1>6. PhraseSearch(q, candidates) =
        IF q.single THEN << >> ELSE IF candidates = Unset THEN cut
        ELSE IF Cardinality(candidates) > InlineLimit THEN Within(cut, candidates)
        ELSE Upto(within, PhraseTop)
  BY DEF PhraseSearch, cut, within, v
<1> QED BY <1>2, <1>3, <1>4, <1>5, <1>6, <1>7, <1>8, <1>9

(* What a query can find of some chunks.                                   *)
Rankings(q, S) ==
  /\ q.near \in Seq(S) /\ q.terms \in Seq(S) /\ q.verbatim \in Seq(S)
  /\ q.expansions \in Seq(Seq(S))

(* No ranking names a chunk twice.                                         *)
Once(q) ==
  /\ IsInjective(q.near) /\ IsInjective(q.terms) /\ IsInjective(q.verbatim)
  /\ \A n \in DOMAIN q.expansions : IsInjective(q.expansions[n])

(* Whatever every arm is by itself, all of them are; empty ones are left   *)
(* out.                                                                    *)
LEMMA ArmsAre ==
  ASSUME NEW Y, NEW q, NEW X, q.expansions \in Seq(X), NEW candidates,
         DenseSearch(q.near, candidates) \in Y, SparseSearch(q.terms, candidates) \in Y,
         PhraseSearch(q, candidates) \in Y,
         \A n \in 1..Len(q.expansions) : SparseSearch(q.expansions[n], candidates) \in Y
  PROVE  LET arms == Arms(q, candidates)
             phrase == PhraseSearch(q, candidates)
         IN /\ arms \in Seq(Y) /\ SparseSearch(q.terms, candidates) \in ToSet(arms)
            /\ phrase # << >> => phrase \in ToSet(arms)
<1> DEFINE dense == DenseSearch(q.near, candidates)
           sparse == SparseSearch(q.terms, candidates)
           phrase == PhraseSearch(q, candidates)
           more == [i \in DOMAIN q.expansions |-> SparseSearch(q.expansions[i], candidates)]
           always == <<dense, sparse>>
           one == <<phrase>>
           further == one \o more
           K == {i \in DOMAIN further : further[i] # << >>}
           kept == Entries(further, K)
           arms == Arms(q, candidates)
<1>1. more \in Seq(Y)
  <2>1. DOMAIN q.expansions = 1..Len(q.expansions) /\ Len(q.expansions) \in Nat
    BY LenProperties
  <2>2. more \in [1..Len(q.expansions) -> Y]
    BY <2>1
  <2> QED BY <2>1, <2>2
<1>2. arms = always \o kept
  BY DEF Arms, Where, Mapped
<1> HIDE DEF dense, sparse, phrase, more, arms
<1>3. always \in Seq(Y) /\ sparse \in ToSet(always)
  <2>1. dense \in Y /\ sparse \in Y
    BY DEF dense, sparse
  <2>2. 2 \in DOMAIN always /\ always[2] = sparse
    OBVIOUS
  <2> QED BY <2>1, <2>2 DEF ToSet
<1>4. one \in Seq(Y) /\ phrase \in ToSet(one)
  <2>1. phrase \in Y
    BY DEF phrase
  <2>2. 1 \in DOMAIN one /\ one[1] = phrase
    OBVIOUS
  <2> QED BY <2>1, <2>2 DEF ToSet
<1> HIDE DEF always, one
<1>5. further \in Seq(Y) /\ phrase \in ToSet(further)
  BY <1>1, <1>4, ConcatList
<1> HIDE DEF further
<1>6. kept \in Seq(Y) /\ (phrase # << >> => phrase \in ToSet(kept))
  <2>1. DOMAIN further = 1..Len(further)
    BY <1>5, LenProperties
  <2>2. phrase # << >> => phrase \in {further[i] : i \in K}
    BY <1>5 DEF ToSet
  <2>3. K \in SUBSET (1..Len(further))
    BY <2>1
  <2> HIDE DEF K
  <2>4. kept \in Seq(Y) /\ ToSet(kept) = {further[i] : i \in K}
    BY <1>5, <2>3, EntriesList
  <2> QED BY <2>2, <2>4
<1> HIDE DEF kept
<1>7. always \o kept \in Seq(Y) /\ ToSet(always \o kept) = ToSet(always) \cup ToSet(kept)
  BY <1>3, <1>6, ConcatList
<1> QED BY <1>2, <1>3, <1>6, <1>7 DEF arms, sparse, phrase

(* Every arm lists candidates, each once if the rankings do, and what      *)
(* matched on the words is in one.                                         *)
LEMMA ArmsList ==
  ASSUME NEW S, NEW q, Rankings(q, S), NEW candidates
  PROVE  LET arms == Arms(q, candidates)
             T == {x \in S : candidates # Unset => x \in candidates}
         IN /\ arms \in Seq(Seq(T))
            /\ Once(q) => \A n \in DOMAIN arms : IsInjective(arms[n])
            /\ ToSet(SparseSearch(q.terms, candidates)) \subseteq ToSet(Joined(arms))
            /\ ToSet(PhraseSearch(q, candidates)) \subseteq ToSet(Joined(arms))
<1> DEFINE T == {x \in S : candidates # Unset => x \in candidates}
           dense == DenseSearch(q.near, candidates)
           sparse == SparseSearch(q.terms, candidates)
           phrase == PhraseSearch(q, candidates)
           arms == Arms(q, candidates)
           Single == {s \in Seq(T) : IsInjective(s)}
<1>1. \A s \in Seq(S) : (candidates # Unset => ToSet(s) \subseteq candidates) => s \in Seq(T)
  <2> SUFFICES ASSUME NEW s \in Seq(S), candidates # Unset => ToSet(s) \subseteq candidates
               PROVE  s \in Seq(T)
    OBVIOUS
  <2>1. ToSet(s) \subseteq S
    <3>1. \A i \in 1..Len(s) : s[i] \in S
      BY LenProperties
    <3>2. DOMAIN s = 1..Len(s)
      BY LenProperties
    <3> QED BY <3>1, <3>2 DEF ToSet
  <2>2. ToSet(s) \subseteq T
    BY <2>1
  <2> QED BY <2>2, SeqOfEntries
<1> HIDE DEF T
<1>2. /\ q.near \in Seq(S) /\ q.terms \in Seq(S) /\ q.verbatim \in Seq(S)
      /\ q.expansions \in Seq(Seq(S))
  BY DEF Rankings
<1>3. /\ DOMAIN q.expansions = 1..Len(q.expansions) /\ Len(q.expansions) \in Nat
      /\ \A n \in 1..Len(q.expansions) : q.expansions[n] \in Seq(S)
  BY <1>2, LenProperties
<1>4. \A s \in Seq(S) : /\ Constrained(s, candidates) \in Seq(T)
                        /\ IsInjective(s) => IsInjective(Constrained(s, candidates))
  BY <1>1, ConstrainedList
<1>5. dense \in Seq(T) /\ sparse \in Seq(T)
  BY <1>2, <1>4 DEF DenseSearch, SparseSearch
<1>6. phrase \in Seq(T) /\ (IsInjective(q.verbatim) => IsInjective(phrase))
  <2>1. /\ phrase \in Seq(S) /\ (candidates # Unset => ToSet(phrase) \subseteq candidates)
        /\ IsInjective(q.verbatim) => IsInjective(phrase)
    BY <1>2, PhraseSearchList
  <2> HIDE DEF phrase
  <2> QED BY <1>1, <2>1
<1>7. \A n \in 1..Len(q.expansions) : SparseSearch(q.expansions[n], candidates) \in Seq(T)
  BY <1>3, <1>4 DEF SparseSearch
<1>8. /\ arms \in Seq(Seq(T)) /\ sparse \in ToSet(arms)
      /\ phrase # << >> => phrase \in ToSet(arms)
  <2> DEFINE Y == Seq(T)
             X == Seq(S)
  <2>1. /\ dense \in Y /\ sparse \in Y /\ phrase \in Y /\ q.expansions \in Seq(X)
        /\ \A n \in 1..Len(q.expansions) : SparseSearch(q.expansions[n], candidates) \in Y
    BY <1>2, <1>5, <1>6, <1>7
  <2> HIDE DEF Y, X
  <2>2. /\ arms \in Seq(Y) /\ sparse \in ToSet(arms)
        /\ phrase # << >> => phrase \in ToSet(arms)
    BY <2>1, ArmsAre
  <2> QED BY <2>2 DEF Y
<1>9. Once(q) => \A n \in DOMAIN arms : IsInjective(arms[n])
  <2> SUFFICES ASSUME Once(q) PROVE \A n \in DOMAIN arms : IsInjective(arms[n])
    OBVIOUS
  <2> DEFINE X == Seq(S)
  <2>1. dense \in Single /\ sparse \in Single
    BY <1>2, <1>4, <1>5 DEF Once, DenseSearch, SparseSearch
  <2>2. phrase \in Single
    BY <1>6 DEF Once
  <2>3. \A n \in 1..Len(q.expansions) : SparseSearch(q.expansions[n], candidates) \in Single
    BY <1>3, <1>4, <1>7 DEF Once, SparseSearch
  <2>4. q.expansions \in Seq(X)
    BY <1>2
  <2> HIDE DEF X, Single
  <2>5. arms \in Seq(Single)
    BY <2>1, <2>2, <2>3, <2>4, ArmsAre
  <2> HIDE DEF arms
  <2>6. \A n \in DOMAIN arms : arms[n] \in Single
    BY <2>5, LenProperties
  <2> QED BY <2>6 DEF Single
<1> HIDE DEF arms, dense, sparse, phrase, Single
<1>10. ToSet(Joined(arms)) = UNION {ToSet(arms[n]) : n \in DOMAIN arms}
  BY <1>8, JoinedList
<1>11. \A arm \in ToSet(arms) : ToSet(arm) \subseteq ToSet(Joined(arms))
  BY <1>10 DEF ToSet
<1>12. phrase = << >> => ToSet(phrase) = {}
  BY <1>6, EmptyList
<1> QED BY <1>8, <1>9, <1>11, <1>12 DEF T, arms, sparse, phrase

LEMMA Quotient ==
  ASSUME NEW n \in Nat, NEW d \in Nat, d > 0
  PROVE  n \div d \in Nat
  BY SMT

LEMMA QuotientBounds ==
  ASSUME NEW n \in Nat, NEW d \in Nat, d > 0
  PROVE  d * (n \div d) <= n /\ n < d * (n \div d) + d
  BY SMT

(* What the ranks of a chunk in the arms are worth.                        *)
Shares(w, arms, id) ==
  /\ w \in Seq(Nat) /\ Len(w) = Len(arms) /\ RrfScore(arms, id) = Total(w)
  /\ \A n \in 1..Len(arms) : id \notin ToSet(arms[n]) => w[n] = 0
  /\ \A n \in 1..Len(arms) : id \in ToSet(arms[n]) =>
       \E r \in DOMAIN arms[n] :
         arms[n][r] = id /\ r \in Nat /\ r > 0 /\ w[n] = Unit \div (RrfK + r)

(* A score is the sum of its shares.                                       *)
LEMMA RrfShares ==
  ASSUME NEW S, NEW arms \in Seq(Seq(S)), NEW id
  PROVE  \E w : Shares(w, arms, id)
<1> DEFINE At(arm) == CHOOSE r \in DOMAIN arm : arm[r] = id
           w == [n \in DOMAIN arms |-> IF id \in ToSet(arms[n]) THEN Unit \div (RrfK + At(arms[n])) ELSE 0]
<1>1. DOMAIN arms = 1..Len(arms) /\ Len(arms) \in Nat /\ \A n \in 1..Len(arms) : arms[n] \in Seq(S)
  BY LenProperties
<1>2. RrfScore(arms, id) = Total(w)
  BY DEF RrfScore, Mapped
<1>3. ASSUME NEW arm \in Seq(S), id \in ToSet(arm)
      PROVE  /\ At(arm) \in DOMAIN arm /\ arm[At(arm)] = id /\ At(arm) \in Nat /\ At(arm) > 0
             /\ Unit \div (RrfK + At(arm)) \in Nat
  <2>1. PICK r \in DOMAIN arm : arm[r] = id
    BY <1>3 DEF ToSet
  <2>2. At(arm) \in DOMAIN arm /\ arm[At(arm)] = id
    BY <2>1
  <2>3. At(arm) \in Nat /\ At(arm) > 0
    <3>1. DOMAIN arm = 1..Len(arm) /\ Len(arm) \in Nat
      BY LenProperties
    <3> HIDE DEF At
    <3> QED BY <2>2, <3>1
  <2> DEFINE d == RrfK + At(arm)
  <2>4. d \in Nat /\ d > 0
    <3> HIDE DEF At
    <3> QED BY <2>3, RetrievalAssumption
  <2> HIDE DEF d
  <2>6. Unit \in Nat
    BY SMT DEF Unit
  <2>5. Unit \div d \in Nat
    BY <2>4, <2>6, Quotient
  <2> QED BY <2>2, <2>3, <2>5 DEF d
<1>4. \A n \in 1..Len(arms) : w[n] \in Nat
  BY <1>1, <1>3
<1>5. w \in [1..Len(arms) -> Nat]
  BY <1>1, <1>4
<1>7. \A n \in 1..Len(arms) : id \notin ToSet(arms[n]) => w[n] = 0
  BY <1>1
<1>8. ASSUME NEW n \in 1..Len(arms), id \in ToSet(arms[n])
      PROVE  \E r \in DOMAIN arms[n] :
               arms[n][r] = id /\ r \in Nat /\ r > 0 /\ w[n] = Unit \div (RrfK + r)
  <2>1. w[n] = Unit \div (RrfK + At(arms[n])) /\ arms[n] \in Seq(S)
    BY <1>1, <1>8
  <2>2. /\ At(arms[n]) \in DOMAIN arms[n] /\ arms[n][At(arms[n])] = id
        /\ At(arms[n]) \in Nat /\ At(arms[n]) > 0
    BY <1>3, <1>8, <2>1
  <2> HIDE DEF At, w
  <2> QED BY <2>1, <2>2
<1> HIDE DEF w
<1>6. w \in Seq(Nat) /\ Len(w) = Len(arms)
  <2> DEFINE l == Len(arms)
  <2>1. w \in [1..l -> Nat] /\ l \in Nat
    BY <1>1, <1>5
  <2> HIDE DEF l
  <2>2. w \in Seq(Nat) /\ Len(w) = l
    BY <2>1
  <2> QED BY <2>2 DEF l
<1> QED BY <1>2, <1>6, <1>7, <1>8 DEF Shares

LEMMA RrfScoreNumber ==
  ASSUME NEW S, NEW arms \in Seq(Seq(S)), NEW id
  PROVE  RrfScore(arms, id) \in Nat
  BY RrfShares, TotalList DEF Shares

(* Two ranks within K + 1 are worth more than a single one.                *)
LEMMA TwoSharesExceedOne ==
  ASSUME NEW u \in Nat, NEW K \in Nat, (2 * K + 1) * (2 * K + 1) <= u,
         NEW p \in 1..(K + 1), NEW q \in 1..(K + 1), NEW r \in Nat, r > 0
  PROVE  u \div (K + p) + u \div (K + q) > u \div (K + r)
<1> DEFINE x == u \div (K + p)
           y == u \div (K + q)
           z == u \div (K + r)
           D == 2 * K + 1
<1>1. ASSUME NEW n \in 1..(K + 1) PROVE u \div (K + n) \in Nat /\ D * (u \div (K + n)) + D > u
  <2> DEFINE d == K + n
             v == u \div d
             e == D - d
  <2>1. d \in Nat /\ d > 0 /\ d <= D /\ e \in Nat /\ D = d + e
    OBVIOUS
  <2> HIDE DEF d, D, e
  <2>2. v \in Nat /\ u < d * v + d
    BY <2>1, Quotient, QuotientBounds
  <2> HIDE DEF v
  <2>3. e * v \in Nat /\ D * v = d * v + e * v
    BY <2>1, <2>2
  <2>6. d * v \in Nat
    BY <2>1, <2>2
  <2>4. D * v + D > u
    BY <2>1, <2>2, <2>3, <2>6
  <2>5. v \in Nat /\ D * v + D > u
    BY <2>2, <2>4
  <2> QED BY <2>5 DEF v, d
<1>2. x \in Nat /\ y \in Nat /\ D * x + D > u /\ D * y + D > u
  BY <1>1
<1>3. z \in Nat /\ (K + 1) * z <= u
  <2> DEFINE d == K + r
             e == r - 1
  <2>1. d \in Nat /\ d > 0 /\ e \in Nat /\ d = K + 1 + e /\ K + 1 \in Nat
    OBVIOUS
  <2>2. z \in Nat /\ d * z <= u
    BY <2>1, Quotient, QuotientBounds
  <2> HIDE DEF z, d, e
  <2>3. e * z \in Nat /\ d * z = (K + 1) * z + e * z /\ (K + 1) * z \in Nat
    BY <2>1, <2>2
  <2> QED BY <2>2, <2>3
<1>4. D * D <= u /\ D \in Nat /\ D + 1 = 2 * (K + 1)
  OBVIOUS
<1> HIDE DEF x, y, z, D
<1>5. SUFFICES ASSUME x + y <= z PROVE FALSE
  BY <1>2, <1>3 DEF x, y, z
<1>6. D * x + D * y <= D * z
  <2>1. PICK e \in Nat : z = x + y + e
    <3>1. z - (x + y) \in Nat /\ z = x + y + (z - (x + y))
      BY <1>2, <1>3, <1>5
    <3> QED BY <3>1
  <2>2. D * z = D * x + D * y + D * e /\ D * e \in Nat
    BY <1>2, <1>4, <2>1
  <2>3. D * x \in Nat /\ D * y \in Nat
    BY <1>2, <1>4
  <2> QED BY <2>2, <2>3
<1>7. D * z + 2 * D >= 2 * u + 2
  <2>1. D * x \in Nat /\ D * y \in Nat /\ D * z \in Nat
    BY <1>2, <1>3, <1>4
  <2> QED BY <1>2, <1>4, <1>6, <2>1
<1>8. (D + 1) * z <= 2 * u
  <2>1. (D + 1) * z = 2 * ((K + 1) * z) /\ (K + 1) * z \in Nat
    BY <1>3, <1>4
  <2> QED BY <1>3, <2>1
<1>9. D * z + z <= 2 * u
  BY <1>3, <1>4, <1>8
<1>10. z + 2 <= 2 * D
  <2>1. D * z \in Nat
    BY <1>3, <1>4
  <2> QED BY <1>3, <1>4, <1>7, <1>9, <2>1
<1>11. D * z <= D * (2 * D - 2)
  <2>1. PICK e \in Nat : 2 * D - 2 = z + e
    <3>1. 2 * D - 2 - z \in Nat /\ 2 * D - 2 = z + (2 * D - 2 - z)
      BY <1>3, <1>4, <1>10
    <3> QED BY <3>1
  <2>2. D * (2 * D - 2) = D * z + D * e /\ D * e \in Nat /\ D * z \in Nat
    BY <1>3, <1>4, <2>1
  <2> QED BY <2>2
<1>12. D * (2 * D - 2) = 2 * (D * D) - 2 * D /\ D * D \in Nat
  BY <1>4
<1>13. D * z \in Nat
  BY <1>3, <1>4
<1> QED BY <1>4, <1>7, <1>11, <1>12, <1>13

(* The greater of two keys comes first.                                    *)
LEMMA GreaterFirst ==
  ASSUME NEW X, NEW s \in Seq(X), IsInjective(s), NEW k \in [1..Len(s) -> Int],
         NEW i \in 1..Len(s), NEW j \in 1..Len(s), k[i] > k[j],
         NEW p \in 1..Len(s), Arranged(s, Order(k))[p] = s[j]
  PROVE  \E q \in 1..(p - 1) : Arranged(s, Order(k))[q] = s[i]
<1> DEFINE t == Arranged(s, Order(k))
<1>1. Len(s) \in Nat /\ DOMAIN s = 1..Len(s)
  BY LenProperties
<1>2. PICK at : /\ Sorts(at, k, Len(s))
                /\ \A n \in 1..Len(s) : at[n] \in 1..Len(s) /\ t[n] = s[at[n]]
  BY SortedList
<1>3. /\ \E n \in 1..Len(s) : at[n] = i
      /\ \A m, n \in 1..Len(s) : m < n => k[at[m]] > k[at[n]] \/ k[at[m]] = k[at[n]]
  BY <1>2 DEF Sorts
<1>4. at[p] = j
  BY <1>1, <1>2 DEF IsInjective
<1>5. PICK q \in 1..Len(s) : at[q] = i
  BY <1>3
<1>6. k[i] \in Int /\ k[j] \in Int
  OBVIOUS
<1>7. ~(p < q) /\ p # q
  BY <1>3, <1>4, <1>5, <1>6
<1>8. q \in 1..(p - 1)
  BY <1>1, <1>7
<1> QED BY <1>2, <1>5, <1>8

(* Fusion keeps the best of what any arm found, each once.                 *)
LEMMA FuseList ==
  ASSUME NEW S, NEW arms \in Seq(Seq(S))
  PROVE  /\ Matched(arms) \in Seq(S) /\ IsInjective(Matched(arms))
         /\ ToSet(Matched(arms)) = ToSet(Joined(arms))
         /\ Fuse(arms) \in Seq(S) /\ IsInjective(Fuse(arms)) /\ Len(Fuse(arms)) <= FusedTop
         /\ ToSet(Fuse(arms)) \subseteq ToSet(Matched(arms))
         /\ FusedTop > 0 /\ ToSet(Matched(arms)) # {} => Fuse(arms) # << >>
         /\ Len(Fuse(arms)) < FusedTop => ToSet(Fuse(arms)) = ToSet(Matched(arms))
         /\ \A x, y \in ToSet(Matched(arms)) : RrfScore(arms, x) > RrfScore(arms, y) =>
              \A n \in 1..Len(Fuse(arms)) :
                Fuse(arms)[n] = y => \E m \in 1..(n - 1) : Fuse(arms)[m] = x
<1> DEFINE m == Matched(arms)
           k == [i \in DOMAIN m |-> RrfScore(arms, m[i])]
           a == Arranged(m, Order(k))
           f == Fuse(arms)
<1>1. FusedTop \in Nat
  BY RetrievalAssumption
<1>2. Joined(arms) \in Seq(S)
  BY JoinedList
<1>3. m \in Seq(S) /\ IsInjective(m) /\ ToSet(m) = ToSet(Joined(arms))
  BY <1>2, DistinctList DEF Matched
<1>4. f = Upto(a, FusedTop)
  BY DEF Fuse, SortedBy, Arranged
<1> HIDE DEF m, f
<1>5. k \in [1..Len(m) -> Int]
  <2>1. DOMAIN m = 1..Len(m)
    BY <1>3, LenProperties
  <2>2. \A i \in DOMAIN m : RrfScore(arms, m[i]) \in Int
    BY RrfScoreNumber
  <2> QED BY <2>1, <2>2
<1>10. DOMAIN m = 1..Len(m) /\ Len(m) \in Nat /\ \A n \in 1..Len(m) : k[n] = RrfScore(arms, m[n])
  BY <1>3, LenProperties
<1> HIDE DEF k
<1>11. ASSUME NEW x \in ToSet(m), NEW y \in ToSet(m), RrfScore(arms, x) > RrfScore(arms, y),
             NEW n \in 1..Len(m), a[n] = y
      PROVE  \E p \in 1..(n - 1) : a[p] = x
  <2>1. PICK i \in 1..Len(m), j \in 1..Len(m) : m[i] = x /\ m[j] = y
    BY <1>10 DEF ToSet
  <2>2. k[i] > k[j]
    BY <1>10, <1>11, <2>1
  <2>3. Arranged(m, Order(k))[n] = m[j]
    BY <1>11, <2>1
  <2>4. m \in Seq(S) /\ IsInjective(m)
    BY <1>3
  <2>5. \E q \in 1..(n - 1) : Arranged(m, Order(k))[q] = m[i]
    BY <1>5, <2>2, <2>3, <2>4, GreaterFirst
  <2> QED BY <2>1, <2>5
<1>6. a \in Seq(S) /\ IsInjective(a) /\ ToSet(a) = ToSet(m) /\ Len(a) = Len(m)
  BY <1>3, <1>5, SortedList
<1> HIDE DEF a
<1>7. f \in Seq(S) /\ ToSet(f) \subseteq ToSet(m) /\ Len(f) <= FusedTop
  BY <1>1, <1>4, <1>6, CutEntries
<1>8. IsInjective(f)
  BY <1>1, <1>4, <1>6, CutDistinct
<1>9. FusedTop > 0 /\ ToSet(m) # {} => f # << >>
  <2> SUFFICES ASSUME FusedTop > 0, ToSet(m) # {} PROVE f # << >>
    OBVIOUS
  <2>1. Len(m) \in Nat /\ Len(m) # 0
    BY <1>3, EmptyList, LenProperties
  <2>2. ToSet(f) = {a[i] : i \in {i \in 1..Len(a) : i <= FusedTop}}
    BY <1>1, <1>4, <1>6, CutList
  <2>3. 1 \in {i \in 1..Len(a) : i <= FusedTop}
    BY <1>1, <1>6, <2>1
  <2>4. ToSet(f) # {}
    BY <2>2, <2>3
  <2> QED BY <1>7, <2>4, EmptyList
<1>12. /\ Len(f) = IF FusedTop <= Len(a) THEN FusedTop ELSE Len(a)
       /\ \A n \in 1..Len(f) : f[n] = a[n]
  BY <1>1, <1>4, <1>6, CutList
<1>13. Len(f) < FusedTop => ToSet(f) = ToSet(m)
  <2> SUFFICES ASSUME Len(f) < FusedTop PROVE ToSet(f) = ToSet(m)
    OBVIOUS
  <2>1. Len(a) \in Nat /\ Len(f) \in Nat
    BY <1>6, <1>7, LenProperties
  <2>2. Len(f) = Len(a)
    BY <1>1, <1>12, <2>1
  <2>3. DOMAIN f = 1..Len(f) /\ DOMAIN a = 1..Len(a)
    BY <1>6, <1>7, LenProperties
  <2>4. ToSet(f) = ToSet(a)
    BY <1>12, <2>2, <2>3 DEF ToSet
  <2> QED BY <1>6, <2>4
<1>14. ASSUME NEW x \in ToSet(m), NEW y \in ToSet(m), RrfScore(arms, x) > RrfScore(arms, y),
             NEW n \in 1..Len(f), f[n] = y
      PROVE  \E p \in 1..(n - 1) : f[p] = x
  <2>1. Len(f) \in Nat /\ Len(f) <= Len(m)
    BY <1>1, <1>6, <1>7, <1>10, <1>12, LenProperties
  <2>2. n \in 1..Len(m) /\ a[n] = y
    BY <1>10, <1>12, <1>14, <2>1
  <2>3. PICK p \in 1..(n - 1) : a[p] = x
    BY <1>11, <1>14, <2>2
  <2>4. p \in 1..Len(f)
    BY <2>1, <2>3
  <2> QED BY <1>12, <2>3, <2>4
<1> QED BY <1>3, <1>7, <1>8, <1>9, <1>13, <1>14 DEF m, f

(* The slots for the newest: still each chunk once and no more than the    *)
(* limit, and the newest match is among them.                              *)
LEMMA ReserveRecentList ==
  ASSUME NEW S \in SUBSET (DOMAIN Index), NEW table \in [S -> Chunks],
         NEW found \in Seq(S), IsInjective(found),
         NEW matched \in Seq(S), IsInjective(matched), ToSet(found) \subseteq ToSet(matched)
  PROVE  LET r == ReserveRecent(table, found, matched)
         IN /\ r \in Seq(S) /\ IsInjective(r) /\ Len(r) <= FusedTop
            /\ ToSet(r) \subseteq ToSet(matched)
            /\ FusedTop > 0 /\ RecencySlots > 0 /\ found # << >> =>
                 \A x \in ToSet(matched) :
                   (\A y \in ToSet(matched) \ {x} : table[y].start < table[x].start) => x \in ToSet(r)
            /\ \A n \in 1..Len(r) : n <= FusedTop - RecencySlots /\ n <= Len(found) => r[n] = found[n]
<1> DEFINE r == ReserveRecent(table, found, matched)
           keep == FusedTop - Min({FusedTop, RecencySlots})
           kept == Upto(found, keep)
           k == [i \in DOMAIN matched |-> table[matched[i]].start]
           byDate == Arranged(matched, Order(k))
           fresh == Outside(byDate, ToSet(kept))
           recent == Upto(fresh, FusedTop - Len(kept))
           left == From(found, Len(kept))
           slack == Outside(left, ToSet(recent))
           all == kept \o recent
<1>1. FusedTop \in Nat /\ RecencySlots \in Nat
  BY RetrievalAssumption
<1>2. CASE RecencySlots = 0 \/ found = << >>
  <2>1. r = Upto(found, FusedTop)
    BY <1>2 DEF ReserveRecent
  <2>2. r \in Seq(S) /\ Len(r) <= FusedTop /\ ToSet(r) \subseteq ToSet(found) /\ IsInjective(r)
    BY <1>1, <2>1, CutEntries, CutDistinct
  <2>3. \A n \in 1..Len(r) : r[n] = found[n]
    BY <1>1, <2>1, CutList
  <2> HIDE DEF r
  <2> QED BY <1>1, <1>2, <2>2, <2>3 DEF r
<1>3. CASE ~(RecencySlots = 0 \/ found = << >>)
  <2>1. r = Upto(all \o slack, FusedTop)
    BY <1>3 DEF ReserveRecent, RecencyRanked, SortedBy, Arranged
  <2>2. keep \in Nat /\ keep <= FusedTop /\ (FusedTop > 0 => keep < FusedTop)
    <3>1. /\ keep \in Nat /\ keep <= FusedTop
          /\ FusedTop > 0 /\ RecencySlots > 0 => keep < FusedTop
      BY <1>1, PlacesKept
    <3> HIDE DEF keep
    <3> QED BY <1>1, <1>3, <3>1
  <2>16. FusedTop - RecencySlots <= keep
    BY <1>1, MinOfTwo
  <2> HIDE DEF keep
  <2>3. /\ kept \in Seq(S) /\ IsInjective(kept) /\ ToSet(kept) \subseteq ToSet(found)
        /\ Len(kept) \in Nat /\ Len(kept) <= keep
    <3>1. kept \in Seq(S) /\ ToSet(kept) \subseteq ToSet(found) /\ Len(kept) <= keep /\ IsInjective(kept)
      BY <2>2, CutEntries, CutDistinct
    <3> HIDE DEF kept
    <3> QED BY <3>1, LenProperties
  <2>4. /\ left \in Seq(S) /\ IsInjective(left) /\ ToSet(left) \subseteq ToSet(found)
        /\ ToSet(kept) \cap ToSet(left) = {}
    <3> DEFINE l == Len(kept)
    <3>1. l \in Nat
      BY <2>3
    <3>2. kept = Upto(found, l)
      <4>1. Len(kept) = IF keep <= Len(found) THEN keep ELSE Len(found)
        BY <2>2, CutList
      <4>2. CASE keep <= Len(found)
        BY <4>1, <4>2
      <4>3. CASE ~(keep <= Len(found))
        <5>1. Len(found) \in Nat
          BY LenProperties
        <5>2. Upto(found, keep) = found /\ Upto(found, Len(found)) = found
          BY <2>2, <4>3, <5>1, CutList
        <5> QED BY <4>1, <4>3, <5>2
      <4> QED BY <4>2, <4>3
    <3> HIDE DEF l, kept
    <3>3. /\ From(found, l) \in Seq(S) /\ IsInjective(From(found, l))
          /\ ToSet(Upto(found, l)) \cap ToSet(From(found, l)) = {}
          /\ ToSet(Upto(found, l)) \cup ToSet(From(found, l)) = ToSet(found)
      BY <3>1, CutList, CutDistinct
    <3> QED BY <3>2, <3>3 DEF l
  <2>5. /\ byDate \in Seq(S) /\ IsInjective(byDate) /\ ToSet(byDate) = ToSet(matched)
        /\ Len(byDate) = Len(matched)
        /\ \A j \in 1..Len(matched) :
             (\A i \in 1..Len(matched) : i # j => k[i] < k[j]) => byDate[1] = matched[j]
        /\ DOMAIN matched = 1..Len(matched) /\ Len(matched) \in Nat
        /\ \A i \in 1..Len(matched) : k[i] = table[matched[i]].start
    <3>1. DOMAIN matched = 1..Len(matched) /\ Len(matched) \in Nat /\ \A i \in 1..Len(matched) : matched[i] \in S
      BY LenProperties
    <3>2. \A c \in Chunks : c.start \in Int
      BY RelevanceAssumption DEF Chunks
    <3>3. \A x \in S : table[x] \in Chunks
      OBVIOUS
    <3>4. k \in [1..Len(matched) -> Int] /\ \A i \in 1..Len(matched) : k[i] = table[matched[i]].start
      BY <3>1, <3>2, <3>3
    <3> HIDE DEF k
    <3> QED BY <3>1, <3>4, SortedList
  <2> HIDE DEF kept, byDate, left, k
  <2>6. /\ fresh \in Seq(S) /\ IsInjective(fresh) /\ ToSet(fresh) = ToSet(matched) \ ToSet(kept)
    BY <2>5, WithinList
  <2> HIDE DEF fresh
  <2>7. /\ recent \in Seq(S) /\ IsInjective(recent) /\ ToSet(recent) \subseteq ToSet(fresh)
        /\ Len(recent) \in Nat /\ Len(recent) <= FusedTop - Len(kept)
    <3> DEFINE n == FusedTop - Len(kept)
    <3>1. n \in Nat
      BY <1>1, <2>2, <2>3
    <3> HIDE DEF n
    <3>2. /\ Upto(fresh, n) \in Seq(S) /\ ToSet(Upto(fresh, n)) \subseteq ToSet(fresh)
          /\ Len(Upto(fresh, n)) <= n /\ IsInjective(Upto(fresh, n))
      BY <2>6, <3>1, CutEntries, CutDistinct
    <3>3. Len(Upto(fresh, n)) \in Nat
      BY <3>2, LenProperties
    <3> QED BY <3>2, <3>3 DEF n
  <2> HIDE DEF recent
  <2>8. /\ slack \in Seq(S) /\ IsInjective(slack) /\ ToSet(slack) = ToSet(left) \ ToSet(recent)
    BY <2>4, WithinList
  <2> HIDE DEF slack
  <2>9. /\ all \in Seq(S) /\ IsInjective(all) /\ ToSet(all) = ToSet(kept) \cup ToSet(recent)
        /\ Len(all) = Len(kept) + Len(recent)
    <3>1. ToSet(kept) \cap ToSet(recent) = {}
      BY <2>6, <2>7
    <3>2. kept \in Seq(S) /\ recent \in Seq(S) /\ IsInjective(kept) /\ IsInjective(recent)
      BY <2>3, <2>7
    <3> QED BY <3>1, <3>2, ConcatList
  <2>10. Len(all) \in Nat /\ FusedTop >= Len(all)
    BY <1>1, <2>3, <2>7, <2>9
  <2> HIDE DEF all
  <2>11. /\ all \o slack \in Seq(S) /\ IsInjective(all \o slack)
         /\ ToSet(all \o slack) = ToSet(all) \cup ToSet(slack)
    <3>1. ToSet(all) \cap ToSet(slack) = {}
      BY <2>4, <2>8, <2>9
    <3>2. all \in Seq(S) /\ slack \in Seq(S) /\ IsInjective(all) /\ IsInjective(slack)
      BY <2>8, <2>9
    <3> QED BY <3>1, <3>2, ConcatList
  <2>12. /\ r \in Seq(S) /\ IsInjective(r) /\ ToSet(r) \subseteq ToSet(all \o slack) /\ Len(r) <= FusedTop
    <3> DEFINE c == all \o slack
    <3>1. c \in Seq(S) /\ IsInjective(c)
      BY <2>11
    <3> HIDE DEF c
    <3>2. Upto(c, FusedTop) \in Seq(S) /\ IsInjective(Upto(c, FusedTop))
          /\ ToSet(Upto(c, FusedTop)) \subseteq ToSet(c) /\ Len(Upto(c, FusedTop)) <= FusedTop
      BY <1>1, <3>1, CutEntries, CutDistinct
    <3> QED BY <2>1, <3>2 DEF c
  <2>13. ToSet(all) \subseteq ToSet(r)
    <3>1. Upto(all, FusedTop) = all
      BY <1>1, <2>9, <2>10, CutList
    <3>2. ToSet(Upto(all, FusedTop)) \subseteq ToSet(Upto(all \o slack, FusedTop))
      BY <1>1, <2>8, <2>9, CutJoin
    <3> QED BY <2>1, <3>1, <3>2
  <2>14. ToSet(r) \subseteq ToSet(matched)
    BY <2>3, <2>4, <2>6, <2>7, <2>8, <2>9, <2>11, <2>12
  <2>15. ASSUME FusedTop > 0, NEW x \in ToSet(matched),
                \A y \in ToSet(matched) \ {x} : table[y].start < table[x].start
         PROVE  x \in ToSet(r)
    <3>1. PICK j \in 1..Len(matched) : x = matched[j]
      BY <2>5 DEF ToSet
    <3>2. ASSUME NEW i \in 1..Len(matched), i # j PROVE k[i] < k[j]
      <4>1. matched[i] \in ToSet(matched) /\ matched[i] # x
        BY <2>5, <3>1, <3>2 DEF ToSet, IsInjective
      <4> QED BY <2>5, <2>15, <3>1, <4>1
    <3>3. byDate[1] = x
      BY <2>5, <3>1, <3>2
    <3>4. CASE x \in ToSet(kept)
      BY <2>9, <2>13, <3>4
    <3>5. CASE x \notin ToSet(kept)
      <4> DEFINE n == FusedTop - Len(kept)
      <4>1. n \in Nat /\ n > 0
        BY <1>1, <2>2, <2>3, <2>15
      <4>2. Len(byDate) > 0
        BY <2>5, <3>1
      <4> HIDE DEF n
      <4>3. byDate[1] \in ToSet(Upto(Outside(byDate, ToSet(kept)), n))
        BY <2>5, <3>3, <3>5, <4>1, <4>2, FirstOutside
      <4>4. x \in ToSet(recent)
        BY <3>3, <4>3 DEF recent, fresh, n
      <4> QED BY <2>9, <2>13, <4>4
    <3> QED BY <3>4, <3>5
  <2>17. ASSUME NEW n \in 1..Len(r), n <= FusedTop - RecencySlots, n <= Len(found)
         PROVE  r[n] = found[n]
    <3>1. Len(found) \in Nat /\ Len(slack) \in Nat /\ Len(r) \in Nat
      BY <2>8, <2>12, LenProperties
    <3>2. n <= keep
      BY <1>1, <2>2, <2>16, <2>17, <3>1
    <3>3. /\ Len(kept) = IF keep <= Len(found) THEN keep ELSE Len(found)
          /\ \A i \in 1..Len(kept) : kept[i] = found[i]
      BY <2>2, CutList DEF kept
    <3>4. n \in 1..Len(kept)
      BY <2>2, <2>17, <3>1, <3>2, <3>3
    <3>5. Len(recent) \in Nat /\ n <= Len(all)
      BY <2>3, <2>7, <2>9, <3>4
    <3>6. all[n] = kept[n]
      BY <2>3, <2>7, <3>4, ConcatProperties DEF all
    <3>7. (all \o slack)[n] = all[n]
      BY <2>8, <2>9, <2>10, <3>1, <3>4, <3>5, ConcatProperties
    <3>8. r[n] = (all \o slack)[n]
      <4> DEFINE c == all \o slack
      <4>1. c \in Seq(S)
        BY <2>11
      <4> HIDE DEF c
      <4>2. \A i \in 1..Len(Upto(c, FusedTop)) : Upto(c, FusedTop)[i] = c[i]
        BY <1>1, <4>1, CutList
      <4> QED BY <2>1, <4>2 DEF c
    <3> QED BY <3>3, <3>4, <3>6, <3>7, <3>8
  <2> HIDE DEF r
  <2> QED BY <2>12, <2>14, <2>15, <2>17 DEF r
<1> QED BY <1>2, <1>3

-----------------------------------------------------------------------------
(* What a query finds in the chunks table.                                 *)

(* Chunks are taken out of the index and otherwise stay as they are.       *)
RowsOf(table) ==
  /\ DOMAIN table \subseteq DOMAIN Index
  /\ table = [i \in DOMAIN table |-> Index[i]]

LEMMA RowsChunks ==
  ASSUME NEW table, RowsOf(table)
  PROVE  table \in [DOMAIN table -> Chunks]
<1>1. \A i \in DOMAIN table : Index[i] \in Chunks
  BY RelevanceAssumption DEF RowsOf
<1> QED BY <1>1 DEF RowsOf

LEMMA FindableRankings ==
  ASSUME NEW q \in Queries
  PROVE  /\ Rankings(Findable(q), DOMAIN rows) /\ Findable(q).filter = q.filter
         /\ q.size \in Nat \ {0} /\ q.filter \in Filters
         /\ Once(Findable(q))
<1> DEFINE S == DOMAIN rows
           ids == DOMAIN Index
           Found(s) == Within(s, S)
           f == Findable(q)
<1>1. /\ q.near \in Seq(ids) /\ q.terms \in Seq(ids) /\ q.verbatim \in Seq(ids)
      /\ q.expansions \in Seq(Seq(ids)) /\ q.size \in Nat \ {0} /\ q.filter \in Filters
  BY RelevanceAssumption
<1>2. /\ f.near = Found(q.near) /\ f.terms = Found(q.terms) /\ f.verbatim = Found(q.verbatim)
      /\ f.expansions = [i \in DOMAIN q.expansions |-> Found(q.expansions[i])]
      /\ f.filter = q.filter
  BY RelevanceAssumption DEF Findable, Mapped
<1> HIDE DEF ids
<1>6. Once(q)
  BY RankingsAssumption DEF Once
<1>3. \A s \in Seq(ids) : Found(s) \in Seq(S) /\ (IsInjective(s) => IsInjective(Found(s)))
  <2> SUFFICES ASSUME NEW s \in Seq(ids)
               PROVE  Found(s) \in Seq(S) /\ (IsInjective(s) => IsInjective(Found(s)))
    OBVIOUS
  <2>1. /\ Found(s) \in Seq(ids) /\ ToSet(Found(s)) = ToSet(s) \cap S
        /\ IsInjective(s) => IsInjective(Found(s))
    BY WithinList
  <2>2. ToSet(Found(s)) \subseteq S
    BY <2>1
  <2> HIDE DEF S, Found
  <2> QED BY <2>1, <2>2, SeqOfEntries
<1> HIDE DEF Found, f, S
<1>4. f.expansions \in Seq(Seq(S))
  <2>1. /\ DOMAIN q.expansions = 1..Len(q.expansions) /\ Len(q.expansions) \in Nat
        /\ \A i \in 1..Len(q.expansions) : q.expansions[i] \in Seq(ids)
    BY <1>1, LenProperties
  <2>2. f.expansions \in [1..Len(q.expansions) -> Seq(S)]
    BY <1>2, <1>3, <2>1
  <2> QED BY <2>1, <2>2
<1>5. f.near \in Seq(S) /\ f.terms \in Seq(S) /\ f.verbatim \in Seq(S)
  BY <1>1, <1>2, <1>3
<1>7. Once(f)
  <2>1. /\ DOMAIN q.expansions = 1..Len(q.expansions)
        /\ \A i \in 1..Len(q.expansions) : q.expansions[i] \in Seq(ids)
    BY <1>1, LenProperties
  <2>2. \A n \in DOMAIN f.expansions : IsInjective(f.expansions[n])
    BY <1>2, <1>3, <1>6, <2>1 DEF Once
  <2> QED BY <1>1, <1>2, <1>3, <1>6, <2>2 DEF Once
<1> QED BY <1>1, <1>2, <1>4, <1>5, <1>7 DEF Rankings, f, S

(* The candidates of a filter are what each part of it allows by itself.   *)
LEMMA CandidatesMay ==
  ASSUME NEW table, RowsOf(table), NEW f \in Filters, NEW i \in DOMAIN table,
         CandidateChunks(table, f) # Unset => i \in CandidateChunks(table, f)
  PROVE  MayAnswer(i, f)
<1> DEFINE chats == ResolveChatFilter(f)
           chunk == Index[i]
           byPeople == IF f.people = {} THEN {} ELSE {ResolveParticipants(f.people)}
           byGroup == IF f.group = Unset THEN {} ELSE {ResolveGroups(f.group)}
           byChats == IF f.chats = {} THEN {} ELSE {f.chats}
           filters == byPeople \cup byGroup \cup byChats
           both == {c \in UNION filters : \A g \in filters : c \in g}
           held == {j \in DOMAIN table : /\ InDates(table[j], f)
                                         /\ f.media => table[j].media
                                         /\ chats = Unset \/ table[j].chat \in chats}
           none == f.from = Unset /\ f.to = Unset /\ ~f.media /\ chats = Unset
<1>1. table[i] = Index[i] /\ DOMAIN table \subseteq DOMAIN Index
  BY DEF RowsOf
<1>2. chats = IF filters = {} THEN Unset ELSE both
  BY DEF ResolveChatFilter
<1>3. CandidateChunks(table, f) = IF none THEN Unset ELSE held
  BY DEF CandidateChunks
<1>4. UNION filters \subseteq Chats
  <2>1. f.chats \subseteq Chats
    BY DEF Filters
  <2>2. ResolveParticipants(f.people) \subseteq Chats /\ ResolveGroups(f.group) \subseteq Chats
    BY DEF ResolveParticipants, ResolveGroups
  <2> QED BY <2>1, <2>2
<1> HIDE DEF chats, filters
<1>5. filters # {} => both # Unset
  <2>1. both \in SUBSET Chats
    BY <1>4
  <2> HIDE DEF both
  <2> QED BY <2>1, RelevanceAssumption
<1>6. held # Unset
  <2>1. held \in SUBSET DOMAIN Index
    BY <1>1
  <2> HIDE DEF held
  <2> QED BY <2>1, RelevanceAssumption
<1>7. none \/ i \in held
  <2> HIDE DEF held, none
  <2> QED BY <1>3, <1>6
<1>8. (f.from # Unset => chunk.start >= f.from) /\ (f.to # Unset => chunk.end <= f.to)
      /\ (f.media => chunk.media)
  BY <1>1, <1>7 DEF InDates
<1>9. chats = Unset \/ chunk.chat \in chats
  BY <1>1, <1>7
<1>10. \A g \in filters : chunk.chat \in g
  <2>1. CASE filters = {}
    BY <2>1
  <2>2. CASE filters # {}
    <3>1. chats = both /\ chats # Unset
      BY <1>2, <1>5, <2>2
    <3> QED BY <1>9, <3>1
  <2> QED BY <2>1, <2>2
<1>11. f.chats # {} => chunk.chat \in f.chats
  BY <1>10 DEF filters
<1>12. f.people # {} => chunk.chat \in ResolveParticipants(f.people)
  BY <1>10 DEF filters
<1>13. f.group # Unset => chunk.chat \in ResolveGroups(f.group)
  BY <1>10 DEF filters
<1>14. f.people # {} => \E h \in f.people : h \in Roster[chunk.chat] \/ h \in Authors[chunk.chat]
  BY <1>12 DEF ResolveParticipants
<1>15. f.group # Unset => f.group = IF Style[chunk.chat] = Unset THEN Cardinality(Roster[chunk.chat]) > 1
                                    ELSE Style[chunk.chat] # "direct"
  BY <1>13 DEF ResolveGroups
<1> QED BY <1>8, <1>11, <1>14, <1>15 DEF MayAnswer

(* The arms of the query under way.                                        *)
QueryArms == Arms(Findable(query), CandidateChunks(rows, query.filter))

(* What Retrieve returns: chunks that the filters allow, each once, within *)
(* the limit, the newest of all matches among them; and what has the words *)
(* is among the matches.                                                   *)
LEMMA RetrieveList ==
  ASSUME RowsOf(rows), query \in Queries
  PROVE  LET r == Retrieve(rows, Findable(query))
             found == TermMatches(rows, Findable(query))
         IN /\ r \in Seq(DOMAIN rows) /\ IsInjective(r) /\ Len(r) <= FusedTop
            /\ ToSet(r) \subseteq ToSet(Matches) /\ ToSet(Matches) \subseteq DOMAIN rows
            /\ \A id \in ToSet(Matches) : MayAnswer(id, query.filter)
            /\ found \subseteq ToSet(Matches)
            /\ FusedTop > 0 /\ RecencySlots > 0 =>
                 \A x \in ToSet(Matches) :
                   (\A y \in ToSet(Matches) \ {x} : rows[y].start < rows[x].start) => x \in ToSet(r)
            /\ QueryArms \in Seq(Seq(DOMAIN rows)) /\ \A n \in DOMAIN QueryArms : IsInjective(QueryArms[n])
            /\ \A x, y \in ToSet(Matches) : RrfScore(QueryArms, x) > RrfScore(QueryArms, y) =>
                 \A n \in 1..Len(r) : n <= FusedTop - RecencySlots /\ r[n] = y =>
                   \E m \in 1..(n - 1) : r[m] = x
<1> DEFINE q == Findable(query)
           candidates == CandidateChunks(rows, query.filter)
           S == DOMAIN rows
           T == {x \in S : candidates # Unset => x \in candidates}
           arms == Arms(q, candidates)
           matched == Matched(arms)
           fused0 == Fuse(arms)
           r == Retrieve(rows, q)
           found == TermMatches(rows, q)
<1>1. Rankings(q, S) /\ q.filter = query.filter /\ query.filter \in Filters /\ Once(q)
  BY FindableRankings
<1>2. S \in SUBSET DOMAIN Index /\ rows \in [S -> Chunks]
  BY RowsChunks DEF RowsOf
<1>3. /\ r = ReserveRecent(rows, fused0, matched) /\ Matches = matched /\ QueryArms = arms
      /\ found = ToSet(SparseSearch(q.terms, candidates)) \cup ToSet(PhraseSearch(q, candidates))
  BY <1>1 DEF Retrieve, TermMatches, Matches, QueryArms
<1>15. \A x \in T : MayAnswer(x, query.filter)
  BY <1>1, CandidatesMay
<1> HIDE DEF q, candidates
<1>4. /\ arms \in Seq(Seq(T)) /\ \A n \in DOMAIN arms : IsInjective(arms[n])
      /\ ToSet(SparseSearch(q.terms, candidates)) \subseteq ToSet(Joined(arms))
      /\ ToSet(PhraseSearch(q, candidates)) \subseteq ToSet(Joined(arms))
  BY <1>1, ArmsList
<1>14. T \subseteq S
  OBVIOUS
<1> HIDE DEF arms, T, S, r, found
<1>5. /\ matched \in Seq(T) /\ IsInjective(matched) /\ ToSet(matched) = ToSet(Joined(arms))
      /\ fused0 \in Seq(T) /\ IsInjective(fused0) /\ Len(fused0) <= FusedTop
      /\ ToSet(fused0) \subseteq ToSet(matched)
      /\ FusedTop > 0 /\ ToSet(matched) # {} => fused0 # << >>
      /\ Len(fused0) < FusedTop => ToSet(fused0) = ToSet(matched)
      /\ \A x, y \in ToSet(matched) : RrfScore(arms, x) > RrfScore(arms, y) =>
           \A n \in 1..Len(fused0) : fused0[n] = y => \E m \in 1..(n - 1) : fused0[m] = x
  BY <1>4, FuseList
<1> HIDE DEF matched, fused0
<1>6. ToSet(matched) \subseteq T /\ ToSet(fused0) \subseteq T
  BY <1>5, LenProperties DEF ToSet
<1>7. matched \in Seq(S) /\ fused0 \in Seq(S)
  <2>1. ToSet(matched) \subseteq S /\ ToSet(fused0) \subseteq S
    BY <1>6, <1>14
  <2> QED BY <1>5, <2>1, SeqOfEntries
<1>8. /\ r \in Seq(S) /\ IsInjective(r) /\ Len(r) <= FusedTop
      /\ ToSet(r) \subseteq ToSet(matched)
      /\ FusedTop > 0 /\ RecencySlots > 0 /\ fused0 # << >> =>
           \A x \in ToSet(matched) :
             (\A y \in ToSet(matched) \ {x} : rows[y].start < rows[x].start) => x \in ToSet(r)
      /\ \A n \in 1..Len(r) : n <= FusedTop - RecencySlots /\ n <= Len(fused0) => r[n] = fused0[n]
  BY <1>2, <1>3, <1>5, <1>7, ReserveRecentList
<1>9. found \subseteq ToSet(matched)
  BY <1>3, <1>4, <1>5
<1>10. FusedTop > 0 /\ RecencySlots > 0 =>
         \A x \in ToSet(matched) :
           (\A y \in ToSet(matched) \ {x} : rows[y].start < rows[x].start) => x \in ToSet(r)
  BY <1>5, <1>8
<1>11. \A id \in ToSet(matched) : MayAnswer(id, query.filter)
  BY <1>6, <1>15
<1>12. ToSet(matched) \subseteq S
  BY <1>6, <1>14
<1>13. arms \in Seq(Seq(S))
  <2>1. \A s \in Seq(T) : s \in Seq(S)
    BY <1>14
  <2>2. DOMAIN arms = 1..Len(arms) /\ Len(arms) \in Nat /\ \A n \in 1..Len(arms) : arms[n] \in Seq(T)
    BY <1>4, LenProperties
  <2>3. arms \in [1..Len(arms) -> Seq(S)]
    <3>1. arms = [n \in 1..Len(arms) |-> arms[n]]
      BY <1>4, <2>2
    <3> QED BY <2>1, <2>2, <3>1
  <2> QED BY <2>2, <2>3
<1>16. ASSUME NEW x \in ToSet(matched), NEW y \in ToSet(matched), RrfScore(arms, x) > RrfScore(arms, y),
             NEW n \in 1..Len(r), n <= FusedTop - RecencySlots, r[n] = y
      PROVE  \E m \in 1..(n - 1) : r[m] = x
  <2>1. /\ Len(r) \in Nat /\ Len(fused0) \in Nat /\ DOMAIN r = 1..Len(r)
        /\ DOMAIN fused0 = 1..Len(fused0)
    BY <1>7, <1>8, LenProperties
  <2>2. FusedTop \in Nat /\ RecencySlots \in Nat
    BY RetrievalAssumption
  <2>3. CASE n <= Len(fused0)
    <3>1. fused0[n] = y /\ n \in 1..Len(fused0)
      BY <1>8, <1>16, <2>1, <2>3
    <3>2. PICK m \in 1..(n - 1) : fused0[m] = x
      BY <1>5, <1>16, <3>1
    <3>3. m \in 1..Len(r) /\ m <= FusedTop - RecencySlots /\ m <= Len(fused0)
      BY <1>16, <2>1, <2>2, <2>3, <3>2
    <3> QED BY <1>8, <3>2, <3>3
  <2>4. CASE ~(n <= Len(fused0))
    <3>1. ToSet(fused0) = ToSet(matched)
      BY <1>5, <1>16, <2>1, <2>2, <2>4
    <3>2. PICK m \in 1..Len(fused0) : fused0[m] = y
      BY <2>1, <3>1 DEF ToSet
    <3>3. m \in 1..Len(r) /\ m <= FusedTop - RecencySlots /\ m # n
      BY <1>16, <2>1, <2>2, <2>4, <3>2
    <3>4. r[m] = y
      BY <1>8, <3>2, <3>3
    <3> QED BY <1>8, <1>16, <2>1, <3>3, <3>4 DEF IsInjective
  <2> QED BY <2>3, <2>4
<1> QED BY <1>3, <1>4, <1>8, <1>9, <1>10, <1>11, <1>12, <1>13, <1>16 DEF q, r, found, S

-----------------------------------------------------------------------------
(* The scored candidates and the pages made of them.                       *)

Ids(list) == {c.id : c \in ToSet(list)}

(* Each candidate once, as the index has it, best first.                   *)
Scoring(list) ==
  /\ list \in Seq(Candidates) /\ IsInjective(list)
  /\ IsInjective([i \in DOMAIN list |-> list[i].id])
  /\ \A i, j \in DOMAIN list : i < j => list[i].score >= list[j].score
  /\ \A c \in ToSet(list) : c.chat = Index[c.id].chat /\ c.start = Index[c.id].start

(* What is scored is what was fused and is still in the index.             *)
LEMMA ScoredList ==
  ASSUME RowsOf(rows), NEW f \in Seq(DOMAIN Index), IsInjective(f), Len(f) <= FusedTop,
         NEW logit \in Bijection(ToSet(f), 1..Len(f))
  PROVE  LET list == RerankCandidates(rows, f, logit)
         IN Scoring(list) /\ Ids(list) = ToSet(f) \cap DOMAIN rows
<1> DEFINE w == Within(f, DOMAIN rows)
           Of(id) == [id |-> id, chat |-> rows[id].chat, start |-> rows[id].start, score |-> logit[id]]
           m == [i \in DOMAIN w |-> Of(w[i])]
           by == [i \in DOMAIN m |-> m[i].score]
           list == Arranged(m, Order(by))
<1>1. RerankCandidates(rows, f, logit) = list
  BY DEF RerankCandidates, SortedBy, Arranged, Mapped
<1>2. /\ w \in Seq(DOMAIN Index) /\ ToSet(w) = ToSet(f) \cap DOMAIN rows /\ IsInjective(w)
      /\ DOMAIN w = 1..Len(w) /\ Len(w) \in Nat
      /\ \A i \in 1..Len(w) : w[i] \in ToSet(w)
  <2>1. w \in Seq(DOMAIN Index) /\ ToSet(w) = ToSet(f) \cap DOMAIN rows /\ IsInjective(w)
    BY WithinList
  <2> HIDE DEF w
  <2> QED BY <2>1, LenProperties DEF ToSet
<1> HIDE DEF w
<1>3. ASSUME NEW id \in ToSet(w)
      PROVE  Of(id) \in Candidates /\ Of(id).id = id /\ Of(id).chat = Index[id].chat
             /\ Of(id).start = Index[id].start /\ Of(id).score \in Int
  <2>1. id \in ToSet(f) /\ id \in DOMAIN rows /\ id \in DOMAIN Index
    BY <1>2 DEF RowsOf
  <2>2. rows[id] = Index[id] /\ Index[id] \in Chunks
    BY <2>1, RelevanceAssumption DEF RowsOf
  <2>3. logit[id] \in 1..Len(f) /\ Len(f) \in Nat
    BY <2>1, LenProperties DEF Bijection, Injection
  <2>4. FusedTop \in Nat
    BY RetrievalAssumption
  <2>5. logit[id] \in 1..FusedTop
    BY <2>3, <2>4
  <2> QED BY <2>1, <2>2, <2>5 DEF Candidates, Chunks
<1> HIDE DEF Of
<1>4. /\ m \in Seq(Candidates) /\ Len(m) = Len(w) /\ DOMAIN m = 1..Len(w)
      /\ \A i \in 1..Len(w) : m[i] = Of(w[i])
  <2>1. m \in [1..Len(w) -> Candidates] /\ DOMAIN m = 1..Len(w)
    BY <1>2, <1>3
  <2> QED BY <1>2, <2>1
<1> HIDE DEF m
<1>5. \A i, j \in 1..Len(w) : m[i].id = m[j].id => i = j
  <2>1. \A i \in 1..Len(w) : m[i].id = w[i]
    BY <1>2, <1>3, <1>4
  <2>2. \A i, j \in 1..Len(w) : w[i] = w[j] => i = j
    BY <1>2 DEF IsInjective
  <2> QED BY <2>1, <2>2
<1>6. ToSet(m) = {Of(id) : id \in ToSet(w)}
  <2>1. ToSet(m) = {m[i] : i \in 1..Len(w)} /\ ToSet(w) = {w[i] : i \in 1..Len(w)}
    BY <1>2, <1>4 DEF ToSet
  <2> QED BY <1>4, <2>1
<1>7. by \in [1..Len(m) -> Int] /\ \A i \in 1..Len(m) : by[i] = m[i].score
  BY <1>2, <1>3, <1>4
<1> HIDE DEF by
<1>8. list \in Seq(Candidates) /\ Len(list) = Len(m) /\ ToSet(list) = ToSet(m)
  BY <1>4, <1>7, SortedList
<1>9. PICK at : /\ Sorts(at, by, Len(m))
                /\ \A p \in 1..Len(m) : at[p] \in 1..Len(m) /\ list[p] = m[at[p]]
  BY <1>4, <1>7, SortedList
<1> HIDE DEF list
<1>10. DOMAIN list = 1..Len(m)
  BY <1>8, LenProperties
<1>11. \A p, q \in 1..Len(m) : p < q => at[p] # at[q] /\ list[p].score >= list[q].score
  <2> SUFFICES ASSUME NEW p \in 1..Len(m), NEW q \in 1..Len(m), p < q
               PROVE  at[p] # at[q] /\ list[p].score >= list[q].score
    OBVIOUS
  <2>1. by[at[p]] > by[at[q]] \/ (by[at[p]] = by[at[q]] /\ at[p] < at[q])
    BY <1>9 DEF Sorts
  <2>2. /\ by[at[p]] = list[p].score /\ by[at[q]] = list[q].score
        /\ by[at[p]] \in Int /\ by[at[q]] \in Int /\ at[p] \in Int /\ at[q] \in Int
    <3>1. Len(m) \in Nat
      BY <1>2, <1>4
    <3> QED BY <1>7, <1>9, <3>1
  <2> QED BY <2>1, <2>2
<1>12. \A p, q \in 1..Len(m) : list[p].id = list[q].id => p = q
  <2> SUFFICES ASSUME NEW p \in 1..Len(m), NEW q \in 1..Len(m), list[p].id = list[q].id
               PROVE  p = q
    OBVIOUS
  <2>1. at[p] = at[q]
    BY <1>4, <1>5, <1>9
  <2>2. ~(p < q) /\ ~(q < p)
    BY <1>11, <2>1
  <2> QED BY <1>2, <1>4, <2>2
<1>13. IsInjective(list) /\ IsInjective([i \in DOMAIN list |-> list[i].id])
  BY <1>10, <1>12 DEF IsInjective
<1>14. ToSet(list) = {Of(id) : id \in ToSet(w)}
  BY <1>6, <1>8
<1>15. \A c \in ToSet(list) : c.chat = Index[c.id].chat /\ c.start = Index[c.id].start
  BY <1>3, <1>14
<1>16. Ids(list) = ToSet(w)
  BY <1>3, <1>14 DEF Ids
<1> QED BY <1>1, <1>2, <1>8, <1>10, <1>11, <1>13, <1>15, <1>16 DEF Scoring

(* The context of a session is of the index.                               *)
LEMMA ContextChunks ==
  ASSUME RowsOf(rows), NEW chat, NEW hits
  PROVE  ContextOf(rows, chat, hits) \in SUBSET DOMAIN Index
<1> DEFINE K == {i \in DOMAIN rows : rows[i].chat = chat}
           at == Ascending(K)
<1>1. K \in SUBSET Nat /\ IsFiniteSet(K) /\ K \subseteq DOMAIN Index
  <2>1. K \subseteq DOMAIN Index
    BY DEF RowsOf
  <2> QED BY <2>1, RelevanceAssumption, FS_Subset
<1> HIDE DEF K
<1>2. at \in [1..Cardinality(K) -> K]
  BY <1>1, AscendingList
<1> HIDE DEF at
<1>3. \A p \in DOMAIN at : at[p] \in DOMAIN Index
  BY <1>1, <1>2
<1> QED BY <1>3 DEF ContextOf, K, at

Pages == [sessions : Seq(Sessions), more : BOOLEAN, ordered : Seq(Sessions)]

(* The sessions of the candidates in the order of all pages, and page n.   *)
Ranked(list) == OrderedSessions(list, SelectHead(list), query.size, Lexical, terms)
PageOf(list, n) ==
  [sessions |-> Mapped(Upto(From(Ranked(list), (n - 1) * query.size), query.size), WithContext),
   more |-> (n - 1) * query.size + query.size < Len(Ranked(list)),
   ordered |-> Ranked(list)]

LEMMA AnswerIsPage ==
  ASSUME NEW list, pages \in Seq(Pages)
  PROVE  Answer(list) = PageOf(list, Len(pages) + 1)
<1>1. Len(pages) \in Nat /\ Len(pages) + 1 - 1 = Len(pages)
  BY LenProperties
<1> QED BY <1>1 DEF Answer, PageOf, Ranked

(* A page is made of at most size sessions of the order, as they are but   *)
(* for the context.                                                        *)
LEMMA PageShape ==
  ASSUME RowsOf(rows), query \in Queries, NEW list, Scoring(list), NEW n \in Nat \ {0}
  PROVE  LET slice == Upto(From(Ranked(list), (n - 1) * query.size), query.size)
             page == PageOf(list, n)
         IN /\ slice \in Seq(Sessions) /\ ToSet(slice) \subseteq ToSet(Ranked(list))
            /\ page \in Pages /\ Len(page.sessions) <= query.size
            /\ Len(page.sessions) = Len(slice)
            /\ \A i \in 1..Len(slice) : /\ page.sessions[i].key = slice[i].key
                                        /\ page.sessions[i].hits = slice[i].hits
            /\ Shown(page) \subseteq Ids(list)
<1> DEFINE o == Ranked(list)
           offset == (n - 1) * query.size
           tail == From(o, offset)
           slice == Upto(tail, query.size)
           sessions == [i \in DOMAIN slice |-> WithContext(slice[i])]
           page == PageOf(list, n)
<1>1. query.size \in Nat /\ n - 1 \in Nat
  BY FindableRankings
<1>2. offset \in Nat
  BY <1>1
<1>3. list \in Seq(Candidates) /\ IsInjective(list)
  BY DEF Scoring
<1>4. /\ o \in Seq(Sessions)
      /\ \A s \in ToSet(o) : ToSet(s.hits) \subseteq Ids(list)
  BY <1>1, <1>3, OrderedSessionsList DEF Ranked, Ids
<1>5. page = [sessions |-> sessions, more |-> offset + query.size < Len(o), ordered |-> o]
  BY DEF PageOf, Mapped
<1> HIDE DEF o, offset
<1>6. tail \in Seq(Sessions) /\ ToSet(tail) \subseteq ToSet(o)
  <2>1. tail \in Seq(Sessions) /\ ToSet(tail) = {o[i] : i \in {i \in 1..Len(o) : i > offset}}
    BY <1>2, <1>4, CutList
  <2>2. DOMAIN o = 1..Len(o)
    BY <1>4, LenProperties
  <2>3. ToSet(o) = {o[i] : i \in 1..Len(o)}
    BY <2>2 DEF ToSet
  <2> HIDE DEF tail
  <2> QED BY <2>1, <2>3
<1> HIDE DEF tail
<1>7. slice \in Seq(Sessions) /\ ToSet(slice) \subseteq ToSet(tail) /\ Len(slice) <= query.size
  BY <1>1, <1>6, CutEntries
<1> HIDE DEF slice
<1>8. DOMAIN slice = 1..Len(slice) /\ Len(slice) \in Nat /\ \A i \in 1..Len(slice) : slice[i] \in Sessions
  BY <1>7, LenProperties
<1>9. \A s \in Sessions : /\ WithContext(s) \in Sessions /\ WithContext(s).key = s.key
                          /\ WithContext(s).hits = s.hits
  <2> SUFFICES ASSUME NEW s \in Sessions
               PROVE  /\ WithContext(s) \in Sessions /\ WithContext(s).key = s.key
                      /\ WithContext(s).hits = s.hits
    OBVIOUS
  <2> DEFINE context == ContextOf(rows, s.key[1], ToSet(s.hits))
  <2>1. context \in SUBSET DOMAIN Index
    BY ContextChunks
  <2>2. WithContext(s) = [s EXCEPT !.context = context]
    BY DEF WithContext
  <2> HIDE DEF context
  <2> QED BY <2>1, <2>2 DEF Sessions
<1>10. /\ sessions \in Seq(Sessions) /\ Len(sessions) = Len(slice) /\ DOMAIN sessions = 1..Len(slice)
       /\ \A i \in 1..Len(slice) : sessions[i] = WithContext(slice[i])
  <2>1. sessions \in [1..Len(slice) -> Sessions] /\ DOMAIN sessions = 1..Len(slice)
    BY <1>8, <1>9
  <2>2. \A i \in 1..Len(slice) : sessions[i] = WithContext(slice[i])
    BY <1>8
  <2> HIDE DEF sessions
  <2> QED BY <1>8, <2>1, <2>2
<1> HIDE DEF sessions
<1>11. (offset + query.size < Len(o)) \in BOOLEAN
  OBVIOUS
<1>12. page.sessions = sessions /\ page \in Pages
  BY <1>4, <1>5, <1>10, <1>11 DEF Pages
<1> HIDE DEF page
<1>13. \A i \in 1..Len(slice) : sessions[i].key = slice[i].key /\ sessions[i].hits = slice[i].hits
  BY <1>8, <1>9, <1>10
<1>14. \A i \in 1..Len(slice) : slice[i] \in ToSet(o)
  BY <1>6, <1>7, <1>8 DEF ToSet
<1>15. Shown(page) \subseteq Ids(list)
  BY <1>4, <1>10, <1>12, <1>13, <1>14 DEF Shown
<1> QED BY <1>6, <1>7, <1>10, <1>12, <1>13, <1>15 DEF page, slice, tail, o, offset

-----------------------------------------------------------------------------
(* The invariant.                                                          *)

Typed ==
  /\ RowsOf(rows) /\ RowsOf(seen) /\ DOMAIN rows \subseteq DOMAIN seen
  /\ phase \in {"idle", "asked", "retrieved", "answered"}
  /\ phase = "idle" => fused = << >> /\ terms = {} /\ scored = Unset /\ pages = << >>
  /\ phase # "idle" => query \in Queries
  /\ fused \in Seq(DOMAIN Index) /\ IsInjective(fused) /\ Len(fused) <= FusedTop
  /\ terms \subseteq DOMAIN Index
  /\ scored # Unset => Scoring(scored)
  /\ pages \in Seq(Pages)

(* Nothing that the filters exclude is on its way.                         *)
Allowed ==
  /\ \A id \in ToSet(fused) : MayAnswer(id, query.filter)
  /\ scored # Unset => \A id \in Ids(scored) : MayAnswer(id, query.filter)
  /\ \A p \in DOMAIN pages : /\ Len(pages[p].sessions) <= query.size
                             /\ \A id \in Shown(pages[p]) : MayAnswer(id, query.filter)

(* Another page is asked for while there are more, of what was scored      *)
(* for the first.                                                          *)
Course ==
  /\ phase = "answered" => pages # << >>
  /\ pages # << >> /\ phase # "answered" => pages[Len(pages)].more
  /\ pages # << >> /\ scored = Unset => ~pages[Len(pages)].more /\ fused = << >>
  /\ scored # Unset => pages # << >>

(* While the index stays, later retrievals find the same and every page is *)
(* a slice of one order.                                                   *)
Steady ==
  rows = seen =>
    /\ phase = "retrieved" \/ pages # << >> =>
         fused = Retrieve(rows, Findable(query)) /\ terms = TermMatches(rows, Findable(query))
    /\ scored # Unset =>
         /\ fused # << >> /\ Ids(scored) = ToSet(fused)
         /\ \A p \in DOMAIN pages : pages[p] = PageOf(scored, p)

(* Whatever becomes of the index, the first page keeps its order.          *)
FirstPage ==
  scored # Unset =>
    \E lexical, found \in SUBSET DOMAIN Index :
      pages[1].ordered = OrderedSessions(scored, SelectHead(scored), query.size, lexical, found)

RelevanceInv == Typed /\ Allowed /\ Course /\ Steady /\ FirstPage

LEMMA InitInv ==
  ASSUME Init
  PROVE  RelevanceInv
<1>1. RowsOf(Index)
  BY RelevanceAssumption DEF RowsOf
<1>2. << >> \in Seq(DOMAIN Index) /\ << >> \in Seq(Pages) /\ Len(<< >>) = 0 /\ FusedTop \in Nat
  BY RetrievalAssumption
<1>3. IsInjective(<< >>) /\ ToSet(<< >>) = {}
  BY DEF IsInjective, ToSet
<1>4. Typed
  BY <1>1, <1>2, <1>3 DEF Init, Typed
<1>5. Allowed /\ Course /\ Steady /\ FirstPage
  BY <1>3 DEF Init, Allowed, Course, Steady, FirstPage
<1> QED BY <1>4, <1>5 DEF RelevanceInv

LEMMA AskStep ==
  ASSUME RelevanceInv, NEW q \in Queries, Ask(q)
  PROVE  RelevanceInv'
<1>1. /\ fused = << >> /\ terms = {} /\ scored = Unset /\ pages = << >>
      /\ query' = q /\ phase' = "asked"
      /\ UNCHANGED <<rows, fused, terms, scored, seen, pages>>
  BY DEF Ask, RelevanceInv, Typed
<1>2. ToSet(<< >>) = {}
  BY DEF ToSet
<1>3. Typed'
  BY <1>1 DEF RelevanceInv, Typed, RowsOf
<1>4. Allowed' /\ Course' /\ FirstPage'
  BY <1>1, <1>2 DEF Allowed, Course, FirstPage
<1>5. Steady'
  BY <1>1 DEF Steady
<1> QED BY <1>3, <1>4, <1>5 DEF RelevanceInv

(* A later retrieval finds the same while the index stays.                 *)
LEMMA RetrieveStep ==
  ASSUME RelevanceInv, RetrieveCandidates
  PROVE  RelevanceInv'
<1>1. /\ phase = "asked" /\ phase' = "retrieved"
      /\ fused' = Retrieve(rows, Findable(query)) /\ terms' = TermMatches(rows, Findable(query))
      /\ seen' = (IF pages = << >> THEN rows ELSE seen)
      /\ UNCHANGED <<rows, query, scored, pages>>
  BY DEF RetrieveCandidates
<1>2. query \in Queries /\ RowsOf(rows) /\ RowsOf(seen) /\ DOMAIN rows \subseteq DOMAIN seen
  BY <1>1 DEF RelevanceInv, Typed
<1>3. /\ fused' \in Seq(DOMAIN rows) /\ IsInjective(fused') /\ Len(fused') <= FusedTop
      /\ ToSet(fused') \subseteq ToSet(Matches) /\ ToSet(Matches) \subseteq DOMAIN rows
      /\ \A id \in ToSet(Matches) : MayAnswer(id, query.filter)
      /\ terms' \subseteq ToSet(Matches)
  BY <1>1, <1>2, RetrieveList
<1>4. fused' \in Seq(DOMAIN Index) /\ terms' \subseteq DOMAIN Index
  <2>1. ToSet(fused') \subseteq DOMAIN Index /\ terms' \subseteq DOMAIN Index
    BY <1>2, <1>3 DEF RowsOf
  <2> QED BY <1>3, <2>1, SeqOfEntries
<1>5. Typed'
  <2>1. RowsOf(rows') /\ RowsOf(seen') /\ DOMAIN rows' \subseteq DOMAIN seen'
    BY <1>1, <1>2
  <2>2. scored' # Unset => Scoring(scored')
    BY <1>1 DEF RelevanceInv, Typed
  <2>3. pages' \in Seq(Pages)
    BY <1>1 DEF RelevanceInv, Typed
  <2> QED BY <1>1, <1>2, <1>3, <1>4, <2>1, <2>2, <2>3 DEF Typed
<1>6. Allowed'
  <2>1. \A id \in ToSet(fused') : MayAnswer(id, query.filter)
    BY <1>3
  <2> QED BY <1>1, <2>1 DEF RelevanceInv, Allowed, MayAnswer, Shown, Ids
<1>7. Course'
  BY <1>1 DEF RelevanceInv, Course
<1>8. Steady'
  <2> SUFFICES ASSUME rows' = seen' PROVE
        /\ fused' = Retrieve(rows', Findable(query)') /\ terms' = TermMatches(rows', Findable(query)')
        /\ scored' # Unset =>
             /\ fused' # << >> /\ Ids(scored)' = ToSet(fused')
             /\ \A p \in DOMAIN pages' : pages'[p] = PageOf(scored, p)'
    BY DEF Steady
  <2>1. Findable(query)' = Findable(query)
    BY <1>1 DEF Findable, Mapped
  <2>2. CASE scored = Unset
    BY <1>1, <2>1, <2>2
  <2>3. CASE scored # Unset
    <3>1. pages # << >> /\ rows = seen
      BY <1>1, <2>3 DEF RelevanceInv, Course
    <3>2. fused' = fused /\ terms' = terms
      BY <1>1, <3>1 DEF RelevanceInv, Steady
    <3>3. fused # << >> /\ Ids(scored) = ToSet(fused)
      BY <2>3, <3>1 DEF RelevanceInv, Steady
    <3>4. \A p \in DOMAIN pages : pages[p] = PageOf(scored, p)
      BY <2>3, <3>1 DEF RelevanceInv, Steady
    <3>5. \A p \in DOMAIN pages : PageOf(scored, p)' = PageOf(scored, p)
      BY <1>1, <2>1, <3>2 DEF PageOf, Ranked, Lexical, WithContext, Mapped
    <3>6. Ids(scored)' = Ids(scored)
      BY <1>1 DEF Ids
    <3> QED BY <1>1, <2>1, <3>2, <3>3, <3>4, <3>5, <3>6
  <2> QED BY <2>2, <2>3
<1>9. FirstPage'
  BY <1>1 DEF RelevanceInv, FirstPage
<1> QED BY <1>5, <1>6, <1>7, <1>8, <1>9 DEF RelevanceInv

(* A page is added.                                                        *)
LEMMA PageAdded ==
  ASSUME pages \in Seq(Pages), NEW page \in Pages, pages' = Append(pages, page)
  PROVE  /\ pages' \in Seq(Pages) /\ pages' # << >> /\ pages'[Len(pages')] = page
         /\ Len(pages) \in Nat /\ Len(pages') = Len(pages) + 1
         /\ DOMAIN pages' = 1..(Len(pages) + 1) /\ DOMAIN pages = 1..Len(pages)
         /\ \A p \in DOMAIN pages' : \/ p \in DOMAIN pages /\ pages'[p] = pages[p]
                                     \/ p = Len(pages) + 1 /\ pages'[p] = page
<1>1. pages' \in Seq(Pages) /\ Len(pages') = Len(pages) + 1 /\ Len(pages) \in Nat
  BY AppendProperties, LenProperties
<1>2. DOMAIN pages' = 1..(Len(pages) + 1) /\ DOMAIN pages = 1..Len(pages)
  BY <1>1, LenProperties
<1>3. /\ \A p \in 1..Len(pages) : pages'[p] = pages[p]
      /\ pages'[Len(pages) + 1] = page
  BY AppendProperties
<1>4. pages' # << >>
  BY <1>1
<1> QED BY <1>1, <1>2, <1>3, <1>4

LEMMA AnswerStep ==
  ASSUME RelevanceInv, RerankAndAnswer
  PROVE  RelevanceInv'
<1>1. PICK logit \in IF scored # Unset THEN {Unset} ELSE Bijection(ToSet(fused), 1..Len(fused)) :
        /\ scored' = (IF scored # Unset THEN scored ELSE RerankCandidates(rows, fused, logit))
        /\ pages' = Append(pages, Answer(scored'))
  BY DEF RerankAndAnswer
<1>2. /\ phase = "retrieved" /\ fused # << >> /\ phase' = "answered"
      /\ UNCHANGED <<rows, query, fused, terms, seen>>
  BY DEF RerankAndAnswer
<1>3. /\ query \in Queries /\ RowsOf(rows) /\ pages \in Seq(Pages)
      /\ fused \in Seq(DOMAIN Index) /\ IsInjective(fused) /\ Len(fused) <= FusedTop
  BY <1>2 DEF RelevanceInv, Typed
<1>4. scored = Unset => Scoring(scored') /\ Ids(scored') = ToSet(fused) \cap DOMAIN rows
  BY <1>1, <1>3, ScoredList
<1>5. Scoring(scored') /\ \A id \in Ids(scored') : MayAnswer(id, query.filter)
  <2>1. scored # Unset => Scoring(scored) /\ \A id \in Ids(scored) : MayAnswer(id, query.filter)
    BY DEF RelevanceInv, Typed, Allowed
  <2>2. \A id \in ToSet(fused) : MayAnswer(id, query.filter)
    BY DEF RelevanceInv, Allowed
  <2> QED BY <1>1, <1>4, <2>1, <2>2
<1> DEFINE list == scored'
           n == Len(pages) + 1
           page == PageOf(list, n)
<1>6. pages' = Append(pages, page) /\ n \in Nat \ {0}
  <2>1. Answer(list) = page
    BY <1>3, AnswerIsPage
  <2>2. Len(pages) \in Nat
    BY <1>3, LenProperties
  <2> QED BY <1>1, <2>1, <2>2
<1>7. /\ page \in Pages /\ Len(page.sessions) <= query.size
      /\ Shown(page) \subseteq Ids(list)
  BY <1>3, <1>5, <1>6, PageShape
<1>8. /\ pages' \in Seq(Pages) /\ pages' # << >> /\ pages'[Len(pages')] = page
      /\ Len(pages) \in Nat /\ DOMAIN pages = 1..Len(pages)
      /\ \A p \in DOMAIN pages' : \/ p \in DOMAIN pages /\ pages'[p] = pages[p]
                                  \/ p = Len(pages) + 1 /\ pages'[p] = page
      /\ 1 \in DOMAIN pages'
  <2> HIDE DEF page
  <2>1. /\ pages' \in Seq(Pages) /\ pages' # << >> /\ pages'[Len(pages')] = page
        /\ Len(pages) \in Nat /\ DOMAIN pages = 1..Len(pages) /\ DOMAIN pages' = 1..(Len(pages) + 1)
        /\ \A p \in DOMAIN pages' : \/ p \in DOMAIN pages /\ pages'[p] = pages[p]
                                    \/ p = Len(pages) + 1 /\ pages'[p] = page
    BY <1>3, <1>6, <1>7, PageAdded
  <2> QED BY <2>1
<1>9. Typed'
  BY <1>2, <1>5, <1>8 DEF RelevanceInv, Typed, RowsOf
<1>10. Allowed'
  <2>1. \A p \in DOMAIN pages : /\ Len(pages[p].sessions) <= query.size
                                /\ \A id \in Shown(pages[p]) : MayAnswer(id, query.filter)
    BY DEF RelevanceInv, Allowed
  <2>2. \A id \in Shown(page) : MayAnswer(id, query.filter)
    BY <1>5, <1>7
  <2>3. \A id \in ToSet(fused) : MayAnswer(id, query.filter)
    BY DEF RelevanceInv, Allowed
  <2> HIDE DEF page
  <2>4. \A p \in DOMAIN pages' : /\ Len(pages'[p].sessions) <= query.size
                                 /\ \A id \in Shown(pages'[p]) : MayAnswer(id, query.filter)
    BY <1>7, <1>8, <2>1, <2>2
  <2> QED BY <1>2, <1>5, <2>3, <2>4 DEF Allowed, Ids
<1>11. Course'
  <2>1. scored' # Unset
    <3>1. scored' \in Seq(Candidates)
      BY <1>5 DEF Scoring
    <3> QED BY <3>1, RelevanceAssumption
  <2> QED BY <1>2, <1>8, <2>1 DEF Course
<1>12. Steady'
  <2> SUFFICES ASSUME rows = seen PROVE
        /\ fused = Retrieve(rows, Findable(query)) /\ terms = TermMatches(rows, Findable(query))
        /\ Ids(list) = ToSet(fused)
        /\ \A p \in DOMAIN pages' : pages'[p] = PageOf(scored, p)'
    <3>1. Findable(query)' = Findable(query)
      BY <1>2 DEF Findable, Mapped
    <3> QED BY <1>2, <3>1 DEF Steady, Ids
  <2>1. fused = Retrieve(rows, Findable(query)) /\ terms = TermMatches(rows, Findable(query))
    BY <1>2 DEF RelevanceInv, Steady
  <2>2. Ids(list) = ToSet(fused)
    <3>1. CASE scored = Unset
      <4>1. fused \in Seq(DOMAIN rows)
        BY <1>3, <2>1, RetrieveList
      <4>2. ToSet(fused) \subseteq DOMAIN rows
        BY <4>1, LenProperties DEF ToSet
      <4> QED BY <1>4, <3>1, <4>2
    <3>2. CASE scored # Unset
      BY <1>1, <3>2 DEF RelevanceInv, Steady
    <3> QED BY <3>1, <3>2
  <2>3. \A p \in DOMAIN pages : pages[p] = PageOf(list, p)
    <3>1. CASE scored = Unset
      <4>1. ~pages[Len(pages)].more \/ pages = << >>
        BY <3>1 DEF RelevanceInv, Course
      <4>2. pages = << >>
        BY <1>2, <4>1 DEF RelevanceInv, Course
      <4> QED BY <1>8, <4>2
    <3>2. CASE scored # Unset
      BY <1>1, <3>2 DEF RelevanceInv, Steady
    <3> QED BY <3>1, <3>2
  <2>4. \A p \in DOMAIN pages' : pages'[p] = PageOf(list, p)
    BY <1>8, <2>3
  <2>5. \A p \in DOMAIN pages' : PageOf(scored, p)' = PageOf(list, p)
    <3>1. Lexical' = Lexical
      BY <1>2 DEF Lexical, Findable
    <3> QED BY <1>2, <3>1 DEF PageOf, Ranked, WithContext, Mapped
  <2> QED BY <2>1, <2>2, <2>4, <2>5
<1>13. FirstPage'
  <2>1. CASE scored = Unset
    <3>1. ~pages[Len(pages)].more \/ pages = << >>
      BY <2>1 DEF RelevanceInv, Course
    <3>2. pages = << >>
      BY <1>2, <3>1 DEF RelevanceInv, Course
    <3>3. pages'[1] = page
      BY <1>8, <3>2
    <3>4. page.ordered = OrderedSessions(list, SelectHead(list), query.size, Lexical, terms)
      BY DEF PageOf, Ranked
    <3>5. Lexical \in SUBSET DOMAIN Index /\ terms \in SUBSET DOMAIN Index
      BY <1>3, LenProperties DEF Lexical, ToSet, RelevanceInv, Typed
    <3> HIDE DEF page, list
    <3> QED BY <1>2, <3>3, <3>4, <3>5 DEF FirstPage, list
  <2>2. CASE scored # Unset
    <3>1. pages # << >> /\ scored' = scored
      BY <1>1, <2>2 DEF RelevanceInv, Course
    <3>2. 1 \in DOMAIN pages
      BY <1>3, <1>8, <3>1, EmptyList
    <3>3. pages'[1] = pages[1]
      BY <1>8, <3>2
    <3> QED BY <1>2, <2>2, <3>1, <3>3 DEF RelevanceInv, FirstPage
  <2> QED BY <2>1, <2>2
<1> QED BY <1>9, <1>10, <1>11, <1>12, <1>13 DEF RelevanceInv

LEMMA NothingStep ==
  ASSUME RelevanceInv, AnswerNothing
  PROVE  RelevanceInv'
<1> DEFINE page == [sessions |-> << >>, more |-> FALSE, ordered |-> << >>]
<1>1. /\ phase = "retrieved" /\ fused = << >> /\ phase' = "answered"
      /\ pages' = Append(pages, page)
      /\ UNCHANGED <<rows, query, fused, terms, scored, seen>>
  BY DEF AnswerNothing
<1>2. query \in Queries /\ pages \in Seq(Pages)
  BY <1>1 DEF RelevanceInv, Typed
<1>3. page \in Pages /\ ~page.more /\ page.sessions = << >> /\ Len(page.sessions) = 0 /\ Shown(page) = {}
  BY DEF Pages, Shown
<1>4. query.size \in Nat
  BY <1>2, FindableRankings
<1> HIDE DEF page
<1>5. /\ pages' \in Seq(Pages) /\ pages' # << >> /\ pages'[Len(pages')] = page
      /\ Len(pages) \in Nat /\ DOMAIN pages = 1..Len(pages)
      /\ \A p \in DOMAIN pages' : \/ p \in DOMAIN pages /\ pages'[p] = pages[p]
                                  \/ p = Len(pages) + 1 /\ pages'[p] = page
      /\ 1 \in DOMAIN pages'
  <2>1. /\ pages' \in Seq(Pages) /\ pages' # << >> /\ pages'[Len(pages')] = page
        /\ Len(pages) \in Nat /\ DOMAIN pages = 1..Len(pages) /\ DOMAIN pages' = 1..(Len(pages) + 1)
        /\ \A p \in DOMAIN pages' : \/ p \in DOMAIN pages /\ pages'[p] = pages[p]
                                    \/ p = Len(pages) + 1 /\ pages'[p] = page
    BY <1>1, <1>2, <1>3, PageAdded
  <2> QED BY <2>1
<1>6. Typed'
  BY <1>1, <1>5 DEF RelevanceInv, Typed, RowsOf, Scoring
<1>7. Allowed'
  <2>1. \A p \in DOMAIN pages : /\ Len(pages[p].sessions) <= query.size
                                /\ \A id \in Shown(pages[p]) : MayAnswer(id, query.filter)
    BY DEF RelevanceInv, Allowed
  <2>2. \A p \in DOMAIN pages' : /\ Len(pages'[p].sessions) <= query.size
                                 /\ \A id \in Shown(pages'[p]) : MayAnswer(id, query.filter)
    BY <1>3, <1>4, <1>5, <2>1
  <2>3. \A id \in ToSet(fused) : MayAnswer(id, query.filter)
    BY DEF RelevanceInv, Allowed
  <2>4. scored # Unset => \A id \in Ids(scored) : MayAnswer(id, query.filter)
    BY DEF RelevanceInv, Allowed
  <2> QED BY <1>1, <2>2, <2>3, <2>4 DEF Allowed, Ids
<1>8. Course'
  BY <1>1, <1>3, <1>5 DEF Course
<1>9. Steady'
  <2>1. Findable(query)' = Findable(query)
    BY <1>1 DEF Findable, Mapped
  <2>2. rows = seen => scored = Unset
    BY <1>1 DEF RelevanceInv, Steady
  <2> QED BY <1>1, <2>1, <2>2 DEF RelevanceInv, Steady
<1>10. FirstPage'
  <2> SUFFICES ASSUME scored # Unset
               PROVE  pages'[1] = pages[1]
    BY <1>1 DEF RelevanceInv, FirstPage
  <2>1. 1 \in DOMAIN pages
    BY <1>2, <1>5, EmptyList DEF RelevanceInv, Course
  <2> QED BY <1>5, <2>1
<1> QED BY <1>6, <1>7, <1>8, <1>9, <1>10 DEF RelevanceInv

LEMMA MoreStep ==
  ASSUME RelevanceInv, AskMore
  PROVE  RelevanceInv'
<1>1. /\ phase = "answered" /\ phase' = "asked" /\ pages[Len(pages)].more
      /\ UNCHANGED <<rows, query, fused, terms, scored, seen, pages>>
  BY DEF AskMore
<1>2. Typed' /\ Allowed' /\ Course' /\ FirstPage'
  <2>1. Typed'
    BY <1>1 DEF RelevanceInv, Typed, RowsOf, Scoring
  <2>2. Allowed'
    BY <1>1 DEF RelevanceInv, Allowed, Ids, Shown, MayAnswer
  <2>3. Course' /\ FirstPage'
    BY <1>1 DEF RelevanceInv, Course, FirstPage
  <2> QED BY <2>1, <2>2, <2>3
<1>3. Steady'
  <2>1. Lexical' = Lexical /\ Findable(query)' = Findable(query)
    BY <1>1 DEF Lexical, Findable, Mapped
  <2>2. \A p \in DOMAIN pages : PageOf(scored, p)' = PageOf(scored, p)
    BY <1>1, <2>1 DEF PageOf, Ranked, WithContext, Mapped
  <2>3. pages # << >>
    BY <1>1 DEF RelevanceInv, Course
  <2> QED BY <1>1, <2>1, <2>2, <2>3 DEF RelevanceInv, Steady, Ids
<1> QED BY <1>2, <1>3 DEF RelevanceInv

(* A chunk is gone: from now on the index is not what the first page was   *)
(* made from.                                                              *)
LEMMA PruneStep ==
  ASSUME RelevanceInv, Prune
  PROVE  RelevanceInv'
<1>1. PICK id \in DOMAIN rows : rows' = Restrict(rows, DOMAIN rows \ {id})
  BY DEF Prune
<1>2. UNCHANGED <<query, phase, fused, terms, scored, seen, pages>>
  BY DEF Prune
<1>3. RowsOf(rows) /\ RowsOf(seen) /\ DOMAIN rows \subseteq DOMAIN seen
  BY DEF RelevanceInv, Typed
<1>4. rows' = [i \in DOMAIN rows \ {id} |-> rows[i]]
  BY <1>1 DEF Restrict
<1>5. DOMAIN rows' = DOMAIN rows \ {id} /\ \A i \in DOMAIN rows' : rows'[i] = Index[i]
  BY <1>3, <1>4 DEF RowsOf
<1>6. RowsOf(rows')
  BY <1>3, <1>4, <1>5 DEF RowsOf
<1>7. DOMAIN rows' \subseteq DOMAIN seen' /\ rows' # seen'
  BY <1>2, <1>3, <1>5
<1>8. RowsOf(seen')
  BY <1>2, <1>3
<1>9. Typed'
  BY <1>2, <1>6, <1>7, <1>8 DEF RelevanceInv, Typed, Scoring
<1>10. Allowed' /\ Course' /\ FirstPage'
  BY <1>2 DEF RelevanceInv, Allowed, Course, FirstPage, Ids, Shown, MayAnswer
<1>11. Steady'
  BY <1>7 DEF Steady
<1> QED BY <1>9, <1>10, <1>11 DEF RelevanceInv

LEMMA StutterStep ==
  ASSUME RelevanceInv, UNCHANGED vars
  PROVE  RelevanceInv'
<1>1. UNCHANGED <<rows, query, phase, fused, terms, scored, seen, pages>>
  BY DEF vars
<1>2. Typed' /\ Allowed' /\ Course' /\ FirstPage'
  <2>1. Typed'
    BY <1>1 DEF RelevanceInv, Typed, RowsOf, Scoring
  <2>2. Allowed'
    BY <1>1 DEF RelevanceInv, Allowed, Ids, Shown, MayAnswer
  <2>3. Course' /\ FirstPage'
    BY <1>1 DEF RelevanceInv, Course, FirstPage
  <2> QED BY <2>1, <2>2, <2>3
<1>3. Steady'
  <2>1. Lexical' = Lexical /\ Findable(query)' = Findable(query)
    BY <1>1 DEF Lexical, Findable, Mapped
  <2>2. \A p \in DOMAIN pages : PageOf(scored, p)' = PageOf(scored, p)
    BY <1>1, <2>1 DEF PageOf, Ranked, WithContext, Mapped
  <2> QED BY <1>1, <2>1, <2>2 DEF RelevanceInv, Steady, Ids
<1> QED BY <1>2, <1>3 DEF RelevanceInv

(* The invariant of the search.                                            *)
THEOREM SearchAlways == Spec => []RelevanceInv
<1>1. Init => RelevanceInv
  BY InitInv
<1>2. RelevanceInv /\ [Next]_vars => RelevanceInv'
  <2> SUFFICES ASSUME RelevanceInv, [Next]_vars PROVE RelevanceInv'
    OBVIOUS
  <2>1. ASSUME NEW q \in Queries, Ask(q) PROVE RelevanceInv'
    BY <2>1, AskStep
  <2>2. CASE RetrieveCandidates
    BY <2>2, RetrieveStep
  <2>3. CASE RerankAndAnswer
    BY <2>3, AnswerStep
  <2>4. CASE AnswerNothing
    BY <2>4, NothingStep
  <2>5. CASE AskMore
    BY <2>5, MoreStep
  <2>6. CASE Prune
    BY <2>6, PruneStep
  <2>7. CASE UNCHANGED vars
    BY <2>7, StutterStep
  <2> QED BY <2>1, <2>2, <2>3, <2>4, <2>5, <2>6, <2>7 DEF Next
<1> QED BY <1>1, <1>2, PTL DEF Spec

-----------------------------------------------------------------------------
(* What the invariant says of a search.                                    *)

(* Lists of candidates name each chunk once and keep their limits.         *)
THEOREM RelevanceTyped == Spec => []RelevanceTypeOK
<1>1. RelevanceInv => RelevanceTypeOK
  <2> SUFFICES ASSUME RelevanceInv PROVE RelevanceTypeOK
    OBVIOUS
  <2>1. ToSet(fused) \subseteq DOMAIN Index
    <3>1. fused \in Seq(DOMAIN Index)
      BY DEF RelevanceInv, Typed
    <3> QED BY <3>1, LenProperties DEF ToSet
  <2>2. scored # Unset => /\ IsInjective([i \in DOMAIN scored |-> scored[i].id])
                          /\ \A i, j \in DOMAIN scored : i < j => scored[i].score >= scored[j].score
    BY DEF RelevanceInv, Typed, Scoring
  <2>3. \A p \in DOMAIN pages : Len(pages[p].sessions) <= query.size
    BY DEF RelevanceInv, Allowed
  <2> QED BY <2>1, <2>2, <2>3 DEF RelevanceInv, Typed, RelevanceTypeOK, RowsOf, Mapped
<1> QED BY <1>1, SearchAlways, PTL

(* The filters hold of all candidates and of every hit that is shown.      *)
THEOREM CandidatesOnlyAlways == Spec => []CandidatesOnly
<1>1. RelevanceInv => CandidatesOnly
  BY DEF RelevanceInv, Allowed, CandidatesOnly
<1> QED BY <1>1, SearchAlways, PTL

(* Slices of the sessions and of their keys.                               *)
LEMMA KeysOfSlice ==
  ASSUME NEW o \in Seq(Sessions), NEW offset \in Nat, NEW size \in Nat
  PROVE  LET keys == [i \in DOMAIN o |-> o[i].key]
             slice == Upto(From(o, offset), size)
         IN /\ keys \in Seq(Keys) /\ Len(keys) = Len(o)
            /\ slice \in Seq(Sessions)
            /\ Upto(From(keys, offset), size) = [i \in 1..Len(slice) |-> slice[i].key]
<1> DEFINE keys == [i \in DOMAIN o |-> o[i].key]
           tail == From(o, offset)
           slice == Upto(tail, size)
           keyTail == From(keys, offset)
           keySlice == Upto(keyTail, size)
<1>1. DOMAIN o = 1..Len(o) /\ Len(o) \in Nat /\ \A i \in 1..Len(o) : o[i] \in Sessions
  BY LenProperties
<1>2. keys \in Seq(Keys) /\ Len(keys) = Len(o) /\ \A i \in 1..Len(o) : keys[i] = o[i].key
  <2>1. \A i \in 1..Len(o) : o[i].key \in Keys
    BY <1>1 DEF Sessions
  <2>2. keys \in [1..Len(o) -> Keys] /\ DOMAIN keys = 1..Len(o)
    BY <1>1, <2>1
  <2>3. \A i \in 1..Len(o) : keys[i] = o[i].key
    BY <1>1
  <2> HIDE DEF keys
  <2> QED BY <1>1, <2>2, <2>3
<1> HIDE DEF keys
<1>3. /\ tail \in Seq(Sessions) /\ Len(tail) = (IF offset <= Len(o) THEN Len(o) - offset ELSE 0)
      /\ \A i \in 1..Len(tail) : tail[i] = o[offset + i]
      /\ keyTail \in Seq(Keys) /\ Len(keyTail) = (IF offset <= Len(keys) THEN Len(keys) - offset ELSE 0)
      /\ \A i \in 1..Len(keyTail) : keyTail[i] = keys[offset + i]
  BY <1>2, CutList
<1> HIDE DEF tail, keyTail
<1>4. /\ slice \in Seq(Sessions) /\ Len(slice) = (IF size <= Len(tail) THEN size ELSE Len(tail))
      /\ \A i \in 1..Len(slice) : slice[i] = tail[i]
      /\ keySlice \in Seq(Keys) /\ Len(keySlice) = (IF size <= Len(keyTail) THEN size ELSE Len(keyTail))
      /\ \A i \in 1..Len(keySlice) : keySlice[i] = keyTail[i]
  BY <1>3, CutList
<1> HIDE DEF slice, keySlice
<1>5. Len(tail) \in Nat /\ Len(keyTail) = Len(tail) /\ Len(slice) \in Nat /\ Len(keySlice) = Len(slice)
      /\ Len(slice) <= Len(tail)
  <2>1. Len(o) \in Nat /\ Len(keys) = Len(o)
    BY <1>1, <1>2
  <2>2. /\ Len(tail) = (IF offset <= Len(o) THEN Len(o) - offset ELSE 0)
        /\ Len(keyTail) = (IF offset <= Len(keys) THEN Len(keys) - offset ELSE 0)
    BY <1>3
  <2>3. /\ Len(slice) = (IF size <= Len(tail) THEN size ELSE Len(tail))
        /\ Len(keySlice) = (IF size <= Len(keyTail) THEN size ELSE Len(keyTail))
    BY <1>4
  <2>4. Len(tail) \in Nat /\ Len(keyTail) = Len(tail)
    BY <2>1, <2>2
  <2> QED BY <2>3, <2>4
<1>6. ASSUME NEW i \in 1..Len(slice) PROVE keySlice[i] = slice[i].key
  <2>1. i \in 1..Len(keySlice) /\ i \in 1..Len(tail) /\ i \in 1..Len(keyTail)
    BY <1>5
  <2>2. offset + i \in 1..Len(o)
    <3>1. Len(tail) = (IF offset <= Len(o) THEN Len(o) - offset ELSE 0) /\ Len(o) \in Nat
      BY <1>1, <1>3
    <3>2. i \in Nat /\ 1 <= i /\ i <= Len(tail)
      BY <1>5, <2>1
    <3> QED BY <3>1, <3>2
  <2> QED BY <1>2, <1>3, <1>4, <2>1, <2>2
<1>7. DOMAIN keySlice = 1..Len(slice)
  BY <1>4, <1>5, LenProperties
<1>8. keySlice = [i \in 1..Len(keySlice) |-> keySlice[i]]
  BY <1>4, LenProperties
<1>9. keySlice = [i \in 1..Len(slice) |-> slice[i].key]
  BY <1>5, <1>6, <1>8
<1> QED BY <1>2, <1>4, <1>9 DEF keys, slice, tail, keySlice, keyTail

(* While the index stays, the pages together list every session of the     *)
(* scored candidates once.                                                 *)
THEOREM PagesOnceAlways == Spec => []PagesOnce
<1> SUFFICES ASSUME RelevanceInv PROVE PagesOnce
  BY SearchAlways, PTL
<1> SUFFICES ASSUME phase = "answered", rows = seen, scored # Unset, ~pages[Len(pages)].more
             PROVE  LET shown == Joined(Mapped(pages, LAMBDA p : Mapped(p.sessions, LAMBDA s : s.key)))
                    IN IsInjective(shown) /\ ToSet(shown) = {KeyOf(c) : c \in ToSet(scored)}
  BY DEF PagesOnce
<1> DEFINE o == Ranked(scored)
           keys == [i \in DOMAIN o |-> o[i].key]
           size == query.size
           lists == [n \in DOMAIN pages |-> [i \in DOMAIN pages[n].sessions |-> pages[n].sessions[i].key]]
<1>1. query \in Queries /\ RowsOf(rows) /\ Scoring(scored) /\ pages \in Seq(Pages) /\ pages # << >>
  BY DEF RelevanceInv, Typed, Course
<1>2. \A p \in DOMAIN pages : pages[p] = PageOf(scored, p)
  BY DEF RelevanceInv, Steady
<1>3. size \in Nat /\ DOMAIN pages = 1..Len(pages) /\ Len(pages) \in Nat /\ Len(pages) > 0
  BY <1>1, FindableRankings, LenProperties, EmptyList
<1>4. /\ o \in Seq(Sessions) /\ IsInjective(o)
      /\ \A s, t \in ToSet(o) : s.key = t.key => s = t
      /\ {s.key : s \in ToSet(o)} = {KeyOf(c) : c \in ToSet(scored)}
  <2>1. o = OrderedSessions(scored, SelectHead(scored), size, Lexical, terms)
    BY DEF Ranked
  <2>2. scored \in Seq(Candidates) /\ IsInjective(scored)
    BY <1>1 DEF Scoring
  <2> HIDE DEF o, size
  <2> QED BY <1>3, <2>1, <2>2, OrderedSessionsList
<1> HIDE DEF size
<1>5. ~((Len(pages) - 1) * size + size < Len(o))
  <2>1. Len(pages) \in DOMAIN pages
    BY <1>3
  <2>2. ~PageOf(scored, Len(pages)).more
    BY <1>2, <2>1
  <2>3. PageOf(scored, Len(pages)).more = ((Len(pages) - 1) * size + size < Len(o))
    BY DEF PageOf, size
  <2> QED BY <2>2, <2>3
<1>6. ASSUME NEW n \in 1..Len(pages)
      PROVE  /\ (n - 1) * size \in Nat
             /\ lists[n] = Upto(From(keys, (n - 1) * size), size)
             /\ lists[n] \in Seq(Keys)
  <2> DEFINE offset == (n - 1) * size
             slice == Upto(From(o, offset), size)
  <2>1. n \in DOMAIN pages /\ n \in Nat \ {0}
    BY <1>3
  <2>2. n - 1 \in Nat
    BY <2>1
  <2>3. offset \in Nat
    BY <1>3, <2>2
  <2>4. /\ PageOf(scored, n) \in Pages /\ Len(PageOf(scored, n).sessions) = Len(slice)
        /\ \A i \in 1..Len(slice) : PageOf(scored, n).sessions[i].key = slice[i].key
    BY <1>1, <2>1, PageShape DEF size
  <2> HIDE DEF offset, o
  <2>5. /\ keys \in Seq(Keys) /\ slice \in Seq(Sessions)
        /\ Upto(From(keys, offset), size) = [i \in 1..Len(slice) |-> slice[i].key]
    BY <1>3, <1>4, <2>3, KeysOfSlice
  <2>6. DOMAIN pages[n].sessions = 1..Len(slice)
    <3>1. pages[n].sessions \in Seq(Sessions)
      BY <1>2, <2>1, <2>4 DEF Pages
    <3> HIDE DEF slice
    <3> QED BY <1>2, <2>1, <2>4, <3>1, LenProperties
  <2>7. lists[n] = [i \in 1..Len(slice) |-> slice[i].key]
    <3> HIDE DEF slice
    <3> QED BY <1>2, <2>1, <2>4, <2>6
  <2>8. Upto(From(keys, offset), size) \in Seq(Keys)
    <3> HIDE DEF keys
    <3>1. From(keys, offset) \in Seq(Keys)
      BY <2>3, <2>5, CutList
    <3> QED BY <1>3, <3>1, CutList
  <2>9. lists[n] = Upto(From(keys, offset), size)
    BY <2>5, <2>7
  <2> HIDE DEF lists, keys, slice
  <2> QED BY <2>3, <2>8, <2>9 DEF offset
<1>7. /\ keys \in Seq(Keys) /\ Len(keys) = Len(o) /\ Len(o) \in Nat /\ DOMAIN o = 1..Len(o)
      /\ DOMAIN keys = 1..Len(o) /\ \A i \in 1..Len(o) : keys[i] = o[i].key
  <2>1. 0 \in Nat
    OBVIOUS
  <2> HIDE DEF o
  <2>2. keys \in Seq(Keys) /\ Len(keys) = Len(o)
    BY <1>3, <1>4, <2>1, KeysOfSlice
  <2> QED BY <1>4, <2>2, LenProperties
<1> HIDE DEF o
<1>8. IsInjective(keys) /\ ToSet(keys) = {s.key : s \in ToSet(o)}
  <2>1. ToSet(o) = {o[i] : i \in 1..Len(o)} /\ ToSet(keys) = {keys[i] : i \in 1..Len(o)}
    BY <1>7 DEF ToSet
  <2>2. \A i, j \in 1..Len(o) : keys[i] = keys[j] => i = j
    <3> SUFFICES ASSUME NEW i \in 1..Len(o), NEW j \in 1..Len(o), keys[i] = keys[j] PROVE i = j
      OBVIOUS
    <3>1. o[i] \in ToSet(o) /\ o[j] \in ToSet(o) /\ o[i].key = o[j].key
      BY <1>7, <2>1
    <3>2. o[i] = o[j]
      BY <1>4, <3>1
    <3> QED BY <1>4, <1>7, <3>2 DEF IsInjective
  <2> HIDE DEF keys
  <2>3. IsInjective(keys)
    BY <1>7, <2>2 DEF IsInjective
  <2>4. ToSet(keys) = {s.key : s \in ToSet(o)}
    BY <1>7, <2>1
  <2> QED BY <2>3, <2>4
<1> HIDE DEF keys
<1>9. lists \in Seq(Seq(Keys)) /\ Len(lists) = Len(pages)
  <2>1. \A n \in 1..Len(pages) : lists[n] \in Seq(Keys)
    BY <1>6
  <2>2. DOMAIN lists = 1..Len(pages)
    BY <1>3
  <2>3. lists = [n \in 1..Len(pages) |-> lists[n]]
    BY <1>3
  <2> HIDE DEF lists
  <2>4. lists \in [1..Len(pages) -> Seq(Keys)]
    BY <2>1, <2>3
  <2> DEFINE Y == Seq(Keys)
  <2>5. lists \in [1..Len(pages) -> Y]
    BY <2>4
  <2> HIDE DEF Y
  <2>6. lists \in Seq(Y) /\ Len(lists) = Len(pages)
    BY <1>3, <2>2, <2>5
  <2> QED BY <2>6 DEF Y
<1>10. Joined(Mapped(pages, LAMBDA p : Mapped(p.sessions, LAMBDA s : s.key))) = Joined(lists)
  BY DEF Mapped
<1> HIDE DEF lists
<1>11. Joined(lists) = Upto(keys, Len(pages) * size)
  <2>1. \A n \in 1..Len(lists) : lists[n] = Upto(From(keys, (n - 1) * size), size)
    BY <1>6, <1>9
  <2>2. Joined(lists) = Upto(keys, Len(lists) * size)
    BY <1>3, <1>7, <1>9, <2>1, PagesJoined
  <2> QED BY <1>9, <2>2
<1>12. Len(pages) * size \in Nat /\ Len(pages) * size >= Len(keys)
  <2>1. (Len(pages) - 1) * size + size = Len(pages) * size
    BY <1>3
  <2>2. Len(pages) * size \in Nat
    BY <1>3
  <2> QED BY <1>5, <1>7, <2>1, <2>2
<1>13. Joined(lists) = keys
  BY <1>7, <1>11, <1>12, CutList
<1> QED BY <1>4, <1>8, <1>10, <1>13

(* The first page: the sessions of the cut, from the best on as many as    *)
(* the share leaves, and the one with the first claim.                     *)
LEMMA FirstPageOrder ==
  ASSUME NEW chunks, Scoring(chunks), NEW size \in Nat \ {0}, NEW lexical, NEW found
  PROVE  LET ranked == SelectHead(chunks)
             o == OrderedSessions(chunks, ranked, size, lexical, found)
         IN \E list :
              /\ Groups(list, ranked, lexical, found) /\ Falls(list)
              /\ \A s \in ToSet(o) : s.key \in {KeyOf(c) : c \in ToSet(ranked)} <=> s \in ToSet(list)
              /\ ToSet(list) \subseteq ToSet(o) /\ o \in Seq(Sessions)
              /\ \A i \in 1..Len(list) :
                   i <= Share(size, SessionRecent) => list[i] \in ToSet(Upto(o, size))
              /\ SessionRecent > 0 =>
                   \A s \in ToSet(list) :
                     (\A t \in ToSet(list) \ {s} : Claim(t) < Claim(s)) => s \in ToSet(Upto(o, size))
<1> DEFINE ranked == SelectHead(chunks)
           o == OrderedSessions(chunks, ranked, size, lexical, found)
           head == OrderSessions(ranked, size, SessionRecent, lexical, found)
<1>1. chunks \in Seq(Candidates) /\ IsInjective(chunks) /\ size \in Nat /\ SessionRecent \in Nat
  BY RankingAssumption DEF Scoring
<1>2. ranked \in Seq(Candidates)
  BY <1>1, SelectHeadList
<1>3. /\ o \in Seq(Sessions)
      /\ \A s \in ToSet(o) : s.key \in {KeyOf(c) : c \in ToSet(ranked)} <=> s \in ToSet(head)
      /\ ToSet(head) \subseteq ToSet(o)
      /\ ToSet(Upto(head, size)) \subseteq ToSet(Upto(o, size))
  BY <1>1, OrderedSessionsList
<1> HIDE DEF ranked, o
<1>4. PICK list : /\ Groups(list, ranked, lexical, found) /\ Falls(list)
                  /\ head = ReserveSessions(list, size, SessionRecent)
  BY <1>2, OrderSessionsList
<1>5. list \in Seq(Sessions) /\ IsInjective(list)
  BY <1>4 DEF Groups
<1> HIDE DEF head
<1>6. /\ ToSet(head) = ToSet(list)
      /\ \A i \in 1..Len(list) : i <= Share(size, SessionRecent) => list[i] \in ToSet(Upto(head, size))
      /\ SessionRecent > 0 =>
           \A s \in ToSet(list) :
             (\A t \in ToSet(list) \ {s} : Claim(t) < Claim(s)) => s \in ToSet(Upto(head, size))
  <2> DEFINE r == ReserveSessions(list, size, SessionRecent)
  <2>1. size > 0
    OBVIOUS
  <2>2. /\ ToSet(r) = ToSet(list)
        /\ \A i \in 1..Len(list) : i <= Share(size, SessionRecent) => list[i] \in ToSet(Upto(r, size))
        /\ size > 0 /\ SessionRecent > 0 =>
             \A s \in ToSet(list) :
               (\A t \in ToSet(list) \ {s} : Claim(t) < Claim(s)) => s \in ToSet(Upto(r, size))
    BY <1>1, <1>5, ReserveSessionsList
  <2>3. r = head
    BY <1>4
  <2> HIDE DEF r
  <2> QED BY <2>1, <2>2, <2>3
<1>7. \A i \in 1..Len(list) : i <= Share(size, SessionRecent) => list[i] \in ToSet(Upto(o, size))
  BY <1>3, <1>6
<1>8. SessionRecent > 0 =>
        \A s \in ToSet(list) :
          (\A t \in ToSet(list) \ {s} : Claim(t) < Claim(s)) => s \in ToSet(Upto(o, size))
  BY <1>3, <1>6
<1>9. /\ \A s \in ToSet(o) : s.key \in {KeyOf(c) : c \in ToSet(ranked)} <=> s \in ToSet(list)
      /\ ToSet(list) \subseteq ToSet(o) /\ o \in Seq(Sessions)
  BY <1>3, <1>6
<1> QED BY <1>4, <1>7, <1>8, <1>9 DEF ranked, o

(* The entries of a list are finitely many, and n different ones are at    *)
(* least n.                                                                *)
LEMMA CountEntries ==
  ASSUME NEW X, NEW s \in Seq(X), NEW t \in Seq(X), IsInjective(t),
         NEW n \in 0..Len(t), NEW S \in SUBSET ToSet(s), \A i \in 1..n : t[i] \in S
  PROVE  IsFiniteSet(S) /\ n <= Cardinality(S)
<1>1. DOMAIN s = 1..Len(s) /\ Len(s) \in Nat /\ DOMAIN t = 1..Len(t) /\ Len(t) \in Nat
  BY LenProperties
<1>2. IsFiniteSet(1..Len(s)) /\ n \in Nat
  BY <1>1, FirstNumbers
<1>3. s \in Surjection(1..Len(s), ToSet(s))
  <2>1. s = [i \in 1..Len(s) |-> s[i]] /\ ToSet(s) = {s[i] : i \in 1..Len(s)}
    BY <1>1, LenProperties DEF ToSet
  <2>2. s \in [1..Len(s) -> ToSet(s)]
    BY <2>1
  <2> QED BY <2>1, <2>2 DEF Surjection
<1>4. IsFiniteSet(ToSet(s))
  BY <1>2, <1>3, FS_Surjection
<1>5. IsFiniteSet(S)
  BY <1>4, FS_Subset
<1> DEFINE f == [i \in 1..n |-> t[i]]
<1>6. f \in Injection(1..n, S)
  <2>1. f \in [1..n -> S] /\ DOMAIN f = 1..n
    OBVIOUS
  <2>2. \A i, j \in 1..n : f[i] = f[j] => i = j
    BY <1>1, <1>2 DEF IsInjective
  <2> HIDE DEF f
  <2> QED BY <2>1, <2>2 DEF Injection, IsInjective
<1>7. Cardinality(1..n) <= Cardinality(S)
  BY <1>5, <1>6, FS_Injection
<1> QED BY <1>2, <1>5, <1>7, FirstNumbers

(* Recency displaces from the first page only what the share leaves out,   *)
(* whatever becomes of the index.                                          *)
THEOREM RecencyTakesItsShareAlways == Spec => []RecencyTakesItsShare
<1> SUFFICES ASSUME RelevanceInv PROVE RecencyTakesItsShare
  BY SearchAlways, PTL
<1> DEFINE o == pages[1].ordered
           size == query.size
           keep == size - Min({SessionRecent, Max({1, size \div 3})})
           rankedKeys == {KeyOf(c) : c \in ToSet(SelectHead(scored))}
           Better(s) == {t \in ToSet(o) \ {s} : t.key \in rankedKeys /\ t.score >= s.score}
<1> SUFFICES ASSUME phase = "answered", scored # Unset, NEW s \in ToSet(o),
                    s.key \in rankedKeys, Cardinality(Better(s)) < keep
             PROVE  s \in ToSet(Upto(o, size))
  BY DEF RecencyTakesItsShare
<1>1. query \in Queries /\ Scoring(scored)
  BY DEF RelevanceInv, Typed
<1>2. size \in Nat \ {0} /\ SessionRecent \in Nat
  BY <1>1, FindableRankings, RankingAssumption
<1>3. keep = Share(size, SessionRecent) /\ keep \in Nat
  <2>1. size > 0
    BY <1>2
  <2> HIDE DEF size
  <2> QED BY <1>2, <2>1, ShareBounds
<1>4. PICK lexical \in SUBSET DOMAIN Index, found \in SUBSET DOMAIN Index :
        o = OrderedSessions(scored, SelectHead(scored), size, lexical, found)
  BY DEF RelevanceInv, FirstPage
<1> HIDE DEF o, size, keep
<1>5. PICK list :
        /\ Groups(list, SelectHead(scored), lexical, found) /\ Falls(list)
        /\ \A t \in ToSet(o) : t.key \in rankedKeys <=> t \in ToSet(list)
        /\ ToSet(list) \subseteq ToSet(o) /\ o \in Seq(Sessions)
        /\ \A i \in 1..Len(list) : i <= Share(size, SessionRecent) => list[i] \in ToSet(Upto(o, size))
  BY <1>1, <1>2, <1>4, FirstPageOrder
<1>6. list \in Seq(Sessions) /\ IsInjective(list)
  BY <1>5 DEF Groups
<1>7. /\ DOMAIN list = 1..Len(list) /\ Len(list) \in Nat
      /\ ToSet(list) = {list[i] : i \in 1..Len(list)}
  BY <1>6, LenProperties DEF ToSet
<1>8. PICK i \in 1..Len(list) : s = list[i]
  BY <1>5, <1>7
<1>9. i <= keep
  <2> SUFFICES ASSUME ~(i <= keep) PROVE FALSE
    OBVIOUS
  <2>1. keep \in 0..Len(list) /\ \A j \in 1..keep : j \in 1..Len(list) /\ j < i
    BY <1>3, <1>7
  <2>2. \A j \in 1..keep : list[j] \in Better(s)
    <3> SUFFICES ASSUME NEW j \in 1..keep PROVE list[j] \in Better(s)
      OBVIOUS
    <3>1. j \in 1..Len(list) /\ j < i /\ j # i
      BY <1>3, <2>1
    <3>2. list[j] \in ToSet(list) /\ list[j] # s
      BY <1>6, <1>7, <1>8, <3>1 DEF IsInjective
    <3>3. list[j].score >= s.score
      BY <1>5, <1>8, <3>1 DEF Falls
    <3>4. list[j] \in ToSet(o) /\ list[j].key \in rankedKeys
      BY <1>5, <3>2
    <3> QED BY <3>2, <3>3, <3>4
  <2>3. Better(s) \in SUBSET ToSet(o)
    OBVIOUS
  <2> HIDE DEF Better
  <2>4. IsFiniteSet(Better(s)) /\ keep <= Cardinality(Better(s))
    BY <1>5, <1>6, <2>1, <2>2, <2>3, CountEntries
  <2>5. Cardinality(Better(s)) \in Nat
    BY <2>4, FS_CardinalityType
  <2> QED BY <1>3, <2>4, <2>5
<1> QED BY <1>3, <1>5, <1>8, <1>9

(* Places are reserved at every stage, as in retrieve.py and rank.py.      *)
SlotsReserved ==
  FusedTop > 0 /\ RecencySlots > 0 /\ RerankTop > 0 /\ RerankRecent > 0 /\ SessionRecent > 0

(* Of the sessions in the cut, the newest that has the words is on the     *)
(* first page.                                                             *)
THEOREM WordsBeatMereRecencyAlways ==
  ASSUME SessionRecent > 0
  PROVE  Spec => []WordsBeatMereRecency
<1> SUFFICES ASSUME RelevanceInv PROVE WordsBeatMereRecency
  BY SearchAlways, PTL
<1> DEFINE o == pages[1].ordered
           size == query.size
           grouped == {KeyOf(c) : c \in ToSet(SelectHead(scored))}
           matching == {s \in ToSet(o) : s.key \in grouped /\ ToSet(s.hits) \cap (terms \cup Lexical) # {}}
<1> SUFFICES ASSUME Len(pages) = 1, phase = "answered", rows = seen, scored # Unset,
                    NEW s \in matching, \A t \in matching \ {s} : t.latest < s.latest
             PROVE  s \in ToSet(Upto(o, size))
  BY DEF WordsBeatMereRecency
<1>1. query \in Queries /\ Scoring(scored) /\ pages \in Seq(Pages)
  BY DEF RelevanceInv, Typed
<1>2. size \in Nat \ {0}
  BY <1>1, FindableRankings
<1>3. o = OrderedSessions(scored, SelectHead(scored), size, Lexical, terms)
  <2>1. 1 \in DOMAIN pages
    BY <1>1, LenProperties
  <2>2. pages[1] = PageOf(scored, 1)
    BY <2>1 DEF RelevanceInv, Steady
  <2> QED BY <2>2 DEF PageOf, Ranked
<1> HIDE DEF o, size
<1>4. PICK list :
        /\ Groups(list, SelectHead(scored), Lexical, terms)
        /\ \A t \in ToSet(o) : t.key \in grouped <=> t \in ToSet(list)
        /\ ToSet(list) \subseteq ToSet(o)
        /\ \A r \in ToSet(list) :
             (\A t \in ToSet(list) \ {r} : Claim(t) < Claim(r)) => r \in ToSet(Upto(o, size))
  BY <1>1, <1>2, <1>3, FirstPageOrder
<1>5. \A t \in ToSet(list) :
        /\ t \in Sessions /\ t.key \in grouped
        /\ t.matches <=> ToSet(t.hits) \cap (terms \cup Lexical) # {}
  <2> SUFFICES ASSUME NEW t \in ToSet(list)
               PROVE  /\ t \in Sessions /\ t.key \in grouped
                      /\ t.matches <=> ToSet(t.hits) \cap (terms \cup Lexical) # {}
    OBVIOUS
  <2>1. list \in Seq(Sessions) /\ Tells(t, SelectHead(scored), Lexical, terms)
    BY <1>4 DEF Groups
  <2>2. t \in Sessions
    BY <2>1, LenProperties DEF ToSet
  <2>3. /\ t.key \in grouped
        /\ ToSet(t.hits) = {c.id : c \in Own(SelectHead(scored), t.key)}
        /\ t.matches <=> \E c \in Own(SelectHead(scored), t.key) : c.id \in Lexical \cup terms
    BY <2>1 DEF Tells
  <2>4. ToSet(t.hits) \cap (terms \cup Lexical) # {}
        <=> \E c \in Own(SelectHead(scored), t.key) : c.id \in Lexical \cup terms
    BY <2>3
  <2> QED BY <2>2, <2>3, <2>4
<1>6. s \in ToSet(list) /\ s.matches
  BY <1>4, <1>5
<1>7. ASSUME NEW t \in ToSet(list) \ {s} PROVE Claim(t) < Claim(s)
  <2>1. t.matches => t.latest < s.latest
    BY <1>4, <1>5
  <2> QED BY <1>5, <1>6, <2>1, ClaimOrder
<1> QED BY <1>4, <1>6, <1>7

(* While places are reserved at every stage, no cut drops the newest of    *)
(* all matches if it has the words.                                        *)
THEOREM NewestMatchOnFirstPageAlways ==
  ASSUME SlotsReserved
  PROVE  Spec => []NewestMatchOnFirstPage
<1> SUFFICES ASSUME RelevanceInv PROVE NewestMatchOnFirstPage
  BY SearchAlways, PTL
<1> SUFFICES ASSUME Len(pages) = 1, phase = "answered", rows = seen, NEW id \in terms,
                    \A other \in ToSet(Matches) \ {id} : rows[other].start < rows[id].start
             PROVE  id \in Shown(pages[1])
  BY DEF NewestMatchOnFirstPage
<1> DEFINE size == query.size
           ranked == SelectHead(scored)
           o == OrderedSessions(scored, ranked, size, Lexical, terms)
<1>1. query \in Queries /\ RowsOf(rows) /\ pages \in Seq(Pages) /\ pages # << >>
  BY DEF RelevanceInv, Typed, Course
<1>2. size \in Nat \ {0}
  BY <1>1, FindableRankings
<1>3. /\ ToSet(fused) \subseteq ToSet(Matches) /\ ToSet(Matches) \subseteq DOMAIN rows
      /\ id \in ToSet(fused)
  <2>1. fused = Retrieve(rows, Findable(query)) /\ terms = TermMatches(rows, Findable(query))
    BY <1>1 DEF RelevanceInv, Steady
  <2>2. /\ ToSet(fused) \subseteq ToSet(Matches) /\ ToSet(Matches) \subseteq DOMAIN rows
        /\ terms \subseteq ToSet(Matches)
        /\ \A x \in ToSet(Matches) :
             (\A y \in ToSet(Matches) \ {x} : rows[y].start < rows[x].start) => x \in ToSet(fused)
    BY <1>1, <2>1, RetrieveList DEF SlotsReserved
  <2> QED BY <2>2
<1>4. scored # Unset /\ Scoring(scored) /\ Ids(scored) = ToSet(fused) /\ pages[1] = PageOf(scored, 1)
  <2>1. scored # Unset
    BY <1>1, <1>3 DEF RelevanceInv, Course, ToSet
  <2>2. 1 \in DOMAIN pages
    BY <1>1, LenProperties
  <2> QED BY <2>1, <2>2 DEF RelevanceInv, Typed, Steady
<1>5. PICK c \in ToSet(scored) : c.id = id
  BY <1>3, <1>4 DEF Ids
<1>6. \A d \in ToSet(scored) \ {c} : d.start < c.start
  <2> SUFFICES ASSUME NEW d \in ToSet(scored) \ {c} PROVE d.start < c.start
    OBVIOUS
  <2>1. d.id # id
    <3>1. IsInjective([i \in DOMAIN scored |-> scored[i].id])
      BY <1>4 DEF Scoring
    <3> QED BY <1>5, <3>1 DEF IsInjective, ToSet
  <2>2. d.id \in ToSet(Matches) /\ d.id \in DOMAIN rows /\ id \in DOMAIN rows
    BY <1>3, <1>4 DEF Ids
  <2>3. rows[d.id].start < rows[id].start
    BY <2>1, <2>2
  <2>4. d.start = Index[d.id].start /\ c.start = Index[id].start
    BY <1>4, <1>5 DEF Scoring
  <2>5. rows[d.id] = Index[d.id] /\ rows[id] = Index[id]
    BY <1>1, <2>2 DEF RowsOf
  <2> QED BY <2>3, <2>4, <2>5
<1>7. ranked \in Seq(Candidates) /\ ToSet(ranked) \subseteq ToSet(scored) /\ c \in ToSet(ranked)
  <2>1. scored \in Seq(Candidates) /\ IsInjective(scored)
    BY <1>4 DEF Scoring
  <2> QED BY <1>5, <1>6, <2>1, SelectHeadList DEF SlotsReserved
<1>8. PICK list :
        /\ Groups(list, ranked, Lexical, terms)
        /\ ToSet(list) \subseteq ToSet(o) /\ o \in Seq(Sessions)
        /\ \A r \in ToSet(list) :
             (\A t \in ToSet(list) \ {r} : Claim(t) < Claim(r)) => r \in ToSet(Upto(o, size))
  BY <1>2, <1>4, FirstPageOrder DEF SlotsReserved
<1> HIDE DEF o, ranked, size
<1>9. PICK s \in ToSet(list) : s.key = KeyOf(c)
  BY <1>7, <1>8 DEF Groups
<1>10. \A t \in ToSet(list) : t \in Sessions /\ Tells(t, ranked, Lexical, terms)
  <2>1. list \in Seq(Sessions)
    BY <1>8 DEF Groups
  <2>2. \A t \in ToSet(list) : t \in Sessions
    BY <2>1, LenProperties DEF ToSet
  <2> QED BY <1>8, <2>2 DEF Groups
<1>11. s.matches /\ id \in ToSet(s.hits) /\ c.start <= s.latest
  <2>1. c \in Own(ranked, s.key)
    BY <1>7, <1>9 DEF Own
  <2>2. /\ ToSet(s.hits) = {d.id : d \in Own(ranked, s.key)}
        /\ \A d \in Own(ranked, s.key) : d.start <= s.latest
        /\ s.matches <=> \E d \in Own(ranked, s.key) : d.id \in Lexical \cup terms
    BY <1>10 DEF Tells
  <2> QED BY <1>5, <2>1, <2>2
<1>12. ASSUME NEW t \in ToSet(list) \ {s} PROVE Claim(t) < Claim(s)
  <2>1. t.key # s.key
    BY <1>8 DEF Groups
  <2>2. PICK d \in Own(ranked, t.key) : d.start = t.latest
    BY <1>10 DEF Tells
  <2>3. d \in ToSet(scored) \ {c}
    BY <1>7, <1>9, <2>1, <2>2 DEF Own
  <2>4. t.latest < c.start
    BY <1>6, <2>2, <2>3
  <2>5. t.latest \in Nat /\ s.latest \in Nat /\ c.start \in Nat
    <3>1. c \in Candidates
      BY <1>7, LenProperties DEF ToSet
    <3> QED BY <1>10, <3>1, RelevanceAssumption DEF Sessions, Candidates
  <2>6. t.latest < s.latest
    BY <1>11, <2>4, <2>5
  <2> QED BY <1>10, <1>11, <2>6, ClaimOrder
<1>13. s \in ToSet(Upto(o, size))
  BY <1>8, <1>12
<1> DEFINE slice == Upto(From(Ranked(scored), (1 - 1) * query.size), query.size)
<1>14. slice = Upto(o, size) /\ slice \in Seq(Sessions)
  <2>1. Ranked(scored) = o
    BY DEF Ranked, o, ranked, size
  <2>2. (1 - 1) * query.size = 0
    BY <1>2 DEF size
  <2>3. From(o, 0) = o
    <3>1. From(o, 0) \in Seq(Sessions) /\ Len(From(o, 0)) = Len(o) /\ Len(o) \in Nat
          /\ \A i \in 1..Len(o) : From(o, 0)[i] = o[i]
      BY <1>8, CutList
    <3> QED BY <1>8, <3>1, LenProperties
  <2>4. Upto(o, size) \in Seq(Sessions)
    BY <1>2, <1>8, CutList
  <2> QED BY <2>1, <2>2, <2>3, <2>4 DEF size
<1>15. /\ Len(pages[1].sessions) = Len(slice) /\ pages[1] \in Pages
       /\ \A i \in 1..Len(slice) : pages[1].sessions[i].hits = slice[i].hits
  <2>1. 1 \in Nat \ {0}
    OBVIOUS
  <2> QED BY <1>1, <1>4, <2>1, PageShape
<1> HIDE DEF slice
<1>16. PICK i \in 1..Len(slice) : slice[i] = s
  <2>1. DOMAIN slice = 1..Len(slice)
    BY <1>14, LenProperties
  <2> QED BY <1>13, <1>14, <2>1 DEF ToSet
<1>17. i \in DOMAIN pages[1].sessions /\ pages[1].sessions[i].hits = s.hits
  <2>1. pages[1].sessions \in Seq(Sessions)
    BY <1>15 DEF Pages
  <2>2. DOMAIN pages[1].sessions = 1..Len(slice)
    BY <1>15, <2>1, LenProperties
  <2> QED BY <1>15, <1>16, <2>2
<1> QED BY <1>11, <1>17 DEF Shown

(* The arms settle more than any slot: where reciprocal ranks guarantee    *)
(* it, a chunk that two arms found is before one that a single arm found.  *)
(* The unit of the scores is fine enough for the constant of the ranks.    *)
THEOREM TwoArmsOutvoteOneAlways ==
  ASSUME (2 * RrfK + 1) * (2 * RrfK + 1) <= Unit
  PROVE  Spec => []TwoArmsOutvoteOne
<1> SUFFICES ASSUME RelevanceInv PROVE TwoArmsOutvoteOne
  BY SearchAlways, PTL
<1> DEFINE arms == QueryArms
           FoundBy(id) == {n \in DOMAIN arms : Contains(arms[n], id)}
           InReach(id) == \A n \in FoundBy(id) : \E r \in DOMAIN arms[n] : arms[n][r] = id /\ r < RrfK + 2
           best == Upto(fused, FusedTop - RecencySlots)
<1> SUFFICES ASSUME phase = "retrieved", rows = seen,
                    NEW a \in ToSet(Matches), NEW b \in ToSet(Matches),
                    Cardinality(FoundBy(a)) > 1, InReach(a), Cardinality(FoundBy(b)) = 1,
                    NEW n \in DOMAIN best, best[n] = b
             PROVE  \E m \in 1..(n - 1) : best[m] = a
  BY DEF TwoArmsOutvoteOne, Matches, QueryArms
<1>1. query \in Queries /\ RowsOf(rows) /\ fused = Retrieve(rows, Findable(query))
  BY DEF RelevanceInv, Typed, Steady
<1>2. /\ fused \in Seq(DOMAIN rows) /\ arms \in Seq(Seq(DOMAIN rows))
      /\ \A i \in DOMAIN arms : IsInjective(arms[i])
      /\ RrfScore(arms, a) > RrfScore(arms, b) =>
           \A i \in 1..Len(fused) : i <= FusedTop - RecencySlots /\ fused[i] = b =>
             \E m \in 1..(i - 1) : fused[m] = a
  BY <1>1, RetrieveList
<1> HIDE DEF arms
<1>3. /\ DOMAIN arms = 1..Len(arms) /\ Len(arms) \in Nat
      /\ \A i \in 1..Len(arms) : arms[i] \in Seq(DOMAIN rows)
  BY <1>2, LenProperties
<1>4. ASSUME NEW i \in DOMAIN arms, NEW id PROVE Contains(arms[i], id) <=> id \in ToSet(arms[i])
  <2>1. DOMAIN arms[i] = 1..Len(arms[i])
    BY <1>3, LenProperties
  <2> QED BY <2>1 DEF Contains, ToSet
<1>5. IsFiniteSet(FoundBy(a)) /\ IsFiniteSet(FoundBy(b)) /\ FoundBy(a) \subseteq DOMAIN arms
  <2>1. IsFiniteSet(DOMAIN arms)
    BY <1>3, FirstNumbers
  <2>2. FoundBy(a) \in SUBSET DOMAIN arms /\ FoundBy(b) \in SUBSET DOMAIN arms
    OBVIOUS
  <2> HIDE DEF FoundBy
  <2> QED BY <2>1, <2>2, FS_Subset
<1>6. PICK i \in FoundBy(a), j \in FoundBy(a) : i < j
  <2>1. \E i, j \in FoundBy(a) : i # j
    <3> DEFINE F == FoundBy(a)
    <3>1. IsFiniteSet(F) /\ Cardinality(F) > 1
      BY <1>5
    <3> HIDE DEF FoundBy, F
    <3>2. F # {}
      BY <3>1, FS_EmptySet
    <3>3. PICK x : x \in F
      BY <3>2
    <3>4. F # {x}
      BY <3>1, FS_Singleton
    <3> QED BY <3>3, <3>4 DEF F
  <2> QED BY <1>3, <1>5, <2>1
<1>7. PICK o : FoundBy(b) = {o}
  <2> DEFINE F == FoundBy(b)
  <2>1. IsFiniteSet(F) /\ Cardinality(F) = 1
    BY <1>5
  <2> HIDE DEF FoundBy, F
  <2> QED BY <2>1, FS_Singleton DEF F
<1>8. RrfK \in Nat /\ Unit \in Nat
  <2>1. Unit \in Nat
    BY SMT DEF Unit
  <2> QED BY <2>1, RetrievalAssumption
<1>20. PICK w : Shares(w, arms, a)
  BY <1>2, RrfShares
<1>21. PICK v : Shares(v, arms, b)
  BY <1>2, RrfShares
<1>9. /\ w \in Seq(Nat) /\ Len(w) = Len(arms) /\ RrfScore(arms, a) = Total(w)
      /\ \A k \in 1..Len(arms) : a \in ToSet(arms[k]) =>
           \E r \in DOMAIN arms[k] :
             arms[k][r] = a /\ r \in Nat /\ r > 0 /\ w[k] = Unit \div (RrfK + r)
  BY <1>20 DEF Shares
<1>10. /\ v \in Seq(Nat) /\ Len(v) = Len(arms) /\ RrfScore(arms, b) = Total(v)
       /\ \A k \in 1..Len(arms) : b \notin ToSet(arms[k]) => v[k] = 0
       /\ \A k \in 1..Len(arms) : b \in ToSet(arms[k]) =>
            \E r \in DOMAIN arms[k] :
              arms[k][r] = b /\ r \in Nat /\ r > 0 /\ v[k] = Unit \div (RrfK + r)
  BY <1>21 DEF Shares
<1>11. ASSUME NEW k \in FoundBy(a)
       PROVE  /\ k \in 1..Len(w)
              /\ \E r \in 1..(RrfK + 1) : w[k] = Unit \div (RrfK + r)
  <2>1. k \in 1..Len(arms) /\ a \in ToSet(arms[k])
    BY <1>3, <1>4
  <2>2. PICK r \in DOMAIN arms[k] : arms[k][r] = a /\ r < RrfK + 2
    OBVIOUS
  <2>3. PICK s \in DOMAIN arms[k] :
          arms[k][s] = a /\ s \in Nat /\ s > 0 /\ w[k] = Unit \div (RrfK + s)
    BY <1>9, <2>1
  <2>4. s = r
    BY <1>2, <1>3, <2>1, <2>2, <2>3 DEF IsInjective
  <2>5. s \in 1..(RrfK + 1)
    BY <1>8, <2>2, <2>3, <2>4
  <2> QED BY <1>9, <2>1, <2>3, <2>5
<1>12. o \in 1..Len(v) /\ \E r \in Nat : r > 0 /\ v[o] = Unit \div (RrfK + r)
  <2>1. o \in 1..Len(arms) /\ b \in ToSet(arms[o])
    BY <1>3, <1>4, <1>7
  <2> QED BY <1>10, <2>1
<1>13. Total(v) = v[o]
  <2>1. \A k \in 1..Len(v) : k # o => v[k] = 0
    <3> SUFFICES ASSUME NEW k \in 1..Len(v), k # o PROVE v[k] = 0
      OBVIOUS
    <3>1. k \in DOMAIN arms /\ k \notin FoundBy(b)
      BY <1>3, <1>7, <1>10
    <3>2. b \notin ToSet(arms[k])
      BY <1>4, <3>1
    <3> QED BY <1>3, <1>10, <3>1, <3>2
  <2> QED BY <1>10, <1>12, <2>1, TotalList
<1> HIDE DEF FoundBy, InReach
<1>14. Total(w) >= w[i] + w[j]
  BY <1>6, <1>9, <1>11, TotalList
<1>15. w[i] + w[j] > v[o]
  <2>1. PICK p \in 1..(RrfK + 1), q \in 1..(RrfK + 1) :
          w[i] = Unit \div (RrfK + p) /\ w[j] = Unit \div (RrfK + q)
    BY <1>6, <1>11
  <2>2. PICK r \in Nat : r > 0 /\ v[o] = Unit \div (RrfK + r)
    BY <1>12
  <2> QED BY <1>8, <2>1, <2>2, TwoSharesExceedOne
<1>16. RrfScore(arms, a) > RrfScore(arms, b)
  <2>1. Total(w) \in Nat /\ w[i] \in Nat /\ w[j] \in Nat /\ v[o] \in Nat
    <3>1. \A s \in Seq(Nat) : Total(s) \in Nat /\ \A k \in 1..Len(s) : s[k] \in Nat
      BY TotalList, LenProperties
    <3>2. i \in 1..Len(w) /\ j \in 1..Len(w) /\ o \in 1..Len(v)
      BY <1>6, <1>11, <1>12
    <3> QED BY <1>9, <1>10, <3>1, <3>2
  <2> QED BY <1>9, <1>10, <1>13, <1>14, <1>15, <2>1
<1> DEFINE c == FusedTop - RecencySlots
<1>17. c \in Int /\ Len(fused) \in Nat
  BY <1>2, RetrievalAssumption, LenProperties
<1>18. CASE c \in Nat
  <2> HIDE DEF c
  <2>1. /\ DOMAIN Upto(fused, c) = 1..Len(Upto(fused, c))
        /\ Len(Upto(fused, c)) \in Nat /\ Len(Upto(fused, c)) <= c
        /\ Len(Upto(fused, c)) <= Len(fused)
        /\ \A k \in 1..Len(Upto(fused, c)) : Upto(fused, c)[k] = fused[k]
    BY <1>2, <1>17, <1>18, CutList, LenProperties
  <2>2. best = Upto(fused, c)
    BY DEF c
  <2> HIDE DEF best
  <2>3. n \in 1..Len(fused) /\ n <= c /\ fused[n] = b /\ n <= Len(Upto(fused, c))
    BY <1>17, <1>18, <2>1, <2>2
  <2>4. PICK m \in 1..(n - 1) : fused[m] = a
    BY <1>2, <1>16, <2>3 DEF c
  <2>5. m \in 1..Len(Upto(fused, c))
    BY <1>17, <2>1, <2>3, <2>4
  <2> QED BY <2>1, <2>2, <2>4, <2>5
<1>19. CASE c \notin Nat
  <2>1. Min({c, Len(fused)}) = c /\ c < 0
    <3> HIDE DEF c
    <3> QED BY <1>17, <1>19, MinOfTwo
  <2>2. DOMAIN best = 1..c
    <3>1. best = SubSeq(fused, 1, c)
      BY <2>1 DEF Upto
    <3>2. \A l \in Int : l < 0 => DOMAIN SubSeq(fused, 1, l) = 1..l
      BY <1>2 DEF SubSeq
    <3> HIDE DEF c, best
    <3> QED BY <1>17, <2>1, <3>1, <3>2
  <2> HIDE DEF best, c
  <2>3. FALSE
    BY <1>17, <2>1, <2>2
  <2> QED BY <2>3
<1> QED BY <1>18, <1>19
=============================================================================
