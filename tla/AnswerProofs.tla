----------------------------- MODULE AnswerProofs -----------------------------
(***************************************************************************)
(* A search without words, for all constants.                              *)
(*                                                                         *)
(* First what the operators of hydration return for any lists of sessions, *)
(* and what a row of the chunks table says of its messages; then the       *)
(* invariant of the search, step by step.                                  *)
(***************************************************************************)
EXTENDS Answer, ListingProofs

-----------------------------------------------------------------------------
(* Lists of ROWIDs.                                                        *)

(* The date of a message is one of the known times, a natural number.      *)
LEMMA Dated ==
  ASSUME NEW m \in Arrivals
  PROVE  m.ts \in DOMAIN Day /\ m.ts \in Nat /\ m.ts \in Int
  BY AnswerAssumption

(* Numbers in their order, each once.                                      *)
LEMMA NumbersList ==
  ASSUME NEW K \in SUBSET Nat, IsFiniteSet(K)
  PROVE  LET at == Ascending(K)
         IN /\ at \in Seq(K) /\ Len(at) = Cardinality(K) /\ Cardinality(K) \in Nat
            /\ ToSet(at) = K /\ IsInjective(at)
<1> DEFINE at == Ascending(K)
           c == Cardinality(K)
<1>1. /\ c \in Nat /\ at \in [1..c -> K] /\ at \in Seq(K) /\ Len(at) = c
      /\ \A k \in K : \E p \in 1..c : at[p] = k
      /\ \A p, q \in 1..c : p < q => at[p] < at[q]
  BY AscendingList
<1> HIDE DEF at, c
<1>2. DOMAIN at = 1..c /\ \A p \in 1..c : at[p] \in K
  BY <1>1
<1>3. ToSet(at) = K
  BY <1>1, <1>2 DEF ToSet
<1>4. IsInjective(at)
  <2> SUFFICES ASSUME NEW p \in 1..c, NEW q \in 1..c, at[p] = at[q] PROVE p = q
    BY <1>2 DEF IsInjective
  <2>1. at[p] \in Nat
    BY <1>2
  <2>2. ~(p < q) /\ ~(q < p)
    BY <1>1, <2>1
  <2> QED BY <1>1, <2>2
<1> QED BY <1>1, <1>3, <1>4 DEF at, c

(* Some of the ROWIDs of a message table are finitely many numbers.        *)
LEMMA RowsOfTable ==
  ASSUME NEW msgs \in Seq(Arrivals), NEW K \in SUBSET (DOMAIN msgs)
  PROVE  K \in SUBSET Nat /\ IsFiniteSet(K)
<1>1. DOMAIN msgs = 1..Len(msgs) /\ Len(msgs) \in Nat
  BY LenProperties
<1>2. IsFiniteSet(1..Len(msgs))
  BY <1>1, FirstNumbers
<1>3. IsFiniteSet(K)
  BY <1>1, <1>2, FS_Subset
<1> QED BY <1>1, <1>3

(* Sorting by date, either way, loses and doubles nothing.                 *)
LEMMA NewestList ==
  ASSUME NEW msgs \in Seq(Arrivals), NEW ids \in Seq(DOMAIN msgs)
  PROVE  LET t == NewestFirst(msgs, ids)
         IN /\ t \in Seq(DOMAIN msgs) /\ Len(t) = Len(ids) /\ ToSet(t) = ToSet(ids)
            /\ IsInjective(ids) => IsInjective(t)
            /\ \A p, q \in 1..Len(t) : p < q => msgs[t[p]].ts >= msgs[t[q]].ts
<1> DEFINE t == NewestFirst(msgs, ids)
           k == [i \in DOMAIN ids |-> msgs[ids[i]].ts]
<1>1. /\ DOMAIN ids = 1..Len(ids) /\ Len(ids) \in Nat /\ \A i \in 1..Len(ids) : ids[i] \in DOMAIN msgs
      /\ \A r \in DOMAIN msgs : msgs[r] \in Arrivals
  BY LenProperties
<1>2. t = Arranged(ids, Order(k))
  BY DEF NewestFirst, SortedBy, Arranged
<1>3. k \in [1..Len(ids) -> Int] /\ \A i \in 1..Len(ids) : k[i] = msgs[ids[i]].ts
  <2>1. \A i \in 1..Len(ids) : msgs[ids[i]].ts \in Int
    BY <1>1, Dated
  <2> QED BY <1>1, <2>1
<1> HIDE DEF t, k
<1> DEFINE S == DOMAIN msgs
<1>4. ids \in Seq(S)
  OBVIOUS
<1> HIDE DEF S
<1>5. /\ t \in Seq(S) /\ Len(t) = Len(ids) /\ ToSet(t) = ToSet(ids) /\ (IsInjective(ids) => IsInjective(t))
      /\ \E at : Sorts(at, k, Len(ids)) /\ \A p \in 1..Len(ids) : at[p] \in 1..Len(ids) /\ t[p] = ids[at[p]]
  BY <1>2, <1>3, <1>4, SortedList
<1>6. PICK at : /\ Sorts(at, k, Len(ids))
                /\ \A p \in 1..Len(ids) : at[p] \in 1..Len(ids) /\ t[p] = ids[at[p]]
  BY <1>5
<1>7. ASSUME NEW p \in 1..Len(t), NEW q \in 1..Len(t), p < q PROVE msgs[t[p]].ts >= msgs[t[q]].ts
  <2>1. k[at[p]] > k[at[q]] \/ k[at[p]] = k[at[q]]
    BY <1>5, <1>6, <1>7 DEF Sorts
  <2>2. /\ k[at[p]] = msgs[t[p]].ts /\ k[at[q]] = msgs[t[q]].ts
        /\ k[at[p]] \in Int /\ k[at[q]] \in Int
    <3>1. p \in 1..Len(ids) /\ q \in 1..Len(ids)
      BY <1>5
    <3>2. at[p] \in 1..Len(ids) /\ t[p] = ids[at[p]] /\ at[q] \in 1..Len(ids) /\ t[q] = ids[at[q]]
      BY <1>6, <3>1
    <3>3. k[at[p]] = msgs[ids[at[p]]].ts /\ k[at[q]] = msgs[ids[at[q]]].ts
      BY <1>3, <3>2
    <3>4. k[at[p]] \in Int /\ k[at[q]] \in Int
      BY <1>3, <3>2
    <3> QED BY <3>2, <3>3, <3>4
  <2> QED BY <2>1, <2>2
<1> QED BY <1>5, <1>7 DEF t, S

(* The same the other way round.                                           *)
LEMMA OldestList ==
  ASSUME NEW msgs \in Seq(Arrivals), NEW ids \in Seq(DOMAIN msgs)
  PROVE  LET t == OldestFirst(msgs, ids)
         IN /\ t \in Seq(DOMAIN msgs) /\ Len(t) = Len(ids) /\ ToSet(t) = ToSet(ids)
            /\ IsInjective(ids) => IsInjective(t)
            /\ \A p, q \in 1..Len(t) : p < q => msgs[t[p]].ts <= msgs[t[q]].ts
<1> DEFINE t == OldestFirst(msgs, ids)
           k == [i \in DOMAIN ids |-> -msgs[ids[i]].ts]
<1>1. /\ DOMAIN ids = 1..Len(ids) /\ Len(ids) \in Nat /\ \A i \in 1..Len(ids) : ids[i] \in DOMAIN msgs
      /\ \A r \in DOMAIN msgs : msgs[r] \in Arrivals
  BY LenProperties
<1>2. t = Arranged(ids, Order(k))
  BY DEF OldestFirst, SortedBy, Arranged
<1>3. /\ k \in [1..Len(ids) -> Int]
      /\ \A i \in 1..Len(ids) : k[i] = -msgs[ids[i]].ts /\ msgs[ids[i]].ts \in Int
  <2>1. \A i \in 1..Len(ids) : msgs[ids[i]].ts \in Int
    BY <1>1, Dated
  <2> QED BY <1>1, <2>1
<1> HIDE DEF t, k
<1> DEFINE S == DOMAIN msgs
<1>4. ids \in Seq(S)
  OBVIOUS
<1> HIDE DEF S
<1>5. /\ t \in Seq(S) /\ Len(t) = Len(ids) /\ ToSet(t) = ToSet(ids) /\ (IsInjective(ids) => IsInjective(t))
      /\ \E at : Sorts(at, k, Len(ids)) /\ \A p \in 1..Len(ids) : at[p] \in 1..Len(ids) /\ t[p] = ids[at[p]]
  <2>1. k \in [1..Len(ids) -> Int]
    BY <1>3
  <2> DEFINE u == Arranged(ids, Order(k))
  <2>2. /\ u \in Seq(S) /\ Len(u) = Len(ids) /\ ToSet(u) = ToSet(ids) /\ (IsInjective(ids) => IsInjective(u))
        /\ \E at : Sorts(at, k, Len(ids)) /\ \A p \in 1..Len(ids) : at[p] \in 1..Len(ids) /\ u[p] = ids[at[p]]
    BY <1>4, <2>1, SortedList
  <2> QED BY <1>2, <2>2
<1>6. PICK at : /\ Sorts(at, k, Len(ids))
                /\ \A p \in 1..Len(ids) : at[p] \in 1..Len(ids) /\ t[p] = ids[at[p]]
  BY <1>5
<1>7. ASSUME NEW p \in 1..Len(t), NEW q \in 1..Len(t), p < q PROVE msgs[t[p]].ts <= msgs[t[q]].ts
  <2>1. k[at[p]] > k[at[q]] \/ k[at[p]] = k[at[q]]
    BY <1>5, <1>6, <1>7 DEF Sorts
  <2>2. /\ k[at[p]] = -msgs[t[p]].ts /\ k[at[q]] = -msgs[t[q]].ts
        /\ msgs[t[p]].ts \in Int /\ msgs[t[q]].ts \in Int
    <3>1. p \in 1..Len(ids) /\ q \in 1..Len(ids)
      BY <1>5
    <3>2. at[p] \in 1..Len(ids) /\ t[p] = ids[at[p]] /\ at[q] \in 1..Len(ids) /\ t[q] = ids[at[q]]
      BY <1>6, <3>1
    <3>3. /\ k[at[p]] = -msgs[ids[at[p]]].ts /\ msgs[ids[at[p]]].ts \in Int
          /\ k[at[q]] = -msgs[ids[at[q]]].ts /\ msgs[ids[at[q]]].ts \in Int
      BY <1>3, <3>2
    <3> QED BY <3>2, <3>3
  <2> QED BY <2>1, <2>2
<1> QED BY <1>5, <1>7 DEF t, S

(* The messages of a set, oldest first.                                    *)
LEMMA OldestOf ==
  ASSUME NEW msgs \in Seq(Arrivals), NEW K \in SUBSET (DOMAIN msgs)
  PROVE  LET t == OldestFirst(msgs, Ascending(K))
         IN /\ t \in Seq(DOMAIN msgs) /\ Len(t) = Cardinality(K) /\ ToSet(t) = K /\ IsInjective(t)
            /\ \A p, q \in 1..Len(t) : p < q => msgs[t[p]].ts <= msgs[t[q]].ts
<1> DEFINE at == Ascending(K)
           t == OldestFirst(msgs, at)
<1>1. K \in SUBSET Nat /\ IsFiniteSet(K)
  BY RowsOfTable
<1>2. at \in Seq(K) /\ Len(at) = Cardinality(K) /\ ToSet(at) = K /\ IsInjective(at)
  BY <1>1, NumbersList
<1> HIDE DEF at
<1>3. at \in Seq(DOMAIN msgs)
  BY <1>2, SeqOfEntries
<1>4. /\ t \in Seq(DOMAIN msgs) /\ Len(t) = Len(at) /\ ToSet(t) = ToSet(at)
      /\ IsInjective(at) => IsInjective(t)
      /\ \A p, q \in 1..Len(t) : p < q => msgs[t[p]].ts <= msgs[t[q]].ts
  BY <1>3, OldestList
<1> QED BY <1>2, <1>4 DEF at

-----------------------------------------------------------------------------
(* The window around a message.                                            *)

Off(d, around) == IF d > around THEN d - around ELSE around - d

(* Positions within a list, as many as asked for or as the list has, with  *)
(* an entry whose date is nearest.                                         *)
Surrounds(w, n, dates, around, limit) ==
  /\ w \in SUBSET (1..n) /\ Cardinality(w) = Min({limit, n})
  /\ \E i \in w : \A j \in 1..n : Off(dates[i], around) <= Off(dates[j], around)

(* Such is the window.                                                     *)
LEMMA WindowAround ==
  ASSUME NEW n \in Nat \ {0}, NEW dates \in [1..n -> Nat], dates \in Seq(Nat), Len(dates) = n,
         NEW around \in Nat, NEW limit \in Nat \ {0}
  PROVE  Surrounds(Window(dates, around, limit), n, dates, around, limit)
<1> DEFINE w == Window(dates, around, limit)
           near == {i \in 1..n : \A j \in 1..n : Off(dates[i], around) <= Off(dates[j], around)}
           c == Min(near)
           half == limit \div 2
           lo == Max({0, c - 1 - half})
           hi == Min({n, lo + limit})
           first == Max({0, hi - limit}) + 1
<1>1. w = first..hi
  BY DEF Window, Off
<1>2. \A j \in 1..n : Off(dates[j], around) \in Nat
  BY DEF Off
<1>3. near # {}
  <2> DEFINE S == {Off(dates[j], around) : j \in 1..n}
  <2>1. S \in SUBSET Nat /\ S # {}
    <3>1. 1 \in 1..n
      OBVIOUS
    <3> QED BY <1>2, <3>1
  <2>2. Min(S) \in S /\ \A o \in S : Min(S) <= o
    <3> HIDE DEF S
    <3> QED BY <2>1, LeastOf
  <2>3. PICK i \in 1..n : Min(S) = Off(dates[i], around)
    BY <2>2
  <2>4. \A j \in 1..n : Off(dates[j], around) \in S
    OBVIOUS
  <2>5. i \in near
    BY <2>2, <2>3, <2>4
  <2> QED BY <2>5
<1>4. c \in near
  <2>1. near \in SUBSET Nat
    OBVIOUS
  <2> HIDE DEF near
  <2> QED BY <1>3, <2>1, LeastOf
<1>5. c \in 1..n /\ \A j \in 1..n : Off(dates[c], around) <= Off(dates[j], around)
  BY <1>4
<1> HIDE DEF c, w
<1>6. half \in Nat /\ half < limit
  OBVIOUS
<1> HIDE DEF half
<1>7. lo \in Nat /\ lo <= c - 1 /\ lo >= c - 1 - half
  <2>1. c - 1 - half \in Int /\ 0 \in Int
    BY <1>5, <1>6
  <2>2. lo = IF 0 <= c - 1 - half THEN c - 1 - half ELSE 0
    BY <2>1, MinOfTwo
  <2> HIDE DEF lo
  <2> QED BY <1>5, <1>6, <2>2
<1> HIDE DEF lo
<1>8. hi = IF n <= lo + limit THEN n ELSE lo + limit
  BY <1>7, MinOfTwo
<1> HIDE DEF hi
<1>9. first = (IF 0 <= hi - limit THEN hi - limit ELSE 0) + 1
  <2>1. 0 \in Int /\ hi - limit \in Int
    BY <1>7, <1>8
  <2> QED BY <2>1, MinOfTwo
<1> HIDE DEF first
<1>10. first \in Int /\ hi \in Int /\ 1 <= first /\ first <= c /\ c <= hi /\ hi <= n
  BY <1>5, <1>6, <1>7, <1>8, <1>9
<1>11. hi - first + 1 = IF limit <= n THEN limit ELSE n
  BY <1>5, <1>6, <1>7, <1>8, <1>9
<1>12. Cardinality(w) = Min({limit, n})
  <2>1. Cardinality(first..hi) = IF first > hi THEN 0 ELSE hi - first + 1
    BY <1>10, FS_Interval
  <2>2. Min({limit, n}) = IF limit <= n THEN limit ELSE n
    BY MinOfTwo
  <2> QED BY <1>1, <1>10, <1>11, <2>1, <2>2
<1>13. c \in w /\ w \in SUBSET (1..n)
  BY <1>1, <1>5, <1>10
<1> QED BY <1>5, <1>12, <1>13 DEF w, Surrounds

(* The entries at some positions of a list without repetitions.            *)
LEMMA EntriesCount ==
  ASSUME NEW X, NEW s \in Seq(X), IsInjective(s), NEW K \in SUBSET (1..Len(s))
  PROVE  Cardinality({s[i] : i \in K}) = Cardinality(K)
<1> DEFINE S == {s[i] : i \in K}
           f == [i \in K |-> s[i]]
<1>1. DOMAIN s = 1..Len(s) /\ Len(s) \in Nat
  BY LenProperties
<1>2. IsFiniteSet(K)
  <2>1. IsFiniteSet(1..Len(s))
    BY <1>1, FirstNumbers
  <2> QED BY <2>1, FS_Subset
<1>3. f \in [K -> S] /\ DOMAIN f = K /\ \A i \in K : f[i] = s[i]
  OBVIOUS
<1>4. \A i, j \in K : s[i] = s[j] => i = j
  BY <1>1 DEF IsInjective
<1>5. \A x \in S : \E i \in K : f[i] = x
  OBVIOUS
<1> HIDE DEF f, S
<1>6. f \in Bijection(K, S)
  BY <1>3, <1>4, <1>5 DEF Bijection, Injection, Surjection, IsInjective
<1>7. Cardinality(K) = Cardinality(S)
  BY <1>2, <1>6, FS_Bijection DEF ExistsBijection
<1> QED BY <1>7 DEF S

(* What is shown of a conversation in which everything has content.        *)
LEMMA ConversationShown ==
  ASSUME NEW msgs \in Seq(Arrivals), NEW chat, NEW around \in DOMAIN Day, NEW limit \in Nat \ {0},
         \A r \in DOMAIN msgs : msgs[r].chat = chat => msgs[r].kind # "system"
  PROVE  LET own == {r \in DOMAIN msgs : msgs[r].chat = chat}
             shown == ToSet(FetchConversation(msgs, chat, around, limit))
         IN /\ Cardinality(shown) = Min({limit, Cardinality(own)})
            /\ own # {} => \E r \in shown : \A o \in own : Off(msgs[r].ts, around) <= Off(msgs[o].ts, around)
<1> DEFINE own == {r \in DOMAIN msgs : msgs[r].chat = chat}
           S == DOMAIN msgs
           ids == OldestFirst(msgs, Ascending(own))
           n == Len(ids)
           dates == [i \in DOMAIN ids |-> msgs[ids[i]].ts]
           window == IF ids = << >> THEN {}
                     ELSE IF around = Unset THEN (Max({0, n - limit}) + 1)..n
                     ELSE Window(dates, around, limit)
           e == Entries(ids, window)
           K == {i \in DOMAIN e : HasContent(msgs[e[i]])}
           shown == ToSet(FetchConversation(msgs, chat, around, limit))
<1>1. FetchConversation(msgs, chat, around, limit) = Entries(e, K)
  BY DEF FetchConversation, Mapped, Where, Entries
<1>2. own \in SUBSET (DOMAIN msgs)
  OBVIOUS
<1>3. ids \in Seq(DOMAIN msgs) /\ Len(ids) = Cardinality(own) /\ ToSet(ids) = own /\ IsInjective(ids)
  <2> HIDE DEF own
  <2> QED BY <1>2, OldestOf
<1> HIDE DEF ids
<1>4. /\ n \in Nat /\ DOMAIN ids = 1..n /\ \A i \in 1..n : ids[i] \in own /\ ids[i] \in DOMAIN msgs
      /\ \A r \in own : \E i \in 1..n : ids[i] = r
  BY <1>3, LenProperties DEF ToSet
<1>5. around \in Nat /\ \A r \in own : msgs[r].ts \in Nat
  <2>1. \A r \in DOMAIN msgs : msgs[r] \in Arrivals
    BY LenProperties
  <2> QED BY <2>1, Dated, AnswerAssumption
<1>6. /\ window \in SUBSET (1..n) /\ Cardinality(window) = Min({limit, n})
      /\ n # 0 => \E i \in window : \A j \in 1..n : Off(dates[i], around) <= Off(dates[j], around)
  <2>1. CASE n = 0
    <3>1. ids = << >>
      BY <1>3, <2>1, EmptyList
    <3>2. window = {} /\ Cardinality(window) = 0
      BY <3>1, FS_EmptySet
    <3>3. Min({limit, n}) = 0
      BY <2>1, MinOfTwo
    <3> QED BY <2>1, <3>2, <3>3
  <2>2. CASE n # 0
    <3>1. ids # << >> /\ around # Unset
      BY <1>3, <2>2, EmptyList, AnswerAssumption
    <3>2. window = Window(dates, around, limit)
      BY <3>1
    <3>3. dates \in [1..n -> Nat]
      BY <1>4, <1>5
    <3> HIDE DEF dates, window
    <3>4. dates \in Seq(Nat) /\ Len(dates) = n
      BY <1>4, <3>3
    <3>5. n \in Nat \ {0}
      BY <1>4, <2>2
    <3> HIDE DEF n
    <3>6. around \in Nat
      BY <1>5
    <3>7. Surrounds(window, n, dates, around, limit)
      BY <3>2, <3>3, <3>4, <3>5, <3>6, WindowAround
    <3> QED BY <3>7 DEF Surrounds
  <2> QED BY <2>1, <2>2
<1>7. \A i \in 1..n : dates[i] = msgs[ids[i]].ts
  BY <1>4
<1>12. ids \in Seq(S) /\ window \in SUBSET (1..Len(ids))
  BY <1>3, <1>6
<1> HIDE DEF window, dates, S, n, own
<1>8. e \in Seq(S) /\ ToSet(e) = {ids[i] : i \in window} /\ DOMAIN e = 1..Len(e)
  <2>1. e \in Seq(S) /\ ToSet(e) = {ids[i] : i \in window}
    BY <1>12, EntriesList
  <2> HIDE DEF e
  <2> QED BY <2>1, LenProperties
<1> HIDE DEF e
<1>9. shown = {ids[i] : i \in window}
  <2>1. \A i \in DOMAIN e : e[i] \in own
    <3>1. \A i \in DOMAIN e : \E j \in window : e[i] = ids[j]
      BY <1>8 DEF ToSet
    <3> QED BY <1>4, <1>6, <3>1
  <2>2. K = 1..Len(e) /\ K \in SUBSET (1..Len(e))
    BY <1>8, <2>1 DEF HasContent, own
  <2> HIDE DEF K
  <2>3. ToSet(Entries(e, K)) = {e[i] : i \in K}
    BY <1>8, <2>2, EntriesList
  <2>4. ToSet(e) = {e[i] : i \in 1..Len(e)}
    BY <1>8 DEF ToSet
  <2> QED BY <1>1, <1>8, <2>2, <2>3, <2>4
<1> HIDE DEF shown
<1>10. Cardinality(shown) = Min({limit, Cardinality(own)})
  <2>1. Cardinality({ids[i] : i \in window}) = Cardinality(window)
    BY <1>3, <1>12, EntriesCount
  <2> QED BY <1>3, <1>6, <1>9, <2>1 DEF n
<1>11. ASSUME own # {}
       PROVE  \E r \in shown : \A o \in own : Off(msgs[r].ts, around) <= Off(msgs[o].ts, around)
  <2>1. n # 0
    BY <1>4, <1>11
  <2>2. PICK i \in window : \A j \in 1..n : Off(dates[i], around) <= Off(dates[j], around)
    BY <1>6, <2>1
  <2>3. i \in 1..n /\ ids[i] \in shown
    BY <1>6, <1>9
  <2>4. \A o \in own : Off(msgs[ids[i]].ts, around) <= Off(msgs[o].ts, around)
    <3> SUFFICES ASSUME NEW o \in own
                 PROVE  Off(msgs[ids[i]].ts, around) <= Off(msgs[o].ts, around)
      OBVIOUS
    <3>1. PICK j \in 1..n : ids[j] = o
      BY <1>4
    <3>2. dates[i] = msgs[ids[i]].ts /\ dates[j] = msgs[o].ts
      BY <1>7, <2>3, <3>1
    <3>3. Off(dates[i], around) <= Off(dates[j], around)
      BY <2>2
    <3> QED BY <3>2, <3>3
  <2> QED BY <2>3, <2>4
<1> QED BY <1>10, <1>11 DEF shown, own

(* The conversation at a result, for any chat, message and limit.          *)
LEMMA Around ==
  ASSUME live \in Seq(Arrivals), snapped \in 0..Len(live)
  PROVE  ConversationAroundHit
<1> SUFFICES ASSUME NEW chat \in Chats, NEW around \in DOMAIN Day, NEW limit \in 1..3
             PROVE  LET msgs == SubSeq(live, 1, snapped)
                        own == {r \in DOMAIN msgs : msgs[r].chat = chat}
                        shown == ToSet(FetchConversation(msgs, chat, around, limit))
                    IN (\A r \in own : msgs[r].kind # "system") =>
                         /\ Cardinality(shown) = Min({limit, Cardinality(own)})
                         /\ own # {} => \E r \in shown : \A o \in own :
                                           Off(msgs[r].ts, around) <= Off(msgs[o].ts, around)
  BY DEF ConversationAroundHit, Off
<1> DEFINE msgs == SubSeq(live, 1, snapped)
<1>1. msgs \in Seq(Arrivals)
  <2>1. 1 \in Int /\ snapped \in Int /\ \A r \in 1..snapped : live[r] \in Arrivals
    <3>1. Len(live) \in Nat /\ \A r \in 1..Len(live) : live[r] \in Arrivals
      BY LenProperties
    <3> QED BY <3>1
  <2> QED BY <2>1, SubSeqProperties
<1> HIDE DEF msgs
<1>2. limit \in Nat \ {0}
  OBVIOUS
<1> QED BY <1>1, <1>2, ConversationShown DEF msgs

-----------------------------------------------------------------------------
(* What the chunker gives of messages in order of date: lists of these     *)
(* messages, none empty and each in order of date.                         *)

Records == [id : Nat, ts : Nat, tokens : Nat]

Rising(c) == \A i, j \in 1..Len(c) : i < j => c[i].ts <= c[j].ts

FillingOf(M) == [yielded : Seq(Seq(M)), current : Seq(M)]

(* Everything yielded, and what is being filled with messages up to t.     *)
Filled(state, M, t) ==
  /\ state \in FillingOf(M)
  /\ \A k \in 1..Len(state.yielded) : state.yielded[k] # << >> /\ Rising(state.yielded[k])
  /\ Rising(state.current)
  /\ \A i \in 1..Len(state.current) : state.current[i].ts <= t

(* A later message goes behind all others.                                 *)
LEMMA RisingAppend ==
  ASSUME NEW M \in SUBSET Records, NEW c \in Seq(M), Rising(c), NEW m \in M,
         \A i \in 1..Len(c) : c[i].ts <= m.ts
  PROVE  /\ Append(c, m) \in Seq(M) /\ Append(c, m) # << >> /\ Rising(Append(c, m))
         /\ \A i \in 1..Len(Append(c, m)) : Append(c, m)[i].ts <= m.ts
<1> DEFINE d == Append(c, m)
<1>1. /\ d \in Seq(M) /\ Len(d) = Len(c) + 1 /\ Len(c) \in Nat /\ d[Len(c) + 1] = m
      /\ \A i \in 1..Len(c) : d[i] = c[i] /\ c[i] \in M
  BY AppendProperties, LenProperties
<1> HIDE DEF d
<1>2. d # << >>
  BY <1>1, EmptyList
<1>3. m.ts \in Nat /\ \A i \in 1..Len(c) : c[i].ts \in Nat
  BY <1>1 DEF Records
<1>4. \A i \in 1..Len(d) : i \in 1..Len(c) \/ i = Len(c) + 1
  BY <1>1
<1>5. \A i \in 1..Len(d) : d[i].ts <= m.ts
  BY <1>1, <1>3, <1>4
<1>6. Rising(d)
  <2> SUFFICES ASSUME NEW i \in 1..Len(d), NEW j \in 1..Len(d), i < j PROVE d[i].ts <= d[j].ts
    BY DEF Rising
  <2>1. CASE j = Len(c) + 1
    BY <1>1, <1>5, <2>1
  <2>2. CASE j \in 1..Len(c)
    <3>1. i \in 1..Len(c)
      BY <1>1, <2>2
    <3> QED BY <1>1, <2>2, <3>1 DEF Rising
  <2> QED BY <1>4, <2>1, <2>2
<1> QED BY <1>1, <1>2, <1>5, <1>6 DEF d

(* What is carried into the next chunk is the end of the one before.       *)
LEMMA CarriedRises ==
  ASSUME NEW M \in SUBSET Records, NEW c \in Seq(M), Rising(c), NEW gap, NEW t,
         \A i \in 1..Len(c) : c[i].ts <= t
  PROVE  LET d == C!Carried(c, gap)
         IN d \in Seq(M) /\ Rising(d) /\ \A i \in 1..Len(d) : d[i].ts <= t
<1> DEFINE b == IF Len(c) > ChunkOverlap THEN Len(c) - ChunkOverlap + 1 ELSE 1
           d == SubSeq(c, b, Len(c))
<1>1. Len(c) \in Nat /\ \A i \in 1..Len(c) : c[i] \in M
  BY LenProperties
<1>2. b \in Int /\ 1 <= b
  BY <1>1, AnswerAssumption
<1> HIDE DEF b
<1>3. /\ d \in Seq(M) /\ Len(d) = (IF b <= Len(c) THEN Len(c) - b + 1 ELSE 0)
      /\ \A i \in 1..(Len(c) - b + 1) : d[i] = c[b + i - 1]
  <2>1. \A i \in b..Len(c) : c[i] \in M
    BY <1>1, <1>2
  <2> QED BY <1>1, <1>2, <2>1, SubSeqProperties
<1> HIDE DEF d
<1>4. \A i \in 1..Len(d) : b + i - 1 \in 1..Len(c) /\ d[i] = c[b + i - 1]
  <2> SUFFICES ASSUME NEW i \in 1..Len(d) PROVE b + i - 1 \in 1..Len(c) /\ d[i] = c[b + i - 1]
    OBVIOUS
  <2>1. b <= Len(c)
    BY <1>1, <1>2, <1>3
  <2>2. i \in 1..(Len(c) - b + 1)
    BY <1>3, <2>1
  <2>3. b + i - 1 \in 1..Len(c)
    BY <1>1, <1>2, <2>1, <2>2
  <2> QED BY <1>3, <2>2, <2>3
<1>5. Rising(d)
  <2> SUFFICES ASSUME NEW i \in 1..Len(d), NEW j \in 1..Len(d), i < j PROVE d[i].ts <= d[j].ts
    BY DEF Rising
  <2>1. b + i - 1 < b + j - 1
    BY <1>2, <1>3
  <2> QED BY <1>4, <2>1 DEF Rising
<1>6. \A i \in 1..Len(d) : d[i].ts <= t
  BY <1>4
<1>7. << >> \in Seq(M) /\ Rising(<< >>) /\ Len(<< >>) = 0 /\ 1..Len(<< >>) = {}
  BY EmptySeq DEF Rising
<1>8. CASE gap
  BY <1>7, <1>8 DEF C!Carried
<1>9. CASE ~gap
  BY <1>3, <1>5, <1>6, <1>9 DEF C!Carried, d, b
<1> QED BY <1>8, <1>9

(* One message more: what was yielded and what is being filled stay in     *)
(* order of date.                                                          *)
LEMMA AbsorbFills ==
  ASSUME NEW M \in SUBSET Records, NEW state, NEW t \in Nat, Filled(state, M, t), NEW m \in M, t <= m.ts
  PROVE  Filled(C!Absorb(state, m), M, m.ts) /\ C!Absorb(state, m).current # << >>
<1> DEFINE c == state.current
           y == state.yielded
           Y == Seq(M)
           gap == C!IsGapClose(c, m)
           carried == C!Carried(c, gap)
<1>1. /\ c \in Seq(M) /\ y \in Seq(Y) /\ state = [yielded |-> y, current |-> c]
      /\ Rising(c) /\ \A i \in 1..Len(c) : c[i].ts <= t
      /\ \A k \in 1..Len(y) : y[k] # << >> /\ Rising(y[k])
  BY DEF Filled, FillingOf
<1>2. m.ts \in Nat /\ \A i \in 1..Len(c) : c[i].ts \in Nat
  <2>1. \A i \in 1..Len(c) : c[i] \in M
    BY <1>1, LenProperties
  <2> QED BY <2>1 DEF Records
<1>3. \A i \in 1..Len(c) : c[i].ts <= m.ts
  BY <1>1, <1>2
<1>4. CASE c # << >> /\ C!ShouldClose(c, m)
  <2> DEFINE d == Append(carried, m)
             lists == Append(y, c)
  <2>1. C!Absorb(state, m) = [yielded |-> lists, current |-> d]
    BY <1>4 DEF C!Absorb
  <2>2. carried \in Seq(M) /\ Rising(carried) /\ \A i \in 1..Len(carried) : carried[i].ts <= m.ts
    <3> HIDE DEF c, gap
    <3> QED BY <1>1, <1>3, CarriedRises
  <2>3. /\ d \in Seq(M) /\ d # << >> /\ Rising(d) /\ \A i \in 1..Len(d) : d[i].ts <= m.ts
    <3> HIDE DEF carried
    <3> QED BY <2>2, RisingAppend
  <2>4. /\ lists \in Seq(Y) /\ Len(lists) = Len(y) + 1 /\ Len(y) \in Nat /\ lists[Len(y) + 1] = c
        /\ \A k \in 1..Len(y) : lists[k] = y[k]
    <3>1. c \in Y /\ y \in Seq(Y)
      BY <1>1
    <3> HIDE DEF Y, c, y
    <3> QED BY <3>1, AppendProperties, LenProperties
  <2> HIDE DEF d, lists
  <2>5. \A k \in 1..Len(lists) : lists[k] # << >> /\ Rising(lists[k])
    <3>1. \A k \in 1..Len(lists) : k \in 1..Len(y) \/ k = Len(y) + 1
      BY <2>4
    <3> QED BY <1>1, <1>4, <2>4, <3>1
  <2> QED BY <2>1, <2>3, <2>4, <2>5 DEF Filled, FillingOf
<1>5. CASE ~(c # << >> /\ C!ShouldClose(c, m))
  <2> DEFINE d == Append(c, m)
  <2>1. C!Absorb(state, m) = [yielded |-> y, current |-> d]
    BY <1>1, <1>5 DEF C!Absorb
  <2>2. /\ d \in Seq(M) /\ d # << >> /\ Rising(d) /\ \A i \in 1..Len(d) : d[i].ts <= m.ts
    <3> HIDE DEF c
    <3> QED BY <1>1, <1>3, RisingAppend
  <2> HIDE DEF d
  <2> QED BY <1>1, <2>1, <2>2 DEF Filled, FillingOf
<1> QED BY <1>4, <1>5

(* When n messages have been read.                                         *)
Until(msgs, n) == IF n = 0 THEN 0 ELSE msgs[n].ts

(* And so after any number of messages.                                    *)
LEMMA FillsThroughout ==
  ASSUME NEW msgs \in Seq(Records), Rising(msgs), NEW h, h[0] = C!NothingYet,
         \A n \in 1..Len(msgs) : Filled(h[n - 1], ToSet(msgs), Until(msgs, n - 1))
                                   => h[n] = C!Absorb(h[n - 1], msgs[n])
  PROVE  \A n \in 0..Len(msgs) : Filled(h[n], ToSet(msgs), Until(msgs, n))
<1> DEFINE l == Len(msgs)
           M == ToSet(msgs)
           T == {n \in Nat : n <= l => Filled(h[n], M, Until(msgs, n))}
<1>1. l \in Nat /\ DOMAIN msgs = 1..l /\ \A n \in 1..l : msgs[n] \in Records /\ msgs[n] \in M
  BY LenProperties DEF ToSet
<1>2. M \in SUBSET Records
  BY <1>1 DEF ToSet
<1> HIDE DEF M
<1>3. 0 \in T
  <2> DEFINE Y == Seq(M)
  <2>1. /\ << >> \in Seq(Y) /\ << >> \in Seq(M) /\ Rising(<< >>)
        /\ Len(<< >>) = 0 /\ 1..Len(<< >>) = {}
    <3> HIDE DEF Y
    <3> QED BY EmptySeq DEF Rising
  <2>2. C!NothingYet = [yielded |-> << >>, current |-> << >>]
    BY DEF C!NothingYet
  <2>3. h[0] \in FillingOf(M) /\ h[0].yielded = << >> /\ h[0].current = << >>
    BY <2>1, <2>2 DEF FillingOf
  <2>4. Filled(h[0], M, Until(msgs, 0))
    BY <2>1, <2>3 DEF Filled
  <2> QED BY <2>4
<1>4. ASSUME NEW n \in Nat, n \in T PROVE n + 1 \in T
  <2> SUFFICES ASSUME n + 1 <= l PROVE Filled(h[n + 1], M, Until(msgs, n + 1))
    OBVIOUS
  <2>1. n + 1 \in 1..l /\ n \in 0..l /\ (n + 1) - 1 = n /\ n <= l
    BY <1>1
  <2>2. Filled(h[n], M, Until(msgs, n))
    BY <1>4, <2>1
  <2>3. h[n + 1] = C!Absorb(h[n], msgs[n + 1])
    BY <2>1, <2>2 DEF M
  <2>4. msgs[n + 1] \in M /\ Until(msgs, n + 1) = msgs[n + 1].ts /\ msgs[n + 1].ts \in Nat
    BY <1>1, <2>1 DEF Until, Records
  <2>5. Until(msgs, n) \in Nat /\ Until(msgs, n) <= msgs[n + 1].ts
    <3>1. CASE n = 0
      BY <2>4, <3>1 DEF Until
    <3>2. CASE n # 0
      <4>1. n \in 1..l /\ n < n + 1
        BY <2>1, <3>2
      <4>2. msgs[n].ts \in Nat /\ msgs[n].ts <= msgs[n + 1].ts
        BY <1>1, <2>1, <4>1 DEF Records, Rising
      <4> QED BY <3>2, <4>2 DEF Until
    <3> QED BY <3>1, <3>2
  <2>6. Filled(C!Absorb(h[n], msgs[n + 1]), M, msgs[n + 1].ts)
    BY <1>2, <2>2, <2>4, <2>5, AbsorbFills
  <2> QED BY <2>3, <2>4, <2>6
<1> HIDE DEF T
<1>5. \A n \in Nat : n \in T
  BY <1>3, <1>4, Induction
<1> QED BY <1>1, <1>5 DEF T, M

(* The chunks of messages in order of date are in order of date, and of    *)
(* those messages.                                                         *)
LEMMA ChunksRise ==
  ASSUME NEW msgs \in Seq(Records), Rising(msgs)
  PROVE  LET lists == C!ChunkMessages(msgs)
         IN /\ lists \in Seq(Seq(ToSet(msgs)))
            /\ \A k \in DOMAIN lists : lists[k] # << >> /\ Rising(lists[k])
<1> DEFINE l == Len(msgs)
           M == ToSet(msgs)
           S == FillingOf(M)
           Fold(g) == [n \in 0..l |-> IF n = 0 THEN C!NothingYet ELSE C!Absorb(g[n - 1], msgs[n])]
           after == CHOOSE g : g = Fold(g)
           f == [p \in (1..l) \X S |-> IF C!Absorb(p[2], msgs[p[1]]) \in S
                                       THEN C!Absorb(p[2], msgs[p[1]]) ELSE C!NothingYet]
           lists == C!ChunkMessages(msgs)
<1>1. l \in Nat /\ \A n \in 1..l : msgs[n] \in Records /\ msgs[n] \in M
  BY LenProperties DEF ToSet
<1>2. lists = C!AllChunks(after[l])
  BY DEF C!ChunkMessages
<1> HIDE DEF lists
<1>3. C!NothingYet \in S
  <2> DEFINE Y == Seq(M)
  <2>1. << >> \in Seq(Y) /\ << >> \in Seq(M)
    <3> HIDE DEF Y, M
    <3> QED BY EmptySeq
  <2> QED BY <2>1 DEF C!NothingYet, FillingOf
<1>4. M \in SUBSET Records
  BY <1>1 DEF ToSet
<1>5. f \in [(1..l) \X S -> S]
  BY <1>3
<1>6. PICK g : Unfolds(g, f, C!NothingYet, l, S)
  <2> HIDE DEF f, l, S
  <2> QED BY <1>1, <1>3, <1>5, Recursion
<1>7. g \in [0..l -> S] /\ g[0] = C!NothingYet /\ \A n \in 1..l : g[n] = f[<<n, g[n - 1]>>]
  BY <1>6 DEF Unfolds
<1>8. \A n \in 1..l : Filled(g[n - 1], M, Until(msgs, n - 1)) => g[n] = C!Absorb(g[n - 1], msgs[n])
  <2> SUFFICES ASSUME NEW n \in 1..l, Filled(g[n - 1], M, Until(msgs, n - 1))
               PROVE  g[n] = C!Absorb(g[n - 1], msgs[n])
    OBVIOUS
  <2>1. n - 1 \in 0..l /\ g[n - 1] \in S
    BY <1>1, <1>7
  <2>2. f[<<n, g[n - 1]>>] = IF C!Absorb(g[n - 1], msgs[n]) \in S THEN C!Absorb(g[n - 1], msgs[n])
                             ELSE C!NothingYet
    <3>1. <<n, g[n - 1]>> \in (1..l) \X S
      BY <2>1
    <3> HIDE DEF S
    <3> QED BY <3>1
  <2>3. Until(msgs, n - 1) \in Nat /\ Until(msgs, n - 1) <= msgs[n].ts
    <3>1. msgs[n].ts \in Nat
      BY <1>1 DEF Records
    <3>2. CASE n - 1 = 0
      BY <3>1, <3>2 DEF Until
    <3>3. CASE n - 1 # 0
      <4>1. n - 1 \in 1..l /\ n - 1 < n
        BY <1>1, <3>3
      <4>2. msgs[n - 1].ts \in Nat /\ msgs[n - 1].ts <= msgs[n].ts
        BY <1>1, <4>1 DEF Records, Rising
      <4> QED BY <3>3, <4>2 DEF Until
    <3> QED BY <3>2, <3>3
  <2>4. Filled(C!Absorb(g[n - 1], msgs[n]), M, msgs[n].ts)
    <3> HIDE DEF M
    <3> QED BY <1>1, <1>4, <2>3, AbsorbFills
  <2>5. C!Absorb(g[n - 1], msgs[n]) \in S
    BY <2>4 DEF Filled
  <2> QED BY <1>7, <2>2, <2>5
<1> HIDE DEF f
<1>9. \A n \in 0..l : Filled(g[n], M, Until(msgs, n))
  BY <1>7, <1>8, FillsThroughout
<1>10. g = Fold(g)
  <2>1. \A n \in 1..l : g[n] = C!Absorb(g[n - 1], msgs[n])
    <3>1. \A n \in 1..l : n - 1 \in 0..l
      BY <1>1
    <3> QED BY <1>8, <1>9, <3>1
  <2>2. \A n \in 0..l : n = 0 \/ n \in 1..l
    BY <1>1
  <2>3. \A n \in 0..l : g[n] = Fold(g)[n]
    BY <1>7, <2>1, <2>2
  <2>4. DOMAIN g = 0..l /\ g = [n \in 0..l |-> g[n]]
    BY <1>7
  <2> QED BY <2>3, <2>4
<1>11. after = Fold(after)
  BY <1>10
<1> HIDE DEF after
<1>12. after[0] = C!NothingYet /\ \A n \in 1..l : after[n] = C!Absorb(after[n - 1], msgs[n])
  <2>1. 0 \in 0..l /\ \A n \in 1..l : n \in 0..l /\ n # 0
    BY <1>1
  <2> QED BY <1>11, <2>1
<1>13. \A n \in 0..l : Filled(after[n], M, Until(msgs, n))
  BY <1>12, FillsThroughout
<1>14. Filled(after[l], M, Until(msgs, l))
  BY <1>1, <1>13
<1> DEFINE y == after[l].yielded
           c == after[l].current
           Y == Seq(M)
<1>15. /\ y \in Seq(Y) /\ c \in Y /\ Rising(c)
       /\ \A k \in 1..Len(y) : y[k] # << >> /\ Rising(y[k])
  BY <1>14 DEF Filled, FillingOf
<1>16. lists = IF c = << >> THEN y ELSE Append(y, c)
  BY <1>2 DEF C!AllChunks
<1> HIDE DEF Y, y, c
<1>17. /\ Append(y, c) \in Seq(Y) /\ Len(Append(y, c)) = Len(y) + 1 /\ Len(y) \in Nat
       /\ Append(y, c)[Len(y) + 1] = c /\ \A k \in 1..Len(y) : Append(y, c)[k] = y[k]
  BY <1>15, AppendProperties, LenProperties
<1>18. /\ DOMAIN y = 1..Len(y) /\ DOMAIN Append(y, c) = 1..Len(Append(y, c))
       /\ \A k \in 1..Len(Append(y, c)) : k \in 1..Len(y) \/ k = Len(y) + 1
  BY <1>15, <1>17, LenProperties
<1> QED BY <1>15, <1>16, <1>17, <1>18 DEF lists, Y

-----------------------------------------------------------------------------
(* The chunks table.                                                       *)

(* What a row says of its messages.                                        *)
RowTrue(row, n) ==
  /\ row.chat \in Chats /\ row.start \in DOMAIN Day /\ row.end \in Nat
  /\ row.messages \in Seq(1..n)
  /\ \A r \in ToSet(row.messages) :
       live[r].chat = row.chat /\ row.start <= live[r].ts /\ live[r].ts <= row.end

TableTrue(table, n) ==
  DOMAIN table \in SUBSET Ids /\ \A i \in DOMAIN table : RowTrue(table[i], n)

ChunkRow(chat, chunk) ==
  [chat |-> chat, start |-> Head(chunk).ts, end |-> Last(chunk).ts,
   messages |-> Mapped(chunk, LAMBDA m : m.id),
   media |-> \E i \in DOMAIN chunk : HasAttachment(live[chunk[i].id])]

(* One list of the table: chunks of messages of the chat, in order of date.*)
LEMMA ChunksOfChat ==
  ASSUME live \in Seq(Arrivals), NEW n \in 0..Len(live), NEW chat \in Chats
  PROVE  \A k \in DOMAIN ChunksOf(n, chat) :
           LET chunk == ChunksOf(n, chat)[k]
           IN /\ chunk \in Seq(Records) /\ chunk # << >> /\ Rising(chunk)
              /\ \A m \in ToSet(chunk) : m.id \in 1..n /\ live[m.id].chat = chat /\ m.ts = live[m.id].ts
<1> DEFINE plain == {r \in 1..n : live[r].chat = chat /\ live[r].kind # "tapback"}
           sorted == OldestFirst(live, Ascending(plain))
           msgs == [i \in DOMAIN sorted |-> [id |-> sorted[i], ts |-> live[sorted[i]].ts, tokens |-> 1]]
           lists == C!ChunkMessages(msgs)
<1>1. ChunksOf(n, chat) = lists
  BY DEF ChunksOf, Mapped
<1>2. Len(live) \in Nat /\ DOMAIN live = 1..Len(live) /\ \A r \in 1..Len(live) : live[r] \in Arrivals
  BY LenProperties
<1>3. plain \in SUBSET (DOMAIN live)
  BY <1>2
<1>4. /\ sorted \in Seq(DOMAIN live) /\ ToSet(sorted) = plain
      /\ \A p, q \in 1..Len(sorted) : p < q => live[sorted[p]].ts <= live[sorted[q]].ts
  <2> HIDE DEF plain
  <2> QED BY <1>3, OldestOf
<1> HIDE DEF sorted
<1>5. /\ DOMAIN sorted = 1..Len(sorted) /\ Len(sorted) \in Nat
      /\ \A i \in 1..Len(sorted) : sorted[i] \in plain /\ live[sorted[i]].ts \in Nat
  <2>1. DOMAIN sorted = 1..Len(sorted) /\ Len(sorted) \in Nat
    BY <1>4, LenProperties
  <2>2. \A i \in 1..Len(sorted) : sorted[i] \in plain
    BY <1>4, <2>1 DEF ToSet
  <2> QED BY <1>2, <1>3, <2>1, <2>2, Dated
<1>6. /\ msgs \in Seq(Records) /\ Len(msgs) = Len(sorted)
      /\ \A i \in 1..Len(sorted) : msgs[i].id = sorted[i] /\ msgs[i].ts = live[sorted[i]].ts
  <2>1. \A i \in 1..Len(sorted) : [id |-> sorted[i], ts |-> live[sorted[i]].ts, tokens |-> 1] \in Records
    BY <1>5 DEF Records
  <2>2. msgs \in [1..Len(sorted) -> Records]
    BY <1>5, <2>1
  <2>3. \A i \in 1..Len(sorted) : msgs[i].id = sorted[i] /\ msgs[i].ts = live[sorted[i]].ts
    BY <1>5
  <2> HIDE DEF msgs
  <2> QED BY <1>5, <2>2, <2>3
<1> HIDE DEF msgs
<1>7. Rising(msgs)
  <2> SUFFICES ASSUME NEW i \in 1..Len(msgs), NEW j \in 1..Len(msgs), i < j
               PROVE  msgs[i].ts <= msgs[j].ts
    BY DEF Rising
  <2>1. i \in 1..Len(sorted) /\ j \in 1..Len(sorted)
    BY <1>6
  <2>2. live[sorted[i]].ts <= live[sorted[j]].ts
    BY <1>4, <2>1
  <2>3. msgs[i].ts = live[sorted[i]].ts /\ msgs[j].ts = live[sorted[j]].ts
    BY <1>6, <2>1
  <2> QED BY <2>2, <2>3
<1>8. \A m \in ToSet(msgs) : m.id \in plain /\ m.ts = live[m.id].ts
  <2>1. DOMAIN msgs = 1..Len(sorted)
    BY <1>6, LenProperties
  <2> QED BY <1>5, <1>6, <2>1 DEF ToSet
<1> DEFINE M == ToSet(msgs)
           Y == Seq(M)
<1>9. lists \in Seq(Y) /\ \A k \in DOMAIN lists : lists[k] # << >> /\ Rising(lists[k])
  BY <1>6, <1>7, ChunksRise
<1> HIDE DEF lists
<1>10. \A k \in DOMAIN lists : lists[k] \in Seq(M)
  <2>1. \A k \in DOMAIN lists : lists[k] \in Y
    <3> HIDE DEF Y
    <3> QED BY <1>9, LenProperties
  <2> QED BY <2>1
<1> SUFFICES ASSUME NEW k \in DOMAIN lists
             PROVE  /\ lists[k] \in Seq(Records) /\ lists[k] # << >> /\ Rising(lists[k])
                    /\ \A m \in ToSet(lists[k]) :
                         m.id \in 1..n /\ live[m.id].chat = chat /\ m.ts = live[m.id].ts
  BY <1>1
<1>11. lists[k] \in Seq(M) /\ ToSet(lists[k]) \subseteq M
  <2>1. lists[k] \in Seq(M)
    BY <1>10
  <2> QED BY <2>1, LenProperties DEF ToSet
<1>12. M \subseteq Records
  BY <1>6, LenProperties DEF ToSet
<1>13. lists[k] \in Seq(Records)
  <2>1. ToSet(lists[k]) \subseteq Records
    BY <1>11, <1>12
  <2> QED BY <1>11, <2>1, SeqOfEntries
<1> QED BY <1>8, <1>9, <1>11, <1>13

(* The row made of such a chunk tells the truth about it.                  *)
LEMMA RowOfChunk ==
  ASSUME live \in Seq(Arrivals), NEW n \in 0..Len(live), NEW chat \in Chats, NEW chunk \in Seq(Records),
         chunk # << >>, Rising(chunk),
         \A m \in ToSet(chunk) : m.id \in 1..n /\ live[m.id].chat = chat /\ m.ts = live[m.id].ts
  PROVE  RowTrue(ChunkRow(chat, chunk), n)
<1> DEFINE row == ChunkRow(chat, chunk)
           ids == [i \in DOMAIN chunk |-> chunk[i].id]
           l == Len(chunk)
<1>1. /\ row.chat = chat /\ row.start = chunk[1].ts /\ row.end = chunk[l].ts /\ row.messages = ids
  BY DEF ChunkRow, Last, Mapped
<1>2. l \in Nat /\ DOMAIN chunk = 1..l /\ l # 0 /\ \A i \in 1..l : chunk[i] \in Records
  BY LenProperties, EmptyList
<1>3. \A i \in 1..l : /\ chunk[i].id \in 1..n /\ live[chunk[i].id].chat = chat
                      /\ chunk[i].ts = live[chunk[i].id].ts /\ chunk[i].ts \in Nat
  BY <1>2 DEF ToSet, Records
<1>4. \A i \in 1..l : chunk[1].ts <= chunk[i].ts /\ chunk[i].ts <= chunk[l].ts
  <2> SUFFICES ASSUME NEW i \in 1..l PROVE chunk[1].ts <= chunk[i].ts /\ chunk[i].ts <= chunk[l].ts
    OBVIOUS
  <2>1. 1 \in 1..l /\ l \in 1..l
    BY <1>2
  <2>2. i = 1 \/ 1 < i
    BY <1>2
  <2>3. i = l \/ i < l
    <3>1. i \in Int /\ l \in Int /\ i <= l
      BY <1>2
    <3> HIDE DEF l
    <3> QED BY <3>1
  <2> QED BY <1>3, <2>1, <2>2, <2>3 DEF Rising
<1>5. chunk[1].ts \in DOMAIN Day
  <2>1. 1 \in 1..l
    BY <1>2
  <2>2. live[chunk[1].id] \in Arrivals
    <3>1. chunk[1].id \in 1..Len(live)
      BY <1>3, <2>1, LenProperties
    <3> QED BY <3>1, LenProperties
  <2> QED BY <1>3, <2>1, <2>2, Dated
<1>6. ids \in Seq(1..n) /\ ToSet(ids) = {chunk[i].id : i \in 1..l}
  <2>1. ids \in [1..l -> 1..n] /\ DOMAIN ids = 1..l
    BY <1>2, <1>3
  <2>2. ids \in Seq(1..n)
    BY <1>2, <2>1
  <2> QED BY <2>1, <2>2, <1>2 DEF ToSet
<1> HIDE DEF ids, row
<1>7. 1 \in 1..l /\ l \in 1..l
  BY <1>2
<1>8. RowTrue(row, n)
  BY <1>1, <1>3, <1>4, <1>5, <1>6, <1>7 DEF RowTrue
<1> QED BY <1>8 DEF row

(* So does the whole table, of whatever prefix of the messages it is made. *)
LEMMA ChunkTableTrue ==
  ASSUME live \in Seq(Arrivals), NEW n \in 0..Len(live)
  PROVE  TableTrue(ChunkTable(n), n)
<1> DEFINE table == [chat \in Chats |-> ChunksOf(n, chat)]
           ids == {i \in Ids : i \div Slots \in Chats /\ i % Slots \in DOMAIN table[i \div Slots]}
           made == [i \in ids |-> ChunkRow(i \div Slots, table[i \div Slots][i % Slots])]
<1>1. ChunkTable(n) = made
  BY DEF ChunkTable, ChunkRow
<1>2. DOMAIN made = ids /\ ids \subseteq Ids
  OBVIOUS
<1>3. ASSUME NEW i \in ids PROVE RowTrue(made[i], n)
  <2> DEFINE chat == i \div Slots
             k == i % Slots
             chunk == ChunksOf(n, chat)[k]
  <2>1. chat \in Chats /\ k \in DOMAIN ChunksOf(n, chat)
    OBVIOUS
  <2>2. made[i] = ChunkRow(chat, chunk)
    BY <2>1
  <2> HIDE DEF chat, k
  <2>3. /\ chunk \in Seq(Records) /\ chunk # << >> /\ Rising(chunk)
        /\ \A m \in ToSet(chunk) : m.id \in 1..n /\ live[m.id].chat = chat /\ m.ts = live[m.id].ts
    BY <2>1, ChunksOfChat
  <2> HIDE DEF chunk, made
  <2>4. RowTrue(ChunkRow(chat, chunk), n)
    BY <2>1, <2>3, RowOfChunk
  <2> QED BY <2>2, <2>4
<1> HIDE DEF made
<1> QED BY <1>1, <1>2, <1>3 DEF TableTrue

-----------------------------------------------------------------------------
(* Lists of hydrated sessions.                                             *)

Keys == Chats \X {Day[t] : t \in DOMAIN Day}

Hydrated(msgs) == [key : Keys, hits : Seq(DOMAIN msgs), context : Seq(DOMAIN msgs)]

(* All that is given as a hit; each once in its session; no hit among the  *)
(* context; no hit of P in two sessions; no two sessions of one key.       *)
AllHits(list) == UNION {ToSet(s.hits) : s \in ToSet(list)}
OnceEach(list) == \A s \in ToSet(list) : IsInjective(s.hits)
Apart(list) == \A s \in ToSet(list) : ToSet(s.hits) \cap ToSet(s.context) = {}
Sole(list, P) ==
  \A i, j \in 1..Len(list) : \A o \in P :
    o \in ToSet(list[i].hits) /\ o \in ToSet(list[j].hits) => i = j
KeysOnce(list) == \A i, j \in 1..Len(list) : list[i].key = list[j].key => i = j

(* A list of hydrated sessions, taken apart.                               *)
LEMMA HydratedParts ==
  ASSUME NEW msgs, NEW list \in Seq(Hydrated(msgs))
  PROVE  /\ Len(list) \in Nat /\ DOMAIN list = 1..Len(list)
         /\ \A i \in 1..Len(list) : /\ list[i] \in Hydrated(msgs) /\ list[i].key \in Keys
                                    /\ list[i].hits \in Seq(DOMAIN msgs)
                                    /\ list[i].context \in Seq(DOMAIN msgs)
         /\ ToSet(list) = {list[i] : i \in 1..Len(list)}
         /\ AllHits(list) = UNION {ToSet(list[i].hits) : i \in 1..Len(list)}
<1>1. Len(list) \in Nat /\ DOMAIN list = 1..Len(list) /\ \A i \in 1..Len(list) : list[i] \in Hydrated(msgs)
  BY LenProperties
<1>2. \A i \in 1..Len(list) : /\ list[i].key \in Keys /\ list[i].hits \in Seq(DOMAIN msgs)
                              /\ list[i].context \in Seq(DOMAIN msgs)
  BY <1>1 DEF Hydrated
<1>3. ToSet(list) = {list[i] : i \in 1..Len(list)}
  BY <1>1 DEF ToSet
<1>4. AllHits(list) = UNION {ToSet(list[i].hits) : i \in 1..Len(list)}
  BY <1>3 DEF AllHits
<1> QED BY <1>1, <1>2, <1>3, <1>4

(* The sessions left when each has some of its hits only.                  *)
WithHits(list) == Entries(list, {i \in DOMAIN list : list[i].hits # << >>})

SomeHits(some, list, kept) ==
  /\ Len(some) = Len(list)
  /\ \A i \in 1..Len(list) : ToSet(some[i].hits) = ToSet(list[i].hits) \cap kept

(* Dropping hits, and then the sessions without any, loses no other hit    *)
(* and doubles none.                                                       *)
LEMMA Narrowing ==
  ASSUME NEW msgs, NEW list \in Seq(Hydrated(msgs)), NEW some \in Seq(Hydrated(msgs)),
         NEW kept, SomeHits(some, list, kept)
  PROVE  LET e == WithHits(some)
         IN /\ e \in Seq(Hydrated(msgs)) /\ (\A s \in ToSet(e) : \E i \in 1..Len(list) : s = some[i])
            /\ AllHits(e) = AllHits(list) \cap kept
            /\ \A s \in ToSet(e) : s.hits # << >>
            /\ \A P : Sole(list, P) => Sole(e, P)
<1> DEFINE K == {i \in DOMAIN some : some[i].hits # << >>}
           e == Entries(some, K)
           X == Hydrated(msgs)
           n == Len(some)
<1>0. Len(some) = Len(list) /\ \A i \in 1..Len(list) : ToSet(some[i].hits) = ToSet(list[i].hits) \cap kept
  BY DEF SomeHits
<1>1. /\ n \in Nat /\ DOMAIN some = 1..n /\ \A i \in 1..n : some[i].hits \in Seq(DOMAIN msgs)
      /\ some \in Seq(X) /\ list \in Seq(X)
  BY HydratedParts
<1>2. AllHits(list) = UNION {ToSet(list[i].hits) : i \in 1..n}
  BY <1>0, HydratedParts
<1> HIDE DEF X
<1>3. K \in SUBSET (1..n) /\ \A i \in 1..n : i \in K <=> some[i].hits # << >>
  BY <1>1
<1> HIDE DEF K
<1>4. /\ e \in Seq(X) /\ ToSet(e) = {some[i] : i \in K} /\ DOMAIN e = 1..Len(e) /\ Len(e) \in Nat
      /\ \E at : Leads(at, Len(e), K) /\ \A p \in 1..Len(e) : e[p] = some[at[p]]
  <2>1. /\ e \in Seq(X) /\ ToSet(e) = {some[i] : i \in K}
        /\ \E at : Leads(at, Len(e), K) /\ \A p \in 1..Len(e) : e[p] = some[at[p]]
    <3>1. some \in Seq(X) /\ K \in SUBSET (1..Len(some))
      BY <1>1, <1>3
    <3> QED BY <3>1, EntriesList
  <2> HIDE DEF e
  <2> QED BY <2>1, LenProperties
<1> HIDE DEF e
<1>5. AllHits(e) = UNION {ToSet(some[i].hits) : i \in 1..n}
  <2>1. AllHits(e) = UNION {ToSet(some[i].hits) : i \in K}
    BY <1>4 DEF AllHits
  <2>2. \A i \in 1..n : i \notin K => ToSet(some[i].hits) = {}
    BY <1>1, <1>3, EmptyList
  <2>3. \A r : (\E i \in K : r \in ToSet(some[i].hits)) <=> \E i \in 1..n : r \in ToSet(some[i].hits)
    BY <1>3, <2>2
  <2> QED BY <2>1, <2>3
<1>6. AllHits(e) = AllHits(list) \cap kept
  BY <1>0, <1>2, <1>5
<1>7. \A s \in ToSet(e) : s.hits # << >>
  BY <1>3, <1>4
<1>8. ASSUME NEW P, Sole(list, P) PROVE Sole(e, P)
  <2> SUFFICES ASSUME NEW i \in 1..Len(e), NEW j \in 1..Len(e), NEW o \in P,
                      o \in ToSet(e[i].hits), o \in ToSet(e[j].hits)
               PROVE  i = j
    BY DEF Sole
  <2>1. PICK at : Leads(at, Len(e), K) /\ \A p \in 1..Len(e) : e[p] = some[at[p]]
    BY <1>4
  <2>2. at[i] \in 1..n /\ at[j] \in 1..n
    BY <1>3, <2>1 DEF Leads
  <2>3. o \in ToSet(list[at[i]].hits) /\ o \in ToSet(list[at[j]].hits)
    BY <1>0, <2>1, <2>2
  <2>4. at[i] = at[j]
    BY <1>0, <1>8, <2>2, <2>3 DEF Sole
  <2>5. i \in Nat /\ j \in Nat /\ at[i] \in Nat /\ at[j] \in Nat
    BY <1>4, <2>2
  <2>6. ~(i < j) /\ ~(j < i)
    BY <2>1, <2>4, <2>5 DEF Leads
  <2> QED BY <2>5, <2>6
<1>9. WithHits(some) = e
  BY DEF WithHits, e, K
<1>10. \A s \in ToSet(e) : \E i \in 1..n : s = some[i]
  BY <1>3, <1>4
<1> QED BY <1>0, <1>4, <1>6, <1>7, <1>8, <1>9, <1>10 DEF X

(* What keep_hits leaves.                                                  *)
LEMMA KeepHitsList ==
  ASSUME NEW msgs, NEW list \in Seq(Hydrated(msgs)), NEW kept
  PROVE  LET t == KeepHits(list, kept)
         IN /\ t \in Seq(Hydrated(msgs)) /\ AllHits(t) = AllHits(list) \cap kept /\ Apart(t)
            /\ OnceEach(list) => OnceEach(t)
            /\ \A P : Sole(list, P) => Sole(t, P)
<1> DEFINE Of(s) == [s EXCEPT !.hits = Within(@, kept),
                              !.context = Outside(s.hits \o @, kept \cap ToSet(s.hits))]
           some == [i \in DOMAIN list |-> Of(list[i])]
           t == KeepHits(list, kept)
           D == DOMAIN msgs
           n == Len(list)
<1>1. t = Entries(some, {i \in DOMAIN some : some[i].hits # << >>})
  BY DEF KeepHits, Where, Mapped
<1> HIDE DEF t
<1>2. n \in Nat /\ DOMAIN list = 1..n /\ DOMAIN some = 1..n
  BY HydratedParts
<1>3. ASSUME NEW i \in 1..n
      PROVE  /\ some[i] \in Hydrated(msgs) /\ ToSet(some[i].hits) = ToSet(list[i].hits) \cap kept
             /\ ToSet(some[i].hits) \cap ToSet(some[i].context) = {}
             /\ IsInjective(list[i].hits) => IsInjective(some[i].hits)
  <2> DEFINE s == list[i]
             h == Within(s.hits, kept)
             c == Outside(s.hits \o s.context, kept \cap ToSet(s.hits))
  <2>1. s.key \in Keys /\ s.hits \in Seq(D) /\ s.context \in Seq(D) /\ s \in Hydrated(msgs)
    BY HydratedParts
  <2>2. some[i] = [key |-> s.key, hits |-> h, context |-> c]
    BY <1>2, <2>1 DEF Hydrated
  <2> HIDE DEF some, s, D
  <2>3. h \in Seq(D) /\ ToSet(h) = ToSet(s.hits) \cap kept /\ (IsInjective(s.hits) => IsInjective(h))
    BY <2>1, WithinList
  <2>4. s.hits \o s.context \in Seq(D)
    BY <2>1, ConcatList
  <2>5. c \in Seq(D) /\ ToSet(c) = ToSet(s.hits \o s.context) \ (kept \cap ToSet(s.hits))
    <3> DEFINE z == s.hits \o s.context
               Z == kept \cap ToSet(s.hits)
    <3>1. z \in Seq(D)
      BY <2>4
    <3> HIDE DEF z, Z
    <3>2. Outside(z, Z) \in Seq(D) /\ ToSet(Outside(z, Z)) = ToSet(z) \ Z
      BY <3>1, WithinList
    <3> QED BY <3>2 DEF z, Z
  <2> HIDE DEF h, c
  <2>6. some[i].key = s.key /\ some[i].hits = h /\ some[i].context = c
    BY <2>2
  <2>7. some[i] \in Hydrated(msgs)
    BY <2>1, <2>2, <2>3, <2>5 DEF Hydrated, D
  <2> QED BY <2>3, <2>5, <2>6, <2>7 DEF s
<1>4. some \in Seq(Hydrated(msgs)) /\ Len(some) = n
  <2>1. some \in [1..n -> Hydrated(msgs)]
    BY <1>2, <1>3
  <2> HIDE DEF some
  <2> QED BY <1>2, <2>1
<1> HIDE DEF some
<1>5. /\ t \in Seq(Hydrated(msgs)) /\ (\A s \in ToSet(t) : \E i \in 1..n : s = some[i])
      /\ AllHits(t) = AllHits(list) \cap kept /\ \A P : Sole(list, P) => Sole(t, P)
  <2> DEFINE e == WithHits(some)
  <2>1. some \in Seq(Hydrated(msgs)) /\ SomeHits(some, list, kept)
    BY <1>3, <1>4 DEF SomeHits
  <2>2. /\ e \in Seq(Hydrated(msgs)) /\ (\A s \in ToSet(e) : \E i \in 1..Len(list) : s = some[i])
        /\ AllHits(e) = AllHits(list) \cap kept /\ \A P : Sole(list, P) => Sole(e, P)
    BY <2>1, Narrowing
  <2>3. t = e
    BY <1>1 DEF WithHits
  <2> HIDE DEF e
  <2> QED BY <1>4, <2>2, <2>3
<1>6. Apart(t)
  BY <1>3, <1>5 DEF Apart
<1>7. OnceEach(list) => OnceEach(t)
  <2>1. ToSet(list) = {list[i] : i \in 1..n}
    BY HydratedParts
  <2> QED BY <1>3, <1>5, <2>1 DEF OnceEach
<1> QED BY <1>5, <1>6, <1>7 DEF t

(* The hits of all sessions in one list.                                   *)
HitsOf(list) == Joined([i \in DOMAIN list |-> list[i].hits])

(* It has the hits of every session, and no others.                        *)
LEMMA HitsOfList ==
  ASSUME NEW msgs, NEW list \in Seq(Hydrated(msgs))
  PROVE  /\ HitsOf(list) \in Seq(DOMAIN msgs) /\ ToSet(HitsOf(list)) = AllHits(list)
         /\ [i \in DOMAIN list |-> list[i].hits] \in Seq(Seq(DOMAIN msgs))
         /\ Len([i \in DOMAIN list |-> list[i].hits]) = Len(list)
<1> DEFINE D == DOMAIN msgs
           Y == Seq(D)
           n == Len(list)
           lists == [i \in DOMAIN list |-> list[i].hits]
<1>1. /\ n \in Nat /\ DOMAIN list = 1..n /\ \A i \in 1..n : list[i].hits \in Y
      /\ AllHits(list) = UNION {ToSet(list[i].hits) : i \in 1..n}
  BY HydratedParts
<1>2. lists \in [1..n -> Y] /\ DOMAIN lists = 1..n /\ \A i \in 1..n : lists[i] = list[i].hits
  BY <1>1
<1>3. HitsOf(list) = Joined(lists)
  BY DEF HitsOf
<1> HIDE DEF lists, Y, n
<1>4. lists \in Seq(Y) /\ Len(lists) = n
  BY <1>1, <1>2
<1>5. lists \in Seq(Seq(D))
  BY <1>4 DEF Y
<1> HIDE DEF D
<1>6. Joined(lists) \in Seq(D) /\ ToSet(Joined(lists)) = UNION {ToSet(lists[i]) : i \in DOMAIN lists}
  BY <1>5, JoinedList
<1>7. ToSet(Joined(lists)) = AllHits(list)
  BY <1>1, <1>2, <1>6
<1> QED BY <1>3, <1>4, <1>5, <1>6, <1>7 DEF D, lists, n

(* What _newest_hits_only leaves: of all hits those with a date among the  *)
(* newest.                                                                 *)
Newest(msgs, list, budget) == ToSet(Upto(NewestFirst(msgs, HitsOf(list)), budget))

(* Sessions keep their hits among the newest, what exceeds the budget is   *)
(* context.                                                                *)
LEMMA NewestHitsOnlyList ==
  ASSUME NEW msgs \in Seq(Arrivals), NEW list \in Seq(Hydrated(msgs)), NEW budget
  PROVE  LET t == NewestHitsOnly(msgs, list, budget)
         IN /\ t \in Seq(Hydrated(msgs)) /\ AllHits(t) = AllHits(list) \cap Newest(msgs, list, budget)
            /\ \A s \in ToSet(t) : s.hits # << >>
            /\ OnceEach(list) => OnceEach(t)
            /\ Apart(list) => Apart(t)
            /\ \A P : Sole(list, P) => Sole(t, P)
<1> DEFINE keep == Newest(msgs, list, budget)
           Of(s) == [s EXCEPT !.hits = NewestFirst(msgs, Within(@, keep)),
                              !.context = Outside(s.hits, keep) \o @]
           some == [i \in DOMAIN list |-> Of(list[i])]
           t == NewestHitsOnly(msgs, list, budget)
           D == DOMAIN msgs
           n == Len(list)
<1>1. t = Entries(some, {i \in DOMAIN some : some[i].hits # << >>})
  BY DEF NewestHitsOnly, Where, Mapped, Newest, HitsOf
<1> HIDE DEF t
<1>2. n \in Nat /\ DOMAIN list = 1..n /\ DOMAIN some = 1..n
  BY HydratedParts
<1> HIDE DEF keep
<1>3. ASSUME NEW i \in 1..n
      PROVE  /\ some[i] \in Hydrated(msgs) /\ ToSet(some[i].hits) = ToSet(list[i].hits) \cap keep
             /\ IsInjective(list[i].hits) => IsInjective(some[i].hits)
             /\ ToSet(list[i].hits) \cap ToSet(list[i].context) = {} =>
                  ToSet(some[i].hits) \cap ToSet(some[i].context) = {}
  <2> DEFINE s == list[i]
             w == Within(s.hits, keep)
             h == NewestFirst(msgs, w)
             o == Outside(s.hits, keep)
             c == o \o s.context
  <2>1. s.key \in Keys /\ s.hits \in Seq(D) /\ s.context \in Seq(D) /\ s \in Hydrated(msgs)
    BY HydratedParts
  <2>2. some[i] = [key |-> s.key, hits |-> h, context |-> c]
    BY <1>2, <2>1 DEF Hydrated
  <2> HIDE DEF some, s
  <2>3. w \in Seq(D) /\ ToSet(w) = ToSet(s.hits) \cap keep /\ (IsInjective(s.hits) => IsInjective(w))
    <3> HIDE DEF D
    <3> QED BY <2>1, WithinList
  <2>4. o \in Seq(D) /\ ToSet(o) = ToSet(s.hits) \ keep
    <3> HIDE DEF D
    <3> QED BY <2>1, WithinList
  <2> HIDE DEF w, o
  <2>5. h \in Seq(D) /\ ToSet(h) = ToSet(w) /\ (IsInjective(w) => IsInjective(h))
    BY <2>3, NewestList
  <2>6. c \in Seq(D) /\ ToSet(c) = ToSet(o) \cup ToSet(s.context)
    <3> HIDE DEF D
    <3> QED BY <2>1, <2>4, ConcatList
  <2> HIDE DEF h, c, D
  <2>7. some[i].key = s.key /\ some[i].hits = h /\ some[i].context = c
    BY <2>2
  <2>8. some[i] \in Hydrated(msgs)
    BY <2>1, <2>2, <2>5, <2>6 DEF Hydrated, D
  <2> QED BY <2>3, <2>4, <2>5, <2>6, <2>7, <2>8 DEF s
<1>4. some \in Seq(Hydrated(msgs)) /\ Len(some) = n
  <2>1. some \in [1..n -> Hydrated(msgs)]
    BY <1>2, <1>3
  <2> HIDE DEF some
  <2> QED BY <1>2, <2>1
<1> HIDE DEF some
<1>5. /\ t \in Seq(Hydrated(msgs)) /\ (\A s \in ToSet(t) : \E i \in 1..n : s = some[i])
      /\ AllHits(t) = AllHits(list) \cap keep /\ (\A s \in ToSet(t) : s.hits # << >>)
      /\ \A P : Sole(list, P) => Sole(t, P)
  <2> DEFINE e == WithHits(some)
  <2>1. some \in Seq(Hydrated(msgs)) /\ SomeHits(some, list, keep)
    BY <1>3, <1>4 DEF SomeHits
  <2>2. /\ e \in Seq(Hydrated(msgs)) /\ (\A s \in ToSet(e) : \E i \in 1..Len(list) : s = some[i])
        /\ AllHits(e) = AllHits(list) \cap keep /\ (\A s \in ToSet(e) : s.hits # << >>)
        /\ \A P : Sole(list, P) => Sole(e, P)
    BY <2>1, Narrowing
  <2>3. t = e
    BY <1>1 DEF WithHits
  <2> HIDE DEF e
  <2> QED BY <1>4, <2>2, <2>3
<1>6. ToSet(list) = {list[i] : i \in 1..n}
  BY HydratedParts
<1>7. Apart(list) => Apart(t)
  <2> SUFFICES ASSUME Apart(list), NEW s \in ToSet(t) PROVE ToSet(s.hits) \cap ToSet(s.context) = {}
    BY DEF Apart
  <2>1. PICK i \in 1..n : s = some[i]
    BY <1>5
  <2>2. list[i] \in ToSet(list)
    BY <1>6
  <2>3. ToSet(list[i].hits) \cap ToSet(list[i].context) = {}
    BY <2>2 DEF Apart
  <2> QED BY <1>3, <2>1, <2>3
<1>8. OnceEach(list) => OnceEach(t)
  BY <1>3, <1>5, <1>6 DEF OnceEach
<1> QED BY <1>5, <1>7, <1>8 DEF t, keep

(* The filters for sender, side and media leave what is of their kind.     *)
LEMMA NarrowedList ==
  ASSUME live \in Seq(Arrivals), NEW q, NEW list \in Seq(Hydrated(live))
  PROVE  LET t == Narrowed(q, list)
         IN /\ t \in Seq(Hydrated(live))
            /\ AllHits(t) = {r \in AllHits(list) : OfKind(live[r], q)}
            /\ OnceEach(list) => OnceEach(t)
            /\ q.sender # {} \/ q.filter.media => Apart(t)
            /\ \A P : Sole(list, P) => Sole(t, P)
<1> DEFINE A == {r \in DOMAIN live : ~live[r].me /\ live[r].who \in q.sender}
           B == {r \in DOMAIN live : live[r].me = q.me}
           M == {r \in DOMAIN live : HasAttachment(live[r])}
           side == IF q.sender # {} THEN KeepHits(list, A)
                   ELSE IF q.me # Unset THEN KeepHits(list, B) ELSE list
           t == Narrowed(q, list)
           H == Hydrated(live)
<1>1. t = IF q.filter.media THEN KeepHits(side, M) ELSE side
  BY DEF Narrowed, FilterBySender, FilterByFromMe, FilterByMedia
<1> HIDE DEF t
<1>2. AllHits(list) \subseteq DOMAIN live
  <2>1. \A i \in 1..Len(list) : ToSet(list[i].hits) \subseteq DOMAIN live
    <3>1. \A i \in 1..Len(list) : list[i].hits \in Seq(DOMAIN live)
      BY HydratedParts
    <3> DEFINE D == DOMAIN live
    <3> HIDE DEF D
    <3>2. \A h \in Seq(D) : ToSet(h) \subseteq D
      BY LenProperties DEF ToSet
    <3> QED BY <3>1, <3>2 DEF D
  <2>2. AllHits(list) = UNION {ToSet(list[i].hits) : i \in 1..Len(list)}
    BY HydratedParts
  <2> QED BY <2>1, <2>2
<1>3. /\ side \in Seq(H) /\ (OnceEach(list) => OnceEach(side)) /\ (q.sender # {} => Apart(side))
      /\ AllHits(side) = {r \in AllHits(list) :
                            /\ q.sender # {} => live[r].who \in q.sender /\ ~live[r].me
                            /\ (q.sender = {} /\ q.me # Unset) => live[r].me = q.me}
      /\ \A P : Sole(list, P) => Sole(side, P)
  <2>1. CASE q.sender # {}
    <3>1. side = KeepHits(list, A)
      BY <2>1
    <3> HIDE DEF side, A, B, H
    <3>2. /\ side \in Seq(H) /\ AllHits(side) = AllHits(list) \cap A /\ Apart(side)
          /\ (OnceEach(list) => OnceEach(side)) /\ \A P : Sole(list, P) => Sole(side, P)
      BY <3>1, KeepHitsList DEF H
    <3> QED BY <1>2, <2>1, <3>2 DEF A
  <2>2. CASE q.sender = {} /\ q.me # Unset
    <3>1. side = KeepHits(list, B)
      BY <2>2
    <3> HIDE DEF side, A, B, H
    <3>2. /\ side \in Seq(H) /\ AllHits(side) = AllHits(list) \cap B
          /\ (OnceEach(list) => OnceEach(side)) /\ \A P : Sole(list, P) => Sole(side, P)
      BY <3>1, KeepHitsList DEF H
    <3> QED BY <1>2, <2>2, <3>2 DEF B
  <2>3. CASE q.sender = {} /\ q.me = Unset
    <3>1. side = list
      BY <2>3
    <3> HIDE DEF side, A, B
    <3> QED BY <2>3, <3>1
  <2> QED BY <2>1, <2>2, <2>3
<1> HIDE DEF side, H, A, B, M
<1>4. CASE q.filter.media
  <2>1. /\ t \in Seq(H) /\ AllHits(t) = AllHits(side) \cap M /\ Apart(t)
        /\ (OnceEach(side) => OnceEach(t)) /\ \A P : Sole(side, P) => Sole(t, P)
    BY <1>1, <1>3, <1>4, KeepHitsList DEF H
  <2>2. AllHits(t) = {r \in AllHits(list) : OfKind(live[r], q)}
    BY <1>2, <1>3, <1>4, <2>1 DEF M, OfKind, HasAttachment
  <2> QED BY <1>3, <2>1, <2>2 DEF t, H
<1>5. CASE ~q.filter.media
  <2>1. AllHits(t) = {r \in AllHits(list) : OfKind(live[r], q)}
    BY <1>1, <1>3, <1>5 DEF OfKind
  <2> QED BY <1>1, <1>3, <1>5, <2>1 DEF t, H
<1> QED BY <1>4, <1>5

(* The sessions of a key.                                                  *)
OfKey(k, list) == Entries(list, {i \in DOMAIN list : list[i].key = k})

(* Where there is a session of a key, the first such session bears the     *)
(* key.                                                                    *)
LEMMA OfKeyList ==
  ASSUME NEW msgs, NEW list \in Seq(Hydrated(msgs)), NEW k
  PROVE  /\ OfKey(k, list) = << >> <=> \A s \in ToSet(list) : s.key # k
         /\ OfKey(k, list) # << >> =>
              Head(OfKey(k, list)) \in ToSet(list) /\ Head(OfKey(k, list)).key = k
<1> DEFINE K == {i \in DOMAIN list : list[i].key = k}
           e == Entries(list, K)
           X == Hydrated(msgs)
<1>1. DOMAIN list = 1..Len(list) /\ ToSet(list) = {list[i] : i \in 1..Len(list)}
  BY HydratedParts
<1>2. OfKey(k, list) = e
  BY DEF OfKey
<1>3. K \in SUBSET (1..Len(list)) /\ \A i \in 1..Len(list) : i \in K <=> list[i].key = k
  BY <1>1
<1> HIDE DEF K, X
<1>4. e \in Seq(X) /\ ToSet(e) = {list[i] : i \in K}
  BY <1>3, EntriesList DEF X
<1> HIDE DEF e
<1>5. e = << >> <=> ToSet(e) = {}
  BY <1>4, EmptyList
<1>6. e # << >> => Head(e) \in ToSet(e)
  <2>1. e # << >> => Len(e) # 0 /\ Len(e) \in Nat /\ DOMAIN e = 1..Len(e)
    BY <1>4, EmptyList, LenProperties
  <2>2. e # << >> => 1 \in DOMAIN e
    BY <2>1
  <2>3. e # << >> => e[1] \in ToSet(e)
    BY <2>2 DEF ToSet
  <2>4. Head(e) = e[1]
    OBVIOUS
  <2> QED BY <2>3, <2>4
<1> QED BY <1>1, <1>2, <1>3, <1>4, <1>5, <1>6

(* A session of the index with what the tail has of its day.               *)
Extended(msgs, s, tails) ==
  IF OfKey(s.key, tails) = << >> THEN s
  ELSE [s EXCEPT !.hits =
          NewestFirst(msgs, @ \o Outside(Head(OfKey(s.key, tails)).hits, ToSet(@)))]

OfTail(r, k, tails) == \E s \in ToSet(tails) : s.key = k /\ r \in ToSet(s.hits)

(* A session and the tail's session of its key: all hits of both, each     *)
(* once.                                                                   *)
LEMMA ExtendedSession ==
  ASSUME NEW msgs \in Seq(Arrivals), NEW tails \in Seq(Hydrated(msgs)), NEW s \in Hydrated(msgs)
  PROVE  LET e == Extended(msgs, s, tails)
         IN /\ e \in Hydrated(msgs) /\ e.key = s.key /\ ToSet(s.hits) \subseteq ToSet(e.hits)
            /\ \A r \in ToSet(e.hits) : r \in ToSet(s.hits) \/ OfTail(r, s.key, tails)
            /\ KeysOnce(tails) => \A r : OfTail(r, s.key, tails) => r \in ToSet(e.hits)
            /\ OnceEach(tails) /\ IsInjective(s.hits) => IsInjective(e.hits)
<1> DEFINE e == Extended(msgs, s, tails)
           o == OfKey(s.key, tails)
           D == DOMAIN msgs
<1>1. s.key \in Keys /\ s.hits \in Seq(D) /\ s.context \in Seq(D)
      /\ s = [key |-> s.key, hits |-> s.hits, context |-> s.context]
  BY DEF Hydrated
<1>2. /\ o = << >> <=> \A t \in ToSet(tails) : t.key # s.key
      /\ o # << >> => Head(o) \in ToSet(tails) /\ Head(o).key = s.key
  BY OfKeyList
<1> HIDE DEF o
<1>3. CASE o = << >>
  <2>1. e = s
    BY <1>3 DEF Extended, o
  <2> HIDE DEF e
  <2> QED BY <1>2, <1>3, <2>1 DEF OfTail, e
<1>4. CASE o # << >>
  <2> DEFINE t == Head(o)
             x == Outside(t.hits, ToSet(s.hits))
             c == s.hits \o x
             h == NewestFirst(msgs, c)
  <2>1. e = [key |-> s.key, hits |-> h, context |-> s.context]
    BY <1>1, <1>4 DEF Extended, o
  <2> HIDE DEF t
  <2>2. t \in ToSet(tails) /\ t.key = s.key /\ t.hits \in Seq(D)
    <3>1. t \in ToSet(tails) /\ t.key = s.key
      BY <1>2, <1>4 DEF t
    <3>2. t \in Hydrated(msgs)
      BY <3>1, HydratedParts
    <3> QED BY <3>1, <3>2 DEF Hydrated
  <2> HIDE DEF D
  <2>3. x \in Seq(D) /\ ToSet(x) = ToSet(t.hits) \ ToSet(s.hits) /\ (IsInjective(t.hits) => IsInjective(x))
    BY <2>2, WithinList
  <2> HIDE DEF x
  <2>4. /\ c \in Seq(D) /\ ToSet(c) = ToSet(s.hits) \cup ToSet(t.hits)
        /\ IsInjective(s.hits) /\ IsInjective(t.hits) => IsInjective(c)
    <3>1. s.hits \in Seq(D)
      BY <1>1
    <3>2. /\ c \in Seq(D) /\ ToSet(c) = ToSet(s.hits) \cup ToSet(x)
          /\ IsInjective(s.hits) /\ IsInjective(x) /\ ToSet(s.hits) \cap ToSet(x) = {} => IsInjective(c)
      BY <2>3, <3>1, ConcatList
    <3> QED BY <2>3, <3>2
  <2> HIDE DEF c
  <2>5. h \in Seq(D) /\ ToSet(h) = ToSet(c) /\ (IsInjective(c) => IsInjective(h))
    BY <2>4, NewestList DEF D
  <2> HIDE DEF h
  <2>6. e.key = s.key /\ e.hits = h /\ e \in Hydrated(msgs)
    BY <1>1, <2>1, <2>5 DEF Hydrated, D
  <2>7. ToSet(e.hits) = ToSet(s.hits) \cup ToSet(t.hits)
    BY <2>4, <2>5, <2>6
  <2>8. KeysOnce(tails) => \A u \in ToSet(tails) : u.key = s.key => u = t
    <3>1. ToSet(tails) = {tails[i] : i \in 1..Len(tails)}
      BY HydratedParts
    <3> QED BY <2>2, <3>1 DEF KeysOnce
  <2>9. OnceEach(tails) => IsInjective(t.hits)
    BY <2>2 DEF OnceEach
  <2> HIDE DEF e
  <2>10. \A r \in ToSet(e.hits) : r \in ToSet(s.hits) \/ OfTail(r, s.key, tails)
    BY <2>2, <2>7 DEF OfTail
  <2>11. KeysOnce(tails) => \A r : OfTail(r, s.key, tails) => r \in ToSet(e.hits)
    BY <2>7, <2>8 DEF OfTail
  <2>12. OnceEach(tails) /\ IsInjective(s.hits) => IsInjective(e.hits)
    BY <2>4, <2>5, <2>6, <2>9
  <2> QED BY <2>6, <2>7, <2>10, <2>11, <2>12 DEF e
<1> QED BY <1>3, <1>4

(* What merge_sessions makes of the tail and the picked sessions.          *)
LEMMA MergedList ==
  ASSUME NEW msgs \in Seq(Arrivals), NEW tails \in Seq(Hydrated(msgs)), NEW list \in Seq(Hydrated(msgs))
  PROVE  LET m == MergeSessions(msgs, tails, list)
         IN /\ m \in Seq(Hydrated(msgs))
            /\ AllHits(m) \subseteq AllHits(tails) \cup AllHits(list)
            /\ AllHits(list) \subseteq AllHits(m)
            /\ KeysOnce(tails) => AllHits(tails) \subseteq AllHits(m)
            /\ OnceEach(tails) /\ OnceEach(list) => OnceEach(m)
            /\ KeysOnce(tails) /\ KeysOnce(list) =>
                 \A P : AllHits(list) \cap P = {} /\ Sole(tails, P) => Sole(m, P)
<1> DEFINE m == MergeSessions(msgs, tails, list)
           K == {i \in DOMAIN tails : OfKey(tails[i].key, list) = << >>}
           b == [i \in DOMAIN list |-> Extended(msgs, list[i], tails)]
           w == Entries(tails, K)
           X == Hydrated(msgs)
           n == Len(list)
<1>1. m = b \o w
  BY DEF MergeSessions, Extended, OfKey, Mapped, Where
<1> HIDE DEF m
<1>2. /\ n \in Nat /\ DOMAIN list = 1..n /\ (\A i \in 1..n : list[i] \in X)
      /\ ToSet(list) = {list[i] : i \in 1..n}
      /\ DOMAIN tails = 1..Len(tails) /\ Len(tails) \in Nat /\ ToSet(tails) = {tails[i] : i \in 1..Len(tails)}
      /\ \A i \in 1..Len(tails) : tails[i] \in X
  BY HydratedParts
<1>3. /\ DOMAIN b = 1..n
      /\ \A i \in 1..n :
           /\ b[i] \in X /\ b[i].key = list[i].key /\ ToSet(list[i].hits) \subseteq ToSet(b[i].hits)
           /\ \A r \in ToSet(b[i].hits) : r \in ToSet(list[i].hits) \/ OfTail(r, list[i].key, tails)
           /\ KeysOnce(tails) => \A r : OfTail(r, list[i].key, tails) => r \in ToSet(b[i].hits)
           /\ OnceEach(tails) /\ IsInjective(list[i].hits) => IsInjective(b[i].hits)
  <2>1. DOMAIN b = 1..n /\ \A i \in 1..n : b[i] = Extended(msgs, list[i], tails)
    BY <1>2
  <2> HIDE DEF b
  <2> SUFFICES ASSUME NEW i \in 1..n
               PROVE  /\ b[i] \in X /\ b[i].key = list[i].key /\ ToSet(list[i].hits) \subseteq ToSet(b[i].hits)
                      /\ \A r \in ToSet(b[i].hits) : r \in ToSet(list[i].hits) \/ OfTail(r, list[i].key, tails)
                      /\ KeysOnce(tails) => \A r : OfTail(r, list[i].key, tails) => r \in ToSet(b[i].hits)
                      /\ OnceEach(tails) /\ IsInjective(list[i].hits) => IsInjective(b[i].hits)
    BY <2>1
  <2> DEFINE s == list[i]
             e == Extended(msgs, s, tails)
  <2>2. s \in Hydrated(msgs) /\ b[i] = e
    BY <1>2, <2>1
  <2> HIDE DEF s
  <2>3. /\ e \in Hydrated(msgs) /\ e.key = s.key /\ ToSet(s.hits) \subseteq ToSet(e.hits)
        /\ \A r \in ToSet(e.hits) : r \in ToSet(s.hits) \/ OfTail(r, s.key, tails)
        /\ KeysOnce(tails) => \A r : OfTail(r, s.key, tails) => r \in ToSet(e.hits)
        /\ OnceEach(tails) /\ IsInjective(s.hits) => IsInjective(e.hits)
    BY <2>2, ExtendedSession
  <2> HIDE DEF e
  <2> QED BY <2>2, <2>3 DEF s
<1>4. b \in Seq(X) /\ Len(b) = n
  <2>1. b \in [1..n -> X]
    BY <1>3
  <2> HIDE DEF b, X
  <2> QED BY <1>2, <2>1
<1> HIDE DEF b, n
<1>5. /\ K \in SUBSET (1..Len(tails)) /\ tails \in Seq(X)
      /\ \A j \in 1..Len(tails) : j \in K <=> \A i \in 1..n : list[i].key # tails[j].key
  <2>1. \A j \in 1..Len(tails) : OfKey(tails[j].key, list) = << >>
                                  <=> \A s \in ToSet(list) : s.key # tails[j].key
    BY OfKeyList
  <2>2. K \in SUBSET (1..Len(tails)) /\ tails \in Seq(X)
    BY <1>2
  <2> QED BY <1>2, <2>1, <2>2
<1> HIDE DEF K, X
<1>6. /\ w \in Seq(X) /\ ToSet(w) = {tails[j] : j \in K} /\ DOMAIN w = 1..Len(w) /\ Len(w) \in Nat
      /\ \E at : Leads(at, Len(w), K) /\ \A p \in 1..Len(w) : w[p] = tails[at[p]]
  <2>1. /\ w \in Seq(X) /\ ToSet(w) = {tails[j] : j \in K}
        /\ \E at : Leads(at, Len(w), K) /\ \A p \in 1..Len(w) : w[p] = tails[at[p]]
    BY <1>5, EntriesList
  <2> HIDE DEF w
  <2> QED BY <2>1, LenProperties
<1> HIDE DEF w
<1>7. /\ m \in Seq(X) /\ Len(m) = n + Len(w) /\ ToSet(m) = ToSet(b) \cup ToSet(w)
      /\ \A i \in 1..Len(m) : m[i] = IF i <= n THEN b[i] ELSE w[i - n]
  <2>1. m \in Seq(X) /\ Len(m) = Len(b) + Len(w) /\ ToSet(m) = ToSet(b) \cup ToSet(w)
    <3> DEFINE c == b \o w
    <3>1. b \in Seq(X) /\ w \in Seq(X)
      BY <1>4, <1>6
    <3>2. c \in Seq(X) /\ Len(c) = Len(b) + Len(w) /\ ToSet(c) = ToSet(b) \cup ToSet(w)
      BY <3>1, ConcatList
    <3>3. m = c
      BY <1>1
    <3> HIDE DEF c
    <3> QED BY <3>2, <3>3
  <2>2. \A i \in 1..Len(b) + Len(w) : m[i] = IF i <= Len(b) THEN b[i] ELSE w[i - Len(b)]
    BY <1>1, <1>4, <1>6, ConcatProperties
  <2> QED BY <1>4, <2>1, <2>2
<1>8. ToSet(b) = {b[i] : i \in 1..n}
  BY <1>3 DEF ToSet
<1>9. \A r : r \in AllHits(m) <=> \/ \E i \in 1..n : r \in ToSet(b[i].hits)
                                 \/ \E j \in K : r \in ToSet(tails[j].hits)
  <2>1. \A r : r \in AllHits(m) <=> \E s \in ToSet(b) \cup ToSet(w) : r \in ToSet(s.hits)
    BY <1>7 DEF AllHits
  <2>2. \A r : (\E s \in ToSet(b) : r \in ToSet(s.hits)) <=> \E i \in 1..n : r \in ToSet(b[i].hits)
    BY <1>8
  <2>3. \A r : (\E s \in ToSet(w) : r \in ToSet(s.hits)) <=> \E j \in K : r \in ToSet(tails[j].hits)
    BY <1>6
  <2> QED BY <2>1, <2>2, <2>3
<1>10. /\ \A r : r \in AllHits(list) <=> \E i \in 1..n : r \in ToSet(list[i].hits)
       /\ \A r : r \in AllHits(tails) <=> \E j \in 1..Len(tails) : r \in ToSet(tails[j].hits)
  BY <1>2 DEF AllHits
<1>11. \A r, k : OfTail(r, k, tails) <=> \E j \in 1..Len(tails) : tails[j].key = k /\ r \in ToSet(tails[j].hits)
  BY <1>2 DEF OfTail
<1>12. AllHits(m) \subseteq AllHits(tails) \cup AllHits(list) /\ AllHits(list) \subseteq AllHits(m)
  <2>1. \A i \in 1..n : \A r \in ToSet(b[i].hits) : r \in AllHits(tails) \cup AllHits(list)
    BY <1>3, <1>10, <1>11
  <2>2. \A i \in 1..n : \A r \in ToSet(list[i].hits) : r \in AllHits(m)
    BY <1>3, <1>9
  <2>3. \A j \in K : j \in 1..Len(tails)
    BY <1>5
  <2>4. \A j \in K : \A r \in ToSet(tails[j].hits) : r \in AllHits(tails)
    BY <1>10, <2>3
  <2>5. \A r \in AllHits(m) : r \in AllHits(tails) \cup AllHits(list)
    BY <1>9, <2>1, <2>4
  <2>6. \A r \in AllHits(list) : r \in AllHits(m)
    BY <1>10, <2>2
  <2> QED BY <2>5, <2>6
<1>13. KeysOnce(tails) => AllHits(tails) \subseteq AllHits(m)
  <2> SUFFICES ASSUME KeysOnce(tails), NEW j \in 1..Len(tails), NEW r \in ToSet(tails[j].hits)
               PROVE  r \in AllHits(m)
    <3>1. \A r \in AllHits(tails) : \E j \in 1..Len(tails) : r \in ToSet(tails[j].hits)
      BY <1>10
    <3> QED BY <3>1
  <2>1. CASE j \in K
    BY <1>9, <2>1
  <2>2. CASE j \notin K
    <3>1. PICK i \in 1..n : list[i].key = tails[j].key
      BY <1>5, <2>2
    <3>2. r \in ToSet(b[i].hits)
      BY <1>3, <1>11, <3>1
    <3> QED BY <1>9, <3>2
  <2> QED BY <2>1, <2>2
<1>14. OnceEach(tails) /\ OnceEach(list) => OnceEach(m)
  <2> SUFFICES ASSUME OnceEach(tails), OnceEach(list), NEW s \in ToSet(m) PROVE IsInjective(s.hits)
    BY DEF OnceEach
  <2>1. CASE s \in ToSet(b)
    <3>1. PICK i \in 1..n : s = b[i]
      BY <1>8, <2>1
    <3>2. IsInjective(list[i].hits)
      BY <1>2 DEF OnceEach
    <3> QED BY <1>3, <3>1, <3>2
  <2>2. CASE s \in ToSet(w)
    <3>1. PICK j \in K : s = tails[j]
      BY <1>6, <2>2
    <3>2. j \in 1..Len(tails)
      BY <1>5
    <3>3. tails[j] \in ToSet(tails)
      BY <1>2, <3>2
    <3> QED BY <3>1, <3>3 DEF OnceEach
  <2> QED BY <1>7, <2>1, <2>2
<1>15. ASSUME KeysOnce(tails), KeysOnce(list), NEW P, AllHits(list) \cap P = {}, Sole(tails, P)
       PROVE  Sole(m, P)
  <2>1. PICK at : Leads(at, Len(w), K) /\ \A p \in 1..Len(w) : w[p] = tails[at[p]]
    BY <1>6
  <2>2. \A i \in 1..Len(m) : i <= n => i \in 1..n /\ m[i] = b[i]
    BY <1>2, <1>6, <1>7 DEF n
  <2>3. \A i \in 1..Len(m) : ~(i <= n) => i - n \in 1..Len(w) /\ m[i] = w[i - n]
    BY <1>2, <1>6, <1>7 DEF n
  <2>4. \A p \in 1..Len(w) : at[p] \in K
    BY <2>1 DEF Leads
  <2>5. \A p, p2 \in 1..Len(w) : at[p] = at[p2] => p = p2
    <3> SUFFICES ASSUME NEW p \in 1..Len(w), NEW p2 \in 1..Len(w), at[p] = at[p2] PROVE p = p2
      OBVIOUS
    <3>1. at[p] \in Nat /\ at[p2] \in Nat /\ p \in Nat /\ p2 \in Nat
      <4>1. at[p] \in 1..Len(tails) /\ at[p2] \in 1..Len(tails)
        BY <1>5, <2>4
      <4> QED BY <4>1
    <3>2. ~(p < p2) /\ ~(p2 < p)
      BY <2>1, <3>1 DEF Leads
    <3> QED BY <3>1, <3>2
  <2> SUFFICES ASSUME NEW i \in 1..Len(m), NEW j \in 1..Len(m), NEW o \in P,
                      o \in ToSet(m[i].hits), o \in ToSet(m[j].hits)
               PROVE  i = j
    BY DEF Sole
  <2>6. \A h \in 1..Len(m) : o \in ToSet(m[h].hits) => OfTail(o, m[h].key, tails)
    <3> SUFFICES ASSUME NEW h \in 1..Len(m), o \in ToSet(m[h].hits) PROVE OfTail(o, m[h].key, tails)
      OBVIOUS
    <3>1. CASE h <= n
      <4>1. h \in 1..n /\ m[h] = b[h]
        BY <2>2, <3>1
      <4>2. o \notin ToSet(list[h].hits)
        BY <1>10, <1>15, <4>1
      <4> QED BY <1>3, <4>1, <4>2
    <3>2. CASE ~(h <= n)
      <4>1. h - n \in 1..Len(w) /\ m[h] = tails[at[h - n]] /\ at[h - n] \in 1..Len(tails)
        BY <1>5, <2>1, <2>3, <2>4, <3>2
      <4> QED BY <1>11, <4>1
    <3> QED BY <3>1, <3>2
  <2>7. m[i].key = m[j].key
    <3>1. PICK a \in 1..Len(tails) : tails[a].key = m[i].key /\ o \in ToSet(tails[a].hits)
      BY <1>11, <2>6
    <3>2. PICK c \in 1..Len(tails) : tails[c].key = m[j].key /\ o \in ToSet(tails[c].hits)
      BY <1>11, <2>6
    <3>3. a = c
      BY <1>15, <3>1, <3>2 DEF Sole
    <3> QED BY <3>1, <3>2, <3>3
  <2>8. CASE i <= n /\ j <= n
    <3>1. i \in 1..n /\ j \in 1..n /\ list[i].key = list[j].key
      BY <1>3, <2>2, <2>7, <2>8
    <3> QED BY <1>15, <3>1 DEF KeysOnce, n
  <2>9. CASE ~(i <= n) /\ ~(j <= n)
    <3>1. /\ i - n \in 1..Len(w) /\ j - n \in 1..Len(w)
          /\ m[i] = tails[at[i - n]] /\ m[j] = tails[at[j - n]]
          /\ at[i - n] \in 1..Len(tails) /\ at[j - n] \in 1..Len(tails)
      BY <1>5, <2>1, <2>3, <2>4, <2>9
    <3>2. at[i - n] = at[j - n]
      BY <1>15, <2>7, <3>1 DEF KeysOnce
    <3>3. i - n = j - n
      BY <2>5, <3>1, <3>2
    <3>4. i \in Int /\ j \in Int /\ n \in Int
      BY <1>2, <1>6, <1>7 DEF n
    <3> QED BY <3>3, <3>4
  <2>10. \A h, g \in 1..Len(m) : h <= n /\ ~(g <= n) => m[h].key # m[g].key
    <3> SUFFICES ASSUME NEW h \in 1..Len(m), NEW g \in 1..Len(m), h <= n, ~(g <= n)
                 PROVE  m[h].key # m[g].key
      OBVIOUS
    <3>1. h \in 1..n /\ m[h].key = list[h].key
      BY <1>3, <2>2
    <3>2. g - n \in 1..Len(w) /\ m[g] = tails[at[g - n]] /\ at[g - n] \in K
      BY <2>1, <2>3, <2>4
    <3> QED BY <1>5, <3>1, <3>2
  <2> QED BY <2>7, <2>8, <2>9, <2>10
<1> QED BY <1>7, <1>12, <1>13, <1>14, <1>15 DEF m, X

-----------------------------------------------------------------------------
(* From chunks to messages.                                                *)

(* The messages with content of some chunks.                               *)
MessagesOf(ids) ==
  {r \in UNION {ToSet(rows[id].messages) : id \in ids \cap DOMAIN rows} : HasContent(live[r])}

(* Hydrating chunks gives their messages with content, each once.          *)
LEMMA HydrateChunksList ==
  ASSUME live \in Seq(Arrivals), NEW n \in 0..Len(live), TableTrue(rows, n), NEW ids
  PROVE  LET h == HydrateChunks(live, rows, ids)
         IN h \in Seq(DOMAIN live) /\ IsInjective(h) /\ ToSet(h) = MessagesOf(ids)
<1> DEFINE M == MessagesOf(ids)
<1>1. M \in SUBSET (DOMAIN live)
  <2>1. \A id \in DOMAIN rows : ToSet(rows[id].messages) \subseteq 1..n
    <3>1. \A id \in DOMAIN rows : rows[id].messages \in Seq(1..n)
      BY DEF TableTrue, RowTrue
    <3>2. \A s \in Seq(1..n) : ToSet(s) \subseteq 1..n
      BY LenProperties DEF ToSet
    <3> QED BY <3>1, <3>2
  <2>2. 1..n \subseteq DOMAIN live
    BY LenProperties
  <2> QED BY <2>1, <2>2 DEF MessagesOf
<1>2. HydrateChunks(live, rows, ids) = OldestFirst(live, Ascending(M))
  BY DEF HydrateChunks, MessagesOf
<1> HIDE DEF M
<1> DEFINE t == OldestFirst(live, Ascending(M))
<1>3. t \in Seq(DOMAIN live) /\ ToSet(t) = M /\ IsInjective(t)
  BY <1>1, OldestOf
<1> QED BY <1>2, <1>3 DEF M

(* Hydrating sessions keeps their keys and gives the messages of their     *)
(* chunks.                                                                 *)
LEMMA HydrateSessionsList ==
  ASSUME live \in Seq(Arrivals), NEW n \in 0..Len(live), TableTrue(rows, n),
         NEW S, NEW list \in Seq(S), \A s \in S : s.key \in Keys
  PROVE  LET t == HydrateSessions(live, rows, list)
         IN /\ t \in Seq(Hydrated(live)) /\ Len(t) = Len(list) /\ OnceEach(t)
            /\ \A i \in 1..Len(list) : t[i].key = list[i].key /\ ToSet(t[i].hits) = MessagesOf(ToSet(list[i].hits))
<1> DEFINE t == HydrateSessions(live, rows, list)
           Of(s) == [key |-> s.key, hits |-> HydrateChunks(live, rows, ToSet(s.hits)),
                     context |-> HydrateChunks(live, rows, ContextOf(rows, s.key[1], ToSet(s.hits)))]
<1>1. t = [i \in DOMAIN list |-> Of(list[i])]
  BY DEF HydrateSessions, Mapped
<1> HIDE DEF t
<1>2. Len(list) \in Nat /\ DOMAIN list = 1..Len(list) /\ \A i \in 1..Len(list) : list[i] \in S
  BY LenProperties
<1>3. ASSUME NEW s \in S
      PROVE  /\ Of(s) \in Hydrated(live) /\ Of(s).key = s.key /\ IsInjective(Of(s).hits)
             /\ ToSet(Of(s).hits) = MessagesOf(ToSet(s.hits))
  <2> DEFINE h == HydrateChunks(live, rows, ToSet(s.hits))
             c == HydrateChunks(live, rows, ContextOf(rows, s.key[1], ToSet(s.hits)))
  <2>1. h \in Seq(DOMAIN live) /\ IsInjective(h) /\ ToSet(h) = MessagesOf(ToSet(s.hits))
    BY HydrateChunksList
  <2>2. c \in Seq(DOMAIN live)
    BY HydrateChunksList
  <2> HIDE DEF h, c
  <2>3. Of(s) = [key |-> s.key, hits |-> h, context |-> c]
    BY DEF h, c
  <2> HIDE DEF Of
  <2> QED BY <2>1, <2>2, <2>3 DEF Hydrated
<1> HIDE DEF Of
<1>4. \A i \in 1..Len(list) : t[i] = Of(list[i]) /\ t[i] \in Hydrated(live)
  BY <1>1, <1>2, <1>3
<1>5. t \in [1..Len(list) -> Hydrated(live)] /\ DOMAIN t = 1..Len(list)
  BY <1>1, <1>2, <1>4
<1>6. t \in Seq(Hydrated(live)) /\ Len(t) = Len(list)
  BY <1>2, <1>5
<1>7. OnceEach(t)
  BY <1>2, <1>3, <1>4, <1>5 DEF OnceEach, ToSet
<1> QED BY <1>2, <1>3, <1>4, <1>6, <1>7 DEF t

-----------------------------------------------------------------------------
(* The page that is shown.                                                 *)

NewestHit(msgs, s) == Max({msgs[r].ts : r \in ToSet(s.hits)})

(* It is the date of one of the hits, and none is later.                   *)
LEMMA NewestHitOf ==
  ASSUME NEW msgs \in Seq(Arrivals), NEW s \in Hydrated(msgs), s.hits # << >>
  PROVE  /\ NewestHit(msgs, s) \in Nat
         /\ \A r \in ToSet(s.hits) : msgs[r].ts <= NewestHit(msgs, s)
         /\ \E r \in ToSet(s.hits) : r \in DOMAIN msgs /\ msgs[r].ts = NewestHit(msgs, s)
<1> DEFINE T == {msgs[r].ts : r \in ToSet(s.hits)}
<1>1. s.hits \in Seq(DOMAIN msgs)
  BY DEF Hydrated
<1>2. /\ DOMAIN s.hits = 1..Len(s.hits) /\ Len(s.hits) \in Nat /\ ToSet(s.hits) \subseteq DOMAIN msgs
      /\ ToSet(s.hits) # {}
  <2> DEFINE D == DOMAIN msgs
             h == s.hits
  <2>1. h \in Seq(D) /\ h # << >>
    BY <1>1
  <2> HIDE DEF D, h
  <2>2. DOMAIN h = 1..Len(h) /\ Len(h) \in Nat /\ ToSet(h) \subseteq D /\ ToSet(h) # {}
    BY <2>1, LenProperties, EmptyList DEF ToSet
  <2> QED BY <2>2 DEF D, h
<1>3. T \in SUBSET (DOMAIN Day) /\ T # {}
  <2>1. \A r \in DOMAIN msgs : msgs[r] \in Arrivals
    BY LenProperties
  <2> QED BY <1>2, <2>1, Dated
<1>4. T \in SUBSET Nat /\ T # {}
  BY <1>3, AnswerAssumption
<1>5. IsFiniteSet(T)
  <2> DEFINE D == 1..Len(s.hits)
             f == [i \in D |-> msgs[s.hits[i]].ts]
  <2>1. IsFiniteSet(D)
    BY <1>2, FirstNumbers
  <2>2. ToSet(s.hits) = {s.hits[i] : i \in D}
    BY <1>2 DEF ToSet
  <2>3. f \in [D -> T] /\ \A x \in T : \E i \in D : f[i] = x
    BY <2>2
  <2> HIDE DEF f, D, T
  <2>4. f \in Surjection(D, T)
    BY <2>3 DEF Surjection
  <2> QED BY <2>1, <2>4, FS_Surjection
<1>6. Max(T) \in T /\ \A d \in T : d <= Max(T)
  <2> HIDE DEF T
  <2> QED BY <1>4, <1>5, GreatestOf
<1>7. NewestHit(msgs, s) = Max(T)
  BY DEF NewestHit
<1> HIDE DEF NewestHit
<1> DEFINE m == Max(T)
<1>8. m \in T /\ (\A d \in T : d <= m) /\ NewestHit(msgs, s) = m
  BY <1>6, <1>7
<1> HIDE DEF m
<1>9. PICK r \in ToSet(s.hits) : msgs[r].ts = m
  BY <1>8
<1> QED BY <1>2, <1>4, <1>8, <1>9

(* n other entries of a list whose keys are no smaller than that of j.     *)
Ahead(at, n, k, j) ==
  /\ at \in [1..n -> DOMAIN k]
  /\ \A p, q \in 1..n : at[p] = at[q] => p = q
  /\ \A p \in 1..n : at[p] # j /\ k[at[p]] >= k[j]

(* An entry that is not among the first n has n others ahead of it.        *)
LEMMA AmongFirst ==
  ASSUME NEW X, NEW s \in Seq(X), NEW k \in [1..Len(s) -> Int], NEW n \in Nat,
         NEW j \in 1..Len(s)
  PROVE  s[j] \in ToSet(Upto(Arranged(s, Order(k)), n)) \/ \E at : Ahead(at, n, k, j)
<1> DEFINE t == Arranged(s, Order(k))
           l == Len(s)
<1>1. l \in Nat /\ DOMAIN k = 1..l /\ \A i \in 1..l : k[i] \in Int
  BY LenProperties
<1>2. /\ t \in Seq(X) /\ Len(t) = l
      /\ \E at : Sorts(at, k, l) /\ \A p \in 1..l : at[p] \in 1..l /\ t[p] = s[at[p]]
  BY SortedList
<1> HIDE DEF t
<1>3. PICK at : Sorts(at, k, l) /\ \A p \in 1..l : at[p] \in 1..l /\ t[p] = s[at[p]]
  BY <1>2
<1>4. PICK p \in 1..l : at[p] = j
  BY <1>3 DEF Sorts
<1>5. ToSet(Upto(t, n)) = {t[i] : i \in {i \in 1..l : i <= n}}
  BY <1>2, CutList
<1>6. CASE p <= n
  <2>1. t[p] \in ToSet(Upto(t, n)) /\ t[p] = s[j]
    BY <1>3, <1>4, <1>5, <1>6
  <2> QED BY <2>1 DEF t
<1>7. CASE ~(p <= n)
  <2> DEFINE first == [i \in 1..n |-> at[i]]
  <2>1. \A i \in 1..n : i \in 1..l /\ i < p
    BY <1>1, <1>7
  <2>2. \A i, i2 \in 1..l : at[i] = at[i2] => i = i2
    <3> SUFFICES ASSUME NEW i \in 1..l, NEW i2 \in 1..l, at[i] = at[i2] PROVE i = i2
      OBVIOUS
    <3>1. ~(i < i2) /\ ~(i2 < i)
      <4>1. k[at[i]] = k[at[i2]] /\ k[at[i]] \in Int /\ at[i] \in Nat
        BY <1>1, <1>3
      <4>2. i < i2 => k[at[i]] > k[at[i2]] \/ (k[at[i]] = k[at[i2]] /\ at[i] < at[i2])
        BY <1>3 DEF Sorts
      <4>3. i2 < i => k[at[i2]] > k[at[i]] \/ (k[at[i2]] = k[at[i]] /\ at[i2] < at[i])
        BY <1>3 DEF Sorts
      <4>4. i < i2 => at[i] < at[i2]
        BY <4>1, <4>2
      <4>5. i2 < i => at[i2] < at[i]
        BY <4>1, <4>3
      <4> QED BY <4>1, <4>4, <4>5
    <3> QED BY <1>1, <3>1
  <2>3. ASSUME NEW i \in 1..n PROVE at[i] \in 1..l /\ at[i] # j /\ k[at[i]] >= k[j]
    <3>1. i \in 1..l /\ i < p
      BY <2>1
    <3>2. at[i] \in 1..l /\ at[p] = j
      BY <1>3, <1>4, <3>1
    <3>3. k[at[i]] > k[at[p]] \/ k[at[i]] = k[at[p]]
      BY <1>3, <3>1 DEF Sorts
    <3>4. k[at[i]] \in Int /\ k[at[p]] \in Int
      BY <1>1, <3>2
    <3>5. at[i] # at[p]
      BY <2>2, <3>1
    <3> QED BY <3>2, <3>3, <3>4, <3>5
  <2>4. first \in [1..n -> 1..l] /\ \A i \in 1..n : first[i] = at[i]
    BY <2>3
  <2> HIDE DEF first
  <2>5. Ahead(first, n, k, j)
    BY <1>1, <2>1, <2>2, <2>3, <2>4 DEF Ahead
  <2> QED BY <2>5
<1> QED BY <1>6, <1>7

(* As many different members as there are numbers up to n.                 *)
LEMMA AtLeast ==
  ASSUME NEW N, IsFiniteSet(N), NEW n \in Nat, NEW f \in [1..n -> N],
         \A p, q \in 1..n : f[p] = f[q] => p = q
  PROVE  n <= Cardinality(N) /\ Cardinality(N) \in Nat
<1>1. IsFiniteSet(1..n) /\ Cardinality(1..n) = n
  BY FirstNumbers
<1>2. f \in Injection(1..n, N)
  BY DEF Injection, IsInjective
<1>3. Cardinality(1..n) <= Cardinality(N)
  BY <1>2, FS_Injection
<1> QED BY <1>1, <1>3, FS_CardinalityType

FirstPage(msgs, list) ==
  Upto(SortedBy(list, LAMBDA s : Max({msgs[r].ts : r \in ToSet(s.hits)})), PageSize)

(* A session that is not on the page has a page of others with hits as new.*)
KeptForPage(msgs, list) ==
  \A j \in 1..Len(list) :
    \/ list[j] \in ToSet(FirstPage(msgs, list))
    \/ \E at : Ahead(at, PageSize, [i \in DOMAIN list |-> NewestHit(msgs, list[i])], j)

(* The page: some of the sessions, and none only if there are none.        *)
LEMMA PageOf ==
  ASSUME NEW msgs \in Seq(Arrivals), NEW list \in Seq(Hydrated(msgs)),
         \A s \in ToSet(list) : s.hits # << >>
  PROVE  LET page == FirstPage(msgs, list)
         IN /\ page \in Seq(Hydrated(msgs)) /\ ToSet(page) \subseteq ToSet(list)
            /\ list # << >> => page # << >>
            /\ KeptForPage(msgs, list)
<1> DEFINE k == [i \in DOMAIN list |-> NewestHit(msgs, list[i])]
           t == Arranged(list, Order(k))
           page == Upto(t, PageSize)
           X == Hydrated(msgs)
<1>1. FirstPage(msgs, list) = page
  BY DEF FirstPage, SortedBy, Arranged, NewestHit
<1>2. Len(list) \in Nat /\ DOMAIN list = 1..Len(list) /\ \A i \in 1..Len(list) : list[i] \in X /\ list[i] \in ToSet(list)
  BY HydratedParts DEF ToSet
<1>3. k \in [1..Len(list) -> Int]
  <2>1. \A i \in 1..Len(list) : NewestHit(msgs, list[i]) \in Int
    BY <1>2, NewestHitOf
  <2> QED BY <1>2, <2>1
<1> HIDE DEF k, X
<1>4. list \in Seq(X) /\ PageSize \in Nat /\ PageSize > 0
  BY AnswerAssumption DEF X
<1>5. t \in Seq(X) /\ Len(t) = Len(list) /\ ToSet(t) = ToSet(list)
  BY <1>3, <1>4, SortedList
<1>6. \A j \in 1..Len(list) : list[j] \in ToSet(page) \/ \E at : Ahead(at, PageSize, k, j)
  BY <1>3, <1>4, AmongFirst
<1> HIDE DEF t
<1>7. /\ page \in Seq(X) /\ ToSet(page) \subseteq ToSet(list)
      /\ Len(page) = IF PageSize <= Len(list) THEN PageSize ELSE Len(list)
  BY <1>4, <1>5, CutEntries, CutList
<1>8. list # << >> => page # << >>
  <2>1. list # << >> => Len(list) # 0
    BY <1>4, EmptyList
  <2>2. page = << >> => Len(page) = 0
    BY <1>7, EmptyList
  <2> HIDE DEF page
  <2> QED BY <1>2, <1>4, <1>7, <2>1, <2>2
<1> HIDE DEF page
<1> QED BY <1>1, <1>6, <1>7, <1>8 DEF page, k, X, KeptForPage

-----------------------------------------------------------------------------
(* The tail.                                                               *)

(* Reversing loses and doubles nothing.                                    *)
LEMMA ReverseList ==
  ASSUME NEW X, NEW s \in Seq(X)
  PROVE  /\ Reverse(s) \in Seq(X) /\ ToSet(Reverse(s)) = ToSet(s)
         /\ IsInjective(s) => IsInjective(Reverse(s))
<1> DEFINE n == Len(s)
           t == Reverse(s)
<1>1. n \in Nat /\ DOMAIN s = 1..n /\ \A i \in 1..n : s[i] \in X
  BY LenProperties
<1>2. t = [i \in 1..n |-> s[(n - i) + 1]]
  BY DEF Reverse
<1> HIDE DEF t
<1>3. \A i \in 1..n : (n - i) + 1 \in 1..n /\ (n - ((n - i) + 1)) + 1 = i
  BY <1>1
<1>4. t \in [1..n -> X] /\ DOMAIN t = 1..n /\ \A i \in 1..n : t[i] = s[(n - i) + 1]
  BY <1>1, <1>2, <1>3
<1>5. t \in Seq(X)
  BY <1>1, <1>4
<1>6. ToSet(t) = ToSet(s)
  <2>1. \A i \in 1..n : \E j \in 1..n : t[i] = s[j]
    BY <1>3, <1>4
  <2>2. \A i \in 1..n : \E j \in 1..n : s[i] = t[j]
    BY <1>3, <1>4
  <2>3. ToSet(t) = {t[i] : i \in 1..n} /\ ToSet(s) = {s[i] : i \in 1..n}
    BY <1>1, <1>4 DEF ToSet
  <2> HIDE DEF n
  <2>4. \A x : (\E i \in 1..n : x = t[i]) <=> \E i \in 1..n : x = s[i]
    BY <2>1, <2>2
  <2> QED BY <2>3, <2>4
<1>7. IsInjective(s) => IsInjective(t)
  <2> SUFFICES ASSUME IsInjective(s), NEW i \in 1..n, NEW j \in 1..n, t[i] = t[j] PROVE i = j
    BY <1>4 DEF IsInjective
  <2>1. (n - i) + 1 = (n - j) + 1
    BY <1>1, <1>3, <1>4 DEF IsInjective
  <2>2. i \in Int /\ j \in Int /\ n \in Int
    BY <1>1
  <2> HIDE DEF n
  <2> QED BY <2>1, <2>2
<1> QED BY <1>5, <1>6, <1>7 DEF t

(* A list of messages as sessions: one per chat and day, and every message *)
(* in its own.                                                             *)
LEMMA SessionsOfMessages ==
  ASSUME NEW msgs \in Seq(Arrivals), NEW ids \in Seq(DOMAIN msgs), IsInjective(ids),
         \A r \in ToSet(ids) : msgs[r].chat # Unset
  PROVE  LET t == SessionsFromMessages(msgs, ids)
         IN /\ t \in Seq(Hydrated(msgs)) /\ AllHits(t) = ToSet(ids)
            /\ KeysOnce(t) /\ OnceEach(t) /\ \A P : Sole(t, P)
<1> DEFINE KeyOfMessage(r) == <<msgs[r].chat, Day[msgs[r].ts]>>
           D == DOMAIN msgs
           named == [i \in DOMAIN ids |-> KeyOfMessage(ids[i])]
           keys == Distinct(named)
           Places(k) == {i \in DOMAIN ids : KeyOfMessage(ids[i]) = k}
           Of(k) == [key |-> k, hits |-> Entries(ids, Places(k)), context |-> << >>]
           t == SessionsFromMessages(msgs, ids)
           n == Len(ids)
<1>1. n \in Nat /\ DOMAIN ids = 1..n /\ \A i \in 1..n : ids[i] \in D /\ ids[i] \in ToSet(ids)
  BY LenProperties DEF ToSet
<1>2. t = [i \in DOMAIN keys |-> Of(keys[i])]
  BY DEF SessionsFromMessages, Mapped, Where
<1> HIDE DEF t
<1>3. \A r \in ToSet(ids) : KeyOfMessage(r) \in Keys
  <2> SUFFICES ASSUME NEW r \in ToSet(ids) PROVE KeyOfMessage(r) \in Keys
    OBVIOUS
  <2>1. r \in D
    BY <1>1 DEF ToSet
  <2>2. msgs[r] \in Arrivals
    BY <2>1, LenProperties
  <2> QED BY <2>2, AnswerAssumption DEF Keys
<1>4. named \in Seq(Keys) /\ ToSet(named) = {KeyOfMessage(r) : r \in ToSet(ids)}
  <2>1. named \in [1..n -> Keys] /\ DOMAIN named = 1..n /\ \A i \in 1..n : named[i] = KeyOfMessage(ids[i])
    BY <1>1, <1>3
  <2> HIDE DEF named, KeyOfMessage
  <2>2. named \in Seq(Keys)
    BY <1>1, <2>1
  <2>3. ToSet(ids) = {ids[i] : i \in 1..n}
    BY <1>1 DEF ToSet
  <2>4. ToSet(named) = {KeyOfMessage(ids[i]) : i \in 1..n}
    BY <2>1 DEF ToSet
  <2> QED BY <2>2, <2>3, <2>4
<1> HIDE DEF named, KeyOfMessage
<1>5. /\ keys \in Seq(Keys) /\ ToSet(keys) = {KeyOfMessage(r) : r \in ToSet(ids)} /\ IsInjective(keys)
      /\ DOMAIN keys = 1..Len(keys) /\ Len(keys) \in Nat /\ \A i \in 1..Len(keys) : keys[i] \in Keys
  <2>1. keys \in Seq(Keys) /\ ToSet(keys) = {KeyOfMessage(r) : r \in ToSet(ids)} /\ IsInjective(keys)
    BY <1>4, DistinctList
  <2> HIDE DEF keys
  <2> QED BY <2>1, LenProperties
<1> HIDE DEF keys
<1>6. ASSUME NEW k \in Keys
      PROVE  /\ Of(k) \in Hydrated(msgs) /\ Of(k).key = k /\ IsInjective(Of(k).hits)
             /\ ToSet(Of(k).hits) = {r \in ToSet(ids) : KeyOfMessage(r) = k}
  <2> DEFINE h == Entries(ids, Places(k))
  <2>1. Places(k) \in SUBSET (1..n)
    BY <1>1
  <2>2. ids \in Seq(D)
    OBVIOUS
  <2> DEFINE K == Places(k)
  <2>3. K \in SUBSET (1..n)
    BY <2>1
  <2> HIDE DEF D, K
  <2> DEFINE e == Entries(ids, K)
  <2>4. e \in Seq(D) /\ ToSet(e) = {ids[i] : i \in K} /\ IsInjective(e)
    BY <2>2, <2>3, EntriesList, EntriesDistinct
  <2>5. h = e
    BY DEF K
  <2> HIDE DEF e, h
  <2>6. {ids[i] : i \in K} = {r \in ToSet(ids) : KeyOfMessage(r) = k}
    BY <1>1 DEF K, ToSet
  <2>7. Of(k) = [key |-> k, hits |-> h, context |-> << >>]
    BY DEF h
  <2>8. << >> \in Seq(D)
    BY EmptySeq
  <2> HIDE DEF Of
  <2>9. Of(k).key = k /\ Of(k).hits = h
    BY <2>7
  <2>10. Of(k) \in Hydrated(msgs)
    BY <2>4, <2>5, <2>7, <2>8 DEF Hydrated, D
  <2> QED BY <2>4, <2>5, <2>6, <2>9, <2>10
<1> HIDE DEF Of
<1>7. /\ t \in Seq(Hydrated(msgs)) /\ Len(t) = Len(keys) /\ DOMAIN t = 1..Len(keys)
      /\ \A i \in 1..Len(keys) : t[i] = Of(keys[i])
  <2>1. t \in [1..Len(keys) -> Hydrated(msgs)] /\ DOMAIN t = 1..Len(keys)
    BY <1>2, <1>5, <1>6
  <2> QED BY <1>2, <1>5, <2>1
<1>8. ToSet(t) = {Of(keys[i]) : i \in 1..Len(keys)}
  BY <1>7 DEF ToSet
<1>9. AllHits(t) = ToSet(ids)
  <2>1. \A r \in ToSet(ids) : \E i \in 1..Len(keys) : keys[i] = KeyOfMessage(r)
    BY <1>5 DEF ToSet
  <2>2. \A i \in 1..Len(keys) : ToSet(Of(keys[i]).hits) = {r \in ToSet(ids) : KeyOfMessage(r) = keys[i]}
    BY <1>5, <1>6
  <2>3. \A r : r \in AllHits(t) <=> \E i \in 1..Len(keys) : r \in ToSet(Of(keys[i]).hits)
    BY <1>8 DEF AllHits
  <2>4. \A r : (\E i \in 1..Len(keys) : r \in ToSet(Of(keys[i]).hits)) <=> r \in ToSet(ids)
    BY <2>1, <2>2
  <2> QED BY <2>3, <2>4
<1>10. KeysOnce(t)
  <2>1. \A i \in 1..Len(keys) : t[i].key = keys[i]
    BY <1>5, <1>6, <1>7
  <2> SUFFICES ASSUME NEW i \in 1..Len(t), NEW j \in 1..Len(t), t[i].key = t[j].key PROVE i = j
    BY DEF KeysOnce
  <2>2. i \in 1..Len(keys) /\ j \in 1..Len(keys)
    BY <1>7
  <2>3. keys[i] = keys[j]
    BY <2>1, <2>2
  <2> QED BY <1>5, <2>2, <2>3 DEF IsInjective
<1>11. OnceEach(t)
  BY <1>5, <1>6, <1>8 DEF OnceEach
<1>12. \A P : Sole(t, P)
  <2> SUFFICES ASSUME NEW i \in 1..Len(t), NEW j \in 1..Len(t), NEW o,
                      o \in ToSet(t[i].hits), o \in ToSet(t[j].hits)
               PROVE  i = j
    BY DEF Sole
  <2>1. KeyOfMessage(o) = keys[i] /\ KeyOfMessage(o) = keys[j]
    BY <1>5, <1>6, <1>7
  <2> QED BY <1>5, <1>7, <2>1 DEF IsInjective
<1> QED BY <1>7, <1>9, <1>10, <1>11, <1>12 DEF t

(* What the live tail has for a query.                                     *)
TailSet(q, limit) ==
  {r \in DOMAIN live :
     /\ r > Len(live) - limit /\ live[r].ts > Horizon
     /\ live[r].chat # Unset /\ HasContent(live[r])
     /\ q.filter.from = Unset \/ live[r].ts >= q.filter.from
     /\ q.filter.to = Unset \/ live[r].ts <= q.filter.to
     /\ ResolveChatFilter(q.filter) = Unset \/ live[r].chat \in ResolveChatFilter(q.filter)}

(* The live tail is in sessions of different keys, each message in one of  *)
(* them, once.                                                             *)
LEMMA LiveTailList ==
  ASSUME live \in Seq(Arrivals), NEW q, NEW limit
  PROVE  LET t == LiveTailSessions(q, limit)
         IN /\ t \in Seq(Hydrated(live)) /\ AllHits(t) = TailSet(q, limit)
            /\ KeysOnce(t) /\ OnceEach(t) /\ \A P : Sole(t, P)
<1> DEFINE until == q.filter.to
           R == {r \in DOMAIN live : /\ r > Len(live) - limit
                                     /\ live[r].ts > Horizon
                                     /\ until = Unset \/ live[r].ts <= until
                                     /\ live[r].chat # Unset /\ HasContent(live[r])}
           at == Ascending(R)
           back == Reverse(at)
           recent == NewestFirst(live, back)
           D == DOMAIN live
           K == {i \in DOMAIN recent :
                   /\ q.filter.from = Unset \/ live[recent[i]].ts >= q.filter.from
                   /\ ResolveChatFilter(q.filter) = Unset
                      \/ live[recent[i]].chat \in ResolveChatFilter(q.filter)}
           ids == Entries(recent, K)
           t == LiveTailSessions(q, limit)
<1>1. t = SessionsFromMessages(live, ids)
  BY DEF LiveTailSessions, HydrateRecentMessages, Where
<1> HIDE DEF t
<1>2. R \in SUBSET (DOMAIN live)
  OBVIOUS
<1>3. at \in Seq(D) /\ ToSet(at) = R /\ IsInjective(at)
  <2> HIDE DEF R
  <2>1. R \in SUBSET Nat /\ IsFiniteSet(R)
    BY <1>2, RowsOfTable
  <2>2. at \in Seq(R) /\ ToSet(at) = R /\ IsInjective(at)
    BY <2>1, NumbersList
  <2> HIDE DEF at
  <2>3. at \in Seq(D)
    BY <1>2, <2>2, SeqOfEntries
  <2> QED BY <2>2, <2>3
<1> HIDE DEF at
<1>4. back \in Seq(D) /\ ToSet(back) = R /\ IsInjective(back)
  <2> HIDE DEF R, D
  <2> QED BY <1>3, ReverseList
<1> HIDE DEF back
<1>5. recent \in Seq(D) /\ ToSet(recent) = R /\ IsInjective(recent) /\ DOMAIN recent = 1..Len(recent)
  <2>1. recent \in Seq(D) /\ ToSet(recent) = R /\ IsInjective(recent)
    <3> HIDE DEF R
    <3> QED BY <1>4, NewestList
  <2> HIDE DEF recent, R, D
  <2> QED BY <2>1, LenProperties
<1> HIDE DEF recent
<1>6. K \in SUBSET (1..Len(recent))
  BY <1>5
<1>7. ids \in Seq(D) /\ IsInjective(ids) /\ ToSet(ids) = {recent[i] : i \in K}
  <2> HIDE DEF K, D, R
  <2> DEFINE e == Entries(recent, K)
  <2>1. recent \in Seq(D) /\ IsInjective(recent) /\ K \in SUBSET (1..Len(recent))
    BY <1>5, <1>6
  <2>2. e \in Seq(D) /\ ToSet(e) = {recent[i] : i \in K}
    BY <2>1, EntriesList
  <2>3. IsInjective(e)
    BY <2>1, EntriesDistinct
  <2> QED BY <2>2, <2>3
<1> HIDE DEF ids
<1>8. ToSet(ids) = TailSet(q, limit)
  <2>1. R = {recent[i] : i \in 1..Len(recent)}
    BY <1>5 DEF ToSet
  <2>2. {recent[i] : i \in K} =
          {r \in R : /\ q.filter.from = Unset \/ live[r].ts >= q.filter.from
                     /\ ResolveChatFilter(q.filter) = Unset
                        \/ live[r].chat \in ResolveChatFilter(q.filter)}
    <3> HIDE DEF R
    <3> QED BY <1>5, <2>1
  <2> QED BY <1>7, <2>2 DEF TailSet
<1>9. \A r \in ToSet(ids) : live[r].chat # Unset
  BY <1>8 DEF TailSet
<1> HIDE DEF R, K
<1> QED BY <1>1, <1>7, <1>8, <1>9, SessionsOfMessages DEF t

-----------------------------------------------------------------------------
(* The filters.                                                            *)

Allowed(chat, f) == ResolveChatFilter(f) = Unset \/ chat \in ResolveChatFilter(f)

(* What the three filters on chats mean for one of them.                   *)
LEMMA AllowedChat ==
  ASSUME NEW f \in Filters, NEW chat \in Chats
  PROVE  Allowed(chat, f) <=>
           /\ f.chats # {} => chat \in f.chats
           /\ f.people # {} => \E h \in f.people : h \in Roster[chat] \/ h \in Authors[chat]
           /\ f.group # Unset => f.group = IF Style[chat] = Unset THEN Cardinality(Roster[chat]) > 1
                                           ELSE Style[chat] # "direct"
<1> DEFINE A == IF f.people = {} THEN {} ELSE {ResolveParticipants(f.people)}
           B == IF f.group = Unset THEN {} ELSE {ResolveGroups(f.group)}
           D == IF f.chats = {} THEN {} ELSE {f.chats}
           filters == A \cup B \cup D
           both == {c \in UNION filters : \A g \in filters : c \in g}
<1>1. f.people \in SUBSET Handles /\ f.chats \in SUBSET Chats
  BY DEF Filters
<1>2. ResolveChatFilter(f) = IF filters = {} THEN Unset ELSE both
  BY DEF ResolveChatFilter
<1>3. \A g \in filters : g \in SUBSET Chats
  BY <1>1 DEF ResolveParticipants, ResolveGroups
<1>4. both \in SUBSET Chats /\ both # Unset
  <2>1. both \in SUBSET Chats
    BY <1>3
  <2> HIDE DEF both
  <2> QED BY <2>1, AnswerAssumption
<1>5. Allowed(chat, f) <=> \A g \in filters : chat \in g
  <2>1. CASE filters = {}
    BY <1>2, <2>1 DEF Allowed
  <2>2. CASE filters # {}
    <3>1. ResolveChatFilter(f) = both
      BY <1>2, <2>2
    <3>2. chat \in both <=> \A g \in filters : chat \in g
      <4> HIDE DEF filters
      <4> QED BY <2>2
    <3> HIDE DEF both, filters
    <3> QED BY <1>4, <3>1, <3>2 DEF Allowed
  <2> QED BY <2>1, <2>2
<1>6. (\A g \in A : chat \in g) <=>
        (f.people # {} => \E h \in f.people : h \in Roster[chat] \/ h \in Authors[chat])
  BY DEF ResolveParticipants
<1>7. (\A g \in B : chat \in g) <=>
        (f.group # Unset => f.group = IF Style[chat] = Unset THEN Cardinality(Roster[chat]) > 1
                                      ELSE Style[chat] # "direct")
  BY DEF ResolveGroups
<1>8. (\A g \in D : chat \in g) <=> (f.chats # {} => chat \in f.chats)
  OBVIOUS
<1>9. (\A g \in filters : chat \in g) <=>
        (\A g \in A : chat \in g) /\ (\A g \in B : chat \in g) /\ (\A g \in D : chat \in g)
  <2> HIDE DEF A, B, D
  <2> QED OBVIOUS
<1> HIDE DEF A, B, D, filters
<1> QED BY <1>5, <1>6, <1>7, <1>8, <1>9

(* What is in scope, said with the chats the filters allow.                *)
LEMMA ScopeOf ==
  ASSUME NEW f \in Filters, NEW m, m.chat \in Chats
  PROVE  InScope(m, f) <=> /\ f.from = Unset \/ m.ts >= f.from
                           /\ f.to = Unset \/ m.ts <= f.to
                           /\ Allowed(m.chat, f)
<1> DEFINE many == IF Style[m.chat] = Unset THEN Cardinality(Roster[m.chat]) > 1
                   ELSE Style[m.chat] # "direct"
<1>1. InScope(m, f) <=> /\ f.from # Unset => m.ts >= f.from
                        /\ f.to # Unset => m.ts <= f.to
                        /\ f.chats # {} => m.chat \in f.chats
                        /\ f.people # {} => \E h \in f.people : h \in Roster[m.chat] \/ h \in Authors[m.chat]
                        /\ f.group # Unset => f.group = many
  BY DEF InScope
<1> HIDE DEF InScope
<1>2. Allowed(m.chat, f) <=>
        /\ f.chats # {} => m.chat \in f.chats
        /\ f.people # {} => \E h \in f.people : h \in Roster[m.chat] \/ h \in Authors[m.chat]
        /\ f.group # Unset => f.group = many
  BY AllowedChat
<1> HIDE DEF many
<1> QED BY <1>1, <1>2

(* A candidate has only messages the filters allow.                        *)
Candidate(i, f) == i \in DOMAIN rows /\ (CandidateChunks(rows, f) = Unset \/ i \in CandidateChunks(rows, f))

(* The messages of a candidate are in scope, by its dates and its chat.    *)
LEMMA CandidateScope ==
  ASSUME live \in Seq(Arrivals), NEW n \in 0..Len(live), TableTrue(rows, n), NEW f \in Filters,
         NEW i, Candidate(i, f)
  PROVE  \A r \in ToSet(rows[i].messages) : InScope(live[r], f)
<1> DEFINE row == rows[i]
           C1 == {j \in DOMAIN rows : /\ InDates(rows[j], f)
                                      /\ f.media => rows[j].media
                                      /\ ResolveChatFilter(f) = Unset \/ rows[j].chat \in ResolveChatFilter(f)}
<1>1. i \in DOMAIN rows /\ RowTrue(row, n)
  BY DEF Candidate, TableTrue
<1>2. CandidateChunks(rows, f) = IF f.from = Unset /\ f.to = Unset /\ ~f.media /\ ResolveChatFilter(f) = Unset
                                 THEN Unset ELSE C1
  BY DEF CandidateChunks
<1>3. C1 # Unset
  <2>1. C1 \in SUBSET Ids
    BY DEF TableTrue
  <2> HIDE DEF C1
  <2> QED BY <2>1, AnswerAssumption
<1>4. InDates(row, f) /\ Allowed(row.chat, f)
  BY <1>1, <1>2, <1>3 DEF Candidate, InDates, Allowed
<1> HIDE DEF C1, row
<1> SUFFICES ASSUME NEW r \in ToSet(row.messages) PROVE InScope(live[r], f)
  BY DEF row
<1>5. live[r].chat = row.chat /\ row.start <= live[r].ts /\ live[r].ts <= row.end /\ row.chat \in Chats
  BY <1>1 DEF RowTrue
<1>6. r \in 1..n
  <2>1. row.messages \in Seq(1..n)
    BY <1>1 DEF RowTrue
  <2> QED BY <2>1, LenProperties DEF ToSet
<1>7. row.start \in Int /\ row.end \in Int /\ live[r].ts \in Int
  <2>1. live[r] \in Arrivals
    BY <1>6, LenProperties
  <2>2. live[r].ts \in Int
    BY <2>1, Dated
  <2>3. row.start \in DOMAIN Day /\ row.end \in Nat
    BY <1>1 DEF RowTrue
  <2>4. row.start \in Nat
    BY <2>3, AnswerAssumption
  <2> QED BY <2>2, <2>3, <2>4
<1>8. f.from \in Int \cup {Unset} /\ f.to \in Int \cup {Unset}
  BY DEF Filters
<1>9. f.from = Unset \/ live[r].ts >= f.from
  BY <1>4, <1>5, <1>7, <1>8 DEF InDates
<1>10. f.to = Unset \/ live[r].ts <= f.to
  BY <1>4, <1>5, <1>7, <1>8 DEF InDates
<1>11. live[r].chat \in Chats /\ Allowed(live[r].chat, f)
  BY <1>4, <1>5
<1> HIDE DEF Allowed
<1> QED BY <1>9, <1>10, <1>11, ScopeOf

-----------------------------------------------------------------------------
(* The rows that are picked.                                               *)

Heard(i, q) == ToSet(rows[i].messages) \cap ToSet(WrittenBy(q)) # {}

(* All candidates, or those in which a named sender wrote.                 *)
PickedFrom(q) ==
  LET c == ChunksContainingSender(q, CandidateChunks(rows, q.filter))
  IN IF c = Unset THEN DOMAIN rows ELSE c

(* Only candidates are picked; if a sender was heard in one, only such     *)
(* are.                                                                    *)
LEMMA PickedRows ==
  ASSUME DOMAIN rows \in SUBSET Ids, NEW q
  PROVE  /\ PickedFrom(q) \subseteq {i \in DOMAIN rows : Candidate(i, q.filter)}
         /\ q.sender # {} /\ (\E i \in DOMAIN rows : Candidate(i, q.filter) /\ Heard(i, q)) =>
              PickedFrom(q) # {} /\ \A i \in PickedFrom(q) : Heard(i, q)
<1> DEFINE c == CandidateChunks(rows, q.filter)
           spoken == {i \in DOMAIN rows : Heard(i, q)}
           both == IF c = Unset THEN spoken ELSE spoken \cap c
           r == ChunksContainingSender(q, c)
<1>1. r = IF q.sender = {} \/ both = {} THEN c ELSE both
  BY DEF ChunksContainingSender, Heard
<1>2. c = Unset \/ c \in SUBSET (DOMAIN rows)
  BY DEF CandidateChunks
<1>3. PickedFrom(q) = IF r = Unset THEN DOMAIN rows ELSE r
  BY DEF PickedFrom
<1>4. \A i \in DOMAIN rows : Candidate(i, q.filter) <=> c = Unset \/ i \in c
  BY DEF Candidate
<1>5. \A S \in SUBSET (DOMAIN rows) : S # Unset
  BY AnswerAssumption
<1> HIDE DEF c, r
<1>6. both \in SUBSET (DOMAIN rows) /\ both # Unset
  BY <1>2, <1>5
<1>7. CASE q.sender = {} \/ both = {}
  <2>1. r = c
    BY <1>1, <1>7
  <2>2. q.sender # {} => ~\E i \in DOMAIN rows : Candidate(i, q.filter) /\ Heard(i, q)
    BY <1>4, <1>7
  <2> QED BY <1>2, <1>3, <1>4, <2>1, <2>2
<1>8. CASE ~(q.sender = {} \/ both = {})
  <2>1. PickedFrom(q) = both
    BY <1>1, <1>3, <1>6, <1>8
  <2> QED BY <1>4, <1>6, <1>8, <2>1
<1> QED BY <1>7, <1>8

(* The entries of a list are finitely many.                                *)
LEMMA FiniteEntries ==
  ASSUME NEW X, NEW s \in Seq(X)
  PROVE  IsFiniteSet(ToSet(s))
<1> DEFINE D == 1..Len(s)
           S == ToSet(s)
<1>1. Len(s) \in Nat /\ DOMAIN s = D
  BY LenProperties
<1>2. IsFiniteSet(D)
  BY <1>1, FirstNumbers
<1>3. s \in [D -> S] /\ \A x \in S : \E i \in D : s[i] = x
  BY <1>1, LenProperties DEF ToSet
<1> HIDE DEF D, S
<1>4. s \in Surjection(D, S)
  BY <1>3 DEF Surjection
<1> QED BY <1>2, <1>4, FS_Surjection DEF S

(* A table has finitely many rows.                                         *)
LEMMA FiniteTable ==
  ASSUME NEW n, TableTrue(rows, n)
  PROVE  DOMAIN rows \in SUBSET Nat /\ IsFiniteSet(DOMAIN rows)
<1>1. DOMAIN rows \in SUBSET Ids
  BY DEF TableTrue
<1>2. CASE DOMAIN rows = {}
  BY <1>2, FS_EmptySet
<1>3. CASE DOMAIN rows # {}
  <2>1. PICK i \in DOMAIN rows : rows[i].chat \in Chats
    BY <1>3 DEF TableTrue, RowTrue
  <2>2. Max(Chats) \in Nat
    <3>1. Chats \in SUBSET Nat /\ IsFiniteSet(Chats) /\ Chats # {}
      BY <2>1, AnswerAssumption
    <3> QED BY <3>1, GreatestOf
  <2>3. Slots \in Nat
    BY AnswerAssumption DEF Slots
  <2> DEFINE last == Slots * (Max(Chats) + 1)
  <2>4. last \in Nat
    <3>1. Max(Chats) + 1 \in Nat
      BY <2>2
    <3> DEFINE chats == Max(Chats) + 1
    <3>2. chats \in Nat
      BY <3>1
    <3> HIDE DEF chats
    <3>3. Slots * chats \in Nat
      BY <2>3, <3>2
    <3> QED BY <3>3 DEF chats
  <2>5. Ids = 0..last
    BY DEF Ids
  <2> HIDE DEF last
  <2>6. IsFiniteSet(Ids) /\ Ids \in SUBSET Nat
    BY <2>4, <2>5, FS_Interval
  <2> QED BY <1>1, <2>6, FS_Subset
<1> QED BY <1>2, <1>3

(* A picked chunk and the sessions of such.                                *)
Picks == [id : Ids, chat : Chats, start : DOMAIN Day, score : 1..FusedTop]

RankedSessions ==
  [key : Keys, hits : Seq(Ids), context : {{}}, latest : DOMAIN Day, matches : BOOLEAN, score : Nat]

(* The session of a key of picked chunks has some of them as hits.         *)
LEMMA PickedSession ==
  ASSUME NEW list \in Seq(Picks), NEW k, k \in {KeyOf(c) : c \in ToSet(list)}
  PROVE  LET s == SessionOf(list, k, {}, {})
         IN /\ s \in RankedSessions /\ s.key = k /\ s.hits # << >>
            /\ ToSet(s.hits) \subseteq {c.id : c \in ToSet(list)}
<1> DEFINE s == SessionOf(list, k, {}, {})
           K == {i \in DOMAIN list : KeyOf(list[i]) = k}
           hits == Entries(list, K)
           weights == [i \in DOMAIN hits |-> Sigmoid[hits[i].score]]
           verbatim == {c \in ToSet(hits) : c.id \in {}}
           matching == {c \in ToSet(hits) : c.id \in {} \cup {}}
           boost == IF verbatim = {} THEN 0 ELSE LexicalBoost[Latest(verbatim)]
           ids == [i \in DOMAIN hits |-> hits[i].id]
           latest == Latest(ToSet(hits))
<1>1. Len(list) \in Nat /\ DOMAIN list = 1..Len(list) /\ ToSet(list) \in SUBSET Picks
  BY LenProperties DEF ToSet
<1>2. s = [key |-> k, hits |-> ids, context |-> {}, latest |-> latest, matches |-> matching # {},
           score |-> RecencyBoost[latest] * (boost + Total(weights))]
  BY DEF SessionOf, Where, Mapped
<1> HIDE DEF s
<1>3. /\ hits \in Seq(Picks) /\ ToSet(hits) = {list[i] : i \in K}
      /\ DOMAIN hits = 1..Len(hits) /\ Len(hits) \in Nat /\ \A i \in 1..Len(hits) : hits[i] \in Picks
  <2>1. K \in SUBSET (1..Len(list))
    BY <1>1
  <2> HIDE DEF K
  <2>2. hits \in Seq(Picks) /\ ToSet(hits) = {list[i] : i \in K}
    BY <2>1, EntriesList
  <2> HIDE DEF hits
  <2> QED BY <2>2, LenProperties
<1>4. ToSet(hits) # {} /\ ToSet(hits) \subseteq ToSet(list)
  <2>1. \E i \in DOMAIN list : KeyOf(list[i]) = k
    BY DEF ToSet
  <2> HIDE DEF hits
  <2> QED BY <1>3, <2>1 DEF ToSet
<1>5. boost = 0
  OBVIOUS
<1> HIDE DEF boost, hits, K
<1>6. latest \in DOMAIN Day
  <2> DEFINE S == ToSet(hits)
             T == {c.start : c \in S}
             starts == [i \in 1..Len(hits) |-> hits[i].start]
  <2>1. S = {hits[i] : i \in 1..Len(hits)}
    BY <1>3 DEF ToSet
  <2>2. IsFiniteSet(T)
    <3>1. starts \in Seq(DOMAIN Day) /\ DOMAIN starts = 1..Len(hits)
          /\ \A i \in 1..Len(hits) : starts[i] = hits[i].start
      <4>1. starts \in [1..Len(hits) -> DOMAIN Day]
        BY <1>3 DEF Picks
      <4> QED BY <1>3, <4>1
    <3> HIDE DEF starts
    <3>2. ToSet(starts) = {hits[i].start : i \in 1..Len(hits)}
      BY <3>1 DEF ToSet
    <3>3. T = ToSet(starts)
      <4> HIDE DEF S
      <4> QED BY <2>1, <3>2
    <3> QED BY <3>1, <3>3, FiniteEntries
  <2>3. T \subseteq DOMAIN Day /\ T # {}
    BY <1>1, <1>4 DEF Picks
  <2>4. T \in SUBSET Nat
    BY <2>3, AnswerAssumption
  <2>5. latest = Max(T)
    BY DEF Latest
  <2> HIDE DEF T, latest
  <2> QED BY <2>2, <2>3, <2>4, <2>5, GreatestOf
<1> HIDE DEF latest
<1>7. Total(weights) \in Nat
  <2>1. \A i \in 1..Len(hits) : Sigmoid[hits[i].score] \in Nat
    BY <1>3, AnswerAssumption DEF Picks
  <2>2. weights \in [1..Len(hits) -> Nat]
    BY <1>3, <2>1
  <2>3. weights \in Seq(Nat)
    BY <1>3, <2>2
  <2> HIDE DEF weights
  <2> QED BY <2>3, TotalList
<1>8. RecencyBoost[latest] * (boost + Total(weights)) \in Nat
  <2>1. RecencyBoost[latest] \in Nat
    BY <1>6, AnswerAssumption
  <2> HIDE DEF weights
  <2>2. boost + Total(weights) \in Nat
    BY <1>5, <1>7
  <2> QED BY <2>1, <2>2
<1>9. ids \in Seq(Ids) /\ Len(ids) = Len(hits) /\ ToSet(ids) = {c.id : c \in ToSet(hits)}
  <2>1. \A i \in 1..Len(hits) : hits[i].id \in Ids
    BY <1>3 DEF Picks
  <2>2. ids \in [1..Len(hits) -> Ids] /\ DOMAIN ids = 1..Len(hits) /\ \A i \in 1..Len(hits) : ids[i] = hits[i].id
    BY <1>3, <2>1
  <2> HIDE DEF ids
  <2>3. ids \in Seq(Ids) /\ Len(ids) = Len(hits)
    BY <1>3, <2>2
  <2>4. ToSet(hits) = {hits[i] : i \in 1..Len(hits)}
    BY <1>3 DEF ToSet
  <2>5. ToSet(ids) = {hits[i].id : i \in 1..Len(hits)}
    BY <2>2 DEF ToSet
  <2> QED BY <2>3, <2>4, <2>5
<1>10. k \in Keys
  BY <1>1 DEF Keys, KeyOf, Picks
<1> HIDE DEF ids, weights, matching
<1>11. s \in RankedSessions /\ s.key = k /\ s.hits = ids
  BY <1>2, <1>6, <1>8, <1>9, <1>10 DEF RankedSessions
<1>12. ids # << >>
  <2>1. hits # << >>
    BY <1>3, <1>4, EmptyList
  <2>2. Len(hits) # 0
    BY <1>3, <2>1, EmptyList
  <2> QED BY <1>9, <2>2, EmptyList
<1>13. ToSet(ids) \subseteq {c.id : c \in ToSet(list)}
  BY <1>4, <1>9
<1> QED BY <1>11, <1>12, <1>13 DEF s

(* order_sessions without slots or words: each key once.                   *)
LEMMA PickedSessions ==
  ASSUME NEW ranked \in Seq(Picks)
  PROVE  LET o == OrderSessions(ranked, PageSize, 0, {}, {})
         IN /\ o \in Seq(RankedSessions) /\ IsInjective(o) /\ (ranked # << >> => o # << >>)
            /\ \A s \in ToSet(o) : s.hits # << >> /\ ToSet(s.hits) \subseteq {c.id : c \in ToSet(ranked)}
            /\ \A s, t \in ToSet(o) : s.key = t.key => s = t
<1> DEFINE d == Distinct(ranked)
           named == [i \in DOMAIN d |-> KeyOf(d[i])]
           keys == Distinct(named)
           Of(k) == SessionOf(d, k, {}, {})
           sessions == [i \in DOMAIN keys |-> Of(keys[i])]
           by == [i \in DOMAIN sessions |-> sessions[i].score]
           o == Arranged(sessions, Order(by))
<1>1. /\ d \in Seq(Picks) /\ ToSet(d) = ToSet(ranked) /\ DOMAIN d = 1..Len(d) /\ Len(d) \in Nat
      /\ \A i \in 1..Len(d) : d[i] \in Picks
  <2>1. d \in Seq(Picks) /\ ToSet(d) = ToSet(ranked)
    BY DistinctList
  <2> HIDE DEF d
  <2> QED BY <2>1, LenProperties
<1>2. OrderSessions(ranked, PageSize, 0, {}, {}) = o
  <2> DEFINE ordered0 == SortedBy(sessions, LAMBDA s : s.score)
  <2>1. OrderSessions(ranked, PageSize, 0, {}, {}) = ReserveSessions(ordered0, PageSize, 0)
    BY DEF OrderSessions, Mapped
  <2>2. ordered0 = o
    BY DEF SortedBy, Arranged
  <2> HIDE DEF ordered0, o
  <2>3. ReserveSessions(ordered0, PageSize, 0) = ordered0
    BY DEF ReserveSessions
  <2> QED BY <2>1, <2>2, <2>3
<1> HIDE DEF d
<1>3. named \in Seq(Keys) /\ ToSet(named) = {KeyOf(c) : c \in ToSet(d)}
  <2>1. \A i \in 1..Len(d) : KeyOf(d[i]) \in Keys
    BY <1>1 DEF Keys, KeyOf, Picks
  <2>2. named \in [1..Len(d) -> Keys] /\ DOMAIN named = 1..Len(d) /\ \A i \in 1..Len(d) : named[i] = KeyOf(d[i])
    BY <1>1, <2>1
  <2> HIDE DEF named
  <2>3. named \in Seq(Keys)
    BY <1>1, <2>2
  <2>4. ToSet(named) = {KeyOf(d[i]) : i \in 1..Len(d)}
    BY <1>1, <2>2 DEF ToSet
  <2>5. ToSet(d) = {d[i] : i \in 1..Len(d)}
    BY <1>1 DEF ToSet
  <2> QED BY <2>3, <2>4, <2>5
<1> HIDE DEF named
<1>4. /\ keys \in Seq(Keys) /\ ToSet(keys) = {KeyOf(c) : c \in ToSet(d)} /\ IsInjective(keys)
      /\ DOMAIN keys = 1..Len(keys) /\ Len(keys) \in Nat
  <2>1. keys \in Seq(Keys) /\ ToSet(keys) = {KeyOf(c) : c \in ToSet(d)} /\ IsInjective(keys)
    BY <1>3, DistinctList
  <2> HIDE DEF keys
  <2> QED BY <2>1, LenProperties
<1> HIDE DEF keys
<1>5. ASSUME NEW k \in ToSet(keys)
      PROVE  /\ Of(k) \in RankedSessions /\ Of(k).key = k /\ Of(k).hits # << >>
             /\ ToSet(Of(k).hits) \subseteq {c.id : c \in ToSet(ranked)}
  <2>1. k \in {KeyOf(c) : c \in ToSet(d)}
    BY <1>4
  <2> DEFINE s == SessionOf(d, k, {}, {})
  <2>2. /\ s \in RankedSessions /\ s.key = k /\ s.hits # << >>
        /\ ToSet(s.hits) \subseteq {c.id : c \in ToSet(d)}
    BY <1>1, <2>1, PickedSession
  <2>3. Of(k) = s
    OBVIOUS
  <2> HIDE DEF s, Of
  <2> QED BY <1>1, <2>2, <2>3
<1> HIDE DEF Of
<1>6. /\ sessions \in Seq(RankedSessions) /\ IsInjective(sessions) /\ Len(sessions) = Len(keys)
      /\ ToSet(sessions) = {Of(k) : k \in ToSet(keys)}
      /\ DOMAIN sessions = 1..Len(keys)
  <2>1. \A i \in 1..Len(keys) : keys[i] \in ToSet(keys)
    BY <1>4 DEF ToSet
  <2>2. sessions \in [1..Len(keys) -> RankedSessions] /\ DOMAIN sessions = 1..Len(keys)
        /\ \A i \in 1..Len(keys) : sessions[i] = Of(keys[i])
    BY <1>4, <1>5, <2>1
  <2> HIDE DEF sessions
  <2>3. sessions \in Seq(RankedSessions) /\ Len(sessions) = Len(keys)
    BY <1>4, <2>2
  <2>4. \A i \in 1..Len(keys) : sessions[i].key = keys[i]
    BY <1>5, <2>1, <2>2
  <2>5. IsInjective(sessions)
    BY <1>4, <2>2, <2>4 DEF IsInjective
  <2>6. ToSet(keys) = {keys[i] : i \in 1..Len(keys)}
    BY <1>4 DEF ToSet
  <2>7. ToSet(sessions) = {Of(keys[i]) : i \in 1..Len(keys)}
    BY <2>2 DEF ToSet
  <2> QED BY <2>2, <2>3, <2>5, <2>6, <2>7
<1>7. by \in [1..Len(sessions) -> Int]
  <2>1. \A i \in 1..Len(keys) : sessions[i] \in RankedSessions
    BY <1>6, LenProperties
  <2> HIDE DEF sessions
  <2>2. \A i \in 1..Len(keys) : sessions[i].score \in Int
    BY <2>1 DEF RankedSessions
  <2> QED BY <1>6, <2>2
<1> HIDE DEF sessions, by
<1>8. o \in Seq(RankedSessions) /\ Len(o) = Len(sessions) /\ ToSet(o) = ToSet(sessions) /\ IsInjective(o)
  BY <1>6, <1>7, SortedList
<1> HIDE DEF o
<1>9. ranked # << >> => o # << >>
  <2>1. ranked # << >> => ToSet(d) # {}
    BY <1>1, EmptyList
  <2>2. ToSet(d) # {} => ToSet(keys) # {}
    BY <1>4
  <2>3. ToSet(keys) # {} => ToSet(o) # {}
    BY <1>6, <1>8
  <2> QED BY <1>8, <2>1, <2>2, <2>3, EmptyList
<1>10. \A s, t \in ToSet(o) : s.key = t.key => s = t
  BY <1>5, <1>6, <1>8
<1>11. \A s \in ToSet(o) : s.hits # << >> /\ ToSet(s.hits) \subseteq {c.id : c \in ToSet(ranked)}
  <2> SUFFICES ASSUME NEW s \in ToSet(o)
               PROVE  s.hits # << >> /\ ToSet(s.hits) \subseteq {c.id : c \in ToSet(ranked)}
    OBVIOUS
  <2>1. PICK k \in ToSet(keys) : s = Of(k)
    BY <1>6, <1>8
  <2> QED BY <1>5, <2>1
<1> QED BY <1>2, <1>8, <1>9, <1>10, <1>11

(* The rows of a search without words as ranked chunks.                    *)
PicksOf(q) ==
  LET ids == Upto(RecencyRanked(rows, Ascending(PickedFrom(q))), FusedTop)
  IN [i \in DOMAIN ids |-> [id |-> ids[i], chat |-> rows[ids[i]].chat,
                            start |-> rows[ids[i]].start, score |-> Len(ids) - i + 1]]

(* The ranked chunks are picked rows, and there are some if any row is     *)
(* picked.                                                                 *)
LEMMA PicksList ==
  ASSUME NEW n, TableTrue(rows, n), NEW q
  PROVE  /\ PicksOf(q) \in Seq(Picks)
         /\ {c.id : c \in ToSet(PicksOf(q))} \subseteq PickedFrom(q)
         /\ FusedTop > 0 /\ PickedFrom(q) # {} => PicksOf(q) # << >>
<1> DEFINE S == PickedFrom(q)
           at == Ascending(S)
           k == [i \in DOMAIN at |-> rows[at[i]].start]
           t == Arranged(at, Order(k))
           ids == Upto(t, FusedTop)
           p == [i \in DOMAIN ids |-> [id |-> ids[i], chat |-> rows[ids[i]].chat,
                                       start |-> rows[ids[i]].start, score |-> Len(ids) - i + 1]]
<1>1. PicksOf(q) = p
  BY DEF PicksOf, RecencyRanked, SortedBy, Arranged
<1>2. S \in SUBSET (DOMAIN rows) /\ S \in SUBSET Nat /\ IsFiniteSet(S) /\ S \in SUBSET Ids
  <2>1. DOMAIN rows \in SUBSET Ids
    BY DEF TableTrue
  <2>2. S \in SUBSET (DOMAIN rows)
    BY <2>1, PickedRows
  <2> HIDE DEF S
  <2>3. DOMAIN rows \in SUBSET Nat /\ IsFiniteSet(DOMAIN rows)
    BY FiniteTable
  <2> QED BY <2>1, <2>2, <2>3, FS_Subset
<1>3. \A i \in S : rows[i].chat \in Chats /\ rows[i].start \in DOMAIN Day /\ rows[i].start \in Int
  <2>1. \A i \in S : rows[i].chat \in Chats /\ rows[i].start \in DOMAIN Day
    BY <1>2 DEF TableTrue, RowTrue
  <2> QED BY <2>1, AnswerAssumption
<1> HIDE DEF S
<1>4. /\ at \in Seq(S) /\ ToSet(at) = S /\ DOMAIN at = 1..Len(at)
      /\ \A i \in 1..Len(at) : at[i] \in S
  <2>1. at \in Seq(S) /\ ToSet(at) = S
    BY <1>2, NumbersList
  <2> HIDE DEF at
  <2> QED BY <2>1, LenProperties
<1> HIDE DEF at
<1>5. k \in [1..Len(at) -> Int]
  BY <1>3, <1>4
<1> HIDE DEF k
<1>6. t \in Seq(S) /\ Len(t) = Len(at) /\ ToSet(t) = S
  BY <1>4, <1>5, SortedList
<1> HIDE DEF t
<1>7. FusedTop \in Nat
  BY RetrievalAssumption
<1>8. /\ ids \in Seq(S) /\ Len(ids) <= FusedTop /\ DOMAIN ids = 1..Len(ids) /\ Len(ids) \in Nat
      /\ \A i \in 1..Len(ids) : ids[i] \in S
      /\ Len(ids) = IF FusedTop <= Len(t) THEN FusedTop ELSE Len(t)
  <2>1. ids \in Seq(S) /\ Len(ids) <= FusedTop /\ Len(ids) = IF FusedTop <= Len(t) THEN FusedTop ELSE Len(t)
    BY <1>6, <1>7, CutEntries, CutList
  <2> HIDE DEF ids
  <2> QED BY <2>1, LenProperties
<1> HIDE DEF ids
<1>9. \A i \in 1..Len(ids) : p[i] \in Picks /\ p[i].id = ids[i]
  <2> SUFFICES ASSUME NEW i \in 1..Len(ids) PROVE p[i] \in Picks /\ p[i].id = ids[i]
    OBVIOUS
  <2>1. Len(ids) - i + 1 \in 1..FusedTop
    BY <1>7, <1>8
  <2>2. ids[i] \in S /\ ids[i] \in Ids
    BY <1>2, <1>8
  <2>3. p[i] = [id |-> ids[i], chat |-> rows[ids[i]].chat, start |-> rows[ids[i]].start,
                score |-> Len(ids) - i + 1]
    BY <1>8
  <2> HIDE DEF p
  <2> QED BY <1>3, <2>1, <2>2, <2>3 DEF Picks
<1>10. DOMAIN p = 1..Len(ids)
  BY <1>8
<1> HIDE DEF p
<1>11. p \in Seq(Picks) /\ Len(p) = Len(ids)
  <2>1. p \in [1..Len(ids) -> Picks]
    <3>1. p = [i \in 1..Len(ids) |-> p[i]]
      BY <1>10 DEF p
    <3> QED BY <1>9, <3>1
  <2> QED BY <1>8, <2>1
<1>12. {c.id : c \in ToSet(p)} \subseteq S
  BY <1>8, <1>9, <1>10 DEF ToSet
<1>13. ASSUME FusedTop > 0, S # {} PROVE p # << >>
  <2>1. Len(t) # 0 /\ Len(t) \in Nat
    BY <1>6, <1>13, EmptyList, LenProperties
  <2>2. Len(p) # 0
    BY <1>7, <1>8, <1>11, <1>13, <2>1
  <2> QED BY <1>11, <2>2, EmptyList
<1> QED BY <1>1, <1>11, <1>12, <1>13 DEF S

(* What browse_recent picks.                                               *)
LEMMA BrowsedList ==
  ASSUME NEW n, TableTrue(rows, n), NEW q
  PROVE  LET o == Browsed(q)
         IN /\ o \in Seq(RankedSessions)
            /\ \A i \in 1..Len(o) : o[i].hits # << >> /\ ToSet(o[i].hits) \subseteq PickedFrom(q)
            /\ \A i, j \in 1..Len(o) : o[i].key = o[j].key => i = j
            /\ FusedTop > 0 /\ PickedFrom(q) # {} => o # << >>
<1> DEFINE s == OrderSessions(PicksOf(q), PageSize, 0, {}, {})
           k == [i \in DOMAIN s |-> s[i].latest]
           o == Arranged(s, Order(k))
<1>1. Browsed(q) = o
  BY DEF Browsed, PicksOf, PickedFrom, SortedBy, Arranged
<1>2. /\ PicksOf(q) \in Seq(Picks) /\ {c.id : c \in ToSet(PicksOf(q))} \subseteq PickedFrom(q)
      /\ FusedTop > 0 /\ PickedFrom(q) # {} => PicksOf(q) # << >>
  BY PicksList
<1>3. /\ s \in Seq(RankedSessions) /\ IsInjective(s) /\ (PicksOf(q) # << >> => s # << >>)
      /\ \A x \in ToSet(s) : x.hits # << >> /\ ToSet(x.hits) \subseteq {c.id : c \in ToSet(PicksOf(q))}
      /\ \A x, y \in ToSet(s) : x.key = y.key => x = y
  BY <1>2, PickedSessions
<1> HIDE DEF s
<1>4. k \in [1..Len(s) -> Int]
  <2>1. DOMAIN s = 1..Len(s) /\ \A i \in 1..Len(s) : s[i] \in RankedSessions
    BY <1>3, LenProperties
  <2>2. \A i \in 1..Len(s) : s[i].latest \in DOMAIN Day
    BY <2>1 DEF RankedSessions
  <2>3. \A i \in 1..Len(s) : s[i].latest \in Int
    <3>1. \A d \in DOMAIN Day : d \in Int
      BY AnswerAssumption
    <3> QED BY <2>2, <3>1
  <2> QED BY <2>1, <2>3
<1> HIDE DEF k
<1>5. o \in Seq(RankedSessions) /\ ToSet(o) = ToSet(s) /\ IsInjective(o)
  BY <1>3, <1>4, SortedList
<1> HIDE DEF o
<1>6. DOMAIN o = 1..Len(o) /\ \A i \in 1..Len(o) : o[i] \in ToSet(s)
  <2>1. DOMAIN o = 1..Len(o)
    BY <1>5, LenProperties
  <2>2. \A i \in 1..Len(o) : o[i] \in ToSet(o)
    BY <2>1 DEF ToSet
  <2> QED BY <1>5, <2>1, <2>2
<1>7. \A i \in 1..Len(o) : o[i].hits # << >> /\ ToSet(o[i].hits) \subseteq PickedFrom(q)
  <2> SUFFICES ASSUME NEW i \in 1..Len(o)
               PROVE  o[i].hits # << >> /\ ToSet(o[i].hits) \subseteq PickedFrom(q)
    OBVIOUS
  <2>1. o[i].hits # << >> /\ ToSet(o[i].hits) \subseteq {c.id : c \in ToSet(PicksOf(q))}
    BY <1>3, <1>6
  <2> QED BY <1>2, <2>1
<1>8. \A i, j \in 1..Len(o) : o[i].key = o[j].key => i = j
  BY <1>3, <1>5, <1>6 DEF IsInjective
<1>9. FusedTop > 0 /\ PickedFrom(q) # {} => o # << >>
  <2>1. FusedTop > 0 /\ PickedFrom(q) # {} => s # << >>
    BY <1>2, <1>3
  <2>2. s # << >> => ToSet(o) # {}
    BY <1>3, <1>5, EmptyList
  <2> QED BY <1>5, <2>1, <2>2, EmptyList
<1> QED BY <1>1, <1>5, <1>7, <1>8, <1>9

-----------------------------------------------------------------------------
(* The answer.                                                             *)

(* What no two sessions share is once in the list of all hits.             *)
LEMMA HitsOnce ==
  ASSUME NEW msgs, NEW list \in Seq(Hydrated(msgs)), OnceEach(list), NEW P, Sole(list, P)
  PROVE  \A i, j \in 1..Len(HitsOf(list)) :
           HitsOf(list)[i] = HitsOf(list)[j] /\ HitsOf(list)[i] \in P => i = j
<1> DEFINE D == DOMAIN msgs
           n == Len(list)
           lists == [i \in DOMAIN list |-> list[i].hits]
           Single(s) == \A i, j \in 1..Len(s) : s[i] = s[j] /\ s[i] \in P => i = j
<1>1. /\ n \in Nat /\ DOMAIN list = 1..n /\ \A i \in 1..n : list[i].hits \in Seq(D)
      /\ ToSet(list) = {list[i] : i \in 1..n}
  BY HydratedParts
<1>2. lists \in Seq(Seq(D)) /\ Len(lists) = n /\ \A i \in 1..n : lists[i] = list[i].hits
  BY <1>1, HitsOfList
<1>3. HitsOf(list) = Joined(lists)
  BY DEF HitsOf
<1>4. \A i \in 1..n : IsInjective(lists[i]) /\ lists[i] \in Seq(D)
  BY <1>1, <1>2 DEF OnceEach
<1>5. \A i, j \in 1..n : \A o \in P : o \in ToSet(lists[i]) /\ o \in ToSet(lists[j]) => i = j
  BY <1>2 DEF Sole
<1> HIDE DEF lists, D, n
<1>6. PICK g \in [0..n -> Seq(D)] :
        /\ g[0] = << >> /\ Joined(lists) = g[n]
        /\ \A m \in 1..n : g[m] = g[m - 1] \o lists[m]
  <2> DEFINE steps(l) ==
               \E g \in [0..l -> Seq(D)] :
                 /\ g[0] = << >> /\ Joined(lists) = g[l]
                 /\ \A m \in 1..l : g[m] = g[m - 1] \o lists[m]
  <2>1. lists \in Seq(Seq(D)) /\ Len(lists) = n
    BY <1>2
  <2>2. steps(Len(lists))
    BY <2>1, JoinedSteps
  <2>3. steps(n)
    <3> HIDE DEF steps
    <3> QED BY <2>1, <2>2
  <2> QED BY <2>3
<1> DEFINE Covered(m) == \A o \in ToSet(g[m]) : \E i \in 1..m : o \in ToSet(lists[i])
           T == {m \in Nat : m <= n => Single(g[m]) /\ Covered(m)}
<1>7. 0 \in T
  <2>1. Len(g[0]) = 0 /\ 1..Len(g[0]) = {} /\ ToSet(g[0]) = {}
    BY <1>6 DEF ToSet
  <2> QED BY <2>1
<1>8. ASSUME NEW m \in Nat, m \in T PROVE m + 1 \in T
  <2> SUFFICES ASSUME m + 1 <= n PROVE Single(g[m + 1]) /\ Covered(m + 1)
    OBVIOUS
  <2>1. m \in 0..n /\ m + 1 \in 1..n /\ (m + 1) - 1 = m /\ m <= n
    BY <1>1 DEF n
  <2> DEFINE s == g[m]
             t == lists[m + 1]
             c == g[m + 1]
  <2>2. s \in Seq(D) /\ t \in Seq(D) /\ c = s \o t
    BY <1>4, <1>6, <2>1
  <2>3. Single(s) /\ Covered(m) /\ IsInjective(t)
    BY <1>4, <1>8, <2>1
  <2>4. \A o \in P : ~(o \in ToSet(s) /\ o \in ToSet(t))
    <3> SUFFICES ASSUME NEW o \in P, o \in ToSet(s), o \in ToSet(t) PROVE FALSE
      OBVIOUS
    <3>1. PICK i \in 1..m : o \in ToSet(lists[i])
      BY <2>3
    <3>2. i \in 1..n /\ i # m + 1
      <4>1. n \in Nat /\ m \in Nat /\ m + 1 <= n
        BY <1>1, <2>1
      <4> QED BY <4>1
    <3> QED BY <1>5, <2>1, <3>1, <3>2
  <2>5. \A o \in ToSet(c) : o \in ToSet(s) \/ o \in ToSet(t)
    <3> HIDE DEF s, t, c
    <3>1. ToSet(s \o t) = ToSet(s) \cup ToSet(t)
      BY <2>2, ConcatList
    <3> QED BY <2>2, <3>1
  <2>6. Covered(m + 1)
    <3> SUFFICES ASSUME NEW o \in ToSet(c) PROVE \E i \in 1..(m + 1) : o \in ToSet(lists[i])
      OBVIOUS
    <3>1. CASE o \in ToSet(s)
      <4>1. PICK i \in 1..m : o \in ToSet(lists[i])
        BY <2>3, <3>1
      <4>2. i \in 1..(m + 1)
        OBVIOUS
      <4> QED BY <4>1, <4>2
    <3>2. CASE o \in ToSet(t)
      <4>1. m + 1 \in 1..(m + 1)
        OBVIOUS
      <4> QED BY <3>2, <4>1
    <3> QED BY <2>5, <3>1, <3>2
  <2> HIDE DEF s, t, c
  <2>7. /\ Len(c) = Len(s) + Len(t) /\ Len(s) \in Nat /\ Len(t) \in Nat
        /\ \A i \in 1..Len(s) + Len(t) : c[i] = IF i <= Len(s) THEN s[i] ELSE t[i - Len(s)]
        /\ DOMAIN s = 1..Len(s) /\ DOMAIN t = 1..Len(t)
    BY <2>2, ConcatProperties, LenProperties
  <2>8. \A i \in 1..Len(c) : i <= Len(s) => i \in 1..Len(s) /\ c[i] = s[i] /\ c[i] \in ToSet(s)
    BY <2>7 DEF ToSet
  <2>9. \A i \in 1..Len(c) : ~(i <= Len(s)) =>
          i - Len(s) \in 1..Len(t) /\ c[i] = t[i - Len(s)] /\ c[i] \in ToSet(t)
    <3> SUFFICES ASSUME NEW i \in 1..Len(c), ~(i <= Len(s))
                 PROVE  i - Len(s) \in 1..Len(t) /\ c[i] = t[i - Len(s)] /\ c[i] \in ToSet(t)
      OBVIOUS
    <3>1. i - Len(s) \in 1..Len(t) /\ c[i] = t[i - Len(s)]
      BY <2>7
    <3> QED BY <2>7, <3>1 DEF ToSet
  <2>10. Single(c)
    <3> SUFFICES ASSUME NEW i \in 1..Len(c), NEW j \in 1..Len(c), c[i] = c[j], c[i] \in P PROVE i = j
      OBVIOUS
    <3>1. CASE i <= Len(s) /\ j <= Len(s)
      BY <2>3, <2>8, <3>1 DEF s
    <3>2. CASE ~(i <= Len(s)) /\ ~(j <= Len(s))
      <4>1. i - Len(s) = j - Len(s)
        BY <2>3, <2>7, <2>9, <3>2 DEF IsInjective
      <4>2. i \in Int /\ j \in Int
        BY <2>7
      <4> QED BY <2>7, <4>1, <4>2
    <3>3. CASE i <= Len(s) /\ ~(j <= Len(s))
      BY <2>4, <2>8, <2>9, <3>3
    <3>4. CASE ~(i <= Len(s)) /\ j <= Len(s)
      BY <2>4, <2>8, <2>9, <3>4
    <3> QED BY <3>1, <3>2, <3>3, <3>4
  <2> QED BY <2>6, <2>10 DEF c
<1> HIDE DEF T
<1>9. \A m \in Nat : m \in T
  BY <1>7, <1>8, Induction
<1>10. Single(g[n])
  BY <1>1, <1>9 DEF T, n
<1> QED BY <1>3, <1>6, <1>10

Budget == HitsPerSession * PageSize

(* The budget of hits is no smaller than a page.                           *)
LEMMA BudgetPositive == Budget \in Nat /\ Budget >= PageSize /\ PageSize \in Nat /\ PageSize > 0
<1>1. HitsPerSession \in Nat /\ PageSize \in Nat /\ HitsPerSession > 0 /\ PageSize > 0
  BY AnswerAssumption
<1>2. Budget \in Nat
  BY <1>1 DEF Budget
<1>3. (HitsPerSession - 1) * PageSize >= 0
  BY <1>1
<1>4. HitsPerSession * PageSize = (HitsPerSession - 1) * PageSize + PageSize
  BY <1>1
<1>5. (HitsPerSession - 1) * PageSize \in Int
  BY <1>1
<1> QED BY <1>1, <1>2, <1>3, <1>4, <1>5 DEF Budget

(* The newest of a list with hits.                                         *)
LEMMA SomeNewest ==
  ASSUME NEW msgs \in Seq(Arrivals), NEW list \in Seq(Hydrated(msgs)), AllHits(list) # {}
  PROVE  AllHits(list) \cap Newest(msgs, list, Budget) # {}
<1> DEFINE D == DOMAIN msgs
           h == HitsOf(list)
           t == NewestFirst(msgs, h)
<1>1. h \in Seq(D) /\ ToSet(h) = AllHits(list)
  BY HitsOfList
<1> HIDE DEF h
<1>2. t \in Seq(D) /\ ToSet(t) = AllHits(list)
  BY <1>1, NewestList
<1> HIDE DEF t, D
<1>3. Budget \in Nat /\ Budget > 0
  BY BudgetPositive
<1> DEFINE b == Budget
<1> HIDE DEF b
<1>4. /\ Upto(t, b) \in Seq(D) /\ ToSet(Upto(t, b)) \subseteq ToSet(t)
      /\ Len(Upto(t, b)) = IF b <= Len(t) THEN b ELSE Len(t)
  BY <1>2, <1>3, CutEntries, CutList DEF b
<1>5. Len(t) # 0 /\ Len(t) \in Nat
  BY <1>2, EmptyList, LenProperties
<1>6. ToSet(Upto(t, b)) # {}
  BY <1>3, <1>4, <1>5, EmptyList DEF b
<1> QED BY <1>2, <1>4, <1>6 DEF Newest, h, t, b

(* What is shown: of the tail and of the picked chunks, of the kind that   *)
(* was asked for, each message once in its session; and something, if a    *)
(* picked chunk has a message of that kind.                                *)
LEMMA ShownList ==
  ASSUME live \in Seq(Arrivals), tail.sessions \in Seq(Hydrated(live)), OnceEach(tail.sessions),
         NEW q, NEW h \in Seq(Hydrated(live)), OnceEach(h)
  PROVE  LET a == Shown(q, h)
         IN /\ a \in Seq(Hydrated(live)) /\ OnceEach(a)
            /\ q.sender # {} \/ q.filter.media => Apart(a)
            /\ AllHits(a) \subseteq AllHits(tail.sessions) \cup AllHits(h)
            /\ \A r \in AllHits(a) : OfKind(live[r], q)
            /\ (\E r \in AllHits(h) : OfKind(live[r], q)) => AllHits(a) # {}
<1> DEFINE m == MergeSessions(live, tail.sessions, h)
           w == Narrowed(q, m)
           x == NewestHitsOnly(live, w, Budget)
           page == FirstPage(live, x)
           a == Shown(q, h)
           H == Hydrated(live)
<1>1. a = page
  BY DEF Shown, Budget, FirstPage
<1> HIDE DEF a
<1>2. /\ m \in Seq(H) /\ AllHits(m) \subseteq AllHits(tail.sessions) \cup AllHits(h)
      /\ AllHits(h) \subseteq AllHits(m) /\ OnceEach(m)
  BY MergedList
<1> HIDE DEF m
<1>3. /\ w \in Seq(H) /\ OnceEach(w) /\ (q.sender # {} \/ q.filter.media => Apart(w))
      /\ AllHits(w) = {r \in AllHits(m) : OfKind(live[r], q)}
  <2>1. m \in Seq(Hydrated(live)) /\ OnceEach(m)
    BY <1>2
  <2> QED BY <2>1, NarrowedList
<1> HIDE DEF w
<1>4. /\ x \in Seq(H) /\ OnceEach(x) /\ (q.sender # {} \/ q.filter.media => Apart(x))
      /\ AllHits(x) = AllHits(w) \cap Newest(live, w, Budget) /\ \A s \in ToSet(x) : s.hits # << >>
  <2>1. w \in Seq(Hydrated(live))
    BY <1>3
  <2> QED BY <1>3, <2>1, NewestHitsOnlyList
<1> HIDE DEF x
<1>5. page \in Seq(H) /\ ToSet(page) \subseteq ToSet(x) /\ (x # << >> => page # << >>)
  <2>1. x \in Seq(Hydrated(live)) /\ \A s \in ToSet(x) : s.hits # << >>
    BY <1>4
  <2> HIDE DEF H
  <2> QED BY <2>1, PageOf DEF H
<1> HIDE DEF page
<1>6. AllHits(page) \subseteq AllHits(x)
  BY <1>5 DEF AllHits
<1>7. OnceEach(page) /\ (q.sender # {} \/ q.filter.media => Apart(page))
  BY <1>4, <1>5 DEF OnceEach, Apart
<1>8. ASSUME NEW r \in AllHits(h), OfKind(live[r], q) PROVE AllHits(page) # {}
  <2>1. AllHits(w) # {}
    BY <1>2, <1>3, <1>8
  <2>2. AllHits(x) # {}
    <3>1. w \in Seq(Hydrated(live))
      BY <1>3
    <3> QED BY <1>4, <2>1, <3>1, SomeNewest
  <2>3. x # << >>
    <3>1. PICK s \in ToSet(x) : TRUE
      BY <2>2 DEF AllHits
    <3> HIDE DEF H
    <3> QED BY <1>4, <3>1, EmptyList
  <2>4. PICK s \in ToSet(page) : TRUE
    <3> HIDE DEF H
    <3> QED BY <1>5, <2>3, EmptyList
  <2>5. s.hits # << >> /\ s \in ToSet(x)
    BY <1>4, <1>5
  <2>6. s.hits \in Seq(DOMAIN live)
    <3>1. \A i \in 1..Len(x) : x[i].hits \in Seq(DOMAIN live)
      BY <1>4, HydratedParts
    <3>2. ToSet(x) = {x[i] : i \in 1..Len(x)}
      BY <1>4, HydratedParts
    <3> QED BY <2>5, <3>1, <3>2
  <2>7. ToSet(s.hits) # {}
    <3> DEFINE D == DOMAIN live
               y == s.hits
    <3>1. y \in Seq(D) /\ y # << >>
      BY <2>5, <2>6
    <3> HIDE DEF D, y
    <3>2. ToSet(y) # {}
      BY <3>1, EmptyList
    <3> QED BY <3>2 DEF y
  <2> QED BY <2>4, <2>7 DEF AllHits
<1> QED BY <1>1, <1>2, <1>3, <1>4, <1>5, <1>6, <1>7, <1>8 DEF a

-----------------------------------------------------------------------------
(* A message too new for the index.                                        *)

AsNew(r) == {o \in DOMAIN live : live[o].ts >= live[r].ts}

(* With less than a page of others as new it is within the budget of hits. *)
LEMMA NewEnoughHit ==
  ASSUME live \in Seq(Arrivals), NEW w \in Seq(Hydrated(live)), OnceEach(w),
         NEW r \in AllHits(w), Sole(w, AsNew(r)), Cardinality(AsNew(r) \ {r}) < PageSize
  PROVE  r \in Newest(live, w, Budget)
<1> DEFINE s == HitsOf(w)
           k == [i \in DOMAIN s |-> live[s[i]].ts]
           t == Arranged(s, Order(k))
           P == AsNew(r)
           D == DOMAIN live
           others == P \ {r}
<1>1. s \in Seq(D) /\ ToSet(s) = AllHits(w)
  BY HitsOfList
<1>2. \A i, j \in 1..Len(s) : s[i] = s[j] /\ s[i] \in P => i = j
  BY HitsOnce
<1>3. Newest(live, w, Budget) = ToSet(Upto(t, Budget))
  BY DEF Newest, NewestFirst, SortedBy, Arranged
<1> HIDE DEF s
<1>4. /\ DOMAIN s = 1..Len(s) /\ Len(s) \in Nat
      /\ \A i \in 1..Len(s) : s[i] \in D /\ live[s[i]].ts \in Int
  <2>1. DOMAIN s = 1..Len(s) /\ Len(s) \in Nat /\ \A i \in 1..Len(s) : s[i] \in D
    BY <1>1, LenProperties
  <2>2. \A o \in D : live[o] \in Arrivals
    BY LenProperties
  <2> QED BY <2>1, <2>2, Dated
<1>5. PICK j \in 1..Len(s) : s[j] = r
  BY <1>1, <1>4 DEF ToSet
<1>6. r \in P /\ IsFiniteSet(others)
  <2>1. r \in P
    BY <1>4, <1>5 DEF AsNew
  <2>2. IsFiniteSet(P) /\ others \subseteq P
    <3>1. P \in SUBSET (DOMAIN live)
      BY DEF AsNew
    <3> QED BY <3>1, RowsOfTable
  <2> QED BY <2>1, <2>2, FS_Subset
<1>7. k \in [1..Len(s) -> Int] /\ \A i \in 1..Len(s) : k[i] = live[s[i]].ts
  BY <1>4
<1> HIDE DEF k
<1>8. Budget \in Nat /\ Budget >= PageSize /\ PageSize \in Nat
  BY BudgetPositive
<1>9. s[j] \in ToSet(Upto(t, Budget)) \/ \E at : Ahead(at, Budget, k, j)
  BY <1>1, <1>7, <1>8, AmongFirst
<1> HIDE DEF t, D, P, others
<1>10. ASSUME NEW at, Ahead(at, Budget, k, j) PROVE FALSE
  <2> DEFINE f == [p \in 1..Budget |-> s[at[p]]]
  <2>1. DOMAIN k = 1..Len(s)
    BY <1>7
  <2>2. ASSUME NEW p \in 1..Budget
        PROVE  at[p] \in 1..Len(s) /\ s[at[p]] \in P /\ s[at[p]] # r
    <3>1. at[p] \in 1..Len(s) /\ at[p] # j /\ k[at[p]] >= k[j]
      BY <1>10, <2>1 DEF Ahead
    <3>2. s[at[p]] \in P
      BY <1>4, <1>5, <1>7, <3>1 DEF AsNew, P, D
    <3> QED BY <1>2, <1>5, <1>6, <3>1, <3>2
  <2>3. f \in [1..Budget -> others]
    BY <2>2 DEF others
  <2>4. \A p, p2 \in 1..Budget : f[p] = f[p2] => p = p2
    <3> SUFFICES ASSUME NEW p \in 1..Budget, NEW p2 \in 1..Budget, s[at[p]] = s[at[p2]]
                 PROVE  p = p2
      OBVIOUS
    <3>1. at[p] = at[p2]
      BY <1>2, <2>2
    <3> QED BY <1>10, <3>1 DEF Ahead
  <2> HIDE DEF f
  <2>5. Budget <= Cardinality(others) /\ Cardinality(others) \in Nat
    BY <1>6, <1>8, <2>3, <2>4, AtLeast
  <2> QED BY <1>8, <2>5 DEF others, P
<1> QED BY <1>3, <1>5, <1>9, <1>10

(* And its session is on the page.                                         *)
LEMMA NewEnoughSession ==
  ASSUME live \in Seq(Arrivals), NEW x \in Seq(Hydrated(live)), \A s \in ToSet(x) : s.hits # << >>,
         NEW r \in AllHits(x), Sole(x, AsNew(r)), Cardinality(AsNew(r) \ {r}) < PageSize
  PROVE  r \in AllHits(FirstPage(live, x))
<1> DEFINE page == FirstPage(live, x)
           k == [i \in DOMAIN x |-> NewestHit(live, x[i])]
           P == AsNew(r)
           others == P \ {r}
           n == Len(x)
<1>1. \A j \in 1..n : x[j] \in ToSet(page) \/ \E at : Ahead(at, PageSize, k, j)
  <2>1. KeptForPage(live, x)
    BY PageOf
  <2> QED BY <2>1 DEF KeptForPage
<1> HIDE DEF page
<1>2. /\ n \in Nat /\ DOMAIN x = 1..n /\ \A i \in 1..n : x[i] \in Hydrated(live) /\ x[i] \in ToSet(x)
      /\ AllHits(x) = UNION {ToSet(x[i].hits) : i \in 1..n}
  BY HydratedParts DEF ToSet
<1>3. \A i \in 1..n : /\ k[i] \in Nat /\ \A o \in ToSet(x[i].hits) : live[o].ts <= k[i]
                      /\ \E o \in ToSet(x[i].hits) : o \in DOMAIN live /\ live[o].ts = k[i]
  <2>1. \A i \in 1..n : k[i] = NewestHit(live, x[i])
    BY <1>2
  <2>2. \A i \in 1..n : x[i].hits # << >>
    BY <1>2
  <2> QED BY <1>2, <2>1, <2>2, NewestHitOf
<1>4. DOMAIN k = 1..n
  BY <1>2
<1> HIDE DEF k
<1>5. PICK j \in 1..n : r \in ToSet(x[j].hits)
  BY <1>2
<1>6. PageSize \in Nat
  BY BudgetPositive
<1>7. IsFiniteSet(others) /\ r \in DOMAIN live /\ live[r].ts \in Int
  <2>1. IsFiniteSet(P) /\ others \subseteq P
    <3>1. P \in SUBSET (DOMAIN live)
      BY DEF AsNew
    <3> QED BY <3>1, RowsOfTable
  <2>2. r \in DOMAIN live
    <3> DEFINE D == DOMAIN live
               y == x[j].hits
    <3>1. y \in Seq(D) /\ r \in ToSet(y)
      BY <1>5, HydratedParts
    <3> HIDE DEF D, y
    <3>2. r \in D
      BY <3>1, LenProperties DEF ToSet
    <3> QED BY <3>2 DEF D
  <2>3. live[r] \in Arrivals
    BY <2>2, LenProperties
  <2> QED BY <2>1, <2>2, <2>3, Dated, FS_Subset
<1>8. r \in P
  BY <1>7 DEF AsNew
<1> HIDE DEF others
<1>9. ASSUME NEW at, Ahead(at, PageSize, k, j) PROVE FALSE
  <2> DEFINE f == [p \in 1..PageSize |->
                     CHOOSE o \in ToSet(x[at[p]].hits) : o \in DOMAIN live /\ live[o].ts = k[at[p]]]
  <2>1. ASSUME NEW p \in 1..PageSize
        PROVE  /\ at[p] \in 1..n /\ at[p] # j /\ f[p] \in ToSet(x[at[p]].hits)
               /\ f[p] \in P
    <3>1. at[p] \in 1..n /\ at[p] # j /\ k[at[p]] >= k[j]
      BY <1>4, <1>9 DEF Ahead
    <3>2. f[p] \in ToSet(x[at[p]].hits) /\ f[p] \in DOMAIN live /\ live[f[p]].ts = k[at[p]]
      BY <1>3, <3>1
    <3>3. live[r].ts <= k[j] /\ k[j] \in Nat /\ k[at[p]] \in Nat
      BY <1>3, <1>5, <3>1
    <3>4. live[f[p]].ts >= live[r].ts
      BY <1>7, <3>1, <3>2, <3>3
    <3> QED BY <3>1, <3>2, <3>4 DEF AsNew
  <2> HIDE DEF f
  <2>2. \A p \in 1..PageSize : f[p] # r
    BY <1>5, <1>8, <2>1 DEF Sole, P
  <2>3. \A p \in 1..PageSize : f[p] \in others
    BY <2>1, <2>2 DEF others
  <2>4. f \in [1..PageSize -> others]
    <3>1. f = [p \in 1..PageSize |-> f[p]]
      BY DEF f
    <3> QED BY <2>3, <3>1
  <2>5. \A p, p2 \in 1..PageSize : f[p] = f[p2] => p = p2
    <3> SUFFICES ASSUME NEW p \in 1..PageSize, NEW p2 \in 1..PageSize, f[p] = f[p2] PROVE p = p2
      OBVIOUS
    <3>1. at[p] = at[p2]
      BY <2>1 DEF Sole, P
    <3> QED BY <1>9, <3>1 DEF Ahead
  <2>6. PageSize <= Cardinality(others) /\ Cardinality(others) \in Nat
    BY <1>6, <1>7, <2>4, <2>5, AtLeast
  <2> QED BY <1>6, <2>6 DEF others, P
<1>10. x[j] \in ToSet(page)
  BY <1>1, <1>9
<1> QED BY <1>5, <1>10 DEF AllHits, page

(* So it is shown if it was read and the index knows nothing as new.       *)
LEMMA ShownNewest ==
  ASSUME live \in Seq(Arrivals), tail.sessions \in Seq(Hydrated(live)),
         OnceEach(tail.sessions), KeysOnce(tail.sessions),
         NEW q, NEW h \in Seq(Hydrated(live)), OnceEach(h), KeysOnce(h),
         NEW r \in AllHits(tail.sessions), OfKind(live[r], q), Sole(tail.sessions, AsNew(r)),
         AllHits(h) \cap AsNew(r) = {}, Cardinality(AsNew(r) \ {r}) < PageSize
  PROVE  r \in AllHits(Shown(q, h))
<1> DEFINE m == MergeSessions(live, tail.sessions, h)
           w == Narrowed(q, m)
           x == NewestHitsOnly(live, w, Budget)
<1>1. /\ m \in Seq(Hydrated(live)) /\ AllHits(tail.sessions) \subseteq AllHits(m) /\ OnceEach(m)
      /\ Sole(m, AsNew(r))
  BY MergedList
<1>2. Shown(q, h) = FirstPage(live, x)
  BY DEF Shown, Budget, FirstPage
<1> HIDE DEF m
<1>3. w \in Seq(Hydrated(live)) /\ r \in AllHits(w) /\ OnceEach(w) /\ Sole(w, AsNew(r))
  <2>1. /\ w \in Seq(Hydrated(live)) /\ (OnceEach(m) => OnceEach(w)) /\ (\A P : Sole(m, P) => Sole(w, P))
        /\ AllHits(w) = {o \in AllHits(m) : OfKind(live[o], q)}
    BY <1>1, NarrowedList
  <2> QED BY <1>1, <2>1
<1> HIDE DEF w
<1>4. r \in Newest(live, w, Budget)
  BY <1>3, NewEnoughHit
<1>5. /\ x \in Seq(Hydrated(live)) /\ r \in AllHits(x) /\ (\A s \in ToSet(x) : s.hits # << >>)
      /\ Sole(x, AsNew(r))
  <2>1. /\ x \in Seq(Hydrated(live)) /\ AllHits(x) = AllHits(w) \cap Newest(live, w, Budget)
        /\ (\A s \in ToSet(x) : s.hits # << >>) /\ \A P : Sole(w, P) => Sole(x, P)
    BY <1>3, NewestHitsOnlyList
  <2> QED BY <1>3, <1>4, <2>1
<1> HIDE DEF x
<1> QED BY <1>2, <1>5, NewEnoughSession

(* Nothing in the index is newer than its horizon.                         *)
LEMMA HorizonOf ==
  ASSUME live \in Seq(Arrivals), NEW n \in 0..Len(live), TableTrue(rows, n), NEW ids,
         NEW r \in MessagesOf(ids)
  PROVE  live[r].ts <= Horizon /\ Horizon \in Nat
<1> DEFINE D == DOMAIN rows
           ends == {rows[i].end : i \in D}
           f == [i \in D |-> rows[i].end]
<1>1. PICK i \in D : r \in ToSet(rows[i].messages)
  BY DEF MessagesOf
<1>2. \A j \in D : rows[j].end \in Nat
  BY DEF TableTrue, RowTrue
<1>3. IsFiniteSet(D)
  BY FiniteTable
<1>4. f \in Surjection(D, ends)
  BY DEF Surjection
<1>5. IsFiniteSet(ends)
  <2> HIDE DEF ends, f, D
  <2> QED BY <1>3, <1>4, FS_Surjection
<1>6. rows[i].end \in ends /\ ends \in SUBSET Nat /\ ends # {}
  BY <1>1, <1>2
<1> HIDE DEF ends
<1>7. Max(ends) \in ends /\ \A e \in ends : e <= Max(ends)
  BY <1>5, <1>6, GreatestOf
<1>8. Horizon = Max(ends)
  BY DEF Horizon, ends
<1>9. live[r].ts <= rows[i].end
  BY <1>1 DEF TableTrue, RowTrue
<1>10. live[r].ts \in Int
  <2>1. rows[i].messages \in Seq(1..n)
    BY <1>1 DEF TableTrue, RowTrue
  <2>2. r \in 1..n
    BY <1>1, <2>1, LenProperties DEF ToSet
  <2>3. live[r] \in Arrivals
    BY <2>2, LenProperties
  <2> QED BY <2>3, Dated
<1>11. Max(ends) \in Nat /\ rows[i].end \in Nat /\ rows[i].end <= Max(ends)
  BY <1>6, <1>7
<1> QED BY <1>8, <1>9, <1>10, <1>11

(* The sessions of picked chunks on a page, with their messages.           *)
PickedPage(offset) == HydrateSessions(live, rows, Upto(From(ordered, offset), PageSize))

(* They are typed, have different keys, and what they show are messages of *)
(* picked chunks.                                                          *)
LEMMA PickedPageList ==
  ASSUME live \in Seq(Arrivals), NEW n \in 0..Len(live), TableTrue(rows, n),
         ordered \in Seq(RankedSessions), NEW offset \in Nat
  PROVE  LET h == PickedPage(offset)
         IN /\ h \in Seq(Hydrated(live)) /\ OnceEach(h)
            /\ KeysOnce(ordered) => KeysOnce(h)
            /\ \A r \in AllHits(h) : \E i \in 1..Len(ordered) : r \in MessagesOf(ToSet(ordered[i].hits))
            /\ offset = 0 /\ ordered # << >> => MessagesOf(ToSet(ordered[1].hits)) \subseteq AllHits(h)
<1> DEFINE f == From(ordered, offset)
           c == Upto(f, PageSize)
           h == PickedPage(offset)
           l == Len(ordered)
<1>1. PageSize \in Nat /\ PageSize > 0
  BY BudgetPositive
<1>2. /\ f \in Seq(RankedSessions) /\ Len(f) = (IF offset <= l THEN l - offset ELSE 0)
      /\ \A i \in 1..Len(f) : f[i] = ordered[offset + i]
  BY CutList
<1> HIDE DEF f
<1>3. /\ c \in Seq(RankedSessions) /\ Len(c) = (IF PageSize <= Len(f) THEN PageSize ELSE Len(f))
      /\ \A i \in 1..Len(c) : c[i] = f[i]
  BY <1>1, <1>2, CutList
<1>4. h = HydrateSessions(live, rows, c)
  BY DEF PickedPage, f
<1> HIDE DEF c, h
<1>5. l \in Nat /\ Len(f) \in Nat /\ Len(c) \in Nat /\ Len(c) <= Len(f)
  BY <1>1, <1>2, <1>3, LenProperties
<1>6. \A i \in 1..Len(c) : offset + i \in 1..l /\ c[i] = ordered[offset + i]
  <2> SUFFICES ASSUME NEW i \in 1..Len(c) PROVE offset + i \in 1..l /\ c[i] = ordered[offset + i]
    OBVIOUS
  <2>1. i \in 1..Len(f)
    BY <1>5
  <2>2. c[i] = f[i] /\ f[i] = ordered[offset + i]
    BY <1>2, <1>3, <2>1
  <2>3. offset + i \in 1..l
    <3>1. offset <= l /\ Len(f) = l - offset
      BY <1>2, <1>5, <2>1
    <3> QED BY <1>5, <2>1, <3>1
  <2> QED BY <2>2, <2>3
<1>7. /\ h \in Seq(Hydrated(live)) /\ Len(h) = Len(c) /\ OnceEach(h)
      /\ \A i \in 1..Len(c) : h[i].key = c[i].key /\ ToSet(h[i].hits) = MessagesOf(ToSet(c[i].hits))
  <2>1. \A s \in RankedSessions : s.key \in Keys
    BY DEF RankedSessions
  <2> HIDE DEF l
  <2> QED BY <1>3, <1>4, <2>1, HydrateSessionsList
<1>8. AllHits(h) = UNION {ToSet(h[i].hits) : i \in 1..Len(h)}
  BY <1>7, HydratedParts
<1>9. ASSUME KeysOnce(ordered) PROVE KeysOnce(h)
  <2> SUFFICES ASSUME NEW i \in 1..Len(h), NEW j \in 1..Len(h), h[i].key = h[j].key PROVE i = j
    BY DEF KeysOnce
  <2>1. offset + i \in 1..l /\ offset + j \in 1..l /\ ordered[offset + i].key = ordered[offset + j].key
    BY <1>6, <1>7
  <2>2. offset + i = offset + j
    BY <1>9, <2>1 DEF KeysOnce
  <2>3. i \in Int /\ j \in Int
    BY <1>5, <1>7
  <2> QED BY <2>2, <2>3
<1>10. \A r \in AllHits(h) : \E i \in 1..l : r \in MessagesOf(ToSet(ordered[i].hits))
  <2> SUFFICES ASSUME NEW r \in AllHits(h) PROVE \E i \in 1..l : r \in MessagesOf(ToSet(ordered[i].hits))
    OBVIOUS
  <2>1. PICK i \in 1..Len(h) : r \in ToSet(h[i].hits)
    BY <1>8
  <2>2. offset + i \in 1..l /\ r \in MessagesOf(ToSet(ordered[offset + i].hits))
    BY <1>6, <1>7, <2>1
  <2> QED BY <2>2
<1>11. ASSUME offset = 0, ordered # << >> PROVE MessagesOf(ToSet(ordered[1].hits)) \subseteq AllHits(h)
  <2>1. l # 0
    BY <1>11, EmptyList
  <2>2. 1 \in 1..Len(c)
    BY <1>1, <1>2, <1>3, <1>5, <1>11, <2>1
  <2>3. ToSet(h[1].hits) = MessagesOf(ToSet(ordered[offset + 1].hits))
    BY <1>6, <1>7, <2>2
  <2> QED BY <1>7, <1>8, <1>11, <2>2, <2>3
<1> QED BY <1>7, <1>9, <1>10, <1>11 DEF h, l

-----------------------------------------------------------------------------
(* What the senders wrote last.                                            *)

(* How far down the newest messages of K a message stands.                 *)
NoLater(msgs, K, r) ==
  {o \in K : msgs[o].ts > msgs[r].ts \/ (msgs[o].ts = msgs[r].ts /\ o <= r)}

(* A message is among the newest so many if no more than that stand as     *)
(* high.                                                                   *)
LEMMA TopOf ==
  ASSUME NEW msgs \in Seq(Arrivals), NEW K \in SUBSET (DOMAIN msgs), NEW L \in Nat, NEW r \in K
  PROVE  r \in ToSet(Upto(NewestFirst(msgs, Ascending(K)), L)) <=> Cardinality(NoLater(msgs, K, r)) <= L
<1> DEFINE s == Ascending(K)
           c == Cardinality(K)
           k == [i \in DOMAIN s |-> msgs[s[i]].ts]
           t == Arranged(s, Order(k))
           N == NoLater(msgs, K, r)
           first == ToSet(Upto(t, L))
<1>1. NewestFirst(msgs, s) = t
  BY DEF NewestFirst, SortedBy, Arranged
<1>2. K \in SUBSET Nat /\ IsFiniteSet(K) /\ \A o \in K : msgs[o].ts \in Int
  <2>1. \A o \in DOMAIN msgs : msgs[o] \in Arrivals
    BY LenProperties
  <2> QED BY <2>1, RowsOfTable, Dated
<1>3. /\ c \in Nat /\ s \in Seq(K) /\ Len(s) = c /\ DOMAIN s = 1..c
      /\ \A i \in 1..c : s[i] \in K
      /\ (\A o \in K : \E p \in 1..c : s[p] = o)
      /\ \A p, q \in 1..c : p < q => s[p] < s[q]
  <2>1. /\ c \in Nat /\ s \in Seq(K) /\ Len(s) = c /\ s \in [1..c -> K]
        /\ (\A o \in K : \E p \in 1..c : s[p] = o)
        /\ \A p, q \in 1..c : p < q => s[p] < s[q]
    BY <1>2, AscendingList
  <2> QED BY <2>1
<1> HIDE DEF s, c
<1>4. k \in [1..c -> Int] /\ \A i \in 1..c : k[i] = msgs[s[i]].ts
  BY <1>2, <1>3
<1> HIDE DEF k
<1>5. /\ t \in Seq(K) /\ Len(t) = c
      /\ \E at : Sorts(at, k, c) /\ \A p \in 1..c : at[p] \in 1..c /\ t[p] = s[at[p]]
  <2>1. s \in Seq(K) /\ k \in [1..Len(s) -> Int]
    BY <1>3, <1>4
  <2>2. /\ t \in Seq(K) /\ Len(t) = Len(s)
        /\ \E at : Sorts(at, k, Len(s)) /\ \A p \in 1..Len(s) : at[p] \in 1..Len(s) /\ t[p] = s[at[p]]
    BY <2>1, SortedList
  <2> HIDE DEF t
  <2> QED BY <1>3, <2>2
<1> HIDE DEF t
<1>6. PICK at : Sorts(at, k, c) /\ \A p \in 1..c : at[p] \in 1..c /\ t[p] = s[at[p]]
  BY <1>5
<1>7. PICK j \in 1..c : s[j] = r
  BY <1>3
<1>8. PICK p \in 1..c : at[p] = j
  BY <1>6, <1>7 DEF Sorts
<1>9. t[p] = r
  BY <1>6, <1>7, <1>8
<1>10. \A i, i2 \in 1..c : i < i2 =>
         /\ msgs[t[i]].ts > msgs[t[i2]].ts \/ (msgs[t[i]].ts = msgs[t[i2]].ts /\ t[i] < t[i2])
  <2> SUFFICES ASSUME NEW i \in 1..c, NEW i2 \in 1..c, i < i2
               PROVE  \/ msgs[t[i]].ts > msgs[t[i2]].ts
                      \/ msgs[t[i]].ts = msgs[t[i2]].ts /\ t[i] < t[i2]
    OBVIOUS
  <2>1. k[at[i]] > k[at[i2]] \/ (k[at[i]] = k[at[i2]] /\ at[i] < at[i2])
    BY <1>6 DEF Sorts
  <2>2. /\ k[at[i]] = msgs[t[i]].ts /\ k[at[i2]] = msgs[t[i2]].ts
        /\ at[i] \in 1..c /\ at[i2] \in 1..c /\ t[i] = s[at[i]] /\ t[i2] = s[at[i2]]
    BY <1>4, <1>6
  <2> QED BY <1>3, <2>1, <2>2
<1>11. \A i \in 1..c : t[i] \in K /\ t[i] \in Nat /\ msgs[t[i]].ts \in Int
  BY <1>2, <1>3, <1>6
<1>12. \A i, i2 \in 1..c : t[i] = t[i2] => i = i2
  <2> SUFFICES ASSUME NEW i \in 1..c, NEW i2 \in 1..c, t[i] = t[i2] PROVE i = i2
    OBVIOUS
  <2>1. ~(i < i2) /\ ~(i2 < i)
    BY <1>10, <1>11
  <2> QED BY <1>3, <2>1
<1>13. \A o \in K : \E i \in 1..c : t[i] = o
  <2> SUFFICES ASSUME NEW o \in K PROVE \E i \in 1..c : t[i] = o
    OBVIOUS
  <2>1. PICK i \in 1..c : s[i] = o
    BY <1>3
  <2>2. PICK i2 \in 1..c : at[i2] = i
    BY <1>6 DEF Sorts
  <2> QED BY <1>6, <2>1, <2>2
<1>14. \A i \in 1..p : i \in 1..c /\ t[i] \in N
  <2> SUFFICES ASSUME NEW i \in 1..p PROVE i \in 1..c /\ t[i] \in N
    OBVIOUS
  <2>1. i \in 1..c /\ (i < p \/ i = p)
    BY <1>3
  <2>2. CASE i = p
    BY <1>9, <1>11, <2>1, <2>2 DEF NoLater
  <2>3. CASE i < p
    BY <1>9, <1>10, <1>11, <2>1, <2>3 DEF NoLater
  <2> QED BY <2>1, <2>2, <2>3
<1>15. \A o \in N : \E i \in 1..p : t[i] = o
  <2> SUFFICES ASSUME NEW o \in N PROVE \E i \in 1..p : t[i] = o
    OBVIOUS
  <2>1. o \in K /\ (msgs[o].ts > msgs[r].ts \/ (msgs[o].ts = msgs[r].ts /\ o <= r))
    BY DEF NoLater
  <2>2. PICK i \in 1..c : t[i] = o
    BY <1>13, <2>1
  <2>3. ~(p < i)
    <3>1. p < i => msgs[r].ts > msgs[o].ts \/ (msgs[r].ts = msgs[o].ts /\ r < o)
      BY <1>9, <1>10, <2>2
    <3>2. msgs[r].ts \in Int /\ msgs[o].ts \in Int /\ r \in Int /\ o \in Int
      BY <1>2, <2>1
    <3> QED BY <2>1, <3>1, <3>2
  <2>4. i \in 1..p
    BY <1>3, <2>3
  <2> QED BY <2>2, <2>4
<1> HIDE DEF N
<1>16. Cardinality(N) = p
  <2> DEFINE f == [i \in 1..p |-> t[i]]
  <2>1. f \in [1..p -> N] /\ \A i \in 1..p : f[i] = t[i]
    BY <1>14
  <2> HIDE DEF f
  <2>2. f \in Surjection(1..p, N)
    BY <1>15, <2>1 DEF Surjection
  <2>3. f \in Injection(1..p, N)
    BY <1>12, <1>14, <2>1 DEF Injection, IsInjective
  <2>4. p \in Nat
    BY <1>3
  <2>5. IsFiniteSet(1..p) /\ Cardinality(1..p) = p
    BY <2>4, FirstNumbers
  <2> QED BY <2>2, <2>3, <2>5, FS_Surjection
<1>17. first = {t[i] : i \in {i \in 1..c : i <= L}}
  BY <1>5, CutList
<1>18. r \in first <=> p <= L
  BY <1>9, <1>12, <1>17
<1> QED BY <1>1, <1>16, <1>18 DEF N, s

(* The messages of the senders up to n, and the newest of them.            *)
Written(msgs, n, q) ==
  {r \in 1..n : /\ msgs[r].who \in q.sender /\ ~msgs[r].me /\ msgs[r].chat # Unset
                /\ q.filter.media => HasAttachment(msgs[r])}
TopWritten(msgs, n, q) == Upto(NewestFirst(msgs, Ascending(Written(msgs, n, q))), Lookback)

(* Who wrote the newest of the senders' messages is one of the senders.    *)
LEMMA TopAmong ==
  ASSUME NEW msgs \in Seq(Arrivals), NEW n \in 0..Len(msgs), NEW q
  PROVE  ToSet(TopWritten(msgs, n, q)) \subseteq Written(msgs, n, q)
<1> DEFINE K == Written(msgs, n, q)
           a == Ascending(K)
           u == NewestFirst(msgs, a)
           D == DOMAIN msgs
<1>1. K \in SUBSET (DOMAIN msgs)
  BY LenProperties DEF Written
<1>2. TopWritten(msgs, n, q) = Upto(u, Lookback)
  BY DEF TopWritten
<1> HIDE DEF K
<1>3. a \in Seq(D) /\ ToSet(a) = K
  <2>1. K \in SUBSET Nat /\ IsFiniteSet(K)
    BY <1>1, RowsOfTable
  <2>2. a \in Seq(K) /\ ToSet(a) = K
    BY <2>1, NumbersList
  <2> HIDE DEF a, D
  <2> QED BY <1>1, <2>2, SeqOfEntries DEF D
<1> HIDE DEF a
<1>4. u \in Seq(D) /\ ToSet(u) = K
  BY <1>3, NewestList
<1>5. Lookback \in Nat
  BY AnswerAssumption
<1> HIDE DEF u, D
<1>6. ToSet(Upto(u, Lookback)) \subseteq ToSet(u)
  BY <1>4, <1>5, CutEntries
<1> QED BY <1>2, <1>4, <1>6 DEF K

(* Whoever is among the newest is so before others wrote.                  *)
LEMMA TopKept ==
  ASSUME NEW msgs \in Seq(Arrivals), NEW n \in 0..Len(msgs),
         NEW longer \in Seq(Arrivals), NEW n2 \in n..Len(longer), Len(msgs) <= Len(longer),
         \A i \in 1..Len(msgs) : longer[i] = msgs[i],
         NEW q, NEW r \in 1..n
  PROVE  r \in ToSet(TopWritten(longer, n2, q)) => r \in ToSet(TopWritten(msgs, n, q))
<1> DEFINE K == Written(msgs, n, q)
           K2 == Written(longer, n2, q)
           N == NoLater(msgs, K, r)
           N2 == NoLater(longer, K2, r)
<1>1. /\ Len(msgs) \in Nat /\ DOMAIN msgs = 1..Len(msgs) /\ Len(longer) \in Nat
      /\ DOMAIN longer = 1..Len(longer) /\ Lookback \in Nat
  BY LenProperties, AnswerAssumption
<1>2. \A i \in 1..n : i \in 1..Len(msgs) /\ i \in 1..n2 /\ longer[i] = msgs[i]
  BY <1>1
<1>3. K \in SUBSET (DOMAIN msgs) /\ K2 \in SUBSET (DOMAIN longer) /\ K \subseteq K2
  BY <1>1, <1>2 DEF Written
<1>4. SUFFICES ASSUME r \in ToSet(TopWritten(longer, n2, q)) PROVE r \in ToSet(TopWritten(msgs, n, q))
  OBVIOUS
<1>5. r \in K2
  BY <1>4, TopAmong
<1>6. r \in K
  BY <1>2, <1>5 DEF Written
<1> HIDE DEF K, K2
<1>7. Cardinality(N2) <= Lookback
  BY <1>1, <1>3, <1>4, <1>5, TopOf DEF TopWritten, K2
<1>8. N \subseteq N2
  BY <1>1, <1>2, <1>3 DEF NoLater, K, Written
<1>9. IsFiniteSet(N2)
  <2>1. N2 \in SUBSET (DOMAIN longer)
    BY <1>3 DEF NoLater
  <2> QED BY <2>1, RowsOfTable
<1> HIDE DEF N, N2
<1>10. Cardinality(N) <= Cardinality(N2) /\ Cardinality(N2) \in Nat /\ Cardinality(N) \in Nat
  <2>1. IsFiniteSet(N) /\ Cardinality(N) <= Cardinality(N2)
    BY <1>8, <1>9, FS_Subset
  <2> QED BY <1>9, <2>1, FS_CardinalityType
<1>11. Cardinality(N) <= Lookback
  BY <1>1, <1>7, <1>10
<1> QED BY <1>1, <1>3, <1>6, <1>11, TopOf DEF TopWritten, K, N

-----------------------------------------------------------------------------
(* The invariant.                                                          *)

(* The index is behind the snapshot and the snapshot behind the database,  *)
(* and every row tells the truth about its messages.                       *)
Basis ==
  /\ live \in Seq(Arrivals)
  /\ snapped \in 0..Len(live) /\ indexed \in 0..snapped /\ seen \in 0..indexed
  /\ phase \in {"idle", "picked", "tailed", "answered"}
  /\ TableTrue(rows, indexed)

(* A candidate in which a named sender wrote.                              *)
Sought == query.sender # {} /\ \E i \in DOMAIN rows : Candidate(i, query.filter) /\ Heard(i, query)

(* Every picked chunk has something of the kind that was asked for.        *)
Spoken ==
  /\ ordered # << >>
  /\ \A i \in 1..Len(ordered) : \A c \in ToSet(ordered[i].hits) :
       \E r \in ToSet(rows[c].messages) : OfKind(live[r], query)

Picked ==
  /\ query \in Queries /\ ordered \in Seq(RankedSessions) /\ KeysOnce(ordered)
  /\ indexed = seen =>
       /\ \A i \in 1..Len(ordered) : /\ ordered[i].hits # << >>
                                     /\ \A c \in ToSet(ordered[i].hits) : Candidate(c, query.filter)
       /\ Sought => Spoken

TailRead ==
  /\ tail.sessions \in Seq(Hydrated(live))
  /\ KeysOnce(tail.sessions) /\ OnceEach(tail.sessions) /\ Sole(tail.sessions, DOMAIN live)
  /\ \A r \in AllHits(tail.sessions) : InScope(live[r], query.filter)
  /\ indexed = seen /\ tail.limit > 0 => AllHits(tail.sessions) = TailSet(query, tail.limit)

(* The properties, said of sessions instead of the list of all hits.       *)
Once ==
  /\ OnceEach(answer.sessions)
  /\ query.sender # {} \/ query.filter.media => Apart(answer.sessions)

Kept ==
  \A r \in AllHits(answer.sessions) : /\ OfKind(live[r], query)
                                      /\ indexed = seen => InScope(live[r], query.filter)

Unindexed(r) ==
  /\ r > Len(live) - tail.limit /\ live[r].ts > Horizon
  /\ live[r].chat # Unset /\ live[r].kind # "system"
  /\ OfKind(live[r], query) /\ InScope(live[r], query.filter)
  /\ Cardinality(AsNew(r) \ {r}) < PageSize

NewestGiven ==
  query.offset = 0 /\ indexed = seen /\ tail.limit > 0 =>
    \A r \in DOMAIN live : Unindexed(r) => r \in AllHits(answer.sessions)

Nameless == \A r \in DOMAIN live : live[r].who \in query.sender => live[r].kind # "system"

SoughtGiven ==
  query.offset = 0 /\ indexed = seen /\ Nameless /\ Sought => AllHits(answer.sessions) # {}

Given == answer.sessions \in Seq(Hydrated(live)) /\ Once /\ Kept /\ NewestGiven /\ SoughtGiven

AnswerInv ==
  /\ Basis
  /\ phase # "idle" => Picked
  /\ phase \in {"tailed", "answered"} => TailRead
  /\ phase = "answered" => Given

(* The invariant holds of the empty database.                              *)
LEMMA AnswerInit == Init => AnswerInv
<1> SUFFICES ASSUME Init PROVE AnswerInv
  OBVIOUS
<1>1. live \in Seq(Arrivals) /\ Len(live) = 0 /\ DOMAIN rows = {}
  BY DEF Init
<1>2. Basis
  BY <1>1 DEF Init, Basis, TableTrue
<1> QED BY <1>2 DEF Init, AnswerInv

(* The messages of a row are among those the index was made from.          *)
LEMMA RowMessages ==
  ASSUME NEW n, TableTrue(rows, n), NEW i \in DOMAIN rows
  PROVE  \A r \in ToSet(rows[i].messages) : r \in 1..n
<1> DEFINE N == 1..n
           y == rows[i].messages
<1>1. y \in Seq(N)
  BY DEF TableTrue, RowTrue
<1> HIDE DEF N, y
<1>2. \A r \in ToSet(y) : r \in N
  BY <1>1, LenProperties DEF ToSet
<1> QED BY <1>2 DEF N, y

(* Messages that arrive and a backup take nothing from what was heard.     *)
LEMMA HeardBefore ==
  ASSUME Basis, Basis', UNCHANGED <<rows, query, indexed>>, snapped <= snapped', Len(live) <= Len(live'),
         \A r \in 1..Len(live) : live'[r] = live[r]
  PROVE  Sought' => Sought
<1> SUFFICES ASSUME Sought' PROVE Sought
  OBVIOUS
<1>1. /\ live \in Seq(Arrivals) /\ snapped \in 0..Len(live) /\ live' \in Seq(Arrivals)
      /\ snapped' \in 0..Len(live') /\ Len(live) \in Nat /\ Len(live') \in Nat
      /\ TableTrue(rows, indexed) /\ indexed \in 0..snapped
  BY LenProperties DEF Basis
<1>2. snapped' \in snapped..Len(live')
  BY <1>1
<1>3. WrittenBy(query) = TopWritten(live, snapped, query)
  BY DEF WrittenBy, TopWritten, Written
<1>4. WrittenBy(query)' = TopWritten(live', snapped', query)
  BY DEF WrittenBy, TopWritten, Written
<1>5. query.sender # {}
  BY DEF Sought
<1>6. PICK i \in DOMAIN rows : Candidate(i, query.filter) /\ ToSet(rows[i].messages) \cap ToSet(WrittenBy(query)') # {}
  BY DEF Sought, Candidate, Heard
<1>7. PICK r \in ToSet(rows[i].messages) : r \in ToSet(TopWritten(live', snapped', query))
  BY <1>4, <1>6
<1>8. r \in 1..snapped
  <2>1. r \in 1..indexed
    BY <1>1, <1>6, <1>7, RowMessages
  <2> QED BY <1>1, <2>1
<1>9. r \in ToSet(TopWritten(live, snapped, query))
  BY <1>1, <1>2, <1>7, <1>8, TopKept
<1>10. Heard(i, query)
  BY <1>3, <1>7, <1>9 DEF Heard
<1> QED BY <1>5, <1>6, <1>10 DEF Sought

-----------------------------------------------------------------------------
(* The steps.                                                              *)

(* What was picked stays true while the index does, whatever is written or *)
(* backed up.                                                              *)
LEMMA PickedStays ==
  ASSUME Basis, Basis', Picked, UNCHANGED <<rows, query, indexed, seen, ordered>>,
         snapped <= snapped', Len(live) <= Len(live'), \A r \in 1..Len(live) : live'[r] = live[r]
  PROVE  Picked'
<1>1. Sought' => Sought
  BY HeardBefore
<1>2. \A i \in DOMAIN rows : \A r \in ToSet(rows[i].messages) : live'[r] = live[r]
  <2>1. TableTrue(rows, indexed) /\ \A r \in 1..indexed : r \in 1..Len(live)
    BY LenProperties DEF Basis
  <2> SUFFICES ASSUME NEW i \in DOMAIN rows, NEW r \in ToSet(rows[i].messages) PROVE live'[r] = live[r]
    OBVIOUS
  <2>2. r \in 1..indexed
    BY <2>1, RowMessages
  <2> QED BY <2>1, <2>2
<1>3. ASSUME indexed = seen
      PROVE  /\ \A i \in 1..Len(ordered) : /\ ordered[i].hits # << >>
                                           /\ \A c \in ToSet(ordered[i].hits) : Candidate(c, query.filter)
             /\ Sought => Spoken
  BY <1>3 DEF Picked
<1>4. ASSUME indexed = seen, Spoken PROVE Spoken'
  <2>1. \A i \in 1..Len(ordered) : \A c \in ToSet(ordered[i].hits) : c \in DOMAIN rows
    BY <1>3, <1>4 DEF Candidate
  <2>2. \A i \in 1..Len(ordered) : \A c \in ToSet(ordered[i].hits) :
          \E r \in ToSet(rows[c].messages) : OfKind(live'[r], query)
    <3> SUFFICES ASSUME NEW i \in 1..Len(ordered), NEW c \in ToSet(ordered[i].hits)
                 PROVE  \E r \in ToSet(rows[c].messages) : OfKind(live'[r], query)
      OBVIOUS
    <3>1. PICK r \in ToSet(rows[c].messages) : OfKind(live[r], query)
      BY <1>4 DEF Spoken
    <3>2. live'[r] = live[r]
      BY <1>2, <2>1
    <3> QED BY <3>1, <3>2
  <2>3. ordered # << >>
    BY <1>4 DEF Spoken
  <2> QED BY <2>2, <2>3 DEF Spoken
<1>5. query' \in Queries /\ ordered' \in Seq(RankedSessions) /\ KeysOnce(ordered)'
  BY DEF Picked, KeysOnce
<1>6. ASSUME indexed' = seen'
      PROVE  /\ \A i \in 1..Len(ordered') :
                  /\ ordered'[i].hits # << >>
                  /\ \A c \in ToSet(ordered'[i].hits) : Candidate(c, query.filter)'
             /\ Sought' => Spoken'
  <2>1. \A i \in 1..Len(ordered) : /\ ordered[i].hits # << >>
                                   /\ \A c \in ToSet(ordered[i].hits) : Candidate(c, query.filter)
    BY <1>3, <1>6
  <2>2. Sought' => Spoken'
    BY <1>1, <1>3, <1>4, <1>6
  <2> QED BY <2>1, <2>2 DEF Candidate
<1> QED BY <1>5, <1>6 DEF Picked

(* A message arrives: it is behind everything the index has.               *)
LEMMA ArriveStep ==
  ASSUME AnswerInv, NEW m \in Arrivals, Arrive(m)
  PROVE  AnswerInv'
<1>1. /\ Basis /\ phase \in {"idle", "picked"} /\ live' = Append(live, m) /\ phase' = phase
      /\ UNCHANGED <<snapped, indexed, rows, reading, query, ordered, tail, answer, seen>>
  BY DEF AnswerInv, Arrive, reply
<1>2. live \in Seq(Arrivals) /\ snapped \in 0..Len(live) /\ indexed \in 0..snapped /\ TableTrue(rows, indexed)
  BY <1>1 DEF Basis
<1>3. /\ live' \in Seq(Arrivals) /\ Len(live') = Len(live) + 1 /\ Len(live) \in Nat
      /\ \A r \in 1..Len(live) : live'[r] = live[r]
  BY <1>1, <1>2, AppendProperties, LenProperties
<1>4. TableTrue(rows, indexed)'
  <2>1. \A r \in 1..indexed : live'[r] = live[r]
    BY <1>2, <1>3
  <2> SUFFICES ASSUME NEW i \in DOMAIN rows PROVE RowTrue(rows[i], indexed)'
    BY <1>1, <1>2 DEF TableTrue
  <2>2. RowTrue(rows[i], indexed)
    BY <1>2 DEF TableTrue
  <2>3. \A r \in ToSet(rows[i].messages) : r \in 1..indexed
    BY <1>2, RowMessages
  <2> QED BY <1>1, <2>1, <2>2, <2>3 DEF RowTrue
<1>5. Basis'
  BY <1>1, <1>2, <1>3, <1>4 DEF Basis
<1>6. phase # "idle" => Picked'
  <2> SUFFICES ASSUME phase # "idle" PROVE Picked'
    OBVIOUS
  <2>1. Picked
    BY DEF AnswerInv
  <2>2. Len(live) <= Len(live') /\ snapped <= snapped'
    BY <1>1, <1>2, <1>3
  <2> QED BY <1>1, <1>3, <1>5, <2>1, <2>2, PickedStays
<1> QED BY <1>1, <1>5, <1>6 DEF AnswerInv

(* A backup only makes more messages of the senders known.                 *)
LEMMA BackupStep ==
  ASSUME AnswerInv, Backup
  PROVE  AnswerInv'
<1>1. /\ Basis /\ snapped < Len(live) /\ snapped' = Len(live)
      /\ UNCHANGED <<live, indexed, rows, reading, phase, query, ordered, tail, answer, seen>>
  BY DEF AnswerInv, Backup, reply
<1>2. /\ live \in Seq(Arrivals) /\ snapped \in 0..Len(live) /\ indexed \in 0..snapped
      /\ TableTrue(rows, indexed) /\ Len(live) \in Nat
  BY <1>1, LenProperties DEF Basis
<1>3. TableTrue(rows, indexed)'
  BY <1>1, <1>2 DEF TableTrue, RowTrue
<1>4. Basis'
  BY <1>1, <1>2, <1>3 DEF Basis
<1>5. snapped <= snapped' /\ Len(live) <= Len(live') /\ \A r \in 1..Len(live) : live'[r] = live[r]
  BY <1>1, <1>2
<1>6. phase # "idle" => Picked'
  BY <1>1, <1>4, <1>5, PickedStays DEF AnswerInv
<1>7. phase \in {"tailed", "answered"} => TailRead'
  <2> SUFFICES ASSUME TailRead PROVE TailRead'
    BY DEF AnswerInv
  <2>1. TailSet(query, tail.limit)' = TailSet(query, tail.limit)
    BY <1>1 DEF TailSet, Horizon
  <2> QED BY <1>1, <2>1 DEF TailRead
<1>8. phase = "answered" => Given'
  <2> SUFFICES ASSUME Given PROVE Given'
    BY DEF AnswerInv
  <2>1. Once' /\ Kept'
    BY <1>1 DEF Given, Once, Kept
  <2>2. NewestGiven'
    BY <1>1 DEF Given, NewestGiven, Unindexed, AsNew, Horizon
  <2>3. SoughtGiven'
    <3>1. Sought' => Sought
      BY <1>1, <1>4, <1>5, HeardBefore
    <3>2. Nameless' => Nameless
      BY <1>1 DEF Nameless
    <3> QED BY <1>1, <3>1, <3>2 DEF Given, SoughtGiven
  <2> QED BY <1>1, <2>1, <2>2, <2>3 DEF Given
<1> QED BY <1>1, <1>4, <1>6, <1>7, <1>8 DEF AnswerInv

(* A build ends: the rows are made anew, and were picked from another      *)
(* index.                                                                  *)
LEMMA SyncStep ==
  ASSUME AnswerInv, Sync
  PROVE  AnswerInv'
<1>1. /\ Basis /\ indexed < snapped /\ indexed' = snapped /\ rows' = ChunkTable(snapped)
      /\ UNCHANGED <<live, snapped, reading, phase, query, ordered, tail, answer, seen>>
  BY DEF AnswerInv, Sync, reply
<1>2. /\ live \in Seq(Arrivals) /\ snapped \in 0..Len(live) /\ indexed \in 0..snapped
      /\ seen \in 0..indexed /\ Len(live) \in Nat
  BY <1>1, LenProperties DEF Basis
<1>3. TableTrue(rows, indexed)'
  <2>1. TableTrue(ChunkTable(snapped), snapped)
    BY <1>2, ChunkTableTrue
  <2> QED BY <1>1, <2>1 DEF TableTrue, RowTrue
<1>4. Basis' /\ indexed' # seen'
  BY <1>1, <1>2, <1>3 DEF Basis
<1>5. phase # "idle" => Picked'
  BY <1>1, <1>4 DEF AnswerInv, Picked, KeysOnce
<1>6. phase \in {"tailed", "answered"} => TailRead'
  BY <1>1, <1>4 DEF AnswerInv, TailRead
<1>7. phase = "answered" => Given'
  BY <1>1, <1>4 DEF AnswerInv, Given, Once, Kept, NewestGiven, SoughtGiven
<1> QED BY <1>1, <1>4, <1>5, <1>6, <1>7 DEF AnswerInv

(* The reading of the freshness cache matters to no promise.               *)
LEMMA ExpireStep ==
  ASSUME AnswerInv, UNCHANGED <<live, snapped, indexed, rows, reply>>
  PROVE  AnswerInv'
<1>1. UNCHANGED <<live, snapped, indexed, rows, phase, query, ordered, tail, answer, seen>>
  BY DEF reply
<1>2. Basis /\ Basis'
  BY <1>1 DEF AnswerInv, Basis, TableTrue, RowTrue
<1>3. /\ live \in Seq(Arrivals) /\ snapped \in 0..Len(live) /\ Len(live) \in Nat
      /\ snapped <= snapped' /\ Len(live) <= Len(live') /\ \A r \in 1..Len(live) : live'[r] = live[r]
  BY <1>1, <1>2, LenProperties DEF Basis
<1>4. phase # "idle" => Picked'
  BY <1>1, <1>2, <1>3, PickedStays DEF AnswerInv
<1>5. phase \in {"tailed", "answered"} => TailRead'
  BY <1>1 DEF AnswerInv, TailRead, TailSet, Horizon
<1>6. phase = "answered" => Given'
  <2> SUFFICES ASSUME Given PROVE Given'
    BY DEF AnswerInv
  <2>1. Sought' => Sought
    BY <1>1, <1>2, <1>3, HeardBefore
  <2>2. Nameless' => Nameless
    BY <1>1 DEF Nameless
  <2>3. NewestGiven'
    BY <1>1 DEF Given, NewestGiven, Unindexed, AsNew, Horizon
  <2>4. SoughtGiven'
    BY <1>1, <2>1, <2>2 DEF Given, SoughtGiven
  <2> QED BY <1>1, <2>3, <2>4 DEF Given, Once, Kept
<1> QED BY <1>1, <1>2, <1>4, <1>5, <1>6 DEF AnswerInv

(* The search is over.                                                     *)
LEMMA RestStep ==
  ASSUME AnswerInv, Rest
  PROVE  AnswerInv'
<1>1. /\ Basis /\ phase' = "idle" /\ seen' = 0
      /\ UNCHANGED <<live, snapped, indexed, rows>>
  BY DEF AnswerInv, Rest
<1>2. indexed \in 0..snapped /\ snapped \in 0..Len(live) /\ live \in Seq(Arrivals) /\ Len(live) \in Nat
  BY <1>1, LenProperties DEF Basis
<1>3. TableTrue(rows, indexed)'
  BY <1>1 DEF Basis, TableTrue, RowTrue
<1>4. Basis'
  BY <1>1, <1>2, <1>3 DEF Basis
<1> QED BY <1>1, <1>4 DEF AnswerInv

(* Where a sender was heard there is a message of the kind that was asked  *)
(* for.                                                                    *)
LEMMA HeardKind ==
  ASSUME Basis, NEW q, q.sender # {}, NEW i, Heard(i, q)
  PROVE  \E r \in ToSet(rows[i].messages) : OfKind(live[r], q)
<1>1. live \in Seq(Arrivals) /\ snapped \in 0..Len(live)
  BY DEF Basis
<1>2. WrittenBy(q) = TopWritten(live, snapped, q)
  BY DEF WrittenBy, TopWritten, Written
<1>3. PICK r \in ToSet(rows[i].messages) : r \in ToSet(TopWritten(live, snapped, q))
  BY <1>2 DEF Heard
<1>4. r \in Written(live, snapped, q)
  BY <1>1, <1>3, TopAmong
<1>5. OfKind(live[r], q)
  BY <1>4 DEF Written, OfKind, HasAttachment
<1> QED BY <1>3, <1>5

(* The rows are picked: candidates, and if a sender was heard, chunks they *)
(* wrote in.                                                               *)
LEMMA BrowseStep ==
  ASSUME AnswerInv, NEW q \in Queries, Browse(q)
  PROVE  AnswerInv'
<1> DEFINE o == Browsed(q)
<1>1. /\ Basis /\ phase' = "picked" /\ query' = q /\ ordered' = o /\ seen' = indexed
      /\ UNCHANGED <<live, snapped, indexed, rows, reading, tail, answer>>
  BY DEF AnswerInv, Browse
<1>2. TableTrue(rows, indexed) /\ DOMAIN rows \in SUBSET Ids /\ indexed \in 0..snapped /\ snapped \in 0..Len(live)
      /\ live \in Seq(Arrivals)
  BY <1>1 DEF Basis, TableTrue
<1>3. Basis'
  <2>1. seen' \in 0..indexed'
    BY <1>1, <1>2, LenProperties
  <2> QED BY <1>1, <2>1 DEF Basis, TableTrue, RowTrue
<1>4. FusedTop > 0
  BY AnswerAssumption
<1>5. /\ o \in Seq(RankedSessions)
      /\ \A i \in 1..Len(o) : o[i].hits # << >> /\ ToSet(o[i].hits) \subseteq PickedFrom(q)
      /\ \A i, j \in 1..Len(o) : o[i].key = o[j].key => i = j
      /\ PickedFrom(q) # {} => o # << >>
  BY <1>2, <1>4, BrowsedList
<1>6. /\ PickedFrom(q) \subseteq {i \in DOMAIN rows : Candidate(i, q.filter)}
      /\ q.sender # {} /\ (\E i \in DOMAIN rows : Candidate(i, q.filter) /\ Heard(i, q)) =>
           PickedFrom(q) # {} /\ \A i \in PickedFrom(q) : Heard(i, q)
  BY <1>2, PickedRows
<1> HIDE DEF o
<1>7. query' \in Queries /\ ordered' \in Seq(RankedSessions) /\ KeysOnce(ordered)'
  BY <1>1, <1>5 DEF KeysOnce
<1>8. \A i \in 1..Len(ordered') : /\ ordered'[i].hits # << >>
                                  /\ \A c \in ToSet(ordered'[i].hits) : Candidate(c, query.filter)'
  <2>1. \A i \in 1..Len(o) : o[i].hits # << >> /\ \A c \in ToSet(o[i].hits) : Candidate(c, q.filter)
    BY <1>5, <1>6
  <2> QED BY <1>1, <2>1 DEF Candidate
<1>9. ASSUME Sought' PROVE Spoken'
  <2>1. q.sender # {} /\ \E i \in DOMAIN rows : Candidate(i, q.filter) /\ Heard(i, q)
    BY <1>1, <1>9 DEF Sought, Candidate, Heard, WrittenBy
  <2>2. o # << >> /\ \A i \in PickedFrom(q) : Heard(i, q)
    BY <1>5, <1>6, <2>1
  <2>3. \A i \in 1..Len(o) : \A c \in ToSet(o[i].hits) :
          \E r \in ToSet(rows[c].messages) : OfKind(live[r], q)
    <3> SUFFICES ASSUME NEW i \in 1..Len(o), NEW c \in ToSet(o[i].hits)
                 PROVE  \E r \in ToSet(rows[c].messages) : OfKind(live[r], q)
      OBVIOUS
    <3>1. Heard(c, q)
      BY <1>5, <2>2
    <3> QED BY <1>1, <2>1, <3>1, HeardKind
  <2> QED BY <1>1, <2>2, <2>3 DEF Spoken
<1>10. Picked'
  BY <1>7, <1>8, <1>9 DEF Picked
<1> QED BY <1>1, <1>3, <1>10 DEF AnswerInv

(* What the tail has is what was asked for.                                *)
LEMMA TailScope ==
  ASSUME live \in Seq(Arrivals), NEW q \in Queries, NEW limit
  PROVE  /\ \A r \in TailSet(q, limit) : InScope(live[r], q.filter)
         /\ \A r \in DOMAIN live :
              /\ r > Len(live) - limit /\ live[r].ts > Horizon
              /\ live[r].chat # Unset /\ live[r].kind # "system"
              /\ InScope(live[r], q.filter)
              => r \in TailSet(q, limit)
<1>1. q.filter \in Filters
  BY AnswerAssumption
<1>2. ASSUME NEW r \in DOMAIN live, live[r].chat # Unset
      PROVE  InScope(live[r], q.filter) <=>
               /\ q.filter.from = Unset \/ live[r].ts >= q.filter.from
               /\ q.filter.to = Unset \/ live[r].ts <= q.filter.to
               /\ Allowed(live[r].chat, q.filter)
  <2>1. live[r] \in Arrivals
    BY LenProperties
  <2>2. live[r].chat \in Chats
    BY <1>2, <2>1, AnswerAssumption
  <2> HIDE DEF Allowed
  <2> QED BY <1>1, <2>2, ScopeOf
<1>3. \A r \in TailSet(q, limit) : InScope(live[r], q.filter)
  <2> SUFFICES ASSUME NEW r \in TailSet(q, limit) PROVE InScope(live[r], q.filter)
    OBVIOUS
  <2>1. /\ r \in DOMAIN live /\ live[r].chat # Unset
        /\ q.filter.from = Unset \/ live[r].ts >= q.filter.from
        /\ q.filter.to = Unset \/ live[r].ts <= q.filter.to
        /\ Allowed(live[r].chat, q.filter)
    BY DEF TailSet, Allowed
  <2> QED BY <1>2, <2>1
<1>4. ASSUME NEW r \in DOMAIN live, r > Len(live) - limit, live[r].ts > Horizon,
             live[r].chat # Unset, live[r].kind # "system", InScope(live[r], q.filter)
      PROVE  r \in TailSet(q, limit)
  <2>1. /\ q.filter.from = Unset \/ live[r].ts >= q.filter.from
        /\ q.filter.to = Unset \/ live[r].ts <= q.filter.to
        /\ Allowed(live[r].chat, q.filter)
    BY <1>2, <1>4
  <2> QED BY <1>4, <2>1 DEF TailSet, Allowed, HasContent
<1> QED BY <1>3, <1>4

(* The tail is read: what is past the index and in scope, or nothing.      *)
LEMMA ReadTailStep ==
  ASSUME AnswerInv, ReadTail
  PROVE  AnswerInv'
<1>1. /\ Basis /\ Picked /\ phase = "picked" /\ phase' = "tailed"
      /\ UNCHANGED <<live, snapped, indexed, rows, query, ordered, answer, seen>>
  BY DEF AnswerInv, ReadTail
<1>2. live \in Seq(Arrivals) /\ Len(live) \in Nat /\ query \in Queries /\ snapped \in 0..Len(live)
  BY <1>1, LenProperties DEF Basis, Picked
<1>3. Basis'
  BY <1>1 DEF Basis, TableTrue, RowTrue
<1>4. Picked'
  <2>1. snapped <= snapped' /\ Len(live) <= Len(live') /\ \A r \in 1..Len(live) : live'[r] = live[r]
    BY <1>1, <1>2
  <2> QED BY <1>1, <1>3, <2>1, PickedStays
<1>5. TailRead'
  <2>1. CASE tail' = NoTail
    <3>1. tail'.sessions = << >> /\ tail'.limit = 0
      BY <2>1 DEF NoTail
    <3>2. << >> \in Seq(Hydrated(live)) /\ ToSet(<< >>) = {} /\ Len(<< >>) = 0
      BY DEF ToSet
    <3>3. AllHits(tail'.sessions) = {} /\ OnceEach(tail.sessions)' /\ KeysOnce(tail.sessions)'
          /\ \A P : Sole(tail'.sessions, P)
      BY <3>1, <3>2 DEF AllHits, OnceEach, KeysOnce, Sole
    <3> QED BY <1>1, <3>1, <3>2, <3>3 DEF TailRead
  <2>2. CASE \E limit : tail' = [sessions |-> LiveTailSessions(query, limit), limit |-> limit]
    <3>1. PICK limit : tail' = [sessions |-> LiveTailSessions(query, limit), limit |-> limit]
      BY <2>2
    <3> DEFINE t == LiveTailSessions(query, limit)
    <3>2. /\ t \in Seq(Hydrated(live)) /\ AllHits(t) = TailSet(query, limit)
          /\ KeysOnce(t) /\ OnceEach(t) /\ \A P : Sole(t, P)
      BY <1>2, LiveTailList
    <3>3. tail'.sessions = t /\ tail'.limit = limit
      BY <3>1
    <3> HIDE DEF t
    <3>4. \A r \in AllHits(t) : InScope(live[r], query.filter)
      BY <1>2, <3>2, TailScope
    <3>5. TailSet(query, tail.limit)' = TailSet(query, limit)
      BY <1>1, <3>3 DEF TailSet, Horizon
    <3> QED BY <1>1, <3>2, <3>3, <3>4, <3>5 DEF TailRead
  <2> QED BY <2>1, <2>2 DEF ReadTail
<1> QED BY <1>1, <1>3, <1>4, <1>5 DEF AnswerInv

(* The answer is put together and keeps what the picked chunks and the     *)
(* tail promise.                                                           *)
LEMMA FinishStep ==
  ASSUME AnswerInv, Finish
  PROVE  AnswerInv'
<1> DEFINE h == PickedPage(query.offset)
           a == Shown(query, h)
<1>1. /\ Basis /\ Picked /\ TailRead /\ phase' = "answered" /\ answer'.sessions = a
      /\ UNCHANGED <<live, snapped, indexed, rows, reading, query, ordered, tail, seen>>
  BY DEF AnswerInv, Finish, PickedPage
<1>2. /\ live \in Seq(Arrivals) /\ indexed \in 0..Len(live) /\ TableTrue(rows, indexed)
      /\ query \in Queries /\ query.offset \in Nat /\ query.filter \in Filters
      /\ ordered \in Seq(RankedSessions) /\ KeysOnce(ordered)
      /\ tail.sessions \in Seq(Hydrated(live)) /\ OnceEach(tail.sessions) /\ KeysOnce(tail.sessions)
      /\ Sole(tail.sessions, DOMAIN live)
  <2>1. indexed \in 0..snapped /\ snapped \in 0..Len(live) /\ live \in Seq(Arrivals)
    BY <1>1 DEF Basis
  <2>2. indexed \in 0..Len(live)
    BY <2>1, LenProperties
  <2>3. query \in Queries
    BY <1>1 DEF Picked
  <2>4. query.offset \in Nat /\ query.filter \in Filters
    BY <2>3, AnswerAssumption
  <2> QED BY <1>1, <2>1, <2>2, <2>3, <2>4 DEF Basis, Picked, TailRead
<1>3. /\ h \in Seq(Hydrated(live)) /\ OnceEach(h) /\ KeysOnce(h)
      /\ \A r \in AllHits(h) : \E i \in 1..Len(ordered) : r \in MessagesOf(ToSet(ordered[i].hits))
      /\ query.offset = 0 /\ ordered # << >> => MessagesOf(ToSet(ordered[1].hits)) \subseteq AllHits(h)
  BY <1>2, PickedPageList
<1> HIDE DEF h
<1>4. /\ a \in Seq(Hydrated(live)) /\ OnceEach(a)
      /\ (query.sender # {} \/ query.filter.media => Apart(a))
      /\ AllHits(a) \subseteq AllHits(tail.sessions) \cup AllHits(h)
      /\ (\A r \in AllHits(a) : OfKind(live[r], query))
      /\ (\E r \in AllHits(h) : OfKind(live[r], query)) => AllHits(a) # {}
  BY <1>2, <1>3, ShownList
<1>5. ASSUME NEW r \in DOMAIN live, indexed = seen, tail.limit > 0, Unindexed(r)
      PROVE  r \in AllHits(a)
  <2>1. /\ r > Len(live) - tail.limit /\ live[r].ts > Horizon
        /\ live[r].chat # Unset /\ live[r].kind # "system"
        /\ OfKind(live[r], query) /\ InScope(live[r], query.filter)
        /\ Cardinality(AsNew(r) \ {r}) < PageSize
    BY <1>5 DEF Unindexed
  <2>2. r \in AllHits(tail.sessions)
    <3>1. r \in TailSet(query, tail.limit)
      BY <1>2, <2>1, TailScope
    <3> QED BY <1>1, <1>5, <3>1 DEF TailRead
  <2>3. Sole(tail.sessions, AsNew(r))
    BY <1>2 DEF Sole, AsNew
  <2>4. AllHits(h) \cap AsNew(r) = {}
    <3> SUFFICES ASSUME NEW o \in AllHits(h), o \in AsNew(r) PROVE FALSE
      OBVIOUS
    <3>1. PICK i \in 1..Len(ordered) : o \in MessagesOf(ToSet(ordered[i].hits))
      BY <1>3
    <3>2. live[o].ts <= Horizon /\ Horizon \in Nat
      BY <1>2, <3>1, HorizonOf
    <3>3. o \in DOMAIN live /\ live[o].ts >= live[r].ts
      BY DEF AsNew
    <3>4. live[o] \in Arrivals /\ live[r] \in Arrivals
      BY <1>2, <3>3, LenProperties
    <3>5. live[o].ts \in Int /\ live[r].ts \in Int
      BY <3>4, Dated
    <3> QED BY <2>1, <3>2, <3>3, <3>5
  <2> HIDE DEF a
  <2>5. r \in AllHits(Shown(query, h))
    BY <1>2, <1>3, <2>1, <2>2, <2>3, <2>4, ShownNewest
  <2> QED BY <2>5 DEF a
<1> HIDE DEF a
<1>6. Once'
  BY <1>1, <1>4 DEF Once
<1>7. Kept'
  <2>1. ASSUME NEW r \in AllHits(a), indexed = seen PROVE InScope(live[r], query.filter)
    <3>1. CASE r \in AllHits(tail.sessions)
      BY <1>1, <3>1 DEF TailRead
    <3>2. CASE r \in AllHits(h)
      <4>1. PICK i \in 1..Len(ordered) : r \in MessagesOf(ToSet(ordered[i].hits))
        BY <1>3, <3>2
      <4>2. PICK c \in ToSet(ordered[i].hits) : c \in DOMAIN rows /\ r \in ToSet(rows[c].messages)
        BY <4>1 DEF MessagesOf
      <4>3. Candidate(c, query.filter)
        BY <1>1, <2>1, <4>2 DEF Picked
      <4> QED BY <1>2, <4>2, <4>3, CandidateScope
    <3> QED BY <1>4, <2>1, <3>1, <3>2
  <2>2. \A r \in AllHits(a) : OfKind(live[r], query)
    BY <1>4
  <2> QED BY <1>1, <2>1, <2>2 DEF Kept
<1>8. NewestGiven'
  <2> SUFFICES ASSUME indexed = seen, tail.limit > 0, NEW r \in DOMAIN live, Unindexed(r)'
               PROVE  r \in AllHits(a)
    BY <1>1 DEF NewestGiven
  <2>1. Unindexed(r)
    BY <1>1 DEF Unindexed, AsNew, Horizon
  <2> QED BY <1>5, <2>1
<1>9. SoughtGiven'
  <2> SUFFICES ASSUME query.offset = 0, indexed = seen, Nameless', Sought' PROVE AllHits(a) # {}
    BY <1>1 DEF SoughtGiven
  <2>1. Nameless /\ Sought
    BY <1>1 DEF Nameless, Sought, Candidate, Heard, WrittenBy
  <2>2. Spoken /\ \A i \in 1..Len(ordered) : /\ ordered[i].hits # << >>
                                             /\ \A c \in ToSet(ordered[i].hits) : Candidate(c, query.filter)
    BY <1>1, <2>1 DEF Picked
  <2>3. 1 \in 1..Len(ordered)
    <3>1. Len(ordered) # 0 /\ Len(ordered) \in Nat
      BY <1>2, <2>2, EmptyList, LenProperties DEF Spoken
    <3> QED BY <3>1
  <2>4. PICK c \in ToSet(ordered[1].hits) : TRUE
    <3>1. ordered[1] \in RankedSessions
      BY <1>2, <2>3, LenProperties
    <3>2. ordered[1].hits \in Seq(Ids) /\ ordered[1].hits # << >>
      BY <2>2, <2>3, <3>1 DEF RankedSessions
    <3> QED BY <3>2, EmptyList
  <2>5. PICK r \in ToSet(rows[c].messages) : OfKind(live[r], query)
    BY <2>2, <2>3, <2>4 DEF Spoken
  <2>6. c \in DOMAIN rows
    BY <2>2, <2>3, <2>4 DEF Candidate
  <2>7. HasContent(live[r])
    <3>1. r \in 1..indexed
      BY <1>2, <2>5, <2>6, RowMessages
    <3>2. r \in DOMAIN live
      BY <1>2, <3>1, LenProperties
    <3>3. live[r].who \in query.sender
      BY <2>1, <2>5 DEF OfKind, Sought
    <3> QED BY <2>1, <3>2, <3>3 DEF Nameless, HasContent
  <2>8. r \in MessagesOf(ToSet(ordered[1].hits))
    BY <2>4, <2>5, <2>6, <2>7 DEF MessagesOf
  <2>9. r \in AllHits(h)
    BY <1>3, <2>2, <2>8 DEF Spoken
  <2> QED BY <1>4, <2>5, <2>9
<1>10. Given'
  BY <1>1, <1>4, <1>6, <1>7, <1>8, <1>9 DEF Given
<1>11. Basis'
  BY <1>1 DEF Basis, TableTrue, RowTrue
<1>12. Picked'
  <2>1. snapped <= snapped' /\ Len(live) <= Len(live') /\ \A r \in 1..Len(live) : live'[r] = live[r]
    BY <1>1, LenProperties DEF Basis
  <2> QED BY <1>1, <1>11, <2>1, PickedStays
<1>13. TailRead'
  BY <1>1 DEF TailRead, TailSet, Horizon
<1> QED BY <1>1, <1>10, <1>11, <1>12, <1>13 DEF AnswerInv

(* Every step keeps the invariant.                                         *)
LEMMA AnswerStep == AnswerInv /\ [Next]_vars => AnswerInv'
<1> SUFFICES ASSUME AnswerInv, [Next]_vars PROVE AnswerInv'
  OBVIOUS
<1>1. ASSUME NEW m \in Arrivals, Arrive(m) PROVE AnswerInv'
  BY <1>1, ArriveStep
<1>2. ASSUME NEW q \in Queries, Browse(q) PROVE AnswerInv'
  BY <1>2, BrowseStep
<1>3. CASE ReadTail
  BY <1>3, ReadTailStep
<1>4. CASE Finish
  BY <1>4, FinishStep
<1>5. CASE Rest
  BY <1>5, RestStep
<1>6. CASE Backup
  BY <1>6, BackupStep
<1>7. CASE Sync
  BY <1>7, SyncStep
<1>8. CASE Expire
  <2>1. UNCHANGED <<live, snapped, indexed, rows, reply>>
    BY <1>8 DEF Expire
  <2> QED BY <2>1, ExpireStep
<1>9. CASE UNCHANGED vars
  <2>1. UNCHANGED <<live, snapped, indexed, rows, reply>>
    BY <1>9 DEF vars, reply
  <2> QED BY <2>1, ExpireStep
<1> QED BY <1>1, <1>2, <1>3, <1>4, <1>5, <1>6, <1>7, <1>8, <1>9 DEF Next

-----------------------------------------------------------------------------
(* The theorems.                                                           *)

(* The invariant says what the runs check.                                 *)
LEMMA AnswerProperties ==
  AnswerInv => /\ MessageOncePerSession /\ FiltersHold /\ UnindexedShown /\ SenderIsFound
               /\ ConversationAroundHit
<1> SUFFICES ASSUME AnswerInv
             PROVE  /\ MessageOncePerSession /\ FiltersHold /\ UnindexedShown /\ SenderIsFound
                    /\ ConversationAroundHit
  OBVIOUS
<1>1. Basis /\ live \in Seq(Arrivals) /\ snapped \in 0..Len(live)
  BY DEF AnswerInv, Basis
<1>2. ConversationAroundHit
  BY <1>1, Around
<1> DEFINE a == answer.sessions
<1>3. ASSUME Answered
      PROVE  /\ a \in Seq(Hydrated(live)) /\ Once /\ Kept /\ NewestGiven /\ SoughtGiven
             /\ ToSet(Hits) = AllHits(a) /\ (Hits # << >> <=> AllHits(a) # {})
  <2>1. Given
    BY <1>3 DEF Answered, AnswerInv
  <2>2. Hits = HitsOf(a)
    BY DEF Hits, HitsOf, Mapped
  <2> DEFINE D == DOMAIN live
  <2>3. Hits \in Seq(D) /\ ToSet(Hits) = AllHits(a)
    BY <2>1, <2>2, HitsOfList DEF Given
  <2> HIDE DEF D
  <2>4. Hits # << >> <=> ToSet(Hits) # {}
    BY <2>3, EmptyList
  <2> QED BY <2>1, <2>3, <2>4 DEF Given
<1>4. MessageOncePerSession
  <2> SUFFICES ASSUME Answered, NEW n \in DOMAIN a
               PROVE  /\ IsInjective(a[n].hits)
                      /\ (query.sender # {} \/ query.filter.media) =>
                           ToSet(a[n].hits) \cap ToSet(a[n].context) = {}
    BY DEF MessageOncePerSession
  <2>1. a[n] \in ToSet(a)
    BY DEF ToSet
  <2> QED BY <1>3, <2>1 DEF Once, OnceEach, Apart
<1>5. FiltersHold
  BY <1>3 DEF FiltersHold, Kept
<1>6. UnindexedShown
  <2> SUFFICES ASSUME Answered, query.offset = 0, indexed = seen, tail.limit > 0,
                      NEW r \in DOMAIN live, r > Len(live) - tail.limit, live[r].ts > Horizon,
                      live[r].chat # Unset, live[r].kind # "system",
                      OfKind(live[r], query), InScope(live[r], query.filter),
                      Cardinality({o \in DOMAIN live : o # r /\ live[o].ts >= live[r].ts}) < PageSize
               PROVE  r \in ToSet(Hits)
    BY DEF UnindexedShown
  <2>1. {o \in DOMAIN live : o # r /\ live[o].ts >= live[r].ts} = AsNew(r) \ {r}
    BY DEF AsNew
  <2>2. Unindexed(r)
    BY <2>1 DEF Unindexed
  <2> QED BY <1>3, <2>2 DEF NewestGiven
<1>7. SenderIsFound
  <2> DEFINE c == CandidateChunks(rows, query.filter)
             mine == {r \in ToSet(WrittenBy(query)) :
                        \E i \in (IF c = Unset THEN DOMAIN rows ELSE c) : r \in ToSet(rows[i].messages)}
  <2> SUFFICES ASSUME Answered, query.offset = 0, indexed = seen, query.sender # {}, Nameless, mine # {}
               PROVE  Hits # << >>
    BY DEF SenderIsFound, Nameless
  <2>1. PICK r \in ToSet(WrittenBy(query)) :
          \E i \in (IF c = Unset THEN DOMAIN rows ELSE c) : r \in ToSet(rows[i].messages)
    OBVIOUS
  <2>2. PICK i \in (IF c = Unset THEN DOMAIN rows ELSE c) : r \in ToSet(rows[i].messages)
    BY <2>1
  <2>3. c = Unset \/ c \subseteq DOMAIN rows
    BY DEF CandidateChunks
  <2> HIDE DEF c
  <2>4. i \in DOMAIN rows /\ Candidate(i, query.filter)
    BY <2>2, <2>3 DEF Candidate, c
  <2>5. Heard(i, query)
    BY <2>1, <2>2 DEF Heard
  <2>6. Sought
    BY <2>4, <2>5 DEF Sought
  <2> QED BY <1>3, <2>6 DEF SoughtGiven
<1> QED BY <1>2, <1>4, <1>5, <1>6, <1>7

(* The invariant holds in every state of a search without words.           *)
THEOREM AnswerInvAlways == Spec => []AnswerInv
  BY AnswerInit, AnswerStep, PTL DEF Spec

(* A session of an answer has a message once, also when a build that ends  *)
(* during the search puts it both in a picked chunk and in the live tail.  *)
THEOREM MessageOncePerSessionAlways == Spec => []MessageOncePerSession
  BY AnswerInvAlways, AnswerProperties, PTL

(* Every message of an answer is of the kind that was asked for, and in    *)
(* scope of the other filters if no build ended during the search.         *)
THEOREM FiltersHoldAlways == Spec => []FiltersHold
  BY AnswerInvAlways, AnswerProperties, PTL

(* What is too new for the index is on the first page, unless a page of    *)
(* other messages is as new, whatever the order of ROWIDs and dates.       *)
THEOREM UnindexedShownAlways == Spec => []UnindexedShown
  BY AnswerInvAlways, AnswerProperties, PTL

(* A search for what someone wrote finds something, if the newest that was *)
(* written by them reaches into an indexed chunk the filters leave.        *)
THEOREM SenderIsFoundAlways == Spec => []SenderIsFound
  BY AnswerInvAlways, AnswerProperties, PTL

(* The window on a conversation has as many messages as asked for, or all, *)
(* and the nearest to the date it was opened at.                           *)
THEOREM ConversationAroundHitAlways == Spec => []ConversationAroundHit
  BY AnswerInvAlways, AnswerProperties, PTL
=============================================================================
