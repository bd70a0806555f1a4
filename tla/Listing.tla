------------------------------ MODULE Listing ------------------------------
(***************************************************************************)
(* Lists as the search code handles them: sorted by a key with ties in the *)
(* order they came in (sorted and list.sort of Python), cut, filtered,     *)
(* joined, and rid of repetitions (dict.fromkeys).                         *)
(*                                                                         *)
(* What is picked out of a list is said by the places it comes from, and   *)
(* places by counting, so that all of this can be reasoned about.          *)
(***************************************************************************)
EXTENDS Integers, Sequences, FiniteSets, SequencesExt

(* A finite set of numbers as a list.                                      *)
Ascending(S) == [p \in 1..Cardinality(S) |-> CHOOSE i \in S : Cardinality({j \in S : j <= i}) = p]

(* Which entry comes first, second, ... of a stable sort by these keys,    *)
(* greatest first.                                                         *)
Order(key) ==
  LET place == [i \in DOMAIN key |->
        Cardinality({j \in DOMAIN key : key[j] > key[i] \/ (key[j] = key[i] /\ j <= i)})]
  IN [p \in DOMAIN key |-> CHOOSE i \in DOMAIN key : place[i] = p]

SortedBy(s, Key(_)) ==
  LET at == Order([i \in DOMAIN s |-> Key(s[i])]) IN [p \in DOMAIN s |-> s[at[p]]]

(* s[:n] and s[n:]                                                         *)
Upto(s, n) == SubSeq(s, 1, Min({n, Len(s)}))
From(s, n) == SubSeq(s, n + 1, Len(s))

(* The entries at some of the positions, in order.                         *)
Entries(s, places) == LET at == Ascending(places) IN [p \in DOMAIN at |-> s[at[p]]]

Where(s, Test(_)) == Entries(s, {i \in DOMAIN s : Test(s[i])})
Within(s, S) == Where(s, LAMBDA x : x \in S)
Outside(s, S) == Where(s, LAMBDA x : x \notin S)

(* First occurrences.                                                      *)
Distinct(s) == Entries(s, {i \in DOMAIN s : \A j \in 1..(i - 1) : s[j] # s[i]})

Mapped(s, Op(_)) == [i \in DOMAIN s |-> Op(s[i])]

Total(numbers) ==
  LET upto[n \in 0..Len(numbers)] == IF n = 0 THEN 0 ELSE upto[n - 1] + numbers[n]
  IN upto[Len(numbers)]

Joined(lists) ==
  LET upto[n \in 0..Len(lists)] == IF n = 0 THEN << >> ELSE upto[n - 1] \o lists[n]
  IN upto[Len(lists)]
=============================================================================
