----------------------------- MODULE Retrieval -----------------------------
(***************************************************************************)
(* Retrieval (seaglass/search/retrieve.py): the chunks a query may answer  *)
(* from, the dense, sparse and phrase arms, their fusion and the slots     *)
(* kept for the newest matches.                                            *)
(*                                                                         *)
(* Abstracted: similarity and BM25 are rankings given with the query; the  *)
(* times of chunks are small numbers.                                      *)
(***************************************************************************)
EXTENDS Listing

CONSTANTS
  Chats, Handles,
  Roster,         \* chat -> handles chat_handle_join lists
  Authors,        \* chat -> handles that wrote in it
  Style,          \* chat -> "direct", "group" or Unset
  Unset,          \* None of Python
  ArmTop,         \* DENSE_TOP_K and SPARSE_TOP_K
  PhraseTop,      \* top_k of phrase_search
  InlineLimit,    \* CANDIDATE_INLINE_LIMIT
  FusedTop,       \* FUSED_TOP_K
  RecencySlots,   \* RECENCY_RESERVED_SLOTS
  RrfK            \* RRF_K

ASSUME RetrievalAssumption ==
  /\ {ArmTop, PhraseTop, InlineLimit, FusedTop, RecencySlots, RrfK} \subseteq Nat
  /\ Roster \in [Chats -> SUBSET Handles] /\ Authors \in [Chats -> SUBSET Handles]
  /\ Style \in [Chats -> {"direct", "group", Unset}]

(* What a parsed query asks for besides its words.                         *)
Filters ==
  [people : SUBSET Handles, group : BOOLEAN \cup {Unset}, chats : SUBSET Chats,
   from : Int \cup {Unset}, to : Int \cup {Unset}, media : BOOLEAN]

AnyFilter ==
  [people |-> {}, group |-> Unset, chats |-> {}, from |-> Unset, to |-> Unset, media |-> FALSE]

-----------------------------------------------------------------------------
(* Which chats, which chunks.                                              *)

ResolveParticipants(people) ==
  {c \in Chats : (Roster[c] \cup Authors[c]) \cap people # {}}

ResolveGroups(group) ==
  {c \in Chats : group = IF Style[c] = Unset THEN Cardinality(Roster[c]) > 1
                         ELSE Style[c] # "direct"}

(* Unset for "any"; an empty set is a filter that matched no chat.         *)
ResolveChatFilter(q) ==
  LET filters == (IF q.people = {} THEN {} ELSE {ResolveParticipants(q.people)})
            \cup (IF q.group = Unset THEN {} ELSE {ResolveGroups(q.group)})
            \cup (IF q.chats = {} THEN {} ELSE {q.chats})
  IN IF filters = {} THEN Unset ELSE {c \in UNION filters : \A f \in filters : c \in f}

InDates(row, q) ==
  /\ q.from = Unset \/ row.start >= q.from
  /\ q.to = Unset \/ row.end <= q.to

(* rows is the chunks table.                                               *)
CandidateChunks(rows, q) ==
  LET chats == ResolveChatFilter(q)
  IN IF q.from = Unset /\ q.to = Unset /\ ~q.media /\ chats = Unset THEN Unset
     ELSE {i \in DOMAIN rows :
             /\ InDates(rows[i], q)
             /\ q.media => rows[i].media
             /\ chats = Unset \/ rows[i].chat \in chats}

-----------------------------------------------------------------------------
(* The arms.  A ranking lists what an unconstrained query finds.           *)

(* Up to InlineLimit candidates are part of the query; beyond it three     *)
(* times as many are fetched and the others dropped afterwards.            *)
Constrained(ranking, candidates) ==
  IF candidates = Unset THEN Upto(ranking, ArmTop)
  ELSE IF Cardinality(candidates) > InlineLimit
       THEN Upto(Within(Upto(ranking, 3 * ArmTop), candidates), ArmTop)
       ELSE Upto(Within(ranking, candidates), ArmTop)

DenseSearch(near, candidates) == Constrained(near, candidates)
SparseSearch(terms, candidates) == Constrained(terms, candidates)

(* Faulty variant: too many candidates to inline are not filtered at all.  *)
PhraseSearchUnfiltered(q, candidates) ==
  IF q.single THEN << >>
  ELSE IF candidates = Unset \/ Cardinality(candidates) > InlineLimit
       THEN Upto(q.verbatim, PhraseTop)
       ELSE Upto(Within(q.verbatim, candidates), PhraseTop)

(* For phrases there is no larger fetch, and none for a single word.       *)
PhraseSearch(q, candidates) ==
  IF q.single THEN << >>
  ELSE IF candidates = Unset THEN Upto(q.verbatim, PhraseTop)
  ELSE IF Cardinality(candidates) > InlineLimit
       THEN Within(Upto(q.verbatim, PhraseTop), candidates)
       ELSE Upto(Within(q.verbatim, candidates), PhraseTop)

-----------------------------------------------------------------------------
(* Fusion.                                                                 *)

(* 1 / (k + rank) in units that tell any two sums of a few ranks apart.    *)
Unit == 100000000
RrfScore(arms, id) ==
  Total(Mapped(arms, LAMBDA arm :
    IF id \in ToSet(arm) THEN Unit \div (RrfK + (CHOOSE r \in DOMAIN arm : arm[r] = id)) ELSE 0))

Matched(arms) == Distinct(Joined(arms))

(* Faulty variant: every arm is cut before the fusion.                     *)
FuseEarlyCut(arms) ==
  LET cut == Mapped(arms, LAMBDA arm : Upto(arm, 1))
  IN Upto(SortedBy(Matched(cut), LAMBDA id : RrfScore(cut, id)), FusedTop)

Fuse(arms) == Upto(SortedBy(Matched(arms), LAMBDA id : RrfScore(arms, id)), FusedTop)

(* Newest first; matches come out of sets, so ties are in order of id.     *)
RecencyRanked(rows, ids) == SortedBy(ids, LAMBDA id : rows[id].start)

(* Faulty variant: the newest of what the fusion kept, not of all matches. *)
ReserveRecentOfFused(rows, fused, matched) ==
  LET kept == Upto(fused, FusedTop - Min({FusedTop, RecencySlots}))
      recent == Upto(Outside(RecencyRanked(rows, fused), ToSet(kept)), FusedTop - Len(kept))
  IN kept \o recent

(* Faulty variant: the newest may be among the best already.               *)
ReserveRecentTwice(rows, fused, matched) ==
  LET kept == Upto(fused, FusedTop - Min({FusedTop, RecencySlots}))
  IN Upto(kept \o RecencyRanked(rows, matched), FusedTop)

(* The best by fusion, then the newest matches, then more by fusion while  *)
(* there is room.                                                          *)
ReserveRecent(rows, fused, matched) ==
  IF RecencySlots = 0 \/ fused = << >> THEN Upto(fused, FusedTop)
  ELSE LET kept == Upto(fused, FusedTop - Min({FusedTop, RecencySlots}))
           recent == Upto(Outside(RecencyRanked(rows, matched), ToSet(kept)),
                          FusedTop - Len(kept))
           slack == Outside(From(fused, Len(kept)), ToSet(recent))
       IN Upto(kept \o recent \o slack, FusedTop)

(* near, terms, verbatim and expansions are the rankings of one query.     *)
Arms(q, candidates) ==
  LET always == <<DenseSearch(q.near, candidates), SparseSearch(q.terms, candidates)>>
      further == <<PhraseSearch(q, candidates)>>
              \o Mapped(q.expansions, LAMBDA e : SparseSearch(e, candidates))
  IN always \o Where(further, LAMBDA arm : arm # << >>)

Retrieve(rows, q) ==
  LET arms == Arms(q, CandidateChunks(rows, q.filter))
  IN ReserveRecent(rows, Fuse(arms), Matched(arms))

(* term_ids_out: what matched on the words of the query.                   *)
TermMatches(rows, q) ==
  LET candidates == CandidateChunks(rows, q.filter)
  IN ToSet(SparseSearch(q.terms, candidates)) \cup ToSet(PhraseSearch(q, candidates))
=============================================================================
