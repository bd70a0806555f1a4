----------------------------- MODULE Relevance -----------------------------
(***************************************************************************)
(* A search by words (SearchEngine.search in seaglass/app/engine.py): the  *)
(* candidates are retrieved, scored once and kept for further pages, cut,  *)
(* grouped into sessions and sliced into pages, while a build may take     *)
(* chunks out of the index between the steps.                              *)
(*                                                                         *)
(* Each of the four stages cuts its list and keeps places for the newest   *)
(* matches; the properties are about what comes out of all of them.        *)
(***************************************************************************)
EXTENDS Retrieval, Ranking

CONSTANTS
  Index,          \* the chunks table at first: id -> [chat, start, end, media]
  Queries,        \* the queries asked
  MaxPrunes       \* bound: chunks a build takes away

Chunks == [chat : Chats, start : DOMAIN Day, end : Int, media : BOOLEAN]

(* What a ranking says of the chunk ids of a query, scored or not.         *)
Candidates == [id : DOMAIN Index, chat : Chats, start : DOMAIN Day, score : 1..FusedTop]

ASSUME RelevanceAssumption ==
  /\ MaxPrunes \in Nat
  /\ DOMAIN Index \subseteq Nat /\ IsFiniteSet(DOMAIN Index) /\ Index \in [DOMAIN Index -> Chunks]
  /\ DOMAIN Day \subseteq Nat /\ IsFiniteSet(DOMAIN Day)
  /\ RecencyBoost \in [DOMAIN Day -> Nat] /\ LexicalBoost \in [DOMAIN Day -> Nat]
  /\ 1..FusedTop \subseteq DOMAIN Sigmoid /\ \A l \in 1..FusedTop : Sigmoid[l] \in Nat
  /\ Queries \subseteq [filter : Filters, near : Seq(DOMAIN Index), terms : Seq(DOMAIN Index),
                       verbatim : Seq(DOMAIN Index), single : BOOLEAN,
                       expansions : Seq(Seq(DOMAIN Index)), size : Nat \ {0}]
  /\ Unset \notin Seq(Candidates)
  /\ \A S \in (SUBSET Chats) \cup (SUBSET DOMAIN Index) : S # Unset

(* A row of the vector or the word index is one chunk, so that a ranking   *)
(* names no chunk twice.                                                   *)
ASSUME RankingsAssumption ==
  \A q \in Queries :
    /\ IsInjective(q.near) /\ IsInjective(q.terms) /\ IsInjective(q.verbatim)
    /\ \A n \in DOMAIN q.expansions : IsInjective(q.expansions[n])

VARIABLES
  rows,           \* the chunks table
  query,          \* the query under way, Unset at first
  phase,          \* "idle", "asked", "retrieved", "answered"
  fused,          \* candidates for scoring
  terms,          \* term_ids: candidates that matched on the words
  scored,         \* _page_cache: the scored candidates, Unset before the first
  seen,           \* auxiliary: the chunks table the first page was made from
  pages           \* the pages answered: sequences of sessions

vars == <<rows, query, phase, fused, terms, scored, seen, pages>>

Init ==
  /\ rows = Index /\ seen = Index
  /\ query = Unset /\ phase = "idle"
  /\ fused = << >> /\ terms = {} /\ scored = Unset /\ pages = << >>

-----------------------------------------------------------------------------

(* What the index can find now.                                            *)
Findable(q) ==
  LET Found(ranking) == Within(ranking, DOMAIN rows)
  IN [q EXCEPT !.near = Found(@), !.terms = Found(@), !.verbatim = Found(@),
               !.expansions = Mapped(@, Found)]

Ask(q) ==
  /\ phase = "idle"
  /\ query' = q /\ phase' = "asked"
  /\ UNCHANGED <<rows, fused, terms, scored, seen, pages>>

RetrieveCandidates ==
  /\ phase = "asked"
  /\ fused' = Retrieve(rows, Findable(query))
  /\ terms' = TermMatches(rows, Findable(query))
  /\ phase' = "retrieved"
  /\ seen' = IF pages = << >> THEN rows ELSE seen
  /\ UNCHANGED <<rows, query, scored, pages>>

(* exact_phrase_chunk_ids over the candidates                              *)
Lexical == ToSet(Findable(query).verbatim) \cap ToSet(fused)

WithContext(session) ==
  [session EXCEPT !.context = ContextOf(rows, session.key[1], ToSet(session.hits))]

(* The slice of _finish.                                                   *)
Answer(list) ==
  LET ordered == OrderedSessions(list, SelectHead(list), query.size, Lexical, terms)
      offset == Len(pages) * query.size
  IN [sessions |-> Mapped(Upto(From(ordered, offset), query.size), WithContext),
      more |-> offset + query.size < Len(ordered),
      ordered |-> ordered]

(* logit is what the cross-encoder says of every candidate.                *)
RerankAndAnswer ==
  /\ phase = "retrieved" /\ fused # << >>
  /\ \E logit \in IF scored # Unset THEN {Unset}
                  ELSE Bijection(ToSet(fused), 1..Len(fused)) :
       LET list == IF scored # Unset THEN scored ELSE RerankCandidates(rows, fused, logit)
       IN scored' = list /\ pages' = Append(pages, Answer(list))
  /\ phase' = "answered"
  /\ UNCHANGED <<rows, query, fused, terms, seen>>

(* Nothing was found: an empty answer, nothing is kept for other pages.    *)
AnswerNothing ==
  /\ phase = "retrieved" /\ fused = << >>
  /\ pages' = Append(pages, [sessions |-> << >>, more |-> FALSE, ordered |-> << >>])
  /\ phase' = "answered"
  /\ UNCHANGED <<rows, query, fused, terms, scored, seen>>

(* The next offset of the same query.                                      *)
AskMore ==
  /\ phase = "answered" /\ pages[Len(pages)].more
  /\ phase' = "asked"
  /\ UNCHANGED <<rows, query, fused, terms, scored, seen, pages>>

(* A build in another thread removes a chunk.                              *)
Prune ==
  /\ phase \in {"retrieved", "answered"} /\ Cardinality(DOMAIN Index \ DOMAIN rows) < MaxPrunes
  /\ \E id \in DOMAIN rows : rows' = Restrict(rows, DOMAIN rows \ {id})
  /\ UNCHANGED <<query, phase, fused, terms, scored, seen, pages>>

Next ==
  \/ \E q \in Queries : Ask(q)
  \/ RetrieveCandidates \/ RerankAndAnswer \/ AnswerNothing \/ AskMore \/ Prune

Spec == Init /\ [][Next]_vars

-----------------------------------------------------------------------------
(* Properties.                                                             *)

Shown(page) == UNION {ToSet(page.sessions[n].hits) : n \in DOMAIN page.sessions}

(* Type: lists of candidates name each chunk once and are within their     *)
(* limits, scores fall, pages are within their size.                       *)
RelevanceTypeOK ==
  /\ DOMAIN rows \subseteq DOMAIN Index
  /\ phase \in {"idle", "asked", "retrieved", "answered"}
  /\ IsInjective(fused) /\ Len(fused) <= FusedTop /\ ToSet(fused) \subseteq DOMAIN Index
  /\ terms \subseteq DOMAIN Index
  /\ scored # Unset => /\ IsInjective(Mapped(scored, LAMBDA c : c.id))
                       /\ \A i, j \in DOMAIN scored : i < j => scored[i].score >= scored[j].score
  /\ \A p \in DOMAIN pages : Len(pages[p].sessions) <= query.size

(* Whether a chunk may answer, by what the filters mean: each one that is  *)
(* set holds of the chunk by itself.                                       *)
MayAnswer(id, f) ==
  LET chunk == Index[id]
      many == IF Style[chunk.chat] = Unset THEN Cardinality(Roster[chunk.chat]) > 1
              ELSE Style[chunk.chat] # "direct"
  IN /\ f.from # Unset => chunk.start >= f.from
     /\ f.to # Unset => chunk.end <= f.to
     /\ f.media => chunk.media
     /\ f.chats # {} => chunk.chat \in f.chats
     /\ f.people # {} => \E h \in f.people : h \in Roster[chunk.chat] \/ h \in Authors[chunk.chat]
     /\ f.group # Unset => f.group = many

(* No arm lets a chunk past the filters, whichever way it applies them,    *)
(* and filters that agree on no chat find nothing.                         *)
CandidatesOnly ==
  /\ phase # "idle" => \A id \in ToSet(fused) : MayAnswer(id, query.filter)
  /\ \A p \in DOMAIN pages : \A id \in Shown(pages[p]) : MayAnswer(id, query.filter)

Matches == Matched(Arms(Findable(query), CandidateChunks(rows, query.filter)))

(* The newest of all matches, if it has the words in it, is on the first   *)
(* page: no cut on the way drops it.  (Of two that are equally new one may *)
(* be dropped.)                                                            *)
NewestMatchOnFirstPage ==
  (Len(pages) = 1 /\ phase = "answered" /\ rows = seen) =>
     \A id \in terms :
        (\A other \in ToSet(Matches) \ {id} : rows[other].start < rows[id].start)
           => id \in Shown(pages[1])

(* A recent session with the words in it is not displaced by one that is   *)
(* merely newer: of the sessions that reached the grouping, the newest     *)
(* that has the words, found by them or verbatim, is on the first page.    *)
WordsBeatMereRecency ==
  (Len(pages) = 1 /\ phase = "answered" /\ rows = seen /\ scored # Unset) =>
     LET grouped == {KeyOf(c) : c \in ToSet(SelectHead(scored))}
         matching == {s \in ToSet(pages[1].ordered) :
                        s.key \in grouped /\ ToSet(s.hits) \cap (terms \cup Lexical) # {}}
     IN \A s \in matching :
          (\A t \in matching \ {s} : t.latest < s.latest)
             => s \in ToSet(Upto(pages[1].ordered, query.size))

(* A place on the first page goes to a recent session only within the      *)
(* share reserved: all others go by score, ties in some order.             *)
RecencyTakesItsShare ==
  (Len(pages) = 1 /\ phase = "answered") =>
     LET ordered == pages[1].ordered
         keep == query.size - Min({SessionRecent, Max({1, query.size \div 3})})
         head == Upto(ordered, query.size)
         rankedKeys == {KeyOf(c) : c \in ToSet(SelectHead(scored))}
         Better(s) == {t \in ToSet(ordered) \ {s} : t.key \in rankedKeys /\ t.score >= s.score}
     IN scored # Unset =>
          \A s \in ToSet(ordered) :
             (s.key \in rankedKeys /\ Cardinality(Better(s)) < keep) => s \in ToSet(head)

(* Through all the pages every session of the scored candidates comes once *)
(* and none is left out, while the index stays.                            *)
PagesOnce ==
  (phase = "answered" /\ rows = seen /\ scored # Unset /\ ~pages[Len(pages)].more) =>
     LET shown == Joined(Mapped(pages, LAMBDA p : Mapped(p.sessions, LAMBDA s : s.key)))
     IN IsInjective(shown) /\ ToSet(shown) = {KeyOf(c) : c \in ToSet(scored)}

(* A chunk that two arms found comes before one that a single arm found,   *)
(* among the ranks where reciprocal ranks guarantee it; cutting the arms   *)
(* before the fusion would lose this.                                      *)
TwoArmsOutvoteOne ==
  (phase = "retrieved" /\ rows = seen /\ pages = << >>) =>
     LET arms == Arms(Findable(query), CandidateChunks(rows, query.filter))
         FoundBy(id) == {n \in DOMAIN arms : Contains(arms[n], id)}
         InReach(id) == \A n \in FoundBy(id) : \E r \in DOMAIN arms[n] : arms[n][r] = id /\ r < RrfK + 2
         best == Upto(fused, FusedTop - RecencySlots)
     IN \A a, b \in ToSet(Matched(arms)) :
          (Cardinality(FoundBy(a)) > 1 /\ InReach(a) /\ Cardinality(FoundBy(b)) = 1) =>
             \A n \in DOMAIN best : best[n] = b => \E m \in 1..(n - 1) : best[m] = a
=============================================================================
