------------------------------ MODULE Ranking ------------------------------
(***************************************************************************)
(* Ranking (seaglass/search/rank.py): the scored chunks, the cut for the   *)
(* first page, the sessions of a chat on a day, their order with slots for *)
(* the newest matches, and the context around them.                        *)
(*                                                                         *)
(* Abstracted: logits, sigmoids, the boost of recency and the freshness of *)
(* a verbatim match are functions to naturals that grow as they do.        *)
(***************************************************************************)
EXTENDS Listing

CONSTANTS
  Sigmoid,        \* logit -> weight of a hit in its session
  RecencyBoost,   \* time -> multiplier of a session
  LexicalBoost,   \* time -> addition for a verbatim match of that time
  Day,            \* time -> day
  RerankTop,      \* RERANK_TOP_K
  RerankRecent,   \* RERANK_RECENT_SLOTS
  SessionRecent,  \* RECENT_SESSION_SLOTS
  Radius          \* EXPANSION_RADIUS

Grows(f) == \A x, y \in DOMAIN f : x <= y => f[x] <= f[y]

ASSUME RankingAssumption ==
  /\ Grows(Sigmoid) /\ Grows(RecencyBoost) /\ Grows(LexicalBoost) /\ Grows(Day)
  /\ \A l \in DOMAIN Sigmoid : Sigmoid[l] > 0
  /\ \A t \in DOMAIN RecencyBoost : RecencyBoost[t] > 0
  /\ {RerankTop, RerankRecent, SessionRecent, Radius} \subseteq Nat

-----------------------------------------------------------------------------
(* Chunks.                                                                 *)

(* Score every candidate that is still in the index, best first.           *)
RerankCandidates(rows, fused, logit) ==
  SortedBy(Mapped(Within(fused, DOMAIN rows),
                  LAMBDA id : [id |-> id, chat |-> rows[id].chat, start |-> rows[id].start,
                               score |-> logit[id]]),
           LAMBDA c : c.score)

(* Faulty variant: the last places go to the next best.                    *)
SelectHeadBest(scored) == Upto(scored, RerankTop)

(* The best, and in the last places the newest of the others.              *)
SelectHead(scored) ==
  IF RerankRecent = 0 \/ Len(scored) <= RerankTop THEN Upto(scored, RerankTop)
  ELSE LET keep == RerankTop - Min({RerankTop, RerankRecent})
       IN Upto(scored, keep)
          \o Upto(SortedBy(From(scored, keep), LAMBDA c : c.start), RerankTop - keep)

-----------------------------------------------------------------------------
(* Sessions.                                                               *)

KeyOf(c) == <<c.chat, Day[c.start]>>
Latest(chunks) == Max({c.start : c \in chunks})

(* The session of a key, with the newest of its hits and whether any of    *)
(* them matched on the words; both only serve the order.                   *)
SessionOf(ranked, key, lexical, terms) ==
  LET hits == Where(ranked, LAMBDA c : KeyOf(c) = key)
      verbatim == {c \in ToSet(hits) : c.id \in lexical}
      matching == {c \in ToSet(hits) : c.id \in lexical \cup terms}
      boost == IF verbatim = {} THEN 0 ELSE LexicalBoost[Latest(verbatim)]
  IN [key |-> key,
      hits |-> Mapped(hits, LAMBDA c : c.id),
      context |-> {},
      latest |-> Latest(ToSet(hits)),
      matches |-> matching # {},
      score |-> RecencyBoost[Latest(ToSet(hits))]
                * (boost + Total(Mapped(hits, LAMBDA c : Sigmoid[c.score])))]

(* (matched, latest) as one number: matches before all others.             *)
Claim(session) ==
  session.latest + IF session.matches THEN Max(DOMAIN Day) + 1 ELSE 0

(* Faulty variants: the newest sessions, whether they match or not; all    *)
(* slots of a small page.                                                  *)
ReserveSessionsNewest(sessions, size, slots) ==
  IF slots = 0 \/ Len(sessions) <= size THEN sessions
  ELSE LET keep == size - Min({size, slots, Max({1, size \div 3})})
           chosen == Upto(sessions, keep)
             \o Upto(SortedBy(From(sessions, keep), LAMBDA s : s.latest), size - keep)
       IN SortedBy(chosen, LAMBDA s : s.score) \o Outside(sessions, ToSet(chosen))

ReserveSessionsAllSlots(sessions, size, slots) ==
  IF slots = 0 \/ Len(sessions) <= size THEN sessions
  ELSE LET keep == size - Min({size, slots})
           chosen == Upto(sessions, keep)
             \o Upto(SortedBy(From(sessions, keep), Claim), size - keep)
       IN SortedBy(chosen, LAMBDA s : s.score) \o Outside(sessions, ToSet(chosen))

(* The first size sessions hold the newest matches; all others follow.     *)
ReserveSessions(sessions, size, slots) ==
  IF slots = 0 \/ Len(sessions) <= size THEN sessions
  ELSE LET keep == size - Min({size, slots, Max({1, size \div 3})})
           chosen == Upto(sessions, keep)
             \o Upto(SortedBy(From(sessions, keep), Claim), size - keep)
       IN SortedBy(chosen, LAMBDA s : s.score) \o Outside(sessions, ToSet(chosen))

OrderSessions(ranked, size, slots, lexical, terms) ==
  LET distinct == Distinct(ranked)
      keys == Distinct(Mapped(distinct, KeyOf))
      sessions == Mapped(keys, LAMBDA k : SessionOf(distinct, k, lexical, terms))
  IN ReserveSessions(SortedBy(sessions, LAMBDA s : s.score), size, slots)

(* Faulty variant: sessions of the first page come again.                  *)
OrderedSessionsAgain(scored, ranked, size, lexical, terms) ==
  OrderSessions(ranked, size, SessionRecent, lexical, terms)
  \o OrderSessions(From(scored, Len(ranked)), 0, 0, lexical, terms)

(* _ordered_sessions of the engine: the first page comes from the cut,     *)
(* later pages from everything that was scored.                            *)
OrderedSessions(scored, ranked, size, lexical, terms) ==
  LET head == OrderSessions(ranked, size, SessionRecent, lexical, terms)
      rest == OrderSessions(scored, 0, 0, lexical, terms)
  IN IF Len(scored) <= Len(ranked) THEN head
     ELSE head \o Where(rest, LAMBDA s : \A h \in ToSet(head) : s.key # h.key)

(* The chunks around the hits, by position within the chat.                *)
ContextOf(rows, chat, hits) ==
  LET ids == Ascending({i \in DOMAIN rows : rows[i].chat = chat})
  IN {ids[p] : p \in {p \in DOMAIN ids :
        /\ ids[p] \notin hits
        /\ \E h \in DOMAIN ids : ids[h] \in hits /\ p \in (h - Radius)..(h + Radius)}}
=============================================================================
