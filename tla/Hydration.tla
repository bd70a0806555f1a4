----------------------------- MODULE Hydration -----------------------------
(***************************************************************************)
(* From chunks back to messages (seaglass/search/hydrate.py), the messages *)
(* around one (conversation.py), and what SearchEngine in                  *)
(* seaglass/app/engine.py does to the hydrated sessions of a search        *)
(* without words: merge, filter, keep the newest.                          *)
(*                                                                         *)
(* A ROWID is a position in msgs, the message table; a message is          *)
(* [chat, ts, me, who, kind], of kind "text", "photo", "system" (a rename  *)
(* of the group: neither text nor attachment) or "tapback".  A session     *)
(* here is [key, hits, context], two lists of ROWIDs.  Sender names and    *)
(* attachment labels are left out.                                         *)
(***************************************************************************)
EXTENDS Retrieval, Ranking

HasContent(m) == m.kind # "system"
HasAttachment(m) == m.kind = "photo"
NewestFirst(msgs, ids) == SortedBy(ids, LAMBDA r : msgs[r].ts)
OldestFirst(msgs, ids) == SortedBy(ids, LAMBDA r : -msgs[r].ts)

-----------------------------------------------------------------------------
(* Indexed messages: those of the chunks that still exist, once each.      *)

HydrateChunks(msgs, rows, ids) ==
  LET joined == UNION {ToSet(rows[id].messages) : id \in ids \cap DOMAIN rows}
  IN OldestFirst(msgs, Ascending({r \in joined : HasContent(msgs[r])}))

HydrateSessions(msgs, rows, sessions) ==
  Mapped(sessions, LAMBDA s :
    [key |-> s.key, hits |-> HydrateChunks(msgs, rows, ToSet(s.hits)),
     context |-> HydrateChunks(msgs, rows, ContextOf(rows, s.key[1], ToSet(s.hits)))])

-----------------------------------------------------------------------------
(* Messages that are not indexed yet.                                      *)

(* Faulty variant: the scan ends at the first message not after since.     *)
HydrateRecentBreaking(msgs, since, until, limit) ==
  LET window == {r \in DOMAIN msgs : r > Len(msgs) - limit}
      stop == Max({0} \cup {r \in window : msgs[r].ts <= since})
  IN NewestFirst(msgs, Reverse(Ascending(
       {r \in window : /\ r > stop
                       /\ until = Unset \/ msgs[r].ts <= until
                       /\ msgs[r].chat # Unset /\ HasContent(msgs[r])})))

(* The last limit ROWIDs, of them those dated after since.  ROWID order is *)
(* not date order: a backfilled message is appended now and dated then.    *)
HydrateRecentMessages(msgs, since, until, limit) ==
  NewestFirst(msgs, Reverse(Ascending(
    {r \in DOMAIN msgs : /\ r > Len(msgs) - limit
                         /\ msgs[r].ts > since
                         /\ until = Unset \/ msgs[r].ts <= until
                         /\ msgs[r].chat # Unset /\ HasContent(msgs[r])})))

SessionsFromMessages(msgs, ids) ==
  LET KeyOfMessage(r) == <<msgs[r].chat, Day[msgs[r].ts]>>
  IN Mapped(Distinct(Mapped(ids, KeyOfMessage)),
       LAMBDA k : [key |-> k, hits |-> Where(ids, LAMBDA r : KeyOfMessage(r) = k),
                   context |-> << >>])

-----------------------------------------------------------------------------
(* Sessions of both kinds.                                                 *)

(* Faulty variant: a message on both sides comes twice.                    *)
MergeSessionsDoubled(msgs, tail, indexed) ==
  LET Of(k, sessions) == Where(sessions, LAMBDA s : s.key = k)
      Extended(s) ==
        IF Of(s.key, tail) = << >> THEN s
        ELSE [s EXCEPT !.hits = NewestFirst(msgs, @ \o Head(Of(s.key, tail)).hits)]
  IN Mapped(indexed, Extended) \o Where(tail, LAMBDA s : Of(s.key, indexed) = << >>)

(* A day that is partly indexed is one session.                            *)
MergeSessions(msgs, tail, indexed) ==
  LET Of(k, sessions) == Where(sessions, LAMBDA s : s.key = k)
      Extended(s) ==
        IF Of(s.key, tail) = << >> THEN s
        ELSE [s EXCEPT !.hits =
                NewestFirst(msgs, @ \o Outside(Head(Of(s.key, tail)).hits, ToSet(@)))]
  IN Mapped(indexed, Extended) \o Where(tail, LAMBDA s : Of(s.key, indexed) = << >>)

(* Hits become the kept ones; the others are context.                      *)
KeepHits(sessions, kept) ==
  LET Narrowed(s) == [s EXCEPT !.hits = Within(@, kept),
                               !.context = Outside(s.hits \o @, kept \cap ToSet(s.hits))]
  IN Where(Mapped(sessions, Narrowed), LAMBDA s : s.hits # << >>)

(* An outgoing message of a direct chat bears the handle of the other.     *)
FilterBySender(msgs, sessions, senders) ==
  KeepHits(sessions, {r \in DOMAIN msgs : ~msgs[r].me /\ msgs[r].who \in senders})
FilterByFromMe(msgs, sessions, me) ==
  KeepHits(sessions, {r \in DOMAIN msgs : msgs[r].me = me})
FilterByMedia(msgs, sessions) ==
  KeepHits(sessions, {r \in DOMAIN msgs : HasAttachment(msgs[r])})

(* One budget for all sessions; what exceeds it is context.                *)
NewestHitsOnly(msgs, sessions, budget) ==
  LET all == Joined(Mapped(sessions, LAMBDA s : s.hits))
      keep == ToSet(Upto(NewestFirst(msgs, all), budget))
      Trimmed(s) == [s EXCEPT !.hits = NewestFirst(msgs, Within(@, keep)),
                              !.context = Outside(s.hits, keep) \o @]
  IN Where(Mapped(sessions, Trimmed), LAMBDA s : s.hits # << >>)

-----------------------------------------------------------------------------
(* fetch_conversation.                                                     *)

(* Faulty variant: the window is not moved back at the end of the chat.    *)
WindowUnclamped(dates, around, limit) ==
  LET Off(i) == IF dates[i] > around THEN dates[i] - around ELSE around - dates[i]
      closest == Min({i \in DOMAIN dates : \A j \in DOMAIN dates : Off(i) <= Off(j)})
      lo == Max({0, closest - 1 - (limit \div 2)})
  IN (lo + 1)..Min({Len(dates), lo + limit})

(* Positions shown: limit of them, about half before the closest date, and *)
(* more before or after it where the chat begins or ends.                  *)
Window(dates, around, limit) ==
  LET Off(i) == IF dates[i] > around THEN dates[i] - around ELSE around - dates[i]
      closest == Min({i \in DOMAIN dates : \A j \in DOMAIN dates : Off(i) <= Off(j)})
      lo == Max({0, closest - 1 - (limit \div 2)})
      hi == Min({Len(dates), lo + limit})
  IN (Max({0, hi - limit}) + 1)..hi

FetchConversation(msgs, chat, around, limit) ==
  LET ids == OldestFirst(msgs, Ascending({r \in DOMAIN msgs : msgs[r].chat = chat}))
      window == IF ids = << >> THEN {}
                ELSE IF around = Unset THEN (Max({0, Len(ids) - limit}) + 1)..Len(ids)
                ELSE Window(Mapped(ids, LAMBDA r : msgs[r].ts), around, limit)
  IN Where(Mapped(Ascending(window), LAMBDA p : ids[p]), LAMBDA r : HasContent(msgs[r]))
=============================================================================
