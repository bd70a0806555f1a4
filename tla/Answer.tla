------------------------------- MODULE Answer -------------------------------
(***************************************************************************)
(* A search without words (SearchEngine.search, _browse_recent,            *)
(* _live_tail_sessions and _finish in seaglass/app/engine.py): the newest  *)
(* chunks the filters leave, and what chat.db holds beyond them, while     *)
(* messages arrive and a build brings the index up to date.                *)
(*                                                                         *)
(* The rows are picked, the live database is read and the picked chunks    *)
(* are hydrated in three steps; the build may finish between any two.      *)
(* Nothing is deleted here (IndexBuild is about that): the snapshot and    *)
(* the index are prefixes of the message table.                            *)
(***************************************************************************)
EXTENDS Hydration

CONSTANTS
  Arrivals,       \* messages that may be written to chat.db
  Queries,        \* [filter, sender, me, offset] of a search without words
  PageSize,       \* max_sessions
  HitsPerSession, \* BROWSE_HITS_PER_SESSION
  Lookback,       \* SENDER_MESSAGE_LOOKBACK
  TailSlack,      \* 50: read past the reported gap
  TailMax,        \* LIVE_TAIL_MAX_MESSAGES
  ChunkPause, ChunkLength, ChunkOverlap, \* gap_threshold_s, max_messages, overlap
  MaxMessages     \* bound: messages written

(* Ids of chunks: the chat, and the place in its list.                     *)
Slots == MaxMessages + 1
Ids == 0..(Slots * (Max(Chats) + 1))

ASSUME AnswerAssumption ==
  /\ {PageSize, HitsPerSession, Lookback, TailSlack, TailMax, MaxMessages} \subseteq Nat
  /\ {ChunkPause, ChunkLength, ChunkOverlap} \subseteq Nat
  /\ PageSize > 0 /\ HitsPerSession > 0 /\ FusedTop > 0
  /\ Chats \subseteq Nat /\ IsFiniteSet(Chats)
  /\ DOMAIN Day \subseteq Nat /\ Unset \notin DOMAIN Day /\ RecencyBoost \in [DOMAIN Day -> Nat]
  /\ 1..FusedTop \subseteq DOMAIN Sigmoid /\ \A l \in 1..FusedTop : Sigmoid[l] \in Nat
  /\ \A m \in Arrivals : m.chat \in Chats \cup {Unset} /\ m.ts \in DOMAIN Day /\ m.me \in BOOLEAN
  /\ Queries \subseteq [filter : Filters, sender : SUBSET Handles, me : BOOLEAN \cup {Unset},
                       offset : Nat]
  /\ \A S \in (SUBSET Chats) \cup (SUBSET Ids) : S # Unset

VARIABLES
  live,           \* the message table of chat.db, by ROWID
  snapped,        \* ROWIDs in the snapshot
  indexed,        \* ROWIDs the index was made from
  rows,           \* its chunks table
  reading,        \* _freshness_cache: messages behind, Unset when expired
  phase,          \* "idle", "picked", "tailed", "answered"
  query,
  ordered,        \* sessions of picked chunks
  tail,           \* [sessions, limit]: what was read past the index
  answer,         \* [sessions, included, more]
  seen            \* auxiliary: indexed when the rows were picked

vars == <<live, snapped, indexed, rows, reading, phase, query, ordered, tail, answer, seen>>
reply == <<phase, query, ordered, tail, answer, seen>>

NoTail == [sessions |-> << >>, limit |-> 0]

Init ==
  /\ live = << >> /\ snapped = 0 /\ indexed = 0 /\ rows = << >> /\ reading = Unset
  /\ phase = "idle" /\ query = Unset /\ ordered = << >> /\ tail = NoTail
  /\ answer = Unset /\ seen = 0

-----------------------------------------------------------------------------
(* The chunks table of the messages up to n; ids in order of chat and      *)
(* place, which sync keeps.                                                *)

C == INSTANCE Chunker WITH
       messages <- live, GapThreshold <- ChunkPause, TokenTarget <- ChunkLength,
       MaxMessages <- ChunkLength, Overlap <- ChunkOverlap,
       Pauses <- {}, Lengths <- {}, MaxLength <- MaxMessages

ChunksOf(n, chat) ==
  LET plain == {r \in 1..n : live[r].chat = chat /\ live[r].kind # "tapback"}
  IN C!ChunkMessages(Mapped(OldestFirst(live, Ascending(plain)),
                            LAMBDA r : [id |-> r, ts |-> live[r].ts, tokens |-> 1]))

ChunkTable(n) ==
  LET table == [chat \in Chats |-> ChunksOf(n, chat)]
      Row(chat, chunk) ==
        [chat |-> chat, start |-> Head(chunk).ts, end |-> Last(chunk).ts,
         messages |-> Mapped(chunk, LAMBDA m : m.id),
         media |-> \E i \in DOMAIN chunk : HasAttachment(live[chunk[i].id])]
      ids == {i \in Ids : i \div Slots \in Chats /\ i % Slots \in DOMAIN table[i \div Slots]}
  IN [i \in ids |-> Row(i \div Slots, table[i \div Slots][i % Slots])]

-----------------------------------------------------------------------------
(* Staleness.                                                              *)

Horizon == Max({rows[i].end : i \in DOMAIN rows})

(* _live_chat_freshness; with no chunk there is nothing to be behind of.   *)
Behind ==
  IF rows = << >> THEN 0
  ELSE Cardinality({r \in DOMAIN live : /\ live[r].chat # Unset /\ live[r].kind # "tapback"
                                        /\ live[r].ts > Horizon})

(* _cached_freshness: a failed read counts, and is kept, as nothing.       *)
Readings == IF reading # Unset THEN {reading} ELSE {Behind, 0}

-----------------------------------------------------------------------------
(* Picking the rows.                                                       *)

(* The newest messages the senders wrote in some chat.                     *)
WrittenBy(q) ==
  Upto(NewestFirst(live, Ascending(
         {r \in 1..snapped : /\ live[r].who \in q.sender /\ ~live[r].me
                             /\ live[r].chat # Unset
                             /\ q.filter.media => HasAttachment(live[r])})),
       Lookback)

(* Faulty variant: candidates are not narrowed.                            *)
ChunksContainingSenderAny(q, candidates) == candidates

(* Chunks in which a named sender wrote; all candidates if that leaves     *)
(* none.                                                                   *)
ChunksContainingSender(q, candidates) ==
  LET spoken == {i \in DOMAIN rows : ToSet(rows[i].messages) \cap ToSet(WrittenBy(q)) # {}}
      both == IF candidates = Unset THEN spoken ELSE spoken \cap candidates
  IN IF q.sender = {} \/ both = {} THEN candidates ELSE both

(* order_sessions with pseudo-scores, then by the newest chunk.            *)
Browsed(q) ==
  LET candidates == ChunksContainingSender(q, CandidateChunks(rows, q.filter))
      ids == Upto(RecencyRanked(rows, Ascending(IF candidates = Unset THEN DOMAIN rows
                                                ELSE candidates)), FusedTop)
      ranked == [i \in DOMAIN ids |-> [id |-> ids[i], chat |-> rows[ids[i]].chat,
                                       start |-> rows[ids[i]].start, score |-> Len(ids) - i + 1]]
  IN SortedBy(OrderSessions(ranked, PageSize, 0, {}, {}), LAMBDA s : s.latest)

Browse(q) ==
  /\ phase = "idle"
  /\ phase' = "picked" /\ query' = q /\ ordered' = Browsed(q) /\ seen' = indexed
  /\ UNCHANGED <<live, snapped, indexed, rows, reading, tail, answer>>

-----------------------------------------------------------------------------
(* The live tail.                                                          *)

LiveTailSessions(q, limit) ==
  LET recent == HydrateRecentMessages(live, Horizon, q.filter.to, limit)
      allowed == ResolveChatFilter(q.filter)
  IN SessionsFromMessages(live,
       Where(recent, LAMBDA r : /\ q.filter.from = Unset \/ live[r].ts >= q.filter.from
                                /\ allowed = Unset \/ live[r].chat \in allowed))

ReadTail ==
  /\ phase = "picked"
  /\ \E behind \in Readings :
       /\ reading' = behind
       /\ tail' = IF behind = 0 \/ rows = << >> THEN NoTail
                  ELSE LET limit == Min({2 * behind + TailSlack, TailMax})
                       IN [sessions |-> LiveTailSessions(query, limit), limit |-> limit]
  /\ phase' = "tailed"
  /\ UNCHANGED <<live, snapped, indexed, rows, query, ordered, answer, seen>>

-----------------------------------------------------------------------------
(* The answer.                                                             *)

Narrowed(q, sessions) ==
  LET bySide == IF q.sender # {} THEN FilterBySender(live, sessions, q.sender)
                ELSE IF q.me # Unset THEN FilterByFromMe(live, sessions, q.me)
                ELSE sessions
  IN IF q.filter.media THEN FilterByMedia(live, bySide) ELSE bySide

(* Faulty variant: the tail is added after the filters.                    *)
ShownTailLast(q, hydrated) ==
  LET hits == NewestHitsOnly(live, MergeSessions(live, tail.sessions, Narrowed(q, hydrated)),
                             HitsPerSession * PageSize)
  IN Upto(SortedBy(hits, LAMBDA s : Max({live[r].ts : r \in ToSet(s.hits)})), PageSize)

(* Merged, narrowed, cut to the newest and in order of the newest hit.     *)
Shown(q, hydrated) ==
  LET hits == NewestHitsOnly(live, Narrowed(q, MergeSessions(live, tail.sessions, hydrated)),
                             HitsPerSession * PageSize)
  IN Upto(SortedBy(hits, LAMBDA s : Max({live[r].ts : r \in ToSet(s.hits)})), PageSize)

Finish ==
  /\ phase = "tailed"
  /\ answer' = [sessions |-> Shown(query, HydrateSessions(live, rows,
                                            Upto(From(ordered, query.offset), PageSize))),
                included |-> Len(Joined(Mapped(tail.sessions, LAMBDA s : s.hits))),
                more |-> query.offset + PageSize < Len(ordered)]
  /\ phase' = "answered"
  /\ UNCHANGED <<live, snapped, indexed, rows, reading, query, ordered, tail, seen>>

-----------------------------------------------------------------------------
(* The surroundings.                                                       *)

(* What arrives after the tail was read cannot show in the answer.         *)
Arrive(m) ==
  /\ phase \in {"idle", "picked"} /\ Len(live) < MaxMessages
  /\ live' = Append(live, m)
  /\ UNCHANGED <<snapped, indexed, rows, reading, reply>>

Backup ==
  /\ snapped < Len(live)
  /\ snapped' = Len(live)
  /\ UNCHANGED <<live, indexed, rows, reading, reply>>

Sync ==
  /\ indexed < snapped
  /\ indexed' = snapped /\ rows' = ChunkTable(snapped)
  /\ UNCHANGED <<live, snapped, reading, reply>>

(* The reading is too old, or a build has dropped it.                      *)
Expire ==
  /\ phase = "idle" /\ reading # Unset
  /\ reading' = Unset
  /\ UNCHANGED <<live, snapped, indexed, rows, reply>>

Rest ==
  /\ phase = "answered"
  /\ phase' = "idle" /\ query' = Unset /\ ordered' = << >> /\ tail' = NoTail
  /\ answer' = Unset /\ seen' = 0
  /\ UNCHANGED <<live, snapped, indexed, rows, reading>>

Next ==
  \/ \E m \in Arrivals : Arrive(m)
  \/ \E q \in Queries : Browse(q)
  \/ ReadTail \/ Finish \/ Rest \/ Backup \/ Sync \/ Expire

Spec == Init /\ [][Next]_vars

-----------------------------------------------------------------------------
(* Properties.                                                             *)

Answered == phase = "answered"
Hits == Joined(Mapped(answer.sessions, LAMBDA s : s.hits))

(* What the sender, the side and the media filter mean for one message.    *)
OfKind(m, q) ==
  /\ q.sender # {} => m.who \in q.sender /\ ~m.me
  /\ (q.sender = {} /\ q.me # Unset) => m.me = q.me
  /\ q.filter.media => m.kind = "photo"

(* What the other filters mean.                                            *)
InScope(m, f) ==
  LET many == IF Style[m.chat] = Unset THEN Cardinality(Roster[m.chat]) > 1
              ELSE Style[m.chat] # "direct"
  IN /\ f.from # Unset => m.ts >= f.from
     /\ f.to # Unset => m.ts <= f.to
     /\ f.chats # {} => m.chat \in f.chats
     /\ f.people # {} => \E h \in f.people : h \in Roster[m.chat] \/ h \in Authors[m.chat]
     /\ f.group # Unset => f.group = many

(* Every message given as an answer is one the query asked for, whichever  *)
(* way it came; dates need the index of the picked rows, for a chunk that  *)
(* grows before it is hydrated brings its new messages along.              *)
FiltersHold ==
  Answered =>
    \A r \in ToSet(Hits) : /\ OfKind(live[r], query)
                           /\ indexed = seen => InScope(live[r], query.filter)

(* A message too new for the index is on the first page if no more than a  *)
(* page of others is newer, wherever its ROWID lies in the scanned window, *)
(* unless a build ends during the search.                                  *)
UnindexedShown ==
  (Answered /\ query.offset = 0 /\ indexed = seen /\ tail.limit > 0) =>
    \A r \in DOMAIN live :
      LET m == live[r]
          newer == {o \in DOMAIN live : o # r /\ live[o].ts >= m.ts}
      IN (/\ r > Len(live) - tail.limit /\ m.ts > Horizon
          /\ m.chat # Unset /\ m.kind # "system"
          /\ OfKind(m, query) /\ InScope(m, query.filter)
          /\ Cardinality(newer) < PageSize)
         => r \in ToSet(Hits)

(* A named sender who wrote something in the index is answered for, however *)
(* much others wrote since.  Renames of a group by the sender count as      *)
(* writing when the chunks are narrowed and are not shown, so the property  *)
(* is about senders without any.                                            *)
SenderIsFound ==
  (/\ Answered /\ query.offset = 0 /\ indexed = seen /\ query.sender # {}
   /\ \A r \in DOMAIN live : live[r].who \in query.sender => live[r].kind # "system") =>
    LET candidates == CandidateChunks(rows, query.filter)
        mine == {r \in ToSet(WrittenBy(query)) :
                   \E i \in (IF candidates = Unset THEN DOMAIN rows ELSE candidates) :
                     r \in ToSet(rows[i].messages)}
    IN mine # {} => Hits # << >>

(* A build that ends in the middle puts the same message in the tail and   *)
(* in a picked chunk: a session still has it once, and what a filter kept  *)
(* is not among the context as well.                                       *)
MessageOncePerSession ==
  Answered =>
    \A n \in DOMAIN answer.sessions :
      LET s == answer.sessions[n]
      IN /\ IsInjective(s.hits)
         /\ (query.sender # {} \/ query.filter.media) => ToSet(s.hits) \cap ToSet(s.context) = {}

(* The conversation opened at a result has as many positions as asked for, *)
(* or all there are, and shows the message nearest the result.             *)
ConversationAroundHit ==
  phase = "idle" =>
    \A chat \in Chats, around \in DOMAIN Day, limit \in 1..3 :
      LET msgs == SubSeq(live, 1, snapped)
          own == {r \in DOMAIN msgs : msgs[r].chat = chat}
          Off(r) == IF msgs[r].ts > around THEN msgs[r].ts - around ELSE around - msgs[r].ts
          shown == ToSet(FetchConversation(msgs, chat, around, limit))
      IN (\A r \in own : msgs[r].kind # "system") =>
           /\ Cardinality(shown) = Min({limit, Cardinality(own)})
           /\ own # {} => \E r \in shown : \A o \in own : Off(r) <= Off(o)
=============================================================================
