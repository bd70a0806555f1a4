------------------------------ MODULE IndexBuild ------------------------------
(***************************************************************************)
(* Building and syncing index.db from a snapshot of chat.db:               *)
(* seaglass/index/build.py (build_index and everything it calls), entered  *)
(* through seaglass/app/indexstate.py (run_build) or the command line.     *)
(*                                                                         *)
(* A builder copies chat.db, re-derives every conversation's list of       *)
(* chunks, compares it position by position with what index.db holds, and  *)
(* writes the differences in batches, each batch one SQLite transaction    *)
(* over four tables.  It can stop at any point; the next run starts from   *)
(* whatever was committed.  One action is one transaction, or one step of  *)
(* the loop between transactions.                                          *)
(*                                                                         *)
(* Abstracted: a conversation is a function from its messages to the       *)
(* revision of their text; a rendering is the restriction of that function *)
(* to the messages of a chunk; the chunker is a constant function (module  *)
(* Chunker gives the real one); message identifiers are naturals in the    *)
(* order of their dates.  Photo places, embeddings, compression and the    *)
(* write-ahead log checkpoint are left out.                                *)
(***************************************************************************)
EXTENDS Integers, FiniteSets, Sequences

CONSTANTS
  Chats,       \* chat ROWIDs: a finite set of naturals
  Messages,    \* message ROWIDs, numbered in the order of their dates
  Revisions,   \* the revisions the text of a message can have
  ChunkList,   \* chunk_messages: content -> sequence of sets of messages
  Builders,    \* run_build threads and command-line builds
  BatchSize,   \* batch_size
  SampleSize,  \* CALIBRATION_SAMPLE_SIZE
  Limits,      \* the values of limit_chunks a run may be given
  NoLimit,     \* limit_chunks=None
  MaxRuns      \* bound: how many builds are ever started

(* What one conversation holds, and the rendering of a part of it.         *)
Contents == UNION {[S -> Revisions] : S \in SUBSET Messages}

ASSUME ChatsAssumption == Chats \subseteq Nat /\ IsFiniteSet(Chats)
ASSUME MessagesAssumption == Messages \subseteq Nat
ASSUME SizesAssumption == BatchSize \in Nat \ {0} /\ SampleSize \in Nat \ {0}
ASSUME LimitsAssumption ==
  MaxRuns \in Nat /\ Limits \subseteq (Nat \ {0}) \cup {NoLimit} /\ NoLimit \notin Nat
ASSUME ChunkListAssumption ==
  \A k \in Contents : ChunkList[k] \in Seq((SUBSET DOMAIN k) \ {{}})

VARIABLES
  snapshot,      \* the snapshot file: the plain messages of every chat
  listed,        \* chats that occur in the snapshot's chat_message_join
  chunks,        \* id -> the chat and the stored semantic body
  chunkMessage,  \* id -> the messages chunk_message records for it
  chunksVec,     \* id -> the embedded text and the scale that quantised it
  chunksFts,     \* id -> the text behind the full-text row
  absmax,        \* meta.int8_absmax: 0, or the number of the run that chose it
  cursor,        \* meta.build_cursor
  run,           \* the local state of each builder
  runs           \* builds started so far

tables == <<chunks, chunkMessage, chunksVec, chunksFts>>
vars == <<snapshot, listed, tables, absmax, cursor, run, runs>>

-----------------------------------------------------------------------------
(* Renderings, chunk rows and the rows still to be written.                *)

NoMessages == << >>
Body(content, msgs) == [m \in msgs |-> content[m]]

Pending == [id : Nat \ {0}, chat : Chats, pos : Nat, body : Contents, isNew : BOOLEAN]

Phases == {"idle", "copied", "scan", "calibrate", "store", "flush", "drain",
           "done", "failed"}
Active(b) == run[b].pc \notin {"idle", "done", "failed"}

EmptyRun ==
  [pc |-> "idle", number |-> 0, limit |-> NoLimit, calibrated |-> FALSE,
   after |-> "flush", rest |-> {}, nextId |-> 1, todo |-> {}, buffer |-> << >>,
   batch |-> << >>, stale |-> {}, written |-> 0, alone |-> FALSE]

RunStates ==
  [pc : Phases, number : 0..MaxRuns, limit : Limits \cup {NoLimit},
   calibrated : BOOLEAN, after : {"flush", "drain"}, rest : SUBSET Chats,
   nextId : Nat \ {0}, todo : SUBSET Pending, buffer : Seq(Pending),
   batch : Seq(Pending), stale : SUBSET Nat, written : Nat, alone : BOOLEAN]

Ids == DOMAIN chunks
IdsOf(c) == {i \in Ids : chunks[i].chat = c}
Rank(i) == Cardinality({j \in IdsOf(chunks[i].chat) : j <= i})
IsLast(m, S) == m \in S /\ \A i \in S : i <= m

LimitReached(b, n) == run[b].limit # NoLimit /\ n >= run[b].limit

-----------------------------------------------------------------------------
(* Entering a run.                                                         *)

Init ==
  /\ snapshot = [c \in Chats |-> NoMessages]
  /\ listed = {}
  /\ chunks = << >> /\ chunkMessage = << >> /\ chunksVec = << >> /\ chunksFts = << >>
  /\ absmax = 0
  /\ cursor = 0
  /\ run = [b \in Builders |-> EmptyRun]
  /\ runs = 0

(* sqlite3.backup() overwrites the one snapshot file with chat.db as it is *)
(* now, whatever happened to it since the last copy.  A conversation can   *)
(* stay in chat_message_join when only reactions are left of it.           *)
Snapshot(b) ==
  /\ ~Active(b)
  /\ runs < MaxRuns
  /\ snapshot' \in [Chats -> Contents]
  /\ \E reactions \in SUBSET Chats :
       listed' = {c \in Chats : DOMAIN snapshot'[c] # {}} \cup reactions
  /\ runs' = runs + 1
  /\ run' = [d \in Builders |->
               IF d = b
               THEN [EmptyRun EXCEPT !.pc = "copied", !.number = runs + 1,
                                     !.alone = \A e \in Builders : ~Active(e)]
               ELSE [run[d] EXCEPT !.alone = FALSE]]
  /\ UNCHANGED <<tables, absmax, cursor>>

(* build_index opens the index, reconciles the cursor and reads whether it *)
(* is calibrated; the generator then fixes the first new id, the chats to  *)
(* visit and the chunks of chats that are gone.                            *)
Open(b) ==
  /\ run[b].pc = "copied"
  /\ \E limit \in Limits, top \in Ids \cup {0} :
       /\ IsLast(top, Ids \cup {0})
       /\ cursor' = IF top > cursor THEN top ELSE cursor
       /\ run' = [run EXCEPT ![b].pc = "scan",
                             ![b].limit = limit,
                             ![b].calibrated = (absmax # 0),
                             ![b].nextId = top + 1,
                             ![b].rest = listed,
                             ![b].stale = {i \in Ids : chunks[i].chat \notin listed}]
  /\ UNCHANGED <<snapshot, listed, tables, absmax, runs>>

-----------------------------------------------------------------------------
(* The loop over pending chunks.                                           *)

(* Faulty variants of Rewrites, each a slip in the comparison: every       *)
(* position is written again; only the number of messages is compared; a   *)
(* rewrite is not marked as one.                                           *)
RewritesAll(c, content) ==
  {[id |-> i, chat |-> c, pos |-> Rank(i),
    body |-> Body(content, ChunkList[content][Rank(i)]), isNew |-> FALSE] :
      i \in {j \in IdsOf(c) : Rank(j) <= Len(ChunkList[content])}}

RewritesBySize(c, content) ==
  {x \in RewritesAll(c, content) : Cardinality(chunkMessage[x.id]) # Cardinality(DOMAIN x.body)}

RewritesUnmarked(c, content) ==
  {[x EXCEPT !.isNew = TRUE] :
     x \in {y \in RewritesAll(c, content) : chunkMessage[y.id] # DOMAIN y.body}}

(* Positions that exist already and whose messages differ keep their id.   *)
Rewrites(c, content) ==
  {[id |-> i, chat |-> c, pos |-> Rank(i),
    body |-> Body(content, ChunkList[content][Rank(i)]), isNew |-> FALSE] :
      i \in {j \in IdsOf(c) : /\ Rank(j) <= Len(ChunkList[content])
                              /\ chunkMessage[j] # ChunkList[content][Rank(j)]}}

(* Faulty variants of Additions: the counter starts at MAX(id), and the    *)
(* ids are handed out from the last position to the first.                 *)
AdditionsFromMax(c, content, nextId) ==
  LET n == Cardinality(IdsOf(c)) IN
  {[id |-> nextId - 1 + (p - n - 1), chat |-> c, pos |-> p,
    body |-> Body(content, ChunkList[content][p]), isNew |-> TRUE] :
      p \in (n + 1)..Len(ChunkList[content])}

AdditionsReversed(c, content, nextId) ==
  {[id |-> nextId + (Len(ChunkList[content]) - p), chat |-> c, pos |-> p,
    body |-> Body(content, ChunkList[content][p]), isNew |-> TRUE] :
      p \in (Cardinality(IdsOf(c)) + 1)..Len(ChunkList[content])}

(* Positions past the existing ones get the next free ids, in order.       *)
Additions(c, content, nextId) ==
  LET n == Cardinality(IdsOf(c)) IN
  {[id |-> nextId + (p - n - 1), chat |-> c, pos |-> p,
    body |-> Body(content, ChunkList[content][p]), isNew |-> TRUE] :
      p \in (n + 1)..Len(ChunkList[content])}

(* Faulty variant: chats that shrank are not noticed.                      *)
OrphansKept(c, content) == {}

(* Existing chunks past the end of the current list are orphans.           *)
Orphans(c, content) == {i \in IdsOf(c) : Rank(i) > Len(ChunkList[content])}

(* The generator reaches the next chat: a chat without plain messages is   *)
(* skipped before its existing chunks are looked at.                       *)
Diff(b) ==
  /\ run[b].pc = "scan" /\ run[b].todo = {}
  /\ \E c \in run[b].rest :
       LET content == snapshot[c]
           additions == Additions(c, content, run[b].nextId)
       IN /\ \A d \in run[b].rest : c <= d
          /\ IF DOMAIN content = {}
             THEN run' = [run EXCEPT ![b].rest = @ \ {c}]
             ELSE run' = [run EXCEPT ![b].rest = @ \ {c},
                                     ![b].todo = Rewrites(c, content) \cup additions,
                                     ![b].nextId = @ + Cardinality(additions),
                                     ![b].stale = @ \cup Orphans(c, content)]
  /\ UNCHANGED <<snapshot, listed, tables, absmax, cursor, runs>>

(* One pending chunk is rendered; until the index is calibrated it waits   *)
(* in pending_calibration.                                                 *)
Take(b) ==
  /\ run[b].pc = "scan"
  /\ \E x \in run[b].todo :
       /\ \A y \in run[b].todo : x.pos <= y.pos
       /\ IF run[b].calibrated
          THEN run' = [run EXCEPT ![b].todo = @ \ {x},
                                  ![b].batch = Append(@, x),
                                  ![b].pc = "flush"]
          ELSE LET buffer == Append(run[b].buffer, x)
                   enough == \/ Len(buffer) >= SampleSize
                             \/ LimitReached(b, run[b].written + Len(buffer))
               IN run' = [run EXCEPT ![b].todo = @ \ {x},
                                     ![b].buffer = buffer,
                                     ![b].pc = IF enough THEN "calibrate" ELSE "scan"]
  /\ UNCHANGED <<snapshot, listed, tables, absmax, cursor, runs>>

(* Every chat has been visited: calibrate on what there is, or drain.      *)
Exhaust(b) ==
  /\ run[b].pc = "scan" /\ run[b].todo = {} /\ run[b].rest = {}
  /\ run' = [run EXCEPT ![b].pc = IF ~run[b].calibrated /\ run[b].buffer # << >>
                                  THEN "calibrate" ELSE "drain",
                        ![b].after = "drain"]
  /\ UNCHANGED <<snapshot, listed, tables, absmax, cursor, runs>>

-----------------------------------------------------------------------------
(* Calibration: read meta.int8_absmax, and choose it if it is not there.   *)

ReleaseBuffer(b) ==
  run' = [run EXCEPT ![b].calibrated = TRUE,
                     ![b].batch = @ \o run[b].buffer,
                     ![b].buffer = << >>,
                     ![b].pc = run[b].after]

CheckCalibration(b) ==
  /\ run[b].pc = "calibrate"
  /\ IF absmax # 0 THEN ReleaseBuffer(b) ELSE run' = [run EXCEPT ![b].pc = "store"]
  /\ UNCHANGED <<snapshot, listed, tables, absmax, cursor, runs>>

(* Faulty variant: the value is computed and used but not stored.          *)
StoreCalibrationUnsaved(b) ==
  /\ run[b].pc = "store"
  /\ ReleaseBuffer(b)
  /\ UNCHANGED <<snapshot, listed, tables, absmax, cursor, runs>>

StoreCalibration(b) ==
  /\ run[b].pc = "store"
  /\ absmax' = run[b].number
  /\ ReleaseBuffer(b)
  /\ UNCHANGED <<snapshot, listed, tables, cursor, runs>>

-----------------------------------------------------------------------------
(* The batch transaction.                                                  *)

Rows(s) == {s[k] : k \in DOMAIN s}
RowIds(rows) == {x.id : x \in rows}
RowOf(rows, i) == CHOOSE x \in rows : x.id = i

(* An INSERT fails on an id that is already there.  Rewritten ids are      *)
(* deleted first, so only their own repetition can fail.                   *)
Collides(s) ==
  \/ \E x \in Rows(s) : x.isNew /\ x.id \in Ids \ {y.id : y \in {z \in Rows(s) : ~z.isNew}}
  \/ \E k, l \in DOMAIN s : k # l /\ s[k].id = s[l].id

(* A table after rows have been deleted by id and inserted again.          *)
Put(table, rows, Val(_)) ==
  [i \in DOMAIN table \cup RowIds(rows) |->
     IF i \in RowIds(rows) THEN Val(RowOf(rows, i)) ELSE table[i]]

Without(table, ids) == [i \in DOMAIN table \ ids |-> table[i]]

(* Faulty variant: the written rows stay at the head of the batch.         *)
AdvanceNot(b, s) == UNCHANGED run

Advance(b, s) ==
  run' = [run EXCEPT ![b].batch = SubSeq(@, Len(s) + 1, Len(@)),
                     ![b].written = @ + Len(s)]

(* Faulty variant: a rewrite leaves the old full-text row.                 *)
WriteBatchOldText(b, s) ==
  LET rows == Rows(s) IN
  IF Collides(s)
  THEN /\ run' = [run EXCEPT ![b] = [EmptyRun EXCEPT !.pc = "failed"]]
       /\ UNCHANGED <<tables, cursor>>
  ELSE /\ chunks' = Put(chunks, rows, LAMBDA x : [chat |-> x.chat, body |-> x.body])
       /\ chunkMessage' = Put(chunkMessage, rows, LAMBDA x : DOMAIN x.body)
       /\ chunksVec' = Put(chunksVec, rows, LAMBDA x : [body |-> x.body, scale |-> absmax])
       /\ chunksFts' = Put(chunksFts, {x \in rows : x.isNew}, LAMBDA x : x.body)
       /\ \E top \in RowIds(rows) : IsLast(top, RowIds(rows)) /\ cursor' = top
       /\ Advance(b, s)

WriteBatch(b, s) ==
  IF Collides(s)
  THEN /\ run' = [run EXCEPT ![b] = [EmptyRun EXCEPT !.pc = "failed"]]
       /\ UNCHANGED <<tables, cursor>>
  ELSE /\ chunks' = Put(chunks, Rows(s), LAMBDA x : [chat |-> x.chat, body |-> x.body])
       /\ chunkMessage' = Put(chunkMessage, Rows(s), LAMBDA x : DOMAIN x.body)
       /\ chunksVec' = Put(chunksVec, Rows(s), LAMBDA x : [body |-> x.body, scale |-> absmax])
       /\ chunksFts' = Put(chunksFts, Rows(s), LAMBDA x : x.body)
       /\ \E top \in RowIds(Rows(s)) : IsLast(top, RowIds(Rows(s))) /\ cursor' = top
       /\ Advance(b, s)

Flush(b) ==
  /\ run[b].pc = "flush"
  /\ Len(run[b].batch) >= BatchSize
  /\ WriteBatch(b, SubSeq(run[b].batch, 1, BatchSize))
  /\ UNCHANGED <<snapshot, listed, absmax, runs>>

(* The batch is not full: go on with the next pending chunk, unless the    *)
(* run's limit is reached, which abandons the rest of the scan.            *)
Continue(b) ==
  /\ run[b].pc = "flush"
  /\ Len(run[b].batch) < BatchSize
  /\ run' = [run EXCEPT ![b].pc =
               IF LimitReached(b, run[b].written + Len(run[b].batch)) THEN "drain" ELSE "scan"]
  /\ UNCHANGED <<snapshot, listed, tables, absmax, cursor, runs>>

(* What is left after the scan goes out in batches of at most BatchSize.   *)
Drain(b) ==
  /\ run[b].pc = "drain"
  /\ run[b].batch # << >>
  /\ LET n == Len(run[b].batch)
     IN WriteBatch(b, SubSeq(run[b].batch, 1, IF n > BatchSize THEN BatchSize ELSE n))
  /\ UNCHANGED <<snapshot, listed, absmax, runs>>

(* A run that was not cut short deletes the stale chunks, in a transaction *)
(* of their own.                                                           *)
Finish(b) ==
  /\ run[b].pc = "drain"
  /\ run[b].batch = << >>
  /\ IF run[b].limit = NoLimit
     THEN /\ chunks' = Without(chunks, run[b].stale)
          /\ chunkMessage' = Without(chunkMessage, run[b].stale)
          /\ chunksVec' = Without(chunksVec, run[b].stale)
          /\ chunksFts' = Without(chunksFts, run[b].stale)
     ELSE UNCHANGED tables
  /\ run' = [run EXCEPT ![b] = [EmptyRun EXCEPT !.pc = "done", !.limit = run[b].limit,
                                                !.written = run[b].written,
                                                !.alone = run[b].alone]]
  /\ UNCHANGED <<snapshot, listed, absmax, cursor, runs>>

(* The process dies, or anything outside the transactions raises: what was *)
(* committed stays, the rest is gone.                                      *)
Crash(b) ==
  /\ Active(b)
  /\ run' = [run EXCEPT ![b] = EmptyRun]
  /\ UNCHANGED <<snapshot, listed, tables, absmax, cursor, runs>>

Step(b) ==
  \/ Open(b) \/ Diff(b) \/ Take(b) \/ Exhaust(b)
  \/ CheckCalibration(b) \/ StoreCalibration(b)
  \/ Flush(b) \/ Continue(b) \/ Drain(b) \/ Finish(b)

Next == \E b \in Builders : Snapshot(b) \/ Step(b) \/ Crash(b)

Spec == Init /\ [][Next]_vars

(* A started build keeps running until it ends: nothing in it waits for    *)
(* the user or for another thread.  New builds and crashes are not owed.   *)
FairSpec == Spec /\ \A b \in Builders : WF_vars(Step(b))

-----------------------------------------------------------------------------
(* What readers of the index rely on.                                      *)

TypeOK ==
  /\ snapshot \in [Chats -> Contents]
  /\ listed \subseteq Chats
  /\ Ids \subseteq Nat \ {0} /\ IsFiniteSet(Ids)
  /\ \A i \in Ids : chunks[i] \in [chat : Chats, body : Contents]
  /\ absmax \in 0..MaxRuns
  /\ cursor \in Nat
  /\ runs \in 0..MaxRuns
  /\ run \in [Builders -> RunStates]

(* The four tables always describe the same chunks: the vector, the        *)
(* full-text row and the membership rows of an id are those of the body    *)
(* stored in chunks ("never leaves a chunk half-deleted/half-rewritten").  *)
TablesAgree ==
  /\ DOMAIN chunkMessage = Ids /\ DOMAIN chunksVec = Ids /\ DOMAIN chunksFts = Ids
  /\ \A i \in Ids : /\ chunkMessage[i] = DOMAIN chunks[i].body
                    /\ chunksVec[i].body = chunks[i].body
                    /\ chunksFts[i] = chunks[i].body

(* Every stored vector was quantised with the scale that queries will use: *)
(* calibration happens once and before the first vector, whatever crashes. *)
OneScale == \A i \in Ids : absmax # 0 /\ chunksVec[i].scale = absmax

(* A build never trips over an id that is already taken.                   *)
NoCollision == \A b \in Builders : run[b].pc # "failed"

Matches(c) ==
  LET fresh == ChunkList[snapshot[c]]
  IN /\ Cardinality(IdsOf(c)) = Len(fresh)
     /\ \A i \in IdsOf(c) : chunkMessage[i] = fresh[Rank(i)]

(* A chat of which only reactions are left is not looked at again.         *)
OnlyReactions(c) == c \in listed /\ DOMAIN snapshot[c] = {}
InSync == \A c \in Chats : IF c \in listed THEN OnlyReactions(c) \/ Matches(c)
                                           ELSE IdsOf(c) = {}

(* After a run that nothing cut short and no other build overlapped, the   *)
(* index is exactly the current chunk list of every conversation, in the   *)
(* order of the ids, whatever crashes, limits, deletions, backfills and    *)
(* racing builds came before.                                              *)
CompleteBuildConverges ==
  \A b \in Builders :
    run[b].pc = "done" /\ run[b].limit = NoLimit /\ run[b].alone => InSync

(* When the index already matches the snapshot, a build changes nothing in *)
(* it and embeds nothing: "0 if already fully caught up"                   *)
(* (build.py:496-497).                                                     *)
NothingToDo ==
  [][InSync => UNCHANGED tables /\ \A b \in Builders : run'[b].written <= run[b].written]_vars

(* Every build that is started comes to an end.                            *)
EveryRunEnds == \A b \in Builders : Active(b) ~> ~Active(b)
=============================================================================
