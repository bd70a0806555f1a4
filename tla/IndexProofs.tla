----------------------------- MODULE IndexProofs -----------------------------
(***************************************************************************)
(* The index builder, for every set of chats, messages and builders, every *)
(* chunker and every batch size: what holds however builders race and      *)
(* crash, what holds of a single builder, what a build that no other build *)
(* overlaps makes of the index, and that it implements PositionalSync.     *)
(***************************************************************************)
EXTENDS IndexSync, ListingProofs

-----------------------------------------------------------------------------
(* Facts about the helpers.                                                *)

LEMMA ContentIsFunction ==
  ASSUME NEW k \in Contents
  PROVE  k \in [DOMAIN k -> Revisions] /\ DOMAIN k \subseteq Messages
BY DEF Contents

LEMMA BodyIsContent ==
  ASSUME NEW k \in Contents, NEW S \in SUBSET DOMAIN k
  PROVE  Body(k, S) \in Contents /\ DOMAIN Body(k, S) = S
<1>1. Body(k, S) \in [S -> Revisions]
  BY ContentIsFunction DEF Body
<1>2. S \in SUBSET Messages
  BY ContentIsFunction
<1> QED BY <1>1, <1>2 DEF Contents

LEMMA ChunkOfList ==
  ASSUME NEW k \in Contents, NEW p \in 1..Len(ChunkList[k])
  PROVE  ChunkList[k][p] \in (SUBSET DOMAIN k) \ {{}}
<1>1. ChunkList[k] \in Seq((SUBSET DOMAIN k) \ {{}})
  BY ChunkListAssumption
<1> QED BY <1>1

LEMMA RankIsNat ==
  ASSUME IsFiniteSet(Ids), Ids \subseteq Nat, NEW i \in Ids
  PROVE  Rank(i) \in Nat \ {0}
<1> DEFINE S == {j \in IdsOf(chunks[i].chat) : j <= i}
<1>1. S \subseteq Ids /\ IsFiniteSet(S)
  BY FS_Subset DEF IdsOf
<1>2. i \in S
  BY DEF IdsOf
<1>3. Cardinality(S) \in Nat /\ (Cardinality(S) = 0 <=> S = {})
  BY <1>1, FS_CardinalityType, FS_EmptySet
<1> QED BY <1>2, <1>3 DEF Rank

LEMMA RewritesType ==
  ASSUME TypeOK, NEW c \in Chats
  PROVE  Rewrites(c, snapshot[c]) \subseteq Pending
<1> DEFINE k == snapshot[c]
<1>1. k \in Contents
  BY DEF TypeOK
<1> SUFFICES ASSUME NEW i \in IdsOf(c), Rank(i) <= Len(ChunkList[k])
             PROVE  [id |-> i, chat |-> c, pos |-> Rank(i),
                     body |-> Body(k, ChunkList[k][Rank(i)]), isNew |-> FALSE] \in Pending
  BY DEF Rewrites
<1>2. i \in Nat \ {0} /\ Rank(i) \in Nat \ {0}
  BY RankIsNat DEF IdsOf, TypeOK
<1>3. Rank(i) \in 1..Len(ChunkList[k])
  BY <1>1, <1>2, ChunkListAssumption
<1>4. Body(k, ChunkList[k][Rank(i)]) \in Contents
  BY <1>1, <1>3, ChunkOfList, BodyIsContent
<1> QED BY <1>2, <1>4 DEF Pending

LEMMA AdditionsType ==
  ASSUME TypeOK, NEW c \in Chats, NEW nextId \in Nat \ {0}
  PROVE  /\ Additions(c, snapshot[c], nextId) \subseteq Pending
         /\ Cardinality(Additions(c, snapshot[c], nextId)) \in Nat
<1> DEFINE k == snapshot[c]
           n == Cardinality(IdsOf(c))
           item(p) == [id |-> nextId + (p - n - 1), chat |-> c, pos |-> p,
                       body |-> Body(k, ChunkList[k][p]), isNew |-> TRUE]
           D == (n + 1)..Len(ChunkList[k])
<1>1. k \in Contents
  BY DEF TypeOK
<1>2. n \in Nat
  <2>1. IdsOf(c) \subseteq Ids
    BY DEF IdsOf
  <2> QED BY <2>1, FS_Subset, FS_CardinalityType DEF TypeOK
<1>3. Len(ChunkList[k]) \in Nat
  BY <1>1, ChunkListAssumption
<1>4. ASSUME NEW p \in D PROVE item(p) \in Pending
  <2>1. p \in 1..Len(ChunkList[k]) /\ nextId + (p - n - 1) \in Nat \ {0} /\ p \in Nat
    BY <1>2, <1>3
  <2>2. Body(k, ChunkList[k][p]) \in Contents
    BY <1>1, <2>1, ChunkOfList, BodyIsContent
  <2> QED BY <2>1, <2>2 DEF Pending
<1>5. Additions(c, snapshot[c], nextId) = {item(p) : p \in D}
  BY DEF Additions
<1>6. IsFiniteSet({item(p) : p \in D})
  <2>1. IsFiniteSet(D)
    BY <1>2, <1>3, FS_Interval
  <2> HIDE DEF item, D
  <2>2. [p \in D |-> item(p)] \in Surjection(D, {item(p) : p \in D})
    BY DEF Surjection
  <2> QED BY ONLY <2>1, <2>2, FS_Surjection
<1> HIDE DEF item, D
<1> QED BY <1>4, <1>5, <1>6, FS_CardinalityType

-----------------------------------------------------------------------------
(* A batch of rows.                                                        *)

LEMMA RowsType ==
  ASSUME NEW s \in Seq(Pending)
  PROVE  /\ Rows(s) \subseteq Pending
         /\ RowIds(Rows(s)) \subseteq Nat \ {0}
         /\ IsFiniteSet(RowIds(Rows(s)))
         /\ \A i \in RowIds(Rows(s)) : RowOf(Rows(s), i) \in Rows(s) /\ RowOf(Rows(s), i).id = i
<1>1. Rows(s) \subseteq Pending
  BY DEF Rows
<1>2. RowIds(Rows(s)) \subseteq Nat \ {0}
  BY <1>1 DEF RowIds, Pending
<1>3. IsFiniteSet(RowIds(Rows(s)))
  <2> DEFINE f == [k \in 1..Len(s) |-> s[k].id]
  <2>1. f \in Surjection(1..Len(s), RowIds(Rows(s)))
    BY DEF Rows, RowIds, Surjection
  <2>2. IsFiniteSet(1..Len(s))
    BY FS_Interval
  <2> HIDE DEF f
  <2> QED BY ONLY <2>1, <2>2, FS_Surjection
<1>4. ASSUME NEW i \in RowIds(Rows(s))
      PROVE  RowOf(Rows(s), i) \in Rows(s) /\ RowOf(Rows(s), i).id = i
  <2>1. \E x \in Rows(s) : x.id = i
    BY DEF RowIds
  <2> QED BY <2>1 DEF RowOf
<1> QED BY <1>1, <1>2, <1>3, <1>4

(* What a written table holds.                                             *)
LEMMA WrittenChunks ==
  ASSUME TypeOK, NEW s \in Seq(Pending),
         chunks' = Put(chunks, Rows(s), LAMBDA x : [chat |-> x.chat, body |-> x.body])
  PROVE  /\ Ids' = Ids \cup RowIds(Rows(s))
         /\ Ids' \subseteq Nat \ {0} /\ IsFiniteSet(Ids')
         /\ \A i \in Ids' : chunks'[i] \in [chat : Chats, body : Contents]
<1>1. Ids' = Ids \cup RowIds(Rows(s))
  BY DEF Put, Ids
<1>2. Ids' \subseteq Nat \ {0}
  BY <1>1, RowsType DEF TypeOK
<1>3. IsFiniteSet(Ids')
  <2>1. IsFiniteSet(Ids) /\ IsFiniteSet(RowIds(Rows(s)))
    BY RowsType DEF TypeOK
  <2> QED BY <1>1, <2>1, FS_Union
<1>4. ASSUME NEW i \in Ids'
      PROVE  chunks'[i] \in [chat : Chats, body : Contents]
  <2>1. CASE i \in RowIds(Rows(s))
    <3>1. RowOf(Rows(s), i) \in Pending
      BY <2>1, RowsType
    <3>2. chunks'[i] = [chat |-> RowOf(Rows(s), i).chat, body |-> RowOf(Rows(s), i).body]
      BY <2>1, <1>1 DEF Put, Ids
    <3>3. RowOf(Rows(s), i).chat \in Chats /\ RowOf(Rows(s), i).body \in Contents
      BY <3>1 DEF Pending
    <3> QED BY ONLY <3>2, <3>3
  <2>2. CASE i \notin RowIds(Rows(s))
    <3>1. i \in Ids /\ chunks'[i] = chunks[i]
      BY <2>2, <1>1 DEF Put, Ids
    <3> QED BY <3>1 DEF TypeOK
  <2> QED BY <2>1, <2>2
<1> QED BY <1>1, <1>2, <1>3, <1>4

-----------------------------------------------------------------------------
(* Type correctness.                                                       *)

LEMMA BatchIsSeq ==
  ASSUME TypeOK, NEW b \in Builders
  PROVE  run[b].batch \in Seq(Pending) /\ Len(run[b].batch) \in Nat
BY DEF TypeOK, RunStates

LEMMA BatchType ==
  ASSUME TypeOK, NEW b \in Builders, NEW n \in 1..Len(run[b].batch)
  PROVE  /\ SubSeq(run[b].batch, 1, n) \in Seq(Pending)
         /\ Len(SubSeq(run[b].batch, 1, n)) = n
         /\ SubSeq(run[b].batch, n + 1, Len(run[b].batch)) \in Seq(Pending)
<1>1. run[b].batch \in Seq(Pending)
  BY DEF TypeOK, RunStates
<1> QED BY <1>1

LEMMA EmptyRunType == EmptyRun \in RunStates
BY LimitsAssumption DEF EmptyRun, RunStates, Phases

LEMMA WriteBatchType ==
  ASSUME TypeOK, NEW b \in Builders, NEW n \in 1..Len(run[b].batch),
         WriteBatch(b, SubSeq(run[b].batch, 1, n)),
         UNCHANGED <<snapshot, listed, absmax, runs>>
  PROVE  TypeOK'
<1> DEFINE s == SubSeq(run[b].batch, 1, n)
<1>1. s \in Seq(Pending) /\ Len(s) = n
  BY BatchType
<1>2. CASE Collides(s)
  <2>1. UNCHANGED <<tables, cursor>> /\ run' = [run EXCEPT ![b] = [EmptyRun EXCEPT !.pc = "failed"]]
    BY <1>2 DEF WriteBatch
  <2>2. [EmptyRun EXCEPT !.pc = "failed"] \in RunStates
    BY EmptyRunType DEF RunStates, Phases
  <2> QED BY <2>1, <2>2 DEF TypeOK, tables, Ids
<1>3. CASE ~Collides(s)
  <2>1. chunks' = Put(chunks, Rows(s), LAMBDA x : [chat |-> x.chat, body |-> x.body])
    BY <1>3 DEF WriteBatch
  <2>2. Ids' \subseteq Nat \ {0} /\ IsFiniteSet(Ids') /\ (\A i \in Ids' : chunks'[i] \in [chat : Chats, body : Contents])
    BY <1>1, <2>1, WrittenChunks
  <2>3. cursor' \in Nat
    BY <1>1, <1>3, RowsType DEF WriteBatch
  <2>4. run' = [run EXCEPT ![b].batch = SubSeq(@, n + 1, Len(@)), ![b].written = @ + n]
    BY <1>1, <1>3 DEF WriteBatch, Advance
  <2>5. run' \in [Builders -> RunStates]
    <3>1. SubSeq(run[b].batch, n + 1, Len(run[b].batch)) \in Seq(Pending)
      BY BatchType
    <3>2. run[b] \in RunStates /\ run[b].written + n \in Nat
      BY BatchIsSeq DEF TypeOK, RunStates
    <3>3. [run[b] EXCEPT !.batch = SubSeq(@, n + 1, Len(@)), !.written = @ + n] \in RunStates
      BY ONLY <3>1, <3>2 DEF RunStates
    <3> QED BY <2>4, <3>3 DEF TypeOK
  <2> QED BY <2>2, <2>3, <2>5 DEF TypeOK
<1> QED BY <1>2, <1>3

(* A builder's step that writes nothing keeps the types when it leaves the *)
(* builder's own state typed.                                              *)
LEMMA LocalStep ==
  ASSUME TypeOK, NEW b \in Builders, NEW r \in RunStates,
         run' = [run EXCEPT ![b] = r], UNCHANGED <<snapshot, listed, tables, runs>>,
         absmax' \in 0..MaxRuns, cursor' \in Nat
  PROVE  TypeOK'
BY DEF TypeOK, tables, Ids

LEMMA InitType == Init => TypeOK
<1> SUFFICES ASSUME Init PROVE TypeOK
  OBVIOUS
<1>1. NoMessages \in Contents
  <2>1. << >> \in [{} -> Revisions]
    OBVIOUS
  <2>2. {} \in SUBSET Messages
    OBVIOUS
  <2> QED BY <2>1, <2>2 DEF Contents, NoMessages
<1>2. Ids = {}
  BY DEF Init, Ids
<1> QED BY <1>1, <1>2, EmptyRunType, FS_EmptySet, LimitsAssumption DEF Init, TypeOK

LEMMA SnapshotType ==
  ASSUME TypeOK, NEW b \in Builders, Snapshot(b)
  PROVE  TypeOK'
<1>1. snapshot' \in [Chats -> Contents] /\ listed' \subseteq Chats
  BY DEF Snapshot
<1>2. runs' \in 0..MaxRuns /\ runs + 1 \in 0..MaxRuns
  <2>1. runs < MaxRuns /\ runs' = runs + 1
    BY DEF Snapshot
  <2>2. runs \in Nat /\ MaxRuns \in Nat
    BY LimitsAssumption DEF TypeOK
  <2> QED BY ONLY <2>1, <2>2
<1>3. run' \in [Builders -> RunStates]
  <2> DEFINE r(d) == IF d = b
                     THEN [EmptyRun EXCEPT !.pc = "copied", !.number = runs + 1,
                                           !.alone = \A e \in Builders : ~Active(e)]
                     ELSE [run[d] EXCEPT !.alone = FALSE]
  <2>1. ASSUME NEW d \in Builders PROVE r(d) \in RunStates
    <3>1. CASE d = b
      <4> DEFINE alone == \A e \in Builders : ~Active(e)
      <4>1. alone \in BOOLEAN
        OBVIOUS
      <4>2. r(d) = [EmptyRun EXCEPT !.pc = "copied", !.number = runs + 1, !.alone = alone]
        BY <3>1
      <4> HIDE DEF alone, r
      <4> QED BY ONLY <4>1, <4>2, <1>2, EmptyRunType DEF RunStates, Phases
    <3>2. CASE d # b
      <4>1. r(d) = [run[d] EXCEPT !.alone = FALSE] /\ run[d] \in RunStates
        BY <3>2 DEF TypeOK
      <4> HIDE DEF r
      <4> QED BY ONLY <4>1 DEF RunStates
    <3> QED BY <3>1, <3>2
  <2>2. run' = [d \in Builders |-> r(d)]
    BY DEF Snapshot
  <2> HIDE DEF r
  <2> QED BY <2>1, <2>2
<1>4. UNCHANGED <<chunks, absmax, cursor>>
  BY DEF Snapshot, tables
<1> QED BY <1>1, <1>2, <1>3, <1>4 DEF TypeOK, Ids

LEMMA OpenType ==
  ASSUME TypeOK, NEW b \in Builders, Open(b)
  PROVE  TypeOK'
<1>1. PICK limit \in Limits, top \in Ids \cup {0} :
        /\ cursor' = IF top > cursor THEN top ELSE cursor
        /\ run' = [run EXCEPT ![b].pc = "scan",
                             ![b].limit = limit,
                             ![b].calibrated = (absmax # 0),
                             ![b].nextId = top + 1,
                             ![b].rest = listed,
                             ![b].stale = {i \in Ids : chunks[i].chat \notin listed}]
  BY DEF Open
<1>2. top \in Nat /\ top + 1 \in Nat \ {0} /\ cursor' \in Nat
  BY <1>1 DEF TypeOK
<1> DEFINE r == [run[b] EXCEPT !.pc = "scan", !.limit = limit, !.calibrated = (absmax # 0),
                               !.nextId = top + 1, !.rest = listed,
                               !.stale = {i \in Ids : chunks[i].chat \notin listed}]
<1>3. r \in RunStates
  <2>1. run[b] \in RunStates /\ listed \in SUBSET Chats /\ limit \in Limits \cup {NoLimit}
    BY DEF TypeOK
  <2>2. {i \in Ids : chunks[i].chat \notin listed} \in SUBSET Nat
    BY DEF TypeOK
  <2> QED BY ONLY <1>2, <2>1, <2>2 DEF RunStates, Phases
<1>4. run' = [run EXCEPT ![b] = r]
  BY <1>1 DEF TypeOK
<1>5. UNCHANGED <<snapshot, listed, tables, runs>> /\ absmax' \in 0..MaxRuns
  BY DEF Open, TypeOK
<1> HIDE DEF r
<1> QED BY ONLY <1>2, <1>3, <1>4, <1>5, TypeOK, LocalStep

LEMMA DiffType ==
  ASSUME TypeOK, NEW b \in Builders, Diff(b)
  PROVE  TypeOK'
<1>1. PICK c \in run[b].rest :
        IF DOMAIN snapshot[c] = {}
        THEN run' = [run EXCEPT ![b].rest = @ \ {c}]
        ELSE run' = [run EXCEPT ![b].rest = @ \ {c},
                                ![b].todo = Rewrites(c, snapshot[c]) \cup Additions(c, snapshot[c], run[b].nextId),
                                ![b].nextId = @ + Cardinality(Additions(c, snapshot[c], run[b].nextId)),
                                ![b].stale = @ \cup Orphans(c, snapshot[c])]
  BY DEF Diff
<1>2. run[b] \in RunStates
  BY DEF TypeOK
<1>3. c \in Chats /\ run[b].nextId \in Nat \ {0} /\ run[b].stale \in SUBSET Nat
  BY <1>2 DEF RunStates
<1>4. UNCHANGED <<snapshot, listed, tables, runs>> /\ absmax' \in 0..MaxRuns /\ cursor' \in Nat
  BY DEF Diff, TypeOK
<1>5. CASE DOMAIN snapshot[c] = {}
  <2>1. [run[b] EXCEPT !.rest = @ \ {c}] \in RunStates
    BY <1>2 DEF RunStates
  <2>2. run' = [run EXCEPT ![b] = [run[b] EXCEPT !.rest = @ \ {c}]]
    BY <1>1, <1>5 DEF TypeOK
  <2> QED BY ONLY <1>4, <2>1, <2>2, TypeOK, LocalStep
<1>6. CASE DOMAIN snapshot[c] # {}
  <2> DEFINE additions == Additions(c, snapshot[c], run[b].nextId)
             todo == Rewrites(c, snapshot[c]) \cup additions
             nextId == run[b].nextId + Cardinality(additions)
             stale == run[b].stale \cup Orphans(c, snapshot[c])
             r == [run[b] EXCEPT !.rest = @ \ {c}, !.todo = todo,
                                 !.nextId = nextId, !.stale = stale]
  <2>1. todo \in SUBSET Pending /\ nextId \in Nat \ {0}
    BY <1>3, RewritesType, AdditionsType
  <2>2. stale \in SUBSET Nat
    BY <1>3 DEF Orphans, IdsOf, TypeOK
  <2>3. run' = [run EXCEPT ![b] = r]
    BY <1>1, <1>6 DEF TypeOK
  <2> HIDE DEF additions, todo, nextId, stale
  <2>4. r \in RunStates
    BY ONLY <1>2, <2>1, <2>2 DEF RunStates
  <2> HIDE DEF r
  <2> QED BY ONLY <1>4, <2>3, <2>4, TypeOK, LocalStep
<1> QED BY <1>5, <1>6

LEMMA TakeType ==
  ASSUME TypeOK, NEW b \in Builders, Take(b)
  PROVE  TypeOK'
<1>1. run[b] \in RunStates
  BY DEF TypeOK
<1>2. UNCHANGED <<snapshot, listed, tables, runs>> /\ absmax' \in 0..MaxRuns /\ cursor' \in Nat
  BY DEF Take, TypeOK
<1>3. PICK x \in run[b].todo :
        \/ run' = [run EXCEPT ![b].todo = @ \ {x}, ![b].batch = Append(@, x), ![b].pc = "flush"]
        \/ \E pc \in {"calibrate", "scan"} :
             run' = [run EXCEPT ![b].todo = @ \ {x},
                                ![b].buffer = Append(run[b].buffer, x), ![b].pc = pc]
  BY DEF Take
<1>4. x \in Pending
  BY <1>1 DEF RunStates
<1>rows. /\ run[b].todo \ {x} \in SUBSET Pending
      /\ Append(run[b].batch, x) \in Seq(Pending) /\ Append(run[b].buffer, x) \in Seq(Pending)
  BY ONLY <1>1, <1>4 DEF RunStates
<1>5. CASE run' = [run EXCEPT ![b].todo = @ \ {x}, ![b].batch = Append(@, x), ![b].pc = "flush"]
  <2> DEFINE r == [run[b] EXCEPT !.todo = @ \ {x}, !.batch = Append(@, x), !.pc = "flush"]
  <2>1. r \in RunStates
    BY ONLY <1>1, <1>rows DEF RunStates, Phases
  <2>2. run' = [run EXCEPT ![b] = r]
    BY <1>5 DEF TypeOK
  <2> HIDE DEF r
  <2> QED BY ONLY <1>2, <2>1, <2>2, TypeOK, LocalStep
<1>6. ASSUME NEW pc \in {"calibrate", "scan"},
             run' = [run EXCEPT ![b].todo = @ \ {x},
                                ![b].buffer = Append(run[b].buffer, x), ![b].pc = pc]
      PROVE  TypeOK'
  <2> DEFINE r == [run[b] EXCEPT !.todo = @ \ {x}, !.buffer = Append(run[b].buffer, x), !.pc = pc]
  <2>1. r \in RunStates
    BY ONLY <1>1, <1>rows, pc \in {"calibrate", "scan"} DEF RunStates, Phases
  <2>2. run' = [run EXCEPT ![b] = r]
    BY <1>6 DEF TypeOK
  <2> HIDE DEF r
  <2> QED BY ONLY <1>2, <2>1, <2>2, TypeOK, LocalStep
<1> QED BY <1>3, <1>5, <1>6

LEMMA ReleaseType ==
  ASSUME TypeOK, NEW b \in Builders, ReleaseBuffer(b),
         UNCHANGED <<snapshot, listed, tables, runs>>,
         absmax' \in 0..MaxRuns, cursor' \in Nat
  PROVE  TypeOK'
<1> DEFINE r == [run[b] EXCEPT !.calibrated = TRUE, !.batch = @ \o run[b].buffer,
                               !.buffer = << >>, !.pc = run[b].after]
<1>1. run[b] \in RunStates
  BY DEF TypeOK
<1>2. r \in RunStates
  <2>1. run[b].batch \o run[b].buffer \in Seq(Pending) /\ << >> \in Seq(Pending)
    BY <1>1 DEF RunStates
  <2>2. run[b].after \in Phases
    BY <1>1 DEF RunStates, Phases
  <2> QED BY ONLY <1>1, <2>1, <2>2 DEF RunStates
<1>3. run' = [run EXCEPT ![b] = r]
  BY DEF ReleaseBuffer, TypeOK
<1> HIDE DEF r
<1> QED BY <1>2, <1>3, LocalStep

(* The steps that move a builder to another phase and nothing else.        *)
LEMMA PhaseType ==
  ASSUME TypeOK, NEW b \in Builders, NEW pc \in Phases, NEW after \in {"flush", "drain"},
         \/ run' = [run EXCEPT ![b].pc = pc]
         \/ run' = [run EXCEPT ![b].pc = pc, ![b].after = after],
         UNCHANGED <<snapshot, listed, tables, absmax, cursor, runs>>
  PROVE  TypeOK'
<1>1. run[b] \in RunStates
  BY DEF TypeOK
<1>2. PICK r \in {[run[b] EXCEPT !.pc = pc], [run[b] EXCEPT !.pc = pc, !.after = after]} :
        run' = [run EXCEPT ![b] = r]
  BY DEF TypeOK
<1>3. r \in RunStates
  BY ONLY ZenonT(60), <1>1, <1>2, pc \in Phases, after \in {"flush", "drain"} DEF RunStates
<1> QED BY <1>2, <1>3, LocalStep DEF TypeOK

LEMMA FinishType ==
  ASSUME TypeOK, NEW b \in Builders, Finish(b)
  PROVE  TypeOK'
<1> DEFINE r == [EmptyRun EXCEPT !.pc = "done", !.limit = run[b].limit,
                                 !.written = run[b].written, !.alone = run[b].alone]
<1>1. r \in RunStates
  <2>1. run[b] \in RunStates
    BY DEF TypeOK
  <2> QED BY ONLY <2>1, EmptyRunType DEF RunStates, Phases
<1>2. run' = [run EXCEPT ![b] = r]
  BY DEF Finish
<1> HIDE DEF r
<1>3. run' \in [Builders -> RunStates]
  BY <1>1, <1>2 DEF TypeOK
<1>4. UNCHANGED <<snapshot, listed, absmax, cursor, runs>>
  BY DEF Finish
<1>5. chunks' = chunks \/ chunks' = Without(chunks, run[b].stale)
  BY DEF Finish, tables
<1>6. Ids' \subseteq Ids /\ IsFiniteSet(Ids') /\ \A i \in Ids' : chunks'[i] = chunks[i]
  <2>1. Ids' \subseteq Ids /\ \A i \in Ids' : chunks'[i] = chunks[i]
    BY <1>5 DEF Without, Ids
  <2> QED BY <2>1, FS_Subset DEF TypeOK
<1> QED BY <1>3, <1>4, <1>6 DEF TypeOK

LEMMA NextType == TypeOK /\ [Next]_vars => TypeOK'
<1> SUFFICES ASSUME TypeOK, [Next]_vars PROVE TypeOK'
  OBVIOUS
<1>1. ASSUME NEW b \in Builders, Snapshot(b) PROVE TypeOK'
  BY <1>1, SnapshotType
<1>2. ASSUME NEW b \in Builders, Open(b) PROVE TypeOK'
  BY <1>2, OpenType
<1>3. ASSUME NEW b \in Builders, Diff(b) PROVE TypeOK'
  BY <1>3, DiffType
<1>4. ASSUME NEW b \in Builders, Take(b) PROVE TypeOK'
  BY <1>4, TakeType
<1>5. ASSUME NEW b \in Builders, Exhaust(b) PROVE TypeOK'
  BY <1>5, PhaseType DEF Exhaust, Phases
<1>6. ASSUME NEW b \in Builders, CheckCalibration(b) PROVE TypeOK'
  <2>1. UNCHANGED <<snapshot, listed, tables, absmax, cursor, runs>>
        /\ absmax' \in 0..MaxRuns /\ cursor' \in Nat
    BY <1>6 DEF CheckCalibration, TypeOK
  <2>2. ReleaseBuffer(b) \/ run' = [run EXCEPT ![b].pc = "store"]
    BY <1>6 DEF CheckCalibration
  <2> QED BY <2>1, <2>2, ReleaseType, PhaseType DEF Phases
<1>7. ASSUME NEW b \in Builders, StoreCalibration(b) PROVE TypeOK'
  <2>1. UNCHANGED <<snapshot, listed, tables, runs>> /\ cursor' \in Nat /\ ReleaseBuffer(b)
    BY <1>7 DEF StoreCalibration, TypeOK
  <2>2. absmax' \in 0..MaxRuns
    BY <1>7 DEF StoreCalibration, TypeOK, RunStates
  <2> QED BY <2>1, <2>2, ReleaseType
<1>8. ASSUME NEW b \in Builders, Flush(b) PROVE TypeOK'
  <2>1. BatchSize \in 1..Len(run[b].batch)
    BY <1>8, SizesAssumption, BatchIsSeq DEF Flush
  <2> QED BY <1>8, <2>1, WriteBatchType DEF Flush
<1>9. ASSUME NEW b \in Builders, Continue(b) PROVE TypeOK'
  BY <1>9, PhaseType DEF Continue, Phases
<1>10. ASSUME NEW b \in Builders, Drain(b) PROVE TypeOK'
  <2>1. (IF Len(run[b].batch) > BatchSize THEN BatchSize ELSE Len(run[b].batch)) \in 1..Len(run[b].batch)
    BY <1>10, SizesAssumption, BatchIsSeq DEF Drain
  <2> QED BY <1>10, <2>1, WriteBatchType DEF Drain
<1>11. ASSUME NEW b \in Builders, Finish(b) PROVE TypeOK'
  BY <1>11, FinishType
<1>12. ASSUME NEW b \in Builders, Crash(b) PROVE TypeOK'
  BY <1>12, EmptyRunType, LocalStep DEF Crash, TypeOK
<1>13. CASE UNCHANGED vars
  BY <1>13 DEF vars, tables, TypeOK, Ids
<1> QED
  BY <1>1, <1>2, <1>3, <1>4, <1>5, <1>6, <1>7, <1>8, <1>9, <1>10, <1>11, <1>12, <1>13
  DEF Next, Step

(* Whatever the chats, the chunker and the number of builders, every       *)
(* reachable state of a build has the types of TypeOK: build_index only    *)
(* ever writes rows of chats and messages that the snapshot has, under     *)
(* positive ids.                                                           *)
THEOREM TypeCorrect == Spec => []TypeOK
BY InitType, NextType, PTL DEF Spec

-----------------------------------------------------------------------------
(* The four tables agree.                                                  *)

LEMMA WriteBatchAgrees ==
  ASSUME TablesAgree, NEW b \in Builders, NEW s, WriteBatch(b, s)
  PROVE  TablesAgree'
<1>1. CASE Collides(s)
  BY <1>1 DEF WriteBatch, tables, TablesAgree, Ids
<1>2. CASE ~Collides(s)
  <2> DEFINE rows == Rows(s)
             new == RowIds(rows)
             old == Ids
  <2>1. /\ chunks' = [i \in old \cup new |->
                         IF i \in new THEN [chat |-> RowOf(rows, i).chat, body |-> RowOf(rows, i).body]
                                      ELSE chunks[i]]
        /\ chunkMessage' = [i \in old \cup new |->
                               IF i \in new THEN DOMAIN RowOf(rows, i).body ELSE chunkMessage[i]]
        /\ chunksVec' = [i \in old \cup new |->
                            IF i \in new THEN [body |-> RowOf(rows, i).body, scale |-> absmax]
                                         ELSE chunksVec[i]]
        /\ chunksFts' = [i \in old \cup new |->
                            IF i \in new THEN RowOf(rows, i).body ELSE chunksFts[i]]
    BY <1>2 DEF WriteBatch, Put, TablesAgree, Ids
  <2> HIDE DEF rows, new
  <2>2. Ids' = old \cup new
    BY <2>1 DEF Ids
  <2>3. ASSUME NEW i \in Ids'
        PROVE  /\ chunkMessage'[i] = DOMAIN chunks'[i].body
               /\ chunksVec'[i].body = chunks'[i].body
               /\ chunksFts'[i] = chunks'[i].body
    <3>1. CASE i \in new
      BY ONLY <2>1, <2>2, <2>3, <3>1
    <3>2. CASE i \notin new
      BY ONLY <2>1, <2>2, <2>3, <3>2, TablesAgree DEF TablesAgree
    <3> QED BY <3>1, <3>2
  <2> QED BY <2>1, <2>2, <2>3 DEF TablesAgree
<1> QED BY <1>1, <1>2

LEMMA NextAgrees == TablesAgree /\ [Next]_vars => TablesAgree'
<1> SUFFICES ASSUME TablesAgree, [Next]_vars PROVE TablesAgree'
  OBVIOUS
<1>1. ASSUME UNCHANGED tables PROVE TablesAgree'
  BY <1>1 DEF tables, TablesAgree, Ids
<1>2. ASSUME NEW b \in Builders, Flush(b) \/ Drain(b) PROVE TablesAgree'
  BY <1>2, WriteBatchAgrees DEF Flush, Drain
<1>3. ASSUME NEW b \in Builders, Finish(b) PROVE TablesAgree'
  <2>1. CASE UNCHANGED tables
    BY <2>1, <1>1
  <2>2. CASE /\ chunks' = Without(chunks, run[b].stale)
             /\ chunkMessage' = Without(chunkMessage, run[b].stale)
             /\ chunksVec' = Without(chunksVec, run[b].stale)
             /\ chunksFts' = Without(chunksFts, run[b].stale)
    BY <2>2 DEF Without, TablesAgree, Ids
  <2> QED BY <1>3, <2>1, <2>2 DEF Finish
<1>4. ASSUME NEW b \in Builders, 
             \/ Snapshot(b) \/ Open(b) \/ Diff(b) \/ Take(b) \/ Exhaust(b)
             \/ CheckCalibration(b) \/ StoreCalibration(b) \/ Continue(b) \/ Crash(b)
      PROVE  UNCHANGED tables
  BY <1>4 DEF Snapshot, Open, Diff, Take, Exhaust, CheckCalibration, StoreCalibration,
              Continue, Crash
<1>5. CASE UNCHANGED vars
  BY <1>5, <1>1 DEF vars
<1> QED BY <1>1, <1>2, <1>3, <1>4, <1>5 DEF Next, Step

(* However many builders race and wherever they crash, _write_batch and    *)
(* _prune_stale_chunks leave the vector, the full text and the membership  *)
(* rows of every chunk those of its stored body.                           *)
THEOREM TablesAlwaysAgree == Spec => []TablesAgree
<1>1. Init => TablesAgree
  BY DEF Init, TablesAgree, Ids
<1> QED BY <1>1, NextAgrees, PTL DEF Spec

-----------------------------------------------------------------------------
(* One scale.  A vector is quantised with whatever meta.int8_absmax holds  *)
(* when its batch is flushed, so the invariant has to say that a builder   *)
(* queues rows only once a scale is stored, and that it is about to store  *)
(* one only while there is none, hence no vector either.                   *)

Single == \A b, c \in Builders : b = c

Calibrating(b) ==
  /\ run[b].calibrated \/ run[b].batch # << >> => absmax # 0
  /\ run[b].batch # << >> => run[b].calibrated
  /\ run[b].pc \notin {"idle", "done", "failed"} => run[b].number # 0
  /\ run[b].pc = "store" => absmax = 0

ScaleInv == OneScale /\ \A b \in Builders : Calibrating(b)

LEMMA InitScale == Init => ScaleInv
BY DEF Init, ScaleInv, OneScale, Calibrating, EmptyRun, Ids

LEMMA WriteBatchScale ==
  ASSUME TypeOK, Single, ScaleInv, NEW b \in Builders, NEW n \in 1..Len(run[b].batch),
         WriteBatch(b, SubSeq(run[b].batch, 1, n)), run[b].pc \in {"flush", "drain"},
         UNCHANGED <<snapshot, listed, absmax, runs>>, TablesAgree
  PROVE  ScaleInv'
<1> DEFINE s == SubSeq(run[b].batch, 1, n)
<1>1. s \in Seq(Pending)
  BY BatchType
<1>2. run[b].batch # << >> /\ run[b].calibrated /\ absmax # 0
  BY BatchIsSeq DEF ScaleInv, Calibrating
<1>3. CASE Collides(s)
  <2>1. UNCHANGED tables /\ run' = [run EXCEPT ![b] = [EmptyRun EXCEPT !.pc = "failed"]]
    BY <1>3 DEF WriteBatch
  <2>2. \A c \in Builders : run'[c] = [EmptyRun EXCEPT !.pc = "failed"]
    BY <2>1 DEF Single, TypeOK
  <2> QED BY <2>1, <2>2, <1>2 DEF ScaleInv, OneScale, Calibrating, EmptyRun, tables, Ids
<1>4. CASE ~Collides(s)
  <2>1. run' = [run EXCEPT ![b].batch = SubSeq(@, Len(s) + 1, Len(@)), ![b].written = @ + Len(s)]
    BY <1>4 DEF WriteBatch, Advance
  <2>2. \A c \in Builders : run'[c].calibrated /\ run'[c].pc = run[b].pc /\ run'[c].number = run[b].number
    BY <2>1, <1>2 DEF Single, TypeOK, RunStates
  <2>3. \A c \in Builders : Calibrating(c)'
    BY <2>2, <1>2 DEF ScaleInv, Calibrating
  <2>4. OneScale'
    <3> DEFINE new == RowIds(Rows(s))
    <3>1. Ids' = Ids \cup new
      BY <1>4 DEF WriteBatch, Put, Ids
    <3>2. chunksVec' = [i \in Ids \cup new |->
                          IF i \in new THEN [body |-> RowOf(Rows(s), i).body, scale |-> absmax]
                                       ELSE chunksVec[i]]
      BY <1>4 DEF WriteBatch, Put, TablesAgree
    <3> HIDE DEF new, s
    <3>3. ASSUME NEW i \in Ids' PROVE chunksVec'[i].scale = absmax
      <4>1. CASE i \in new
        BY ONLY <3>1, <3>2, <3>3, <4>1
      <4>2. CASE i \notin new
        BY ONLY <3>1, <3>2, <3>3, <4>2, ScaleInv DEF ScaleInv, OneScale
      <4> QED BY <4>1, <4>2
    <3> QED BY <3>3, <1>2 DEF OneScale
  <2> QED BY <2>3, <2>4 DEF ScaleInv
<1> QED BY <1>3, <1>4

LEMMA ReleaseScale ==
  ASSUME TypeOK, Single, ScaleInv, NEW b \in Builders, ReleaseBuffer(b), absmax' # 0,
         UNCHANGED tables, Ids # {} => absmax' = absmax, run[b].number # 0
  PROVE  ScaleInv'
<1>1. \A c \in Builders : /\ run'[c].calibrated /\ run'[c].pc \in {"flush", "drain"}
                          /\ run'[c].number = run[b].number
  BY DEF ReleaseBuffer, Single, TypeOK, RunStates
<1>2. OneScale'
  BY DEF ScaleInv, OneScale, tables, Ids
<1> QED BY <1>1, <1>2 DEF ScaleInv, Calibrating

LEMMA NextScale ==
  ASSUME TypeOK, TablesAgree, Single, ScaleInv, [Next]_vars
  PROVE  ScaleInv'
<1>1. ASSUME NEW b \in Builders, UNCHANGED <<tables, absmax>>,
             Calibrating(b)'
      PROVE  ScaleInv'
  <2>1. OneScale'
    BY <1>1 DEF ScaleInv, OneScale, tables, Ids
  <2>2. \A c \in Builders : Calibrating(c)'
    BY <1>1 DEF Single
  <2> QED BY <2>1, <2>2 DEF ScaleInv
<1>2. ASSUME NEW b \in Builders, Snapshot(b) PROVE ScaleInv'
  <2>1. run'[b].calibrated = FALSE /\ run'[b].batch = << >> /\ run'[b].pc = "copied"
        /\ run'[b].number = runs + 1
    BY <1>2 DEF Snapshot, EmptyRun
  <2>2. runs + 1 # 0
    BY DEF TypeOK
  <2>3. UNCHANGED <<tables, absmax>>
    BY <1>2 DEF Snapshot
  <2> QED BY <2>1, <2>2, <2>3, <1>1 DEF Calibrating
<1>3. ASSUME NEW b \in Builders, Open(b) PROVE ScaleInv'
  <2>1. run'[b].calibrated = (absmax # 0) /\ run'[b].batch = run[b].batch /\ run'[b].pc = "scan"
        /\ run'[b].number = run[b].number
    BY <1>3 DEF Open, TypeOK, RunStates
  <2>2. run[b].pc = "copied"
    BY <1>3 DEF Open
  <2> QED BY <2>1, <2>2, <1>1, <1>3 DEF Open, ScaleInv, Calibrating
<1>4. ASSUME NEW b \in Builders, Diff(b) PROVE ScaleInv'
  <2>1. /\ run'[b].calibrated = run[b].calibrated /\ run'[b].batch = run[b].batch
        /\ run'[b].pc = run[b].pc /\ run'[b].number = run[b].number
    BY <1>4 DEF Diff, TypeOK, RunStates
  <2> QED BY <2>1, <1>1, <1>4 DEF Diff, ScaleInv, Calibrating
<1>5. ASSUME NEW b \in Builders, Take(b) PROVE ScaleInv'
  <2>1. /\ run'[b].calibrated = run[b].calibrated /\ run'[b].number = run[b].number
        /\ run'[b].pc # "store"
        /\ run'[b].batch = run[b].batch \/ run[b].calibrated
    BY <1>5 DEF Take, TypeOK, RunStates
  <2>2. run[b].pc = "scan"
    BY <1>5 DEF Take
  <2> QED BY <2>1, <2>2, <1>1, <1>5 DEF Take, ScaleInv, Calibrating
<1>6. ASSUME NEW b \in Builders, Exhaust(b) \/ Continue(b) PROVE ScaleInv'
  <2>1. /\ run'[b].calibrated = run[b].calibrated /\ run'[b].batch = run[b].batch
        /\ run'[b].pc # "store" /\ run'[b].number = run[b].number
        /\ run[b].pc \in {"scan", "flush"}
    BY <1>6 DEF Exhaust, Continue, TypeOK, RunStates
  <2> QED BY <2>1, <1>1, <1>6 DEF Exhaust, Continue, ScaleInv, Calibrating
<1>7. ASSUME NEW b \in Builders, CheckCalibration(b) PROVE ScaleInv'
  <2>1. run[b].pc = "calibrate" /\ UNCHANGED <<tables, absmax>> /\ run[b].number # 0
    BY <1>7 DEF CheckCalibration, ScaleInv, Calibrating
  <2>2. CASE absmax # 0
    BY <1>7, <2>1, <2>2, ReleaseScale DEF CheckCalibration
  <2>3. CASE absmax = 0
    <3>1. run' = [run EXCEPT ![b].pc = "store"]
      BY <1>7, <2>3 DEF CheckCalibration
    <3>2. /\ run'[b].calibrated = run[b].calibrated /\ run'[b].batch = run[b].batch
          /\ run'[b].number = run[b].number
      BY <3>1 DEF TypeOK, RunStates
    <3> QED BY <1>1, <2>1, <2>3, <3>2 DEF ScaleInv, Calibrating
  <2> QED BY <2>2, <2>3
<1>8. ASSUME NEW b \in Builders, StoreCalibration(b) PROVE ScaleInv'
  <2>1. run[b].number # 0 /\ absmax = 0
    BY <1>8 DEF StoreCalibration, ScaleInv, Calibrating
  <2>2. Ids = {}
    BY <2>1 DEF ScaleInv, OneScale
  <2> QED BY <1>8, <2>1, <2>2, ReleaseScale DEF StoreCalibration
<1>9. ASSUME NEW b \in Builders, Flush(b) PROVE ScaleInv'
  <2>1. BatchSize \in 1..Len(run[b].batch)
    BY <1>9, SizesAssumption, BatchIsSeq DEF Flush
  <2> QED BY <1>9, <2>1, WriteBatchScale DEF Flush
<1>10. ASSUME NEW b \in Builders, Drain(b) PROVE ScaleInv'
  <2>1. (IF Len(run[b].batch) > BatchSize THEN BatchSize ELSE Len(run[b].batch)) \in 1..Len(run[b].batch)
    BY <1>10, SizesAssumption, BatchIsSeq DEF Drain
  <2> QED BY <1>10, <2>1, WriteBatchScale DEF Drain
<1>11. ASSUME NEW b \in Builders, Finish(b) PROVE ScaleInv'
  <2>1. run'[b].calibrated = FALSE /\ run'[b].batch = << >> /\ run'[b].pc = "done"
    BY <1>11 DEF Finish, EmptyRun, TypeOK
  <2>2. OneScale'
    <3>1. CASE UNCHANGED tables
      BY <1>11, <3>1 DEF Finish, ScaleInv, OneScale, tables, Ids
    <3>2. CASE /\ chunks' = Without(chunks, run[b].stale)
               /\ chunksVec' = Without(chunksVec, run[b].stale)
      BY <1>11, <3>2 DEF Finish, ScaleInv, OneScale, Without, Ids, TablesAgree
    <3> QED BY <1>11, <3>1, <3>2 DEF Finish
  <2>3. \A c \in Builders : Calibrating(c)'
    BY <2>1 DEF Single, Calibrating
  <2> QED BY <2>2, <2>3 DEF ScaleInv
<1>12. ASSUME NEW b \in Builders, Crash(b) PROVE ScaleInv'
  <2>1. run'[b] = EmptyRun
    BY <1>12 DEF Crash, TypeOK
  <2> QED BY <2>1, <1>1, <1>12 DEF Crash, EmptyRun, Calibrating
<1>13. CASE UNCHANGED vars
  BY <1>13 DEF vars, tables, ScaleInv, OneScale, Calibrating, Ids
<1> QED
  BY <1>2, <1>3, <1>4, <1>5, <1>6, <1>7, <1>8, <1>9, <1>10, <1>11, <1>12, <1>13
  DEF Next, Step

(* When builds never overlap, every stored vector was quantised with the   *)
(* one stored calibration value, whatever the batch and sample sizes and   *)
(* wherever _ensure_calibration or a build was interrupted.                *)
THEOREM SoloOneScale == ASSUME Single PROVE Spec => []OneScale
<1>1. ScaleInv => OneScale
  BY DEF ScaleInv
<1>2. ScaleInv /\ TypeOK /\ TablesAgree /\ [Next]_vars => ScaleInv'
  BY NextScale
<1> QED BY <1>1, <1>2, InitScale, TypeCorrect, TablesAlwaysAgree, PTL DEF Spec

-----------------------------------------------------------------------------
(* No collision.  Every row that waits to be written has an id of its own; *)
(* the id is in the index exactly when the row is a rewrite, and then it   *)
(* belongs to the row's chat, which has been visited.  So neither a later  *)
(* chat nor the counter of new ids can come to the same id.                *)

Working(b) == run[b].pc \in {"scan", "calibrate", "store", "flush", "drain"}
Waiting(b) == run[b].todo \cup Rows(run[b].buffer) \cup Rows(run[b].batch)
DistinctIds(s) == \A k, l \in DOMAIN s : k # l => s[k].id # s[l].id

Owed(b, x) ==
  /\ x.id < run[b].nextId
  /\ x.chat \notin run[b].rest
  /\ x.isNew <=> x.id \notin Ids
  /\ ~x.isNew => chunks[x.id].chat = x.chat

OwnIds(b) ==
  /\ \A i \in Ids : i < run[b].nextId
  /\ \A x \in Waiting(b) : Owed(b, x)
  /\ \A x, y \in run[b].todo : x.id = y.id => x = y
  /\ \A x \in run[b].todo : \A y \in Rows(run[b].buffer) \cup Rows(run[b].batch) : x.id # y.id
  /\ DistinctIds(run[b].buffer) /\ DistinctIds(run[b].batch)
  /\ run[b].buffer = << >> \/ (run[b].batch = << >> /\ ~run[b].calibrated)

Queued(b) ==
  /\ run[b].pc # "failed"
  /\ Working(b) => OwnIds(b)
  /\ ~Working(b) => run[b].todo = {} /\ run[b].buffer = << >> /\ run[b].batch = << >>

QueueInv == \A b \in Builders : Queued(b)

LEMMA AdditionIds ==
  ASSUME TypeOK, NEW c \in Chats, NEW nextId \in Nat \ {0}
  PROVE  LET A == Additions(c, snapshot[c], nextId)
         IN /\ \A x \in A : x.id >= nextId /\ x.id < nextId + Cardinality(A) /\ x.isNew /\ x.chat = c
            /\ \A x, y \in A : x.id = y.id => x = y
<1> DEFINE k == snapshot[c]
           n == Cardinality(IdsOf(c))
           L == Len(ChunkList[k])
           item(p) == [id |-> nextId + (p - n - 1), chat |-> c, pos |-> p,
                       body |-> Body(k, ChunkList[k][p]), isNew |-> TRUE]
           D == (n + 1)..L
           A == {item(p) : p \in D}
<1>1. n \in Nat
  <2>1. IdsOf(c) \subseteq Ids
    BY DEF IdsOf
  <2> QED BY <2>1, FS_Subset, FS_CardinalityType DEF TypeOK
<1>2. L \in Nat
  BY ChunkListAssumption DEF TypeOK
<1>3. Additions(c, snapshot[c], nextId) = A
  BY DEF Additions
<1>4. \A p, q \in D : item(p).id = item(q).id => p = q
  BY <1>1, <1>2
<1>5. ASSUME D # {} PROVE Cardinality(A) = L - n
  <2>1. IsFiniteSet(D) /\ Cardinality(D) = L - n
    <3>1. n + 1 <= L /\ n + 1 \in Int /\ L \in Int
      BY <1>1, <1>2, <1>5
    <3>2. IsFiniteSet(D) /\ Cardinality(D) = L - (n + 1) + 1
      BY <3>1, FS_Interval
    <3> HIDE DEF n, L, D
    <3> QED BY ONLY <3>1, <3>2, <1>1, <1>2
  <2>2. [p \in D |-> item(p)] \in Surjection(D, A)
    BY DEF Surjection
  <2>3. [p \in D |-> item(p)] \in Injection(D, A)
    <3>1. \A p, q \in D : item(p) = item(q) => p = q
      BY <1>4
    <3> HIDE DEF item, D
    <3> QED BY <3>1 DEF Injection, IsInjective
  <2> HIDE DEF A, D, item
  <2> QED BY ONLY <2>1, <2>2, <2>3, FS_Surjection
<1>6. ASSUME NEW p \in D
      PROVE  item(p).id >= nextId /\ item(p).id < nextId + Cardinality(A)
  <2>1. Cardinality(A) = L - n
    BY <1>5
  <2> HIDE DEF A
  <2> QED BY <1>1, <1>2, <2>1
<1>7. \A p \in D : item(p).isNew /\ item(p).chat = c
  OBVIOUS
<1> HIDE DEF item, D
<1> QED BY <1>3, <1>4, <1>6, <1>7

(* The rows written and the rows left share no id, and none collides.      *)
LEMMA SplitBatch ==
  ASSUME TypeOK, NEW b \in Builders, OwnIds(b), NEW n \in 1..Len(run[b].batch)
  PROVE  LET s == SubSeq(run[b].batch, 1, n)
             rest == SubSeq(run[b].batch, n + 1, Len(run[b].batch))
         IN /\ s \in Seq(Pending) /\ Len(s) = n /\ rest \in Seq(Pending)
            /\ run[b].buffer = << >>
            /\ Rows(run[b].batch) = Rows(s) \cup Rows(rest)
            /\ DistinctIds(s) /\ DistinctIds(rest)
            /\ \A x \in Rows(s), y \in Rows(rest) : x.id # y.id
            /\ ~Collides(s)
<1> DEFINE s == SubSeq(run[b].batch, 1, n)
           rest == SubSeq(run[b].batch, n + 1, Len(run[b].batch))
<1>1. s \in Seq(Pending) /\ Len(s) = n /\ rest \in Seq(Pending)
  BY BatchType
<1>2. OwnIds(b) /\ run[b].buffer = << >>
  BY BatchIsSeq DEF OwnIds
<1>3. /\ Rows(s) \subseteq Rows(run[b].batch) /\ Rows(rest) \subseteq Rows(run[b].batch)
      /\ Rows(run[b].batch) \subseteq Rows(s) \cup Rows(rest)
      /\ DistinctIds(s) /\ DistinctIds(rest)
      /\ \A x \in Rows(s), y \in Rows(rest) : x.id # y.id
  <2>1. run[b].batch \in Seq(Pending) /\ DistinctIds(run[b].batch)
    BY <1>2, BatchIsSeq DEF OwnIds
  <2>2. \A k \in 1..n : s[k] = run[b].batch[k] /\ k \in DOMAIN run[b].batch
    BY <2>1
  <2>3. DOMAIN s = 1..n /\ DOMAIN rest = 1..(Len(run[b].batch) - n)
    BY <2>1
  <2>4. \A k \in DOMAIN rest : rest[k] = run[b].batch[k + n] /\ k + n \in DOMAIN run[b].batch
    BY <2>1
  <2>5. n \in Nat /\ Len(run[b].batch) \in Nat
    BY <2>1
  <2> HIDE DEF s, rest
  <2>6. DOMAIN run[b].batch = 1..Len(run[b].batch)
    BY <2>1
  <2>7. Rows(s) \subseteq Rows(run[b].batch) /\ Rows(rest) \subseteq Rows(run[b].batch)
    BY ONLY <2>2, <2>3, <2>4 DEF Rows
  <2>8. DistinctIds(s)
    BY ONLY <2>1, <2>2, <2>3 DEF DistinctIds
  <2>9. DistinctIds(rest)
    BY ONLY SMTT(30), <2>1, <2>3, <2>4, <2>5 DEF DistinctIds
  <2>10. ASSUME NEW k \in DOMAIN s, NEW l \in DOMAIN rest PROVE s[k].id # rest[l].id
    <3>1. k # l + n /\ k \in DOMAIN run[b].batch /\ l + n \in DOMAIN run[b].batch
      BY ONLY <2>2, <2>3, <2>4, <2>5
    <3>2. run[b].batch[k].id # run[b].batch[l + n].id
      BY <2>1, <3>1 DEF DistinctIds
    <3> QED BY <2>2, <2>3, <2>4, <3>2
  <2>11. Rows(run[b].batch) \subseteq Rows(s) \cup Rows(rest)
    <3> SUFFICES ASSUME NEW k \in DOMAIN run[b].batch
                 PROVE  run[b].batch[k] \in Rows(s) \cup Rows(rest)
      BY DEF Rows
    <3>1. CASE k <= n
      BY <2>2, <2>3, <2>5, <2>6, <3>1 DEF Rows
    <3>2. CASE k > n
      <4>1. k - n \in DOMAIN rest /\ (k - n) + n = k
        BY <2>3, <2>5, <2>6, <3>2
      <4> QED BY <2>4, <4>1 DEF Rows
    <3> QED BY <2>5, <2>6, <3>1, <3>2
  <2> QED BY <2>7, <2>8, <2>9, <2>10, <2>11 DEF Rows
<1>4. ~Collides(s)
  <2>1. \A x \in Rows(s) : x.isNew => x.id \notin Ids
    BY <1>2, <1>3 DEF OwnIds, Waiting, Owed
  <2> QED BY <2>1, <1>3 DEF Collides, DistinctIds
<1> QED BY <1>1, <1>2, <1>3, <1>4

LEMMA WriteBatchQueue ==
  ASSUME TypeOK, NEW b \in Builders, OwnIds(b), NEW n \in 1..Len(run[b].batch),
         WriteBatch(b, SubSeq(run[b].batch, 1, n)), run[b].pc \in {"flush", "drain"}
  PROVE  OwnIds(b)' /\ Working(b)' /\ run'[b].pc # "failed"
<1> DEFINE s == SubSeq(run[b].batch, 1, n)
           rest == SubSeq(run[b].batch, n + 1, Len(run[b].batch))
           new == RowIds(Rows(s))
<1>1. s \in Seq(Pending) /\ Len(s) = n /\ rest \in Seq(Pending)
  BY BatchType
<1>2. OwnIds(b) /\ run[b].buffer = << >>
  BY SplitBatch
<1>3. /\ Rows(s) \subseteq Rows(run[b].batch) /\ Rows(rest) \subseteq Rows(run[b].batch)
      /\ DistinctIds(s) /\ DistinctIds(rest)
      /\ \A x \in Rows(s), y \in Rows(rest) : x.id # y.id
  BY SMTT(30), SplitBatch
<1>4. ~Collides(s)
  BY SplitBatch
<1>5. Ids' = Ids \cup new /\ \A i \in Ids \ new : chunks'[i] = chunks[i]
  BY <1>4 DEF WriteBatch, Put, Ids
<1>6. run' = [run EXCEPT ![b].batch = SubSeq(@, Len(s) + 1, Len(@)), ![b].written = @ + Len(s)]
  BY <1>4 DEF WriteBatch, Advance
<1>7. /\ run'[b].batch = rest /\ run'[b].buffer = << >> /\ run'[b].todo = run[b].todo
      /\ run'[b].pc = run[b].pc /\ run'[b].nextId = run[b].nextId /\ run'[b].rest = run[b].rest
  <2>1. run[b] \in RunStates
    BY DEF TypeOK
  <2> HIDE DEF s
  <2> QED BY <1>1, <1>2, <1>6, <2>1 DEF TypeOK, RunStates
<1> HIDE DEF s, rest
<1>8. \A x \in Waiting(b)' : x \in Waiting(b) /\ x.id \notin new
  <2>1. Waiting(b)' = run[b].todo \cup Rows(rest)
    BY <1>7 DEF Waiting, Rows
  <2>2. ASSUME NEW x \in run[b].todo PROVE x.id \notin new
    BY <1>2, <1>3 DEF OwnIds, RowIds
  <2>3. ASSUME NEW x \in Rows(rest) PROVE x.id \notin new
    BY <1>3 DEF RowIds
  <2> QED BY <1>3, <2>1, <2>2, <2>3 DEF Waiting
<1>9. \A x \in Waiting(b)' : Owed(b, x)'
  <2>1. ASSUME NEW x \in Waiting(b)' PROVE Owed(b, x)'
    <3>1. Owed(b, x) /\ x.id \notin new
      BY <1>2, <1>8 DEF OwnIds
    <3>2. x.id \in Ids' <=> x.id \in Ids
      BY <1>5, <3>1
    <3>3. ~x.isNew => chunks'[x.id] = chunks[x.id]
      BY <1>5, <3>1 DEF Owed
    <3> QED BY <1>7, <3>1, <3>2, <3>3 DEF Owed
  <2> QED BY <2>1
<1>10. \A i \in Ids' : i < run'[b].nextId
  BY <1>2, <1>3, <1>5, <1>7 DEF OwnIds, Owed, Waiting, RowIds
<1>11. OwnIds(b)'
  BY <1>2, <1>3, <1>7, <1>9, <1>10 DEF OwnIds, Rows, DistinctIds
<1>12. run'[b].pc # "failed" /\ Working(b)'
  BY <1>7 DEF Working
<1> QED BY <1>11, <1>12

LEMMA DiffQueue ==
  ASSUME TypeOK, NEW b \in Builders, OwnIds(b), Diff(b)
  PROVE  OwnIds(b)' /\ Working(b)' /\ run'[b].pc # "failed"
<1>1. PICK c \in run[b].rest :
        IF DOMAIN snapshot[c] = {}
        THEN run' = [run EXCEPT ![b].rest = @ \ {c}]
        ELSE run' = [run EXCEPT ![b].rest = @ \ {c},
                                ![b].todo = Rewrites(c, snapshot[c]) \cup Additions(c, snapshot[c], run[b].nextId),
                                ![b].nextId = @ + Cardinality(Additions(c, snapshot[c], run[b].nextId)),
                                ![b].stale = @ \cup Orphans(c, snapshot[c])]
  BY DEF Diff
<1>2. run[b] \in RunStates /\ Working(b) /\ OwnIds(b) /\ run[b].todo = {} /\ UNCHANGED tables
  BY DEF Diff, Working, TypeOK
<1>3. c \in Chats /\ run[b].nextId \in Nat \ {0}
  BY <1>2 DEF RunStates
<1>4. Ids' = Ids /\ UNCHANGED chunks
  BY <1>2 DEF tables, Ids
<1> DEFINE nextId == run[b].nextId
           additions == Additions(c, snapshot[c], nextId)
           rewrites == Rewrites(c, snapshot[c])
<1>5. /\ run'[b].buffer = run[b].buffer /\ run'[b].batch = run[b].batch
      /\ run'[b].calibrated = run[b].calibrated /\ run'[b].pc = run[b].pc
      /\ run'[b].rest = run[b].rest \ {c}
      /\ \/ run'[b].todo = {} /\ run'[b].nextId = nextId
         \/ run'[b].todo = rewrites \cup additions /\ run'[b].nextId = nextId + Cardinality(additions)
  <2>1. CASE DOMAIN snapshot[c] = {}
    <3>1. run' = [run EXCEPT ![b].rest = @ \ {c}]
      BY <1>1, <2>1
    <3>2. run \in [Builders -> RunStates]
      BY DEF TypeOK
    <3>3. run[b].todo = {}
      BY <1>2
    <3> QED BY ONLY <3>1, <3>2, <3>3, b \in Builders DEF RunStates, nextId
  <2>2. CASE DOMAIN snapshot[c] # {}
    <3> DEFINE todo == rewrites \cup additions
               more == nextId + Cardinality(additions)
               stale == run[b].stale \cup Orphans(c, snapshot[c])
    <3>1. run' = [run EXCEPT ![b] = [run[b] EXCEPT !.rest = @ \ {c}, !.todo = todo,
                                                   !.nextId = more, !.stale = stale]]
      BY <1>1, <2>2
    <3>2. run \in [Builders -> RunStates]
      BY DEF TypeOK
    <3> HIDE DEF todo, more, stale
    <3>3. /\ run'[b].buffer = run[b].buffer /\ run'[b].batch = run[b].batch
          /\ run'[b].calibrated = run[b].calibrated /\ run'[b].pc = run[b].pc
          /\ run'[b].rest = run[b].rest \ {c}
          /\ run'[b].todo = todo /\ run'[b].nextId = more
      BY ONLY <3>1, <3>2, b \in Builders DEF RunStates
    <3> QED BY <3>3 DEF todo, more
  <2> QED BY <2>1, <2>2
<1>6. Cardinality(additions) \in Nat
  BY <1>3, AdditionsType
<1>7. /\ \A x \in additions : /\ x.id >= nextId /\ x.id < nextId + Cardinality(additions)
                             /\ x.isNew /\ x.chat = c
      /\ \A x, y \in additions : x.id = y.id => x = y
      /\ additions \subseteq Pending
  BY <1>3, AdditionIds, AdditionsType
<1>8. /\ \A x \in rewrites : x.id \in Ids /\ chunks[x.id].chat = c /\ ~x.isNew /\ x.chat = c
      /\ \A x, y \in rewrites : x.id = y.id => x = y
  <2> DEFINE row(i) == [id |-> i, chat |-> c, pos |-> Rank(i),
                        body |-> Body(snapshot[c], ChunkList[snapshot[c]][Rank(i)]),
                        isNew |-> FALSE]
  <2>1. \A x \in rewrites : \E i \in IdsOf(c) : x = row(i)
    BY DEF Rewrites
  <2>2. \A i : row(i).id = i /\ row(i).chat = c /\ row(i).isNew = FALSE
    OBVIOUS
  <2> HIDE DEF row, rewrites
  <2> QED BY <2>1, <2>2 DEF IdsOf
<1> HIDE DEF nextId, additions, rewrites
<1>9. Ids \subseteq Nat /\ (\A i \in Ids : i < nextId) /\ nextId \in Nat
  BY <1>2, <1>3 DEF OwnIds, nextId, TypeOK
<1>10. run'[b].nextId \in Nat /\ nextId <= run'[b].nextId
  BY <1>5, <1>6, <1>9
<1>11. ASSUME NEW x \in Rows(run[b].buffer) \cup Rows(run[b].batch) PROVE Owed(b, x)' /\ Owed(b, x)
  <2>1. Owed(b, x)
    BY <1>2 DEF OwnIds, Waiting
  <2>2. x \in Pending
    BY <1>2 DEF RunStates, Rows
  <2>3. x.id < run'[b].nextId
    <3>1. x.id < nextId
      BY <2>1 DEF Owed, nextId
    <3>2. x.id \in Nat
      BY <2>2 DEF Pending
    <3> QED BY ONLY <3>1, <3>2, <1>9, <1>10
  <2> QED BY <2>1, <2>3, <1>4, <1>5 DEF Owed
<1>12. ASSUME NEW x \in run'[b].todo PROVE Owed(b, x)' /\ (x \in rewrites \/ x \in additions)
  <2>1. x \in rewrites \cup additions /\ run'[b].nextId = nextId + Cardinality(additions)
    BY <1>5
  <2>2. CASE x \in rewrites
    <3>1. x.id \in Nat /\ x.id < nextId
      BY <2>2, <1>8, <1>9
    <3>2. x.id < run'[b].nextId
      BY ONLY <3>1, <1>9, <1>10
    <3> QED BY <2>2, <3>2, <1>4, <1>5, <1>8 DEF Owed
  <2>3. CASE x \in additions
    <3>1. x.id \notin Ids /\ x.id < run'[b].nextId
      BY <2>1, <2>3, <1>7, <1>9 DEF Pending
    <3> QED BY <2>3, <3>1, <1>4, <1>5, <1>7 DEF Owed
  <2> QED BY <2>1, <2>2, <2>3
<1>13. ASSUME NEW x \in run'[b].todo, NEW y \in run'[b].todo, x.id = y.id PROVE x = y
  <2>1. ASSUME NEW v \in rewrites, NEW w \in additions PROVE v.id # w.id
    BY <2>1, <1>7, <1>8, <1>9 DEF Pending
  <2> QED BY <1>12, <1>13, <2>1, <1>7, <1>8
<1>14. ASSUME NEW x \in run'[b].todo, NEW y \in Rows(run[b].buffer) \cup Rows(run[b].batch)
       PROVE  x.id # y.id
  <2>1. Owed(b, y) /\ y \in Pending
    BY <1>2, <1>11 DEF RunStates, Rows
  <2>2. CASE x \in additions
    BY <2>1, <2>2, <1>7, <1>9 DEF Owed, nextId, Pending
  <2>3. CASE x \in rewrites
    BY <2>1, <2>3, <1>8 DEF Owed
  <2> QED BY <1>12, <2>2, <2>3
<1>15. OwnIds(b)'
  <2>1. \A i \in Ids' : i < run'[b].nextId
    <3>1. ASSUME NEW i \in Ids PROVE i < run'[b].nextId
      BY <1>9, <1>10
    <3> QED BY <1>4, <3>1
  <2>2. \A x \in Waiting(b)' : Owed(b, x)'
    BY <1>5, <1>11, <1>12 DEF Waiting, Rows
  <2> QED BY <2>1, <2>2, <1>2, <1>5, <1>13, <1>14 DEF OwnIds, Rows, DistinctIds
<1>16. Working(b)' /\ run'[b].pc # "failed"
  BY <1>2, <1>5 DEF Working
<1> QED BY <1>15, <1>16

LEMMA TakeQueue ==
  ASSUME TypeOK, NEW b \in Builders, OwnIds(b), Take(b),
         run[b].batch # << >> => run[b].calibrated
  PROVE  OwnIds(b)' /\ Working(b)' /\ run'[b].pc # "failed"
<1>1. run[b] \in RunStates /\ OwnIds(b) /\ UNCHANGED tables /\ run[b].pc = "scan"
  BY DEF Take, TypeOK
<1>2. PICK x \in run[b].todo :
        \/ /\ run[b].calibrated
           /\ run' = [run EXCEPT ![b].todo = @ \ {x}, ![b].batch = Append(@, x), ![b].pc = "flush"]
        \/ /\ ~run[b].calibrated
           /\ \E pc \in {"calibrate", "scan"} :
                run' = [run EXCEPT ![b].todo = @ \ {x},
                                   ![b].buffer = Append(run[b].buffer, x), ![b].pc = pc]
  BY DEF Take
<1>3. x \in Pending /\ run[b].buffer \in Seq(Pending) /\ run[b].batch \in Seq(Pending)
  BY <1>1 DEF RunStates
<1>4. /\ run'[b].todo = run[b].todo \ {x} /\ run'[b].nextId = run[b].nextId
      /\ run'[b].rest = run[b].rest /\ run'[b].calibrated = run[b].calibrated
      /\ run'[b].pc \in {"scan", "flush", "calibrate"}
      /\ \/ /\ run[b].calibrated /\ run'[b].batch = Append(run[b].batch, x)
            /\ run'[b].buffer = run[b].buffer
         \/ /\ ~run[b].calibrated /\ run'[b].buffer = Append(run[b].buffer, x)
            /\ run'[b].batch = run[b].batch
  BY SMTT(30), <1>1, <1>2 DEF TypeOK, RunStates
<1>5. Ids' = Ids /\ UNCHANGED chunks
  BY <1>1 DEF tables, Ids
<1>6. \A y : Owed(b, y)' <=> Owed(b, y)
  BY <1>4, <1>5 DEF Owed
<1>7. ASSUME NEW q \in Seq(Pending), DistinctIds(q), \A y \in Rows(q) : x.id # y.id
      PROVE  DistinctIds(Append(q, x)) /\ Rows(Append(q, x)) = Rows(q) \cup {x}
  <2>1. /\ DOMAIN q = 1..Len(q) /\ DOMAIN Append(q, x) = 1..(Len(q) + 1) /\ Len(q) \in Nat
        /\ Append(q, x)[Len(q) + 1] = x /\ \A k \in 1..Len(q) : Append(q, x)[k] = q[k]
    BY <1>3, <1>7
  <2>2. \A k \in DOMAIN Append(q, x) : k \in DOMAIN q \/ k = Len(q) + 1
    BY ONLY <2>1
  <2>3. Len(q) + 1 \in DOMAIN Append(q, x) /\ DOMAIN q \subseteq DOMAIN Append(q, x)
    BY ONLY <2>1
  <2>4. DistinctIds(Append(q, x))
    BY ONLY <1>7, <2>1, <2>2 DEF DistinctIds, Rows
  <2> QED BY ONLY <2>1, <2>2, <2>3, <2>4 DEF Rows
<1>8. \A y \in Rows(run[b].buffer) \cup Rows(run[b].batch) : x.id # y.id
  BY <1>1 DEF OwnIds
<1>9. CASE run[b].calibrated
  <2>1. run'[b].batch = Append(run[b].batch, x) /\ run'[b].buffer = run[b].buffer
    BY <1>4, <1>9
  <2>2. DistinctIds(run'[b].batch) /\ Rows(run'[b].batch) = Rows(run[b].batch) \cup {x}
    BY <1>1, <1>3, <1>7, <1>8, <2>1 DEF OwnIds
  <2>3. Waiting(b)' \subseteq Waiting(b)
    BY <1>4, <2>1, <2>2 DEF Waiting, Rows
  <2>4. /\ \A i \in Ids' : i < run'[b].nextId
        /\ \A y \in Waiting(b)' : Owed(b, y)'
        /\ \A y, z \in run'[b].todo : y.id = z.id => y = z
    BY <1>1, <1>4, <1>5, <1>6, <2>3 DEF OwnIds
  <2>5. \A y \in run'[b].todo : \A z \in Rows(run'[b].buffer) \cup Rows(run'[b].batch) : y.id # z.id
    <3>1. Rows(run'[b].buffer) \cup Rows(run'[b].batch) = Rows(run[b].buffer) \cup Rows(run[b].batch) \cup {x}
      BY <2>1, <2>2
    <3>2. \A y \in run'[b].todo : y.id # x.id /\ y \in run[b].todo
      BY <1>1, <1>4 DEF OwnIds
    <3> QED BY <1>1, <3>1, <3>2 DEF OwnIds
  <2>6. /\ DistinctIds(run'[b].buffer) /\ DistinctIds(run'[b].batch)
        /\ run'[b].buffer = << >> \/ (run'[b].batch = << >> /\ ~run'[b].calibrated)
    BY <1>1, <1>4, <1>9, <2>1, <2>2 DEF OwnIds
  <2>7. OwnIds(b)'
    BY <2>4, <2>5, <2>6 DEF OwnIds, Rows, DistinctIds
  <2> QED BY <1>4, <2>7 DEF Working
<1>10. CASE ~run[b].calibrated
  <2>1. run'[b].buffer = Append(run[b].buffer, x) /\ run'[b].batch = run[b].batch
    BY <1>4, <1>10
  <2>2. DistinctIds(run'[b].buffer) /\ Rows(run'[b].buffer) = Rows(run[b].buffer) \cup {x}
    BY <1>1, <1>3, <1>7, <1>8, <2>1 DEF OwnIds
  <2>3. Waiting(b)' \subseteq Waiting(b)
    BY <1>4, <2>1, <2>2 DEF Waiting, Rows
  <2>4. /\ \A i \in Ids' : i < run'[b].nextId
        /\ \A y \in Waiting(b)' : Owed(b, y)'
        /\ \A y, z \in run'[b].todo : y.id = z.id => y = z
    BY <1>1, <1>4, <1>5, <1>6, <2>3 DEF OwnIds
  <2>5. \A y \in run'[b].todo : \A z \in Rows(run'[b].buffer) \cup Rows(run'[b].batch) : y.id # z.id
    <3>1. Rows(run'[b].buffer) \cup Rows(run'[b].batch) = Rows(run[b].buffer) \cup Rows(run[b].batch) \cup {x}
      BY <2>1, <2>2
    <3>2. \A y \in run'[b].todo : y.id # x.id /\ y \in run[b].todo
      BY <1>1, <1>4 DEF OwnIds
    <3> QED BY <1>1, <3>1, <3>2 DEF OwnIds
  <2>6. /\ DistinctIds(run'[b].buffer) /\ DistinctIds(run'[b].batch)
        /\ run'[b].buffer = << >> \/ (run'[b].batch = << >> /\ ~run'[b].calibrated)
    BY <1>1, <1>4, <1>10, <2>1, <2>2 DEF OwnIds
  <2>7. OwnIds(b)'
    BY <2>4, <2>5, <2>6 DEF OwnIds, Rows, DistinctIds
  <2> QED BY <1>4, <2>7 DEF Working
<1> QED BY <1>9, <1>10

LEMMA ReleaseQueue ==
  ASSUME TypeOK, NEW b \in Builders, OwnIds(b), ReleaseBuffer(b), UNCHANGED tables,
         run[b].pc \in {"calibrate", "store"}, run[b].batch # << >> => run[b].calibrated
  PROVE  OwnIds(b)' /\ Working(b)' /\ run'[b].pc # "failed"
<1>1. run[b] \in RunStates /\ OwnIds(b)
  BY DEF TypeOK
<1>2. run[b].buffer \in Seq(Pending) /\ run[b].batch \in Seq(Pending)
  BY <1>1 DEF RunStates
<1>3. /\ run'[b].batch = run[b].batch \o run[b].buffer /\ run'[b].buffer = << >>
      /\ run'[b].todo = run[b].todo /\ run'[b].nextId = run[b].nextId
      /\ run'[b].rest = run[b].rest /\ run'[b].pc \in {"flush", "drain"}
  BY <1>1 DEF ReleaseBuffer, TypeOK, RunStates
<1>4. Ids' = Ids /\ UNCHANGED chunks
  BY DEF tables, Ids
<1>5. \/ run'[b].batch = run[b].batch /\ run[b].buffer = << >>
      \/ run'[b].batch = run[b].buffer /\ run[b].batch = << >>
  <2>1. run[b].batch \o << >> = run[b].batch /\ << >> \o run[b].buffer = run[b].buffer
    BY <1>2
  <2> QED BY <1>1, <1>3, <2>1 DEF OwnIds
<1>6. Rows(run'[b].batch) = Rows(run[b].buffer) \cup Rows(run[b].batch) /\ DistinctIds(run'[b].batch)
  BY <1>1, <1>5 DEF Rows, OwnIds
<1>7. Rows(run'[b].buffer) = {}
  BY <1>3 DEF Rows
<1>8. Waiting(b)' = Waiting(b)
  BY <1>3, <1>6, <1>7 DEF Waiting, Rows
<1>9. \A y : Owed(b, y)' <=> Owed(b, y)
  BY <1>3, <1>4 DEF Owed
<1>10. DistinctIds(run'[b].buffer)
  BY <1>3 DEF DistinctIds
<1>11. OwnIds(b)'
  <2>1. /\ \A i \in Ids' : i < run'[b].nextId
        /\ \A y \in Waiting(b)' : Owed(b, y)'
        /\ \A y, z \in run'[b].todo : y.id = z.id => y = z
    BY <1>1, <1>3, <1>4, <1>8, <1>9 DEF OwnIds
  <2>2. \A y \in run'[b].todo : \A z \in Rows(run'[b].buffer) \cup Rows(run'[b].batch) : y.id # z.id
    BY <1>1, <1>3, <1>6, <1>7 DEF OwnIds
  <2> QED BY <2>1, <2>2, <1>3, <1>6, <1>10 DEF OwnIds, Rows, DistinctIds
<1> QED BY <1>3, <1>11 DEF Working

LEMMA StepQueue ==
  ASSUME TypeOK, NEW b \in Builders, Queued(b), Step(b),
         run[b].batch # << >> => run[b].calibrated
  PROVE  Queued(b)'
<1>a. ASSUME OwnIds(b)', Working(b)', run'[b].pc # "failed" PROVE Queued(b)'
  BY <1>a DEF Queued
<1>b. ASSUME ~Working(b)', run'[b].pc # "failed",
             run'[b].todo = {}, run'[b].buffer = << >>, run'[b].batch = << >>
      PROVE  Queued(b)'
  BY <1>b DEF Queued
<1>2. CASE Open(b)
  <2>1. PICK limit \in Limits, top \in Ids \cup {0} :
          /\ IsLast(top, Ids \cup {0})
          /\ run' = [run EXCEPT ![b].pc = "scan",
                               ![b].limit = limit,
                               ![b].calibrated = (absmax # 0),
                               ![b].nextId = top + 1,
                               ![b].rest = listed,
                               ![b].stale = {i \in Ids : chunks[i].chat \notin listed}]
    BY <1>2 DEF Open
  <2>2. run[b].pc = "copied" /\ Ids' = Ids /\ run[b] \in RunStates
    BY <1>2 DEF Open, tables, Ids, TypeOK
  <2>3. run[b].todo = {} /\ run[b].buffer = << >> /\ run[b].batch = << >>
    BY <2>2 DEF Queued, Working
  <2>4. /\ run'[b].pc = "scan" /\ run'[b].nextId = top + 1 /\ run'[b].todo = {}
        /\ run'[b].buffer = << >> /\ run'[b].batch = << >>
    BY <2>1, <2>2, <2>3 DEF TypeOK, RunStates
  <2>5. ASSUME NEW i \in Ids PROVE i < top + 1
    <3>1. i \in Nat /\ top \in Nat /\ i <= top
      BY <2>1 DEF IsLast, TypeOK
    <3> QED BY ONLY <3>1
  <2>6. OwnIds(b)'
    BY <2>2, <2>4, <2>5 DEF OwnIds, Waiting, Rows, DistinctIds
  <2> QED BY <2>4, <2>6 DEF Queued, Working
<1>c. ASSUME UNCHANGED tables, Working(b), Working(b)',
             run'[b].todo = run[b].todo, run'[b].buffer = run[b].buffer,
             run'[b].batch = run[b].batch, run'[b].nextId = run[b].nextId,
             run'[b].rest = run[b].rest, run'[b].calibrated = run[b].calibrated
      PROVE  Queued(b)'
  <2>1. Ids' = Ids /\ UNCHANGED chunks /\ OwnIds(b)
    BY <1>c DEF tables, Ids, Queued
  <2>2. Waiting(b)' = Waiting(b) /\ \A x : Owed(b, x)' <=> Owed(b, x)
    BY <1>c, <2>1 DEF Waiting, Rows, Owed
  <2>3. OwnIds(b)'
    BY <1>c, <2>1, <2>2 DEF OwnIds, Rows, DistinctIds
  <2> QED BY <1>c, <2>3 DEF Queued, Working
<1>3. CASE Exhaust(b) \/ Continue(b)
  <2>1. UNCHANGED tables /\ Working(b)
    BY <1>3 DEF Exhaust, Continue, Working
  <2>2. /\ run'[b].todo = run[b].todo /\ run'[b].buffer = run[b].buffer
        /\ run'[b].batch = run[b].batch /\ run'[b].nextId = run[b].nextId
        /\ run'[b].rest = run[b].rest /\ run'[b].calibrated = run[b].calibrated
        /\ Working(b)'
    BY <1>3 DEF Exhaust, Continue, Working, TypeOK, RunStates
  <2> QED BY <1>c, <2>1, <2>2
<1>4. CASE CheckCalibration(b)
  <2>1. UNCHANGED tables /\ Working(b) /\ run[b].pc = "calibrate"
    BY <1>4 DEF CheckCalibration, Working
  <2>2. CASE ReleaseBuffer(b)
    <3>1. OwnIds(b)
      BY <2>1 DEF Queued
    <3> QED BY <1>a, <2>1, <2>2, <3>1, ReleaseQueue
  <2>3. CASE run' = [run EXCEPT ![b].pc = "store"]
    <3>1. /\ run'[b].todo = run[b].todo /\ run'[b].buffer = run[b].buffer
          /\ run'[b].batch = run[b].batch /\ run'[b].nextId = run[b].nextId
          /\ run'[b].rest = run[b].rest /\ run'[b].calibrated = run[b].calibrated
          /\ Working(b)'
      BY <2>3 DEF Working, TypeOK, RunStates
    <3> QED BY <3>1, <2>1, <1>c
  <2> QED BY <1>4, <2>2, <2>3 DEF CheckCalibration
<1>5. CASE StoreCalibration(b)
  <2>1. OwnIds(b) /\ ReleaseBuffer(b) /\ UNCHANGED tables /\ run[b].pc = "store"
    BY <1>5 DEF StoreCalibration, Queued, Working
  <2> QED BY <1>a, <2>1, ReleaseQueue
<1>6. CASE Flush(b)
  <2>1. BatchSize \in 1..Len(run[b].batch)
    BY <1>6, SizesAssumption, BatchIsSeq DEF Flush
  <2>2. OwnIds(b)
    BY <1>6 DEF Flush, Queued, Working
  <2> QED BY <1>a, <1>6, <2>1, <2>2, WriteBatchQueue DEF Flush
<1>7. CASE Drain(b)
  <2>1. (IF Len(run[b].batch) > BatchSize THEN BatchSize ELSE Len(run[b].batch)) \in 1..Len(run[b].batch)
    BY <1>7, SizesAssumption, BatchIsSeq DEF Drain
  <2>2. OwnIds(b)
    BY <1>7 DEF Drain, Queued, Working
  <2> QED BY <1>a, <1>7, <2>1, <2>2, WriteBatchQueue DEF Drain
<1>8. CASE Finish(b)
  <2>1. run'[b] = [EmptyRun EXCEPT !.pc = "done", !.limit = run[b].limit,
                                   !.written = run[b].written, !.alone = run[b].alone]
    BY <1>8 DEF Finish, TypeOK
  <2> QED BY <1>b, <2>1 DEF EmptyRun, Working
<1>9. CASE Diff(b)
  <2>1. OwnIds(b)
    BY <1>9 DEF Diff, Queued, Working
  <2> QED BY <1>a, <1>9, <2>1, DiffQueue
<1>10. CASE Take(b)
  <2>1. OwnIds(b)
    BY <1>10 DEF Take, Queued, Working
  <2> QED BY <1>a, <1>10, <2>1, TakeQueue
<1> QED
  BY <1>2, <1>3, <1>4, <1>5, <1>6, <1>7, <1>8, <1>9, <1>10 DEF Step

LEMMA NextQueue ==
  ASSUME TypeOK, Single, ScaleInv, QueueInv, [Next]_vars
  PROVE  QueueInv'
<1>1. ASSUME NEW b \in Builders, Queued(b)' PROVE QueueInv'
  BY <1>1 DEF QueueInv, Single
<1>2. ASSUME NEW b \in Builders, Snapshot(b) PROVE Queued(b)'
  <2>1. run'[b] = [EmptyRun EXCEPT !.pc = "copied", !.number = runs + 1,
                                   !.alone = \A e \in Builders : ~Active(e)]
    BY <1>2 DEF Snapshot
  <2> QED BY <2>1 DEF EmptyRun, Working, Queued
<1>3. ASSUME NEW b \in Builders, Step(b) PROVE Queued(b)'
  BY <1>3, StepQueue DEF QueueInv, ScaleInv, Calibrating
<1>4. ASSUME NEW b \in Builders, Crash(b) PROVE Queued(b)'
  <2>1. run'[b] = EmptyRun
    BY <1>4 DEF Crash, TypeOK
  <2> QED BY <2>1 DEF EmptyRun, Working, Queued
<1>5. CASE UNCHANGED vars
  <2>1. UNCHANGED <<chunks, run>> /\ Ids' = Ids
    BY <1>5 DEF vars, tables, Ids
  <2> QED BY <2>1 DEF QueueInv, Queued, Working, OwnIds, Owed, Waiting, Rows, DistinctIds
<1> QED BY <1>1, <1>2, <1>3, <1>4, <1>5 DEF Next

(* When builds never overlap, no build is ever refused an id by SQLite:    *)
(* the ids iter_pending_chunks hands out are free when _write_batch gets   *)
(* to them, and no two rows of a run share one, however often earlier      *)
(* builds were cut short.                                                  *)
THEOREM SoloNoCollision == ASSUME Single PROVE Spec => []NoCollision
<1>1. Init => QueueInv
  BY DEF Init, QueueInv, Queued, Working, EmptyRun
<1>2. TypeOK /\ ScaleInv /\ QueueInv /\ [Next]_vars => QueueInv'
  BY NextQueue
<1>3. QueueInv => NoCollision
  BY DEF QueueInv, Queued, NoCollision
<1>4. ScaleInv /\ TypeOK /\ TablesAgree /\ [Next]_vars => ScaleInv'
  BY NextScale
<1> QED BY <1>1, <1>2, <1>3, <1>4, InitScale, TypeCorrect, TablesAlwaysAgree, PTL DEF Spec

-----------------------------------------------------------------------------
(***************************************************************************)
(* What a build that no other build overlaps makes of the index, whatever  *)
(* it found there: after a complete run the index is the current chunk     *)
(* list of every conversation.  Builders may be any number and may race    *)
(* before and after.                                                       *)
(*                                                                         *)
(* The lists of chunks are final long before they are written: when a      *)
(* conversation is visited, the ids its chunks will have, their order and  *)
(* their messages are decided, and every later step only moves a chunk     *)
(* from the queue into the tables.  The invariant states that plan; ranks  *)
(* are taken among the ids of the plan, so that no step changes them.      *)
(***************************************************************************)

(* The ids a conversation will have once everything that waits is written. *)
Final(b, c) == IdsOf(c) \cup {x.id : x \in {y \in Waiting(b) : y.chat = c}}

(* What a chunk will show then: the row that waits for it, or, if none     *)
(* does, what is stored.                                                   *)
Holds(b, i, chunk) ==
  \/ \E x \in Waiting(b) : x.id = i /\ DOMAIN x.body = chunk
  \/ (\A x \in Waiting(b) : x.id # i) /\ chunkMessage[i] = chunk

(* The plan for a visited conversation leads to its current list.          *)
Planned(b, c) ==
  LET fresh == ChunkList[snapshot[c]]
      final == Final(b, c)
  IN /\ Len(fresh) <= Cardinality(final)
     /\ Cardinality(final) = Len(fresh) \/ final = IdsOf(c)
     /\ \A i \in final :
          IF Place(final, i) <= Len(fresh)
          THEN i \notin run[b].stale /\ Holds(b, i, fresh[Place(final, i)])
          ELSE i \in run[b].stale

PlanInv(b) ==
  /\ run[b].rest \subseteq listed
  /\ \A x \in Waiting(b) : /\ x.chat \in listed /\ ~OnlyReactions(x.chat)
                           /\ ~x.isNew => chunkMessage[x.id] # DOMAIN x.body
  /\ run[b].stale \subseteq Ids
  /\ \A i \in Ids : chunks[i].chat \notin listed => i \in run[b].stale
  /\ \A i \in run[b].stale : /\ chunks[i].chat \notin run[b].rest
                             /\ ~OnlyReactions(chunks[i].chat)
  /\ \A c \in listed \ run[b].rest : OnlyReactions(c) \/ Planned(b, c)

(* A run without a limit drains when it has seen everything, and whatever  *)
(* it flushes has left the calibration buffer.                             *)
Ending(b) ==
  /\ run[b].batch # << >> => run[b].calibrated
  /\ run[b].pc = "copied" => run[b].after = "flush"
  /\ run[b].pc \in {"flush", "drain"} => run[b].buffer = << >>
  /\ (run[b].pc = "drain" \/ run[b].after = "drain") /\ run[b].limit = NoLimit =>
       run[b].rest = {} /\ run[b].todo = {}

(* A builder that still counts as alone has the index for itself.          *)
Undisturbed(b) == \A e \in Builders \ {b} : ~Active(e)

Converging(b) ==
  /\ Undisturbed(b) /\ Queued(b) /\ Ending(b)
  /\ Working(b) => PlanInv(b)
  /\ run[b].pc = "done" /\ run[b].limit = NoLimit => InSync

ConvergeInv == \A b \in Builders : run[b].alone => Converging(b)

-----------------------------------------------------------------------------
(* Facts about the plan.                                                   *)

LEMMA WaitingIds ==
  ASSUME TypeOK, NEW b \in Builders, OwnIds(b)
  PROVE  /\ Waiting(b) \subseteq Pending
         /\ \A x \in Waiting(b), y \in Waiting(b) : x.id = y.id => x = y
<1>1. run[b] \in RunStates
  BY DEF TypeOK
<1>2. Waiting(b) \subseteq Pending
  BY <1>1 DEF RunStates, Waiting, Rows
<1>3. ASSUME NEW q \in {run[b].buffer, run[b].batch}, NEW x \in Rows(q), NEW y \in Rows(q),
             x.id = y.id
      PROVE  x = y
  BY <1>3 DEF OwnIds, DistinctIds, Rows
<1>4. Rows(run[b].buffer) = {} \/ Rows(run[b].batch) = {}
  BY DEF OwnIds, Rows
<1> QED BY <1>2, <1>3, <1>4 DEF OwnIds, Waiting

(* The ids of a plan are below the counter of new ids.                     *)
LEMMA FinalIds ==
  ASSUME TypeOK, NEW b \in Builders, OwnIds(b), NEW c
  PROVE  /\ Final(b, c) \in SUBSET Nat /\ IsFiniteSet(Final(b, c))
         /\ IdsOf(c) \subseteq Final(b, c) /\ IdsOf(c) \subseteq Ids
         /\ IsFiniteSet(IdsOf(c))
         /\ \A i \in Final(b, c) : i < run[b].nextId
<1>1. run[b].nextId \in Nat /\ Waiting(b) \subseteq Pending /\ Ids \subseteq Nat
  BY WaitingIds DEF TypeOK, RunStates
<1>2. IdsOf(c) \subseteq Ids /\ IsFiniteSet(IdsOf(c))
  <2>1. IdsOf(c) \subseteq Ids
    BY DEF IdsOf
  <2> QED BY <2>1, FS_Subset DEF TypeOK
<1>3. ASSUME NEW i \in Final(b, c) PROVE i \in Nat /\ i < run[b].nextId
  <2>1. CASE i \in IdsOf(c)
    BY <1>1, <1>2, <2>1 DEF OwnIds
  <2>2. CASE \E x \in Waiting(b) : i = x.id
    BY <1>1, <2>2 DEF OwnIds, Owed, Pending
  <2> QED BY <2>1, <2>2 DEF Final
<1>4. IsFiniteSet(Final(b, c))
  <2>1. IsFiniteSet(0..run[b].nextId)
    BY <1>1, FS_Interval
  <2>2. Final(b, c) \subseteq 0..run[b].nextId
    BY <1>1, <1>3
  <2> QED BY <2>1, <2>2, FS_Subset
<1> QED BY <1>2, <1>3, <1>4 DEF Final

LEMMA PlanKept ==
  ASSUME NEW b \in Builders, PlanInv(b), Waiting(b)' = Waiting(b),
         UNCHANGED <<chunks, chunkMessage, snapshot, listed>>,
         run'[b].rest = run[b].rest, run'[b].stale = run[b].stale
  PROVE  PlanInv(b)'
<1>1. Ids' = Ids /\ \A c : IdsOf(c)' = IdsOf(c) /\ Final(b, c)' = Final(b, c)
  BY DEF Ids, IdsOf, Final
<1>2. \A i, m : Holds(b, i, m)' <=> Holds(b, i, m)
  BY DEF Holds
<1>3. \A c : OnlyReactions(c)' <=> OnlyReactions(c)
  BY DEF OnlyReactions
<1>4. ASSUME NEW c, Planned(b, c) PROVE Planned(b, c)'
  BY <1>1, <1>2, <1>4 DEF Planned, Place
<1> QED BY <1>1, <1>3, <1>4 DEF PlanInv

LEMMA OpenPlan ==
  ASSUME TypeOK, NEW b \in Builders, Queued(b), Open(b)
  PROVE  PlanInv(b)'
<1>1. /\ run'[b].rest = listed /\ run'[b].stale = {i \in Ids : chunks[i].chat \notin listed}
      /\ run'[b].todo = {} /\ run'[b].buffer = << >> /\ run'[b].batch = << >>
      /\ UNCHANGED <<listed, chunks>>
  BY DEF Open, TypeOK, RunStates, Queued, Working, tables
<1>2. Waiting(b)' = {}
  BY <1>1 DEF Waiting, Rows
<1>3. Ids' = Ids
  BY <1>1 DEF Ids
<1> QED BY <1>1, <1>2, <1>3 DEF PlanInv, OnlyReactions

(* What a chunk will show after the next step.                             *)
HoldsNext(b, i, chunk) ==
  \/ \E x \in Waiting(b)' : x.id = i /\ DOMAIN x.body = chunk
  \/ (\A x \in Waiting(b)' : x.id # i) /\ chunkMessage'[i] = chunk

(* A batch transaction moves rows from the queue into the tables.          *)
LEMMA BatchMoves ==
  ASSUME TypeOK, TablesAgree, NEW b \in Builders, OwnIds(b), NEW n \in 1..Len(run[b].batch),
         WriteBatch(b, SubSeq(run[b].batch, 1, n))
  PROVE  \E w \in SUBSET Waiting(b) :
           /\ w = Rows(SubSeq(run[b].batch, 1, n))
           /\ run'[b].batch = SubSeq(run[b].batch, n + 1, Len(run[b].batch))
           /\ Waiting(b)' = Waiting(b) \ w
           /\ Ids' = Ids \cup RowIds(w)
           /\ \A x \in w : /\ chunks'[x.id] = [chat |-> x.chat, body |-> x.body]
                           /\ chunkMessage'[x.id] = DOMAIN x.body
           /\ \A i \in Ids \ RowIds(w) : chunks'[i] = chunks[i] /\ chunkMessage'[i] = chunkMessage[i]
           /\ run'[b].rest = run[b].rest /\ run'[b].stale = run[b].stale
           /\ run'[b].alone = run[b].alone /\ run'[b].limit = run[b].limit
           /\ run'[b].pc = run[b].pc /\ run'[b].after = run[b].after
           /\ run'[b].todo = run[b].todo /\ run'[b].buffer = run[b].buffer
           /\ run'[b].calibrated = run[b].calibrated
<1> DEFINE s == SubSeq(run[b].batch, 1, n)
           rest == SubSeq(run[b].batch, n + 1, Len(run[b].batch))
           w == Rows(s)
<1>1. /\ s \in Seq(Pending) /\ Len(s) = n /\ rest \in Seq(Pending)
      /\ run[b].buffer = << >> /\ Rows(run[b].batch) = w \cup Rows(rest)
      /\ DistinctIds(s) /\ \A x \in w, y \in Rows(rest) : x.id # y.id
      /\ ~Collides(s)
  BY SplitBatch
<1>2. run' = [run EXCEPT ![b].batch = SubSeq(@, Len(s) + 1, Len(@)), ![b].written = @ + Len(s)]
  BY <1>1 DEF WriteBatch, Advance
<1>3. /\ run'[b].batch = rest /\ run'[b].todo = run[b].todo /\ run'[b].buffer = run[b].buffer
      /\ run'[b].rest = run[b].rest /\ run'[b].stale = run[b].stale
      /\ run'[b].alone = run[b].alone /\ run'[b].limit = run[b].limit
      /\ run'[b].pc = run[b].pc /\ run'[b].after = run[b].after
      /\ run'[b].calibrated = run[b].calibrated
  <2>1. run[b] \in RunStates
    BY DEF TypeOK
  <2> HIDE DEF s
  <2> QED BY <1>1, <1>2, <2>1 DEF TypeOK, RunStates
<1>4. /\ chunks' = [i \in Ids \cup RowIds(w) |->
                      IF i \in RowIds(w) THEN [chat |-> RowOf(w, i).chat, body |-> RowOf(w, i).body]
                      ELSE chunks[i]]
      /\ chunkMessage' = [i \in Ids \cup RowIds(w) |->
                            IF i \in RowIds(w) THEN DOMAIN RowOf(w, i).body ELSE chunkMessage[i]]
  BY <1>1 DEF WriteBatch, Put, Ids, TablesAgree
<1>5. \A i \in RowIds(w) : RowOf(w, i) \in w /\ RowOf(w, i).id = i
  BY <1>1, RowsType
<1>6. w \in SUBSET Waiting(b)
  BY <1>1 DEF Waiting
<1>7. \A x \in w : x.id \in RowIds(w) /\ RowOf(w, x.id) = x
  BY <1>5, <1>6, WaitingIds DEF RowIds
<1>8. Waiting(b)' = Waiting(b) \ w
  <2>1. Waiting(b)' = run[b].todo \cup Rows(run[b].buffer) \cup Rows(rest)
    BY <1>3 DEF Waiting, Rows
  <2>2. Rows(run[b].buffer) = {}
    BY <1>1 DEF Rows
  <2>3. \A x \in run[b].todo : x \notin w
    BY <1>1 DEF OwnIds
  <2>4. \A x \in Rows(rest) : x \notin w
    BY <1>1
  <2> HIDE DEF w, rest
  <2> QED BY <1>1, <2>1, <2>2, <2>3, <2>4 DEF Waiting
<1>8a. /\ w = Rows(SubSeq(run[b].batch, 1, n))
       /\ run'[b].batch = SubSeq(run[b].batch, n + 1, Len(run[b].batch))
  BY <1>3
<1> HIDE DEF w, s, rest
<1>9. Ids' = Ids \cup RowIds(w)
  BY <1>4 DEF Ids
<1>10. \A x \in w : /\ chunks'[x.id] = [chat |-> x.chat, body |-> x.body]
                    /\ chunkMessage'[x.id] = DOMAIN x.body
  BY <1>4, <1>7
<1>11. \A i \in Ids \ RowIds(w) : chunks'[i] = chunks[i] /\ chunkMessage'[i] = chunkMessage[i]
  BY <1>4
<1> QED BY <1>3, <1>6, <1>8, <1>9, <1>10, <1>11, <1>8a

(* Writing rows of the plan leaves the plan as it is.                      *)
LEMMA WritePlan ==
  ASSUME TypeOK, TablesAgree, NEW b \in Builders, OwnIds(b), PlanInv(b),
         NEW n \in 1..Len(run[b].batch), WriteBatch(b, SubSeq(run[b].batch, 1, n)),
         UNCHANGED <<snapshot, listed>>
  PROVE  PlanInv(b)'
<1>1. PICK w \in SUBSET Waiting(b) :
        /\ Waiting(b)' = Waiting(b) \ w
        /\ Ids' = Ids \cup RowIds(w)
        /\ \A x \in w : /\ chunks'[x.id] = [chat |-> x.chat, body |-> x.body]
                        /\ chunkMessage'[x.id] = DOMAIN x.body
        /\ \A i \in Ids \ RowIds(w) : chunks'[i] = chunks[i] /\ chunkMessage'[i] = chunkMessage[i]
        /\ run'[b].rest = run[b].rest /\ run'[b].stale = run[b].stale
  BY BatchMoves
<1>2. \A x \in Waiting(b), y \in Waiting(b) : x.id = y.id => x = y
  BY WaitingIds
<1>3. \A x \in Waiting(b) : /\ x.isNew <=> x.id \notin Ids
                            /\ ~x.isNew => chunks[x.id].chat = x.chat
                            /\ x.chat \notin run[b].rest
  BY DEF OwnIds, Owed
<1>3a. \A x \in w : chunks'[x.id].chat = x.chat /\ x.id \in RowIds(w) /\ x \in Waiting(b)
  <2> SUFFICES ASSUME NEW x \in w
               PROVE  chunks'[x.id].chat = x.chat /\ x.id \in RowIds(w) /\ x \in Waiting(b)
    OBVIOUS
  <2>1. chunks'[x.id] = [chat |-> x.chat, body |-> x.body]
    BY <1>1
  <2>2. chunks'[x.id].chat = x.chat
    BY <2>1
  <2> QED BY <2>2 DEF RowIds
<1>4. ASSUME NEW i \in Ids PROVE i \in Ids' /\ chunks'[i].chat = chunks[i].chat
  <2>1. CASE i \in RowIds(w)
    <3>1. PICK x \in w : x.id = i
      BY <2>1 DEF RowIds
    <3>2. chunks[i].chat = x.chat
      BY <1>3, <1>4, <3>1
    <3> QED BY <1>1, <1>3a, <3>1, <3>2
  <2>2. CASE i \notin RowIds(w)
    BY <1>1, <2>2
  <2> QED BY <2>1, <2>2
<1>5. ASSUME NEW i \in Ids' \ Ids PROVE \E x \in w : x.id = i /\ chunks'[i].chat = x.chat
  <2>1. PICK x \in w : x.id = i
    BY <1>1, <1>5 DEF RowIds
  <2> QED BY <1>3a, <2>1
<1>6. \A c : OnlyReactions(c)' <=> OnlyReactions(c)
  BY DEF OnlyReactions
<1>7. ASSUME NEW c PROVE Final(b, c)' = Final(b, c) /\ IdsOf(c) \subseteq IdsOf(c)'
  <2>1. ASSUME NEW i \in Final(b, c)' PROVE i \in Final(b, c)
    <3>1. CASE i \in IdsOf(c)'
      <4>1. i \in Ids' /\ chunks'[i].chat = c
        BY <3>1 DEF IdsOf
      <4>2. CASE i \in Ids
        BY <1>4, <4>1, <4>2 DEF Final, IdsOf
      <4>3. CASE i \notin Ids
        BY <1>5, <4>1, <4>3 DEF Final
      <4> QED BY <4>2, <4>3
    <3>2. CASE i \notin IdsOf(c)'
      BY <1>1, <2>1, <3>2 DEF Final
    <3> QED BY <3>1, <3>2
  <2>2. ASSUME NEW i \in IdsOf(c) PROVE i \in IdsOf(c)'
    BY <1>4, <2>2 DEF IdsOf
  <2>3. ASSUME NEW x \in Waiting(b), x.chat = c PROVE x.id \in Final(b, c)'
    <3>1. CASE x \in w
      <4>1. x.id \in Ids' /\ chunks'[x.id].chat = c
        BY <1>1, <1>3a, <2>3, <3>1
      <4> QED BY <4>1 DEF Final, IdsOf
    <3>2. CASE x \notin w
      BY <1>1, <2>3, <3>2 DEF Final
    <3> QED BY <3>1, <3>2
  <2>4. Final(b, c) \subseteq Final(b, c)'
    BY <2>2, <2>3 DEF Final
  <2> QED BY <2>1, <2>2, <2>4
<1>8. ASSUME NEW c, NEW i \in Final(b, c), NEW chunk, Holds(b, i, chunk) PROVE Holds(b, i, chunk)'
  <2>1. CASE \E x \in w : x.id = i
    <3>1. PICK x \in w : x.id = i
      BY <2>1
    <3>2. DOMAIN x.body = chunk
      BY <1>2, <1>8, <3>1 DEF Holds
    <3>3. \A y \in Waiting(b)' : y.id # i
      BY <1>1, <1>2, <3>1
    <3> QED BY <1>1, <3>1, <3>2, <3>3 DEF Holds
  <2>2. CASE \A x \in w : x.id # i
    <3>1. CASE \E x \in Waiting(b) : x.id = i /\ DOMAIN x.body = chunk
      BY <1>1, <2>2, <3>1 DEF Holds
    <3>2. CASE (\A x \in Waiting(b) : x.id # i) /\ chunkMessage[i] = chunk
      <4>1. i \in Ids \ RowIds(w)
        BY <2>2, <3>2 DEF Final, IdsOf, RowIds
      <4> QED BY <1>1, <3>2, <4>1 DEF Holds
    <3> QED BY <1>8, <3>1, <3>2 DEF Holds
  <2> QED BY <2>1, <2>2
<1>9. ASSUME NEW c \in Chats, Planned(b, c) PROVE Planned(b, c)'
  <2> DEFINE fresh == ChunkList[snapshot[c]]
             final == Final(b, c)
  <2>1. /\ Len(fresh) <= Cardinality(final)
        /\ Cardinality(final) = Len(fresh) \/ final = IdsOf(c)
        /\ \A i \in final : IF Place(final, i) <= Len(fresh)
                            THEN i \notin run[b].stale /\ Holds(b, i, fresh[Place(final, i)])
                            ELSE i \in run[b].stale
    BY <1>9 DEF Planned
  <2>2. fresh' = fresh /\ Final(b, c)' = final
    BY <1>7
  <2>3. Cardinality(final) = Len(fresh) \/ final = IdsOf(c)'
    <3>1. IdsOf(c) \subseteq IdsOf(c)' /\ IdsOf(c)' \subseteq Final(b, c)'
      BY <1>7 DEF Final
    <3> QED BY <2>1, <2>2, <3>1
  <2>4. \A i \in final : IF Place(final, i) <= Len(fresh)
                         THEN i \notin run'[b].stale /\ HoldsNext(b, i, fresh[Place(final, i)])
                         ELSE i \in run'[b].stale
    <3>1. \A i \in final : \A chunk : Holds(b, i, chunk) => HoldsNext(b, i, chunk)
      BY <1>8 DEF Holds, HoldsNext
    <3> QED BY <1>1, <2>1, <3>1
  <2> QED BY <2>1, <2>2, <2>3, <2>4 DEF Planned, Place, Holds, HoldsNext
<1>10. \A x \in Waiting(b)' : /\ x.chat \in listed' /\ ~OnlyReactions(x.chat)'
                              /\ ~x.isNew => chunkMessage'[x.id] # DOMAIN x.body
  <2> SUFFICES ASSUME NEW x \in Waiting(b), x \notin w
               PROVE  /\ x.chat \in listed' /\ ~OnlyReactions(x.chat)'
                      /\ ~x.isNew => chunkMessage'[x.id] # DOMAIN x.body
    BY <1>1
  <2>1. x.id \notin RowIds(w)
    BY <1>2 DEF RowIds
  <2> QED BY <1>1, <1>3, <1>6, <2>1 DEF PlanInv
<1>11. \A i \in Ids' : chunks'[i].chat \notin listed' => i \in run'[b].stale
  <2> SUFFICES ASSUME NEW i \in Ids', chunks'[i].chat \notin listed PROVE i \in run[b].stale
    BY <1>1
  <2>1. i \in Ids
    BY <1>5 DEF PlanInv
  <2> QED BY <1>4, <2>1 DEF PlanInv
<1>12. \A i \in run'[b].stale : /\ i \in Ids'
                                /\ chunks'[i].chat \notin run'[b].rest
                                /\ ~(chunks'[i].chat \in listed
                                     /\ DOMAIN snapshot[chunks'[i].chat] = {})
  <2> SUFFICES ASSUME NEW i \in run[b].stale
               PROVE  /\ i \in Ids' /\ chunks'[i].chat \notin run[b].rest
                      /\ ~(chunks'[i].chat \in listed /\ DOMAIN snapshot[chunks'[i].chat] = {})
    BY <1>1
  <2>1. i \in Ids' /\ chunks'[i].chat = chunks[i].chat
    BY <1>4 DEF PlanInv
  <2>2. chunks[i].chat \notin run[b].rest /\ ~OnlyReactions(chunks[i].chat)
    BY DEF PlanInv
  <2> QED BY <2>1, <2>2 DEF OnlyReactions
<1>13. \A c \in listed' \ run'[b].rest : OnlyReactions(c)' \/ Planned(b, c)'
  BY <1>1, <1>6, <1>9 DEF PlanInv, TypeOK
<1>14. run'[b].rest \subseteq listed'
  BY <1>1 DEF PlanInv
<1>15. \A i \in run'[b].stale : (~OnlyReactions(chunks[i].chat))'
  BY <1>12 DEF OnlyReactions
<1> QED BY <1>10, <1>11, <1>12, <1>13, <1>14, <1>15 DEF PlanInv

(* The rows a visited conversation puts into the queue.                    *)
LEMMA RewriteRows ==
  ASSUME TypeOK, NEW c \in Chats
  PROVE  LET fresh == ChunkList[snapshot[c]]
         IN /\ \A x \in Rewrites(c, snapshot[c]) :
                 /\ x.id \in IdsOf(c) /\ Rank(x.id) \in 1..Len(fresh)
                 /\ chunkMessage[x.id] # fresh[Rank(x.id)]
                 /\ ~x.isNew /\ x.chat = c /\ DOMAIN x.body = fresh[Rank(x.id)]
            /\ \A i \in IdsOf(c) :
                 Rank(i) <= Len(fresh) /\ chunkMessage[i] # fresh[Rank(i)] =>
                   \E x \in Rewrites(c, snapshot[c]) : x.id = i
<1> DEFINE k == snapshot[c]
           fresh == ChunkList[k]
           row(i) == [id |-> i, chat |-> c, pos |-> Rank(i), body |-> Body(k, fresh[Rank(i)]),
                      isNew |-> FALSE]
           D == {j \in IdsOf(c) : Rank(j) <= Len(fresh) /\ chunkMessage[j] # fresh[Rank(j)]}
<1>1. Rewrites(c, snapshot[c]) = {row(i) : i \in D}
  BY DEF Rewrites
<1>2. k \in Contents /\ Len(fresh) \in Nat
  BY ChunkListAssumption DEF TypeOK
<1>3. ASSUME NEW i \in D
      PROVE  /\ Rank(i) \in 1..Len(fresh)
             /\ DOMAIN Body(k, fresh[Rank(i)]) = fresh[Rank(i)]
  <2>1. Rank(i) \in 1..Len(fresh)
    BY <1>2, RankIsNat DEF IdsOf, TypeOK
  <2>2. fresh[Rank(i)] \in SUBSET DOMAIN k
    BY <1>2, <2>1, ChunkOfList
  <2> QED BY <1>2, <2>1, <2>2, BodyIsContent
<1>4. \A i : /\ row(i).id = i /\ row(i).chat = c /\ row(i).isNew = FALSE
             /\ row(i).body = Body(k, fresh[Rank(i)])
  OBVIOUS
<1> HIDE DEF row
<1>5. ASSUME NEW x \in Rewrites(c, k)
      PROVE  /\ x.id \in IdsOf(c) /\ Rank(x.id) \in 1..Len(fresh)
             /\ chunkMessage[x.id] # fresh[Rank(x.id)]
             /\ ~x.isNew /\ x.chat = c /\ DOMAIN x.body = fresh[Rank(x.id)]
  <2>1. PICK i \in D : x = row(i)
    BY <1>1
  <2>2. x.id = i /\ x.chat = c /\ x.isNew = FALSE /\ x.body = Body(k, fresh[Rank(i)])
    BY <1>4, <2>1
  <2>3. i \in IdsOf(c) /\ chunkMessage[i] # fresh[Rank(i)]
    BY <2>1
  <2> HIDE DEF D, fresh
  <2> QED BY <1>3, <2>1, <2>2, <2>3
<1>6. ASSUME NEW i \in D PROVE \E x \in Rewrites(c, k) : x.id = i
  BY <1>1, <1>4
<1> QED BY <1>5, <1>6

LEMMA AdditionRows ==
  ASSUME TypeOK, NEW c \in Chats, IsFiniteSet(IdsOf(c)), NEW nextId \in Nat \ {0}
  PROVE  LET fresh == ChunkList[snapshot[c]]
             n == Cardinality(IdsOf(c))
         IN /\ \A x \in Additions(c, snapshot[c], nextId) :
                 /\ x.isNew /\ x.chat = c /\ x.id >= nextId
                 /\ \E p \in (n + 1)..Len(fresh) :
                      x.id = nextId + (p - n - 1) /\ DOMAIN x.body = fresh[p]
            /\ \A p \in (n + 1)..Len(fresh) :
                 \E x \in Additions(c, snapshot[c], nextId) :
                   x.id = nextId + (p - n - 1) /\ DOMAIN x.body = fresh[p]
<1> DEFINE k == snapshot[c]
           fresh == ChunkList[k]
           n == Cardinality(IdsOf(c))
           D == (n + 1)..Len(fresh)
           row(p) == [id |-> nextId + (p - n - 1), chat |-> c, pos |-> p,
                      body |-> Body(k, fresh[p]), isNew |-> TRUE]
<1>1. Additions(c, snapshot[c], nextId) = {row(p) : p \in D}
  BY DEF Additions
<1>2. k \in Contents /\ Len(fresh) \in Nat /\ n \in Nat
  BY ChunkListAssumption, FS_CardinalityType DEF TypeOK
<1>3. ASSUME NEW p \in D
      PROVE  DOMAIN Body(k, fresh[p]) = fresh[p] /\ nextId + (p - n - 1) >= nextId
  <2>1. p \in 1..Len(fresh) /\ nextId + (p - n - 1) >= nextId
    BY <1>2
  <2>2. fresh[p] \in SUBSET DOMAIN k
    BY <1>2, <2>1, ChunkOfList
  <2> QED BY <1>2, <2>1, <2>2, BodyIsContent
<1>4. \A p : /\ row(p).id = nextId + (p - n - 1) /\ row(p).chat = c /\ row(p).isNew = TRUE
             /\ row(p).body = Body(k, fresh[p])
  OBVIOUS
<1> HIDE DEF row, D
<1>5. ASSUME NEW x \in Additions(c, k, nextId)
      PROVE  /\ x.isNew /\ x.chat = c /\ x.id >= nextId
             /\ \E p \in D : x.id = nextId + (p - n - 1) /\ DOMAIN x.body = fresh[p]
  <2>1. PICK p \in D : x = row(p)
    BY <1>1
  <2>2. /\ x.id = nextId + (p - n - 1) /\ x.chat = c /\ x.isNew = TRUE
        /\ x.body = Body(k, fresh[p])
    BY <1>4, <2>1
  <2> QED BY <1>3, <2>2
<1>6. ASSUME NEW p \in D
      PROVE  \E x \in Additions(c, k, nextId) :
               x.id = nextId + (p - n - 1) /\ DOMAIN x.body = fresh[p]
  <2>1. row(p) \in Additions(c, k, nextId)
    BY <1>1
  <2>2. row(p).id = nextId + (p - n - 1) /\ DOMAIN row(p).body = fresh[p]
    BY <1>3, <1>4
  <2> QED BY <2>1, <2>2
<1> QED BY <1>5, <1>6 DEF D

(* Visiting a conversation changes the builder alone: it is skipped, or    *)
(* its rows join the queue and its orphans the stale chunks.               *)
Visits(b, c) ==
  /\ UNCHANGED <<snapshot, listed, tables>>
  /\ c \in run[b].rest /\ c \in Chats /\ run'[b].rest = run[b].rest \ {c}
  /\ \/ /\ DOMAIN snapshot[c] = {}
        /\ Waiting(b)' = Waiting(b) /\ run'[b].stale = run[b].stale
        /\ run'[b].todo = {}
     \/ /\ DOMAIN snapshot[c] # {}
        /\ run'[b].todo = Rewrites(c, snapshot[c]) \cup Additions(c, snapshot[c], run[b].nextId)
        /\ Waiting(b)' = Waiting(b) \cup Rewrites(c, snapshot[c])
                                    \cup Additions(c, snapshot[c], run[b].nextId)
        /\ run'[b].stale = run[b].stale \cup Orphans(c, snapshot[c])

LEMMA DiffVisits ==
  ASSUME TypeOK, NEW b \in Builders, Diff(b)
  PROVE  /\ \E c \in run[b].rest : Visits(b, c)
         /\ run'[b].pc = "scan" /\ run'[b].batch = run[b].batch
         /\ run'[b].buffer = run[b].buffer /\ run'[b].calibrated = run[b].calibrated
         /\ run'[b].after = run[b].after /\ run'[b].limit = run[b].limit
         /\ run'[b].alone = run[b].alone /\ run[b].pc = "scan"
<1>1. PICK c \in run[b].rest :
        IF DOMAIN snapshot[c] = {}
        THEN run' = [run EXCEPT ![b].rest = @ \ {c}]
        ELSE run' = [run EXCEPT ![b].rest = @ \ {c},
                                ![b].todo = Rewrites(c, snapshot[c]) \cup Additions(c, snapshot[c], run[b].nextId),
                                ![b].nextId = @ + Cardinality(Additions(c, snapshot[c], run[b].nextId)),
                                ![b].stale = @ \cup Orphans(c, snapshot[c])]
  BY DEF Diff
<1>2. /\ run[b] \in RunStates /\ run \in [Builders -> RunStates] /\ run[b].todo = {}
      /\ UNCHANGED <<snapshot, listed, tables>> /\ run[b].pc = "scan"
  BY DEF Diff, TypeOK
<1>3. c \in Chats
  BY <1>2 DEF RunStates
<1> DEFINE todo == Rewrites(c, snapshot[c]) \cup Additions(c, snapshot[c], run[b].nextId)
           stale == run[b].stale \cup Orphans(c, snapshot[c])
           more == run[b].nextId + Cardinality(Additions(c, snapshot[c], run[b].nextId))
<1>4. CASE DOMAIN snapshot[c] = {}
  <2>1. run' = [run EXCEPT ![b] = [run[b] EXCEPT !.rest = @ \ {c}]]
    BY <1>1, <1>4
  <2>2. /\ run'[b].rest = run[b].rest \ {c} /\ run'[b].todo = run[b].todo
        /\ run'[b].batch = run[b].batch /\ run'[b].buffer = run[b].buffer
        /\ run'[b].stale = run[b].stale /\ run'[b].pc = run[b].pc
        /\ run'[b].calibrated = run[b].calibrated /\ run'[b].after = run[b].after
        /\ run'[b].limit = run[b].limit /\ run'[b].alone = run[b].alone
    BY ONLY <1>2, <2>1, b \in Builders DEF RunStates
  <2>3. Waiting(b)' = Waiting(b)
    BY <2>2 DEF Waiting, Rows
  <2> QED BY <1>2, <1>3, <1>4, <2>2, <2>3 DEF Visits
<1>5. CASE DOMAIN snapshot[c] # {}
  <2>1. run' = [run EXCEPT ![b] = [run[b] EXCEPT !.rest = @ \ {c}, !.todo = todo,
                                                 !.nextId = more, !.stale = stale]]
    BY <1>1, <1>5
  <2> HIDE DEF todo, stale, more
  <2>2. /\ run'[b].rest = run[b].rest \ {c} /\ run'[b].todo = todo
        /\ run'[b].batch = run[b].batch /\ run'[b].buffer = run[b].buffer
        /\ run'[b].stale = stale /\ run'[b].pc = run[b].pc
        /\ run'[b].calibrated = run[b].calibrated /\ run'[b].after = run[b].after
        /\ run'[b].limit = run[b].limit /\ run'[b].alone = run[b].alone
    BY ONLY <1>2, <2>1, b \in Builders DEF RunStates
  <2>3. Waiting(b)' = Waiting(b) \cup todo
    BY <1>2, <2>2 DEF Waiting, Rows
  <2> QED BY <1>2, <1>3, <1>5, <2>2, <2>3 DEF Visits, todo, stale
<1> QED BY <1>4, <1>5

(* A skipped conversation changes no plan.                                 *)
LEMMA SkipPlan ==
  ASSUME TypeOK, NEW b \in Builders, PlanInv(b), NEW c, Visits(b, c), DOMAIN snapshot[c] = {}
  PROVE  PlanInv(b)'
<1>1. /\ UNCHANGED <<snapshot, listed, chunks, chunkMessage>>
      /\ c \in run[b].rest /\ run'[b].rest = run[b].rest \ {c}
      /\ Waiting(b)' = Waiting(b) /\ run'[b].stale = run[b].stale
  BY DEF Visits, tables
<1>2. Ids' = Ids /\ \A d : IdsOf(d)' = IdsOf(d) /\ Final(b, d)' = Final(b, d)
  BY <1>1 DEF Ids, IdsOf, Final
<1>3. \A i, m : Holds(b, i, m)' <=> Holds(b, i, m)
  BY <1>1 DEF Holds
<1>4. \A d : OnlyReactions(d)' <=> OnlyReactions(d)
  BY <1>1 DEF OnlyReactions
<1>5. ASSUME NEW d, Planned(b, d) PROVE Planned(b, d)'
  BY <1>1, <1>2, <1>3, <1>5 DEF Planned, Place
<1>6. OnlyReactions(c)
  BY <1>1 DEF OnlyReactions, PlanInv
<1> QED BY <1>1, <1>2, <1>4, <1>5, <1>6 DEF PlanInv

(* What a visit to c leaves alone: the ids and rows of other chats.        *)
LEMMA VisitRows ==
  ASSUME TypeOK, NEW b \in Builders, OwnIds(b), PlanInv(b), NEW c, Visits(b, c)
  PROVE  /\ \A x \in Waiting(b) : x.chat # c /\ x.id \notin IdsOf(c) /\ x.id < run[b].nextId
         /\ \A x \in Waiting(b)' \ Waiting(b) :
              x.chat = c /\ (x.id \in IdsOf(c) \/ x.id >= run[b].nextId)
         /\ Waiting(b) \subseteq Waiting(b)'
         /\ run'[b].stale \ run[b].stale \subseteq IdsOf(c)
         /\ run[b].stale \subseteq run'[b].stale
         /\ run[b].nextId \in Nat \ {0} /\ IsFiniteSet(IdsOf(c)) /\ c \in Chats
<1>1. c \in run[b].rest /\ c \in Chats
  BY DEF Visits
<1>2. run[b].nextId \in Nat \ {0} /\ IsFiniteSet(IdsOf(c))
  BY FinalIds DEF TypeOK, RunStates
<1>3. \A x \in Waiting(b) : x.chat # c /\ x.id \notin IdsOf(c) /\ x.id < run[b].nextId
  BY <1>1 DEF OwnIds, Owed, IdsOf
<1>4. \A x \in Waiting(b)' \ Waiting(b) :
        x.chat = c /\ (x.id \in IdsOf(c) \/ x.id >= run[b].nextId)
  BY <1>1, <1>2, RewriteRows, AdditionRows DEF Visits
<1> QED BY <1>1, <1>2, <1>3, <1>4 DEF Visits, Orphans

(* A visit leaves the plans of other conversations alone.                  *)
LEMMA VisitOthers ==
  ASSUME TypeOK, NEW b \in Builders, OwnIds(b), PlanInv(b), NEW c, Visits(b, c),
         NEW d, d # c, Planned(b, d)
  PROVE  Planned(b, d)'
<1>1. UNCHANGED <<snapshot, chunks, chunkMessage>>
  BY DEF Visits, tables
<1>2. /\ \A x \in Waiting(b) : x.chat # c /\ x.id \notin IdsOf(c) /\ x.id < run[b].nextId
      /\ \A x \in Waiting(b)' \ Waiting(b) :
           x.chat = c /\ (x.id \in IdsOf(c) \/ x.id >= run[b].nextId)
      /\ Waiting(b) \subseteq Waiting(b)'
      /\ run'[b].stale \ run[b].stale \subseteq IdsOf(c)
      /\ run[b].stale \subseteq run'[b].stale
      /\ run[b].nextId \in Nat
  BY VisitRows
<1>3. IdsOf(d)' = IdsOf(d) /\ Final(b, d)' = Final(b, d)
  BY <1>1, <1>2 DEF Ids, IdsOf, Final
<1>4. ASSUME NEW i \in Final(b, d)
      PROVE  /\ i \notin IdsOf(c) /\ \A x \in Waiting(b)' \ Waiting(b) : x.id # i
  <2>1. i \in Nat /\ i < run[b].nextId
    BY FinalIds
  <2>2. i \notin IdsOf(c)
    BY <1>2 DEF Final, IdsOf
  <2> QED BY <1>2, <2>1, <2>2
<1>5. ASSUME NEW i \in Final(b, d), NEW chunk, Holds(b, i, chunk) PROVE HoldsNext(b, i, chunk)
  BY <1>1, <1>2, <1>4, <1>5 DEF Holds, HoldsNext
<1>6. \A i \in Final(b, d) : i \in run'[b].stale <=> i \in run[b].stale
  BY <1>2, <1>4
<1> DEFINE fresh == ChunkList[snapshot[d]]
           final == Final(b, d)
<1>7. /\ Len(fresh) <= Cardinality(final)
      /\ Cardinality(final) = Len(fresh) \/ final = IdsOf(d)
      /\ \A i \in final : IF Place(final, i) <= Len(fresh)
                          THEN i \notin run[b].stale /\ Holds(b, i, fresh[Place(final, i)])
                          ELSE i \in run[b].stale
  BY DEF Planned
<1>8. \A i \in final : IF Place(final, i) <= Len(fresh)
                       THEN i \notin run'[b].stale /\ HoldsNext(b, i, fresh[Place(final, i)])
                       ELSE i \in run'[b].stale
  BY <1>5, <1>6, <1>7
<1>9. fresh' = fresh /\ final' = final /\ IdsOf(d)' = IdsOf(d)
  BY <1>1, <1>3
<1> QED BY <1>7, <1>8, <1>9 DEF Planned, Place, Holds, HoldsNext

(* A visit plans the conversation: positions that exist keep their ids,    *)
(* further ones get ids past all others, what is too much is stale.        *)
LEMMA VisitPlans ==
  ASSUME TypeOK, NEW b \in Builders, OwnIds(b), PlanInv(b), NEW c, Visits(b, c),
         DOMAIN snapshot[c] # {}
  PROVE  Planned(b, c)'
<1>1. /\ UNCHANGED <<snapshot, listed, chunks, chunkMessage>> /\ c \in run[b].rest
      /\ Waiting(b)' = Waiting(b) \cup Rewrites(c, snapshot[c])
                                  \cup Additions(c, snapshot[c], run[b].nextId)
      /\ run'[b].stale = run[b].stale \cup Orphans(c, snapshot[c])
  BY DEF Visits, tables
<1>2. /\ \A x \in Waiting(b) : x.chat # c /\ x.id \notin IdsOf(c) /\ x.id < run[b].nextId
      /\ run[b].nextId \in Nat \ {0} /\ IsFiniteSet(IdsOf(c)) /\ c \in Chats
  BY VisitRows
<1> DEFINE m == run[b].nextId
           fresh == ChunkList[snapshot[c]]
           S == IdsOf(c)
           n == Cardinality(S)
           new == Beyond(S, m, Len(fresh))
           F == S \cup new
           rewrites == Rewrites(c, snapshot[c])
           additions == Additions(c, snapshot[c], m)
<1>3. /\ S \in SUBSET Nat /\ S \subseteq Ids /\ \A i \in S : i < m
  BY FinalIds DEF OwnIds, TypeOK
<1>4. Len(fresh) \in Nat
  BY <1>2, ChunkListAssumption DEF TypeOK
<1>5. /\ \A x \in rewrites :
           /\ x.id \in S /\ Rank(x.id) \in 1..Len(fresh)
           /\ ~x.isNew /\ x.chat = c /\ DOMAIN x.body = fresh[Rank(x.id)]
      /\ \A i \in S : Rank(i) <= Len(fresh) /\ chunkMessage[i] # fresh[Rank(i)] =>
           \E x \in rewrites : x.id = i
  BY <1>2, RewriteRows
<1>6. /\ \A x \in additions :
           /\ x.isNew /\ x.chat = c /\ x.id >= m
           /\ \E p \in (n + 1)..Len(fresh) :
                x.id = m + (p - n - 1) /\ DOMAIN x.body = fresh[p]
      /\ \A p \in (n + 1)..Len(fresh) :
           \E x \in additions : x.id = m + (p - n - 1) /\ DOMAIN x.body = fresh[p]
  <2>1. \A k \in Nat \ {0} : m = k =>
          /\ \A x \in additions :
               /\ x.isNew /\ x.chat = c /\ x.id >= k
               /\ \E p \in (n + 1)..Len(fresh) :
                    x.id = k + (p - n - 1) /\ DOMAIN x.body = fresh[p]
          /\ \A p \in (n + 1)..Len(fresh) :
               \E x \in additions : x.id = k + (p - n - 1) /\ DOMAIN x.body = fresh[p]
    <3> TAKE k \in Nat \ {0}
    <3> HAVE m = k
    <3>1. /\ \A x \in Additions(c, snapshot[c], k) :
               /\ x.isNew /\ x.chat = c /\ x.id >= k
               /\ \E p \in (n + 1)..Len(fresh) :
                    x.id = k + (p - n - 1) /\ DOMAIN x.body = fresh[p]
          /\ \A p \in (n + 1)..Len(fresh) :
               \E x \in Additions(c, snapshot[c], k) :
                 x.id = k + (p - n - 1) /\ DOMAIN x.body = fresh[p]
      BY <1>2, AdditionRows
    <3>2. Additions(c, snapshot[c], k) = additions
      OBVIOUS
    <3> HIDE DEF m, n, fresh, additions
    <3> QED BY <3>1, <3>2
  <2> HIDE DEF n, fresh, additions
  <2> QED BY <1>2, <2>1
<1>7. /\ \A i \in S : Place(F, i) = Place(S, i)
      /\ \A p \in (n + 1)..Len(fresh) : Place(F, m + (p - n - 1)) = p
      /\ Len(fresh) <= Cardinality(F)
      /\ Cardinality(F) = Len(fresh) \/ F = S
  BY <1>2, <1>3, <1>4, PlacesBeyond
<1>8. \A i \in S : Place(S, i) = Rank(i)
  BY DEF Place, Rank, IdsOf
<1> HIDE DEF m, fresh, n, new, F, rewrites, additions
<1>9. Waiting(b)' = Waiting(b) \cup rewrites \cup additions
  BY <1>1 DEF rewrites, additions, m
<1>10. IdsOf(c)' = S
  BY <1>1 DEF IdsOf, Ids
<1>11. Final(b, c)' = F
  <2>1. \A x \in additions : x.id \in new
    BY <1>6 DEF new, n, Beyond
  <2>2. \A i \in new : \E x \in additions : x.id = i
    BY <1>6 DEF new, n, Beyond
  <2>3. Final(b, c)' = S \cup {x.id : x \in {y \in Waiting(b)' : y.chat = c}}
    BY <1>10 DEF Final
  <2>4. Final(b, c)' \subseteq F
    BY <1>2, <1>5, <1>9, <2>1, <2>3 DEF F
  <2>5. F \subseteq Final(b, c)'
    BY <1>6, <1>9, <2>2, <2>3 DEF F
  <2> QED BY <2>4, <2>5
<1>12. \A i \in S : (i \in run'[b].stale) <=> ~(Rank(i) <= Len(fresh))
  <2>1. \A i \in S : i \notin run[b].stale
    BY <1>1 DEF PlanInv, IdsOf
  <2>2. \A i \in S : Rank(i) \in Nat
    BY <1>3, RankIsNat DEF TypeOK
  <2>3. \A i \in S : i \in Orphans(c, snapshot[c]) <=> Rank(i) > Len(fresh)
    BY DEF Orphans, fresh
  <2> QED BY <1>1, <1>4, <2>1, <2>2, <2>3
<1>13. ASSUME NEW i \in S, Rank(i) <= Len(fresh) PROVE HoldsNext(b, i, fresh[Rank(i)])
  <2>1. CASE \E x \in rewrites : x.id = i
    BY <1>5, <1>9, <2>1 DEF HoldsNext
  <2>2. CASE ~\E x \in rewrites : x.id = i
    <3>1. chunkMessage'[i] = fresh[Rank(i)]
      BY <1>1, <1>5, <1>13, <2>2
    <3>2. \A x \in additions : x.id # i
      <4>1. i < m /\ i \in Nat /\ m \in Nat
        BY <1>2, <1>3 DEF m
      <4> QED BY <1>6, <4>1
    <3>3. \A x \in Waiting(b)' : x.id # i
      BY <1>2, <1>9, <2>2, <3>2
    <3> QED BY <3>1, <3>3 DEF HoldsNext
  <2> QED BY <2>1, <2>2
<1>14. ASSUME NEW i \in new
       PROVE  Place(F, i) <= Len(fresh) /\ i \notin run'[b].stale
              /\ HoldsNext(b, i, fresh[Place(F, i)])
  <2>1. PICK p \in (n + 1)..Len(fresh) : i = m + (p - n - 1)
    BY DEF new, n, Beyond
  <2>2. Place(F, i) = p /\ p <= Len(fresh)
    BY <1>4, <1>7, <2>1
  <2>3. PICK x \in additions : x.id = i /\ DOMAIN x.body = fresh[p]
    BY <1>6, <2>1
  <2>4. i \notin Ids
    <3>1. i >= m
      BY <1>6, <2>3
    <3>2. m \in Nat /\ \A j \in Ids : j \in Nat /\ j < m
      BY <1>2 DEF OwnIds, m, TypeOK
    <3> QED BY ONLY <3>1, <3>2
  <2>5. i \notin run'[b].stale
    BY <1>1, <2>4 DEF PlanInv, Orphans, IdsOf
  <2>6. HoldsNext(b, i, fresh[p])
    BY <1>9, <2>3 DEF HoldsNext
  <2> QED BY <2>2, <2>5, <2>6
<1>15. \A i \in F : IF Place(F, i) <= Len(fresh)
                    THEN i \notin run'[b].stale /\ HoldsNext(b, i, fresh[Place(F, i)])
                    ELSE i \in run'[b].stale
  <2> SUFFICES ASSUME NEW i \in F
               PROVE  IF Place(F, i) <= Len(fresh)
                      THEN i \notin run'[b].stale /\ HoldsNext(b, i, fresh[Place(F, i)])
                      ELSE i \in run'[b].stale
    OBVIOUS
  <2>1. CASE i \in S
    <3>1. Place(F, i) = Rank(i)
      BY <1>7, <1>8, <2>1
    <3> QED BY <1>12, <1>13, <2>1, <3>1
  <2>2. CASE i \in new
    BY <1>14, <2>2
  <2> QED BY <2>1, <2>2 DEF F
<1>16. ChunkList[snapshot[c]]' = fresh
  BY <1>1 DEF fresh
<1> QED BY <1>7, <1>10, <1>11, <1>15, <1>16 DEF Planned, Place, Holds, HoldsNext

LEMMA VisitPlan ==
  ASSUME TypeOK, NEW b \in Builders, OwnIds(b), PlanInv(b), NEW c, Visits(b, c)
  PROVE  PlanInv(b)'
<1>1. CASE DOMAIN snapshot[c] = {}
  BY <1>1, SkipPlan
<1>2. CASE DOMAIN snapshot[c] # {}
  <2>1. /\ UNCHANGED <<snapshot, listed, chunks, chunkMessage>>
        /\ c \in run[b].rest /\ run'[b].rest = run[b].rest \ {c}
        /\ Waiting(b)' = Waiting(b) \cup Rewrites(c, snapshot[c])
                                    \cup Additions(c, snapshot[c], run[b].nextId)
        /\ run'[b].stale = run[b].stale \cup Orphans(c, snapshot[c])
    BY <1>2 DEF Visits, tables
  <2>2. Ids' = Ids /\ (\A d : OnlyReactions(d)' <=> OnlyReactions(d)) /\ ~OnlyReactions(c)
    BY <1>2, <2>1 DEF Ids, OnlyReactions
  <2>3. c \in listed /\ c \in Chats
    BY <2>1, VisitRows DEF PlanInv
  <2>4. \A x \in Waiting(b)' : /\ x.chat \in listed' /\ ~OnlyReactions(x.chat)
                               /\ ~x.isNew => chunkMessage'[x.id] # DOMAIN x.body
    <3>1. ASSUME NEW x \in Rewrites(c, snapshot[c])
          PROVE  x.chat = c /\ chunkMessage[x.id] # DOMAIN x.body
      BY <2>3, RewriteRows
    <3>2. ASSUME NEW x \in Additions(c, snapshot[c], run[b].nextId)
          PROVE  x.chat = c /\ x.isNew
      BY <2>3, VisitRows, AdditionRows
    <3> QED BY <2>1, <2>2, <2>3, <3>1, <3>2 DEF PlanInv
  <2>5. \A x \in Waiting(b)' : (~OnlyReactions(x.chat))'
    BY <2>1, <2>4 DEF OnlyReactions
  <2>6. \A i \in run'[b].stale : /\ i \in Ids' /\ chunks'[i].chat \notin run'[b].rest
                                 /\ (~OnlyReactions(chunks[i].chat))'
    <3>1. \A i \in Orphans(c, snapshot[c]) : i \in Ids /\ chunks[i].chat = c
      BY DEF Orphans, IdsOf
    <3>2. \A i \in run'[b].stale : /\ i \in Ids /\ chunks[i].chat \notin run'[b].rest
                                   /\ ~OnlyReactions(chunks[i].chat)
      BY <2>1, <2>2, <3>1 DEF PlanInv
    <3> QED BY <2>1, <2>2, <3>2 DEF OnlyReactions
  <2>7. \A d \in listed' \ run'[b].rest : OnlyReactions(d)' \/ Planned(b, d)'
    <3> SUFFICES ASSUME NEW d \in listed \ (run[b].rest \ {c}) PROVE OnlyReactions(d)' \/ Planned(b, d)'
      BY <2>1
    <3>1. CASE d = c
      BY <1>2, <3>1, VisitPlans
    <3>2. CASE d # c
      BY <2>2, <3>2, VisitOthers DEF PlanInv
    <3> QED BY <3>1, <3>2
  <2>8. run'[b].rest \subseteq listed' /\ \A i \in Ids' : chunks'[i].chat \notin listed' => i \in run'[b].stale
    BY <2>1, <2>2 DEF PlanInv
  <2> QED BY <2>4, <2>5, <2>6, <2>7, <2>8 DEF PlanInv
<1> QED BY <1>1, <1>2

(* Deleting the stale chunks of a finished plan leaves the current lists.  *)
LEMMA FinishSyncs ==
  ASSUME TypeOK, TablesAgree, NEW b \in Builders, OwnIds(b), PlanInv(b), Ending(b),
         Finish(b), run[b].limit = NoLimit
  PROVE  InSync'
<1> DEFINE stale == run[b].stale
<1>1. /\ chunks' = [i \in Ids \ stale |-> chunks[i]]
      /\ chunkMessage' = [i \in Ids \ stale |-> chunkMessage[i]]
      /\ UNCHANGED <<snapshot, listed>>
  BY DEF Finish, Without, Ids, TablesAgree
<1>2. run[b].rest = {} /\ run[b].todo = {} /\ run[b].buffer = << >> /\ run[b].batch = << >>
  BY DEF Finish, Ending
<1>3. Waiting(b) = {}
  BY <1>2 DEF Waiting, Rows
<1>4. ASSUME NEW c PROVE IdsOf(c)' = IdsOf(c) \ stale
  BY <1>1 DEF IdsOf, Ids
<1>5. ASSUME NEW c \in Chats \ listed PROVE (IdsOf(c) = {})'
  BY <1>4 DEF PlanInv, IdsOf
<1>6. ASSUME NEW c \in listed, ~OnlyReactions(c) PROVE Matches(c)'
  <2> DEFINE fresh == ChunkList[snapshot[c]]
             K == IdsOf(c)
             K2 == {k \in K : Place(K, k) <= Len(fresh)}
  <2>1. c \in Chats /\ Len(fresh) \in Nat
    BY ChunkListAssumption DEF TypeOK
  <2>2. Final(b, c) = K
    BY <1>3 DEF Final
  <2>3. Planned(b, c)
    BY <1>2, <1>6 DEF PlanInv
  <2>4. /\ Len(fresh) <= Cardinality(K)
        /\ \A i \in K : IF Place(K, i) <= Len(fresh)
                        THEN i \notin stale /\ chunkMessage[i] = fresh[Place(K, i)]
                        ELSE i \in stale
    BY <1>3, <2>2, <2>3 DEF Planned, Holds
  <2>5. IdsOf(c)' = K2
    BY <1>4, <2>4
  <2>6. K \in SUBSET Nat /\ IsFiniteSet(K) /\ K \subseteq Ids
    BY FinalIds DEF TypeOK
  <2>7. (\A k \in K2 : Place(K2, k) = Place(K, k)) /\ Cardinality(K2) = Len(fresh)
    BY <2>1, <2>4, <2>6, FirstPlaces
  <2>8. ASSUME NEW i \in K2 PROVE chunkMessage'[i] = fresh[Rank(i)']
    <3>1. i \in Ids' /\ chunks'[i].chat = c
      BY <2>5 DEF IdsOf
    <3>2. Rank(i)' = Cardinality({j \in K2 : j <= i})
      BY <2>5, <3>1 DEF Rank
    <3>3. Rank(i)' = Place(K, i)
      BY <2>7, <3>2 DEF Place
    <3> QED BY <1>1, <2>4, <2>6, <3>3
  <2>9. fresh' = fresh
    BY <1>1
  <2> QED BY <2>5, <2>7, <2>8, <2>9 DEF Matches
<1>7. ASSUME NEW c \in listed, OnlyReactions(c) PROVE OnlyReactions(c)'
  BY <1>1, <1>7 DEF OnlyReactions
<1> QED BY <1>1, <1>5, <1>6, <1>7 DEF InSync, TypeOK

(* The steps that leave the index and the queue as a whole alone.          *)
Kept(b) ==
  /\ UNCHANGED <<snapshot, listed, tables>>
  /\ Waiting(b)' = Waiting(b)
  /\ run'[b].rest = run[b].rest /\ run'[b].stale = run[b].stale
  /\ run'[b].limit = run[b].limit /\ run'[b].alone = run[b].alone
  /\ run'[b].pc # "done"

LEMMA TakeKeeps ==
  ASSUME TypeOK, NEW b \in Builders, OwnIds(b), Ending(b), Take(b)
  PROVE  Working(b) /\ Kept(b) /\ Ending(b)'
<1>1. run[b] \in RunStates /\ UNCHANGED <<snapshot, listed, tables>> /\ run[b].pc = "scan"
  BY DEF Take, TypeOK
<1>2. PICK x \in run[b].todo :
        \/ /\ run[b].calibrated
           /\ run' = [run EXCEPT ![b].todo = @ \ {x}, ![b].batch = Append(@, x), ![b].pc = "flush"]
        \/ /\ ~run[b].calibrated
           /\ \E pc \in {"calibrate", "scan"} :
                run' = [run EXCEPT ![b].todo = @ \ {x},
                                   ![b].buffer = Append(run[b].buffer, x), ![b].pc = pc]
  BY DEF Take
<1>3. x \in Pending /\ run[b].buffer \in Seq(Pending) /\ run[b].batch \in Seq(Pending)
  BY <1>1 DEF RunStates
<1>4. /\ run'[b].todo = run[b].todo \ {x} /\ run'[b].stale = run[b].stale
      /\ run'[b].rest = run[b].rest /\ run'[b].calibrated = run[b].calibrated
      /\ run'[b].limit = run[b].limit /\ run'[b].alone = run[b].alone
      /\ run'[b].after = run[b].after
      /\ \/ /\ run[b].calibrated /\ run'[b].batch = Append(run[b].batch, x)
            /\ run'[b].buffer = run[b].buffer /\ run'[b].pc = "flush"
         \/ /\ ~run[b].calibrated /\ run'[b].buffer = Append(run[b].buffer, x)
            /\ run'[b].batch = run[b].batch /\ run'[b].pc \in {"scan", "calibrate"}
  BY SMTT(30), <1>1, <1>2 DEF TypeOK, RunStates
<1>5. ASSUME NEW q \in Seq(Pending) PROVE Rows(Append(q, x)) = Rows(q) \cup {x}
  <2>1. /\ DOMAIN q = 1..Len(q) /\ DOMAIN Append(q, x) = 1..(Len(q) + 1) /\ Len(q) \in Nat
        /\ Append(q, x)[Len(q) + 1] = x /\ \A k \in 1..Len(q) : Append(q, x)[k] = q[k]
    BY <1>3, <1>5
  <2>2. \A k \in DOMAIN Append(q, x) : k \in DOMAIN q \/ k = Len(q) + 1
    BY ONLY <2>1
  <2>3. Len(q) + 1 \in DOMAIN Append(q, x) /\ DOMAIN q \subseteq DOMAIN Append(q, x)
    BY ONLY <2>1
  <2> QED BY ONLY <2>1, <2>2, <2>3 DEF Rows
<1>6. Waiting(b)' = run'[b].todo \cup Rows(run'[b].buffer) \cup Rows(run'[b].batch)
  BY DEF Waiting, Rows
<1>7. Waiting(b)' = Waiting(b)
  <2>1. CASE run'[b].batch = Append(run[b].batch, x) /\ run'[b].buffer = run[b].buffer
    <3>1. Rows(run'[b].batch) = Rows(run[b].batch) \cup {x} /\ Rows(run'[b].buffer) = Rows(run[b].buffer)
      BY <1>3, <1>5, <2>1
    <3> QED BY <1>2, <1>4, <1>6, <3>1 DEF Waiting
  <2>2. CASE run'[b].buffer = Append(run[b].buffer, x) /\ run'[b].batch = run[b].batch
    <3>1. Rows(run'[b].buffer) = Rows(run[b].buffer) \cup {x} /\ Rows(run'[b].batch) = Rows(run[b].batch)
      BY <1>3, <1>5, <2>2
    <3> QED BY <1>2, <1>4, <1>6, <3>1 DEF Waiting
  <2> QED BY <1>4, <2>1, <2>2
<1>8. Ending(b)'
  <2>1. run'[b].batch # << >> => run'[b].calibrated
    BY <1>4 DEF Ending
  <2>2. /\ run'[b].pc # "copied" /\ run'[b].pc # "drain"
        /\ run'[b].pc \in {"flush", "drain"} => run'[b].buffer = << >>
    BY <1>4 DEF OwnIds
  <2>3. ~(run'[b].after = "drain" /\ run'[b].limit = NoLimit)
    BY <1>2, <1>4 DEF Ending
  <2> QED BY <2>1, <2>2, <2>3 DEF Ending
<1> QED BY <1>1, <1>4, <1>7, <1>8 DEF Kept, Working

LEMMA ReleaseKeeps ==
  ASSUME TypeOK, NEW b \in Builders, OwnIds(b), Ending(b), ReleaseBuffer(b),
         UNCHANGED <<snapshot, listed, tables>>
  PROVE  Kept(b) /\ Ending(b)'
<1>1. run[b] \in RunStates
  BY DEF TypeOK
<1>2. run[b].buffer \in Seq(Pending) /\ run[b].batch \in Seq(Pending)
  BY <1>1 DEF RunStates
<1>3. /\ run'[b].batch = run[b].batch \o run[b].buffer /\ run'[b].buffer = << >>
      /\ run'[b].todo = run[b].todo /\ run'[b].stale = run[b].stale
      /\ run'[b].rest = run[b].rest /\ run'[b].pc = run[b].after
      /\ run'[b].limit = run[b].limit /\ run'[b].alone = run[b].alone
      /\ run'[b].after = run[b].after /\ run'[b].calibrated = TRUE
      /\ run[b].after \in {"flush", "drain"}
  BY <1>1 DEF ReleaseBuffer, TypeOK, RunStates
<1>4. \/ run'[b].batch = run[b].batch /\ run[b].buffer = << >>
      \/ run'[b].batch = run[b].buffer /\ run[b].batch = << >>
  <2>1. run[b].batch \o << >> = run[b].batch /\ << >> \o run[b].buffer = run[b].buffer
    BY <1>2
  <2> QED BY <1>3, <2>1 DEF OwnIds
<1>5. Waiting(b)' = Waiting(b)
  <2>1. Rows(<< >>) = {}
    BY DEF Rows
  <2>2. Waiting(b)' = run'[b].todo \cup Rows(run'[b].buffer) \cup Rows(run'[b].batch)
    BY DEF Waiting, Rows
  <2> QED BY <1>3, <1>4, <2>1, <2>2 DEF Waiting
<1>6. Ending(b)'
  BY <1>3 DEF Ending
<1> QED BY <1>3, <1>5, <1>6 DEF Kept

LEMMA PhaseKeeps ==
  ASSUME TypeOK, NEW b \in Builders, OwnIds(b), Ending(b),
         \/ Exhaust(b) \/ Continue(b)
         \/ CheckCalibration(b) /\ run' = [run EXCEPT ![b].pc = "store"]
  PROVE  Working(b) /\ Kept(b) /\ Ending(b)'
<1>1. run[b] \in RunStates /\ UNCHANGED <<snapshot, listed, tables>> /\ Working(b)
  BY DEF Exhaust, Continue, CheckCalibration, TypeOK, Working
<1>2. /\ run'[b].todo = run[b].todo /\ run'[b].buffer = run[b].buffer
      /\ run'[b].batch = run[b].batch /\ run'[b].stale = run[b].stale
      /\ run'[b].rest = run[b].rest /\ run'[b].calibrated = run[b].calibrated
      /\ run'[b].limit = run[b].limit /\ run'[b].alone = run[b].alone
  BY <1>1 DEF Exhaust, Continue, CheckCalibration, TypeOK, RunStates
<1>3. Waiting(b)' = Waiting(b)
  BY <1>2 DEF Waiting, Rows
<1>4. CASE Exhaust(b)
  <2>1. /\ run[b].todo = {} /\ run[b].rest = {}
        /\ run'[b].after = "drain"
        /\ run'[b].pc = IF ~run[b].calibrated /\ run[b].buffer # << >> THEN "calibrate" ELSE "drain"
    BY <1>1, <1>4 DEF Exhaust, TypeOK, RunStates
  <2>2. run'[b].pc = "drain" => run[b].buffer = << >>
    BY <2>1 DEF OwnIds
  <2> QED BY <1>1, <1>2, <1>3, <2>1, <2>2 DEF Kept, Ending
<1>5. CASE Continue(b)
  <2>1. /\ run[b].pc = "flush" /\ run'[b].after = run[b].after
        /\ run'[b].pc = "scan" \/ (run'[b].pc = "drain" /\ run[b].limit # NoLimit)
    BY <1>1, <1>5 DEF Continue, LimitReached, TypeOK, RunStates
  <2> QED BY <1>1, <1>2, <1>3, <2>1 DEF Kept, Ending
<1>6. CASE CheckCalibration(b) /\ run' = [run EXCEPT ![b].pc = "store"]
  <2>1. run'[b].pc = "store" /\ run'[b].after = run[b].after
    BY <1>1, <1>6 DEF TypeOK, RunStates
  <2> QED BY <1>1, <1>2, <1>3, <2>1 DEF Kept, Ending
<1> QED BY <1>4, <1>5, <1>6

(* A step touches the local state of its own builder only.                 *)
LEMMA StepOthers ==
  ASSUME TypeOK, NEW b \in Builders, Step(b), NEW e \in Builders, e # b
  PROVE  run'[e] = run[e]
<1>1. CASE Open(b) \/ Take(b)
  BY <1>1 DEF Open, Take, TypeOK
<1>2. CASE Diff(b)
  BY <1>2 DEF Diff, TypeOK
<1>3. CASE Exhaust(b) \/ Continue(b) \/ CheckCalibration(b) \/ StoreCalibration(b) \/ Finish(b)
  BY <1>3 DEF Exhaust, Continue, CheckCalibration, StoreCalibration, ReleaseBuffer, Finish, TypeOK
<1>4. CASE Flush(b) \/ Drain(b)
  <2>1. PICK s : WriteBatch(b, s)
    BY <1>4 DEF Flush, Drain
  <2> QED BY <2>1 DEF WriteBatch, Advance, TypeOK
<1> QED BY <1>1, <1>2, <1>3, <1>4 DEF Step

LEMMA FlushOrDrainWrites ==
  ASSUME TypeOK, NEW b \in Builders, Flush(b) \/ Drain(b)
  PROVE  /\ \E n \in 1..Len(run[b].batch) : WriteBatch(b, SubSeq(run[b].batch, 1, n))
         /\ Working(b) /\ run[b].batch # << >> /\ UNCHANGED <<snapshot, listed>>
<1>1. run[b].batch \in Seq(Pending)
  BY BatchIsSeq
<1>2. CASE Flush(b)
  <2>1. BatchSize \in 1..Len(run[b].batch)
    BY <1>2, SizesAssumption, BatchIsSeq DEF Flush
  <2>2. run[b].batch # << >>
    BY <1>1, <2>1
  <2> QED BY <1>2, <2>1, <2>2 DEF Flush, Working
<1>3. CASE Drain(b)
  <2>1. (IF Len(run[b].batch) > BatchSize THEN BatchSize ELSE Len(run[b].batch)) \in 1..Len(run[b].batch)
    BY <1>3, SizesAssumption, BatchIsSeq DEF Drain
  <2> QED BY <1>3, <2>1 DEF Drain, Working
<1> QED BY <1>2, <1>3

(* Every step of a builder follows its plan, and the last one ends it.     *)
LEMMA StepPlan ==
  ASSUME TypeOK, TablesAgree, NEW b \in Builders, Queued(b), Ending(b),
         Working(b) => PlanInv(b), Step(b)
  PROVE  /\ Ending(b)' /\ (Working(b)' => PlanInv(b)')
         /\ run'[b].alone = run[b].alone
         /\ run'[b].pc = "done" /\ run'[b].limit = NoLimit => InSync'
<1>1. CASE Open(b)
  <2>1. /\ run'[b].pc = "scan" /\ run'[b].after = run[b].after /\ run'[b].batch = run[b].batch
        /\ run'[b].alone = run[b].alone /\ run[b].pc = "copied"
    BY <1>1 DEF Open, TypeOK, RunStates
  <2>2. run[b].batch = << >>
    BY <2>1 DEF Queued, Working
  <2>3. Ending(b)'
    BY <2>1, <2>2 DEF Ending
  <2> QED BY <1>1, <2>1, <2>3, OpenPlan
<1>2. ASSUME Working(b), Kept(b), Ending(b)'
      PROVE  /\ Ending(b)' /\ (Working(b)' => PlanInv(b)')
             /\ run'[b].alone = run[b].alone
             /\ run'[b].pc = "done" /\ run'[b].limit = NoLimit => InSync'
  BY <1>2, PlanKept DEF Kept, tables
<1>3. CASE Take(b)
  BY <1>2, <1>3, TakeKeeps DEF Take, Working, Queued
<1>4. CASE Exhaust(b) \/ Continue(b)
  BY <1>2, <1>4, PhaseKeeps DEF Exhaust, Continue, Working, Queued
<1>5. CASE CheckCalibration(b) \/ StoreCalibration(b)
  <2>1. Working(b) /\ OwnIds(b) /\ UNCHANGED <<snapshot, listed, tables>>
    BY <1>5 DEF CheckCalibration, StoreCalibration, Working, Queued
  <2>2. CASE ReleaseBuffer(b)
    BY <1>2, <2>1, <2>2, ReleaseKeeps
  <2>3. CASE CheckCalibration(b) /\ run' = [run EXCEPT ![b].pc = "store"]
    BY <1>2, <2>1, <2>3, PhaseKeeps
  <2> QED BY <1>5, <2>2, <2>3 DEF CheckCalibration, StoreCalibration
<1>6. CASE Diff(b)
  <2>1. OwnIds(b) /\ PlanInv(b)
    BY <1>6 DEF Diff, Working, Queued
  <2>2. PICK c \in run[b].rest : Visits(b, c)
    BY <1>6, DiffVisits
  <2>3. PlanInv(b)'
    BY <2>1, <2>2, VisitPlan
  <2>4. /\ run'[b].pc = "scan" /\ run'[b].batch = run[b].batch
        /\ run'[b].buffer = run[b].buffer /\ run'[b].calibrated = run[b].calibrated
        /\ run'[b].after = run[b].after /\ run'[b].limit = run[b].limit
        /\ run'[b].alone = run[b].alone /\ run[b].pc = "scan"
    BY <1>6, DiffVisits
  <2>5. Ending(b)'
    BY <2>2, <2>4 DEF Ending
  <2> QED BY <2>3, <2>4, <2>5
<1>7. CASE Flush(b) \/ Drain(b)
  <2>1. PICK n \in 1..Len(run[b].batch) : WriteBatch(b, SubSeq(run[b].batch, 1, n))
    BY <1>7, FlushOrDrainWrites
  <2>2. /\ OwnIds(b) /\ PlanInv(b) /\ run[b].batch # << >> /\ Working(b)
        /\ UNCHANGED <<snapshot, listed>>
    BY <1>7, FlushOrDrainWrites DEF Queued
  <2>3. PlanInv(b)'
    BY <2>1, <2>2, WritePlan
  <2>4. /\ run'[b].rest = run[b].rest
        /\ run'[b].alone = run[b].alone /\ run'[b].limit = run[b].limit
        /\ run'[b].pc = run[b].pc /\ run'[b].after = run[b].after
        /\ run'[b].todo = run[b].todo /\ run'[b].buffer = run[b].buffer
        /\ run'[b].calibrated = run[b].calibrated
    BY <2>1, <2>2, BatchMoves
  <2>5. Ending(b)'
    BY <2>2, <2>4 DEF Ending
  <2>6. run'[b].pc # "done"
    BY <2>2, <2>4 DEF Working
  <2> QED BY <2>3, <2>4, <2>5, <2>6
<1>8. CASE Finish(b)
  <2>1. run'[b] = [EmptyRun EXCEPT !.pc = "done", !.limit = run[b].limit,
                                   !.written = run[b].written, !.alone = run[b].alone]
    BY <1>8 DEF Finish, TypeOK
  <2>2. /\ run'[b].pc = "done" /\ run'[b].limit = run[b].limit /\ run'[b].alone = run[b].alone
        /\ run'[b].batch = << >> /\ run'[b].after = "flush"
    BY <2>1 DEF EmptyRun
  <2>3. Ending(b)' /\ ~Working(b)'
    BY <2>2 DEF Ending, Working
  <2>4. OwnIds(b) /\ PlanInv(b)
    BY <1>8 DEF Finish, Working, Queued
  <2> QED BY <1>8, <2>2, <2>3, <2>4, FinishSyncs
<1> QED BY <1>1, <1>3, <1>4, <1>5, <1>6, <1>7, <1>8 DEF Step

(* Only Snapshot makes a builder count as alone.                           *)
LEMMA StepAlone ==
  ASSUME TypeOK, NEW b \in Builders, Step(b)
  PROVE  Active(b) /\ run'[b].alone \in {run[b].alone, FALSE}
<1>1. Active(b)
  BY DEF Step, Open, Diff, Take, Exhaust, CheckCalibration, StoreCalibration, Flush, Continue,
         Drain, Finish, Active
<1>2. run[b] \in RunStates
  BY DEF TypeOK
<1>3. CASE Open(b) \/ Take(b) \/ Exhaust(b) \/ Continue(b)
  <2>1. CASE Open(b)
    BY <1>1, <1>2, <2>1 DEF Open, TypeOK, RunStates
  <2>2. CASE Take(b)
    <3>1. PICK pc, todo, q :
            \/ run' = [run EXCEPT ![b].todo = todo, ![b].batch = q, ![b].pc = pc]
            \/ run' = [run EXCEPT ![b].todo = todo, ![b].buffer = q, ![b].pc = pc]
      BY ZenonT(60), <2>2 DEF Take
    <3>2. \/ run'[b] = [run[b] EXCEPT !.todo = todo, !.batch = q, !.pc = pc]
          \/ run'[b] = [run[b] EXCEPT !.todo = todo, !.buffer = q, !.pc = pc]
      BY <3>1 DEF TypeOK
    <3>3. run'[b].alone = run[b].alone
      BY ONLY <1>2, <3>2 DEF RunStates
    <3> QED BY <1>1, <3>3
  <2>3. CASE Exhaust(b) \/ Continue(b)
    <3>1. PICK pc : \/ run' = [run EXCEPT ![b].pc = pc]
                    \/ run' = [run EXCEPT ![b].pc = pc, ![b].after = "drain"]
      BY <2>3 DEF Exhaust, Continue
    <3>2. run'[b] = [run[b] EXCEPT !.pc = pc] \/ run'[b] = [run[b] EXCEPT !.pc = pc, !.after = "drain"]
      BY <3>1 DEF TypeOK
    <3>3. run'[b].alone = run[b].alone
      BY ONLY <1>2, <3>2 DEF RunStates
    <3> QED BY <1>1, <3>3
  <2> QED BY <1>3, <2>1, <2>2, <2>3
<1>4. CASE Diff(b)
  BY <1>1, <1>4, DiffVisits
<1>5. CASE CheckCalibration(b) \/ StoreCalibration(b)
  <2>1. CASE ReleaseBuffer(b)
    BY <1>1, <1>2, <2>1 DEF ReleaseBuffer, TypeOK, RunStates
  <2>2. CASE run' = [run EXCEPT ![b].pc = "store"]
    BY <1>1, <1>2, <2>2 DEF TypeOK, RunStates
  <2> QED BY <1>5, <2>1, <2>2 DEF CheckCalibration, StoreCalibration
<1>6. CASE Flush(b) \/ Drain(b)
  <2>1. PICK s : WriteBatch(b, s)
    BY <1>6 DEF Flush, Drain
  <2>2. CASE run' = [run EXCEPT ![b] = [EmptyRun EXCEPT !.pc = "failed"]]
    BY <1>1, <2>2 DEF EmptyRun, TypeOK
  <2>3. CASE Advance(b, s)
    BY <1>1, <1>2, <2>3 DEF Advance, TypeOK, RunStates
  <2> QED BY <2>1, <2>2, <2>3 DEF WriteBatch
<1>7. CASE Finish(b)
  BY <1>1, <1>2, <1>7 DEF Finish, EmptyRun, TypeOK, RunStates
<1> QED BY <1>1, <1>3, <1>4, <1>5, <1>6, <1>7 DEF Step

LEMMA NextConverge ==
  ASSUME TypeOK, TablesAgree, ConvergeInv, [Next]_vars
  PROVE  ConvergeInv'
<1> SUFFICES ASSUME NEW b \in Builders, run'[b].alone PROVE Converging(b)'
  BY DEF ConvergeInv
<1>1. ASSUME run[b].alone PROVE Converging(b)
  BY <1>1 DEF ConvergeInv
<1>2. ASSUME NEW e \in Builders, Snapshot(e) PROVE Converging(b)'
  <2>1. /\ run' = [d \in Builders |->
                     IF d = e
                     THEN [EmptyRun EXCEPT !.pc = "copied", !.number = runs + 1,
                                           !.alone = \A d2 \in Builders : ~Active(d2)]
                     ELSE [run[d] EXCEPT !.alone = FALSE]]
        /\ \A d \in Builders : run[d] \in RunStates
    BY <1>2 DEF Snapshot, TypeOK
  <2>2. e = b
    <3>1. e # b => run'[b] = [run[b] EXCEPT !.alone = FALSE]
      BY <2>1
    <3>2. [run[b] EXCEPT !.alone = FALSE].alone = FALSE
      BY <2>1 DEF RunStates
    <3> QED BY <3>1, <3>2
  <2>3. /\ run'[b].pc = "copied" /\ run'[b].after = "flush" /\ run'[b].todo = {}
        /\ run'[b].buffer = << >> /\ run'[b].batch = << >>
        /\ \A d \in Builders : ~Active(d)
    <3>1. run'[b] = [EmptyRun EXCEPT !.pc = "copied", !.number = runs + 1,
                                     !.alone = \A d \in Builders : ~Active(d)]
      BY <2>1, <2>2
    <3>2. run'[b].alone = (\A d \in Builders : ~Active(d))
      BY <3>1 DEF EmptyRun
    <3> QED BY <3>1, <3>2 DEF EmptyRun
  <2>4. ASSUME NEW d \in Builders \ {b} PROVE ~Active(d)'
    <3>1. run'[d] = [run[d] EXCEPT !.alone = FALSE] /\ run[d] \in RunStates
      BY <2>1, <2>2
    <3>2. run'[d].pc = run[d].pc
      BY ONLY <3>1 DEF RunStates
    <3> QED BY <2>3, <3>2 DEF Active
  <2> QED BY <2>3, <2>4 DEF Converging, Undisturbed, Queued, Ending, Working
<1>3. ASSUME Step(b) PROVE Converging(b)'
  <2>1. Converging(b)
    <3>1. run'[b].alone = run[b].alone \/ run'[b].alone = FALSE
      BY <1>3, StepAlone
    <3> QED BY <1>1, <3>1
  <2>2. run'[b].pc # "done" \/ run'[b].limit # NoLimit \/ InSync'
    BY <1>3, <2>1, StepPlan DEF Converging
  <2>3. Ending(b)' /\ (Working(b)' => PlanInv(b)')
    <3>1. Queued(b) /\ Ending(b) /\ (Working(b) => PlanInv(b))
      BY <2>1 DEF Converging
    <3> QED BY <1>3, <3>1, StepPlan
  <2>4. Queued(b)'
    BY <1>3, <2>1, StepQueue DEF Converging, Ending
  <2>5. \A e \in Builders \ {b} : (~Active(e))'
    BY <1>3, <2>1, StepOthers DEF Converging, Undisturbed, Active
  <2> QED BY <2>2, <2>3, <2>4, <2>5 DEF Converging, Undisturbed
<1>4. ASSUME Crash(b) PROVE Converging(b)'
  BY <1>4 DEF Crash, EmptyRun, TypeOK
<1>5. ASSUME NEW e \in Builders \ {b}, Step(e) \/ Crash(e) PROVE Converging(b)'
  <2>1. Active(e) /\ run'[b] = run[b]
    BY <1>5, StepAlone, StepOthers DEF Crash, TypeOK
  <2> QED BY <1>1, <1>5, <2>1 DEF Converging, Undisturbed
<1>6. CASE UNCHANGED vars
  <2>1. UNCHANGED <<snapshot, listed, chunks, chunkMessage, run>>
    BY <1>6 DEF vars, tables
  <2>2. /\ Ids' = Ids /\ Waiting(b)' = Waiting(b) /\ Converging(b)
        /\ \A c : IdsOf(c)' = IdsOf(c)
    BY <1>1, <2>1 DEF Ids, Waiting, Rows, IdsOf
  <2>3. Queued(b)'
    BY <2>1, <2>2 DEF Converging, Queued, OwnIds, Owed, Working, Rows, DistinctIds
  <2>4. Undisturbed(b)' /\ Ending(b)'
    BY <2>1, <2>2 DEF Converging, Undisturbed, Active, Ending
  <2>5. Working(b)' => PlanInv(b)'
    BY <2>1, <2>2, PlanKept DEF Converging, Working
  <2>6. InSync => InSync'
    <3>1. \A i \in Ids : Rank(i)' = Rank(i)
      BY <2>1, <2>2 DEF Rank
    <3>2. \A c : Matches(c) => Matches(c)'
      BY <2>1, <2>2, <3>1 DEF Matches, IdsOf
    <3> QED BY <2>1, <2>2, <3>2 DEF InSync, OnlyReactions
  <2> QED BY <2>1, <2>2, <2>3, <2>4, <2>5, <2>6 DEF Converging
<1> QED BY <1>2, <1>3, <1>4, <1>5, <1>6 DEF Next

(* The index converges: a build that no limit cut short and no other build *)
(* overlapped ends with an index that is the current chunk list of every   *)
(* conversation, in order, whatever crashes, limits, deletions, backfills, *)
(* calibration races and refused batches of earlier builds left behind     *)
(* (build_index, build.py:487-612).                                        *)
THEOREM CompleteBuildConvergesAlways == Spec => []CompleteBuildConverges
<1>1. Init => ConvergeInv
  BY DEF Init, ConvergeInv, EmptyRun
<1>2. TypeOK /\ TablesAgree /\ ConvergeInv /\ [Next]_vars => ConvergeInv'
  BY NextConverge
<1>3. ConvergeInv => CompleteBuildConverges
  BY DEF ConvergeInv, Converging, CompleteBuildConverges
<1> QED BY <1>1, <1>2, <1>3, TypeCorrect, TablesAlwaysAgree, PTL DEF Spec

-----------------------------------------------------------------------------
(* A build that finds the index in order.                                  *)

(* Nothing waits and nothing is stale when the index matches the snapshot. *)
LEMMA NothingPlanned ==
  ASSUME TypeOK, NEW b \in Builders, OwnIds(b), PlanInv(b), InSync
  PROVE  Waiting(b) = {} /\ run[b].stale = {}
<1>1. ASSUME NEW c \in listed \ run[b].rest, ~OnlyReactions(c)
      PROVE  /\ Final(b, c) = IdsOf(c)
             /\ \A i \in IdsOf(c) :
                  i \notin run[b].stale /\ \E chunk : Holds(b, i, chunk) /\ chunkMessage[i] = chunk
  <2> DEFINE fresh == ChunkList[snapshot[c]]
             final == Final(b, c)
  <2>1. Planned(b, c) /\ c \in Chats
    BY <1>1 DEF PlanInv, TypeOK
  <2>2. Cardinality(IdsOf(c)) = Len(fresh) /\ \A i \in IdsOf(c) : chunkMessage[i] = fresh[Rank(i)]
    BY <1>1, <2>1 DEF InSync, Matches
  <2>3. /\ final \in SUBSET Nat /\ IsFiniteSet(final) /\ IdsOf(c) \subseteq final
        /\ IdsOf(c) \subseteq Ids
    BY FinalIds
  <2>4. final = IdsOf(c)
    <3>1. CASE Cardinality(final) = Len(fresh)
      BY <2>2, <2>3, <3>1, FS_Subset
    <3>2. CASE final = IdsOf(c)
      BY <3>2
    <3> QED BY <2>1, <3>1, <3>2 DEF Planned
  <2>5. ASSUME NEW i \in IdsOf(c)
        PROVE  i \notin run[b].stale /\ \E chunk : Holds(b, i, chunk) /\ chunkMessage[i] = chunk
    <3>1. Place(final, i) = Rank(i)
      BY <2>4, <2>5 DEF Place, Rank, IdsOf
    <3>2. Place(final, i) <= Len(fresh)
      <4>1. Place(final, i) \in 1..Cardinality(final)
        BY <2>3, <2>5, PlaceBounds
      <4>2. Cardinality(final) = Len(fresh)
        BY <2>2, <2>4
      <4> QED BY <2>3, <4>1, <4>2, FS_CardinalityType
    <3>3. i \notin run[b].stale /\ Holds(b, i, fresh[Place(final, i)])
      BY <2>1, <2>4, <2>5, <3>2 DEF Planned
    <3> QED BY <2>2, <2>5, <3>1, <3>3
  <2> QED BY <2>4, <2>5
<1>2. ASSUME NEW x \in Waiting(b) PROVE FALSE
  <2>1. /\ x.chat \in listed \ run[b].rest /\ ~OnlyReactions(x.chat)
        /\ ~x.isNew => chunkMessage[x.id] # DOMAIN x.body
        /\ x.isNew <=> x.id \notin Ids
    BY <1>2 DEF PlanInv, OwnIds, Owed
  <2>2. x.id \in Final(b, x.chat)
    BY <1>2 DEF Final
  <2>3. x.id \in IdsOf(x.chat)
    BY <1>1, <2>1, <2>2
  <2>4. PICK chunk : Holds(b, x.id, chunk) /\ chunkMessage[x.id] = chunk
    BY <1>1, <2>1, <2>3
  <2>5. DOMAIN x.body = chunk
    BY <1>2, <2>4, WaitingIds DEF Holds
  <2>6. x.id \in Ids
    BY <2>3 DEF IdsOf
  <2> QED BY <2>1, <2>4, <2>5, <2>6
<1>3. ASSUME NEW i \in run[b].stale PROVE FALSE
  <2>1. i \in Ids /\ chunks[i].chat \notin run[b].rest /\ ~OnlyReactions(chunks[i].chat)
    BY <1>3 DEF PlanInv
  <2>2. i \in IdsOf(chunks[i].chat) /\ chunks[i].chat \in Chats
    BY <2>1 DEF IdsOf, TypeOK
  <2>3. CASE chunks[i].chat \in listed
    BY <1>1, <1>3, <2>1, <2>2, <2>3
  <2>4. CASE chunks[i].chat \notin listed
    BY <2>2, <2>4 DEF InSync
  <2> QED BY <2>3, <2>4
<1> QED BY <1>2, <1>3

IsMap(t) == t = [i \in DOMAIN t |-> t[i]]
Maps == IsMap(chunks) /\ IsMap(chunkMessage) /\ IsMap(chunksVec) /\ IsMap(chunksFts)

LEMMA InitMaps == Init => Maps
<1>1. << >> = [i \in DOMAIN << >> |-> << >>[i]]
  <2>1. << >> \in Seq({})
    OBVIOUS
  <2> QED BY <2>1
<1> QED BY <1>1 DEF Init, Maps, IsMap

LEMMA NextMaps == Maps /\ [Next]_vars => Maps'
<1> SUFFICES ASSUME Maps, [Next]_vars PROVE Maps'
  OBVIOUS
<1>1. ASSUME UNCHANGED tables PROVE Maps'
  BY <1>1 DEF tables, Maps, IsMap
<1>2. ASSUME NEW b \in Builders, NEW s, WriteBatch(b, s) PROVE Maps'
  <2>1. CASE Collides(s)
    BY <1>1, <1>2, <2>1 DEF WriteBatch
  <2>2. CASE ~Collides(s)
    BY <1>2, <2>2 DEF WriteBatch, Put, Maps, IsMap
  <2> QED BY <2>1, <2>2
<1>3. ASSUME NEW b \in Builders, Finish(b) PROVE Maps'
  <2>1. CASE run[b].limit = NoLimit
    BY <1>3, <2>1 DEF Finish, Without, Maps, IsMap
  <2>2. CASE run[b].limit # NoLimit
    BY <1>1, <1>3, <2>2 DEF Finish
  <2> QED BY <2>1, <2>2
<1>4. ASSUME NEW b \in Builders, Flush(b) \/ Drain(b) PROVE Maps'
  <2>1. PICK s : WriteBatch(b, s)
    BY <1>4 DEF Flush, Drain
  <2> QED BY <1>2, <2>1
<1>5. ASSUME NEW b \in Builders, ~(Flush(b) \/ Drain(b) \/ Finish(b)),
             Snapshot(b) \/ Step(b) \/ Crash(b)
      PROVE  UNCHANGED tables
  BY <1>5 DEF Snapshot, Step, Crash, Open, Diff, Take, Exhaust, CheckCalibration,
              StoreCalibration, Continue
<1>6. CASE UNCHANGED vars
  BY <1>1, <1>6 DEF vars
<1> QED BY <1>1, <1>3, <1>4, <1>5, <1>6 DEF Next

(* Outside batch transactions a builder writes nothing.                    *)
LEMMA StepWritten ==
  ASSUME TypeOK, NEW b \in Builders, Step(b), ~(Flush(b) \/ Drain(b))
  PROVE  run'[b].written = run[b].written
<1>1. run[b] \in RunStates
  BY DEF TypeOK
<1>2. CASE Open(b)
  BY <1>1, <1>2 DEF Open, TypeOK, RunStates
<1>3. CASE Finish(b)
  <2>1. run'[b] = [EmptyRun EXCEPT !.pc = "done", !.limit = run[b].limit,
                                   !.written = run[b].written, !.alone = run[b].alone]
    BY <1>3 DEF Finish, TypeOK
  <2> QED BY <2>1 DEF EmptyRun
<1>4. CASE Diff(b)
  <2>1. PICK c :
          \/ run' = [run EXCEPT ![b].rest = @ \ {c}]
          \/ run' = [run EXCEPT ![b].rest = @ \ {c},
                                ![b].todo = Rewrites(c, snapshot[c]) \cup Additions(c, snapshot[c], run[b].nextId),
                                ![b].nextId = @ + Cardinality(Additions(c, snapshot[c], run[b].nextId)),
                                ![b].stale = @ \cup Orphans(c, snapshot[c])]
    BY <1>4 DEF Diff
  <2> DEFINE todo == Rewrites(c, snapshot[c]) \cup Additions(c, snapshot[c], run[b].nextId)
             stale == run[b].stale \cup Orphans(c, snapshot[c])
             more == run[b].nextId + Cardinality(Additions(c, snapshot[c], run[b].nextId))
  <2>2. \/ run'[b] = [run[b] EXCEPT !.rest = @ \ {c}]
        \/ run'[b] = [run[b] EXCEPT !.rest = @ \ {c}, !.todo = todo, !.nextId = more, !.stale = stale]
    BY <2>1 DEF TypeOK
  <2> HIDE DEF todo, stale, more
  <2> QED BY ONLY <1>1, <2>2 DEF RunStates
<1>5. CASE Take(b)
  <2>1. PICK pc, todo, q :
          \/ run' = [run EXCEPT ![b].todo = todo, ![b].batch = q, ![b].pc = pc]
          \/ run' = [run EXCEPT ![b].todo = todo, ![b].buffer = q, ![b].pc = pc]
    BY ZenonT(60), <1>5 DEF Take
  <2>2. \/ run'[b] = [run[b] EXCEPT !.todo = todo, !.batch = q, !.pc = pc]
        \/ run'[b] = [run[b] EXCEPT !.todo = todo, !.buffer = q, !.pc = pc]
    BY <2>1 DEF TypeOK
  <2> QED BY ONLY <1>1, <2>2 DEF RunStates
<1>6. CASE Exhaust(b) \/ Continue(b)
  <2>1. PICK pc : \/ run' = [run EXCEPT ![b].pc = pc]
                  \/ run' = [run EXCEPT ![b].pc = pc, ![b].after = "drain"]
    BY <1>6 DEF Exhaust, Continue
  <2>2. run'[b] = [run[b] EXCEPT !.pc = pc] \/ run'[b] = [run[b] EXCEPT !.pc = pc, !.after = "drain"]
    BY <2>1 DEF TypeOK
  <2> QED BY ONLY <1>1, <2>2 DEF RunStates
<1>7. CASE CheckCalibration(b) \/ StoreCalibration(b)
  <2>1. CASE ReleaseBuffer(b)
    BY <1>1, <2>1 DEF ReleaseBuffer, TypeOK, RunStates
  <2>2. CASE run' = [run EXCEPT ![b].pc = "store"]
    BY <1>1, <2>2 DEF TypeOK, RunStates
  <2> QED BY <1>7, <2>1, <2>2 DEF CheckCalibration, StoreCalibration
<1> QED BY <1>2, <1>3, <1>4, <1>5, <1>6, <1>7 DEF Step

(* Builds that never overlap are always alone.                             *)
ActiveAlone == \A b \in Builders : Active(b) => run[b].alone = TRUE

LEMMA NextActiveAlone ==
  ASSUME Single, TypeOK, TablesAgree, ConvergeInv, ActiveAlone, [Next]_vars
  PROVE  ActiveAlone'
<1> SUFFICES ASSUME NEW b \in Builders, Active(b)' PROVE run'[b].alone = TRUE
  BY DEF ActiveAlone
<1>1. CASE Snapshot(b)
  <2>1. /\ run'[b] = [EmptyRun EXCEPT !.pc = "copied", !.number = runs + 1,
                                      !.alone = \A e \in Builders : ~Active(e)]
        /\ ~Active(b)
    BY <1>1 DEF Snapshot
  <2>2. \A e \in Builders : ~Active(e)
    BY <2>1 DEF Single
  <2>3. run'[b].alone = (\A e \in Builders : ~Active(e))
    BY <2>1 DEF EmptyRun
  <2> QED BY <2>2, <2>3
<1>2. CASE Step(b)
  <2>1. Active(b) /\ run[b].alone
    BY <1>2, StepAlone DEF ActiveAlone
  <2>2. Converging(b)
    BY <2>1 DEF ConvergeInv
  <2>3. Queued(b) /\ Ending(b) /\ (Working(b) => PlanInv(b))
    BY <2>2 DEF Converging
  <2>4. run'[b].alone = run[b].alone
    BY <1>2, <2>3, StepPlan
  <2> QED BY <2>1, <2>4 DEF ActiveAlone
<1>3. CASE Crash(b)
  BY <1>3 DEF Crash, EmptyRun, Active, TypeOK
<1>4. CASE UNCHANGED vars
  BY <1>4 DEF vars, ActiveAlone, Active
<1> QED BY <1>1, <1>2, <1>3, <1>4 DEF Next, Single

(* A build that finds the index up to date writes nothing, deletes nothing *)
(* and reports 0 new chunks, as build_index's docstring says ("0 if        *)
(* already fully caught up", build.py:496-497), when builds do not overlap.*)
THEOREM SoloNothingToDo == ASSUME Single PROVE Spec => NothingToDo
<1> DEFINE Inv == TypeOK /\ TablesAgree /\ ConvergeInv /\ ActiveAlone /\ Maps
           Quiet == InSync => UNCHANGED tables /\ \A b \in Builders : run'[b].written <= run[b].written
<1>1. Init => ConvergeInv /\ ActiveAlone /\ Maps
  BY InitMaps DEF Init, ConvergeInv, ActiveAlone, EmptyRun, Active
<1>2. Inv /\ [Next]_vars => (ConvergeInv /\ ActiveAlone /\ Maps)'
  BY NextConverge, NextActiveAlone, NextMaps
<1>3. Inv /\ [Next]_vars => [Quiet]_vars
  <2> SUFFICES ASSUME TypeOK, TablesAgree, ConvergeInv, ActiveAlone, Maps, InSync, Next
               PROVE  UNCHANGED tables /\ \A b \in Builders : run'[b].written <= run[b].written
    OBVIOUS
  <2>1. PICK b \in Builders : Snapshot(b) \/ Step(b) \/ Crash(b)
    BY DEF Next
  <2>2. run[b] \in RunStates /\ run[b].written \in Nat /\ \A e \in Builders : e = b
    BY DEF TypeOK, RunStates, Single
  <2> SUFFICES UNCHANGED tables /\ run'[b].written <= run[b].written
    BY <2>2
  <2>3. CASE Snapshot(b)
    <3>1. run'[b].written = 0
      BY <2>3 DEF Snapshot, EmptyRun
    <3>2. UNCHANGED tables
      BY <2>3 DEF Snapshot, tables
    <3> QED BY <2>2, <3>1, <3>2
  <2>4. CASE Crash(b)
    <3>1. run'[b].written = 0
      BY <2>4 DEF Crash, EmptyRun, TypeOK
    <3> QED BY <2>2, <2>4, <3>1 DEF Crash
  <2>5. CASE Step(b)
    <3>1. Converging(b)
      BY <2>5, StepAlone DEF ActiveAlone, ConvergeInv
    <3>2. Working(b) => Waiting(b) = {} /\ run[b].stale = {}
      <4>1. Working(b) => OwnIds(b) /\ PlanInv(b)
        BY <3>1 DEF Converging, Queued
      <4> QED BY <4>1, NothingPlanned
    <3>3. ~(Flush(b) \/ Drain(b))
      <4> SUFFICES ASSUME Flush(b) \/ Drain(b) PROVE FALSE
        OBVIOUS
      <4>1. Working(b) /\ run[b].batch # << >> /\ run[b].batch \in Seq(Pending)
        BY FlushOrDrainWrites, BatchIsSeq
      <4>2. run[b].batch[1] \in Rows(run[b].batch)
        BY <4>1 DEF Rows
      <4> QED BY <3>2, <4>1, <4>2 DEF Waiting
    <3>4. UNCHANGED tables
      <4>1. CASE Finish(b)
        <5>1. run[b].stale = {}
          BY <3>2, <4>1 DEF Finish, Working
        <5>2. \A t : IsMap(t) => Without(t, {}) = t
          BY DEF IsMap, Without
        <5> QED BY <4>1, <5>1, <5>2 DEF Finish, Maps, tables
      <4>2. CASE ~Finish(b)
        BY <2>5, <3>3, <4>2 DEF Step, Open, Diff, Take, Exhaust, CheckCalibration,
                                StoreCalibration, Continue
      <4> QED BY <4>1, <4>2
    <3>5. run'[b].written = run[b].written
      BY <2>5, <3>3, StepWritten
    <3> QED BY <2>2, <3>4, <3>5
  <2> QED BY <2>1, <2>3, <2>4, <2>5
<1>4. Spec => [][Quiet]_vars
  BY <1>1, <1>2, <1>3, TypeCorrect, TablesAlwaysAgree, PTL DEF Spec
<1> QED BY <1>4 DEF NothingToDo

-----------------------------------------------------------------------------
(***************************************************************************)
(* A builder that no other builder overlaps implements PositionalSync, for *)
(* every corpus, chunk list, batch size and limit.                         *)
(*                                                                         *)
(* A batch transaction only fills positions with their own chunks because  *)
(* new chunks are written in the order of their ids: none is ever in the   *)
(* index before the chunks in front of it, although batches are cut        *)
(* anywhere, and calibration and draining move rows between queues.  The   *)
(* invariant states that order through the stages of the queue.            *)
(***************************************************************************)

(* New chunks follow each other in the order of their ids.                 *)
ById(s) == \A k, l \in DOMAIN s : k < l /\ s[k].isNew /\ s[l].isNew => s[k].id < s[l].id

(* New chunks reach the index in the order of their ids, past every id     *)
(* that is stored already, and nothing is written that will be deleted.    *)
Ordered(b) ==
  /\ ById(run[b].buffer) /\ ById(run[b].batch)
  /\ \A x \in run[b].todo : x.isNew =>
       /\ \A y \in Rows(run[b].buffer) \cup Rows(run[b].batch) : y.isNew => y.id < x.id
       /\ \A y \in run[b].todo : y.isNew /\ x.pos <= y.pos => x.id <= y.id
  /\ \A x \in Waiting(b) : /\ x.isNew => \A i \in Ids : i < x.id
                           /\ x.id \notin run[b].stale

OrderInv == \A b \in Builders : Working(b) => Ordered(b)

-----------------------------------------------------------------------------
(* The order is kept.                                                      *)

(* The ids of added chunks follow their positions.                         *)
LEMMA AdditionOrder ==
  ASSUME TypeOK, NEW c \in Chats, NEW m \in Nat \ {0},
         NEW x \in Additions(c, snapshot[c], m), NEW y \in Additions(c, snapshot[c], m),
         x.pos <= y.pos
  PROVE  x.id <= y.id
<1> DEFINE n == Cardinality(IdsOf(c))
           len == Len(ChunkList[snapshot[c]])
<1>1. n \in Nat /\ len \in Nat
  <2>1. IdsOf(c) \subseteq Ids /\ snapshot[c] \in Contents
    BY DEF IdsOf, TypeOK
  <2> QED BY <2>1, ChunkListAssumption, FS_Subset, FS_CardinalityType DEF TypeOK
<1>2. ASSUME NEW r \in Additions(c, snapshot[c], m)
      PROVE  r.pos \in (n + 1)..len /\ r.id = m + (r.pos - n - 1)
  BY DEF Additions
<1>3. /\ x.pos \in (n + 1)..len /\ x.id = m + (x.pos - n - 1)
      /\ y.pos \in (n + 1)..len /\ y.id = m + (y.pos - n - 1)
  BY <1>2
<1> HIDE DEF n, len
<1> QED BY <1>1, <1>3

LEMMA VisitOrder ==
  ASSUME TypeOK, NEW b \in Builders, OwnIds(b), PlanInv(b), Ordered(b), Diff(b)
  PROVE  Ordered(b)'
<1>1. PICK c \in run[b].rest : Visits(b, c)
  BY DiffVisits
<1>2. /\ run'[b].batch = run[b].batch /\ run'[b].buffer = run[b].buffer
      /\ run[b].todo = {} /\ Waiting(b) = Rows(run[b].buffer) \cup Rows(run[b].batch)
  BY DiffVisits DEF Diff, Waiting
<1> DEFINE m == run[b].nextId
           rewrites == Rewrites(c, snapshot[c])
           additions == Additions(c, snapshot[c], m)
<1>3. /\ \A x \in Waiting(b) : x.chat # c /\ x.id \notin IdsOf(c) /\ x.id < m
      /\ m \in Nat \ {0} /\ c \in Chats /\ IsFiniteSet(IdsOf(c))
  BY <1>1, VisitRows
<1>4. /\ run'[b].todo \subseteq rewrites \cup additions
      /\ Waiting(b)' \subseteq Waiting(b) \cup rewrites \cup additions
      /\ run'[b].stale \subseteq run[b].stale \cup Orphans(c, snapshot[c])
      /\ c \in run[b].rest /\ Ids' = Ids
  BY <1>1 DEF Visits, tables, Ids
<1>5. \A x \in rewrites : ~x.isNew /\ x.id \in IdsOf(c) /\ Rank(x.id) \in 1..Len(ChunkList[snapshot[c]])
  BY <1>3, RewriteRows
<1>6. \A x \in additions : x.isNew /\ x.id >= m /\ x.id \in Nat
  BY <1>3, AdditionIds, AdditionsType DEF Pending
<1>7. \A x \in additions, y \in additions : x.pos <= y.pos => x.id <= y.id
  BY <1>3, AdditionOrder
<1>8. Waiting(b) \subseteq Pending /\ Len(ChunkList[snapshot[c]]) \in Nat
  BY <1>3, WaitingIds, ChunkListAssumption DEF TypeOK
<1> HIDE DEF m, rewrites, additions
<1>9. ASSUME NEW x \in run'[b].todo, x.isNew
      PROVE  /\ \A y \in Rows(run[b].buffer) \cup Rows(run[b].batch) : y.id < x.id
             /\ \A y \in run'[b].todo : y.isNew /\ x.pos <= y.pos => x.id <= y.id
  <2>1. x \in additions
    BY <1>4, <1>5, <1>9
  <2>2. \A y \in Waiting(b) : y.id < x.id
    <3> SUFFICES ASSUME NEW y \in Waiting(b) PROVE y.id < x.id
      OBVIOUS
    <3>1. y.id < m /\ m <= x.id /\ y.id \in Nat /\ m \in Nat /\ x.id \in Nat
      BY <1>3, <1>6, <1>8, <2>1 DEF Pending
    <3> QED BY ONLY <3>1
  <2> QED BY <1>2, <1>4, <1>5, <1>7, <2>1, <2>2
<1>10. ASSUME NEW x \in Waiting(b)'
       PROVE  /\ x.isNew => \A i \in Ids : i < x.id
              /\ x.id \notin run'[b].stale
  <2>1. CASE x \in Waiting(b)
    <3>1. x.id \notin Orphans(c, snapshot[c])
      BY <1>3, <2>1 DEF Orphans
    <3> QED BY <1>4, <2>1, <3>1 DEF Ordered
  <2>2. CASE x \in rewrites
    <3>1. x.id \notin Orphans(c, snapshot[c])
      BY <1>5, <1>8, <2>2 DEF Orphans
    <3>2. x.id \notin run[b].stale
      BY <1>4, <1>5, <2>2 DEF PlanInv, IdsOf
    <3> QED BY <1>4, <1>5, <2>2, <3>1, <3>2
  <2>3. CASE x \in additions
    <3>1. \A i \in Ids : i < x.id
      <4> SUFFICES ASSUME NEW i \in Ids PROVE i < x.id
        OBVIOUS
      <4>1. i < m /\ m <= x.id /\ i \in Nat /\ m \in Nat /\ x.id \in Nat
        BY <1>3, <1>6, <2>3 DEF OwnIds, TypeOK, m
      <4> QED BY ONLY <4>1
    <3>2. x.id \notin Ids
      <4>1. x.id \in Nat
        BY <1>6, <2>3
      <4> QED BY <3>1, <4>1
    <3>3. run'[b].stale \subseteq Ids
      BY <1>4 DEF PlanInv, Orphans, IdsOf
    <3> QED BY <3>1, <3>2, <3>3
  <2> QED BY <1>4, <2>1, <2>2, <2>3
<1>11. ById(run'[b].buffer) /\ ById(run'[b].batch)
  BY <1>2 DEF Ordered
<1> QED BY <1>2, <1>4, <1>9, <1>10, <1>11 DEF Ordered, ById, Rows

LEMMA AppendById ==
  ASSUME NEW q \in Seq(Pending), NEW x \in Pending, ById(q),
         x.isNew => \A y \in Rows(q) : y.isNew => y.id < x.id
  PROVE  ById(Append(q, x)) /\ Rows(Append(q, x)) = Rows(q) \cup {x}
<1>1. /\ DOMAIN q = 1..Len(q) /\ DOMAIN Append(q, x) = 1..(Len(q) + 1) /\ Len(q) \in Nat
      /\ Append(q, x)[Len(q) + 1] = x /\ \A k \in 1..Len(q) : Append(q, x)[k] = q[k]
  OBVIOUS
<1>2. \A k \in DOMAIN Append(q, x) : k \in DOMAIN q \/ k = Len(q) + 1
  BY ONLY <1>1
<1>3. Len(q) + 1 \in DOMAIN Append(q, x) /\ DOMAIN q \subseteq DOMAIN Append(q, x)
  BY ONLY <1>1
<1>4. \A k \in DOMAIN q : q[k] \in Rows(q)
  BY DEF Rows
<1>5. \A k, l \in DOMAIN Append(q, x) : k < l => k \in DOMAIN q
  BY ONLY <1>1
<1>6. ById(Append(q, x))
  <2> SUFFICES ASSUME NEW k \in DOMAIN Append(q, x), NEW l \in DOMAIN Append(q, x), k < l,
                      Append(q, x)[k].isNew, Append(q, x)[l].isNew
               PROVE  Append(q, x)[k].id < Append(q, x)[l].id
    BY DEF ById
  <2>1. k \in DOMAIN q /\ Append(q, x)[k] = q[k] /\ q[k] \in Rows(q)
    BY <1>1, <1>4, <1>5
  <2>2. CASE l \in DOMAIN q
    BY <1>1, <2>1, <2>2 DEF ById
  <2>3. CASE l = Len(q) + 1
    BY <1>1, <2>1, <2>3
  <2> QED BY <1>2, <2>2, <2>3
<1> QED BY ONLY <1>1, <1>2, <1>3, <1>6 DEF Rows

LEMMA TakeOrder ==
  ASSUME TypeOK, NEW b \in Builders, OwnIds(b), Ordered(b), Ending(b), Take(b)
  PROVE  Ordered(b)'
<1>1. run[b] \in RunStates /\ UNCHANGED tables
  BY DEF Take, TypeOK
<1>2. PICK x \in run[b].todo :
        /\ \A y \in run[b].todo : x.pos <= y.pos
        /\ \/ run' = [run EXCEPT ![b].todo = @ \ {x}, ![b].batch = Append(@, x), ![b].pc = "flush"]
           \/ \E pc \in {"calibrate", "scan"} :
                run' = [run EXCEPT ![b].todo = @ \ {x},
                                   ![b].buffer = Append(run[b].buffer, x), ![b].pc = pc]
  BY DEF Take
<1>3. /\ x \in Pending /\ run[b].buffer \in Seq(Pending) /\ run[b].batch \in Seq(Pending)
      /\ run[b].todo \subseteq Pending
  BY <1>1 DEF RunStates
<1>4. /\ run'[b].todo = run[b].todo \ {x} /\ run'[b].stale = run[b].stale
      /\ \/ /\ run'[b].batch = Append(run[b].batch, x) /\ run'[b].buffer = run[b].buffer
         \/ /\ run'[b].buffer = Append(run[b].buffer, x) /\ run'[b].batch = run[b].batch
  BY <1>1, <1>2 DEF TypeOK, RunStates
<1>5. Waiting(b)' = Waiting(b) /\ Ids' = Ids
  BY <1>1, TakeKeeps DEF Kept, tables, Ids
<1>6. ById(run[b].buffer) /\ ById(run[b].batch)
      /\ (x.isNew => \A y \in Rows(run[b].buffer) \cup Rows(run[b].batch) : y.isNew => y.id < x.id)
  BY DEF Ordered
<1>7. /\ ById(run'[b].buffer) /\ ById(run'[b].batch)
      /\ Rows(run'[b].buffer) \cup Rows(run'[b].batch)
           = Rows(run[b].buffer) \cup Rows(run[b].batch) \cup {x}
  <2>1. CASE run'[b].batch = Append(run[b].batch, x) /\ run'[b].buffer = run[b].buffer
    BY <1>3, <1>6, <2>1, AppendById
  <2>2. CASE run'[b].buffer = Append(run[b].buffer, x) /\ run'[b].batch = run[b].batch
    BY <1>3, <1>6, <2>2, AppendById
  <2> QED BY <1>4, <2>1, <2>2
<1>8. ASSUME NEW y \in run'[b].todo, y.isNew
      PROVE  /\ \A z \in Rows(run'[b].buffer) \cup Rows(run'[b].batch) : z.isNew => z.id < y.id
             /\ \A z \in run'[b].todo : z.isNew /\ y.pos <= z.pos => y.id <= z.id
  <2>1. y \in run[b].todo /\ y # x
    BY <1>4
  <2>2. ASSUME x.isNew PROVE x.id < y.id
    <3>1. x.id <= y.id
      BY <1>2, <1>8, <2>1, <2>2 DEF Ordered
    <3>2. x.id # y.id
      BY <2>1 DEF OwnIds
    <3> QED BY <1>3, <2>1, <3>1, <3>2 DEF Pending
  <2> QED BY <1>4, <1>7, <1>8, <2>1, <2>2 DEF Ordered
<1>9. \A y \in Waiting(b)' : /\ y.isNew => \A i \in Ids' : i < y.id
                             /\ y.id \notin run'[b].stale
  BY <1>4, <1>5 DEF Ordered
<1> QED BY <1>7, <1>8, <1>9 DEF Ordered, ById, Rows

LEMMA ReleaseOrder ==
  ASSUME TypeOK, NEW b \in Builders, OwnIds(b), Ordered(b), Ending(b), ReleaseBuffer(b),
         UNCHANGED <<snapshot, listed, tables>>
  PROVE  Ordered(b)'
<1>1. run[b] \in RunStates
  BY DEF TypeOK
<1>2. run[b].buffer \in Seq(Pending) /\ run[b].batch \in Seq(Pending)
  BY <1>1 DEF RunStates
<1>3. /\ run'[b].batch = run[b].batch \o run[b].buffer /\ run'[b].buffer = << >>
      /\ run'[b].todo = run[b].todo /\ run'[b].stale = run[b].stale
  BY <1>1 DEF ReleaseBuffer, TypeOK, RunStates
<1>4. \/ run'[b].batch = run[b].batch /\ run[b].buffer = << >>
      \/ run'[b].batch = run[b].buffer /\ run[b].batch = << >>
  <2>1. run[b].batch \o << >> = run[b].batch /\ << >> \o run[b].buffer = run[b].buffer
    BY <1>2
  <2> QED BY <1>3, <2>1 DEF OwnIds
<1>5. Waiting(b)' = Waiting(b) /\ Ids' = Ids
  BY ReleaseKeeps DEF Kept, tables, Ids
<1>6. Rows(run'[b].buffer) \cup Rows(run'[b].batch) = Rows(run[b].buffer) \cup Rows(run[b].batch)
  BY <1>3, <1>4 DEF Rows
<1>7. ById(run'[b].buffer) /\ ById(run'[b].batch)
  BY <1>3, <1>4 DEF Ordered, ById
<1> QED BY <1>3, <1>5, <1>6, <1>7 DEF Ordered, ById, Rows

(* The rest of the batch follows what is written.                          *)
LEMMA WriteOrder ==
  ASSUME TypeOK, TablesAgree, NEW b \in Builders, OwnIds(b), Ordered(b),
         NEW n \in 1..Len(run[b].batch), WriteBatch(b, SubSeq(run[b].batch, 1, n))
  PROVE  /\ Ordered(b)'
         /\ \A x \in Rows(SubSeq(run[b].batch, 1, n)), y \in Waiting(b)' :
              x.isNew /\ y.isNew => x.id < y.id
<1> DEFINE q == run[b].batch
           rest == SubSeq(q, n + 1, Len(q))
           w == Rows(SubSeq(q, 1, n))
<1>1. /\ run'[b].batch = rest /\ run'[b].todo = run[b].todo
      /\ run'[b].buffer = run[b].buffer /\ run'[b].stale = run[b].stale
      /\ Waiting(b)' = Waiting(b) \ w /\ Ids' = Ids \cup RowIds(w)
  BY BatchMoves
<1>2. /\ run[b].buffer = << >> /\ Rows(q) = w \cup Rows(rest)
      /\ \A x \in w, y \in Rows(rest) : x.id # y.id
  BY SplitBatch
<1>3. q \in Seq(Pending) /\ Len(q) \in Nat /\ n \in Nat /\ n <= Len(q) /\ ById(q)
  BY BatchIsSeq DEF Ordered
<1>4. /\ DOMAIN rest = 1..(Len(q) - n)
      /\ \A k \in 1..(Len(q) - n) : rest[k] = q[k + n] /\ k + n \in DOMAIN q
      /\ \A k \in 1..n : SubSeq(q, 1, n)[k] = q[k] /\ k \in DOMAIN q
      /\ DOMAIN SubSeq(q, 1, n) = 1..n
  BY <1>3
<1> HIDE DEF q, rest
<1>5. ById(rest)
  <2> SUFFICES ASSUME NEW k \in DOMAIN rest, NEW l \in DOMAIN rest, k < l,
                      rest[k].isNew, rest[l].isNew
               PROVE  rest[k].id < rest[l].id
    BY DEF ById
  <2>1. k + n < l + n
    BY <1>3, <1>4
  <2> QED BY <1>3, <1>4, <2>1 DEF ById
<1>6. ASSUME NEW x \in w, NEW y \in Waiting(b)', x.isNew, y.isNew PROVE x.id < y.id
  <2>1. CASE y \in Rows(rest)
    <3>1. PICK l \in DOMAIN rest : y = rest[l]
      BY <2>1 DEF Rows
    <3>2. PICK k \in 1..n : x = q[k]
      BY <1>4 DEF Rows
    <3>3. k < l + n /\ k \in DOMAIN q /\ l + n \in DOMAIN q /\ y = q[l + n]
      BY <1>3, <1>4, <3>1
    <3> QED BY <1>3, <1>6, <3>2, <3>3 DEF ById
  <2>2. CASE y \in run[b].todo
    <3>1. x \in Rows(run[b].batch)
      BY <1>2 DEF q
    <3> QED BY <1>6, <2>2, <3>1 DEF Ordered
  <2>3. y \in run[b].todo \cup Rows(rest)
    BY <1>1, <1>2 DEF Waiting, Rows
  <2> QED BY <2>1, <2>2, <2>3
<1>7. ASSUME NEW y \in Waiting(b)'
      PROVE  (y.isNew => \A i \in Ids' : i < y.id) /\ y.id \notin run'[b].stale
  <2>1. y \in Waiting(b)
    BY <1>1
  <2>2. ASSUME y.isNew, NEW i \in RowIds(w) PROVE i < y.id
    <3>1. PICK x \in w : i = x.id
      BY <2>2 DEF RowIds
    <3>2. CASE x.isNew
      BY <1>6, <2>2, <3>1, <3>2
    <3>3. CASE ~x.isNew
      <4>1. x \in Waiting(b)
        BY <1>2 DEF Waiting, q
      <4>2. x.id \in Ids
        BY <3>3, <4>1 DEF OwnIds, Owed
      <4> QED BY <2>1, <2>2, <3>1, <4>2 DEF Ordered
    <3> QED BY <3>2, <3>3
  <2> QED BY <1>1, <2>1, <2>2 DEF Ordered
<1>8. ASSUME NEW x \in run[b].todo, x.isNew
      PROVE  \A y \in Rows(run[b].buffer) \cup Rows(rest) : y.isNew => y.id < x.id
  <2>1. Rows(rest) \subseteq Rows(run[b].batch)
    BY <1>2 DEF q
  <2> QED BY <1>8, <2>1 DEF Ordered
<1> HIDE DEF w
<1>9. Ordered(b)'
  BY <1>1, <1>5, <1>7, <1>8 DEF Ordered, ById, Rows
<1> QED BY <1>6, <1>9 DEF w, q

LEMMA StepOrder ==
  ASSUME TypeOK, TablesAgree, NEW b \in Builders, Queued(b), Ending(b),
         Working(b) => PlanInv(b) /\ Ordered(b), Step(b), Working(b)'
  PROVE  Ordered(b)'
<1>1. CASE Open(b)
  <2>1. /\ run'[b].todo = {} /\ run'[b].buffer = << >> /\ run'[b].batch = << >>
    BY <1>1 DEF Open, TypeOK, RunStates, Queued, Working
  <2> QED BY <2>1 DEF Ordered, ById, Waiting, Rows
<1>2. CASE Diff(b)
  BY <1>2, VisitOrder DEF Diff, Working, Queued
<1>3. CASE Take(b)
  BY <1>3, TakeOrder DEF Take, Working, Queued
<1>4. CASE \/ Exhaust(b) \/ Continue(b)
           \/ CheckCalibration(b) /\ run' = [run EXCEPT ![b].pc = "store"]
  <2>1. run[b] \in RunStates /\ UNCHANGED tables /\ Working(b)
    BY <1>4 DEF Exhaust, Continue, CheckCalibration, TypeOK, Working
  <2>2. /\ run'[b].todo = run[b].todo /\ run'[b].buffer = run[b].buffer
        /\ run'[b].batch = run[b].batch /\ run'[b].stale = run[b].stale
    BY <1>4, <2>1 DEF Exhaust, Continue, CheckCalibration, TypeOK, RunStates
  <2>3. Ids' = Ids
    BY <2>1 DEF tables, Ids
  <2> QED BY <2>1, <2>2, <2>3 DEF Ordered, ById, Waiting, Rows
<1>5. CASE (CheckCalibration(b) \/ StoreCalibration(b)) /\ ReleaseBuffer(b)
  <2>1. Working(b) /\ OwnIds(b) /\ UNCHANGED <<snapshot, listed, tables>>
    BY <1>5 DEF CheckCalibration, StoreCalibration, Working, Queued
  <2> QED BY <1>5, <2>1, ReleaseOrder
<1>6. CASE Flush(b) \/ Drain(b)
  <2>1. PICK n \in 1..Len(run[b].batch) : WriteBatch(b, SubSeq(run[b].batch, 1, n))
    BY <1>6, FlushOrDrainWrites
  <2>2. OwnIds(b) /\ Working(b)
    BY <1>6, FlushOrDrainWrites DEF Queued
  <2> QED BY <2>1, <2>2, WriteOrder
<1>7. CASE Finish(b)
  <2>1. run'[b] = [EmptyRun EXCEPT !.pc = "done", !.limit = run[b].limit,
                                   !.written = run[b].written, !.alone = run[b].alone]
    BY <1>7 DEF Finish, TypeOK
  <2> QED BY <2>1 DEF EmptyRun, Working
<1>8. CASE CheckCalibration(b) \/ StoreCalibration(b)
  <2>1. ReleaseBuffer(b) \/ (CheckCalibration(b) /\ run' = [run EXCEPT ![b].pc = "store"])
    BY <1>8 DEF CheckCalibration, StoreCalibration
  <2> QED BY <1>4, <1>5, <1>8, <2>1
<1> QED BY <1>1, <1>2, <1>3, <1>4, <1>6, <1>7, <1>8 DEF Step

(* A lone builder at any time: everything its steps rely on.               *)
SoloInv == TypeOK /\ TablesAgree /\ ConvergeInv /\ ActiveAlone /\ OrderInv

LEMMA SoloStep ==
  ASSUME Single, SoloInv, NEW b \in Builders, Step(b)
  PROVE  /\ Queued(b) /\ Ending(b) /\ (Working(b) => PlanInv(b) /\ Ordered(b))
         /\ \A e \in Builders : e = b
<1>1. Active(b)
  BY StepAlone DEF SoloInv
<1>2. Converging(b)
  BY <1>1 DEF SoloInv, ActiveAlone, ConvergeInv
<1> QED BY <1>2 DEF SoloInv, Converging, OrderInv, Single

LEMMA NextOrder ==
  ASSUME Single, SoloInv, [Next]_vars
  PROVE  OrderInv'
<1> SUFFICES ASSUME NEW b \in Builders, Working(b)' PROVE Ordered(b)'
  BY DEF OrderInv
<1>1. CASE Snapshot(b)
  <2>1. run'[b] = [EmptyRun EXCEPT !.pc = "copied", !.number = runs + 1,
                                   !.alone = \A e \in Builders : ~Active(e)]
    BY <1>1 DEF Snapshot
  <2> QED BY <2>1 DEF EmptyRun, Working
<1>2. CASE Step(b)
  BY <1>2, SoloStep, StepOrder DEF SoloInv
<1>3. CASE Crash(b)
  BY <1>3 DEF Crash, EmptyRun, Working, SoloInv, TypeOK
<1>4. CASE UNCHANGED vars
  <2>1. run' = run /\ Ids' = Ids
    BY <1>4 DEF vars, tables, Ids
  <2> QED BY <2>1 DEF SoloInv, OrderInv, Working, Ordered, ById, Waiting, Rows
<1> QED BY <1>1, <1>2, <1>3, <1>4 DEF Next, Single

-----------------------------------------------------------------------------
(* Lists in the order of ids.                                              *)

LEMMA InOrderFacts ==
  ASSUME NEW S \in SUBSET Nat, IsFiniteSet(S), NEW table
  PROVE  LET list == InOrder(S, table)
         IN /\ DOMAIN list = 1..Cardinality(S) /\ Cardinality(S) \in Nat
            /\ \A i \in S : Place(S, i) \in 1..Cardinality(S) /\ list[Place(S, i)] = table[i]
            /\ \A T : (\A i \in S : table[i] \in T) => list \in Seq(T) /\ Len(list) = Cardinality(S)
<1> DEFINE list == InOrder(S, table)
           n == Cardinality(S)
           at(p) == CHOOSE i \in S : Place(S, i) = p
<1>1. n \in Nat
  BY FS_CardinalityType
<1>2. list = [p \in 1..n |-> table[at(p)]]
  BY DEF InOrder, Place
<1>3. ASSUME NEW p \in 1..n PROVE at(p) \in S /\ Place(S, at(p)) = p
  BY PlacesTaken
<1>4. ASSUME NEW i \in S, NEW j \in S, Place(S, i) = Place(S, j) PROVE i = j
  <2>1. i \in Nat /\ j \in Nat /\ Place(S, i) \in Nat
    BY <1>1, PlaceBounds
  <2>2. ~(i < j) /\ ~(j < i)
    BY <1>4, <2>1, PlaceGrows
  <2> QED BY <2>1, <2>2
<1>5. ASSUME NEW i \in S PROVE Place(S, i) \in 1..n /\ list[Place(S, i)] = table[i]
  <2>1. Place(S, i) \in 1..n
    BY PlaceBounds
  <2>2. at(Place(S, i)) = i
    BY <1>3, <1>4, <2>1
  <2> HIDE DEF at, n
  <2> QED BY <1>2, <2>1, <2>2
<1> HIDE DEF at, n
<1>6. ASSUME NEW T, \A i \in S : table[i] \in T PROVE list \in Seq(T) /\ Len(list) = n
  <2>1. \A p \in 1..n : table[at(p)] \in T
    BY <1>3, <1>6
  <2> HIDE DEF list
  <2> QED BY ONLY <1>1, <1>2, <2>1
<1>7. DOMAIN list = 1..n
  BY <1>2
<1> HIDE DEF list
<1> QED BY <1>1, <1>5, <1>6, <1>7 DEF n, list

(* A list that starts like another.                                        *)
LEMMA InOrderStarts ==
  ASSUME NEW S \in SUBSET Nat, IsFiniteSet(S), NEW table, NEW T, \A i \in S : table[i] \in T,
         NEW list \in Seq(T), Len(list) <= Cardinality(S),
         \A i \in S : Place(S, i) <= Len(list) => table[i] = list[Place(S, i)]
  PROVE  /\ Len(list) <= Len(InOrder(S, table))
         /\ SubSeq(InOrder(S, table), 1, Len(list)) = list
         /\ Cardinality(S) = Len(list) => InOrder(S, table) = list
<1> DEFINE all == InOrder(S, table)
           n == Cardinality(S)
<1>1. /\ n \in Nat /\ all \in Seq(T) /\ Len(all) = n
      /\ \A i \in S : all[Place(S, i)] = table[i]
  BY InOrderFacts
<1>2. ASSUME NEW p \in 1..Len(list) PROVE all[p] = list[p]
  <2>1. p \in 1..n
    BY <1>1
  <2>2. PICK i \in S : Place(S, i) = p
    BY <2>1, PlacesTaken
  <2> QED BY <1>1, <2>2
<1> HIDE DEF all, n
<1>3. Len(list) \in Nat /\ Len(list) <= n
  BY DEF n
<1>4. SubSeq(all, 1, Len(list)) = list
  <2>1. /\ SubSeq(all, 1, Len(list)) \in Seq(T) /\ Len(SubSeq(all, 1, Len(list))) = Len(list)
        /\ \A p \in 1..Len(list) : SubSeq(all, 1, Len(list))[p] = all[p]
    BY <1>1, <1>3
  <2> QED BY <1>2, <2>1
<1>5. ASSUME n = Len(list) PROVE all = list
  BY <1>1, <1>2, <1>5
<1> QED BY <1>1, <1>3, <1>4, <1>5 DEF all, n

(* Only the entries of a table that are listed matter.                     *)
LEMMA SameList ==
  ASSUME NEW S \in SUBSET Nat, IsFiniteSet(S), NEW table, NEW other,
         \A i \in S : table[i] = other[i]
  PROVE  InOrder(S, table) = InOrder(S, other)
<1> DEFINE at(p) == CHOOSE i \in S : Place(S, i) = p
<1>1. \A p \in 1..Cardinality(S) : at(p) \in S
  BY PlacesTaken
<1>2. /\ InOrder(S, table) = [p \in 1..Cardinality(S) |-> table[at(p)]]
      /\ InOrder(S, other) = [p \in 1..Cardinality(S) |-> other[at(p)]]
  BY DEF InOrder, Place
<1> HIDE DEF at
<1> QED BY <1>1, <1>2

(* In a set that lies below the rest of a larger one, places are the same. *)
LEMMA SamePlaces ==
  ASSUME NEW F \in SUBSET Nat, NEW S \in SUBSET F, \A i \in S, j \in F \ S : i < j,
         NEW i \in S
  PROVE  Place(S, i) = Place(F, i)
<1>1. ASSUME NEW j \in F, j <= i PROVE j \in S
  <2> SUFFICES ASSUME j \notin S PROVE FALSE
    OBVIOUS
  <2>1. i < j /\ i \in Nat /\ j \in Nat
    OBVIOUS
  <2> QED BY ONLY <1>1, <2>1
<1>2. {j \in S : j <= i} = {j \in F : j <= i}
  BY <1>1
<1> QED BY <1>2 DEF Place

(* A list grows toward its goal: the ids of the list, before (S) and after *)
(* (S2), are the first of the ids the finished list has (F), and what is   *)
(* new among them is the goal's at its final place.                        *)
Grows(F, S, S2, table, table2, aim) ==
  /\ F \in SUBSET Nat /\ IsFiniteSet(F) /\ S \subseteq S2 /\ S2 \subseteq F
  /\ \A i \in S, j \in F \ S : i < j
  /\ \A i \in S2, j \in F \ S2 : i < j
  /\ \A i \in S2 : \/ i \in S /\ table2[i] = table[i]
                   \/ Place(F, i) \in DOMAIN aim /\ table2[i] = aim[Place(F, i)]

LEMMA GrownList ==
  ASSUME NEW F, NEW S, NEW S2, NEW table, NEW table2, NEW aim,
         Grows(F, S, S2, table, table2, aim),
         NEW T, \A i \in S2 : table2[i] \in T
  PROVE  LET old == InOrder(S, table)
             new == InOrder(S2, table2)
         IN /\ new \in Seq(T) /\ Len(old) <= Len(new)
            /\ \A p \in DOMAIN new : \/ p \in DOMAIN old /\ new[p] = old[p]
                                     \/ p \in DOMAIN aim /\ new[p] = aim[p]
<1>0. /\ F \in SUBSET Nat /\ IsFiniteSet(F) /\ S \subseteq S2 /\ S2 \subseteq F
      /\ \A i \in S, j \in F \ S : i < j
      /\ \A i \in S2, j \in F \ S2 : i < j
      /\ \A i \in S2 : \/ i \in S /\ table2[i] = table[i]
                       \/ Place(F, i) \in DOMAIN aim /\ table2[i] = aim[Place(F, i)]
  BY DEF Grows
<1> DEFINE old == InOrder(S, table)
           new == InOrder(S2, table2)
<1>1. /\ S \in SUBSET Nat /\ S2 \in SUBSET Nat /\ S \in SUBSET F
      /\ IsFiniteSet(S) /\ IsFiniteSet(S2) /\ Cardinality(S) <= Cardinality(S2)
  <2>1. IsFiniteSet(S2)
    BY <1>0, FS_Subset
  <2> QED BY <1>0, <2>1, FS_Subset
<1>2. /\ DOMAIN old = 1..Cardinality(S) /\ Cardinality(S) \in Nat
      /\ \A i \in S : Place(S, i) \in 1..Cardinality(S) /\ old[Place(S, i)] = table[i]
  BY <1>1, InOrderFacts
<1>3. /\ DOMAIN new = 1..Cardinality(S2) /\ Cardinality(S2) \in Nat
      /\ new \in Seq(T) /\ Len(new) = Cardinality(S2)
      /\ \A i \in S2 : new[Place(S2, i)] = table2[i]
  BY <1>1, InOrderFacts
<1>4. Len(old) = Cardinality(S)
  <2>1. \A i \in S : table[i] \in {table[j] : j \in S}
    OBVIOUS
  <2> QED BY <1>1, <2>1, InOrderFacts
<1>5. ASSUME NEW p \in DOMAIN new
      PROVE  \/ p \in DOMAIN old /\ new[p] = old[p]
             \/ p \in DOMAIN aim /\ new[p] = aim[p]
  <2>1. PICK i \in S2 : Place(S2, i) = p
    BY <1>1, <1>3, PlacesTaken
  <2>2. Place(F, i) = p /\ new[p] = table2[i]
    BY <1>0, <1>1, <1>3, <2>1, SamePlaces
  <2>3. CASE i \in S /\ table2[i] = table[i]
    <3>1. Place(S, i) = p
      BY <1>0, <1>1, <2>2, <2>3, SamePlaces
    <3> QED BY <1>2, <2>2, <2>3, <3>1
  <2>4. CASE Place(F, i) \in DOMAIN aim /\ table2[i] = aim[Place(F, i)]
    BY <2>2, <2>4
  <2> QED BY <1>0, <2>3, <2>4
<1> QED BY <1>1, <1>3, <1>4, <1>5

-----------------------------------------------------------------------------
(* The steps of PositionalSync.                                            *)

(* The functions that stand for PositionalSync's variables.                *)
Lists == [c \in Chats |-> View(c)]
Goals == [c \in Chats |-> Goal(c)]

LEMMA IdsOfFacts ==
  ASSUME TypeOK, NEW c
  PROVE  IdsOf(c) \in SUBSET Nat /\ IsFiniteSet(IdsOf(c)) /\ IdsOf(c) \subseteq Ids
<1>1. IdsOf(c) \subseteq Ids
  BY DEF IdsOf
<1> QED BY <1>1, FS_Subset DEF TypeOK

LEMMA MembersType ==
  ASSUME TypeOK, TablesAgree, NEW i \in Ids
  PROVE  chunkMessage[i] \in SUBSET Messages
<1>1. chunks[i].body \in Contents /\ chunkMessage[i] = DOMAIN chunks[i].body
  BY DEF TypeOK, TablesAgree
<1> QED BY <1>1, ContentIsFunction

LEMMA ViewType ==
  ASSUME TypeOK, TablesAgree, NEW c
  PROVE  View(c) \in Seq(SUBSET Messages)
<1>1. \A i \in IdsOf(c) : chunkMessage[i] \in SUBSET Messages
  BY IdsOfFacts, MembersType
<1>2. IdsOf(c) \in SUBSET Nat /\ IsFiniteSet(IdsOf(c))
  BY IdsOfFacts
<1> QED BY <1>1, <1>2, InOrderFacts DEF View

LEMMA FreshType ==
  ASSUME TypeOK, NEW c \in Chats
  PROVE  /\ ChunkList[snapshot[c]] \in Seq(SUBSET Messages)
         /\ DOMAIN ChunkList[snapshot[c]] = 1..Len(ChunkList[snapshot[c]])
<1> DEFINE k == snapshot[c]
<1>1. k \in Contents /\ DOMAIN k \subseteq Messages
  BY ContentIsFunction DEF TypeOK
<1>2. ChunkList[k] \in Seq((SUBSET DOMAIN k) \ {{}})
  BY <1>1, ChunkListAssumption
<1>3. (SUBSET DOMAIN k) \ {{}} \subseteq SUBSET Messages
  BY <1>1
<1> QED BY <1>2, <1>3

(* What leaves the tables, the snapshot and the listed chats alone leaves  *)
(* both functions alone.                                                   *)
LEMMA IndexKept ==
  UNCHANGED <<snapshot, listed, tables>> => UNCHANGED <<Lists, Goals>>
<1> SUFFICES ASSUME UNCHANGED <<snapshot, listed, tables>> PROVE UNCHANGED <<Lists, Goals>>
  OBVIOUS
<1>1. \A c : IdsOf(c)' = IdsOf(c) /\ chunkMessage' = chunkMessage
  BY DEF tables, IdsOf, Ids
<1>2. \A c : View(c)' = View(c)
  BY <1>1 DEF View
<1>3. \A c : Goal(c)' = Goal(c)
  BY <1>2 DEF Goal, OnlyReactions
<1> QED BY <1>2, <1>3 DEF Lists, Goals

(* What a batch transaction does to the ids of a conversation.             *)
LEMMA CommitIds ==
  ASSUME TypeOK, TablesAgree, NEW b \in Builders, OwnIds(b),
         NEW n \in 1..Len(run[b].batch), WriteBatch(b, SubSeq(run[b].batch, 1, n)), NEW c
  PROVE  LET w == Rows(SubSeq(run[b].batch, 1, n))
         IN /\ IdsOf(c)' = IdsOf(c) \cup {x.id : x \in {y \in w : y.chat = c}}
            /\ \A i \in IdsOf(c)' : \/ i \in IdsOf(c) /\ chunkMessage'[i] = chunkMessage[i]
                                    \/ \E x \in w : /\ x.id = i /\ x.chat = c
                                                    /\ chunkMessage'[i] = DOMAIN x.body
            /\ w \subseteq Waiting(b) /\ Waiting(b)' = Waiting(b) \ w
<1>1. PICK w \in SUBSET Waiting(b) :
        /\ w = Rows(SubSeq(run[b].batch, 1, n))
        /\ Waiting(b)' = Waiting(b) \ w
        /\ Ids' = Ids \cup RowIds(w)
        /\ \A x \in w : /\ chunks'[x.id] = [chat |-> x.chat, body |-> x.body]
                        /\ chunkMessage'[x.id] = DOMAIN x.body
        /\ \A i \in Ids \ RowIds(w) : chunks'[i] = chunks[i] /\ chunkMessage'[i] = chunkMessage[i]
  BY BatchMoves
<1>2. \A x \in w : ~x.isNew => chunks[x.id].chat = x.chat
  BY DEF OwnIds, Owed
<1>3. ASSUME NEW x \in w PROVE x.id \in Ids' /\ chunks'[x.id].chat = x.chat
  <2>1. chunks'[x.id] = [chat |-> x.chat, body |-> x.body]
    BY <1>1
  <2>2. chunks'[x.id].chat = x.chat
    BY <2>1
  <2> QED BY <1>1, <2>2 DEF RowIds
<1>4. ASSUME NEW i \in IdsOf(c)
      PROVE  i \in IdsOf(c)'
  <2>1. i \in Ids /\ chunks[i].chat = c
    BY <1>4 DEF IdsOf
  <2>2. CASE i \in RowIds(w)
    <3>1. PICK x \in w : x.id = i
      BY <2>2 DEF RowIds
    <3>2. ~x.isNew
      BY <2>1, <3>1 DEF OwnIds, Owed
    <3> QED BY <1>2, <1>3, <2>1, <3>1, <3>2 DEF IdsOf
  <2>3. CASE i \notin RowIds(w)
    BY <1>1, <2>1, <2>3 DEF IdsOf
  <2> QED BY <2>2, <2>3
<1>5. ASSUME NEW i \in IdsOf(c)'
      PROVE  \/ i \in IdsOf(c) /\ chunkMessage'[i] = chunkMessage[i]
             \/ \E x \in w : x.id = i /\ x.chat = c /\ chunkMessage'[i] = DOMAIN x.body
  <2>1. i \in Ids' /\ chunks'[i].chat = c
    BY <1>5 DEF IdsOf
  <2>2. CASE i \in RowIds(w)
    <3>1. PICK x \in w : x.id = i
      BY <2>2 DEF RowIds
    <3> QED BY <1>1, <1>3, <2>1, <3>1
  <2>3. CASE i \notin RowIds(w)
    BY <1>1, <2>1, <2>3 DEF IdsOf
  <2> QED BY <2>2, <2>3
<1>6. \A x \in w : x.chat = c => x.id \in IdsOf(c)'
  BY <1>3 DEF IdsOf
<1>7. IdsOf(c)' = IdsOf(c) \cup {x.id : x \in {y \in w : y.chat = c}}
  BY <1>4, <1>5, <1>6
<1> QED BY <1>1, <1>5, <1>7

(* A batch transaction puts chunks of the goal where the goal has them.    *)
LEMMA CommitList ==
  ASSUME TypeOK, TablesAgree, TypeOK', TablesAgree', NEW b \in Builders,
         OwnIds(b), PlanInv(b), Ordered(b),
         NEW n \in 1..Len(run[b].batch), WriteBatch(b, SubSeq(run[b].batch, 1, n)),
         UNCHANGED <<snapshot, listed>>, NEW c \in Chats
  PROVE  /\ Goal(c)' = Goal(c)
         /\ View(c)' \in Seq(SUBSET Messages) /\ Len(View(c)) <= Len(View(c)')
         /\ \A p \in DOMAIN View(c)' : \/ p \in DOMAIN View(c) /\ View(c)'[p] = View(c)[p]
                                       \/ p \in DOMAIN Goal(c) /\ View(c)'[p] = Goal(c)[p]
<1> DEFINE w == Rows(SubSeq(run[b].batch, 1, n))
           S == IdsOf(c)
           S2 == IdsOf(c)'
           F == Final(b, c)
           aim == Goal(c)
<1>1. /\ S2 = S \cup {x.id : x \in {y \in w : y.chat = c}}
      /\ \A i \in S2 : \/ i \in S /\ chunkMessage'[i] = chunkMessage[i]
                       \/ \E x \in w : /\ x.id = i /\ x.chat = c
                                       /\ chunkMessage'[i] = DOMAIN x.body
      /\ w \subseteq Waiting(b) /\ Waiting(b)' = Waiting(b) \ w
  BY CommitIds
<1>2. \A x \in w, y \in Waiting(b)' : x.isNew /\ y.isNew => x.id < y.id
  BY WriteOrder
<1>3. F \in SUBSET Nat /\ IsFiniteSet(F) /\ S \subseteq F /\ S \subseteq Ids
  BY FinalIds
<1>4. \A x \in Waiting(b) : /\ x.isNew => \A i \in Ids : i < x.id
                            /\ ~x.isNew => x.id \in IdsOf(x.chat)
                            /\ x.chat \in listed \ run[b].rest /\ ~OnlyReactions(x.chat)
                            /\ x.id \notin run[b].stale
  BY DEF Ordered, OwnIds, Owed, PlanInv, IdsOf
<1>5. \A i \in S2 : chunkMessage'[i] \in SUBSET Messages
  <2>1. \A i \in Ids' : /\ chunks'[i].body \in Contents /\ chunkMessage'[i] = DOMAIN chunks'[i].body
    BY DEF TypeOK, TablesAgree
  <2>2. S2 \subseteq Ids'
    BY DEF IdsOf
  <2> QED BY <2>1, <2>2, ContentIsFunction
<1> HIDE DEF w, S, S2, F
<1>6. F = S \cup {x.id : x \in {y \in Waiting(b) : y.chat = c}}
  BY DEF F, S, Final
<1>7. S \subseteq S2 /\ S2 \subseteq F
  BY <1>1, <1>6
<1>8. ASSUME NEW j \in F \ S PROVE \E y \in Waiting(b) : y.id = j /\ y.chat = c /\ y.isNew
  <2>1. PICK y \in Waiting(b) : y.id = j /\ y.chat = c
    BY <1>6
  <2> QED BY <1>4, <2>1 DEF S
<1>9. \A i \in S, j \in F \ S : i < j
  BY <1>3, <1>4, <1>8
<1>10. ASSUME NEW i \in S2, NEW j \in F \ S2 PROVE i < j
  <2>1. PICK y \in Waiting(b) : y.id = j /\ y.chat = c /\ y.isNew
    BY <1>7, <1>8
  <2>2. y \in Waiting(b)'
    BY <1>1, <2>1
  <2>3. CASE i \in S
    BY <1>3, <1>4, <2>1, <2>3
  <2>4. CASE i \notin S
    <3>1. PICK x \in w : x.id = i /\ x.chat = c
      BY <1>1, <2>4
    <3>2. x.isNew
      BY <1>1, <1>4, <2>4, <3>1 DEF S
    <3> QED BY <1>2, <2>1, <2>2, <3>1, <3>2
  <2> QED BY <2>3, <2>4
<1>11. ASSUME NEW x \in w, x.chat = c
       PROVE  /\ Place(F, x.id) \in DOMAIN aim /\ DOMAIN x.body = aim[Place(F, x.id)]
  <2> DEFINE fresh == ChunkList[snapshot[c]]
  <2>1. x \in Waiting(b) /\ Planned(b, c) /\ aim = fresh
    BY <1>1, <1>4, <1>11 DEF PlanInv, Goal
  <2>2. x.id \in F
    BY <1>6, <1>11, <2>1
  <2>3. IF Place(F, x.id) <= Len(fresh)
        THEN Holds(b, x.id, fresh[Place(F, x.id)]) ELSE x.id \in run[b].stale
    BY <2>1, <2>2 DEF Planned, F
  <2>4. Place(F, x.id) <= Len(fresh) /\ Holds(b, x.id, fresh[Place(F, x.id)])
    BY <1>4, <2>1, <2>3
  <2>5. DOMAIN x.body = fresh[Place(F, x.id)]
    BY <2>1, <2>4, WaitingIds DEF Holds
  <2>6. Place(F, x.id) \in 1..Cardinality(F) /\ Cardinality(F) \in Nat
    BY <1>3, <2>2, PlaceBounds, FS_CardinalityType
  <2>7. DOMAIN fresh = 1..Len(fresh) /\ Len(fresh) \in Nat
    BY FreshType
  <2> HIDE DEF fresh
  <2> QED BY <2>1, <2>4, <2>5, <2>6, <2>7
<1>12. ASSUME NEW i \in S2
       PROVE  \/ i \in S /\ chunkMessage'[i] = chunkMessage[i]
              \/ Place(F, i) \in DOMAIN aim /\ chunkMessage'[i] = aim[Place(F, i)]
  BY <1>1, <1>11
<1> HIDE DEF aim
<1>13. LET old == InOrder(S, chunkMessage)
           new == InOrder(S2, chunkMessage')
       IN /\ new \in Seq(SUBSET Messages) /\ Len(old) <= Len(new)
          /\ \A p \in DOMAIN new : \/ p \in DOMAIN old /\ new[p] = old[p]
                                   \/ p \in DOMAIN aim /\ new[p] = aim[p]
  <2>1. Grows(F, S, S2, chunkMessage, chunkMessage', aim)
    BY <1>3, <1>7, <1>9, <1>10, <1>12 DEF Grows
  <2>2. PICK T : T = SUBSET Messages
    OBVIOUS
  <2>3. \A i \in S2 : chunkMessage'[i] \in T
    BY <1>5, <2>2
  <2>4. LET old == InOrder(S, chunkMessage)
            new == InOrder(S2, chunkMessage')
        IN /\ new \in Seq(T) /\ Len(old) <= Len(new)
           /\ \A p \in DOMAIN new : \/ p \in DOMAIN old /\ new[p] = old[p]
                                    \/ p \in DOMAIN aim /\ new[p] = aim[p]
    BY ONLY <2>1, <2>3, GrownList
  <2> QED BY <2>2, <2>4
<1>14. View(c) = InOrder(S, chunkMessage) /\ View(c)' = InOrder(S2, chunkMessage')
  BY DEF View, S, S2
<1>15. Goal(c)' = Goal(c)
  <2>1. CASE c \notin listed \/ ~OnlyReactions(c)
    BY <2>1 DEF Goal, OnlyReactions
  <2>2. CASE c \in listed /\ OnlyReactions(c)
    <3>1. \A x \in w : x.chat # c
      BY <1>1, <1>4, <2>2
    <3>2. S2 = S /\ \A i \in S : chunkMessage[i] = chunkMessage'[i]
      BY <1>1, <3>1
    <3>3. View(c)' = View(c)
      <4>1. S \in SUBSET Nat /\ IsFiniteSet(S)
        BY IdsOfFacts DEF S
      <4> QED BY <1>14, <3>2, <4>1, SameList
    <3> QED BY <2>2, <3>3 DEF Goal, OnlyReactions
  <2> QED BY <2>1, <2>2
<1> QED BY <1>13, <1>14, <1>15 DEF aim

(* Deleting the stale chunks leaves the goal.                              *)
LEMMA TrimList ==
  ASSUME TypeOK, TablesAgree, NEW b \in Builders, OwnIds(b), PlanInv(b), Ending(b),
         Finish(b), run[b].limit = NoLimit, NEW c \in Chats
  PROVE  /\ Len(Goal(c)) <= Len(View(c)) /\ SubSeq(View(c), 1, Len(Goal(c))) = Goal(c)
         /\ View(c)' = Goal(c) /\ Goal(c)' = Goal(c)
<1> DEFINE stale == run[b].stale
           S == IdsOf(c)
           S2 == IdsOf(c)'
<1>1. /\ chunks' = [i \in Ids \ stale |-> chunks[i]]
      /\ chunkMessage' = [i \in Ids \ stale |-> chunkMessage[i]]
      /\ UNCHANGED <<snapshot, listed>>
  BY DEF Finish, Without, Ids, TablesAgree
<1>2. run[b].rest = {} /\ run[b].todo = {} /\ run[b].buffer = << >> /\ run[b].batch = << >>
  BY DEF Finish, Ending
<1>3. Waiting(b) = {}
  BY <1>2 DEF Waiting, Rows
<1>4. S2 = S \ stale /\ \A i \in S2 : chunkMessage'[i] = chunkMessage[i]
  BY <1>1 DEF IdsOf, Ids
<1>5. S \in SUBSET Nat /\ IsFiniteSet(S) /\ S2 \in SUBSET Nat /\ IsFiniteSet(S2)
  BY <1>4, IdsOfFacts, FS_Subset
<1>6. \A i \in S : chunkMessage[i] \in SUBSET Messages
  BY IdsOfFacts, MembersType
<1>7. View(c) = InOrder(S, chunkMessage) /\ View(c)' = InOrder(S2, chunkMessage')
  BY DEF View
<1> HIDE DEF S, S2
<1>8. PICK T : T = SUBSET Messages
  OBVIOUS
<1>9. /\ \A i \in S : chunkMessage[i] \in T
      /\ \A i \in S2 : chunkMessage'[i] \in T
  BY <1>4, <1>6, <1>8
<1>10. CASE c \notin listed
  <2>1. Goal(c) = << >> /\ Goal(c)' = << >>
    BY <1>1, <1>10 DEF Goal
  <2>2. S2 = {} /\ Cardinality(S2) = 0
    BY <1>4, <1>10, FS_EmptySet DEF PlanInv, S, IdsOf
  <2>3. << >> \in Seq(T) /\ Len(<< >>) = 0
    OBVIOUS
  <2>4. Cardinality(S) \in Nat /\ \A i \in S : Place(S, i) \in Nat \ {0}
    BY <1>5, PlaceBounds, FS_CardinalityType
  <2>5. Len(<< >>) <= Cardinality(S) /\ \A i \in S : ~(Place(S, i) <= Len(<< >>))
    BY <2>3, <2>4
  <2>6. Len(<< >>) <= Len(InOrder(S, chunkMessage))
        /\ SubSeq(InOrder(S, chunkMessage), 1, Len(<< >>)) = << >>
    BY <1>5, <1>9, <2>3, <2>5, InOrderStarts
  <2>7. InOrder(S2, chunkMessage') = << >>
    <3>1. InOrder(S2, chunkMessage') \in Seq(T) /\ Len(InOrder(S2, chunkMessage')) = 0
      BY <1>5, <1>9, <2>2, InOrderFacts
    <3> QED BY <3>1
  <2> QED BY <1>7, <2>1, <2>6, <2>7
<1>11. CASE c \in listed /\ OnlyReactions(c)
  <2>1. \A i \in S : i \notin stale
    BY <1>11 DEF PlanInv, S, IdsOf
  <2>2. S2 = S
    BY <1>4, <2>1
  <2>3. InOrder(S2, chunkMessage') = InOrder(S, chunkMessage)
    BY <1>4, <1>5, <2>2, SameList
  <2>4. View(c)' = View(c) /\ Goal(c) = View(c) /\ Goal(c)' = View(c)
    BY <1>1, <1>7, <1>11, <2>3 DEF Goal, OnlyReactions
  <2>5. View(c) \in Seq(SUBSET Messages)
    BY ViewType
  <2>6. Len(View(c)) <= Len(View(c)) /\ SubSeq(View(c), 1, Len(View(c))) = View(c)
    BY <2>5
  <2> QED BY <2>4, <2>6
<1>12. CASE c \in listed /\ ~OnlyReactions(c)
  <2> DEFINE fresh == ChunkList[snapshot[c]]
             K2 == {k \in S : Place(S, k) <= Len(fresh)}
  <2>1. fresh \in Seq(T) /\ Len(fresh) \in Nat
    BY <1>8, FreshType
  <2>2. Final(b, c) = S /\ Planned(b, c)
    BY <1>2, <1>3, <1>12 DEF Final, PlanInv, S
  <2>3. /\ Len(fresh) <= Cardinality(S)
        /\ \A i \in S : IF Place(S, i) <= Len(fresh)
                        THEN i \notin stale /\ chunkMessage[i] = fresh[Place(S, i)]
                        ELSE i \in stale
    BY <1>3, <2>2 DEF Planned, Holds
  <2>4. Goal(c) = fresh /\ Goal(c)' = fresh
    BY <1>1, <1>12 DEF Goal, OnlyReactions
  <2> HIDE DEF fresh
  <2>5. S2 = K2
    BY <1>4, <2>3
  <2>6. (\A k \in K2 : Place(K2, k) = Place(S, k)) /\ Cardinality(K2) = Len(fresh)
    BY <1>5, <2>1, <2>3, FirstPlaces
  <2>7. /\ Len(fresh) <= Len(InOrder(S, chunkMessage))
        /\ SubSeq(InOrder(S, chunkMessage), 1, Len(fresh)) = fresh
    BY <1>5, <1>9, <2>1, <2>3, InOrderStarts
  <2>8. InOrder(S2, chunkMessage') = fresh
    <3>1. \A i \in S2 : chunkMessage'[i] = fresh[Place(S2, i)]
      BY <1>4, <2>3, <2>5, <2>6
    <3>2. Cardinality(S2) = Len(fresh)
      BY <2>5, <2>6
    <3> HIDE DEF K2
    <3> QED BY <1>5, <1>9, <2>1, <3>1, <3>2, InOrderStarts
  <2> QED BY <1>7, <2>4, <2>7, <2>8
<1> QED BY <1>10, <1>11, <1>12

LEMMA SnapshotRetargets ==
  ASSUME TypeOK, TablesAgree, TypeOK', TablesAgree', NEW b \in Builders, Snapshot(b)
  PROVE  Lists' = Lists /\ Goals' \in [Chats -> Seq(SUBSET Messages)]
<1>1. chunkMessage' = chunkMessage /\ \A c : IdsOf(c)' = IdsOf(c)
  BY DEF Snapshot, tables, IdsOf, Ids
<1>2. \A c : View(c)' = View(c)
  BY <1>1 DEF View
<1>3. ASSUME NEW c \in Chats PROVE Goal(c)' \in Seq(SUBSET Messages)
  <2>1. View(c)' \in Seq(SUBSET Messages)
    BY <1>2, ViewType
  <2>2. snapshot'[c] \in Contents
    BY DEF TypeOK
  <2>3. ChunkList[snapshot'[c]] \in Seq(SUBSET Messages)
    <3>1. PICK k \in Contents : k = snapshot'[c]
      BY <2>2
    <3>2. ChunkList[k] \in Seq((SUBSET DOMAIN k) \ {{}}) /\ DOMAIN k \subseteq Messages
      BY ChunkListAssumption, ContentIsFunction
    <3>3. (SUBSET DOMAIN k) \ {{}} \subseteq SUBSET Messages
      BY <3>2
    <3>4. ChunkList[k] \in Seq(SUBSET Messages)
      BY ONLY <3>2, <3>3
    <3> QED BY <3>1, <3>4
  <2>4. << >> \in Seq(SUBSET Messages)
    OBVIOUS
  <2>5. Goal(c)' = IF c \notin listed' THEN << >>
                   ELSE IF OnlyReactions(c)' THEN View(c)' ELSE ChunkList[snapshot'[c]]
    BY DEF Goal
  <2> QED BY <2>1, <2>3, <2>4, <2>5
<1> QED BY <1>2, <1>3 DEF Lists, Goals

-----------------------------------------------------------------------------
(* The refinement.                                                         *)

LEMMA SyncInit == Init => Positions!Init
<1> SUFFICES ASSUME Init PROVE Positions!Init
  OBVIOUS
<1>1. \A c : IdsOf(c) = {}
  BY DEF Init, IdsOf, Ids
<1>2. InOrder({}, chunkMessage) = << >>
  <2>1. Cardinality({}) = 0 /\ IsFiniteSet({})
    BY FS_EmptySet
  <2>2. InOrder({}, chunkMessage) \in Seq({}) /\ Len(InOrder({}, chunkMessage)) = 0
    BY <2>1, InOrderFacts
  <2> QED BY <2>2
<1>3. \A c : View(c) = << >>
  BY <1>1, <1>2 DEF View
<1>4. \A c : Goal(c) = << >>
  BY DEF Init, Goal
<1> QED BY <1>3, <1>4 DEF Positions!Init

LEMMA SyncNext ==
  ASSUME Single, SoloInv, TypeOK', TablesAgree', [Next]_vars
  PROVE  [Positions!Next]_(Positions!vars)
<1>0. TypeOK /\ TablesAgree
  BY DEF SoloInv
<1>1. ASSUME UNCHANGED <<Lists, Goals>> PROVE UNCHANGED Positions!vars
  BY <1>1 DEF Positions!vars, Lists, Goals
<1>2. ASSUME NEW b \in Builders, Snapshot(b) PROVE Positions!Retarget
  <2>1. Lists' = Lists /\ Goals' \in [Chats -> Seq(SUBSET Messages)]
    BY <1>0, <1>2, SnapshotRetargets
  <2> QED BY <2>1 DEF Positions!Retarget, Lists, Goals
<1>3. ASSUME NEW b \in Builders, Flush(b) \/ Drain(b) PROVE Positions!Commit
  <2>1. PICK n \in 1..Len(run[b].batch) : WriteBatch(b, SubSeq(run[b].batch, 1, n))
    BY <1>0, <1>3, FlushOrDrainWrites
  <2>2. OwnIds(b) /\ PlanInv(b) /\ Ordered(b) /\ UNCHANGED <<snapshot, listed>>
    BY <1>0, <1>3, SoloStep, FlushOrDrainWrites DEF Step, Queued
  <2>3. ASSUME NEW c \in Chats
        PROVE  /\ Goal(c)' = Goal(c)
               /\ View(c)' \in Seq(SUBSET Messages) /\ Len(View(c)) <= Len(View(c)')
               /\ \A p \in DOMAIN View(c)' : \/ p \in DOMAIN View(c) /\ View(c)'[p] = View(c)[p]
                                             \/ p \in DOMAIN Goal(c) /\ View(c)'[p] = Goal(c)[p]
    BY <1>0, <2>1, <2>2, CommitList
  <2> QED BY <2>3 DEF Positions!Commit
<1>4. ASSUME NEW b \in Builders, Finish(b) PROVE Positions!Trim \/ UNCHANGED Positions!vars
  <2>1. CASE run[b].limit = NoLimit
    <3>1. OwnIds(b) /\ PlanInv(b) /\ Ending(b)
      BY <1>4, SoloStep DEF Step, Queued, Finish, Working
    <3>2. ASSUME NEW c \in Chats
          PROVE  /\ Len(Goal(c)) <= Len(View(c)) /\ SubSeq(View(c), 1, Len(Goal(c))) = Goal(c)
                 /\ View(c)' = Goal(c) /\ Goal(c)' = Goal(c)
      BY <1>0, <1>4, <2>1, <3>1, TrimList
    <3> QED BY <3>2 DEF Positions!Trim
  <2>2. CASE run[b].limit # NoLimit
    BY <1>1, <1>4, <2>2, IndexKept DEF Finish
  <2> QED BY <2>1, <2>2
<1>5. ASSUME NEW b \in Builders, Step(b) \/ Crash(b), ~(Flush(b) \/ Drain(b) \/ Finish(b))
      PROVE  UNCHANGED Positions!vars
  <2>1. UNCHANGED <<snapshot, listed, tables>>
    BY <1>5 DEF Step, Crash, Open, Diff, Take, Exhaust, CheckCalibration, StoreCalibration, Continue
  <2> QED BY <1>1, <2>1, IndexKept
<1>6. CASE UNCHANGED vars
  BY <1>1, <1>6, IndexKept DEF vars
<1> QED BY <1>2, <1>3, <1>4, <1>5, <1>6 DEF Next, Positions!Next

(* A build that no other build overlaps does to the index what             *)
(* PositionalSync says and nothing else: a batch transaction only puts     *)
(* chunks of the snapshot's list where that list has them, no chunk moves  *)
(* or disappears before the run is complete, and a run that no limit cut   *)
(* short ends with exactly the lists of the snapshot (iter_pending_chunks, *)
(* build_index, build.py:325-612).                                         *)
THEOREM SoloSyncsByPosition == ASSUME Single PROVE Spec => SyncsByPosition
<1>1. Init => ConvergeInv /\ ActiveAlone /\ OrderInv
  BY DEF Init, ConvergeInv, ActiveAlone, OrderInv, EmptyRun, Active, Working
<1>2. TypeOK /\ TablesAgree /\ ConvergeInv /\ ActiveAlone /\ OrderInv /\ [Next]_vars
        => (ConvergeInv /\ ActiveAlone /\ OrderInv)'
  BY NextConverge, NextActiveAlone, NextOrder DEF SoloInv
<1>3. SoloInv /\ TypeOK' /\ TablesAgree' /\ [Next]_vars => [Positions!Next]_(Positions!vars)
  BY SyncNext
<1>4. Spec => Positions!Spec
  BY <1>1, <1>2, <1>3, SyncInit, TypeCorrect, TablesAlwaysAgree, PTL DEF Spec, SoloInv, Positions!Spec
<1> QED BY <1>4 DEF SyncsByPosition

==============================================================================
