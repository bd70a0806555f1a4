------------------------------- MODULE IndexSync -------------------------------
(***************************************************************************)
(* The builder of IndexBuild as an implementation of PositionalSync: the   *)
(* lists of chunks a reader of the index sees, and what the snapshot asks  *)
(* them to become.                                                         *)
(***************************************************************************)
EXTENDS IndexBuild

(* The entries of a table in the order of their ids.                       *)
InOrder(ids, table) ==
  [p \in 1..Cardinality(ids) |->
     table[CHOOSE i \in ids : Cardinality({j \in ids : j <= i}) = p]]

(* The list a reader sees: a chat's chunks in the order of their ids.      *)
View(c) == InOrder(IdsOf(c), chunkMessage)
Goal(c) == IF c \notin listed THEN << >>
           ELSE IF OnlyReactions(c) THEN View(c) ELSE ChunkList[snapshot[c]]

Positions == INSTANCE PositionalSync WITH
  Chunk <- SUBSET Messages,
  lists <- [c \in Chats |-> View(c)],
  goal <- [c \in Chats |-> Goal(c)]

(* A build that no other build overlaps implements PositionalSync: ids,    *)
(* batches, calibration and crashes never move a chunk or put one in a     *)
(* place that is not its own, and a complete run ends at the goal.         *)
SyncsByPosition == Positions!Spec
=============================================================================
