---------------------------- MODULE MCIndexBuild ----------------------------
(***************************************************************************)
(* Instances of IndexBuild for TLC: conversations over a few messages with *)
(* chunk lists computed by the real chunker.  A message is its position in *)
(* time; Late lies a long pause after its predecessor.                     *)
(***************************************************************************)
EXTENDS IndexSync, TLC

CONSTANT Late   \* the messages that follow a long pause

C == INSTANCE Chunker WITH GapThreshold <- 3, TokenTarget <- 100, MaxMessages <- 2,
                           Overlap <- 1, Pauses <- {}, Lengths <- {}, MaxLength <- 0,
                           messages <- << >>

When(m) == m + 10 * Cardinality({l \in Late : l <= m})

(* Builders differ in nothing but their names.                             *)
BuilderSymmetry == Permutations(Builders)

(* The messages of a content in order of date, as the chunker sees them.   *)
Sorted(S) == [k \in 1..Cardinality(S) |->
                CHOOSE m \in S : Cardinality({n \in S : n <= m}) = k]
AsMessages(S) == [k \in 1..Cardinality(S) |->
                    [id |-> Sorted(S)[k], ts |-> When(Sorted(S)[k]), tokens |-> 1]]

MCChunkList ==
  [k \in Contents |->
     LET list == C!ChunkMessages(AsMessages(DOMAIN k))
     IN [p \in DOMAIN list |-> {list[p][j].id : j \in DOMAIN list[p]}]]
=============================================================================
