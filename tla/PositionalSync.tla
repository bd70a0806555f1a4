---------------------------- MODULE PositionalSync ----------------------------
(***************************************************************************)
(* What a sync promises, without ids, batches, calibration or crashes: for *)
(* every conversation the index holds a list of chunks, and the snapshot   *)
(* sets a goal for it.  A commit puts chunks of the goal where the goal    *)
(* has them; a complete pass ends with the lists equal to the goal.        *)
(***************************************************************************)
EXTENDS Integers, Sequences

CONSTANTS Chats, Chunk   \* conversations, and the chunks a list may hold

VARIABLES
  lists,  \* the chunks the index shows for each conversation, in order
  goal    \* the chunks the last snapshot has for it

vars == <<lists, goal>>

Init == lists = [c \in Chats |-> << >>] /\ goal = lists

(* A new snapshot is taken; the index does not change.                     *)
Retarget ==
  /\ UNCHANGED lists
  /\ goal' \in [Chats -> Seq(Chunk)]

(* Some positions are overwritten with the goal's chunk at that position,  *)
(* and lists may grow at the end; no chunk moves and none disappears.      *)
Commit ==
  /\ UNCHANGED goal
  /\ \A c \in Chats :
       LET old == lists[c]
           new == lists'[c]
           aim == goal[c]
       IN /\ new \in Seq(Chunk)
          /\ Len(old) <= Len(new)
          /\ \A p \in DOMAIN new : \/ p \in DOMAIN old /\ new[p] = old[p]
                                   \/ p \in DOMAIN aim /\ new[p] = aim[p]

(* The pass is complete: what lies past the end of the goal goes, and what *)
(* is left is the goal.                                                    *)
Trim ==
  /\ \A c \in Chats : LET n == Len(goal[c])
                      IN n <= Len(lists[c]) /\ SubSeq(lists[c], 1, n) = goal[c]
  /\ lists' = goal
  /\ UNCHANGED goal

Next == Retarget \/ Commit \/ Trim

Spec == Init /\ [][Next]_vars
=============================================================================
