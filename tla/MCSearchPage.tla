---------------------------- MODULE MCSearchPage ----------------------------
(***************************************************************************)
(* Instances of SearchPage for TLC: three sessions, ranked differently for *)
(* every text; a parse filters the first out, expansions turn the ranking  *)
(* round and a sync moves the first session to the end.                    *)
(***************************************************************************)
EXTENDS SearchPage

CONSTANTS Golf, Lease   \* the two queries

(* A parse that helps in every way, and one that does not help.            *)
MCParses == {p \in Parse : p.changes = p.expansions}

BaseRanking == [text \in {Golf, Lease, Blank} |->
  CASE text = Golf -> <<1, 2, 3>> [] text = Lease -> <<3, 2>> [] text = Blank -> << >>]

MCRanking ==
  [a \in Asks |-> [v \in Versions |->
     LET base == BaseRanking[a.text]
         filtered == IF a.parse = NoParse \/ base = << >> THEN base ELSE Tail(base)
         ordered == IF a.expanded THEN Reverse(filtered) ELSE filtered
     IN IF v = 0 \/ ordered = << >> THEN ordered
        ELSE Append(Tail(ordered), Head(ordered))]]
=============================================================================
