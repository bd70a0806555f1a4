------------------------------- MODULE Assist -------------------------------
(***************************************************************************)
(* Copilot Assist on the server: SearchAssistManager                       *)
(* (seaglass/app/server.py), its circuit breaker and its cache of parses   *)
(* (seaglass/app/assist.py) over the copilot command line (llm/ghcp.py).   *)
(*                                                                         *)
(* Submitting a query returns a token.  One thread asks copilot about the  *)
(* queries in the order of their tokens; a query asked before is answered  *)
(* from the cache at once.                                                 *)
(*                                                                         *)
(* Abstracted: a parse says only whether it changes the query's filters or *)
(* text and whether it brings keyword expansions.  should_assist, a test   *)
(* on the words of the query, may go either way.                           *)
(***************************************************************************)
EXTENDS Integers, Sequences, FiniteSets, SequencesExt

CONSTANTS
  Words,      \* queries a user may type
  Parses,     \* parses copilot may return
  Threshold   \* failures that open the circuit breaker

Parse == [state : {"parsed"}, changes : BOOLEAN, expansions : BOOLEAN]

ASSUME AssistAssumption == Threshold \in Nat \ {0} /\ Parses \subseteq Parse

VARIABLES
  asked,      \* token -> the query it was submitted with
  future,     \* token -> what has become of it
  parses,     \* the cache: query -> parse
  failures    \* breaker.failures

assistVars == <<asked, future, parses, failures>>

Without(state) == [state |-> state, changes |-> FALSE, expansions |-> FALSE]
Queued == Without("queued")            \* the future is not done
Unavailable == Without("unavailable")  \* copilot answered, but not with an object
Raised == Without("raised")            \* the call raised
Futures == Parses \cup {Queued, Unavailable, Raised}

Tokens == DOMAIN asked
Useful(p) == p.changes \/ p.expansions

AssistTypeOK ==
  /\ asked \in Seq(Words) /\ future \in Seq(Futures)
  /\ Len(asked) = Len(future)
  /\ DOMAIN parses \subseteq Words /\ Range(parses) \subseteq Parses
  /\ failures \in Nat

AssistInit ==
  /\ asked = << >> /\ future = << >> /\ parses = << >>
  /\ failures = 0

(* An open breaker refuses; only a call still under way can close it.      *)
Submit(w) ==
  /\ failures < Threshold
  /\ asked' = Append(asked, w)
  /\ future' = Append(future, IF w \in DOMAIN parses THEN parses[w] ELSE Queued)
  /\ UNCHANGED <<parses, failures>>

(* The one thread of the executor works on the oldest queued token.        *)
AtWork(t) ==
  /\ t \in Tokens /\ future[t] = Queued
  /\ \A u \in 1..(t - 1) : future[u] # Queued

Answers(t) ==
  /\ AtWork(t)
  /\ \E p \in Parses :
       /\ future' = [future EXCEPT ![t] = p]
       /\ parses' = [w \in DOMAIN parses \cup {asked[t]} |->
                       IF w = asked[t] THEN p ELSE parses[w]]
  /\ failures' = 0
  /\ UNCHANGED asked

Unparseable(t) ==
  /\ AtWork(t)
  /\ future' = [future EXCEPT ![t] = Unavailable]
  /\ failures' = failures + 1
  /\ UNCHANGED <<asked, parses>>

(* A non-zero exit, a timeout or a missing program leave work() by an      *)
(* exception: the future holds it and the breaker is not told.             *)
Raises(t) ==
  /\ AtWork(t)
  /\ future' = [future EXCEPT ![t] = Raised]
  /\ UNCHANGED <<asked, parses, failures>>

Copilot == \E t \in Tokens : Answers(t) \/ Unparseable(t) \/ Raises(t)

=============================================================================
