------------------------------- MODULE Chunker -------------------------------
(***************************************************************************)
(* Cutting one conversation into overlapping chunks:                       *)
(* seaglass/index/chunker.py (chunk_messages).                             *)
(*                                                                         *)
(* A message is a record with its id, its date, ts, and the approximate    *)
(* length of its text, tokens.  The generator is a left fold over the      *)
(* messages in order of date; its state is what it has yielded and the     *)
(* chunk it is filling.  The state machine at the end lets a conversation  *)
(* grow, one message at a time, because sync runs the chunker again on     *)
(* every growth.                                                           *)
(***************************************************************************)
EXTENDS Listing

CONSTANTS
  GapThreshold,  \* gap_threshold_s
  TokenTarget,   \* token_target
  MaxMessages,   \* max_messages
  Overlap,       \* overlap
  Pauses,        \* time that may pass before a message arrives
  Lengths,       \* token counts a message may have
  MaxLength      \* bound: how long a conversation grows

ASSUME LimitsAssumption ==
  /\ GapThreshold \in Nat /\ TokenTarget \in Nat /\ MaxLength \in Nat
  /\ Overlap \in Nat /\ MaxMessages \in Nat /\ Overlap < MaxMessages
  /\ Pauses \subseteq Nat /\ Lengths \subseteq Nat

VARIABLE messages  \* the plain messages of one chat, ordered by ts

-----------------------------------------------------------------------------

TokenCount(s) == Total(Mapped(s, LAMBDA m : m.tokens))

(* The last messages of a closed chunk open the next one, unless a pause   *)
(* in the conversation closed it.                                          *)
Carried(current, isGapClose) ==
  IF isGapClose THEN << >>
  ELSE SubSeq(current, IF Len(current) > Overlap THEN Len(current) - Overlap + 1 ELSE 1,
              Len(current))

IsGapClose(current, msg) == msg.ts - Last(current).ts > GapThreshold

(* Faulty variant: a chunk is full one message too late.                   *)
ShouldCloseLate(current, msg) ==
  \/ IsGapClose(current, msg)
  \/ TokenCount(current) + msg.tokens > TokenTarget
  \/ Len(current) > MaxMessages

ShouldClose(current, msg) ==
  \/ IsGapClose(current, msg)
  \/ TokenCount(current) + msg.tokens > TokenTarget
  \/ Len(current) >= MaxMessages

Absorb(state, msg) ==
  IF state.current # << >> /\ ShouldClose(state.current, msg)
  THEN [yielded |-> Append(state.yielded, state.current),
        current |-> Append(Carried(state.current, IsGapClose(state.current, msg)), msg)]
  ELSE [state EXCEPT !.current = Append(@, msg)]

NothingYet == [yielded |-> << >>, current |-> << >>]

(* What is left in current is flushed at the end.                          *)
AllChunks(state) ==
  IF state.current = << >> THEN state.yielded ELSE Append(state.yielded, state.current)

(* Faulty variant: the newest messages are chunked first.                  *)
ChunkMessagesBackwards(msgs) ==
  LET after[n \in 0..Len(msgs)] ==
        IF n = 0 THEN NothingYet ELSE Absorb(after[n - 1], Reverse(msgs)[n])
      lists == AllChunks(after[Len(msgs)])
  IN [k \in DOMAIN lists |-> Reverse(lists[Len(lists) + 1 - k])]

ChunkMessages(msgs) ==
  LET after[n \in 0..Len(msgs)] ==
        IF n = 0 THEN NothingYet ELSE Absorb(after[n - 1], msgs[n])
  IN AllChunks(after[Len(msgs)])

-----------------------------------------------------------------------------
(* A conversation that grows.                                              *)

Init == messages = << >>

Arrive ==
  /\ Len(messages) < MaxLength
  /\ \E pause \in Pauses, tokens \in Lengths :
       messages' = Append(messages,
         [id |-> Len(messages) + 1,
          ts |-> pause + (IF messages = << >> THEN 0 ELSE Last(messages).ts),
          tokens |-> tokens])

Spec == Init /\ [][Arrive]_messages

-----------------------------------------------------------------------------
(* Where chunk k of the list lies among the messages.                      *)

Chunks == ChunkMessages(messages)
Index(m) == CHOOSE i \in DOMAIN messages : messages[i] = m
FirstOf(k) == Index(Head(Chunks[k]))
LastOf(k) == Index(Last(Chunks[k]))

(* The chunks cover the whole conversation in order: each is a run of      *)
(* consecutive messages, the first begins and the last ends it, and none   *)
(* leaves a message out between itself and the next.                       *)
CoversInOrder ==
  /\ \A k \in DOMAIN Chunks : Chunks[k] = SubSeq(messages, FirstOf(k), LastOf(k))
  /\ messages # << >> => FirstOf(1) = 1 /\ LastOf(Len(Chunks)) = Len(messages)
  /\ \A k \in 1..(Len(Chunks) - 1) : /\ FirstOf(k + 1) <= LastOf(k) + 1
                                     /\ LastOf(k) < LastOf(k + 1)

(* A chunk never spans a pause: no two neighbours in it are further apart  *)
(* than the threshold, the carried messages included.                      *)
NoPauseInside ==
  \A k \in DOMAIN Chunks : \A i \in 2..Len(Chunks[k]) :
    Chunks[k][i].ts - Chunks[k][i - 1].ts <= GapThreshold

(* Neighbouring chunks share the overlap, exactly, when no pause lies      *)
(* between them, and nothing otherwise.                                    *)
OverlapExact ==
  \A k \in 1..(Len(Chunks) - 1) :
    LastOf(k) - FirstOf(k + 1) + 1 =
      IF IsGapClose(Chunks[k], messages[LastOf(k) + 1]) THEN 0
      ELSE IF Len(Chunks[k]) < Overlap THEN Len(Chunks[k]) ELSE Overlap

(* No chunk is too long, and one exceeds the token target only when the    *)
(* overlap and a single further message already do.                        *)
WithinLimits ==
  \A k \in DOMAIN Chunks :
    /\ Len(Chunks[k]) <= MaxMessages
    /\ TokenCount(Chunks[k]) > TokenTarget => Len(Chunks[k]) <= Overlap + 1

(* What every conversation is cut into, however it grew.                   *)
WellCut == CoversInOrder /\ NoPauseInside /\ OverlapExact /\ WithinLimits

(* A new message changes no chunk but the last: everything before it keeps *)
(* its place, which is what lets a sync compare chunk lists by position.   *)
OnlyTheTailChanges ==
  [][Len(Chunks) > 1 => IsPrefix(Front(Chunks), ChunkMessages(messages'))]_messages

=============================================================================
