---------------------------- MODULE MCRelevance ----------------------------
(***************************************************************************)
(* Five chunks of two chats on two days; queries with every list of up     *)
(* to two matches on the words.                                            *)
(***************************************************************************)
EXTENDS Relevance

CONSTANTS direct, group, ann, bob

MCChats == {direct, group}
MCHandles == {ann, bob}
(* The roster of the direct chat is incomplete.                            *)
MCRoster == (direct :> {}) @@ (group :> {ann, bob})
MCAuthors == (direct :> {ann}) @@ (group :> {bob})
MCStyle == (direct :> "direct") @@ (group :> Unset)

Chunk(chat, start, media) == [chat |-> chat, start |-> start, end |-> start, media |-> media]
MCIndex == <<Chunk(direct, 0, FALSE), Chunk(direct, 3, TRUE), Chunk(group, 1, FALSE),
             Chunk(group, 2, TRUE), Chunk(group, 4, FALSE)>>

Times == 0..4
MCSigmoid == [l \in 1..4 |-> l * l]
MCRecencyBoost == [t \in Times |-> 10 + t]
MCLexicalBoost == [t \in Times |-> t * 2]
MCDay == [t \in Times |-> t \div 3]

AskedFilters ==
  {AnyFilter, [AnyFilter EXCEPT !.people = {bob}], [AnyFilter EXCEPT !.from = 1, !.people = {ann}],
   [AnyFilter EXCEPT !.chats = {direct}, !.group = TRUE], [AnyFilter EXCEPT !.media = TRUE]}

Nears == {<<3, 5, 1, 4, 2>>, <<4, 2, 3, 1, 5>>}

(* Matches on the words, and which of them have them verbatim.             *)
MCQueries ==
  {[filter |-> f, near |-> near, terms |-> t, verbatim |-> IF single THEN t ELSE v,
    single |-> single, expansions |-> e, size |-> size] :
     f \in AskedFilters, near \in Nears,
     t \in {s \in UNION {[1..n -> DOMAIN MCIndex] : n \in 0..2} : IsInjective(s)},
     v \in {<< >>, <<2>>, <<5>>}, single \in BOOLEAN,
     e \in {<< >>, <<<<1>>>>}, size \in {2}}
AskedQueries ==
  {q \in MCQueries : /\ ToSet(q.verbatim) \subseteq ToSet(q.terms)
                     /\ q.single => q.expansions = << >>}
=============================================================================
