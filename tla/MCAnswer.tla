------------------------------ MODULE MCAnswer ------------------------------
(***************************************************************************)
(* Three messages of a direct chat and a group, in any order of ROWID and  *)
(* date.                                                                   *)
(***************************************************************************)
EXTENDS Answer

CONSTANTS ann, bob

MCChats == {1, 2}
MCHandles == {ann, bob}
MCRoster == (1 :> {ann}) @@ (2 :> {ann, bob})
MCAuthors == (1 :> {ann}) @@ (2 :> {bob})
MCStyle == (1 :> "direct") @@ (2 :> Unset)

Message(chat, ts, me, who, kind) == [chat |-> chat, ts |-> ts, me |-> me, who |-> who, kind |-> kind]

(* Ann writes and is written to in the direct chat, bob sends photos to    *)
(* the group, ann writes there, renames it and reacts; one of her messages *)
(* belongs to no chat.                                                     *)
MCArrivals ==
  {Message(1, t, FALSE, ann, "text") : t \in {0, 3}}
  \cup {Message(1, 2, TRUE, ann, "text"), Message(2, 1, FALSE, ann, "text"),
        Message(2, 2, FALSE, ann, "system"), Message(2, 3, FALSE, bob, "tapback"),
        Message(Unset, 3, FALSE, ann, "text")}
  \cup {Message(2, t, FALSE, bob, "photo") : t \in {1, 3}}

Times == 0..3
MCDay == [t \in Times |-> t \div 2]
MCSigmoid == [l \in 1..4 |-> 1]
MCFlat == [t \in Times |-> 1]

Browsing(f, sender, me, offset) == [filter |-> f, sender |-> sender, me |-> me, offset |-> offset]
MCQueries ==
  {Browsing(AnyFilter, {}, Unset, 0), Browsing(AnyFilter, {}, Unset, 1),
   Browsing(AnyFilter, {ann}, Unset, 0), Browsing(AnyFilter, {}, TRUE, 0),
   Browsing([AnyFilter EXCEPT !.people = {bob}], {ann}, Unset, 0),
   Browsing([AnyFilter EXCEPT !.media = TRUE], {}, Unset, 0),
   Browsing([AnyFilter EXCEPT !.from = 1, !.to = 2], {}, Unset, 0),
   Browsing([AnyFilter EXCEPT !.chats = {1}, !.group = TRUE], {}, Unset, 0)}
=============================================================================
