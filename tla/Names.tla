------------------------------- MODULE Names -------------------------------
(***************************************************************************)
(* The address book as seaglass/imessage/contacts.py keeps it in memory,   *)
(* how search/parse.py turns a name of the query into handles, and how     *)
(* app/chatmeta.py turns handles back into titles.                         *)
(*                                                                         *)
(* A word stands for its folded form; a name is a sequence of words, a     *)
(* contact a record [name, handles], a ContactIndex a sequence of          *)
(* contacts.  Handles are as chat.db stores them, normalised.  How alike   *)
(* two strings score is data: OneEdit and Alike are the pairs that pass.   *)
(***************************************************************************)
EXTENDS SequencesExt

CONSTANTS
  NotNames,       \* _NOT_A_NAME: pronouns, days, months
  FillerWords,    \* _FILLER_WORDS
  CommonWords,    \* _COMMON_WORDS
  ShortWords,     \* words of one or two letters
  OneEdit,        \* <<word, given>>: long enough, same initial, one edit apart
  Alike,          \* <<name, name>>: above the fuzzy threshold, equal ones apart
  Chats           \* chat -> [style, participants, row], as of the snapshot

CONSTANTS Unstyled, NoHandle

HandlesOf(contacts) == UNION {c.handles : c \in contacts}

-----------------------------------------------------------------------------
(* ContactIndex.                                                           *)

(* handle_ids_for_exact_name: the whole name, or the given one.            *)
ExactName(index, words) ==
  HandlesOf({c \in ToSet(index) :
    words = c.name \/ (Len(words) = 1 /\ words[1] = c.name[1] /\ words[1] \notin ShortWords)})

SimilarGivenName(index, words) ==
  HandlesOf({c \in ToSet(index) : Len(words) = 1 /\ <<words[1], c.name[1]>> \in OneEdit})

(* handle_ids_for_names; of the five best names none is cut here.          *)
FuzzyName(index, words) ==
  HandlesOf({c \in ToSet(index) : words = c.name \/ <<words, c.name>> \in Alike})

(* resolve_handle: of several contacts with a handle the last one loaded.  *)
ResolveHandle(index, handle) ==
  LET owners == {i \in DOMAIN index : handle \in index[i].handles}
  IN IF owners = {} THEN <<handle>> ELSE index[Max(owners)].name

-----------------------------------------------------------------------------
(* parse_query, as far as people go.  A span is what a pattern captures:   *)
(* one or two of [word, capital].                                          *)

WordsOf(span) == [i \in DOMAIN span |-> span[i].word]
IsCapitalised(span) == \A i \in DOMAIN span : span[i].capital

(* The span, then each of its words alone.                                 *)
NameCandidates(span) ==
  IF Len(span) > 1 THEN <<span>> \o [i \in DOMAIN span |-> <<span[i]>>] ELSE <<span>>

NeverAName(candidate) ==
  \/ \E i \in DOMAIN candidate : candidate[i].word \in NotNames
  \/ ~IsCapitalised(candidate) /\ \A i \in DOMAIN candidate : candidate[i].word \in FillerWords

(* Faulty variant: the loose match first.                                  *)
FoundLoosely(index, candidate) ==
  LET words == WordsOf(candidate)
      fuzzy == FuzzyName(index, words)
      exact == ExactName(index, words)
  IN IF NeverAName(candidate) THEN {}
     ELSE IF IsCapitalised(candidate) /\ fuzzy # {} THEN fuzzy
     ELSE IF exact # {} THEN exact
     ELSE SimilarGivenName(index, words)

(* Exact before a typo, a typo before a loose match, which needs capitals. *)
Found(index, candidate) ==
  LET words == WordsOf(candidate)
      exact == ExactName(index, words)
      similar == IF words[1] \in CommonWords THEN {} ELSE SimilarGivenName(index, words)
  IN IF NeverAName(candidate) THEN {}
     ELSE IF exact # {} THEN exact
     ELSE IF similar # {} THEN similar
     ELSE IF IsCapitalised(candidate) THEN FuzzyName(index, words) ELSE {}

(* resolve_name: the first candidate that finds anyone.                    *)
ResolveName(index, span) ==
  LET candidates == NameCandidates(span)
      finds == {i \in DOMAIN candidates : Found(index, candidates[i]) # {}}
  IN IF finds = {} THEN {} ELSE Found(index, candidates[Min(finds)])

(* _mentions_another_sender: a capital counts though nobody is found.      *)
MentionsAnother(index, span) ==
  \E i \in DOMAIN NameCandidates(span) :
    LET candidate == NameCandidates(span)[i]
    IN /\ ~(Len(candidate) = 1 /\ candidate[1].word \in NotNames)
       /\ IsCapitalised(candidate) \/ ResolveName(index, candidate) # {}

(* A query is [from, with, self]: the spans after "from" and "with", empty *)
(* if there are none, and whether it speaks of me.  index is <<>> when the *)
(* contacts are not to be had.                                             *)
ParseQuery(index, query) ==
  LET Resolved(span) == IF span = <<>> THEN {} ELSE ResolveName(index, span)
      sender == Resolved(query.from)
  IN [sender |-> sender, participant |-> sender \cup Resolved(query.with),
      fromMe |-> query.self /\ sender = {}
                 /\ (query.from # <<>> => ~MentionsAnother(index, query.from))]

-----------------------------------------------------------------------------
(* ChatMetadataCache.                                                      *)

IsGroup(chat) ==
  IF chat.style = Unstyled THEN Len(chat.participants) > 1 ELSE chat.style # 45

(* The identifier is the handle whose row has the number of the chat.      *)
ChatTitle(index, chat) ==
  IF chat.participants # <<>>
  THEN [i \in DOMAIN chat.participants |-> ResolveHandle(index, chat.participants[i])]
  ELSE IF chat.row # NoHandle THEN << <<chat.row>> >>
  ELSE << <<"Unknown conversation">> >>

BuildTitles(index) ==
  [c \in DOMAIN Chats |-> [title |-> ChatTitle(index, Chats[c]), group |-> IsGroup(Chats[c])]]
=============================================================================
