------------------------------ MODULE Contacts ------------------------------
(***************************************************************************)
(* The contacts of a running engine (seaglass/app/engine.py): read during  *)
(* the warmup, read again when they have aged or access is granted, and    *)
(* used without a lock by searches that turn names into handles and by the *)
(* titles of the chats.  The address book changes meanwhile.               *)
(*                                                                         *)
(* In the app the pool runs one search, suggestion or re-warm at a time,   *)
(* the event loop the request for access, and the launch its warmup, all   *)
(* on one engine.  In the MCP server (seaglass/mcp_server.py) searches run *)
(* on the pool and the status tool beside them.  The ranking cache that a  *)
(* refresh drops is in BuildService.                                       *)
(***************************************************************************)
EXTENDS Names, Integers, FiniteSets

CONSTANTS
  Books,          \* successive contents of the address book
  Queries,        \* [from, with, self]
  Hosts,          \* of {"app", "mcp"}
  NoBook,         \* no contacts: a ContactIndex that is None
  Unread

Sequence(s) == s \in Seq(ToSet(s))

ASSUME BooksAssumption ==
  /\ Sequence(Books) /\ Books # <<>>
  /\ \A book \in ToSet(Books) : Sequence(book) /\ \A c \in ToSet(book) : Sequence(c.name)
  /\ NoBook \notin 0..Len(Books) /\ Unread \notin 0..Len(Books) /\ Unread # NoBook
ASSUME NoFingerprintAssumption ==
  \A book \in ToSet(Books) : \A c \in ToSet(book) : <<c.name, c.handles>> # NoBook
ASSUME QueriesAssumption == \A q \in Queries : Sequence(q.from)
ASSUME HostsAssumption == Hosts \subseteq {"app", "mcp"}

Threads == {"pool", "loop", "launch"}
NoQuery == [from |-> <<>>, with |-> <<>>, self |-> FALSE]

VARIABLES
  host,
  edition,        \* of the address book: an index of Books
  access,         \* "undetermined", "denied", "authorized"
  contacts,       \* contact_index: an edition, 0 if empty, or NoBook
  fingerprint,    \* of the contacts
  aged,           \* the time to live has passed
  titles,         \* chatmeta, or <<>> before the first
  locked,         \* who holds _contacts_lock, or "nobody"
  first,          \* the MCP module's _contact_index, Unread before the attempt
  pc, op,         \* per thread: its step and its operation
  held,           \* per thread: what it has read and not yet stored
  query,          \* of the search on the pool
  answer,         \* of that search: its parse and the editions it may rest on
  granted,        \* auxiliary: access was asked for and there, no empty read under way
  floor,          \* auxiliary, per thread: the oldest edition under way at its read
  tangled         \* auxiliary: a refresh met a warmup, and nothing new came since

engine == <<contacts, fingerprint, aged, titles, locked>>
world == <<host, edition, access>>
aux == <<granted, floor, tangled>>
vars == <<world, engine, first, pc, op, held, query, answer, aux>>

Index(book) == IF book \in {NoBook, 0} THEN <<>> ELSE Books[book]

(* _contacts_fingerprint: the order does not count, no access is not none. *)
Fingerprint(book) ==
  IF book = NoBook THEN {NoBook} ELSE {<<c.name, c.handles>> : c \in ToSet(Index(book))}

NoAnswer == [query |-> NoQuery, parsed |-> ParseQuery(<<>>, NoQuery), oldest |-> 0, newest |-> 0]

Init ==
  /\ host \in Hosts /\ edition = 1
  /\ access \in {"undetermined", "denied", "authorized"}
  /\ contacts = NoBook /\ fingerprint = {NoBook} /\ aged = TRUE
  /\ titles = <<>> /\ locked = "nobody" /\ first = Unread
  /\ pc = [t \in Threads |-> IF t = "launch" /\ host = "app" THEN "read to warm" ELSE "idle"]
  /\ op = [t \in Threads |-> "none"] /\ held = [t \in Threads |-> NoBook]
  /\ query = NoQuery /\ answer = NoAnswer
  /\ granted = FALSE /\ floor = [t \in Threads |-> 0] /\ tangled = FALSE

-----------------------------------------------------------------------------
(* Outside.                                                                *)

(* The address book changes, by hand or by a sync of its own.              *)
ChangeBook ==
  /\ edition < Len(Books)
  /\ edition' = edition + 1
  /\ UNCHANGED <<host, access, engine, first, pc, op, held, query, answer, aux>>

Age ==
  /\ ~aged /\ aged' = TRUE
  /\ UNCHANGED <<world, contacts, fingerprint, titles, locked, first, pc, op, held, query, answer, aux>>

(* ContactIndex.load.  While access is undetermined it asks, and reads     *)
(* nothing or fails unless the answer comes within its two seconds.        *)
Load(book) ==
  \/ access = "authorized" /\ book = edition /\ access' = access
  \/ access = "denied" /\ book = NoBook /\ access' = access
  \/ /\ access = "undetermined"
     /\ \/ access' = "authorized" /\ book = edition
        \/ access' \in {"undetermined", "denied"} /\ book \in {0, NoBook}

-----------------------------------------------------------------------------
(* A refresh.                                                              *)

Goto(t, step) ==
  /\ pc' = [pc EXCEPT ![t] = step]
  /\ op' = IF step = "idle" THEN [op EXCEPT ![t] = "none"] ELSE op

(* What follows a refresh, or none being due.                              *)
After(t) == IF op[t] = "search" THEN "parse" ELSE "idle"

(* maybe_refresh_contacts: the age is read under the lock.                 *)
CheckAge(t) ==
  /\ pc[t] = "check" /\ locked = "nobody"
  /\ Goto(t, IF aged THEN "read" ELSE After(t))
  /\ floor' = [floor EXCEPT ![t] = 0]
  /\ UNCHANGED <<world, engine, first, held, query, answer, granted, tangled>>

(* What threads have read and not yet put in place.                        *)
UnderWay == {held[t] : t \in {u \in Threads : pc[u] \in {"store", "place"}}}

(* refresh_contacts, up to the lock: the floor is the oldest edition that  *)
(* may still replace what is read here.                                    *)
ReadBook(t) ==
  /\ pc[t] = "read"
  /\ \E book \in {NoBook} \cup (0..Len(Books)) :
       /\ Load(book)
       /\ held' = [held EXCEPT ![t] = book]
       /\ floor' = [floor EXCEPT ![t] =
                      IF NoBook \in UnderWay \cup {book} THEN 0 ELSE Min(UnderWay \cup {book})]
  /\ Goto(t, "store")
  /\ UNCHANGED <<host, edition, engine, first, query, answer, granted, tangled>>

WarmingBut(t) ==
  \E u \in Threads \ {t} : pc[u] \in {"place", "print", "stamp", "title to warm", "titled to warm"}
RetitlingBut(t) == \E u \in Threads \ {t} : pc[u] \in {"title", "titled"}

(* Faulty variant: the titles are left to the next warmup.                 *)
StoreContactsOnly(t) ==
  /\ pc[t] = "store" /\ locked = "nobody"
  /\ aged' = FALSE
  /\ IF held[t] = NoBook \/ Fingerprint(held[t]) = fingerprint
     THEN tangled' = (tangled \/ WarmingBut(t)) /\ UNCHANGED <<contacts, fingerprint>>
     ELSE /\ contacts' = held[t] /\ fingerprint' = Fingerprint(held[t])
          /\ tangled' = WarmingBut(t)
  /\ held' = [held EXCEPT ![t] = NoBook]
  /\ Goto(t, After(t))
  /\ UNCHANGED <<world, titles, locked, first, query, answer, granted, floor>>

(* Under the lock: nothing but the age is touched when the read failed or  *)
(* brought nothing new.                                                    *)
StoreContacts(t) ==
  /\ pc[t] = "store" /\ locked = "nobody"
  /\ aged' = FALSE
  /\ IF held[t] = NoBook \/ Fingerprint(held[t]) = fingerprint
     THEN /\ Goto(t, After(t)) /\ tangled' = (tangled \/ WarmingBut(t))
          /\ UNCHANGED <<contacts, fingerprint, locked>>
     ELSE /\ contacts' = held[t] /\ fingerprint' = Fingerprint(held[t])
          /\ locked' = t /\ Goto(t, "title")
          /\ tangled' = WarmingBut(t)
  /\ held' = [held EXCEPT ![t] = NoBook]
  /\ UNCHANGED <<world, titles, first, query, answer, granted, floor>>

(* _build_chatmeta: the contacts are read, the databases asked, the titles *)
(* put in place.                                                           *)
ReadForTitles(t) ==
  /\ pc[t] \in {"title", "title to warm"}
  /\ held' = [held EXCEPT ![t] = contacts]
  /\ Goto(t, IF pc[t] = "title" THEN "titled" ELSE "titled to warm")
  /\ UNCHANGED <<world, engine, first, query, answer, aux>>

StoreTitles(t) ==
  /\ pc[t] = "titled"
  /\ titles' = BuildTitles(Index(held[t])) /\ locked' = "nobody"
  /\ held' = [held EXCEPT ![t] = NoBook]
  /\ Goto(t, After(t))
  /\ UNCHANGED <<world, contacts, fingerprint, aged, first, query, answer, aux>>

-----------------------------------------------------------------------------
(* The warmup, from load_contacts on; it takes no lock.                    *)

WarmRead(t) ==
  /\ pc[t] = "read to warm"
  /\ \E book \in {NoBook} \cup (0..Len(Books)) : Load(book) /\ held' = [held EXCEPT ![t] = book]
  /\ Goto(t, "place")
  /\ tangled' = (tangled \/ WarmingBut(t) \/ RetitlingBut(t))
  /\ UNCHANGED <<host, edition, engine, first, query, answer, granted, floor>>

WarmContacts(t) ==
  /\ pc[t] = "place"
  /\ contacts' = held[t]
  /\ Goto(t, "print")
  /\ UNCHANGED <<world, fingerprint, aged, titles, locked, first, held, query, answer, aux>>

(* The fingerprint is that of the contacts of now, or none if the read     *)
(* failed; it is stored when it is made.                                   *)
WarmFingerprint(t) ==
  /\ pc[t] = "print"
  /\ held' = [held EXCEPT ![t] = IF held[t] = NoBook THEN NoBook ELSE contacts]
  /\ Goto(t, "stamp")
  /\ UNCHANGED <<world, engine, first, query, answer, aux>>

WarmStamp(t) ==
  /\ pc[t] = "stamp"
  /\ fingerprint' = Fingerprint(held[t]) /\ aged' = FALSE
  /\ Goto(t, "title to warm")
  /\ UNCHANGED <<world, contacts, titles, locked, first, held, query, answer, aux>>

(* The titles, and then a search of its own.                               *)
WarmTitles(t) ==
  /\ pc[t] = "titled to warm"
  /\ titles' = BuildTitles(Index(held[t]))
  /\ held' = [held EXCEPT ![t] = NoBook]
  /\ pc' = [pc EXCEPT ![t] = "check"] /\ op' = [op EXCEPT ![t] = "search"]
  /\ UNCHANGED <<world, contacts, fingerprint, aged, locked, first, query, answer, aux>>

-----------------------------------------------------------------------------
(* Operations.                                                             *)

Begin(t, operation, step) ==
  /\ pc[t] = "idle"
  /\ op' = [op EXCEPT ![t] = operation] /\ pc' = [pc EXCEPT ![t] = step]
  /\ UNCHANGED <<world, engine, first, held, answer, aux>>

(* Requests reach the app by its event loop.                               *)
Reached == host = "app" => pc["loop"] = "idle"

Search(q) ==
  /\ Reached
  /\ Begin("pool", "search", IF host = "app" THEN "check" ELSE "bind")
  /\ query' = q

SuggestContacts ==
  /\ host = "app" /\ Reached
  /\ Begin("pool", "suggest", "check")
  /\ query' = query

(* After a build, which the page asks for once the launch is warm.         *)
Rewarm ==
  /\ host = "app" /\ pc["launch"] = "idle"
  /\ Begin("pool", "rewarm", "read to warm")
  /\ query' = query

(* The MCP server never lets go of what it read first.                     *)
Oldest(t) ==
  IF tangled \/ first = NoBook THEN 0
  ELSE IF host = "mcp" THEN Min({first, floor[t]})
  ELSE floor[t]

(* The name is parsed with the contacts of now; the warmup's own search    *)
(* names nobody.                                                           *)
Parse(t) ==
  /\ pc[t] = "parse"
  /\ IF t = "pool"
     THEN answer' = [query |-> query, parsed |-> ParseQuery(Index(contacts), query),
                     oldest |-> Oldest(t), newest |-> edition]
     ELSE answer' = answer
  /\ Goto(t, IF t = "pool" THEN "answered" ELSE "idle")
  /\ UNCHANGED <<world, engine, first, held, query, aux>>

Respond ==
  /\ pc["pool"] = "answered"
  /\ query' = NoQuery /\ answer' = NoAnswer
  /\ Goto("pool", "idle")
  /\ UNCHANGED <<world, engine, first, held, aux>>

(* request_contacts: it holds up the event loop until the prompt, shown if *)
(* none was, is answered or times out, and for the refresh.                *)
RequestContacts == host = "app" /\ Begin("loop", "request", "asking") /\ query' = query

(* Faulty variant: contacts that have not aged are not read again.         *)
AnswerPromptIfAged ==
  /\ pc["loop"] = "asking"
  /\ access' \in IF access = "undetermined" THEN {"undetermined", "denied", "authorized"} ELSE {access}
  /\ Goto("loop", IF access' = "authorized" THEN "check" ELSE "idle")
  /\ granted' = (granted \/ (access' = "authorized" /\ {NoBook, 0} \cap UnderWay = {}))
  /\ UNCHANGED <<host, edition, engine, first, held, query, answer, floor, tangled>>

AnswerPrompt ==
  /\ pc["loop"] = "asking"
  /\ access' \in IF access = "undetermined" THEN {"undetermined", "denied", "authorized"} ELSE {access}
  /\ Goto("loop", IF access' = "authorized" THEN "read" ELSE "idle")
  /\ granted' = (granted \/ (access' = "authorized" /\ {NoBook, 0} \cap UnderWay = {}))
  /\ UNCHANGED <<host, edition, engine, first, held, query, answer, floor, tangled>>

(* The MCP server's index_status: its engine is handed the module's        *)
(* contacts, whatever the pool is doing.                                   *)
IndexStatus == host = "mcp" /\ Begin("loop", "status", "bind") /\ query' = query

(* _get_contact_index marks the attempt before it reads, and _get_engine   *)
(* hands over what there is.                                               *)
Bind(t) ==
  /\ pc[t] = "bind"
  /\ IF first = Unread
     THEN first' = NoBook /\ Goto(t, "bind what is read") /\ contacts' = contacts
     ELSE first' = first /\ contacts' = first /\ Goto(t, IF op[t] = "search" THEN "check" ELSE "idle")
  /\ UNCHANGED <<world, fingerprint, aged, titles, locked, held, query, answer, aux>>

BindFirst(t) ==
  /\ pc[t] = "bind what is read"
  /\ \E book \in {NoBook} \cup (0..Len(Books)) : Load(book) /\ first' = book /\ contacts' = book
  /\ Goto(t, IF op[t] = "search" THEN "check" ELSE "idle")
  /\ UNCHANGED <<host, edition, fingerprint, aged, titles, locked, held, query, answer, aux>>

Next ==
  \/ ChangeBook \/ Age
  \/ \E q \in Queries : Search(q)
  \/ SuggestContacts \/ Rewarm \/ RequestContacts \/ AnswerPrompt \/ IndexStatus
  \/ \E t \in Threads :
       \/ CheckAge(t) \/ ReadBook(t) \/ StoreContacts(t) \/ ReadForTitles(t) \/ StoreTitles(t)
       \/ WarmRead(t) \/ WarmContacts(t) \/ WarmFingerprint(t) \/ WarmStamp(t) \/ WarmTitles(t)
       \/ Parse(t) \/ Bind(t) \/ BindFirst(t)
  \/ Respond

Spec == Init /\ [][Next]_vars

-----------------------------------------------------------------------------
(* Properties.                                                             *)

(* What a book means by a name: everybody called so, in full or by a given *)
(* name that is not too short to tell.                                     *)
Meant(book, words) ==
  HandlesOf({c \in ToSet(Books[book]) :
    words = c.name \/ (words = <<c.name[1]>> /\ words[1] \notin ShortWords)})

(* A search that read the address book again answers with the people it    *)
(* names: if every edition since the oldest that may be in use means the   *)
(* same by the name, so does the search, whatever else resembles it and    *)
(* whichever thread stored its contacts last.                              *)
FindsWhomBookNames ==
  LET span == answer.query.from
      words == WordsOf(span)
      wanted == Meant(answer.newest, words)
  IN (/\ span # <<>> /\ ~NeverAName(span) /\ answer.oldest > 0
      /\ wanted # {}
      /\ \A e \in answer.oldest..answer.newest : Meant(e, words) = wanted)
       => answer.parsed.sender = wanted

AtRest == \A t \in Threads : pc[t] = "idle"
Capitalised(name) == [i \in DOMAIN name |-> [word |-> name[i], capital |-> TRUE]]

(* Every name in the title of a chat can be asked for: "from" that name    *)
(* finds the participant it stands for, though titles and parses are made  *)
(* at different times from contacts that change.                           *)
ShownNamesCanBeAsked ==
  (host = "app" /\ AtRest /\ ~tangled) =>
    \A c \in DOMAIN Chats : \A i \in DOMAIN Chats[c].participants :
      LET handle == Chats[c].participants[i]
          name == titles[c].title[i]
      IN (name # <<handle>> /\ ~NeverAName(Capitalised(name))) =>
           handle \in ResolveName(Index(contacts), Capitalised(name))

(* Once access is there when it is asked for, the names are too, without a *)
(* restart, and stay: unless an empty read from before was under way.      *)
GrantShowsNames ==
  (granted /\ ~tangled /\ AtRest) => contacts \notin {NoBook, 0}
=============================================================================
