--------------------------- MODULE ContactsProofs ---------------------------
(***************************************************************************)
(* Theorems about Contacts for every address book, every relation of       *)
(* likeness between names and every set of chats and queries: a search     *)
(* finds whom the book names, a name that is shown can be asked for, and   *)
(* access, once granted, brings the names.                                 *)
(***************************************************************************)
EXTENDS Contacts, WellFoundedInduction, SequenceTheorems, TLAPS

-----------------------------------------------------------------------------
(* The inductive invariant.                                                *)

Reads == {NoBook} \cup (0..edition)
Refreshing == {"check", "read", "store", "title", "titled"}
Binding == {"bind", "bind what is read"}
Warming == {"place", "print", "stamp", "title to warm", "titled to warm"}
Retitling == {"title", "titled"}
Steps == Refreshing \cup Binding \cup Warming \cup {"idle", "asking", "read to warm", "parse", "answered"}
Operations == {"none", "search", "suggest", "rewarm", "request", "status"}

ContactsTypeOK ==
  /\ host \in {"app", "mcp"} /\ edition \in 1..Len(Books)
  /\ access \in {"undetermined", "denied", "authorized"}
  /\ contacts \in Reads /\ held \in [Threads -> Reads] /\ first \in Reads \cup {Unread}
  /\ aged \in BOOLEAN /\ granted \in BOOLEAN /\ tangled \in BOOLEAN
  /\ pc \in [Threads -> Steps] /\ op \in [Threads -> Operations]
  /\ floor \in [Threads -> 0..edition]
  /\ query \in Queries \cup {NoQuery}

(* Who does what: the app's event loop answers requests for access and     *)
(* nothing else refreshes there, the launch thread warms and searches once,*)
(* and only the MCP server hands over what it read first.                  *)
RoleInv ==
  /\ \A t \in Threads : locked = t <=> pc[t] \in Retitling
  /\ host = "app" => \A t \in Threads : pc[t] \notin Binding
  /\ host = "mcp" => /\ pc["launch"] = "idle" /\ pc["loop"] \in {"idle"} \cup Binding
                     /\ pc["pool"] \notin Warming \cup {"read to warm"}
                     /\ pc["pool"] \in Refreshing \cup {"parse", "bind what is read"} => first # Unread
  /\ pc["loop"] \notin Warming \cup {"read to warm", "check", "parse", "answered"}
  /\ op["loop"] # "search"
  /\ granted => host = "app"

(* A refresh and a warmup that do not meet leave the fingerprint of the    *)
(* contacts in place; the MCP server may put back what it read first.      *)
PrintInv ==
  ~tangled =>
    /\ \A t, u \in Threads : pc[t] \in Warming /\ pc[u] \in Warming \cup Retitling => t = u
    /\ \A t \in Threads : pc[t] \in {"print", "stamp"} => held[t] = contacts
    /\ \/ \E t \in Threads : pc[t] \in {"print", "stamp"}
       \/ fingerprint = Fingerprint(contacts)
       \/ host = "mcp" /\ contacts = first

(* Nor do they part the titles from the contacts.                          *)
TitleInv ==
  ~tangled /\ host = "app" =>
    /\ \A t \in Threads : pc[t] \in {"titled", "titled to warm"} => held[t] = contacts
    /\ \/ titles = BuildTitles(Index(contacts))
       \/ \E t \in Threads : pc[t] \in Retitling \cup {"print", "stamp", "title to warm", "titled to warm"}
       \/ pc["launch"] \in {"read to warm", "place"}

(* The contacts in use say what some edition since the given one says.     *)
AsOf(book, e) == \E d \in e..edition : d > 0 /\ Fingerprint(book) = Fingerprint(d)

(* A search that read the book after its question finds contacts no older  *)
(* than what was under way then: whatever is stored meanwhile was either   *)
(* under way, or read later.                                               *)
Fresh(t) ==
  /\ access = "authorized"
  /\ pc[t] \in {"store", "title", "titled", "parse"} =>
       \A u \in Threads : pc[u] \in {"store", "place"} => held[u] \in floor[t]..edition
  /\ pc[t] \in {"title", "titled", "parse"} /\ ~tangled =>
       AsOf(contacts, floor[t]) \/ (host = "mcp" /\ contacts = first)
FloorInv == \A t \in Threads : floor[t] > 0 => Fresh(t)

(* From the moment access is there, nothing empty is stored, and the       *)
(* refresh that follows leaves contacts that some edition gives.           *)
GrantInv ==
  granted =>
    /\ access = "authorized"
    /\ \A t \in Threads : pc[t] \in {"store", "place"} => held[t] \in 1..edition
    /\ ~tangled => AsOf(contacts, 1) \/ pc["loop"] \in {"read", "store"}

EngineInv == ContactsTypeOK /\ RoleInv /\ PrintInv /\ TitleInv /\ FloorInv /\ GrantInv

-----------------------------------------------------------------------------
(* The operators.                                                          *)

(* A set of numbers has a least one.                                       *)
LEMMA MinIsLeast ==
  ASSUME NEW S \in SUBSET Nat, S # {}
  PROVE  Min(S) \in S /\ \A n \in S : Min(S) <= n
<1>1. PICK m \in S : \A n \in S : ~(<<n, m>> \in OpToRel(<, Nat))
  BY WFMin, NatLessThanWellFounded
<1>2. \A n \in S : ~(n < m)
  BY <1>1 DEF OpToRel
<1>3. \A n \in S : m <= n
  BY <1>2
<1> QED BY <1>3 DEF Min

(* A set of numbers with a bound has a greatest one.                       *)
LEMMA MaxIsThere ==
  ASSUME NEW b \in Nat, NEW S \in SUBSET (1..b), S # {}
  PROVE  Max(S) \in S
<1> DEFINE T == {b - n : n \in S}
<1>1. T \in SUBSET Nat /\ T # {}
  <2>1. \A n \in S : n \in Int /\ n <= b
    OBVIOUS
  <2>2. \A n \in S : b - n \in Nat
    BY <2>1
  <2> QED BY <2>2
<1>2. PICK m \in T : \A n \in T : m <= n
  BY <1>1, MinIsLeast
<1>3. PICK k \in S : m = b - k
  OBVIOUS
<1>4. \A n \in S : b - k <= b - n
  BY <1>2, <1>3
<1>5. \A n \in S : k >= n
  BY <1>4
<1> QED BY <1>5 DEF Max

(* How a span is read does not depend on more than who is called what and  *)
(* has which handles.                                                      *)
LEMMA ExactSeesPrints ==
  ASSUME NEW j, NEW k, Fingerprint(j) = Fingerprint(k), NEW words,
         j = NoBook \/ j = 0 \/ j \in 1..Len(Books), k \in 1..Len(Books)
  PROVE  ExactName(Index(j), words) = ExactName(Index(k), words)
<1>1. Index(k) = Books[k] /\ Books[k] \in ToSet(Books) /\ NoBook \notin 0..Len(Books)
  BY BooksAssumption DEF Index, ToSet, Sequence
<1>2. j # NoBook
  <2>1. SUFFICES ASSUME j = NoBook PROVE FALSE
    OBVIOUS
  <2>2. NoBook \in Fingerprint(j)
    BY <2>1 DEF Fingerprint
  <2>3. PICK c \in ToSet(Books[k]) : NoBook = <<c.name, c.handles>>
    BY <1>1, <2>2 DEF Fingerprint
  <2> QED BY <1>1, <2>3, NoFingerprintAssumption
<1>3. {<<c.name, c.handles>> : c \in ToSet(Index(j))} = {<<c.name, c.handles>> : c \in ToSet(Index(k))}
  BY <1>1, <1>2 DEF Fingerprint
<1> DEFINE Prints(index) == {<<c.name, c.handles>> : c \in ToSet(index)}
<1>6. ASSUME NEW x, NEW y, Prints(x) = Prints(y), NEW c \in ToSet(x)
      PROVE  \E d \in ToSet(y) : c.name = d.name /\ c.handles = d.handles
  <2>1. <<c.name, c.handles>> \in Prints(y)
    BY <1>6
  <2>2. PICK d \in ToSet(y) : <<c.name, c.handles>> = <<d.name, d.handles>>
    BY <2>1
  <2> QED BY <2>2
<1>4. \A c \in ToSet(Index(j)) : \E d \in ToSet(Index(k)) : c.name = d.name /\ c.handles = d.handles
  BY <1>3, <1>6
<1>5. \A c \in ToSet(Index(k)) : \E d \in ToSet(Index(j)) : c.name = d.name /\ c.handles = d.handles
  BY SMTT(30), <1>3, <1>6
<1> QED BY <1>4, <1>5 DEF ExactName, HandlesOf

(* What a book means by a name is what is found exactly.                   *)
LEMMA MeantIsExact ==
  ASSUME NEW e \in 1..Len(Books), NEW words, Sequence(words)
  PROVE  Meant(e, words) = ExactName(Index(e), words)
<1>1. Index(e) = Books[e]
  BY BooksAssumption DEF Index
<1>2. Len(words) = 1 => words = <<words[1]>>
  BY DEF Sequence
<1>3. \A c : words = <<c.name[1]>> <=> Len(words) = 1 /\ words[1] = c.name[1]
  BY <1>2
<1> QED BY <1>1, <1>3 DEF Meant, ExactName

LEMMA WordsAreSequence ==
  ASSUME NEW span, Sequence(span)
  PROVE  Sequence(WordsOf(span))
<1>1. WordsOf(span) \in Seq({WordsOf(span)[i] : i \in DOMAIN WordsOf(span)})
  BY DEF Sequence, WordsOf, ToSet
<1> QED BY <1>1 DEF Sequence, ToSet

(* The whole span comes first, and whom it names exactly before all else.  *)
LEMMA ExactComesFirst ==
  ASSUME NEW index, NEW span, Sequence(span), ~NeverAName(span),
         ExactName(index, WordsOf(span)) # {}
  PROVE  ResolveName(index, span) = ExactName(index, WordsOf(span))
<1> DEFINE candidates == NameCandidates(span)
           finds == {i \in DOMAIN candidates : Found(index, candidates[i]) # {}}
<1>1. candidates[1] = span /\ DOMAIN candidates \subseteq Nat \ {0} /\ 1 \in DOMAIN candidates
  <2> DEFINE alone == [i \in DOMAIN span |-> <<span[i]>>]
             S == {span} \cup {alone[i] : i \in DOMAIN span}
  <2>1. CASE Len(span) > 1
    <3>1. DOMAIN span = 1..Len(span) /\ Len(span) \in Nat
      BY DEF Sequence
    <3>2. alone \in Seq(S) /\ <<span>> \in Seq(S) /\ Len(<<span>>) = 1 /\ <<span>>[1] = span
      BY <3>1
    <3> HIDE DEF alone, S
    <3>3. /\ (<<span>> \o alone)[1] = span /\ 1 \in DOMAIN (<<span>> \o alone)
          /\ DOMAIN (<<span>> \o alone) \subseteq Nat \ {0}
      BY <3>2
    <3> QED BY <2>1, <3>3 DEF NameCandidates, alone
  <2>2. CASE ~(Len(span) > 1)
    BY <2>2 DEF NameCandidates
  <2> QED BY <2>1, <2>2
<1>2. Found(index, span) = ExactName(index, WordsOf(span))
  BY DEF Found
<1>3. 1 \in finds /\ finds \in SUBSET Nat /\ \A i \in finds : 1 <= i
  BY <1>1, <1>2
<1>4. Min(finds) \in finds /\ Min(finds) <= 1
  BY <1>3, MinIsLeast
<1>5. Min(finds) = 1
  BY <1>3, <1>4
<1> QED BY <1>1, <1>2, <1>3, <1>5 DEF ResolveName

(* A handle shown by a name is among those the name finds.                 *)
LEMMA ShownIsFound ==
  ASSUME NEW index, Sequence(index), \A c \in ToSet(index) : Sequence(c.name),
         NEW handle, ResolveHandle(index, handle) # <<handle>>,
         ~NeverAName(Capitalised(ResolveHandle(index, handle)))
  PROVE  handle \in ResolveName(index, Capitalised(ResolveHandle(index, handle)))
<1> DEFINE owners == {i \in DOMAIN index : handle \in index[i].handles}
           name == ResolveHandle(index, handle)
           span == Capitalised(name)
<1>1. owners # {} /\ name = index[Max(owners)].name
  BY DEF ResolveHandle
<1>2. Max(owners) \in owners
  <2>1. Len(index) \in Nat /\ owners \in SUBSET (1..Len(index))
    BY DEF Sequence
  <2> QED BY <1>1, <2>1, MaxIsThere
<1>3. PICK c \in ToSet(index) : name = c.name /\ handle \in c.handles
  BY <1>1, <1>2 DEF ToSet
<1>4. Sequence(name)
  BY <1>3
<1>5. Sequence(span) /\ WordsOf(span) = name
  <2>1. name \in Seq(ToSet(name)) /\ DOMAIN name = 1..Len(name) /\ Len(name) \in Nat
    BY <1>4 DEF Sequence
  <2>2. DOMAIN span = 1..Len(name) /\ \A i \in DOMAIN name : span[i].word = name[i]
    BY <2>1 DEF Capitalised
  <2>3. span \in Seq({span[i] : i \in DOMAIN span})
    <3> DEFINE S == {span[i] : i \in DOMAIN span}
    <3>1. span = [i \in DOMAIN span |-> span[i]] /\ DOMAIN span = 1..Len(name)
      BY <2>1 DEF Capitalised
    <3>2. \A i \in DOMAIN span : span[i] \in S
      OBVIOUS
    <3> HIDE DEF S, span
    <3>3. span \in [1..Len(name) -> S]
      BY <3>1, <3>2
    <3> QED BY <2>1, <3>3 DEF S
  <2>4. name = [i \in DOMAIN name |-> name[i]] /\ WordsOf(span) = [i \in DOMAIN name |-> name[i]]
    BY <2>1, <2>2 DEF WordsOf
  <2> QED BY <2>3, <2>4 DEF Sequence, ToSet
<1>6. handle \in ExactName(index, WordsOf(span))
  BY <1>3, <1>5 DEF ExactName, HandlesOf
<1> QED BY <1>5, <1>6, ExactComesFirst

-----------------------------------------------------------------------------
(* The invariant is kept, one group of actions after the other.            *)

LEMMA Sizes ==
  /\ Len(Books) \in Nat \ {0} /\ NoBook \notin 0..Len(Books)
  /\ Unread \notin {NoBook} \cup (0..Len(Books))
  /\ {"pool", "loop", "launch"} = Threads
<1>1. Books \in Seq(ToSet(Books)) /\ Books # <<>>
  BY BooksAssumption DEF Sequence
<1>2. Len(Books) \in Nat \ {0}
  BY ONLY <1>1, EmptySeq
<1> QED BY <1>2, BooksAssumption DEF Threads

LEMMA EngineStart == Init => EngineInv
<1> SUFFICES ASSUME Init PROVE EngineInv
  OBVIOUS
<1>1. 1 \in 1..Len(Books) /\ host \in {"app", "mcp"} /\ NoBook \in Reads /\ 0 \in 0..edition
  <2>1. host \in Hosts /\ edition = 1
    BY DEF Init
  <2> QED BY <2>1, Sizes, HostsAssumption DEF Reads
<1>2. ContactsTypeOK
  BY <1>1 DEF Init, ContactsTypeOK, Threads, Steps, Operations
<1>3. RoleInv
  BY DEF Init, RoleInv, Threads, Retitling, Binding, Warming, Refreshing
<1>4. PrintInv /\ TitleInv
  BY DEF Init, PrintInv, TitleInv, Threads, Warming, Retitling, Fingerprint
<1>5. FloorInv /\ GrantInv
  <2>1. \A t \in Threads : floor[t] = 0
    BY DEF Init
  <2>2. \A t \in Threads : ~(floor[t] > 0)
    BY ONLY <2>1
  <2>3. FloorInv
    BY <2>2 DEF FloorInv
  <2> QED BY <2>3 DEF Init, GrantInv
<1> QED BY <1>2, <1>3, <1>4, <1>5 DEF EngineInv

(* A step of one thread.                                                   *)
Moves(t, step) ==
  /\ step \in Steps
  /\ pc' \in [Threads -> Steps] /\ op' \in [Threads -> Operations]
  /\ pc'[t] = step /\ op'[t] \in {op[t], "none"} /\ (step # "idle" => op'[t] = op[t])
  /\ \A u \in Threads \ {t} : pc'[u] = pc[u] /\ op'[u] = op[u]

LEMMA GotoMoves ==
  ASSUME ContactsTypeOK, NEW t \in Threads, NEW step \in Steps, Goto(t, step)
  PROVE  Moves(t, step)
BY DEF ContactsTypeOK, Goto, Moves, Operations

(* A step between operations stores nothing.                               *)
Passes(t, step) ==
  /\ pc' = [pc EXCEPT ![t] = step]
  /\ pc[t] \in {"idle", "asking", "check", "parse", "answered"}
  /\ step \in {"idle", "asking", "check", "read", "parse", "answered", "read to warm", "bind"}
  /\ UNCHANGED <<world, engine, first, held, granted, tangled>>
  /\ \/ floor' = [floor EXCEPT ![t] = 0]
     \/ floor' = floor /\ step # "parse"

LEMMA PassingKeeps ==
  ASSUME EngineInv, NEW t \in Threads, NEW step, Passes(t, step),
         op' \in [Threads -> Operations], query' \in Queries \cup {NoQuery}, RoleInv'
  PROVE  EngineInv'
<1>1. /\ pc' \in [Threads -> Steps] /\ pc'[t] = step
      /\ \A u \in Threads \ {t} : pc'[u] = pc[u]
  BY DEF EngineInv, ContactsTypeOK, Passes, Steps, Refreshing, Binding
<1>2. /\ pc[t] \in {"idle", "asking", "check", "parse", "answered"}
      /\ step \in {"idle", "asking", "check", "read", "parse", "answered", "read to warm", "bind"}
      /\ UNCHANGED <<world, engine, first, held, granted, tangled>>
  BY DEF Passes
<1>3. /\ floor' \in [Threads -> 0..edition] /\ \A u \in Threads \ {t} : floor'[u] = floor[u]
      /\ floor'[t] = 0 \/ (floor'[t] = floor[t] /\ step # "parse")
  <2>1. floor \in [Threads -> 0..edition] /\ 0 \in 0..edition
    BY Sizes DEF EngineInv, ContactsTypeOK
  <2> QED BY <2>1 DEF Passes
<1>4. ContactsTypeOK'
  BY <1>1, <1>2, <1>3 DEF EngineInv, ContactsTypeOK, Reads, world, engine
<1>5. PrintInv'
  BY <1>1, <1>2 DEF EngineInv, PrintInv, world, engine, Retitling, Warming, Fingerprint, Index
<1>6. TitleInv'
  BY <1>1, <1>2, Sizes DEF EngineInv, TitleInv, world, engine, Retitling, Fingerprint, Index
<1>7. FloorInv'
  <2> SUFFICES ASSUME NEW u \in Threads, floor'[u] > 0 PROVE Fresh(u)'
    BY DEF FloorInv
  <2>1. floor'[u] = floor[u] /\ Fresh(u) /\ (u = t => step # "parse")
    BY <1>3 DEF EngineInv, FloorInv
  <2>2. UNCHANGED <<access, host, edition, contacts, first, held, tangled>>
    BY <1>2 DEF world, engine
  <2>3. \A v \in Threads : pc'[v] \in {"store", "place"} => pc[v] = pc'[v]
    BY <1>1, <1>2
  <2>4. pc'[u] \in {"store", "title", "titled", "parse"} => pc'[u] = pc[u]
    BY <1>1, <1>2, <2>1
  <2>5. AsOf(contacts, floor[u])' = AsOf(contacts, floor[u])
    BY <2>1, <2>2 DEF AsOf, Fingerprint, Index
  <2> QED BY <2>1, <2>2, <2>3, <2>4, <2>5 DEF Fresh
<1>8. GrantInv'
  <2>1. AsOf(contacts, 1)' = AsOf(contacts, 1)
    BY <1>2 DEF AsOf, Fingerprint, Index, world, engine
  <2> QED BY <1>1, <1>2, <2>1, Sizes DEF EngineInv, RoleInv, GrantInv, world, engine
<1> QED BY <1>4, <1>5, <1>6, <1>7, <1>8 DEF EngineInv

LEMMA CheckAgeKeeps ==
  ASSUME EngineInv, NEW t \in Threads, CheckAge(t)
  PROVE  EngineInv'
<1> DEFINE step == IF aged THEN "read" ELSE After(t)
<1>1. Moves(t, step) /\ step \in {"read", "parse", "idle"} /\ pc[t] = "check"
      /\ (step = "parse" => op[t] = "search")
  BY GotoMoves DEF CheckAge, After, EngineInv, Steps, Refreshing
<1>2. Passes(t, step)
  BY <1>1 DEF CheckAge, Passes, Goto
<1> HIDE DEF step
<1>3. op' \in [Threads -> Operations] /\ query' \in Queries \cup {NoQuery}
  BY <1>1 DEF CheckAge, Moves, EngineInv, ContactsTypeOK
<1>4. RoleInv'
  BY ZenonT(60), <1>1, <1>2, Sizes DEF EngineInv, ContactsTypeOK, RoleInv, Passes, Moves, world, engine,
       Retitling, Binding, Warming, Refreshing
<1> QED BY <1>2, <1>3, <1>4, PassingKeeps

LEMMA ParseKeeps ==
  ASSUME EngineInv, NEW t \in Threads, Parse(t)
  PROVE  EngineInv'
<1> DEFINE step == IF t = "pool" THEN "answered" ELSE "idle"
<1>1. Moves(t, step) /\ pc[t] = "parse"
  BY GotoMoves DEF Parse, EngineInv, Steps
<1>2. Passes(t, step)
  BY <1>1 DEF Parse, Passes, Goto, aux
<1>3. op' \in [Threads -> Operations] /\ query' \in Queries \cup {NoQuery}
  BY <1>1 DEF Parse, Moves, EngineInv, ContactsTypeOK
<1>4. RoleInv'
  BY ZenonT(60), <1>1, <1>2, Sizes DEF EngineInv, ContactsTypeOK, RoleInv, Passes, Moves, world, engine,
       Retitling, Binding, Warming, Refreshing
<1> QED BY <1>2, <1>3, <1>4, PassingKeeps

LEMMA RespondKeeps ==
  ASSUME EngineInv, Respond
  PROVE  EngineInv'
<1>1. Moves("pool", "idle") /\ pc["pool"] = "answered"
  BY GotoMoves, Sizes DEF Respond, EngineInv, Steps
<1>2. Passes("pool", "idle")
  BY <1>1 DEF Respond, Passes, Goto, aux
<1>3. op' \in [Threads -> Operations] /\ query' \in Queries \cup {NoQuery}
  BY <1>1 DEF Respond, Moves, EngineInv, ContactsTypeOK
<1>4. RoleInv'
  BY ZenonT(60), <1>1, <1>2, Sizes DEF EngineInv, ContactsTypeOK, RoleInv, Passes, Moves, world, engine,
       Retitling, Binding, Warming, Refreshing
<1> QED BY <1>2, <1>3, <1>4, PassingKeeps, Sizes

(* An operation begins where its host allows it.                           *)
LEMMA BeginKeeps ==
  ASSUME EngineInv, NEW t \in Threads, NEW operation \in Operations, NEW step,
         Begin(t, operation, step), query' \in Queries \cup {NoQuery},
         \/ t = "pool" /\ host = "app" /\ step \in {"check", "read to warm"}
         \/ t \in {"pool", "loop"} /\ host = "mcp" /\ step = "bind"
         \/ t = "loop" /\ host = "app" /\ step = "asking",
         t = "loop" => operation # "search"
  PROVE  EngineInv'
<1>1. Passes(t, step)
  BY DEF Begin, Passes, aux
<1>2. /\ op' \in [Threads -> Operations] /\ op'[t] = operation
      /\ \A u \in Threads \ {t} : op'[u] = op[u]
  BY DEF Begin, EngineInv, ContactsTypeOK
<1>3. pc'[t] = step /\ pc[t] = "idle" /\ \A u \in Threads \ {t} : pc'[u] = pc[u]
  BY DEF Begin, EngineInv, ContactsTypeOK
<1>4. RoleInv'
  <2>1. RoleInv /\ UNCHANGED <<world, engine, first, granted>>
    BY <1>1 DEF EngineInv, Passes
  <2>2. locked' = locked /\ host' = host /\ first' = first /\ granted' = granted
    BY <2>1 DEF world, engine
  <2>3. \A u \in Threads : pc'[u] \in Retitling <=> pc[u] \in Retitling
    BY <1>3 DEF Retitling
  <2>4. \A u \in Threads : locked' = u <=> pc'[u] \in Retitling
    BY <2>1, <2>2, <2>3 DEF RoleInv
  <2>5. host' = "app" => \A u \in Threads : pc'[u] \notin Binding
    BY <1>3, <2>1, <2>2 DEF RoleInv, Binding
  <2>6. host' = "mcp" => /\ pc'["launch"] = "idle" /\ pc'["loop"] \in {"idle"} \cup Binding
                         /\ pc'["pool"] \notin Warming \cup {"read to warm"}
                         /\ pc'["pool"] \in Refreshing \cup {"parse", "bind what is read"}
                              => first' # Unread
    BY <1>3, <2>1, <2>2, Sizes DEF RoleInv, Binding, Warming, Refreshing
  <2>7. /\ pc'["loop"] \notin Warming \cup {"read to warm", "check", "parse", "answered"}
        /\ op'["loop"] # "search"
    BY <1>2, <1>3, <2>1, Sizes DEF RoleInv, Warming
  <2>8. granted' => host' = "app"
    <3>1. granted => host = "app"
      BY <2>1 DEF RoleInv
    <3> QED BY <2>2, <3>1
  <2> QED BY <2>4, <2>5, <2>6, <2>7, <2>8 DEF RoleInv, Retitling, Binding, Warming, Refreshing
<1> QED BY <1>1, <1>2, <1>4, PassingKeeps

LEMMA OperationsKeep ==
  ASSUME EngineInv,
         (\E q \in Queries : Search(q)) \/ SuggestContacts \/ Rewarm \/ RequestContacts \/ IndexStatus
  PROVE  EngineInv'
<1>1. query \in Queries \cup {NoQuery} /\ host \in {"app", "mcp"}
  BY DEF EngineInv, ContactsTypeOK
<1>2. ASSUME NEW q \in Queries, Search(q) PROVE EngineInv'
  <2>1. CASE host = "app"
    BY <1>2, <2>1, BeginKeeps, Sizes DEF Search, Operations
  <2>2. CASE host = "mcp"
    BY <1>2, <2>2, BeginKeeps, Sizes DEF Search, Operations
  <2> QED BY <1>1, <2>1, <2>2
<1>3. CASE SuggestContacts
  BY <1>1, <1>3, BeginKeeps, Sizes DEF SuggestContacts, Operations
<1>4. CASE Rewarm
  BY <1>1, <1>4, BeginKeeps, Sizes DEF Rewarm, Operations
<1>5. CASE RequestContacts
  BY <1>1, <1>5, BeginKeeps, Sizes DEF RequestContacts, Operations
<1>6. CASE IndexStatus
  BY <1>1, <1>6, BeginKeeps, Sizes DEF IndexStatus, Operations
<1> QED BY <1>2, <1>3, <1>4, <1>5, <1>6

(* A step that respects the roles of its thread and its host.              *)
RoleStep(t, step) ==
  /\ Moves(t, step)
  /\ host' = host /\ (first' = first \/ first' # Unread)
  /\ granted' = TRUE => host = "app"
  /\ IF step \in Retitling THEN locked' = t /\ locked \in {t, "nobody"}
     ELSE IF pc[t] \in Retitling THEN locked' = "nobody" ELSE locked' = locked
  /\ step \in Binding => host = "mcp"
  /\ t = "loop" => step \notin Warming \cup {"read to warm", "check", "parse", "answered"}
  /\ host = "mcp" =>
       /\ step \notin Warming \cup {"read to warm"} /\ t # "launch"
       /\ t = "loop" => step \in {"idle"} \cup Binding
       /\ t = "pool" /\ step \in Refreshing \cup {"parse", "bind what is read"} => first' # Unread

LEMMA RolesKept ==
  ASSUME EngineInv, NEW t \in Threads, NEW step, RoleStep(t, step), granted' \in BOOLEAN
  PROVE  RoleInv'
<1>1. /\ pc'[t] = step /\ \A u \in Threads \ {t} : pc'[u] = pc[u]
      /\ op'[t] \in {op[t], "none"} /\ \A u \in Threads \ {t} : op'[u] = op[u]
  BY DEF RoleStep, Moves
<1>2. ContactsTypeOK /\ RoleInv /\ host' = host
  BY DEF EngineInv, RoleStep
<1>3. \A u \in Threads : locked' = u <=> pc'[u] \in Retitling
  <2>1. /\ \A u \in Threads : locked = u <=> pc[u] \in Retitling
        /\ IF step \in Retitling THEN locked' = t /\ locked \in {t, "nobody"}
           ELSE IF pc[t] \in Retitling THEN locked' = "nobody" ELSE locked' = locked
    BY <1>2 DEF RoleInv, RoleStep
  <2>2. "nobody" \notin Threads
    BY DEF Threads
  <2> QED BY <1>1, <2>1, <2>2
<1>4. host' = "app" => \A u \in Threads : pc'[u] \notin Binding
  <2>1. step \in Binding => host = "mcp"
    BY DEF RoleStep
  <2>2. host = "app" => \A u \in Threads : pc[u] \notin Binding
    BY <1>2 DEF RoleInv
  <2> QED BY <1>1, <1>2, <2>1, <2>2
<1>5. host' = "mcp" => /\ pc'["launch"] = "idle" /\ pc'["loop"] \in {"idle"} \cup Binding
                       /\ pc'["pool"] \notin Warming \cup {"read to warm"}
                       /\ pc'["pool"] \in Refreshing \cup {"parse", "bind what is read"}
                            => first' # Unread
  <2> HAVE host' = "mcp"
  <2>1. /\ pc["launch"] = "idle" /\ pc["loop"] \in {"idle"} \cup Binding
        /\ pc["pool"] \notin Warming \cup {"read to warm"}
        /\ pc["pool"] \in Refreshing \cup {"parse", "bind what is read"} => first # Unread
    BY <1>2 DEF RoleInv
  <2>2. /\ step \notin Warming \cup {"read to warm"} /\ t # "launch"
        /\ t = "loop" => step \in {"idle"} \cup Binding
        /\ t = "pool" /\ step \in Refreshing \cup {"parse", "bind what is read"} => first' # Unread
        /\ first' = first \/ first' # Unread
    BY <1>2 DEF RoleStep
  <2> QED BY <1>1, <2>1, <2>2, Sizes
<1>6. /\ pc'["loop"] \notin Warming \cup {"read to warm", "check", "parse", "answered"}
      /\ op'["loop"] # "search"
  <2>1. /\ pc["loop"] \notin Warming \cup {"read to warm", "check", "parse", "answered"}
        /\ op["loop"] # "search"
    BY <1>2 DEF RoleInv
  <2>2. t = "loop" => step \notin Warming \cup {"read to warm", "check", "parse", "answered"}
    BY DEF RoleStep
  <2> QED BY <1>1, <2>1, <2>2, Sizes
<1>7. granted' => host' = "app"
  BY <1>2 DEF RoleStep
<1> QED BY <1>3, <1>4, <1>5, <1>6, <1>7 DEF RoleInv, Retitling, Binding, Warming, Refreshing

LEMMA OutsideKeeps ==
  ASSUME EngineInv, ChangeBook \/ Age
  PROVE  EngineInv'
<1>1. /\ UNCHANGED <<host, access, contacts, fingerprint, titles, locked, first, pc, op, held, query, aux>>
      /\ edition' = edition \/ (edition < Len(Books) /\ edition' = edition + 1)
      /\ aged' = aged \/ aged' = TRUE
  BY DEF ChangeBook, Age, engine, world
<1>2. edition' \in 1..Len(Books) /\ edition <= edition'
  BY <1>1, Sizes DEF EngineInv, ContactsTypeOK
<1>3. Reads \subseteq Reads' /\ 0..edition \subseteq 0..(edition') /\ edition \in Nat
  BY <1>2, Sizes DEF Reads, EngineInv, ContactsTypeOK
<1>4. ContactsTypeOK'
  BY <1>1, <1>2, <1>3 DEF EngineInv, ContactsTypeOK, aux
<1>5. RoleInv' /\ PrintInv'
  BY <1>1 DEF EngineInv, RoleInv, PrintInv, aux, Fingerprint, Index
<1>6. TitleInv'
  BY <1>1 DEF EngineInv, TitleInv, aux, Index
<1>7. FloorInv'
  <2> SUFFICES ASSUME NEW t \in Threads, floor'[t] > 0 PROVE Fresh(t)'
    BY DEF FloorInv
  <2>1. Fresh(t) /\ floor'[t] = floor[t] /\ floor[t] \in Nat
    BY <1>1 DEF EngineInv, ContactsTypeOK, FloorInv, aux
  <2>2. AsOf(contacts, floor[t]) => AsOf(contacts, floor[t])'
    <3> SUFFICES ASSUME NEW d \in floor[t]..edition, d > 0, Fingerprint(contacts) = Fingerprint(d)
                 PROVE  AsOf(contacts, floor[t])'
      BY DEF AsOf
    <3>1. d \in floor'[t]..(edition') /\ Fingerprint(contacts)' = Fingerprint(d)
      BY <1>1, <1>2, <1>3, <2>1 DEF Fingerprint, Index
    <3> QED BY <3>1 DEF AsOf
  <2>3. floor[t]..edition \subseteq floor[t]..(edition')
    BY <1>2, <1>3, <2>1
  <2> QED BY <1>1, <2>1, <2>2, <2>3 DEF Fresh, aux
<1>8. GrantInv'
  <2>1. 1..edition \subseteq 1..(edition')
    BY <1>2, <1>3
  <2>2. AsOf(contacts, 1) => AsOf(contacts, 1)'
    <3> SUFFICES ASSUME NEW d \in 1..edition, Fingerprint(contacts) = Fingerprint(d)
                 PROVE  AsOf(contacts, 1)'
      BY DEF AsOf
    <3>1. d \in 1..(edition') /\ d > 0 /\ Fingerprint(contacts)' = Fingerprint(d)
      BY <1>1, <1>3, <2>1 DEF Fingerprint, Index
    <3> QED BY <3>1 DEF AsOf
  <2> QED BY <1>1, <2>1, <2>2 DEF EngineInv, GrantInv, aux
<1> QED BY <1>4, <1>5, <1>6, <1>7, <1>8 DEF EngineInv

LEMMA AnswerPromptKeeps ==
  ASSUME EngineInv, AnswerPrompt
  PROVE  EngineInv'
<1> DEFINE step == IF access' = "authorized" THEN "read" ELSE "idle"
<1>1. Moves("loop", step) /\ pc["loop"] = "asking" /\ step \in {"read", "idle"}
      /\ (access' = "authorized" => step = "read")
  BY GotoMoves, Sizes DEF AnswerPrompt, EngineInv, Steps, Refreshing
<1> HIDE DEF step
<1>2. /\ UNCHANGED <<host, edition, engine, first, held, query, floor, tangled>>
      /\ granted' = (granted \/ (access' = "authorized" /\ {NoBook, 0} \cap UnderWay = {}))
      /\ access' \in {"undetermined", "denied", "authorized"}
      /\ access = "authorized" => access' = access
  <2>1. granted' = (granted \/ (access' = "authorized" /\ {NoBook, 0} \cap UnderWay = {}))
    BY DEF AnswerPrompt
  <2>2. access' \in IF access = "undetermined" THEN {"undetermined", "denied", "authorized"} ELSE {access}
    BY DEF AnswerPrompt
  <2>3. UNCHANGED <<host, edition, engine, first, held, query, floor, tangled>>
    BY DEF AnswerPrompt
  <2>4. access \in {"undetermined", "denied", "authorized"}
    BY DEF EngineInv, ContactsTypeOK
  <2> QED BY <2>1, <2>2, <2>3, <2>4
<1>3. ContactsTypeOK'
  BY <1>1, <1>2 DEF EngineInv, ContactsTypeOK, Moves, Reads, engine
<1>4. RoleInv'
  <2>1. host = "app"
    BY <1>1 DEF EngineInv, ContactsTypeOK, RoleInv, Binding
  <2>2. RoleStep("loop", step)
    BY <1>1, <1>2, <2>1 DEF RoleStep, engine, Retitling, Binding, Warming
  <2> QED BY <1>3, <2>2, RolesKept, Sizes DEF ContactsTypeOK
<1>5. PrintInv'
  <2>1. \A t \in Threads : pc'[t] = pc[t] \/ (pc[t] = "asking" /\ pc'[t] \in {"read", "idle"})
    BY <1>1 DEF Moves
  <2>2. UNCHANGED <<host, contacts, fingerprint, first, held, tangled>>
    BY <1>2 DEF engine
  <2> QED BY <2>1, <2>2 DEF EngineInv, PrintInv, Retitling, Warming, Fingerprint, Index
<1>6. TitleInv'
  BY <1>1, <1>2, Sizes DEF EngineInv, TitleInv, Moves, engine, Retitling, Index
<1>7. FloorInv'
  <2> SUFFICES ASSUME NEW t \in Threads, floor'[t] > 0 PROVE Fresh(t)'
    BY DEF FloorInv
  <2>1. Fresh(t) /\ floor'[t] = floor[t]
    BY <1>2 DEF EngineInv, FloorInv
  <2>2. AsOf(contacts, floor[t])' = AsOf(contacts, floor[t])
    BY <1>2, <2>1 DEF AsOf, Fingerprint, Index, engine
  <2>3. \A u \in Threads : pc'[u] \in {"store", "title", "titled", "parse", "place"} => pc'[u] = pc[u]
    BY <1>1 DEF Moves
  <2> QED BY <1>2, <2>1, <2>2, <2>3 DEF Fresh, engine
<1>8. GrantInv'
  <2> SUFFICES ASSUME granted' PROVE GrantInv'
    BY DEF GrantInv
  <2>1. access' = "authorized"
    BY <1>2 DEF EngineInv, GrantInv
  <2>2. ASSUME NEW t \in Threads, pc'[t] \in {"store", "place"} PROVE held'[t] \in 1..edition'
    <3>1. pc[t] \in {"store", "place"} /\ held' = held /\ edition' = edition
      BY <1>1, <1>2, <2>2 DEF Moves
    <3>2. CASE granted
      BY <3>1, <3>2 DEF EngineInv, GrantInv
    <3>3. CASE ~granted
      <4>1. held[t] \in UnderWay /\ held[t] \in Reads
        BY <3>1 DEF UnderWay, EngineInv, ContactsTypeOK
      <4>2. held[t] # NoBook /\ held[t] # 0
        BY <1>2, <3>3, <4>1
      <4> QED BY <3>1, <4>1, <4>2 DEF Reads, EngineInv, ContactsTypeOK
    <3> QED BY <3>2, <3>3
  <2>3. pc'["loop"] = "read"
    BY <1>1, <2>1 DEF Moves
  <2> QED BY <2>1, <2>2, <2>3 DEF GrantInv
<1> QED BY <1>3, <1>4, <1>5, <1>6, <1>7, <1>8 DEF EngineInv

(* A read brings the current edition, or nothing when access is not there. *)
LEMMA LoadReads ==
  ASSUME ContactsTypeOK, NEW book \in {NoBook} \cup (0..Len(Books)), Load(book)
  PROVE  /\ book \in Reads /\ access' \in {"undetermined", "denied", "authorized"}
         /\ access = "authorized" => access' = "authorized" /\ book = edition
         /\ book \notin {NoBook, 0} => access' = "authorized" /\ book = edition
<1>1. edition \in 1..Len(Books)
  BY DEF ContactsTypeOK
<1> QED BY <1>1, Sizes DEF Load, ContactsTypeOK, Reads

LEMMA ReadBookKeeps ==
  ASSUME EngineInv, NEW t \in Threads, ReadBook(t)
  PROVE  EngineInv'
<1> DEFINE all(book) == UnderWay \cup {book}
<1>1. PICK book \in {NoBook} \cup (0..Len(Books)) :
        /\ Load(book) /\ held' = [held EXCEPT ![t] = book]
        /\ floor' = [floor EXCEPT ![t] = IF NoBook \in all(book) THEN 0 ELSE Min(all(book))]
  BY DEF ReadBook
<1>2. /\ Moves(t, "store") /\ pc[t] = "read"
      /\ UNCHANGED <<host, edition, engine, first, query, granted, tangled>>
  BY GotoMoves DEF ReadBook, EngineInv, Steps, Refreshing
<1>3. /\ book \in Reads /\ access' \in {"undetermined", "denied", "authorized"}
      /\ access = "authorized" => access' = "authorized" /\ book = edition
      /\ book \notin {NoBook, 0} => access' = "authorized" /\ book = edition
  BY <1>1, LoadReads DEF EngineInv
<1>4. edition \in Nat \ {0} /\ edition' = edition /\ edition \in 1..Len(Books)
      /\ held'[t] = book /\ \A u \in Threads \ {t} : held'[u] = held[u]
  BY <1>1, <1>2, Sizes DEF EngineInv, ContactsTypeOK
<1>5. all(book) \subseteq Reads /\ book \in all(book) /\ UnderWay \subseteq all(book)
  BY <1>3 DEF UnderWay, EngineInv, ContactsTypeOK
<1>6. NoBook \notin all(book) =>
        Min(all(book)) \in all(book) /\ Min(all(book)) \in 0..edition /\ \A n \in all(book) : Min(all(book)) <= n
  <2> HAVE NoBook \notin all(book)
  <2> DEFINE S == all(book)
  <2>1. S \subseteq 0..edition /\ S # {}
    BY <1>5 DEF Reads
  <2> HIDE DEF S
  <2>2. S \in SUBSET Nat
    BY <1>4, <2>1
  <2>3. Min(S) \in S /\ \A n \in S : Min(S) <= n
    BY <2>1, <2>2, MinIsLeast
  <2> QED BY <2>1, <2>3 DEF S
<1>7. /\ floor' \in [Threads -> 0..edition] /\ \A u \in Threads \ {t} : floor'[u] = floor[u]
      /\ floor'[t] > 0 => NoBook \notin all(book) /\ floor'[t] = Min(all(book))
  <2> DEFINE f == IF NoBook \in all(book) THEN 0 ELSE Min(all(book))
  <2>1. f \in 0..edition /\ floor \in [Threads -> 0..edition] /\ (f > 0 => NoBook \notin all(book))
    BY <1>4, <1>6 DEF EngineInv, ContactsTypeOK
  <2>2. floor' = [floor EXCEPT ![t] = f]
    BY <1>1
  <2>3. NoBook \notin all(book) => f = Min(all(book))
    OBVIOUS
  <2> HIDE DEF f
  <2> QED BY <2>1, <2>2, <2>3
<1> HIDE DEF all
<1>8. ContactsTypeOK'
  BY <1>1, <1>2, <1>3, <1>4, <1>7 DEF EngineInv, ContactsTypeOK, Moves, Reads, engine
<1>9. RoleInv'
  <2>1. RoleStep(t, "store")
    <3>1. host = "mcp" => t = "pool" /\ first # Unread
      BY <1>2, Sizes DEF EngineInv, RoleInv, Refreshing, Binding
    <3>2. granted => host = "app"
      BY DEF EngineInv, RoleInv
    <3> QED BY <1>2, <3>1, <3>2 DEF RoleStep, engine, Retitling, Binding, Warming
  <2> QED BY <1>8, <2>1, RolesKept DEF ContactsTypeOK
<1>10. PrintInv'
  BY ZenonT(60), <1>2, <1>4 DEF EngineInv, PrintInv, Moves, engine, Retitling, Warming, Fingerprint, Index
<1>11. TitleInv'
  BY ZenonT(60), <1>2, <1>4, Sizes DEF EngineInv, TitleInv, Moves, engine, Retitling, Index
<1>12. FloorInv'
  <2> SUFFICES ASSUME NEW u \in Threads, floor'[u] > 0 PROVE Fresh(u)'
    BY DEF FloorInv
  <2>1. CASE u = t
    <3>1. /\ NoBook \notin all(book) /\ \A n \in all(book) : n \in 0..edition /\ floor'[t] <= n
          /\ floor'[t] \in Nat
      BY <1>5, <1>6, <1>7, <2>1 DEF Reads
    <3>2. book \in Nat /\ book > 0
      BY <1>5, <2>1, <3>1
    <3>3. access' = "authorized"
      BY <1>3, <3>1, <3>2, <1>5
    <3>4. ASSUME NEW v \in Threads, pc'[v] \in {"store", "place"} PROVE held'[v] \in all(book)
      BY <1>2, <1>4, <1>5, <3>4 DEF Moves, UnderWay
    <3>5. \A v \in Threads : pc'[v] \in {"store", "place"} => held'[v] \in floor'[t]..edition'
      BY <1>4, <3>1, <3>4
    <3> QED BY <1>2, <2>1, <3>3, <3>5 DEF Fresh, Moves
  <2>2. CASE u # t
    <3>1. floor'[u] = floor[u] /\ Fresh(u) /\ pc'[u] = pc[u] /\ floor[u] \in 0..edition
      BY <1>2, <1>7, <2>2 DEF EngineInv, ContactsTypeOK, FloorInv, Moves
    <3>2. access = "authorized" /\ access' = "authorized" /\ book = edition
      BY <1>3, <3>1 DEF Fresh
    <3>3. AsOf(contacts, floor[u])' = AsOf(contacts, floor[u])
      BY <1>2, <3>1 DEF AsOf, Fingerprint, Index, engine
    <3>4. held'[t] \in floor[u]..edition
      BY <1>4, <3>1, <3>2
    <3>5. pc'[u] \in {"store", "title", "titled", "parse"} =>
            \A v \in Threads : pc'[v] \in {"store", "place"} => held'[v] \in floor'[u]..edition'
      BY <1>2, <1>4, <3>1, <3>4 DEF Fresh, Moves
    <3> QED BY <1>2, <3>1, <3>2, <3>3, <3>5 DEF Fresh, engine
  <2> QED BY <2>1, <2>2
<1>13. GrantInv'
  <2> SUFFICES ASSUME granted' PROVE GrantInv'
    BY DEF GrantInv
  <2>1. granted /\ GrantInv
    BY <1>2 DEF EngineInv
  <2>2. access' = "authorized" /\ book = edition
    BY <1>3, <2>1 DEF GrantInv
  <2>3. \A u \in Threads : pc'[u] \in {"store", "place"} => held'[u] \in 1..edition'
    BY <1>2, <1>4, <2>1, <2>2 DEF GrantInv, Moves
  <2>4. AsOf(contacts, 1)' = AsOf(contacts, 1)
    BY <1>2 DEF AsOf, Fingerprint, Index, engine
  <2>5. ~tangled' => AsOf(contacts, 1)' \/ pc'["loop"] \in {"read", "store"}
    BY <1>2, <2>1, <2>4, Sizes DEF GrantInv, Moves
  <2> QED BY <2>2, <2>3, <2>5 DEF GrantInv
<1> QED BY <1>8, <1>9, <1>10, <1>11, <1>12, <1>13 DEF EngineInv

(* What a thread stores may be what an edition since a given one says.     *)
LEMMA StoredIsAsOf ==
  ASSUME NEW lo \in Nat, NEW book \in lo..edition, book > 0, NEW other,
         Fingerprint(other) = Fingerprint(book)
  PROVE  AsOf(other, lo)
BY DEF AsOf

LEMMA StoreContactsKeeps ==
  ASSUME EngineInv, NEW t \in Threads, StoreContacts(t)
  PROVE  EngineInv'
<1> DEFINE same == held[t] = NoBook \/ Fingerprint(held[t]) = fingerprint
           step == IF same THEN After(t) ELSE "title"
<1>1. /\ Moves(t, step) /\ pc[t] = "store" /\ locked = "nobody"
      /\ UNCHANGED <<world, titles, first, query, granted, floor>>
      /\ aged' = FALSE /\ held' = [held EXCEPT ![t] = NoBook]
  <2>1. step \in Steps /\ Goto(t, step)
    BY DEF StoreContacts, After, Steps, Refreshing
  <2> QED BY <2>1, GotoMoves DEF StoreContacts, EngineInv
<1>2. CASE same
  <2>1. UNCHANGED <<contacts, fingerprint, locked>> /\ tangled' = (tangled \/ WarmingBut(t))
    BY <1>2 DEF StoreContacts
  <2>2. step = After(t) /\ step \in {"parse", "idle"} /\ (step = "parse" => op[t] = "search")
    BY <1>2 DEF After
  <2> HIDE DEF step
  <2>3. \A u \in Threads \ {t} : held'[u] = held[u] /\ pc'[u] = pc[u]
    BY <1>1 DEF EngineInv, ContactsTypeOK, Moves
  <2>4. ContactsTypeOK'
    BY <1>1, <2>1 DEF EngineInv, ContactsTypeOK, Moves, Reads, world, WarmingBut
  <2>5. RoleInv'
    <3>1. host = "mcp" => t = "pool" /\ first # Unread
      BY <1>1, Sizes DEF EngineInv, RoleInv, Refreshing, Binding
    <3>2. t = "loop" => step # "parse"
      BY <2>2 DEF EngineInv, RoleInv
    <3>3. granted => host = "app"
      BY DEF EngineInv, RoleInv
    <3>4. RoleStep(t, step)
      BY <1>1, <2>1, <2>2, <3>1, <3>2, <3>3 DEF RoleStep, world, Retitling, Binding, Warming, Refreshing
    <3> QED BY <2>4, <3>4, RolesKept DEF ContactsTypeOK
  <2>6. PrintInv'
    <3> SUFFICES ASSUME ~tangled' PROVE PrintInv'
      BY DEF PrintInv
    <3>1. ~tangled /\ PrintInv /\ UNCHANGED <<contacts, fingerprint, host, first>>
      BY <1>1, <2>1 DEF EngineInv, world
    <3> QED BY <1>1, <2>2, <2>3, <3>1 DEF PrintInv, Moves, Retitling, Warming, Fingerprint, Index
  <2>7. TitleInv'
    <3> SUFFICES ASSUME ~tangled' PROVE TitleInv'
      BY DEF TitleInv
    <3>1. ~tangled /\ TitleInv /\ UNCHANGED <<contacts, titles, host>>
      BY <1>1, <2>1 DEF EngineInv, world
    <3> QED BY ZenonT(60), <1>1, <2>2, <2>3, <3>1, Sizes DEF TitleInv, Moves, Retitling, Index
  <2>8. ~tangled' => ~tangled /\ \A u \in Threads : pc[u] \notin Warming
    BY <1>1, <2>1 DEF WarmingBut, Warming
  <2>9. ~tangled' => fingerprint = Fingerprint(contacts) \/ (host = "mcp" /\ contacts = first)
    BY <2>8 DEF EngineInv, PrintInv, Warming
  <2>10. FloorInv'
    <3> SUFFICES ASSUME NEW u \in Threads, floor'[u] > 0 PROVE Fresh(u)'
      BY DEF FloorInv
    <3>1. floor'[u] = floor[u] /\ Fresh(u) /\ floor[u] \in 0..edition /\ floor[u] > 0
      BY <1>1 DEF EngineInv, ContactsTypeOK, FloorInv
    <3>2. UNCHANGED <<access, edition, contacts, host, first>>
      BY <1>1, <2>1 DEF world
    <3>3. AsOf(contacts, floor[u])' = AsOf(contacts, floor[u])
      BY <3>1, <3>2 DEF AsOf, Fingerprint, Index
    <3>4. ASSUME pc'[u] \in {"store", "title", "titled", "parse"}
          PROVE  pc[u] \in {"store", "title", "titled", "parse"}
      BY <1>1, <2>3, <3>4
    <3>5. ASSUME pc'[u] \in {"title", "titled", "parse"}, ~tangled'
          PROVE  AsOf(contacts, floor[u]) \/ (host = "mcp" /\ contacts = first)
      <4>1. CASE u = t
        <5>1. held[t] \in floor[u]..edition
          BY <1>1, <3>1, <4>1 DEF Fresh
        <5>2. floor[u] \in Nat /\ held[t] > 0 /\ held[t] # NoBook
          BY <3>1, <5>1, Sizes DEF EngineInv, ContactsTypeOK
        <5>3. Fingerprint(held[t]) = fingerprint
          BY <1>2, <5>2
        <5> QED BY <2>9, <3>5, <5>1, <5>2, <5>3, StoredIsAsOf
      <4>2. CASE u # t
        BY <2>3, <2>8, <3>1, <3>5, <4>2 DEF Fresh
      <4> QED BY <4>1, <4>2
    <3>6. \A v \in Threads : pc'[v] \in {"store", "place"} => pc[v] = pc'[v] /\ held'[v] = held[v]
      BY <1>1, <2>2, <2>3 DEF Moves
    <3> QED BY <3>1, <3>2, <3>3, <3>4, <3>5, <3>6 DEF Fresh
  <2>11. GrantInv'
    <3> SUFFICES ASSUME granted' PROVE GrantInv'
      BY DEF GrantInv
    <3>1. granted /\ GrantInv /\ UNCHANGED <<access, edition, contacts>>
      BY <1>1, <2>1 DEF EngineInv, world
    <3>2. \A v \in Threads : pc'[v] \in {"store", "place"} => held'[v] \in 1..edition'
      BY <1>1, <2>2, <2>3, <3>1 DEF GrantInv, Moves
    <3>3. AsOf(contacts, 1)' = AsOf(contacts, 1)
      BY <3>1 DEF AsOf, Fingerprint, Index
    <3>4. ASSUME ~tangled' PROVE AsOf(contacts, 1) \/ pc'["loop"] \in {"read", "store"}
      <4>1. CASE t = "loop"
        <5>1. held[t] \in 1..edition /\ host = "app"
          BY <1>1, <3>1 DEF GrantInv, EngineInv, RoleInv
        <5>2. held[t] > 0 /\ held[t] # NoBook
          BY <5>1, Sizes DEF EngineInv, ContactsTypeOK
        <5>3. Fingerprint(held[t]) = Fingerprint(contacts)
          BY <1>2, <2>9, <3>4, <5>1, <5>2
        <5> QED BY <5>1, <5>2, <5>3, StoredIsAsOf
      <4>2. CASE t # "loop"
        BY <2>3, <2>8, <3>1, <3>4, <4>2, Sizes DEF GrantInv
      <4> QED BY <4>1, <4>2
    <3> QED BY <3>1, <3>2, <3>3, <3>4 DEF GrantInv
  <2> QED BY <2>4, <2>5, <2>6, <2>7, <2>10, <2>11 DEF EngineInv
<1>3. CASE ~same
  <2>1. /\ contacts' = held[t] /\ fingerprint' = Fingerprint(held[t]) /\ held[t] # NoBook
        /\ locked' = t /\ tangled' = WarmingBut(t) /\ step = "title"
    BY <1>3 DEF StoreContacts
  <2> HIDE DEF step
  <2>2. \A u \in Threads \ {t} : held'[u] = held[u] /\ pc'[u] = pc[u]
    BY <1>1 DEF EngineInv, ContactsTypeOK, Moves
  <2>3. ContactsTypeOK'
    BY <1>1, <2>1 DEF EngineInv, ContactsTypeOK, Moves, Reads, world, WarmingBut
  <2>4. RoleInv'
    <3>1. host = "mcp" => t = "pool" /\ first # Unread
      BY <1>1, Sizes DEF EngineInv, RoleInv, Refreshing, Binding
    <3>2. granted => host = "app"
      BY DEF EngineInv, RoleInv
    <3>3. RoleStep(t, step)
      BY <1>1, <2>1, <3>1, <3>2 DEF RoleStep, world, Retitling, Binding, Warming, Refreshing
    <3> QED BY <2>3, <3>3, RolesKept DEF ContactsTypeOK
  <2>5. ~tangled' => \A u \in Threads : pc'[u] \notin Warming
    BY <1>1, <2>1, <2>2 DEF WarmingBut, Warming, Moves
  <2>6. \A u \in Threads : pc[u] \notin Retitling
    BY <1>1 DEF EngineInv, RoleInv, Threads
  <2>7. Fingerprint(contacts)' = Fingerprint(held[t])
    BY <2>1 DEF Fingerprint, Index
  <2>8. PrintInv'
    BY <2>1, <2>5, <2>7 DEF PrintInv, Warming
  <2>9. TitleInv'
    <3>1. pc'[t] = "title" /\ \A u \in Threads : pc'[u] # "titled"
      BY <1>1, <2>1, <2>2, <2>6 DEF Moves, Retitling
    <3> QED BY <2>5, <3>1 DEF TitleInv, Warming, Retitling
  <2>10. FloorInv'
    <3> SUFFICES ASSUME NEW u \in Threads, floor'[u] > 0 PROVE Fresh(u)'
      BY DEF FloorInv
    <3>1. floor'[u] = floor[u] /\ Fresh(u) /\ floor[u] \in 0..edition /\ floor[u] > 0
      BY <1>1 DEF EngineInv, ContactsTypeOK, FloorInv
    <3>2. UNCHANGED <<access, edition, host, first>>
      BY <1>1 DEF world
    <3>3. ASSUME pc'[u] \in {"store", "title", "titled", "parse"}
          PROVE  pc[u] \in {"store", "title", "titled", "parse"} /\ held[t] \in floor[u]..edition
      BY <1>1, <2>2, <3>1, <3>3 DEF Fresh
    <3>4. ASSUME pc'[u] \in {"title", "titled", "parse"} PROVE AsOf(contacts, floor[u])'
      <4>1. held[t] \in floor'[u]..edition' /\ floor'[u] \in Nat /\ held[t] > 0
        BY <3>1, <3>2, <3>3, <3>4 DEF EngineInv, ContactsTypeOK
      <4> QED BY <2>7, <4>1 DEF AsOf
    <3>5. \A v \in Threads : pc'[v] \in {"store", "place"} => pc[v] = pc'[v] /\ held'[v] = held[v]
      BY <1>1, <2>1, <2>2 DEF Moves
    <3> QED BY <3>1, <3>2, <3>3, <3>4, <3>5 DEF Fresh
  <2>11. GrantInv'
    <3> SUFFICES ASSUME granted' PROVE GrantInv'
      BY DEF GrantInv
    <3>1. granted /\ GrantInv /\ UNCHANGED <<access, edition>>
      BY <1>1 DEF EngineInv, world
    <3>2. \A v \in Threads : pc'[v] \in {"store", "place"} => held'[v] \in 1..edition'
      BY <1>1, <2>1, <2>2, <3>1 DEF GrantInv, Moves
    <3>3. held[t] \in 1..edition' /\ held[t] > 0
      BY <1>1, <3>1 DEF GrantInv
    <3>4. AsOf(contacts, 1)'
      BY <2>7, <3>3 DEF AsOf
    <3> QED BY <3>1, <3>2, <3>4 DEF GrantInv
  <2> QED BY <2>3, <2>4, <2>8, <2>9, <2>10, <2>11 DEF EngineInv
<1> QED BY <1>2, <1>3

(* A step that neither reads the book nor stores contacts.                 *)
StoresNothing(t) ==
  /\ UNCHANGED <<host, access, edition, contacts, first, granted, tangled, floor>>
  /\ \A u \in Threads \ {t} : held'[u] = held[u] /\ pc'[u] = pc[u]
  /\ pc[t] \notin {"read", "store", "place"} /\ pc'[t] \notin {"store", "place"}
  /\ pc'[t] \in {"title", "titled", "parse"} => pc[t] \in {"title", "titled"}

LEMMA FloorsKept ==
  ASSUME EngineInv, NEW t \in Threads, StoresNothing(t)
  PROVE  FloorInv' /\ GrantInv'
<1>1. UNCHANGED <<host, access, edition, contacts, first, granted, tangled, floor>>
  BY DEF StoresNothing
<1>2. \A v \in Threads : pc'[v] \in {"store", "place"} => pc[v] = pc'[v] /\ held'[v] = held[v]
  BY DEF StoresNothing
<1>3. \A u \in Threads :
        /\ pc'[u] \in {"title", "titled", "parse"} => pc[u] \in {"title", "titled", "parse"}
        /\ pc'[u] = "store" => pc[u] = "store"
        /\ pc[u] \in {"read", "store"} => pc'[u] \in {"read", "store"}
  BY DEF StoresNothing
<1>4. FloorInv'
  <2> SUFFICES ASSUME NEW u \in Threads, floor'[u] > 0 PROVE Fresh(u)'
    BY DEF FloorInv
  <2>1. floor'[u] = floor[u] /\ Fresh(u)
    BY <1>1 DEF EngineInv, FloorInv
  <2>2. AsOf(contacts, floor[u])' = AsOf(contacts, floor[u])
    BY <1>1, <2>1 DEF AsOf, Fingerprint, Index
  <2> QED BY <1>1, <1>2, <1>3, <2>1, <2>2 DEF Fresh
<1>5. GrantInv'
  <2>1. AsOf(contacts, 1)' = AsOf(contacts, 1)
    BY <1>1 DEF AsOf, Fingerprint, Index
  <2> QED BY <1>1, <1>2, <1>3, <2>1, Sizes DEF EngineInv, GrantInv
<1> QED BY <1>4, <1>5

(* Titles are made from contacts that are still in place, unless a refresh *)
(* and a warmup met.                                                       *)
LEMMA ReadForTitlesKeeps ==
  ASSUME EngineInv, NEW t \in Threads, ReadForTitles(t)
  PROVE  EngineInv'
<1> DEFINE step == IF pc[t] = "title" THEN "titled" ELSE "titled to warm"
<1>1. /\ Moves(t, step) /\ held' = [held EXCEPT ![t] = contacts]
      /\ UNCHANGED <<world, engine, first, query, granted, floor, tangled>>
  BY GotoMoves DEF ReadForTitles, EngineInv, aux, Steps, Refreshing, Warming
<1>2. \/ pc[t] = "title" /\ step = "titled"
      \/ pc[t] = "title to warm" /\ step = "titled to warm"
  BY DEF ReadForTitles
<1> HIDE DEF step
<1>3. /\ \A u \in Threads \ {t} : held'[u] = held[u] /\ pc'[u] = pc[u]
      /\ held'[t] = contacts /\ pc'[t] = step
  BY <1>1 DEF EngineInv, ContactsTypeOK, Moves
<1>4. ContactsTypeOK'
  BY <1>1 DEF EngineInv, ContactsTypeOK, Moves, Reads, world, engine
<1>5. RoleInv'
  <2>1. host = "mcp" => t = "pool" /\ first # Unread /\ pc[t] = "title"
    BY <1>2, Sizes DEF EngineInv, RoleInv, Refreshing, Binding, Warming
  <2>2. t = "loop" => step = "titled"
    BY <1>2 DEF EngineInv, RoleInv, Warming
  <2>3. (granted => host = "app") /\ (pc[t] = "title" <=> locked = t)
    BY <1>2 DEF EngineInv, RoleInv, Retitling
  <2>4. RoleStep(t, step)
    BY <1>1, <1>2, <2>1, <2>2, <2>3 DEF RoleStep, world, engine, Retitling, Binding, Warming, Refreshing
  <2> QED BY <1>4, <2>4, RolesKept DEF ContactsTypeOK
<1>6. PrintInv'
  <2>1. UNCHANGED <<host, contacts, fingerprint, first, tangled>> /\ PrintInv
    BY <1>1 DEF EngineInv, world, engine
  <2>2. \A u \in Threads : /\ pc'[u] \in Warming <=> pc[u] \in Warming
                           /\ pc'[u] \in Retitling <=> pc[u] \in Retitling
                           /\ pc'[u] \in {"print", "stamp"} <=> pc[u] \in {"print", "stamp"}
    BY <1>2, <1>3 DEF Warming, Retitling
  <2>3. \A u \in Threads : pc'[u] \in {"print", "stamp"} => held'[u] = held[u]
    BY <1>2, <1>3
  <2>4. Fingerprint(contacts)' = Fingerprint(contacts)
    BY <2>1 DEF Fingerprint, Index
  <2> QED BY <2>1, <2>2, <2>3, <2>4 DEF PrintInv
<1>7. TitleInv'
  <2>1. UNCHANGED <<host, contacts, titles, tangled>> /\ TitleInv
    BY <1>1 DEF EngineInv, world, engine
  <2> QED BY <1>2, <1>3, <2>1 DEF TitleInv, Retitling
<1>8. FloorInv' /\ GrantInv'
  <2>1. StoresNothing(t)
    BY <1>1, <1>2, <1>3 DEF StoresNothing, world, engine
  <2> QED BY <2>1, FloorsKept
<1> QED BY <1>4, <1>5, <1>6, <1>7, <1>8 DEF EngineInv

LEMMA StoreTitlesKeeps ==
  ASSUME EngineInv, NEW t \in Threads, StoreTitles(t)
  PROVE  EngineInv'
<1> DEFINE step == After(t)
<1>1. /\ Moves(t, step) /\ held' = [held EXCEPT ![t] = NoBook] /\ locked' = "nobody"
      /\ pc[t] = "titled" /\ titles' = BuildTitles(Index(held[t]))
      /\ UNCHANGED <<world, contacts, fingerprint, aged, first, query, granted, floor, tangled>>
  <2>1. step \in Steps /\ Goto(t, step)
    BY DEF StoreTitles, After, Steps
  <2> QED BY <2>1, GotoMoves DEF StoreTitles, EngineInv, aux
<1>2. step \in {"parse", "idle"} /\ (step = "parse" => op[t] = "search")
  BY DEF After
<1> HIDE DEF step
<1>3. /\ \A u \in Threads \ {t} : held'[u] = held[u] /\ pc'[u] = pc[u]
      /\ held'[t] = NoBook /\ pc'[t] = step
  BY <1>1 DEF EngineInv, ContactsTypeOK, Moves
<1>4. ContactsTypeOK'
  BY <1>1 DEF EngineInv, ContactsTypeOK, Moves, Reads, world
<1>5. RoleInv'
  <2>1. host = "mcp" => t = "pool" /\ first # Unread
    BY <1>1, Sizes DEF EngineInv, RoleInv, Refreshing, Binding
  <2>2. t = "loop" => step # "parse"
    BY <1>2 DEF EngineInv, RoleInv
  <2>3. granted => host = "app"
    BY DEF EngineInv, RoleInv
  <2>4. RoleStep(t, step)
    BY <1>1, <1>2, <2>1, <2>2, <2>3 DEF RoleStep, world, Retitling, Binding, Warming, Refreshing
  <2> QED BY <1>4, <2>4, RolesKept DEF ContactsTypeOK
<1>6. PrintInv'
  <2>1. UNCHANGED <<host, contacts, fingerprint, first, tangled>> /\ PrintInv
    BY <1>1 DEF EngineInv, world
  <2>2. \A u \in Threads : /\ pc'[u] \in Warming <=> pc[u] \in Warming
                           /\ pc'[u] \in Retitling => pc[u] \in Retitling
                           /\ pc'[u] \in {"print", "stamp"} <=> pc[u] \in {"print", "stamp"}
    BY <1>1, <1>2, <1>3 DEF Warming, Retitling
  <2>3. \A u \in Threads : pc'[u] \in {"print", "stamp"} => held'[u] = held[u]
    BY <1>2, <1>3
  <2>4. Fingerprint(contacts)' = Fingerprint(contacts)
    BY <2>1 DEF Fingerprint, Index
  <2> QED BY <2>1, <2>2, <2>3, <2>4 DEF PrintInv
<1>7. TitleInv'
  <2> SUFFICES ASSUME ~tangled', host' = "app" PROVE TitleInv'
    BY DEF TitleInv
  <2>1. UNCHANGED <<host, contacts, tangled>> /\ TitleInv /\ ~tangled /\ host = "app"
    BY <1>1 DEF EngineInv, world
  <2>2. held[t] = contacts
    BY <1>1, <2>1 DEF TitleInv
  <2>3. BuildTitles(Index(contacts))' = BuildTitles(Index(held[t]))
    BY <2>1, <2>2 DEF BuildTitles, Index
  <2>4. \A u \in Threads : pc'[u] \in {"titled", "titled to warm"} => held'[u] = contacts'
    BY <1>2, <1>3, <2>1 DEF TitleInv
  <2> QED BY <1>1, <2>3, <2>4 DEF TitleInv
<1>8. FloorInv' /\ GrantInv'
  <2>1. StoresNothing(t)
    BY <1>1, <1>2, <1>3 DEF StoresNothing, world
  <2> QED BY <2>1, FloorsKept
<1> QED BY <1>4, <1>5, <1>6, <1>7, <1>8 DEF EngineInv

(* The warmup.                                                             *)
LEMMA WarmReadKeeps ==
  ASSUME EngineInv, NEW t \in Threads, WarmRead(t)
  PROVE  EngineInv'
<1>1. PICK book \in {NoBook} \cup (0..Len(Books)) : Load(book) /\ held' = [held EXCEPT ![t] = book]
  BY DEF WarmRead
<1>2. /\ Moves(t, "place") /\ pc[t] = "read to warm"
      /\ UNCHANGED <<host, edition, engine, first, query, granted, floor>>
  BY GotoMoves DEF WarmRead, EngineInv, Steps, Warming
<1>3. tangled' = (tangled \/ WarmingBut(t) \/ RetitlingBut(t))
  BY DEF WarmRead
<1>4. /\ book \in Reads /\ access' \in {"undetermined", "denied", "authorized"}
      /\ access = "authorized" => access' = "authorized" /\ book = edition
      /\ book \notin {NoBook, 0} => access' = "authorized" /\ book = edition
  BY <1>1, LoadReads DEF EngineInv
<1>5. /\ \A u \in Threads \ {t} : held'[u] = held[u] /\ pc'[u] = pc[u]
      /\ held'[t] = book /\ pc'[t] = "place" /\ edition \in Nat \ {0}
  <2>1. edition \in Nat \ {0}
    BY Sizes DEF EngineInv, ContactsTypeOK
  <2> QED BY <1>1, <1>2, <2>1 DEF EngineInv, ContactsTypeOK, Moves
<1>6. ContactsTypeOK'
  BY <1>1, <1>2, <1>3, <1>4 DEF EngineInv, ContactsTypeOK, Moves, Reads, engine, WarmingBut, RetitlingBut
<1>7. RoleInv'
  <2>1. host # "mcp" /\ t # "loop"
    BY <1>2, Sizes DEF EngineInv, RoleInv, Binding
  <2>2. granted => host = "app"
    BY DEF EngineInv, RoleInv
  <2>3. RoleStep(t, "place")
    BY <1>2, <2>1, <2>2 DEF RoleStep, engine, Retitling, Binding, Warming
  <2> QED BY <1>6, <2>3, RolesKept DEF ContactsTypeOK
<1>8. ~tangled' => ~tangled /\ \A u \in Threads \ {t} : pc'[u] \notin Warming \cup Retitling
  BY <1>3, <1>5 DEF WarmingBut, RetitlingBut, Warming, Retitling
<1>9. PrintInv'
  <2> SUFFICES ASSUME ~tangled' PROVE PrintInv'
    BY DEF PrintInv
  <2>1. UNCHANGED <<host, contacts, fingerprint, first>> /\ ~tangled /\ PrintInv
    BY <1>2, <1>8 DEF EngineInv, engine
  <2>2. \A u \in Threads : pc'[u] \notin {"print", "stamp"} /\ pc[u] \notin {"print", "stamp"}
    BY <1>2, <1>5, <1>8 DEF Warming
  <2>3. Fingerprint(contacts)' = Fingerprint(contacts)
    BY <2>1 DEF Fingerprint, Index
  <2>4. fingerprint' = Fingerprint(contacts)' \/ (host' = "mcp" /\ contacts' = first')
    BY <2>1, <2>2, <2>3 DEF PrintInv
  <2>5. \A u, v \in Threads : pc'[u] \in Warming /\ pc'[v] \in Warming \cup Retitling => u = v
    BY <1>8
  <2> QED BY <2>2, <2>4, <2>5 DEF PrintInv
<1>10. TitleInv'
  <2> SUFFICES ASSUME ~tangled', host' = "app" PROVE TitleInv'
    BY DEF TitleInv
  <2>1. UNCHANGED <<host, contacts, titles>> /\ ~tangled /\ TitleInv
    BY <1>2, <1>8 DEF EngineInv, engine
  <2> QED BY <1>2, <1>5, <2>1, Sizes DEF TitleInv, Retitling, Index
<1>11. FloorInv'
  <2> SUFFICES ASSUME NEW u \in Threads, floor'[u] > 0 PROVE Fresh(u)'
    BY DEF FloorInv
  <2>1. /\ floor'[u] = floor[u] /\ Fresh(u) /\ floor[u] \in 0..edition
        /\ UNCHANGED <<edition, contacts, host, first>> /\ (~tangled' => ~tangled)
    BY <1>2, <1>8 DEF EngineInv, ContactsTypeOK, FloorInv, engine
  <2>2. access' = "authorized" /\ book = edition
    BY <1>4, <2>1 DEF Fresh
  <2>3. AsOf(contacts, floor[u])' = AsOf(contacts, floor[u])
    BY <2>1 DEF AsOf, Fingerprint, Index
  <2>4. held'[t] \in floor[u]..edition
    BY <1>5, <2>1, <2>2
  <2>5. pc'[u] \in {"store", "title", "titled", "parse"} => pc'[u] = pc[u]
    BY <1>5
  <2>6. pc'[u] \in {"store", "title", "titled", "parse"} =>
          \A v \in Threads : pc'[v] \in {"store", "place"} => held'[v] \in floor'[u]..edition'
    BY <1>5, <2>1, <2>4, <2>5 DEF Fresh
  <2> QED BY <2>1, <2>2, <2>3, <2>5, <2>6 DEF Fresh
<1>12. GrantInv'
  <2> SUFFICES ASSUME granted' PROVE GrantInv'
    BY DEF GrantInv
  <2>1. granted /\ GrantInv /\ UNCHANGED <<edition, contacts>> /\ (~tangled' => ~tangled)
    BY <1>2, <1>8 DEF EngineInv, engine
  <2>2. access' = "authorized" /\ book = edition
    BY <1>4, <2>1 DEF GrantInv
  <2>3. \A u \in Threads : pc'[u] \in {"store", "place"} => held'[u] \in 1..edition'
    BY <1>5, <2>1, <2>2 DEF GrantInv
  <2>4. AsOf(contacts, 1)' = AsOf(contacts, 1)
    BY <2>1 DEF AsOf, Fingerprint, Index
  <2>5. pc["loop"] \in {"read", "store"} => pc'["loop"] \in {"read", "store"}
    BY <1>2, <1>5, Sizes
  <2> QED BY <2>1, <2>2, <2>3, <2>4, <2>5 DEF GrantInv
<1> QED BY <1>6, <1>7, <1>9, <1>10, <1>11, <1>12 DEF EngineInv

LEMMA WarmContactsKeeps ==
  ASSUME EngineInv, NEW t \in Threads, WarmContacts(t)
  PROVE  EngineInv'
<1>1. /\ Moves(t, "print") /\ pc[t] = "place" /\ contacts' = held[t]
      /\ UNCHANGED <<world, fingerprint, aged, titles, locked, first, held, query, granted, floor, tangled>>
  BY GotoMoves DEF WarmContacts, EngineInv, aux, Steps, Warming
<1>2. pc'[t] = "print" /\ \A u \in Threads \ {t} : pc'[u] = pc[u]
  BY <1>1 DEF Moves
<1>3. ContactsTypeOK'
  BY <1>1 DEF EngineInv, ContactsTypeOK, Moves, Reads, world
<1>4. RoleInv'
  <2>1. host # "mcp" /\ t # "loop"
    BY <1>1, Sizes DEF EngineInv, RoleInv, Binding, Warming
  <2>2. granted => host = "app"
    BY DEF EngineInv, RoleInv
  <2>3. RoleStep(t, "print")
    BY <1>1, <2>1, <2>2 DEF RoleStep, world, Retitling, Binding, Warming
  <2> QED BY <1>3, <2>3, RolesKept DEF ContactsTypeOK
<1>5. ~tangled => \A u \in Threads \ {t} : pc[u] \notin Warming \cup Retitling
  BY <1>1 DEF EngineInv, PrintInv, Warming
<1>6. PrintInv'
  <2> SUFFICES ASSUME ~tangled' PROVE PrintInv'
    BY DEF PrintInv
  <2>1. \A u \in Threads \ {t} : pc'[u] \notin Warming \cup Retitling
    BY <1>1, <1>2, <1>5
  <2>2. held'[t] = contacts'
    BY <1>1
  <2>3. \A u \in Threads : pc'[u] \in {"print", "stamp"} => u = t
    BY <2>1 DEF Warming
  <2> QED BY <1>2, <2>1, <2>2, <2>3 DEF PrintInv
<1>7. TitleInv'
  <2> SUFFICES ASSUME ~tangled', host' = "app" PROVE TitleInv'
    BY DEF TitleInv
  <2>1. \A u \in Threads : pc'[u] \notin {"titled", "titled to warm"}
    BY <1>1, <1>2, <1>5 DEF Warming, Retitling
  <2> QED BY <1>2, <2>1 DEF TitleInv
<1>8. FloorInv'
  <2> SUFFICES ASSUME NEW u \in Threads, floor'[u] > 0 PROVE Fresh(u)'
    BY DEF FloorInv
  <2>1. /\ floor'[u] = floor[u] /\ Fresh(u) /\ floor[u] \in 0..edition /\ floor[u] > 0
        /\ UNCHANGED <<access, edition, host, first, tangled, held>>
    BY <1>1 DEF EngineInv, ContactsTypeOK, FloorInv, world
  <2>2. pc'[u] \in {"store", "title", "titled", "parse"} => pc'[u] = pc[u]
    BY <1>2
  <2>3. \A v \in Threads : pc'[v] \in {"store", "place"} => pc'[v] = pc[v]
    BY <1>2
  <2>4. ASSUME pc'[u] \in {"title", "titled", "parse"} PROVE AsOf(contacts, floor[u])'
    <3>1. held[t] \in floor'[u]..edition' /\ held[t] > 0
      BY <1>1, <2>1, <2>2, <2>4 DEF Fresh, EngineInv, ContactsTypeOK
    <3>2. Fingerprint(contacts)' = Fingerprint(held[t])
      BY <1>1 DEF Fingerprint, Index
    <3> QED BY <3>1, <3>2 DEF AsOf
  <2> QED BY <2>1, <2>2, <2>3, <2>4 DEF Fresh
<1>9. GrantInv'
  <2> SUFFICES ASSUME granted' PROVE GrantInv'
    BY DEF GrantInv
  <2>1. granted /\ GrantInv /\ UNCHANGED <<access, edition, tangled, held>>
    BY <1>1 DEF EngineInv, world
  <2>2. held[t] \in 1..edition' /\ held[t] > 0
    BY <1>1, <2>1 DEF GrantInv
  <2>3. Fingerprint(contacts)' = Fingerprint(held[t])
    BY <1>1 DEF Fingerprint, Index
  <2>4. AsOf(contacts, 1)'
    BY <2>2, <2>3 DEF AsOf
  <2>5. \A v \in Threads : pc'[v] \in {"store", "place"} => pc'[v] = pc[v]
    BY <1>2
  <2> QED BY <2>1, <2>4, <2>5 DEF GrantInv
<1> QED BY <1>3, <1>4, <1>6, <1>7, <1>8, <1>9 DEF EngineInv

LEMMA WarmFingerprintKeeps ==
  ASSUME EngineInv, NEW t \in Threads, WarmFingerprint(t)
  PROVE  EngineInv'
<1> DEFINE v == IF held[t] = NoBook THEN NoBook ELSE contacts
<1>1. /\ Moves(t, "stamp") /\ pc[t] = "print" /\ held' = [held EXCEPT ![t] = v]
      /\ UNCHANGED <<world, engine, first, query, granted, floor, tangled>>
  BY GotoMoves DEF WarmFingerprint, EngineInv, aux, Steps, Warming
<1>2. v \in Reads /\ (held[t] = contacts => v = contacts)
  BY DEF EngineInv, ContactsTypeOK, Reads
<1> HIDE DEF v
<1>3. /\ \A u \in Threads \ {t} : held'[u] = held[u] /\ pc'[u] = pc[u]
      /\ held'[t] = v /\ pc'[t] = "stamp"
  BY <1>1 DEF EngineInv, ContactsTypeOK, Moves
<1>4. ContactsTypeOK'
  BY <1>1, <1>2 DEF EngineInv, ContactsTypeOK, Moves, Reads, world, engine
<1>5. RoleInv'
  <2>1. host # "mcp" /\ t # "loop"
    BY <1>1, Sizes DEF EngineInv, RoleInv, Binding, Warming
  <2>2. granted => host = "app"
    BY DEF EngineInv, RoleInv
  <2>3. RoleStep(t, "stamp")
    BY <1>1, <2>1, <2>2 DEF RoleStep, world, engine, Retitling, Binding, Warming
  <2> QED BY <1>4, <2>3, RolesKept DEF ContactsTypeOK
<1>6. PrintInv'
  <2> SUFFICES ASSUME ~tangled' PROVE PrintInv'
    BY DEF PrintInv
  <2>1. UNCHANGED contacts /\ ~tangled /\ PrintInv
    BY <1>1 DEF EngineInv, engine
  <2>2. held[t] = contacts
    BY <1>1, <2>1 DEF PrintInv
  <2>3. \A u \in Threads : /\ pc'[u] \in Warming <=> pc[u] \in Warming
                           /\ pc'[u] \in Retitling <=> pc[u] \in Retitling
                           /\ pc'[u] \in {"print", "stamp"} <=> pc[u] \in {"print", "stamp"}
    BY <1>1, <1>3 DEF Warming, Retitling
  <2>4. \A u \in Threads : pc'[u] \in {"print", "stamp"} => held'[u] = contacts'
    BY <1>2, <1>3, <2>1, <2>2, <2>3 DEF PrintInv
  <2> QED BY <1>3, <2>1, <2>3, <2>4 DEF PrintInv
<1>7. TitleInv'
  <2>1. UNCHANGED <<host, contacts, titles, tangled>> /\ TitleInv
    BY <1>1 DEF EngineInv, world, engine
  <2> QED BY <1>3, <2>1 DEF TitleInv
<1>8. FloorInv' /\ GrantInv'
  <2>1. StoresNothing(t)
    BY <1>1, <1>3 DEF StoresNothing, world, engine
  <2> QED BY <2>1, FloorsKept
<1> QED BY <1>4, <1>5, <1>6, <1>7, <1>8 DEF EngineInv

LEMMA WarmStampKeeps ==
  ASSUME EngineInv, NEW t \in Threads, WarmStamp(t)
  PROVE  EngineInv'
<1>1. /\ Moves(t, "title to warm") /\ pc[t] = "stamp"
      /\ fingerprint' = Fingerprint(held[t]) /\ aged' = FALSE
      /\ UNCHANGED <<world, contacts, titles, locked, first, held, query, granted, floor, tangled>>
  BY GotoMoves DEF WarmStamp, EngineInv, aux, Steps, Warming
<1>2. pc'[t] = "title to warm" /\ \A u \in Threads \ {t} : pc'[u] = pc[u]
  BY <1>1 DEF Moves
<1>3. ContactsTypeOK'
  BY <1>1 DEF EngineInv, ContactsTypeOK, Moves, Reads, world
<1>4. RoleInv'
  <2>1. host # "mcp" /\ t # "loop"
    BY <1>1, Sizes DEF EngineInv, RoleInv, Binding, Warming
  <2>2. granted => host = "app"
    BY DEF EngineInv, RoleInv
  <2>3. RoleStep(t, "title to warm")
    BY <1>1, <2>1, <2>2 DEF RoleStep, world, Retitling, Binding, Warming
  <2> QED BY <1>3, <2>3, RolesKept DEF ContactsTypeOK
<1>5. PrintInv'
  <2> SUFFICES ASSUME ~tangled' PROVE PrintInv'
    BY DEF PrintInv
  <2>1. UNCHANGED <<contacts, held>> /\ ~tangled /\ PrintInv
    BY <1>1 DEF EngineInv
  <2>2. fingerprint' = Fingerprint(contacts)'
    <3>1. held[t] = contacts
      BY <1>1, <2>1 DEF PrintInv
    <3> QED BY <1>1, <2>1, <3>1 DEF Fingerprint, Index
  <2>3. \A u \in Threads : /\ pc'[u] \in Warming <=> pc[u] \in Warming
                           /\ pc'[u] \in Retitling <=> pc[u] \in Retitling
                           /\ pc'[u] \in {"print", "stamp"} => pc[u] \in {"print", "stamp"}
    BY <1>1, <1>2 DEF Warming, Retitling
  <2> QED BY <2>1, <2>2, <2>3 DEF PrintInv
<1>6. TitleInv'
  <2>1. UNCHANGED <<host, contacts, held, tangled>> /\ TitleInv
    BY <1>1 DEF EngineInv, world
  <2> QED BY <1>2, <2>1 DEF TitleInv
<1>7. FloorInv' /\ GrantInv'
  <2>1. StoresNothing(t)
    BY <1>1, <1>2 DEF StoresNothing, world
  <2> QED BY <2>1, FloorsKept
<1> QED BY <1>3, <1>4, <1>5, <1>6, <1>7 DEF EngineInv

LEMMA WarmTitlesKeeps ==
  ASSUME EngineInv, NEW t \in Threads, WarmTitles(t)
  PROVE  EngineInv'
<1>1. /\ pc[t] = "titled to warm" /\ titles' = BuildTitles(Index(held[t]))
      /\ held' = [held EXCEPT ![t] = NoBook]
      /\ pc' = [pc EXCEPT ![t] = "check"] /\ op' = [op EXCEPT ![t] = "search"]
      /\ UNCHANGED <<world, contacts, fingerprint, aged, locked, first, query, granted, floor, tangled>>
  BY DEF WarmTitles, aux
<1>2. /\ \A u \in Threads \ {t} : held'[u] = held[u] /\ pc'[u] = pc[u] /\ op'[u] = op[u]
      /\ held'[t] = NoBook /\ pc'[t] = "check"
  BY <1>1 DEF EngineInv, ContactsTypeOK
<1>3. ContactsTypeOK'
  BY <1>1 DEF EngineInv, ContactsTypeOK, Reads, world, Steps, Refreshing, Operations
<1>4. RoleInv'
  <2>1. /\ host # "mcp" /\ t # "loop" /\ RoleInv
        /\ UNCHANGED <<host, first, locked, granted>> /\ host \in {"app", "mcp"}
    BY <1>1, Sizes DEF EngineInv, ContactsTypeOK, RoleInv, Binding, Warming, world
  <2>2. \A u \in Threads : /\ pc'[u] \in Retitling <=> pc[u] \in Retitling
                           /\ pc'[u] \in Binding <=> pc[u] \in Binding
    BY <1>1, <1>2 DEF Retitling, Binding
  <2>3. pc'["loop"] = pc["loop"] /\ op'["loop"] = op["loop"]
    BY <1>2, <2>1, Sizes
  <2> QED BY <2>1, <2>2, <2>3 DEF RoleInv, Retitling, Binding, Warming, Refreshing
<1>5. PrintInv'
  <2>1. UNCHANGED <<host, contacts, fingerprint, first, tangled>> /\ PrintInv
    BY <1>1 DEF EngineInv, world
  <2>2. \A u \in Threads : /\ pc'[u] \in Warming => pc[u] \in Warming
                           /\ pc'[u] \in Retitling <=> pc[u] \in Retitling
                           /\ pc'[u] \in {"print", "stamp"} <=> pc[u] \in {"print", "stamp"}
    BY <1>1, <1>2 DEF Warming, Retitling
  <2>3. \A u \in Threads : pc'[u] \in {"print", "stamp"} => held'[u] = held[u]
    BY <1>2
  <2>4. Fingerprint(contacts)' = Fingerprint(contacts)
    BY <2>1 DEF Fingerprint, Index
  <2> QED BY <2>1, <2>2, <2>3, <2>4 DEF PrintInv
<1>6. TitleInv'
  <2> SUFFICES ASSUME ~tangled', host' = "app" PROVE TitleInv'
    BY DEF TitleInv
  <2>1. UNCHANGED <<host, contacts, tangled>> /\ TitleInv /\ ~tangled /\ host = "app"
    BY <1>1 DEF EngineInv, world
  <2>2. held[t] = contacts
    BY <1>1, <2>1 DEF TitleInv
  <2>3. BuildTitles(Index(contacts))' = BuildTitles(Index(held[t]))
    BY <2>1, <2>2 DEF BuildTitles, Index
  <2>4. \A u \in Threads : pc'[u] \in {"titled", "titled to warm"} => held'[u] = contacts'
    BY <1>2, <2>1 DEF TitleInv
  <2> QED BY <1>1, <2>3, <2>4 DEF TitleInv
<1>7. FloorInv' /\ GrantInv'
  <2>1. StoresNothing(t)
    BY <1>1, <1>2 DEF StoresNothing, world
  <2> QED BY <2>1, FloorsKept
<1> QED BY <1>3, <1>4, <1>5, <1>6, <1>7 DEF EngineInv
LEMMA UnreadIsNoRead ==
  ASSUME ContactsTypeOK
  PROVE  Unread \notin Reads
<1>1. edition \in 1..Len(Books)
  BY DEF ContactsTypeOK
<1>2. ASSUME Unread \in 0..edition PROVE Unread \in 0..Len(Books)
  BY <1>1, <1>2, Sizes
<1> QED BY <1>2, Sizes DEF Reads

(* The MCP server hands over what it read first, or has nothing to hand    *)
(* over yet; nothing warms there.                                          *)
LEMMA BindingKeeps ==
  ASSUME EngineInv, NEW t \in Threads, NEW step \in {"bind what is read", "check", "idle"},
         pc[t] \in Binding, Moves(t, step), step = "check" => op[t] = "search",
         UNCHANGED <<host, edition, fingerprint, aged, titles, locked, held, query, granted, floor, tangled>>,
         access' \in {"undetermined", "denied", "authorized"},
         access = "authorized" => access' = "authorized",
         first' \in Reads, contacts' = first' \/ (contacts' = contacts /\ first = Unread)
  PROVE  EngineInv'
<1>1. host = "mcp" /\ t # "launch" /\ ~granted /\ RoleInv /\ PrintInv /\ ContactsTypeOK /\ FloorInv
  BY Sizes DEF EngineInv, ContactsTypeOK, RoleInv, Binding
<1>2. pc'[t] = step /\ \A u \in Threads \ {t} : pc'[u] = pc[u]
  BY DEF Moves
<1>3. Unread \notin Reads
  BY <1>1, UnreadIsNoRead
<1>4. ContactsTypeOK'
  BY <1>1 DEF ContactsTypeOK, Moves, Reads
<1>5. RoleInv'
  <2>1. t = "loop" => step # "check"
    BY <1>1 DEF RoleInv
  <2>2. RoleStep(t, step)
    BY <1>1, <1>3, <2>1 DEF RoleStep, Retitling, Binding, Warming, Refreshing
  <2> QED BY <1>1, <2>2, RolesKept DEF ContactsTypeOK
<1>6. \A u \in Threads : pc[u] \notin Warming /\ pc'[u] \notin Warming
  <2>1. \A u \in Threads : pc[u] \notin Warming
    BY <1>1, Sizes DEF RoleInv, Binding, Warming
  <2> QED BY <1>2, <2>1 DEF Warming
<1>7. contacts' = first' \/ (contacts' = contacts /\ contacts # first)
  BY <1>1, <1>3 DEF ContactsTypeOK
<1>8. PrintInv'
  <2> SUFFICES ASSUME ~tangled' PROVE PrintInv'
    BY DEF PrintInv
  <2>1. contacts # first => fingerprint = Fingerprint(contacts)
    BY <1>1, <1>6 DEF PrintInv, Warming
  <2>2. contacts' = contacts => Fingerprint(contacts)' = Fingerprint(contacts)
    BY DEF Fingerprint, Index
  <2>3. fingerprint' = Fingerprint(contacts)' \/ (host' = "mcp" /\ contacts' = first')
    BY <1>1, <1>7, <2>1, <2>2
  <2>4. \A u \in Threads : pc'[u] \notin {"print", "stamp"}
    BY <1>6 DEF Warming
  <2> QED BY <1>6, <2>3, <2>4 DEF PrintInv
<1>9. TitleInv' /\ GrantInv'
  BY <1>1 DEF TitleInv, GrantInv
<1>10. FloorInv'
  <2> SUFFICES ASSUME NEW u \in Threads, floor'[u] > 0 PROVE Fresh(u)'
    BY DEF FloorInv
  <2>1. floor'[u] = floor[u] /\ Fresh(u)
    BY <1>1 DEF FloorInv
  <2>2. contacts' = contacts => AsOf(contacts, floor[u])' = AsOf(contacts, floor[u])
    BY <2>1 DEF AsOf, Fingerprint, Index
  <2>3. \A v \in Threads : pc'[v] \in {"store", "place", "title", "titled", "parse"} => pc'[v] = pc[v]
    BY <1>2
  <2> QED BY <1>1, <1>7, <2>1, <2>2, <2>3 DEF Fresh
<1> QED BY <1>4, <1>5, <1>8, <1>9, <1>10 DEF EngineInv

LEMMA BindKeeps ==
  ASSUME EngineInv, NEW t \in Threads, Bind(t)
  PROVE  EngineInv'
<1> DEFINE step == IF first = Unread THEN "bind what is read"
                   ELSE IF op[t] = "search" THEN "check" ELSE "idle"
<1>1. Moves(t, step) /\ pc[t] \in Binding
  <2>1. Goto(t, step) /\ step \in Steps
    BY DEF Bind, Steps, Binding, Refreshing
  <2> QED BY <2>1, GotoMoves DEF Bind, EngineInv, Binding
<1>2. step \in {"bind what is read", "check", "idle"} /\ (step = "check" => op[t] = "search")
  OBVIOUS
<1> HIDE DEF step
<1>3. UNCHANGED <<host, edition, access, fingerprint, aged, titles, locked, held, query, granted, floor, tangled>>
  BY DEF Bind, world, aux
<1>4. first' \in Reads /\ (contacts' = first' \/ (contacts' = contacts /\ first = Unread))
  BY DEF Bind, EngineInv, ContactsTypeOK, Reads
<1>5. access \in {"undetermined", "denied", "authorized"}
  BY DEF EngineInv, ContactsTypeOK
<1> QED BY <1>1, <1>2, <1>3, <1>4, <1>5, BindingKeeps

LEMMA BindFirstKeeps ==
  ASSUME EngineInv, NEW t \in Threads, BindFirst(t)
  PROVE  EngineInv'
<1> DEFINE step == IF op[t] = "search" THEN "check" ELSE "idle"
<1>1. Moves(t, step) /\ pc[t] \in Binding
  <2>1. Goto(t, step) /\ step \in Steps
    BY DEF BindFirst, Steps, Refreshing
  <2> QED BY <2>1, GotoMoves DEF BindFirst, EngineInv, Binding
<1>2. step \in {"bind what is read", "check", "idle"} /\ (step = "check" => op[t] = "search")
  OBVIOUS
<1> HIDE DEF step
<1>3. UNCHANGED <<host, edition, fingerprint, aged, titles, locked, held, query, granted, floor, tangled>>
  BY DEF BindFirst, aux
<1>4. PICK book \in {NoBook} \cup (0..Len(Books)) : Load(book) /\ first' = book /\ contacts' = book
  BY DEF BindFirst
<1>5. /\ book \in Reads /\ access' \in {"undetermined", "denied", "authorized"}
      /\ access = "authorized" => access' = "authorized"
  BY <1>4, LoadReads DEF EngineInv
<1> QED BY <1>1, <1>2, <1>3, <1>4, <1>5, BindingKeeps

LEMMA EngineStep == EngineInv /\ [Next]_vars => EngineInv'
<1> SUFFICES ASSUME EngineInv, [Next]_vars PROVE EngineInv'
  OBVIOUS
<1>1. CASE ChangeBook \/ Age
  BY <1>1, OutsideKeeps
<1>2. CASE (\E q \in Queries : Search(q)) \/ SuggestContacts \/ Rewarm \/ RequestContacts \/ IndexStatus
  BY <1>2, OperationsKeep
<1>3. CASE AnswerPrompt
  BY <1>3, AnswerPromptKeeps
<1>4. ASSUME NEW t \in Threads,
             \/ CheckAge(t) \/ ReadBook(t) \/ StoreContacts(t) \/ ReadForTitles(t) \/ StoreTitles(t)
      PROVE  EngineInv'
  BY <1>4, CheckAgeKeeps, ReadBookKeeps, StoreContactsKeeps, ReadForTitlesKeeps, StoreTitlesKeeps
<1>5. ASSUME NEW t \in Threads,
             WarmRead(t) \/ WarmContacts(t) \/ WarmFingerprint(t) \/ WarmStamp(t) \/ WarmTitles(t)
      PROVE  EngineInv'
  BY <1>5, WarmReadKeeps, WarmContactsKeeps, WarmFingerprintKeeps, WarmStampKeeps, WarmTitlesKeeps
<1>6. ASSUME NEW t \in Threads, Parse(t) \/ Bind(t) \/ BindFirst(t) PROVE EngineInv'
  BY <1>6, ParseKeeps, BindKeeps, BindFirstKeeps
<1>7. CASE Respond
  BY <1>7, RespondKeeps
<1>8. CASE UNCHANGED vars
  <2>1. UNCHANGED <<world, engine, first, pc, op, held, query, aux>>
    BY <1>8 DEF vars
  <2>2. /\ UNCHANGED <<host, edition, access, contacts, fingerprint, aged, titles, locked>>
        /\ UNCHANGED <<first, pc, op, held, query, granted, floor, tangled>>
    BY <2>1 DEF world, engine, aux
  <2>3. ContactsTypeOK' /\ RoleInv'
    BY ZenonT(60), <2>2 DEF EngineInv, ContactsTypeOK, Reads, RoleInv
  <2>4. PrintInv' /\ TitleInv'
    BY <2>2 DEF EngineInv, PrintInv, TitleInv, Fingerprint, Index
  <2>5. FloorInv'
    <3> SUFFICES ASSUME NEW u \in Threads, floor'[u] > 0 PROVE Fresh(u)'
      BY DEF FloorInv
    <3>1. floor'[u] = floor[u] /\ Fresh(u)
      BY <2>2 DEF EngineInv, FloorInv
    <3>2. AsOf(contacts, floor[u])' = AsOf(contacts, floor[u])
      BY <2>2 DEF AsOf, Fingerprint, Index
    <3> QED BY <2>2, <3>1, <3>2 DEF Fresh
  <2>6. GrantInv'
    <3>1. AsOf(contacts, 1)' = AsOf(contacts, 1)
      BY <2>2 DEF AsOf, Fingerprint, Index
    <3> QED BY <2>2, <3>1 DEF EngineInv, GrantInv
  <2> QED BY <2>3, <2>4, <2>5, <2>6 DEF EngineInv
<1> QED BY <1>1, <1>2, <1>3, <1>4, <1>5, <1>6, <1>7, <1>8 DEF Next

(* The roles of the threads, what a refresh and a warmup leave in place,   *)
(* and how old the contacts in use may be, hold in every state: engine.py  *)
(* takes _contacts_lock for a refresh and not for the warmup.              *)
THEOREM EngineAlways == Spec => []EngineInv
<1>1. Init => EngineInv
  BY EngineStart
<1>2. EngineInv /\ [Next]_vars => EngineInv'
  BY EngineStep
<1> QED BY <1>1, <1>2, PTL DEF Spec

-----------------------------------------------------------------------------
(* What the searches and the page show.                                    *)

(* A search that may be held to an edition parses with contacts that say   *)
(* what that edition or a later one says.                                  *)
LEMMA OldestIsInUse ==
  ASSUME EngineInv, pc["pool"] = "parse", Oldest("pool") > 0
  PROVE  \E e \in Oldest("pool")..edition : e > 0 /\ Fingerprint(contacts) = Fingerprint(e)
<1> "pool" \in Threads
  BY Sizes
<1>1. ~tangled /\ first # NoBook /\ edition \in Nat \ {0} /\ floor["pool"] \in 0..edition
  <2>1. ~tangled /\ first # NoBook
    BY DEF Oldest
  <2> QED BY <2>1, Sizes DEF EngineInv, ContactsTypeOK
<1>2. floor["pool"] > 0 => AsOf(contacts, floor["pool"]) \/ (host = "mcp" /\ contacts = first)
  BY <1>1 DEF EngineInv, FloorInv, Fresh
<1>3. CASE host # "mcp"
  <2>1. Oldest("pool") = floor["pool"]
    BY <1>1, <1>3 DEF Oldest
  <2> QED BY <1>2, <1>3, <2>1 DEF AsOf
<1>4. CASE host = "mcp"
  <2>1. first # Unread
    BY <1>4 DEF EngineInv, RoleInv
  <2>2. first \in 0..edition
    BY <1>1, <2>1 DEF EngineInv, ContactsTypeOK, Reads
  <2>3. Oldest("pool") = Min({first, floor["pool"]})
    BY <1>1, <1>4 DEF Oldest
  <2>4. {first, floor["pool"]} \in SUBSET Nat
    BY <1>1, <2>2
  <2>5. /\ Oldest("pool") \in Nat
        /\ Oldest("pool") <= first /\ Oldest("pool") <= floor["pool"]
    BY <2>3, <2>4, MinIsLeast
  <2>6. first > 0 /\ floor["pool"] > 0
    BY <1>1, <2>2, <2>5
  <2>7. CASE AsOf(contacts, floor["pool"])
    <3>1. PICK e \in floor["pool"]..edition : e > 0 /\ Fingerprint(contacts) = Fingerprint(e)
      BY <2>7 DEF AsOf
    <3> QED BY <1>1, <2>5, <3>1
  <2>8. CASE contacts = first
    BY <1>1, <2>2, <2>5, <2>6, <2>8
  <2> QED BY <1>2, <2>6, <2>7, <2>8
<1> QED BY <1>3, <1>4

LEMMA ParseFinds ==
  ASSUME EngineInv, Parse("pool")
  PROVE  FindsWhomBookNames'
<1> DEFINE span == query.from
           words == WordsOf(span)
           oldest == Oldest("pool")
           wanted == Meant(edition, words)
<1>1. /\ pc["pool"] = "parse" /\ contacts' = contacts
      /\ answer' = [query |-> query, parsed |-> ParseQuery(Index(contacts), query),
                    oldest |-> oldest, newest |-> edition]
  BY DEF Parse, engine
<1>2. /\ answer'.query.from = span /\ answer'.oldest = oldest /\ answer'.newest = edition
      /\ answer'.parsed = ParseQuery(Index(contacts), query)
  BY <1>1
<1> SUFFICES ASSUME span # <<>>, ~NeverAName(span), oldest > 0, wanted # {},
                    \A e \in oldest..edition : Meant(e, words) = wanted
             PROVE  ParseQuery(Index(contacts), query).sender = wanted
  BY <1>2 DEF FindsWhomBookNames
<1>3. Sequence(span)
  <2>1. query \in Queries
    BY DEF EngineInv, ContactsTypeOK, NoQuery
  <2> QED BY <2>1, QueriesAssumption
<1>4. PICK e \in oldest..edition : e > 0 /\ Fingerprint(contacts) = Fingerprint(e)
  BY <1>1, OldestIsInUse
<1>5. e \in 1..Len(Books) /\ (contacts = NoBook \/ contacts = 0 \/ contacts \in 1..Len(Books))
  <2>1. edition \in 1..Len(Books) /\ contacts \in {NoBook} \cup (0..edition)
    BY DEF EngineInv, ContactsTypeOK, Reads
  <2> QED BY <1>4, <2>1, Sizes
<1>6. ExactName(Index(contacts), words) = wanted
  <2>1. Meant(e, words) = ExactName(Index(e), words)
    BY <1>3, <1>5, MeantIsExact, WordsAreSequence
  <2>2. ExactName(Index(contacts), words) = ExactName(Index(e), words)
    BY <1>4, <1>5, ExactSeesPrints
  <2> QED BY <1>4, <2>1, <2>2
<1>7. ResolveName(Index(contacts), span) = wanted
  BY <1>3, <1>6, ExactComesFirst
<1> QED BY <1>7 DEF ParseQuery

LEMMA FindsStep ==
  ASSUME EngineInv, FindsWhomBookNames, [Next]_vars
  PROVE  FindsWhomBookNames'
<1>1. CASE answer' = answer
  BY <1>1 DEF FindsWhomBookNames, Meant
<1>2. CASE Parse("pool")
  BY <1>2, ParseFinds
<1>3. CASE Respond
  <2>1. answer'.query.from = <<>>
    BY <1>3 DEF Respond, NoAnswer, NoQuery
  <2> QED BY <2>1 DEF FindsWhomBookNames
<1>4. ASSUME NEW t \in Threads, Parse(t) PROVE t = "pool" \/ answer' = answer
  BY <1>4 DEF Parse
<1>5. ASSUME NEW t \in Threads,
             \/ CheckAge(t) \/ ReadBook(t) \/ StoreContacts(t) \/ ReadForTitles(t) \/ StoreTitles(t)
             \/ WarmRead(t) \/ WarmContacts(t) \/ WarmFingerprint(t) \/ WarmStamp(t) \/ WarmTitles(t)
             \/ Bind(t) \/ BindFirst(t)
      PROVE  answer' = answer
  BY <1>5 DEF CheckAge, ReadBook, StoreContacts, ReadForTitles, StoreTitles, WarmRead, WarmContacts,
    WarmFingerprint, WarmStamp, WarmTitles, Bind, BindFirst
<1>6. CASE \/ ChangeBook \/ Age \/ (\E q \in Queries : Search(q))
           \/ SuggestContacts \/ Rewarm \/ RequestContacts \/ AnswerPrompt \/ IndexStatus
           \/ UNCHANGED vars
  BY <1>1, <1>6 DEF ChangeBook, Age, Search, SuggestContacts, Rewarm, RequestContacts, AnswerPrompt,
    IndexStatus, Begin, vars
<1> QED BY <1>1, <1>2, <1>3, <1>4, <1>5, <1>6 DEF Next

(* For every address book and every notion of likeness: a search that read *)
(* the book again answers with the people it names, whichever thread       *)
(* stored its contacts last and whatever else resembles the name           *)
(* (search in engine.py, resolve_name in search/parse.py).                 *)
THEOREM FindsWhomBookNamesAlways == Spec => []FindsWhomBookNames
<1>1. Init => FindsWhomBookNames
  <2>1. NoAnswer.query.from = <<>>
    BY DEF NoAnswer, NoQuery
  <2>2. Init => answer = NoAnswer
    BY DEF Init
  <2> QED BY <2>1, <2>2 DEF FindsWhomBookNames
<1>2. EngineInv /\ FindsWhomBookNames /\ [Next]_vars => FindsWhomBookNames'
  BY FindsStep
<1> QED BY <1>1, <1>2, EngineAlways, PTL DEF Spec

(* For every address book and set of chats: the names in the titles can be *)
(* asked for, as they were made from the contacts the parses use           *)
(* (_build_chatmeta in engine.py, resolve_handle in contacts.py).          *)
THEOREM ShownNamesCanBeAskedAlways == Spec => []ShownNamesCanBeAsked
<1>1. EngineInv => ShownNamesCanBeAsked
  <2> SUFFICES ASSUME EngineInv, host = "app", AtRest, ~tangled,
                      NEW c \in DOMAIN Chats, NEW i \in DOMAIN Chats[c].participants,
                      titles[c].title[i] # <<Chats[c].participants[i]>>,
                      ~NeverAName(Capitalised(titles[c].title[i]))
               PROVE  Chats[c].participants[i]
                        \in ResolveName(Index(contacts), Capitalised(titles[c].title[i]))
    BY DEF ShownNamesCanBeAsked
  <2>1. titles = BuildTitles(Index(contacts))
    BY Sizes DEF EngineInv, TitleInv, AtRest, Retitling
  <2>2. titles[c].title = ChatTitle(Index(contacts), Chats[c])
    BY <2>1 DEF BuildTitles
  <2>3. titles[c].title[i] = ResolveHandle(Index(contacts), Chats[c].participants[i])
    <3>1. Chats[c].participants # <<>>
      <4>1. DOMAIN << >> = {}
        OBVIOUS
      <4> QED BY <4>1
    <3>2. ChatTitle(Index(contacts), Chats[c]) =
            [j \in DOMAIN Chats[c].participants |-> ResolveHandle(Index(contacts), Chats[c].participants[j])]
      BY <3>1 DEF ChatTitle
    <3> QED BY <2>2, <3>2
  <2>4. Sequence(Index(contacts)) /\ \A m \in ToSet(Index(contacts)) : Sequence(m.name)
    <3>1. CASE contacts \in {NoBook, 0}
      BY <3>1 DEF Index, Sequence, ToSet
    <3>2. CASE contacts \notin {NoBook, 0}
      <4>1. contacts \in 1..Len(Books)
        BY <3>2, Sizes DEF EngineInv, ContactsTypeOK, Reads
      <4>2. Index(contacts) \in ToSet(Books)
        BY <3>2, <4>1, BooksAssumption DEF Index, ToSet, Sequence
      <4> QED BY <4>2, BooksAssumption
    <3> QED BY <3>1, <3>2
  <2> QED BY <2>3, <2>4, ShownIsFound
<1> QED BY <1>1, EngineAlways, PTL

(* If no edition of the address book is empty: once access is there when   *)
(* it is asked for, contacts are too, and stay (request_contacts in        *)
(* engine.py).                                                             *)
THEOREM GrantShowsNamesAlways ==
  ASSUME \A book \in ToSet(Books) : book # <<>>
  PROVE  Spec => []GrantShowsNames
<1>1. EngineInv => GrantShowsNames
  <2> SUFFICES ASSUME EngineInv, granted, ~tangled, AtRest PROVE contacts \notin {NoBook, 0}
    BY DEF GrantShowsNames
  <2>1. AsOf(contacts, 1)
    BY Sizes DEF EngineInv, GrantInv, AtRest
  <2>2. PICK e \in 1..edition : Fingerprint(contacts) = Fingerprint(e)
    BY <2>1 DEF AsOf
  <2>3. e \in 1..Len(Books) /\ e # NoBook /\ Books[e] \in ToSet(Books)
    <3>1. e \in 1..Len(Books)
      BY <2>2, Sizes DEF EngineInv, ContactsTypeOK
    <3> QED BY <3>1, Sizes, BooksAssumption DEF ToSet, Sequence
  <2>4. Index(e) = Books[e] /\ Sequence(Books[e]) /\ Books[e] # <<>>
    BY <2>3, BooksAssumption DEF Index
  <2>5. PICK c \in ToSet(Books[e]) : TRUE
    <3>1. Books[e] \in Seq(ToSet(Books[e]))
      BY <2>4 DEF Sequence
    <3>2. Len(Books[e]) \in Nat /\ Len(Books[e]) # 0 /\ DOMAIN Books[e] = 1..Len(Books[e])
      BY ONLY <2>4, <3>1, EmptySeq
    <3>3. 1 \in DOMAIN Books[e]
      BY <3>2
    <3> QED BY <3>3 DEF ToSet
  <2>6. <<c.name, c.handles>> \in Fingerprint(e)
    BY <2>3, <2>4 DEF Fingerprint
  <2>7. <<c.name, c.handles>> # NoBook
    BY <2>3, NoFingerprintAssumption
  <2>8. contacts # NoBook
    BY <2>2, <2>6, <2>7 DEF Fingerprint
  <2>9. contacts # 0
    <3>1. Fingerprint(0) = {}
      BY Sizes DEF Fingerprint, Index, ToSet
    <3> QED BY <2>2, <2>6, <3>1
  <2> QED BY <2>8, <2>9
<1> QED BY <1>1, EngineAlways, PTL

=============================================================================
