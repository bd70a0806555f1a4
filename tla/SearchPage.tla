------------------------------ MODULE SearchPage ------------------------------
(***************************************************************************)
(* The page's search, paging and Assist (search, loadMore, appendResults,  *)
(* pollAssist and applyAssist of seaglass/app/static/app.js) over the      *)
(* handlers that answer them (server.py) and the engine's paging           *)
(* (_finish of engine.py).                                                 *)
(*                                                                         *)
(* The page is single-threaded: a handler runs from one await to the next  *)
(* and many may be suspended in the same await.  A suspended handler is a  *)
(* record in calls with the values its closure holds; its request is       *)
(* served at some time between sending and arrival.                        *)
(*                                                                         *)
(* Abstracted: the query box and the filters are one thing, what is typed. *)
(* What the engine is asked is a text, a parse folded into it and whether  *)
(* there are expansions; its answer is a page of a fixed ranking of        *)
(* sessions, which a sync may replace.                                     *)
(***************************************************************************)
EXTENDS Assist

CONSTANTS
  Blank,        \* nothing typed and no filter set
  NoParse,      \* the deterministic parse alone
  Sessions,     \* conversations a search may find
  Ranking,      \* what is asked -> version of the index -> sessions, best first
  PageSize,     \* max_sessions
  MaxSearches,  \* bound: searches ever begun
  MaxSyncs,     \* bound: changes of the index
  MaxFaults     \* bound: requests that fail

Asks == [text : Words \cup {Blank}, parse : Words \cup {NoParse}, expanded : BOOLEAN]
Versions == 0..MaxSyncs

ASSUME RankingAssumption ==
  /\ Ranking \in [Asks -> [Versions -> Seq(Sessions)]]
  /\ \A a \in Asks, v \in Versions : IsInjective(Ranking[a][v])
  /\ PageSize \in Nat \ {0} /\ MaxSyncs \in Nat

VARIABLES
  typed,      \* the query box and the filters
  requestId,  \* state.requestId, counting searches
  token,      \* state.assistToken, 0 for null
  polling,    \* tokens for which pollAssist is scheduled
  busy,       \* the Search button is disabled
  loading,    \* state.loadingMore
  calls,      \* handlers suspended in a request
  list,       \* state.results
  pageAsk,    \* state.pageQuery and state.pageFilters
  more,       \* the Load more button is shown
  next,       \* state.nextOffset
  last,       \* state.lastPayload
  banner,     \* the Assist banner with the closure of its Undo
  version,    \* of the index
  faults,     \* requests that failed
  shown,      \* history: the rankings that pages on screen come from
  owner,      \* history: the search whose answer is on screen, 0 for none
  late,       \* history: the list was replaced while a page for it was under way
  lost        \* history: searches that failed

inputs == <<typed, requestId, token, busy>>
screen == <<list, pageAsk, more, next, last, banner, shown, owner, late>>
vars == <<assistVars, inputs, polling, loading, calls, screen, version, faults, lost>>

Plain(text) == [text |-> text, parse |-> NoParse, expanded |-> FALSE]
Nothing == [id |-> 0, from |-> <<Plain(Blank), 0>>, sessions |-> << >>, more |-> FALSE, next |-> 0]
NoBanner == [up |-> FALSE, ask |-> Plain(Blank), page |-> Nothing]
Cleared == <<Plain(Blank), MaxSyncs + 1>>

(* What a handler holds while it waits.                                    *)
Call(kind, id, ask, offset) ==
  [kind |-> kind, id |-> id, ask |-> ask, offset |-> offset, since |-> version,
   token |-> token, baseline |-> last]

(* The answer to a call: one page of the ranking the index gives it.       *)
Page(c, v) ==
  LET ranked == Ranking[c.ask][v]
  IN [id |-> c.id, from |-> <<c.ask, v>>,
      sessions |-> SubSeq(ranked, c.offset + 1, Min({c.offset + PageSize, Len(ranked)})),
      more |-> c.offset + PageSize < Len(ranked),
      next |-> c.offset + PageSize]

SearchInit ==
  /\ AssistInit
  /\ typed = Blank /\ requestId = 0 /\ token = 0 /\ busy = FALSE
  /\ polling = {} /\ loading = FALSE /\ calls = {}
  /\ list = << >> /\ pageAsk = Plain(Blank) /\ more = FALSE /\ next = 0
  /\ last = Nothing /\ banner = NoBanner
  /\ version = 0 /\ faults = 0
  /\ shown = {Cleared} /\ owner = 0 /\ late = FALSE /\ lost = {}

-----------------------------------------------------------------------------
(* Rendering.                                                              *)

(* renderResults returns early on an empty answer: no button is drawn and  *)
(* the offset stays.                                                       *)
Render(page) ==
  /\ list' = page.sessions /\ last' = page
  /\ shown' = {page.from} /\ owner' = page.id /\ late' = loading
  /\ more' = (page.more /\ page.sessions # << >>)
  /\ next' = IF page.sessions = << >> THEN next ELSE page.next

(* The sessions that are not on screen, in their order.                    *)
Unseen(sessions) ==
  LET fresh == {k \in DOMAIN sessions : sessions[k] \notin ToSet(list)}
      rank(k) == Cardinality({j \in fresh : j <= k})
  IN [n \in 1..Cardinality(fresh) |-> sessions[CHOOSE k \in fresh : rank(k) = n]]

(* Faulty variant: every session of the page is appended.                  *)
AppendPageWhole(page) ==
  /\ list' = list \o page.sessions
  /\ shown' = shown \cup {page.from} \cup (IF late THEN {Cleared} ELSE {})
  /\ more' = page.more /\ next' = page.next
  /\ UNCHANGED <<last, pageAsk, banner, owner, late>>

(* Faulty variant: the offset is not moved on.                             *)
AppendPageThere(page) ==
  /\ list' = list \o Unseen(page.sessions)
  /\ shown' = shown \cup {page.from} \cup (IF late THEN {Cleared} ELSE {})
  /\ more' = page.more
  /\ UNCHANGED <<last, pageAsk, banner, owner, late, next>>

(* appendResults: sessions already on screen are left out.                 *)
AppendPage(page) ==
  /\ list' = list \o Unseen(page.sessions)
  /\ shown' = shown \cup {page.from} \cup (IF late THEN {Cleared} ELSE {})
  /\ more' = page.more /\ next' = page.next
  /\ UNCHANGED <<last, pageAsk, banner, owner, late>>

-----------------------------------------------------------------------------
(* Searching.                                                              *)

Type ==
  /\ typed' \in (Words \cup {Blank}) \ {typed}
  /\ UNCHANGED <<assistVars, requestId, token, busy, polling, loading, calls, screen,
                 version, faults, lost>>

(* Return searches also while the button is disabled.                      *)
Search ==
  /\ typed # Blank
  /\ requestId < MaxSearches
  /\ requestId' = requestId + 1 /\ token' = 0 /\ busy' = TRUE
  /\ banner' = NoBanner
  /\ calls' = calls \cup {Call("search", requestId + 1, Plain(typed), 0)}
  /\ UNCHANGED <<assistVars, typed, polling, loading, list, pageAsk, more, next, last, shown,
                 owner, late, version, faults, lost>>

(* An empty query with no filters clears the list and nothing else.        *)
Clear ==
  /\ typed = Blank
  /\ list' = << >> /\ more' = FALSE
  /\ shown' = {Cleared} /\ owner' = 0 /\ late' = loading
  /\ UNCHANGED <<assistVars, inputs, polling, loading, calls, pageAsk, next, last, banner,
                 version, faults, lost>>

(* The search handler submits the query to Assist once it is answered.     *)
Assisted(c) == Submit(c.ask.text) \/ UNCHANGED assistVars

(* Faulty variant: answers are rendered whatever search they belong to.    *)
SearchAnsweredLate(c) ==
  /\ c \in calls /\ c.kind = "search"
  /\ calls' = calls \ {c} /\ busy' = FALSE
  /\ Assisted(c)
  /\ pageAsk' = Plain(typed)
  /\ \E v \in c.since..version : Render(Page(c, v))
  /\ IF Len(asked') > Len(asked)
     THEN token' = Len(asked') /\ polling' = polling \cup {Len(asked')}
     ELSE UNCHANGED <<token, polling>>
  /\ UNCHANGED <<typed, requestId, loading, banner, version, faults, lost>>

(* Only the newest search is rendered.  What is typed is read again.       *)
SearchAnswered(c) ==
  /\ c \in calls /\ c.kind = "search"
  /\ calls' = calls \ {c} /\ busy' = FALSE
  /\ Assisted(c)
  /\ IF c.id = requestId
     THEN /\ pageAsk' = Plain(typed)
          /\ \E v \in c.since..version : Render(Page(c, v))
          /\ IF Len(asked') > Len(asked)
             THEN token' = Len(asked') /\ polling' = polling \cup {Len(asked')}
             ELSE UNCHANGED <<token, polling>>
          /\ UNCHANGED banner
     ELSE UNCHANGED <<screen, token, polling>>
  /\ UNCHANGED <<typed, requestId, loading, version, faults, lost>>

(* The request fails, served or not.                                       *)
SearchLost(c) ==
  /\ c \in calls /\ c.kind = "search"
  /\ faults < MaxFaults
  /\ calls' = calls \ {c} /\ busy' = FALSE
  /\ Assisted(c)
  /\ faults' = faults + 1 /\ lost' = lost \cup {c.id}
  /\ UNCHANGED <<typed, requestId, token, polling, loading, screen, version>>

-----------------------------------------------------------------------------
(* Load more.                                                              *)

(* A busy list takes no clicks (app.css:929).                              *)
LoadMore ==
  /\ more /\ ~loading /\ ~busy
  /\ loading' = TRUE
  /\ calls' = calls \cup {Call("more", requestId, pageAsk, next)}
  /\ late' = FALSE
  /\ UNCHANGED <<assistVars, inputs, polling, list, pageAsk, more, next, last, banner, shown,
                 owner, version, faults, lost>>

MoreAnswered(c) ==
  /\ c \in calls /\ c.kind = "more"
  /\ calls' = calls \ {c} /\ loading' = FALSE
  /\ IF c.id = requestId
     THEN \E v \in c.since..version : AppendPage(Page(c, v))
     ELSE UNCHANGED screen
  /\ UNCHANGED <<assistVars, inputs, polling, version, faults, lost>>

MoreLost(c) ==
  /\ c \in calls /\ c.kind = "more"
  /\ faults < MaxFaults
  /\ calls' = calls \ {c} /\ loading' = FALSE
  /\ faults' = faults + 1
  /\ UNCHANGED <<assistVars, inputs, polling, screen, version, lost>>

-----------------------------------------------------------------------------
(* Assist.                                                                 *)

(* What apply-assist asks the engine: the parse made for the token's query *)
(* folded into what is typed by now.                                       *)
AppliedAsk(t) ==
  [text |-> typed, parse |-> IF future[t].changes THEN asked[t] ELSE NoParse,
   expanded |-> future[t].expansions]

(* Faulty variant: an answer without a parse counts as unfinished.         *)
PollAssistWaits(t) ==
  /\ t \in polling
  /\ token # t \/ future[t].state = "parsed"
  /\ polling' = polling \ {t}
  /\ calls' = IF token = t /\ Useful(future[t])
              THEN calls \cup {Call("apply", requestId, AppliedAsk(t), 0)} ELSE calls
  /\ UNCHANGED <<assistVars, inputs, loading, screen, version, faults, lost>>

(* One answered poll; an unfinished future is polled again.                *)
PollAssist(t) ==
  /\ t \in polling
  /\ token # t \/ future[t] # Queued
  /\ polling' = polling \ {t}
  /\ calls' = IF token = t /\ Useful(future[t])
              THEN calls \cup {Call("apply", requestId, AppliedAsk(t), 0)} ELSE calls
  /\ UNCHANGED <<assistVars, inputs, loading, screen, version, faults, lost>>

PollLost(t) ==
  /\ t \in polling
  /\ faults < MaxFaults
  /\ polling' = polling \ {t}
  /\ faults' = faults + 1
  /\ UNCHANGED <<assistVars, inputs, loading, calls, screen, version, lost>>

(* The applied query is what Load more pages from now on, without the      *)
(* expansions; the banner remembers what to go back to.                    *)
ApplyAnswered(c) ==
  /\ c \in calls /\ c.kind = "apply"
  /\ calls' = calls \ {c}
  /\ IF c.token = token /\ c.id = requestId
     THEN /\ pageAsk' = [c.ask EXCEPT !.expanded = FALSE]
          /\ banner' = [up |-> TRUE, ask |-> pageAsk, page |-> c.baseline]
          /\ \E v \in c.since..version : Render(Page(c, v))
     ELSE UNCHANGED screen
  /\ UNCHANGED <<assistVars, inputs, polling, loading, version, faults, lost>>

ApplyLost(c) ==
  /\ c \in calls /\ c.kind = "apply"
  /\ faults < MaxFaults
  /\ calls' = calls \ {c}
  /\ faults' = faults + 1
  /\ UNCHANGED <<assistVars, inputs, polling, loading, screen, version, lost>>

Undo ==
  /\ banner.up
  /\ banner' = NoBanner /\ pageAsk' = banner.ask
  /\ Render(banner.page)
  /\ UNCHANGED <<assistVars, inputs, polling, loading, calls, version, faults, lost>>

-----------------------------------------------------------------------------

(* A sync is made visible: rankings change.                                *)
Sync ==
  /\ version < MaxSyncs
  /\ version' = version + 1
  /\ UNCHANGED <<assistVars, inputs, polling, loading, calls, screen, faults, lost>>

CopilotStep ==
  /\ Copilot
  /\ UNCHANGED <<inputs, polling, loading, calls, screen, version, faults, lost>>

Arrival == \E c \in calls : SearchAnswered(c) \/ MoreAnswered(c) \/ ApplyAnswered(c)
Loss == \E c \in calls : SearchLost(c) \/ MoreLost(c) \/ ApplyLost(c)
Poll == \E t \in polling : PollAssist(t)

SearchNext ==
  \/ Type \/ Search \/ Clear \/ LoadMore \/ Undo \/ Sync
  \/ CopilotStep \/ Poll \/ Arrival \/ Loss \/ (\E t \in polling : PollLost(t))

SearchSpec == SearchInit /\ [][SearchNext]_vars

(* Requests are answered, copilot ends (it has a timeout), timers fire.    *)
(* Nothing is owed of the user.                                            *)
FairSearchSpec ==
  SearchSpec /\ WF_vars(CopilotStep) /\ WF_vars(Arrival) /\ WF_vars(Poll)

-----------------------------------------------------------------------------
(* What the user relies on.                                                *)

SearchTypeOK ==
  /\ AssistTypeOK
  /\ typed \in Words \cup {Blank} /\ requestId \in 0..MaxSearches
  /\ token \in Tokens \cup {0} /\ polling \subseteq Tokens
  /\ busy \in BOOLEAN /\ loading \in BOOLEAN /\ more \in BOOLEAN
  /\ list \in Seq(Sessions) /\ pageAsk \in Asks
  /\ next \in 0..Cardinality(Sessions) + PageSize - 1
  /\ version \in Versions /\ lost \subseteq 1..requestId
  /\ \A c \in calls : c.ask \in Asks /\ c.id \in 1..requestId /\ c.since \in 0..version

(* However late answers arrive, and though a sync may have reordered the   *)
(* sessions between two pages, no session is listed twice (app.js:498).    *)
NoSessionTwice == IsInjective(list)

(* While everything on screen comes from one ranking, and every page was   *)
(* asked for by the list it was added to, the list is a prefix: Load more  *)
(* continues where the list ends, the button is there as long as something *)
(* is left, and Undo and lost pages change nothing of this (app.js:410,    *)
(* engine.py:668).                                                         *)
NothingSkipped ==
  Cardinality(shown) = 1 /\ Cleared \notin shown =>
    \A from \in shown :
      LET ranked == Ranking[from[1]][from[2]]
      IN /\ IsPrefix(list, ranked)
         /\ IF more THEN next = Len(list) ELSE list = ranked

(* The screen belongs to the newest search, unless that is under way, has  *)
(* failed, or the list was cleared: no older search, no Assist answer to   *)
(* one and no Undo brings back another (app.js:393, app.js:752).           *)
NewestSearchOwnsPage ==
  /\ \/ owner \in {0, requestId} \/ requestId \in lost
     \/ \E c \in calls : c.kind = "search" /\ c.id = requestId
  /\ banner.up => banner.page.id = requestId

(* Every button comes back and every poll ends.                            *)
PageComesToRest == <>[](~busy /\ ~loading /\ polling = {})
=============================================================================
