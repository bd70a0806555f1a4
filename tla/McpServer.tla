----------------------------- MODULE McpServer -----------------------------
(***************************************************************************)
(* The MCP server (seaglass/mcp_server.py) beside the app: a search is     *)
(* answered by the running app if it serves the index the tool is          *)
(* configured for, else in this process; sync_index asks the app for a     *)
(* build and may wait for its end.  The app may end, crash or be replaced  *)
(* by another process between any two calls.                               *)
(*                                                                         *)
(* The tool's searches are serialized by _pipeline_lock, so there is one   *)
(* at a time; a sync runs beside it.  What an index contains is left out.  *)
(***************************************************************************)
EXTENDS AppProcess

VARIABLES
  ready,          \* apps whose warmup has opened the index
  building,       \* apps with a build under way
  built,          \* auxiliary: apps in which a build ended during the tool's sync
  pinned,         \* SEAGLASS_INDEX_DB, or None
  opened,         \* _index_con: the index this process opened, or None
  call,           \* [stage, conn, wanted, index]: the search
  sync            \* [stage, conn]: the sync

toolVars == <<opened, call, sync>>
vars == <<appVars, ready, building, built, pinned, opened, call, sync>>

NoCall == [stage |-> "none", conn |-> None, wanted |-> None, index |-> None]
NoSync == [stage |-> "none", conn |-> None]

Init ==
  /\ AppInit
  /\ ready = {} /\ building = {} /\ built = {}
  /\ pinned \in Indexes \cup {None} /\ opened = None
  /\ call = NoCall /\ sync = NoSync

-----------------------------------------------------------------------------
(* The app, as far as the tool sees it.                                    *)

(* What runs in a process ends with it.                                    *)
AppStep(p) ==
  /\ ProcessStep(p)
  /\ ready' = {q \in ready : pc'[q] # "gone"} /\ building' = {q \in building : pc'[q] # "gone"}
  /\ UNCHANGED <<built, pinned, toolVars>>

Warm(p) ==
  /\ Alive(p) /\ server[p] = "listening" /\ p \notin ready
  /\ ready' = ready \cup {p}
  /\ UNCHANGED <<appVars, building, built, pinned, toolVars>>

(* A build the page asked for.                                             *)
BuildFromPage(p) ==
  /\ Alive(p) /\ server[p] = "listening" /\ p \notin building
  /\ building' = building \cup {p}
  /\ UNCHANGED <<appVars, ready, built, pinned, toolVars>>

BuildEnds(p) ==
  /\ p \in building
  /\ building' = building \ {p}
  /\ built' = IF sync.stage = "waiting" /\ sync.conn.pid = p THEN built \cup {p} ELSE built
  /\ UNCHANGED <<appVars, ready, pinned, toolVars>>

-----------------------------------------------------------------------------
(* Reaching it.                                                            *)

(* Faulty variant: the token is not asked for.                             *)
AcceptingAny(conn) == ListeningOn(conn.port)

(* Who answers a call made with a lock file's port and token.              *)
Accepting(conn) == {p \in ListeningOn(conn.port) : p = conn.pid}

(* _running_app_lock                                                       *)
Connection == IF Owner # None /\ PidIsLive(Owner) THEN lock ELSE None

(* _resolve_path: the environment, else the settings of now.               *)
Wanted == IF pinned # None THEN pinned ELSE config.index

-----------------------------------------------------------------------------
(* search_messages.                                                        *)

Search ==
  /\ call.stage \in {"none", "answered"}
  /\ call' = IF Connection # None
             THEN [NoCall EXCEPT !.stage = "connected", !.conn = Connection]
             ELSE [NoCall EXCEPT !.stage = "alone"]
  /\ UNCHANGED <<appVars, ready, building, built, pinned, opened, sync>>

(* Faulty variant: any index of the app will do.                           *)
CheckStatusAny ==
  /\ call.stage = "connected"
  /\ call' = IF \E p \in Accepting(call.conn) : p \in ready
             THEN [call EXCEPT !.stage = "checked", !.wanted = Wanted]
             ELSE [NoCall EXCEPT !.stage = "alone"]
  /\ UNCHANGED <<appVars, ready, building, built, pinned, opened, sync>>

(* GET /api/status: only an app that is ready and serves the wanted index. *)
CheckStatus ==
  /\ call.stage = "connected"
  /\ call' = IF \E p \in Accepting(call.conn) : p \in ready /\ index[p] = Wanted
             THEN [call EXCEPT !.stage = "checked", !.wanted = Wanted]
             ELSE [NoCall EXCEPT !.stage = "alone"]
  /\ UNCHANGED <<appVars, ready, building, built, pinned, opened, sync>>

(* POST /api/search; whatever goes wrong falls back to this process.       *)
AskApp ==
  /\ call.stage = "checked"
  /\ IF Accepting(call.conn) = {} THEN call' = [NoCall EXCEPT !.stage = "alone"]
     ELSE \E p \in Accepting(call.conn) :
            call' = [call EXCEPT !.stage = "answered", !.conn = None, !.index = index[p]]
  /\ UNCHANGED <<appVars, ready, building, built, pinned, opened, sync>>

(* _get_index_con: the index is opened once in the life of this process.   *)
OpenIndex == IF opened = None THEN Wanted ELSE opened

(* The engine of this process, or previews if there is no snapshot; which  *)
(* index that was is in opened.                                            *)
AnswerHere ==
  /\ call.stage = "alone"
  /\ opened' = OpenIndex
  /\ call' = NoCall
  /\ UNCHANGED <<appVars, ready, building, built, pinned, sync>>

-----------------------------------------------------------------------------
(* sync_index(wait=True).                                                  *)

(* The lock is read and the build asked for; without an app, or with one   *)
(* that is building already, the call ends with nothing done.  The build   *)
(* thread is taken to begin within the two seconds before the first poll.  *)
SyncIndex ==
  /\ sync.stage # "waiting" /\ Connection # None
  /\ Accepting(Connection) \ building # {}
  /\ sync' = [stage |-> "waiting", conn |-> Connection]
  /\ building' = building \cup Accepting(Connection)
  /\ built' = {}
  /\ UNCHANGED <<appVars, ready, pinned, opened, call>>

(* A poll that fails is taken for a restart and made again.                *)
PollBuild ==
  /\ sync.stage = "waiting"
  /\ \E p \in Accepting(sync.conn) : p \notin building
  /\ sync' = [sync EXCEPT !.stage = "finished"]
  /\ UNCHANGED <<appVars, ready, building, built, pinned, opened, call>>

(* Half an hour has passed.                                                *)
GiveUp ==
  /\ sync.stage = "waiting"
  /\ sync' = NoSync /\ built' = {}
  /\ UNCHANGED <<appVars, ready, building, pinned, opened, call>>

Next ==
  \/ \E p \in Procs : AppStep(p) \/ Warm(p) \/ BuildFromPage(p) \/ BuildEnds(p)
  \/ Search \/ CheckStatus \/ AskApp \/ AnswerHere
  \/ SyncIndex \/ PollBuild \/ GiveUp

Spec == Init /\ [][Next]_vars

-----------------------------------------------------------------------------
(* Properties.                                                             *)

(* An answer of the app comes from the index the tool was configured for   *)
(* when it asked, though the lock, the process behind the port and the     *)
(* settings may each have changed since the one before was read.           *)
AnswersFromWantedIndex ==
  (call.stage = "answered" /\ call.wanted # None) => call.index = call.wanted

(* A sync reported as finished has seen the end of a build in the app it   *)
(* asked, never the idleness of one that took its place.                   *)
FinishedMeansBuilt == sync.stage = "finished" => sync.conn.pid \in built
=============================================================================
