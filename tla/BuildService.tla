----------------------------- MODULE BuildService -----------------------------
(***************************************************************************)
(* The app server's side of building and syncing: start_build and          *)
(* on_complete (seaglass/app/server.py), run_build and the state it shares *)
(* with the page (indexstate.py), the warmup of the engine (warmup.py) and *)
(* the two caches of the engine that a build makes stale (engine.py).      *)
(*                                                                         *)
(* Three kinds of threads run here: the build threads, one per accepted    *)
(* request; the worker of pipeline_pool, which serves searches, status     *)
(* requests and re-warms one at a time; and the thread that warms the      *)
(* engine when the app is launched over an existing index.                 *)
(*                                                                         *)
(* Abstracted: messages are numbered by their dates, so the live chat.db,  *)
(* its snapshot and the index are three numbers, the newest message each   *)
(* holds; a ranking and a reading of freshness are tagged with the index   *)
(* they were computed from.  What a build writes is module IndexBuild.     *)
(***************************************************************************)
EXTENDS Integers, Sequences, FiniteSets, SequencesExt, TLC

CONSTANTS
  Threads,     \* build threads that may exist at once
  Clients,     \* clients other than the page, each with one request at a time
  Queries,     \* page-cache keys
  WarmQuery,   \* the key of the warmup's own search
  Launches,    \* how the app may be launched: "needs_index", "cold", "warm"
  NoReading,   \* no cached freshness
  MaxLive,     \* bound: messages that ever arrive
  MaxBuilds,   \* bound: builds ever accepted
  MaxFaults    \* bound: failures of all kinds

ASSUME LaunchAssumption ==
  WarmQuery \in Queries /\ Launches \subseteq {"needs_index", "cold", "warm"}
ASSUME BoundsAssumption == MaxLive \in Nat \ {0} /\ MaxBuilds \in Nat /\ MaxFaults \in Nat

VARIABLES
  live,       \* newest message in the live chat.db
  copied,     \* newest message in the snapshot file
  horizon,    \* newest message in index.db
  build,      \* app.state.build_state: running and stage
  thread,     \* the build threads
  builds,     \* builds accepted so far
  warm,       \* warmup_state.state; DEGRADED counts as READY
  opened,     \* engine.index_con is not None
  queue,      \* jobs waiting for the pool's worker
  task,       \* what each worker is doing
  ranking,    \* the page cache: key -> the horizon it was computed at
  freshness,  \* the cached reading: how far behind, and at which horizon
  replies,    \* answers to status requests on their way to the page
  faults      \* failures so far

buildVars == <<copied, horizon, build, thread, builds>>
engineVars == <<warm, opened, task, ranking, freshness, replies>>
serviceVars == <<live, buildVars, engineVars, queue, faults>>

ServiceSymmetry == Permutations(Threads) \cup Permutations(Clients)
Workers == {"launch", "pool"}
Kinds == {"warmup", "search", "status"}
Steps == {"idle", "forget", "clear", "open", "rank", "store", "age", "count", "end"}

Idle == [kind |-> "search", step |-> "idle", query |-> WarmQuery, at |-> 0, for |-> "server"]
SearchJob(q, for) == [Idle EXCEPT !.step = "rank", !.query = q, !.for = for]
StatusJob(for) == [Idle EXCEPT !.kind = "status", !.step = "age", !.for = for]
RewarmJob == [Idle EXCEPT !.kind = "warmup", !.step = "forget"]

Callers == {"server", "health", "tick", "sync"} \cup Clients

BuildStages == {"idle", "snapshotting", "building", "done", "failed"}
Running(t) == thread[t].pc # "none"

-----------------------------------------------------------------------------
(* Over an existing index the app is launched warming up ("cold"); "warm"  *)
(* is the same app some time later.  The index then holds a message.       *)
Init ==
  /\ live = 1
  /\ build = [running |-> FALSE, stage |-> "idle"]
  /\ thread = [t \in Threads |-> [pc |-> "none", goal |-> 0, ok |-> FALSE]]
  /\ builds = 0 /\ faults = 0
  /\ queue = << >> /\ replies = << >>
  /\ ranking = << >> /\ freshness = NoReading
  /\ \E launch \in Launches :
       /\ horizon = IF launch = "needs_index" THEN 0 ELSE 1
       /\ copied = horizon
       /\ opened = (launch = "warm")
       /\ warm = CASE launch = "needs_index" -> "NEEDS_INDEX"
                   [] launch = "cold" -> "STARTING"
                   [] launch = "warm" -> "READY"
       /\ task = [w \in Workers |->
                    IF w = "launch" /\ launch = "cold"
                    THEN [Idle EXCEPT !.kind = "warmup", !.step = "clear"] ELSE Idle]

MessageArrives ==
  /\ live < MaxLive
  /\ live' = live + 1
  /\ UNCHANGED <<buildVars, engineVars, queue, faults>>

-----------------------------------------------------------------------------
(* start_build and the build threads.                                      *)

(* The handler runs without interruption on the event loop, but running    *)
(* is set by the thread it starts.                                         *)
StartBuild ==
  /\ ~build.running
  /\ builds < MaxBuilds
  /\ \E t \in Threads :
       /\ ~Running(t)
       /\ thread' = [thread EXCEPT ![t] = [pc |-> "spawned", goal |-> 0, ok |-> FALSE]]
  /\ builds' = builds + 1
  /\ UNCHANGED <<live, copied, horizon, build, engineVars, queue, faults>>

Begin(t) ==
  /\ thread[t].pc = "spawned"
  /\ thread' = [thread EXCEPT ![t].pc = "snapshotting"]
  /\ build' = [running |-> TRUE, stage |-> "snapshotting"]
  /\ UNCHANGED <<live, copied, horizon, builds, engineVars, queue, faults>>

Backup(t) ==
  /\ thread[t].pc = "snapshotting"
  /\ copied' = live
  /\ thread' = [thread EXCEPT ![t].pc = "building", ![t].goal = live]
  /\ build' = [build EXCEPT !.stage = "building"]
  /\ UNCHANGED <<live, horizon, builds, engineVars, queue, faults>>

(* A batch transaction that adds messages of the snapshot file, which      *)
(* another thread may have overwritten since.                              *)
Commit(t) ==
  /\ thread[t].pc = "building"
  /\ horizon' \in (horizon + 1)..copied
  /\ UNCHANGED <<live, copied, build, thread, builds, engineVars, queue, faults>>

Publish(t) ==
  /\ thread[t].pc = "building"
  /\ horizon >= thread[t].goal
  /\ thread' = [thread EXCEPT ![t].pc = "completing", ![t].ok = TRUE]
  /\ build' = [running |-> FALSE, stage |-> "done"]
  /\ UNCHANGED <<live, copied, horizon, builds, engineVars, queue, faults>>

Fail(t) ==
  /\ thread[t].pc \in {"snapshotting", "building"}
  /\ faults < MaxFaults
  /\ faults' = faults + 1
  /\ thread' = [thread EXCEPT ![t].pc = "completing"]
  /\ build' = [running |-> FALSE, stage |-> "failed"]
  /\ UNCHANGED <<live, copied, horizon, builds, engineVars, queue>>

(* Faulty variant: the stage is compared with one no build ends in.        *)
OnCompleteSilent(t) ==
  /\ thread[t].pc = "completing"
  /\ queue' = IF build.stage = "reloading" THEN Append(queue, RewarmJob) ELSE queue
  /\ thread' = [thread EXCEPT ![t].pc = "none"]
  /\ UNCHANGED <<live, copied, horizon, build, builds, engineVars, faults>>

(* on_complete reads the shared stage, not the outcome of its own build.   *)
OnComplete(t) ==
  /\ thread[t].pc = "completing"
  /\ queue' = IF build.stage = "done" THEN Append(queue, RewarmJob) ELSE queue
  /\ thread' = [thread EXCEPT ![t].pc = "none"]
  /\ UNCHANGED <<live, copied, horizon, build, builds, engineVars, faults>>

BuildStep(t) == Begin(t) \/ Backup(t) \/ Commit(t) \/ Publish(t) \/ OnComplete(t)

-----------------------------------------------------------------------------
(* Requests to the pool.                                                   *)

(* Nobody asks again before the answer has come.                           *)
Submit(job) ==
  /\ \A k \in DOMAIN queue : queue[k].for # job.for
  /\ \A k \in DOMAIN replies : replies[k].for # job.for
  /\ \A w \in Workers : task[w].step = "idle" \/ task[w].for # job.for
  /\ queue' = Append(queue, job)

AskSearch(for) ==
  /\ \E q \in Queries : Submit(SearchJob(q, for))
  /\ UNCHANGED <<live, buildVars, engineVars, faults>>

AskStatus(for) ==
  /\ Submit(StatusJob(for))
  /\ UNCHANGED <<live, buildVars, engineVars, faults>>

(* Faulty variant: a cached reading is used for ever.                      *)
FreshnessKept == FALSE /\ UNCHANGED serviceVars

(* Time passes: the cached freshness is older than FRESHNESS_TTL_S.        *)
FreshnessExpires ==
  /\ freshness # NoReading
  /\ freshness' = NoReading
  /\ UNCHANGED <<live, buildVars, warm, opened, task, ranking, replies, queue, faults>>

-----------------------------------------------------------------------------
(* The workers.                                                            *)

At(w, step) == task[w].step = step
To(w, step) == task' = [task EXCEPT ![w].step = step]
Read(w, step) == task' = [task EXCEPT ![w].step = step, ![w].at = horizon]

TakeJob(w) ==
  /\ w = "pool" /\ At(w, "idle") /\ queue # << >>
  /\ task' = [task EXCEPT ![w] = Head(queue)]
  /\ queue' = Tail(queue)
  /\ UNCHANGED <<live, buildVars, warm, opened, ranking, freshness, replies, faults>>

(* Faulty variant: the warmup state is reset but the reading is kept.      *)
ForgetNothing(w) ==
  /\ At(w, "forget")
  /\ warm' = "STARTING"
  /\ To(w, "clear")
  /\ UNCHANGED <<live, buildVars, opened, ranking, freshness, replies, queue, faults>>

(* _rewarm, before it runs the warmup: the freshness is dropped and the    *)
(* warmup state goes back to the start.                                    *)
Forget(w) ==
  /\ At(w, "forget")
  /\ freshness' = NoReading
  /\ warm' = "STARTING"
  /\ To(w, "clear")
  /\ UNCHANGED <<live, buildVars, opened, ranking, replies, queue, faults>>

(* Faulty variant: the page cache outlives the warmup.                     *)
ClearNothing(w) ==
  /\ At(w, "clear")
  /\ To(w, "open")
  /\ UNCHANGED <<live, buildVars, warm, opened, ranking, freshness, replies, queue, faults>>

(* SearchEngine.warmup begins by dropping every cached ranking.            *)
ClearPages(w) ==
  /\ At(w, "clear")
  /\ ranking' = << >>
  /\ To(w, "open")
  /\ UNCHANGED <<live, buildVars, warm, opened, freshness, replies, queue, faults>>

OpenIndex(w) ==
  /\ At(w, "open")
  /\ opened' = TRUE
  /\ To(w, "rank")
  /\ UNCHANGED <<live, buildVars, warm, ranking, freshness, replies, queue, faults>>

(* A search before the index is open raises.  Nothing is cached when the   *)
(* index has no chunk to retrieve, nor when the ranking is cached already. *)
Rank(w) ==
  /\ At(w, "rank")
  /\ IF ~opened THEN To(w, "idle")
     ELSE IF horizon = 0 \/ task[w].query \in DOMAIN ranking THEN To(w, "age")
     ELSE Read(w, "store")
  /\ UNCHANGED <<live, buildVars, warm, opened, ranking, freshness, replies, queue, faults>>

StoreRanking(w) ==
  /\ At(w, "store")
  /\ ranking' = [q \in DOMAIN ranking \cup {task[w].query} |->
                  IF q = task[w].query THEN task[w].at ELSE ranking[q]]
  /\ To(w, "age")
  /\ UNCHANGED <<live, buildVars, warm, opened, freshness, replies, queue, faults>>

(* How far behind: the cached reading, or MAX(end_ts) and then a count of  *)
(* what the live chat.db has past it.                                      *)
Answer(w, newer, readable) ==
  /\ task' = [task EXCEPT ![w].step = IF task[w].kind = "warmup" THEN "end" ELSE "idle"]
  /\ replies' = IF task[w].kind = "status"
                THEN Append(replies, [newer |-> newer, readable |-> readable, for |-> task[w].for])
                ELSE replies

Age(w) ==
  /\ At(w, "age")
  /\ IF ~opened THEN Answer(w, 0, FALSE)
     ELSE IF freshness # NoReading THEN Answer(w, freshness.newer, TRUE)
     ELSE Read(w, "count") /\ UNCHANGED replies
  /\ UNCHANGED <<live, buildVars, warm, opened, ranking, freshness, queue, faults>>

CountNewer(w) ==
  /\ At(w, "count")
  /\ LET newer == IF task[w].at = 0 THEN 0 ELSE live - task[w].at
     IN /\ freshness' = [newer |-> newer, at |-> task[w].at]
        /\ Answer(w, newer, TRUE)
  /\ UNCHANGED <<live, buildVars, warm, opened, ranking, queue, faults>>

(* The read of the live chat.db fails: the connection is dropped, the      *)
(* reading is "nothing newer", and it is cached all the same.  A status    *)
(* request opens the connection again, and may succeed.                    *)
CountFails(w) ==
  /\ At(w, "count")
  /\ faults < MaxFaults
  /\ faults' = faults + 1
  /\ freshness' = [newer |-> 0, at |-> task[w].at]
  /\ \E readable \in BOOLEAN : Answer(w, 0, readable)
  /\ UNCHANGED <<live, buildVars, warm, opened, ranking, queue>>

SetReady(w) ==
  /\ At(w, "end")
  /\ warm' = "READY"
  /\ To(w, "idle")
  /\ UNCHANGED <<live, buildVars, opened, ranking, freshness, replies, queue, faults>>

(* A step of the warmup raises: the rest of it is not done.                *)
WarmupFails(w) ==
  /\ task[w].kind = "warmup" /\ task[w].step \in Steps \ {"idle", "forget", "clear"}
  /\ faults < MaxFaults
  /\ faults' = faults + 1
  /\ warm' = "FAILED"
  /\ To(w, "idle")
  /\ UNCHANGED <<live, buildVars, opened, ranking, freshness, replies, queue>>

WorkerStep(w) ==
  \/ TakeJob(w) \/ Forget(w) \/ ClearPages(w) \/ OpenIndex(w) \/ Rank(w)
  \/ StoreRanking(w) \/ Age(w) \/ CountNewer(w) \/ SetReady(w)

ServiceFaults == \/ \E t \in Threads : Fail(t)
                 \/ \E w \in Workers : CountFails(w) \/ WarmupFails(w)
ServiceStep == \/ \E t \in Threads : BuildStep(t)
               \/ \E w \in Workers : WorkerStep(w)
               \/ FreshnessExpires

(* The server on its own, with clients that search and start builds at any *)
(* time.  A search reads the freshness as a status request does.           *)
ClientStep == StartBuild \/ \E c \in Clients : AskSearch(c)

ServeNext == MessageArrives \/ ClientStep \/ ServiceStep \/ ServiceFaults

ServeSpec == Init /\ [][ServeNext]_serviceVars

-----------------------------------------------------------------------------
(* What clients of the server rely on.                                     *)

TypeOK ==
  /\ live \in 0..MaxLive /\ copied \in 0..live /\ horizon \in 0..copied
  /\ build \in [running : BOOLEAN, stage : BuildStages]
  /\ thread \in [Threads -> [pc : {"none", "spawned", "snapshotting", "building", "completing"},
                             goal : 0..MaxLive, ok : BOOLEAN]]
  /\ builds \in 0..MaxBuilds /\ faults \in 0..MaxFaults
  /\ warm \in {"NEEDS_INDEX", "STARTING", "READY", "FAILED"} /\ opened \in BOOLEAN
  /\ task \in [Workers -> [kind : Kinds, step : Steps, query : Queries, at : 0..MaxLive,
                           for : Callers]]
  /\ DOMAIN ranking \subseteq Queries
  /\ \A q \in DOMAIN ranking : ranking[q] \in 1..horizon

(* No build runs, and no re-warm waits or is still about to drop what the  *)
(* engine cached.                                                          *)
AtRest ==
  /\ \A t \in Threads : ~Running(t)
  /\ \A k \in DOMAIN queue : queue[k].kind # "warmup"
  /\ \A w \in Workers : task[w].step \notin {"forget", "clear"}

(* After a cold launch the first warmup has run beside the pool, and what  *)
(* its own search caches may be older than a re-warm.                      *)
LaunchedCold == task["launch"].kind = "warmup"

RankingsCurrent ==
  \A q \in DOMAIN ranking : ranking[q] = horizon \/ (LaunchedCold /\ q = WarmQuery)
ReadingCurrent == freshness # NoReading => freshness.at = horizon \/ LaunchedCold

(* Once a build has ended well and the dust has settled, no search is      *)
(* answered from a ranking computed before the build's last commit,        *)
(* whatever searches and other builds ran alongside it (server.py:241-264, *)
(* engine.py:115-117).                                                     *)
SettledRankings == AtRest /\ build.stage = "done" => RankingsCurrent

(* Nor does the app report being behind on the strength of a reading taken *)
(* before it.                                                              *)
SettledReading == AtRest /\ build.stage = "done" => ReadingCurrent

(* A build that has ended well becomes visible to searches, unless another *)
(* build takes its place; only a failing warmup leaves the engine closed.  *)
DoneBuildBecomesVisible ==
  build.stage = "done" ~> build.stage # "done" \/ (RankingsCurrent /\ ReadingCurrent /\ (opened \/ warm = "FAILED"))

-----------------------------------------------------------------------------
(* What the documentation says and the code does not always do.            *)

(* A build is not started while another is in progress (server.py:238).    *)
OneBuildAtATime == Cardinality({t \in Threads : Running(t)}) <= 1
=============================================================================
