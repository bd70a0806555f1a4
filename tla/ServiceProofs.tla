---------------------------- MODULE ServiceProofs ----------------------------
(***************************************************************************)
(* Theorems about BuildService and SyncPage for every number of threads,   *)
(* clients, queries and polls: the types of the state, that the caches a   *)
(* build makes stale are current again once the service has settled, and   *)
(* what the page shows of a sync.                                          *)
(***************************************************************************)
EXTENDS SyncPage, SequenceTheorems, TLAPS

-----------------------------------------------------------------------------
(* The inductive invariant of the server.                                  *)

Tasks == [kind : Kinds, step : Steps, query : Queries, at : 0..MaxLive, for : Callers]

(* What may wait for the pool: a re-warm from its start, or a request.     *)
Jobs == {j \in Tasks : IF j.kind = "warmup" THEN j.step = "forget" ELSE j.step \in {"rank", "age"}}

(* What a worker has read of the index is not newer than the index, and    *)
(* the launch thread only ever runs the warmup of a cold launch.           *)
WorkInv ==
  /\ queue \in Seq(Jobs)
  /\ \A w \in Workers :
       /\ task[w].step = "store" => task[w].at \in 1..horizon
       /\ task[w].step = "count" => task[w].at \in 0..horizon
  /\ LaunchedCold => task["launch"].query = WarmQuery
  /\ ~LaunchedCold => task["launch"].step = "idle"

Quiet == \A t \in Threads : ~Running(t)
RewarmWaits == \E k \in DOMAIN queue : queue[k].kind = "warmup"
Pool == task["pool"]

(* After a build that ended well either the re-warm has still to drop what *)
(* the engine cached, or the cache, and the value the pool is about to put *)
(* into it, come from the index as it is.                                  *)
RankingsInv ==
  Quiet /\ build.stage = "done" =>
    \/ RewarmWaits \/ Pool.step \in {"forget", "clear"}
    \/ RankingsCurrent /\ (Pool.step = "store" => Pool.at = horizon)

ReadingInv ==
  Quiet /\ build.stage = "done" =>
    \/ RewarmWaits \/ Pool.step = "forget"
    \/ ReadingCurrent /\ (Pool.step = "count" => Pool.at = horizon)

ServeInv == TypeOK /\ WorkInv /\ RankingsInv /\ ReadingInv

-----------------------------------------------------------------------------
(* The invariant in pieces.                                                *)

LEMMA TasksTyped ==
  ASSUME TypeOK
  PROVE  task \in [Workers -> Tasks] /\ "pool" \in Workers /\ "launch" \in Workers
BY DEF TypeOK, Tasks, Workers

(* A worker that moves on: its step changes and nothing else does, but for *)
(* what it has read of the index.                                          *)
LEMMA MovesOn ==
  ASSUME TypeOK, NEW w \in Workers, NEW s \in Steps, To(w, s)
  PROVE  /\ task' \in [Workers -> Tasks]
         /\ task'[w].step = s /\ task'[w].at = task[w].at
         /\ task'[w].kind = task[w].kind /\ task'[w].query = task[w].query
         /\ \A v \in Workers \ {w} : task'[v] = task[v]
BY TasksTyped DEF To, Tasks

LEMMA ReadsIndex ==
  ASSUME TypeOK, NEW w \in Workers, NEW s \in Steps, Read(w, s)
  PROVE  /\ task' \in [Workers -> Tasks]
         /\ task'[w].step = s /\ task'[w].at = horizon
         /\ task'[w].kind = task[w].kind /\ task'[w].query = task[w].query
         /\ \A v \in Workers \ {w} : task'[v] = task[v]
<1>1. horizon \in 0..MaxLive
  BY BoundsAssumption DEF TypeOK
<1> QED BY <1>1, TasksTyped DEF Read, Tasks

(* The launch thread has nothing to do but the warmup of a cold launch.    *)
LEMMA LaunchRunsWarmup ==
  ASSUME TypeOK, WorkInv, NEW w \in Workers, task[w].step # "idle"
  PROVE  w = "pool" \/ (w = "launch" /\ LaunchedCold /\ task[w].query = WarmQuery)
BY DEF WorkInv, Workers

-----------------------------------------------------------------------------
(* The initial states.                                                     *)

LEMMA IdleIsTask == Idle \in Tasks
BY LaunchAssumption, BoundsAssumption DEF Idle, Tasks, Kinds, Steps, Callers

LEMMA ServeInit == Init => ServeInv
<1> SUFFICES ASSUME Init PROVE ServeInv
  OBVIOUS
<1>1. horizon \in 0..1 /\ copied = horizon /\ live = 1 /\ build.stage = "idle"
  BY DEF Init
<1>2. PICK launch \in Launches :
        task = [w \in Workers |->
                  IF w = "launch" /\ launch = "cold"
                  THEN [Idle EXCEPT !.kind = "warmup", !.step = "clear"] ELSE Idle]
  BY DEF Init
<1>3. [Idle EXCEPT !.kind = "warmup", !.step = "clear"] \in Tasks
  BY IdleIsTask DEF Tasks, Kinds, Steps
<1>4. task \in [Workers -> Tasks]
  BY <1>2, <1>3, IdleIsTask
<1>5. TypeOK
  <2>1. live \in 0..MaxLive /\ copied \in 0..live /\ horizon \in 0..copied
    BY <1>1, BoundsAssumption
  <2>2. build \in [running : BOOLEAN, stage : BuildStages]
    BY DEF Init, BuildStages
  <2>3. thread \in [Threads -> [pc : {"none", "spawned", "snapshotting", "building", "completing"},
                                goal : 0..MaxLive, ok : BOOLEAN]]
    BY BoundsAssumption DEF Init
  <2>4. builds \in 0..MaxBuilds /\ faults \in 0..MaxFaults
    BY BoundsAssumption DEF Init
  <2>5. warm \in {"NEEDS_INDEX", "STARTING", "READY", "FAILED"} /\ opened \in BOOLEAN
    BY LaunchAssumption DEF Init
  <2>6. ranking = << >>
    BY DEF Init
  <2>7. DOMAIN ranking = {}
    BY <2>6
  <2> QED BY <1>4, <2>1, <2>2, <2>3, <2>4, <2>5, <2>7 DEF TypeOK, Tasks
<1>6. WorkInv
  <2>1. \A w \in Workers : task[w].step \in {"idle", "clear"}
    BY <1>2, IdleIsTask DEF Idle, Tasks
  <2>2. queue \in Seq(Jobs)
    BY DEF Init
  <2>3. task["launch"].query = WarmQuery
    BY <1>2 DEF Idle, Workers
  <2>4. ~LaunchedCold => task["launch"].step = "idle"
    BY <1>2 DEF Idle, Workers, LaunchedCold
  <2> QED BY <2>1, <2>2, <2>3, <2>4 DEF WorkInv
<1> QED BY <1>1, <1>5, <1>6 DEF ServeInv, RankingsInv, ReadingInv

-----------------------------------------------------------------------------
(* Steps that leave the workers, their queue and what they cached alone.   *)

engine == <<warm, opened, task, ranking, freshness, queue>>

(* A build thread is at work after the step, or the build has not ended    *)
(* well: nothing is claimed of the caches.                                 *)
LEMMA Unsettled ==
  ASSUME ServeInv, TypeOK', UNCHANGED <<engine, live>>, horizon' >= horizon,
         ~Quiet' \/ build'.stage # "done"
  PROVE  ServeInv'
<1>1. WorkInv'
  BY DEF ServeInv, WorkInv, engine, LaunchedCold, TypeOK
<1> QED BY <1>1 DEF ServeInv, RankingsInv, ReadingInv

LEMMA Unrelated ==
  ASSUME ServeInv, TypeOK', UNCHANGED <<engine, horizon, build, thread>>
  PROVE  ServeInv'
BY DEF ServeInv, WorkInv, RankingsInv, ReadingInv, engine, LaunchedCold, RankingsCurrent,
       ReadingCurrent, Quiet, Running, RewarmWaits, Pool

LEMMA ArrivalKeeps ==
  ASSUME ServeInv, MessageArrives PROVE ServeInv'
<1>1. TypeOK'
  BY BoundsAssumption DEF ServeInv, MessageArrives, TypeOK, buildVars, engineVars
<1> QED BY <1>1, Unrelated DEF MessageArrives, buildVars, engineVars, engine

-----------------------------------------------------------------------------
(* The build threads.                                                      *)

LEMMA StartKeeps ==
  ASSUME ServeInv, StartBuild PROVE ServeInv'
<1>1. PICK t \in Threads :
        thread' = [thread EXCEPT ![t] = [pc |-> "spawned", goal |-> 0, ok |-> FALSE]]
  BY DEF StartBuild
<1>2. TypeOK'
  <2>1. thread' \in [Threads -> [pc : {"none", "spawned", "snapshotting", "building", "completing"},
                                 goal : 0..MaxLive, ok : BOOLEAN]]
    BY <1>1, BoundsAssumption DEF ServeInv, TypeOK
  <2>2. builds' \in 0..MaxBuilds
    BY BoundsAssumption DEF ServeInv, StartBuild, TypeOK
  <2>3. UNCHANGED <<live, copied, horizon, build, engineVars, queue, faults>>
    BY DEF StartBuild
  <2> QED BY <2>1, <2>2, <2>3 DEF ServeInv, TypeOK, engineVars
<1>3. ~Quiet'
  BY <1>1 DEF ServeInv, TypeOK, Quiet, Running
<1> QED BY <1>2, <1>3, Unsettled DEF StartBuild, engineVars, engine, ServeInv, TypeOK

ThreadStates == [pc : {"none", "spawned", "snapshotting", "building", "completing"},
                 goal : 0..MaxLive, ok : BOOLEAN]

LEMMA BuildThreadKeeps ==
  ASSUME ServeInv, NEW t \in Threads, Begin(t) \/ Backup(t) \/ Commit(t) \/ Publish(t) \/ Fail(t)
  PROVE  ServeInv'
<1> USE DEF ServeInv, engineVars
<1>1. TypeOK'
  <2>1. thread' \in [Threads -> ThreadStates]
    <3>1. thread[t] \in ThreadStates /\ thread \in [Threads -> ThreadStates] /\ live \in 0..MaxLive
      BY DEF TypeOK, ThreadStates
    <3>2. CASE Begin(t)
      BY <3>1, <3>2 DEF Begin, ThreadStates
    <3>3. CASE Backup(t)
      BY <3>1, <3>3 DEF Backup, ThreadStates
    <3>4. CASE Commit(t) \/ Publish(t) \/ Fail(t)
      BY <3>1, <3>4 DEF Commit, Publish, Fail, ThreadStates
    <3> QED BY <3>2, <3>3, <3>4
  <2>2. build' \in [running : BOOLEAN, stage : BuildStages]
    <3>1. build \in [running : BOOLEAN, stage : BuildStages]
      BY DEF TypeOK
    <3>2. CASE Backup(t)
      BY <3>1, <3>2 DEF Backup, BuildStages
    <3>3. CASE Begin(t)
      BY <3>3 DEF Begin, BuildStages
    <3>4. CASE Commit(t)
      BY <3>1, <3>4 DEF Commit
    <3>5. CASE Publish(t)
      BY <3>5 DEF Publish, BuildStages
    <3>6. CASE Fail(t)
      BY <3>6 DEF Fail, BuildStages
    <3> QED BY <3>2, <3>3, <3>4, <3>5, <3>6
  <2>3. live' = live /\ copied' \in 0..live' /\ horizon' \in 0..copied' /\ horizon' >= horizon
    BY BoundsAssumption DEF Begin, Backup, Commit, Publish, Fail, TypeOK
  <2>4. builds' \in 0..MaxBuilds /\ faults' \in 0..MaxFaults
    BY BoundsAssumption DEF Begin, Backup, Commit, Publish, Fail, TypeOK
  <2>5. UNCHANGED <<engineVars, queue>>
    BY DEF Begin, Backup, Commit, Publish, Fail
  <2>6. \A q \in DOMAIN ranking' : ranking'[q] \in 1..horizon'
    BY <2>3, <2>5 DEF TypeOK
  <2> QED BY <2>1, <2>2, <2>3, <2>4, <2>5, <2>6 DEF TypeOK, ThreadStates
<1>2. ~Quiet'
  BY DEF Quiet, Running, Begin, Backup, Commit, Publish, Fail, TypeOK
<1>3. horizon' >= horizon /\ UNCHANGED <<engine, live>>
  BY DEF Begin, Backup, Commit, Publish, Fail, TypeOK, engine
<1> QED BY <1>1, <1>2, <1>3, Unsettled

LEMMA RewarmIsJob == RewarmJob \in Jobs /\ RewarmJob.kind = "warmup"
BY IdleIsTask DEF RewarmJob, Jobs, Tasks, Kinds, Steps

(* A job more at the end of the queue.                                     *)
LEMMA Queued ==
  ASSUME queue \in Seq(Jobs), NEW job \in Jobs, queue' = Append(queue, job)
  PROVE  /\ queue' \in Seq(Jobs)
         /\ RewarmWaits => RewarmWaits'
         /\ job.kind = "warmup" => RewarmWaits'
<1>1. Len(queue') = Len(queue) + 1 /\ DOMAIN queue' = 1..Len(queue')
      /\ \A k \in 1..Len(queue) : queue'[k] = queue[k]
  OBVIOUS
<1>2. queue'[Len(queue')] = job /\ Len(queue') \in DOMAIN queue'
  OBVIOUS
<1> QED BY <1>1, <1>2 DEF RewarmWaits

LEMMA CompletionKeeps ==
  ASSUME ServeInv, NEW t \in Threads, OnComplete(t) PROVE ServeInv'
<1> USE DEF ServeInv, engineVars
<1>1. TypeOK'
  BY ZenonT(60) DEF OnComplete, TypeOK
<1>2. CASE build.stage = "done"
  <2>1. queue' = Append(queue, RewarmJob)
    BY <1>2 DEF OnComplete
  <2>2. queue' \in Seq(Jobs) /\ RewarmWaits'
    BY <2>1, Queued, RewarmIsJob DEF WorkInv
  <2>3. WorkInv'
    BY <2>2 DEF WorkInv, OnComplete, LaunchedCold
  <2> QED BY <1>1, <2>2, <2>3 DEF RankingsInv, ReadingInv
<1>3. CASE build.stage # "done"
  BY <1>1, <1>3, Unsettled DEF OnComplete, engine, TypeOK
<1> QED BY <1>2, <1>3

-----------------------------------------------------------------------------
(* Requests to the pool.                                                   *)

LEMMA SubmitKeeps ==
  ASSUME ServeInv, NEW job \in Jobs, queue' = Append(queue, job),
         UNCHANGED <<live, buildVars, engineVars, faults>>
  PROVE  ServeInv'
<1> USE DEF ServeInv, buildVars, engineVars
<1>1. TypeOK'
  BY DEF TypeOK
<1>2. queue' \in Seq(Jobs) /\ (RewarmWaits => RewarmWaits')
  BY Queued DEF WorkInv
<1>3. WorkInv'
  BY <1>2 DEF WorkInv, LaunchedCold
<1> QED BY <1>1, <1>2, <1>3 DEF RankingsInv, ReadingInv, Quiet, Running, Pool, RankingsCurrent,
             ReadingCurrent, LaunchedCold

LEMMA SearchIsJob ==
  ASSUME NEW q \in Queries, NEW for \in Callers PROVE SearchJob(q, for) \in Jobs
BY IdleIsTask DEF SearchJob, Idle, Jobs, Tasks, Steps

LEMMA StatusIsJob ==
  ASSUME NEW for \in Callers PROVE StatusJob(for) \in Jobs
BY IdleIsTask DEF StatusJob, Idle, Jobs, Tasks, Steps, Kinds

LEMMA AskingKeeps ==
  ASSUME ServeInv, NEW for \in Callers, AskSearch(for) \/ AskStatus(for) PROVE ServeInv'
<1>1. CASE AskSearch(for)
  BY <1>1, SearchIsJob, SubmitKeeps DEF AskSearch, Submit
<1>2. CASE AskStatus(for)
  BY <1>2, StatusIsJob, SubmitKeeps DEF AskStatus, Submit
<1> QED BY <1>1, <1>2

LEMMA ExpiryKeeps ==
  ASSUME ServeInv, FreshnessExpires PROVE ServeInv'
<1> USE DEF ServeInv, buildVars, FreshnessExpires
<1>1. TypeOK' /\ WorkInv'
  BY DEF TypeOK, WorkInv, LaunchedCold
<1> QED BY <1>1 DEF RankingsInv, ReadingInv, Quiet, Running, Pool, RankingsCurrent,
             ReadingCurrent, LaunchedCold, RewarmWaits

-----------------------------------------------------------------------------
(* The workers.                                                            *)

LEMMA TakingKeeps ==
  ASSUME ServeInv, NEW w \in Workers, TakeJob(w) PROVE ServeInv'
<1> USE DEF ServeInv, buildVars
<1>1. w = "pool" /\ task' = [task EXCEPT ![w] = Head(queue)] /\ queue' = Tail(queue)
      /\ UNCHANGED <<live, buildVars, warm, opened, ranking, freshness, replies, faults>>
      /\ queue # << >>
  BY DEF TakeJob
<1>2. queue \in Seq(Jobs) /\ task \in [Workers -> Tasks] /\ "launch" \in Workers
  BY TasksTyped DEF WorkInv
<1>3. Head(queue) \in Jobs /\ Head(queue) = queue[1] /\ queue' \in Seq(Jobs)
  BY <1>1, <1>2
<1>4. Pool' = Head(queue) /\ task'["launch"] = task["launch"]
  BY <1>1, <1>2 DEF Pool
<1>5. TypeOK'
  BY <1>1, <1>2, <1>3 DEF TypeOK, Jobs, Tasks
<1>6. Pool'.step \in {"forget", "rank", "age"} /\ (Pool'.kind = "warmup" => Pool'.step = "forget")
  BY <1>3, <1>4 DEF Jobs
<1>7. WorkInv'
  BY <1>1, <1>3, <1>4, <1>6 DEF WorkInv, Pool, Workers, LaunchedCold
<1>8. RewarmWaits => RewarmWaits' \/ Pool'.step = "forget"
  <2> SUFFICES ASSUME NEW k \in DOMAIN queue, queue[k].kind = "warmup", k # 1
               PROVE  RewarmWaits'
    BY <1>3, <1>4, <1>6 DEF RewarmWaits
  <2>1. k - 1 \in DOMAIN queue' /\ queue'[k - 1] = queue[k]
    BY <1>1, <1>2
  <2> QED BY <2>1 DEF RewarmWaits
<1>9. Pool.step = "idle"
  BY <1>1 DEF TakeJob, At, Pool
<1>10. (RankingsCurrent => RankingsCurrent') /\ (ReadingCurrent => ReadingCurrent')
  BY <1>1, <1>4 DEF RankingsCurrent, ReadingCurrent, LaunchedCold
<1>11. Quiet' = Quiet /\ build' = build
  BY <1>1 DEF Quiet, Running
<1> QED BY <1>5, <1>6, <1>7, <1>8, <1>9, <1>10, <1>11 DEF RankingsInv, ReadingInv

(* A worker at work makes a step, and nothing outside the engine changes.  *)
Worked(w) ==
  /\ task' \in [Workers -> Tasks] /\ task[w].step # "idle"
  /\ task'[w].kind = task[w].kind /\ task'[w].query = task[w].query
  /\ \A v \in Workers \ {w} : task'[v] = task[v]
  /\ UNCHANGED <<live, buildVars, queue>>

LEMMA WorkTyped ==
  ASSUME ServeInv, NEW w \in Workers, Worked(w),
         task'[w].step = "store" => task'[w].at \in 1..horizon,
         task'[w].step = "count" => task'[w].at \in 0..horizon,
         warm' \in {"NEEDS_INDEX", "STARTING", "READY", "FAILED"}, opened' \in BOOLEAN,
         faults' \in 0..MaxFaults,
         DOMAIN ranking' \subseteq Queries, \A q \in DOMAIN ranking' : ranking'[q] \in 1..horizon
  PROVE  TypeOK' /\ WorkInv' /\ (LaunchedCold' <=> LaunchedCold)
<1> USE DEF ServeInv, Worked, buildVars
<1>1. TypeOK'
  BY DEF TypeOK, Tasks
<1>2. LaunchedCold' <=> LaunchedCold
  BY TasksTyped DEF LaunchedCold
<1>3. WorkInv'
  BY <1>2, LaunchRunsWarmup, TasksTyped DEF WorkInv, LaunchedCold
<1> QED BY <1>1, <1>2, <1>3

(* The caches are untouched, and the pool is not at a step that empties    *)
(* them.                                                                   *)
LEMMA RankingsKept ==
  ASSUME ServeInv, NEW w \in Workers, Worked(w), LaunchedCold' <=> LaunchedCold,
         w = "pool" => task[w].step \notin {"forget", "clear"},
         ranking' = ranking,
         task'[w].step = "store" => task'[w].at = horizon
  PROVE  RankingsInv'
<1>1. Pool' = Pool \/ (w = "pool" /\ Pool' = task'[w] /\ Pool = task[w])
  BY TasksTyped DEF Worked, Workers, Pool
<1> QED BY <1>1 DEF ServeInv, Worked, buildVars, RankingsInv, RankingsCurrent, Quiet, Running,
        RewarmWaits

LEMMA ReadingKept ==
  ASSUME ServeInv, NEW w \in Workers, Worked(w), LaunchedCold' <=> LaunchedCold,
         w = "pool" => task[w].step # "forget",
         freshness' = freshness,
         task'[w].step = "count" => task'[w].at = horizon
  PROVE  ReadingInv'
<1>1. Pool' = Pool \/ (w = "pool" /\ Pool' = task'[w] /\ Pool = task[w])
  BY TasksTyped DEF Worked, Workers, Pool
<1> QED BY <1>1 DEF ServeInv, Worked, buildVars, ReadingInv, ReadingCurrent, Quiet, Running,
        RewarmWaits

(* A step of a worker that only moves it on.                               *)
LEMMA PassKeeps ==
  ASSUME ServeInv, NEW w \in Workers, task[w].step \notin {"idle", "forget", "clear"},
         NEW s \in Steps \ {"store", "count"}, To(w, s),
         warm' \in {"NEEDS_INDEX", "STARTING", "READY", "FAILED"}, opened' \in BOOLEAN,
         faults' \in 0..MaxFaults,
         UNCHANGED <<live, buildVars, queue, ranking, freshness>>
  PROVE  ServeInv'
<1>1. Worked(w) /\ task'[w].step = s
  BY MovesOn DEF ServeInv, Worked
<1>2. TypeOK' /\ WorkInv' /\ (LaunchedCold' <=> LaunchedCold)
  BY <1>1, WorkTyped DEF ServeInv, TypeOK, buildVars
<1>3. RankingsInv' /\ ReadingInv'
  BY <1>1, <1>2, RankingsKept, ReadingKept
<1> QED BY <1>2, <1>3 DEF ServeInv

LEMMA ForgetKeeps ==
  ASSUME ServeInv, NEW w \in Workers, Forget(w) PROVE ServeInv'
<1> USE DEF ServeInv, Forget, At
<1>1. Worked(w) /\ task'[w].step = "clear"
  BY MovesOn DEF Worked, Steps
<1>2. TypeOK' /\ WorkInv' /\ (LaunchedCold' <=> LaunchedCold)
  BY <1>1, WorkTyped DEF TypeOK, buildVars
<1>3. Pool' = Pool \/ Pool'.step = "clear"
  BY <1>1, TasksTyped DEF Worked, Workers, Pool
<1>4. ReadingInv'
  BY <1>3 DEF ReadingInv, ReadingCurrent, Quiet, Running, RewarmWaits, buildVars
<1>5. RankingsInv'
  BY <1>2, <1>3 DEF RankingsInv, RankingsCurrent, Quiet, Running, RewarmWaits, buildVars
<1> QED BY <1>2, <1>4, <1>5

LEMMA ClearKeeps ==
  ASSUME ServeInv, NEW w \in Workers, ClearPages(w) PROVE ServeInv'
<1> USE DEF ServeInv, ClearPages, At
<1>1. Worked(w) /\ task'[w].step = "open"
  BY MovesOn DEF Worked, Steps
<1>2. ranking' = << >> /\ DOMAIN ranking' = {}
  OBVIOUS
<1>3. TypeOK' /\ WorkInv' /\ (LaunchedCold' <=> LaunchedCold)
  BY <1>1, <1>2, WorkTyped DEF TypeOK, buildVars
<1>4. Pool' = Pool \/ Pool'.step = "open"
  BY <1>1, TasksTyped DEF Worked, Workers, Pool
<1>5. RankingsInv'
  BY <1>2, <1>4 DEF RankingsInv, RankingsCurrent, Quiet, Running, RewarmWaits, buildVars
<1>6. ReadingInv'
  BY <1>1, <1>3, ReadingKept
<1> QED BY <1>3, <1>5, <1>6

LEMMA OpenKeeps ==
  ASSUME ServeInv, NEW w \in Workers, OpenIndex(w) PROVE ServeInv'
BY PassKeeps DEF OpenIndex, At, Steps, ServeInv, TypeOK

LEMMA RankKeeps ==
  ASSUME ServeInv, NEW w \in Workers, Rank(w) PROVE ServeInv'
<1> USE DEF ServeInv, Rank, At
<1>1. CASE To(w, "idle") \/ To(w, "age")
  BY <1>1, PassKeeps DEF Steps, TypeOK
<1>2. CASE opened /\ horizon # 0 /\ Read(w, "store")
  <2>1. Worked(w) /\ task'[w].step = "store" /\ task'[w].at = horizon
    BY <1>2, ReadsIndex DEF Worked, Steps
  <2>2. horizon \in 1..horizon
    BY <1>2, BoundsAssumption DEF TypeOK
  <2>3. TypeOK' /\ WorkInv' /\ (LaunchedCold' <=> LaunchedCold)
    BY <2>1, <2>2, WorkTyped DEF TypeOK, buildVars
  <2>4. RankingsInv' /\ ReadingInv'
    BY <2>1, <2>3, RankingsKept, ReadingKept
  <2> QED BY <2>3, <2>4
<1> QED BY <1>1, <1>2

LEMMA StoreKeeps ==
  ASSUME ServeInv, NEW w \in Workers, StoreRanking(w) PROVE ServeInv'
<1> USE DEF ServeInv, StoreRanking, At
<1>1. Worked(w) /\ task'[w].step = "age"
  BY MovesOn DEF Worked, Steps
<1>2. task[w].query \in Queries /\ task[w].at \in 1..horizon
  BY TasksTyped DEF Tasks, WorkInv
<1>3. /\ DOMAIN ranking' = DOMAIN ranking \cup {task[w].query}
      /\ ranking'[task[w].query] = task[w].at
      /\ \A q \in DOMAIN ranking \ {task[w].query} : ranking'[q] = ranking[q]
  OBVIOUS
<1>4. TypeOK' /\ WorkInv' /\ (LaunchedCold' <=> LaunchedCold)
  <2>1. DOMAIN ranking' \subseteq Queries /\ \A q \in DOMAIN ranking' : ranking'[q] \in 1..horizon
    BY <1>2, <1>3 DEF TypeOK
  <2> QED BY <1>1, <2>1, WorkTyped DEF TypeOK, buildVars
<1>5. ReadingInv'
  BY <1>1, <1>4, ReadingKept
<1>6. RankingsInv'
  <2>1. horizon' = horizon
    BY DEF buildVars
  <2>2. CASE w = "pool"
    <3>1. Pool.step = "store" /\ Pool'.step = "age" /\ Pool.at = task[w].at
      BY <1>1, <2>2 DEF Pool
    <3>2. RankingsCurrent /\ Pool.at = horizon => RankingsCurrent'
      BY <1>3, <1>4, <2>1, <3>1 DEF RankingsCurrent
    <3> QED BY <2>1, <3>1, <3>2 DEF RankingsInv, Quiet, Running, RewarmWaits, buildVars
  <2>3. CASE w = "launch"
    <3>1. LaunchedCold /\ task[w].query = WarmQuery
      BY <2>3, LaunchRunsWarmup
    <3>2. Pool' = Pool
      BY <1>1, <2>3 DEF Worked, Workers, Pool
    <3>3. RankingsCurrent => RankingsCurrent'
      BY <1>3, <1>4, <2>1, <3>1 DEF RankingsCurrent
    <3> QED BY <2>1, <3>2, <3>3 DEF RankingsInv, Quiet, Running, RewarmWaits, buildVars
  <2> QED BY <2>2, <2>3 DEF Workers
<1> QED BY <1>4, <1>5, <1>6

LEMMA AgeKeeps ==
  ASSUME ServeInv, NEW w \in Workers, Age(w) PROVE ServeInv'
<1> USE DEF ServeInv, Age, At
<1>1. CASE Read(w, "count")
  <2>1. Worked(w) /\ task'[w].step = "count" /\ task'[w].at = horizon
    BY <1>1, ReadsIndex DEF Worked, Steps
  <2>2. horizon \in 0..horizon
    BY BoundsAssumption DEF TypeOK
  <2>3. TypeOK' /\ WorkInv' /\ (LaunchedCold' <=> LaunchedCold)
    BY <2>1, <2>2, WorkTyped DEF TypeOK, buildVars
  <2>4. RankingsInv' /\ ReadingInv'
    BY <2>1, <2>3, RankingsKept, ReadingKept
  <2> QED BY <2>3, <2>4
<1>2. ASSUME NEW newer, NEW readable, Answer(w, newer, readable) PROVE ServeInv'
  <2> DEFINE s == IF task[w].kind = "warmup" THEN "end" ELSE "idle"
  <2>1. s \in Steps \ {"store", "count"} /\ To(w, s)
    BY <1>2 DEF Answer, To, Steps
  <2>2. /\ warm' \in {"NEEDS_INDEX", "STARTING", "READY", "FAILED"} /\ opened' \in BOOLEAN
        /\ faults' \in 0..MaxFaults
    BY DEF TypeOK
  <2> QED BY <2>1, <2>2, PassKeeps
<1> QED BY <1>1, <1>2

(* The reading that is cached was counted from where the worker had read   *)
(* the index to end.                                                       *)
LEMMA CountKeeps ==
  ASSUME ServeInv, NEW w \in Workers, At(w, "count"), NEW newer, NEW readable,
         freshness' = [newer |-> newer, at |-> task[w].at], Answer(w, newer, readable),
         faults' \in 0..MaxFaults,
         UNCHANGED <<live, buildVars, warm, opened, ranking, queue>>
  PROVE  ServeInv'
<1> USE DEF ServeInv, At
<1> DEFINE s == IF task[w].kind = "warmup" THEN "end" ELSE "idle"
<1>1. s \in Steps \ {"store", "count"} /\ To(w, s)
  BY DEF Answer, To, Steps
<1>2. Worked(w) /\ task'[w].step = s
  BY <1>1, MovesOn DEF Worked
<1>3. TypeOK' /\ WorkInv' /\ (LaunchedCold' <=> LaunchedCold)
  BY <1>1, <1>2, WorkTyped DEF TypeOK, buildVars
<1>4. RankingsInv'
  BY <1>1, <1>2, <1>3, RankingsKept
<1>5. ReadingInv'
  <2>1. horizon' = horizon /\ freshness'.at = task[w].at
    BY DEF buildVars
  <2>2. CASE w = "pool"
    <3>1. Pool.step = "count" /\ Pool'.step # "count" /\ Pool.at = task[w].at
      BY <1>1, <1>2, <2>2 DEF Pool
    <3> QED BY <2>1, <3>1 DEF ReadingInv, ReadingCurrent, Quiet, Running, RewarmWaits, buildVars
  <2>3. CASE w = "launch"
    <3>1. LaunchedCold'
      BY <1>3, <2>3, LaunchRunsWarmup
    <3>2. Pool' = Pool
      BY <1>2, <2>3 DEF Worked, Workers, Pool
    <3> QED BY <2>1, <3>1, <3>2 DEF ReadingInv, ReadingCurrent, Quiet, Running, RewarmWaits,
              buildVars
  <2> QED BY <2>2, <2>3 DEF Workers
<1> QED BY <1>3, <1>4, <1>5

LEMMA WorkerKeeps ==
  ASSUME ServeInv, NEW w \in Workers, WorkerStep(w) \/ CountFails(w) \/ WarmupFails(w)
  PROVE  ServeInv'
<1>1. CASE CountNewer(w)
  <2> DEFINE newer == IF task[w].at = 0 THEN 0 ELSE live - task[w].at
  <2>1. /\ freshness' = [newer |-> newer, at |-> task[w].at] /\ Answer(w, newer, TRUE)
        /\ At(w, "count")
        /\ UNCHANGED <<live, buildVars, warm, opened, ranking, queue>> /\ faults' = faults
    BY <1>1 DEF CountNewer
  <2>2. faults' \in 0..MaxFaults
    BY <2>1 DEF ServeInv, TypeOK
  <2> QED BY <2>1, <2>2, CountKeeps
<1>2. CASE CountFails(w)
  <2>1. PICK readable \in BOOLEAN : Answer(w, 0, readable)
    BY <1>2 DEF CountFails
  <2>2. faults' \in 0..MaxFaults
    BY <1>2, BoundsAssumption DEF CountFails, ServeInv, TypeOK
  <2> QED BY <1>2, <2>1, <2>2, CountKeeps DEF CountFails
<1>3. CASE SetReady(w)
  <2>1. "idle" \in Steps \ {"store", "count"}
    BY DEF Steps
  <2>2. opened' \in BOOLEAN /\ faults' \in 0..MaxFaults
    BY <1>3 DEF SetReady, ServeInv, TypeOK
  <2> QED BY <1>3, <2>1, <2>2, PassKeeps DEF SetReady, At
<1>4. CASE WarmupFails(w)
  <2>1. "idle" \in Steps \ {"store", "count"}
    BY DEF Steps
  <2>2. opened' \in BOOLEAN /\ faults' \in 0..MaxFaults
    BY <1>4, BoundsAssumption DEF WarmupFails, ServeInv, TypeOK
  <2> QED BY <1>4, <2>1, <2>2, PassKeeps DEF WarmupFails
<1> QED BY <1>1, <1>2, <1>3, <1>4, TakingKeeps, ForgetKeeps, ClearKeeps, OpenKeeps, RankKeeps,
        StoreKeeps, AgeKeeps DEF WorkerStep

-----------------------------------------------------------------------------
(* The theorems.                                                           *)

LEMMA ServiceKeeps ==
  ASSUME ServeInv, ServiceStep \/ ServiceFaults \/ MessageArrives PROVE ServeInv'
BY WorkerKeeps, BuildThreadKeeps, CompletionKeeps, ExpiryKeeps, ArrivalKeeps
   DEF ServiceStep, ServiceFaults, BuildStep

LEMMA ClientsCall == Clients \subseteq Callers
BY DEF Callers

LEMMA ServeKeeps ==
  ASSUME ServeInv, [ServeNext]_serviceVars PROVE ServeInv'
<1>1. CASE UNCHANGED serviceVars
  <2>1. TypeOK'
    BY <1>1 DEF serviceVars, buildVars, engineVars, ServeInv, TypeOK
  <2> QED BY <1>1, <2>1, Unrelated DEF serviceVars, buildVars, engineVars, engine
<1> QED BY <1>1, ClientsCall, ServiceKeeps, StartKeeps, AskingKeeps DEF ServeNext, ClientStep

(* After a build that ended well either its re-warm has still to drop what *)
(* the engine cached, or the caches, and what the pool is about to store   *)
(* in them, come from the index as it is (on_complete in server.py).       *)
THEOREM ServeAlways == ServeSpec => []ServeInv
<1>1. Init => ServeInv
  BY ServeInit
<1>2. ServeInv /\ [ServeNext]_serviceVars => ServeInv'
  BY ServeKeeps
<1> QED BY <1>1, <1>2, PTL DEF ServeSpec

(* The state keeps its types: the index never holds what the snapshot does *)
(* not, nor the snapshot what chat.db does not, and no ranking comes from  *)
(* a newer index than the one there is.                                    *)
THEOREM ServeTyped == ServeSpec => []TypeOK
<1>1. ServeInv => TypeOK
  BY DEF ServeInv
<1> QED BY <1>1, ServeAlways, PTL

LEMMA SettledIsCurrent == ServeInv => SettledRankings /\ SettledReading
<1> SUFFICES ASSUME ServeInv, AtRest, build.stage = "done"
             PROVE  RankingsCurrent /\ ReadingCurrent
  BY DEF SettledRankings, SettledReading
<1>1. Quiet /\ ~RewarmWaits /\ Pool.step \notin {"forget", "clear"}
  BY DEF AtRest, Quiet, RewarmWaits, Pool, Workers
<1> QED BY <1>1 DEF ServeInv, RankingsInv, ReadingInv

(* Whatever searches, builds and failures ran alongside, once a build has  *)
(* ended well and its re-warm has dropped the caches, no search is         *)
(* answered from a ranking of an older index (server.py:241-264).          *)
THEOREM RankingsSettle == ServeSpec => []SettledRankings
BY SettledIsCurrent, ServeAlways, PTL

(* Nor does the page read of a freshness computed before it.               *)
THEOREM ReadingSettles == ServeSpec => []SettledReading
BY SettledIsCurrent, ServeAlways, PTL

-----------------------------------------------------------------------------
(* The page: its part of the inductive invariant.                          *)

PageStates ==
  /\ screen \in {"loading", "build_idle", "progress", "app"}
  /\ polling \in BOOLEAN /\ ticking \in BOOLEAN /\ syncing \in BOOLEAN
  /\ failures \in 0..GracePolls \cup {NotPolling}
  /\ banner \in Banners /\ button \in {"none", "on", "off"}

(* A sync is in progress exactly while its polls go on, and the Sync       *)
(* button cannot be clicked meanwhile.                                     *)
SyncIsWatched ==
  /\ syncing <=> failures # NotPolling
  /\ syncing => button = "off"

PageInv == PageStates /\ SyncIsWatched /\ SyncNeverLooksDone

LEMMA NotPollingIsNoCount ==
  /\ GracePolls \in Nat /\ MaxPollFails \in 1..(GracePolls + 1)
  /\ NotPolling \notin 0..GracePolls
BY PollsAssumption DEF NotPolling

LEMMA PageStart == PageInit => ServeInv /\ PageInv
<1> SUFFICES ASSUME PageInit PROVE ServeInv /\ PageInv
  OBVIOUS
<1>1. ServeInv
  BY ServeInit DEF PageInit
<1>2. PageInv
  BY DEF PageInit, PageInv, PageStates, SyncIsWatched, SyncNeverLooksDone, Banners
<1> QED BY <1>1, <1>2

-----------------------------------------------------------------------------
(* What the page does to the server.                                       *)

LEMMA PageCalls == {"health", "tick", "sync"} \subseteq Callers
BY DEF Callers

(* A reply is taken or a failure counted.                                  *)
LEMMA AsideKeeps ==
  ASSUME ServeInv, UNCHANGED <<live, buildVars, warm, opened, task, ranking, freshness, queue>>,
         faults' \in 0..MaxFaults
  PROVE  ServeInv'
<1>1. TypeOK'
  BY DEF ServeInv, TypeOK, buildVars
<1> QED BY <1>1, Unrelated DEF buildVars, engine

LEMMA FaultCounts ==
  ASSUME ServeInv, faults < MaxFaults, faults' = faults + 1 PROVE faults' \in 0..MaxFaults
BY BoundsAssumption DEF ServeInv, TypeOK

LEMMA StutterKeeps ==
  ASSUME ServeInv, UNCHANGED serviceVars PROVE ServeInv'
<1>1. faults' \in 0..MaxFaults
  BY DEF ServeInv, TypeOK, serviceVars
<1> QED BY <1>1, AsideKeeps DEF serviceVars, engineVars

LEMMA PageServes ==
  ASSUME ServeInv, [Next]_vars PROVE ServeInv'
<1>1. CASE Service
  BY <1>1, ServiceKeeps DEF Service
<1>2. CASE PollHealth
  BY <1>2, StutterKeeps, AskingKeeps, PageCalls DEF PollHealth
<1>3. CASE HealthLost
  BY <1>3, FaultCounts, AsideKeeps DEF HealthLost, engineVars
<1>4. CASE ClickBuild
  BY <1>4, StartKeeps DEF ClickBuild
<1>5. CASE Tick
  BY <1>5, AskingKeeps, PageCalls DEF Tick
<1>6. CASE StatusArrives
  <2>1. faults' \in 0..MaxFaults
    BY <1>6 DEF StatusArrives, ServeInv, TypeOK
  <2> QED BY <1>6, <2>1, AsideKeeps DEF StatusArrives
<1>7. CASE StatusLost
  BY <1>7, FaultCounts, AsideKeeps DEF StatusLost
<1>8. CASE SyncNow
  BY <1>8, StartKeeps, StutterKeeps, FaultCounts, AsideKeeps DEF SyncNow, engineVars
<1>9. CASE PollFails
  BY <1>9, FaultCounts, AsideKeeps DEF PollFails, engineVars
<1>10. CASE PollSync
  BY <1>10, StutterKeeps, AskingKeeps, PageCalls
     DEF PollSync, PollRunning, PollFailed, PollGrace, PollDone
<1>11. CASE OtherClient
  BY <1>11, StartKeeps, AskingKeeps, ClientsCall DEF OtherClient
<1>12. CASE UNCHANGED vars
  BY <1>12, StutterKeeps DEF vars
<1> QED BY <1>1, <1>2, <1>3, <1>4, <1>5, <1>6, <1>7, <1>8, <1>9, <1>10, <1>11, <1>12 DEF Next

-----------------------------------------------------------------------------
(* What the page itself does.                                              *)

LEMMA PageKeeps ==
  ASSUME PageInv, [Next]_vars PROVE PageInv'
<1> USE NotPollingIsNoCount DEF PageInv, PageStates, SyncIsWatched, SyncNeverLooksDone
<1>1. CASE UNCHANGED pageVars
  BY <1>1 DEF pageVars
<1>2. CASE PollHealth
  BY <1>2 DEF PollHealth
<1>3. CASE HealthLost \/ ClickBuild
  <2>1. /\ screen' \in {screen, "progress"} /\ polling' \in BOOLEAN
        /\ UNCHANGED <<ticking, syncing, failures, banner, button>>
    BY <1>3 DEF HealthLost, ClickBuild
  <2> QED BY <2>1
<1>4. CASE StatusArrives
  <2>1. Shown(Head(replies)) \in Banners
    BY DEF Shown, Banners
  <2> QED BY <1>4, <2>1 DEF StatusArrives
<1>5. CASE StatusLost
  BY <1>5 DEF StatusLost, Banners
<1>6. CASE SyncNow
  <2>1. button' = "off" /\ UNCHANGED <<screen, polling, ticking>>
    BY <1>6 DEF SyncNow
  <2>2. CASE syncing' = TRUE /\ failures' = 0 /\ banner' = "syncing"
    <3>1. failures' \in 0..GracePolls /\ failures' # NotPolling
      BY <2>2
    <3> QED BY <2>1, <2>2, <3>1 DEF Banners
  <2>3. CASE banner' = "failed" /\ UNCHANGED <<syncing, failures>>
    BY <2>1, <2>3 DEF Banners
  <2> QED BY <1>6, <2>2, <2>3 DEF SyncNow
<1>7. CASE PollFails
  <2>1. UNCHANGED <<screen, polling, ticking, button>> /\ failures \in 0..GracePolls
    BY <1>7 DEF PollFails
  <2>2. CASE failures + 1 < MaxPollFails /\ failures' = failures + 1 /\ UNCHANGED <<syncing, banner>>
    <3>1. failures' \in 0..GracePolls /\ failures' # NotPolling
      BY <2>1, <2>2
    <3> QED BY <1>7, <2>1, <2>2, <3>1 DEF PollFails
  <2>3. CASE failures' = NotPolling /\ syncing' = FALSE /\ banner' = "lost"
    BY <2>1, <2>3 DEF Banners
  <2> QED BY <1>7, <2>2, <2>3 DEF PollFails
<1>8. CASE PollSync
  <2>1. CASE PollRunning \/ PollGrace
    BY <2>1 DEF PollRunning, PollGrace
  <2>2. CASE PollFailed \/ PollDone
    BY <2>2 DEF PollFailed, PollDone, Banners
  <2> QED BY <1>8, <2>1, <2>2 DEF PollSync
<1> QED BY <1>1, <1>2, <1>3, <1>4, <1>5, <1>6, <1>7, <1>8
        DEF Next, Service, Tick, OtherClient, vars

-----------------------------------------------------------------------------
(* The theorems.                                                           *)

(* The requests of the page, in any order with the builds and the pool,    *)
(* keep what holds of the server, and the page its own state (app.js).     *)
THEOREM PageAlways == Spec => [](ServeInv /\ PageInv)
<1>1. PageInit => ServeInv /\ PageInv
  BY PageStart
<1>2. ServeInv /\ PageInv /\ [Next]_vars => (ServeInv /\ PageInv)'
  BY PageServes, PageKeeps
<1> QED BY <1>1, <1>2, PTL DEF Spec

(* The types of the server and of the page; the number of polls granted is *)
(* never exceeded (app.js:298-336).                                        *)
THEOREM PageTyped == Spec => []PageTypeOK
<1>1. ServeInv /\ PageInv => PageTypeOK
  BY DEF ServeInv, PageInv, PageStates, PageTypeOK
<1> QED BY <1>1, PageAlways, PTL

(* No answer, whenever it was asked for, makes the banner say that things  *)
(* are as they should be while a sync is being watched (app.js:185).       *)
THEOREM SyncNeverLooksDoneAlways == Spec => []SyncNeverLooksDone
<1>1. PageInv => SyncNeverLooksDone
  BY DEF PageInv
<1> QED BY <1>1, PageAlways, PTL

(* syncInProgress is set exactly while pollSyncProgress goes on, with the  *)
(* button off: two syncs are never watched at once, and none is forgotten. *)
THEOREM SyncIsWatchedAlways == Spec => []SyncIsWatched
<1>1. PageInv => SyncIsWatched
  BY DEF PageInv
<1> QED BY <1>1, PageAlways, PTL

(* Under the page's requests too the caches settle.                        *)
THEOREM PageSettles == Spec => [](SettledRankings /\ SettledReading)
BY SettledIsCurrent, PageAlways, PTL

=============================================================================
