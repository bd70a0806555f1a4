------------------------------- MODULE SyncPage -------------------------------
(***************************************************************************)
(* The page's side of building and syncing, composed with the server it    *)
(* talks to: pollHealth, startBuild, refreshStatus, syncNow and            *)
(* pollSyncProgress of seaglass/app/static/app.js over BuildService.       *)
(*                                                                         *)
(* The page is single-threaded: a handler runs from one await to the next. *)
(* A request that the server answers from its event loop (health, build    *)
(* progress, start of a build) is one step with the handling of its        *)
(* answer; a status request waits for the pool, so the page does other     *)
(* things before the answer arrives.                                       *)
(***************************************************************************)
EXTENDS BuildService

CONSTANTS
  GracePolls,   \* polls granted to a build whose stage is still idle
  MaxPollFails  \* SYNC_POLL_MAX_FAILURES

VARIABLES
  screen,    \* what is shown: "loading", "build_idle", "progress" or "app"
  polling,   \* pollHealth is scheduled
  ticking,   \* the 60 s refreshStatus interval has been set
  syncing,   \* syncInProgress
  failures,  \* argument of the next pollSyncProgress, or NotPolling
  banner,    \* the sync banner
  button     \* the Sync button of the status bar: "none", "on" or "off"

pageVars == <<screen, polling, ticking, syncing, failures, banner, button>>
vars == <<serviceVars, pageVars>>

NotPolling == 99

(* app.js grants 4 polls and gives up at the third failure in a row.       *)
ASSUME PollsAssumption ==
  GracePolls \in 1..(NotPolling - 1) /\ MaxPollFails \in 1..(GracePolls + 1)

Banners == {"hidden", "behind", "unreadable", "syncing", "failed", "lost"}

PageInit ==
  /\ Init
  /\ screen = "loading" /\ polling = TRUE /\ ticking = FALSE
  /\ syncing = FALSE /\ failures = NotPolling /\ banner = "hidden" /\ button = "none"

-----------------------------------------------------------------------------
(* The loading and build screens.                                          *)

PollHealth ==
  /\ polling
  /\ CASE warm = "NEEDS_INDEX" /\ ~build.running ->
            screen' = "build_idle" /\ polling' = FALSE /\ UNCHANGED serviceVars
       [] build.running ->
            screen' = "progress" /\ UNCHANGED <<polling, serviceVars>>
       [] ~build.running /\ warm = "READY" ->
            screen' = "app" /\ polling' = FALSE /\ AskStatus("health")
       [] OTHER -> UNCHANGED <<screen, polling, serviceVars>>
  /\ UNCHANGED <<ticking, syncing, failures, banner, button>>

(* An error ends the loop: nothing schedules the next poll.                *)
HealthLost ==
  /\ polling
  /\ faults < MaxFaults
  /\ faults' = faults + 1
  /\ polling' = FALSE
  /\ UNCHANGED <<live, buildVars, engineVars, queue, screen, ticking, syncing, failures,
                 banner, button>>

(* The button is refused with an error while a build runs.                 *)
ClickBuild ==
  /\ screen = "build_idle"
  /\ ~polling
  /\ StartBuild
  /\ screen' = "progress" /\ polling' = TRUE
  /\ UNCHANGED <<ticking, syncing, failures, banner, button>>

-----------------------------------------------------------------------------
(* The status bar and the sync banner.                                     *)

Tick ==
  /\ ticking
  /\ AskStatus("tick")
  /\ UNCHANGED pageVars

Shown(reply) ==
  IF ~reply.readable THEN "unreadable" ELSE IF reply.newer > 0 THEN "behind" ELSE "hidden"

(* Faulty variant: the answer is shown even while a sync runs.             *)
StatusStomps ==
  /\ replies # << >>
  /\ LET reply == Head(replies)
     IN /\ banner' = Shown(reply)
        /\ button' = IF syncing THEN "off" ELSE "on"
        /\ ticking' = (ticking \/ reply.for = "health")
  /\ replies' = Tail(replies)
  /\ UNCHANGED <<live, buildVars, warm, opened, task, ranking, freshness, queue, faults,
                 screen, polling, syncing, failures>>

(* The answer to a status request: while a sync owns the banner, it is     *)
(* left alone.  The first answer starts the interval.                      *)
StatusArrives ==
  /\ replies # << >>
  /\ LET reply == Head(replies)
     IN /\ banner' = IF syncing THEN banner ELSE Shown(reply)
        /\ button' = IF syncing THEN "off" ELSE "on"
        /\ ticking' = (ticking \/ reply.for = "health")
  /\ replies' = Tail(replies)
  /\ UNCHANGED <<live, buildVars, warm, opened, task, ranking, freshness, queue, faults,
                 screen, polling, syncing, failures>>

(* The answer is an error or never arrives.                                *)
StatusLost ==
  /\ replies # << >>
  /\ faults < MaxFaults
  /\ faults' = faults + 1
  /\ banner' = IF Head(replies).for = "sync" THEN "failed" ELSE banner
  /\ replies' = Tail(replies)
  /\ UNCHANGED <<live, buildVars, warm, opened, task, ranking, freshness, queue,
                 screen, polling, ticking, syncing, failures, button>>

-----------------------------------------------------------------------------
(* Syncing.                                                                *)

(* The build is accepted, or refused because one runs already, which is    *)
(* then watched instead; any other failure gives up.                       *)
SyncNow ==
  /\ button = "on" /\ ~syncing
  /\ \/ /\ StartBuild \/ (build.running /\ UNCHANGED serviceVars)
        /\ syncing' = TRUE /\ failures' = 0 /\ banner' = "syncing"
     \/ /\ faults < MaxFaults
        /\ faults' = faults + 1
        /\ banner' = "failed"
        /\ UNCHANGED <<live, buildVars, engineVars, queue, syncing, failures>>
  /\ button' = "off"
  /\ UNCHANGED <<screen, polling, ticking>>

PollFails ==
  /\ failures # NotPolling
  /\ faults < MaxFaults
  /\ faults' = faults + 1
  /\ IF failures + 1 < MaxPollFails
     THEN failures' = failures + 1 /\ UNCHANGED <<syncing, banner>>
     ELSE failures' = NotPolling /\ syncing' = FALSE /\ banner' = "lost"
  /\ UNCHANGED <<live, buildVars, engineVars, queue, screen, polling, ticking, button>>

PollRunning ==
  /\ failures # NotPolling
  /\ build.running
  /\ failures' = 0
  /\ UNCHANGED <<serviceVars, screen, polling, ticking, syncing, banner, button>>

(* Faulty variant: a failed build leaves syncInProgress set.               *)
PollFailedHeld ==
  /\ failures # NotPolling
  /\ ~build.running /\ build.stage = "failed"
  /\ failures' = NotPolling /\ banner' = "failed"
  /\ UNCHANGED <<serviceVars, screen, polling, ticking, syncing, button>>

PollFailed ==
  /\ failures # NotPolling
  /\ ~build.running /\ build.stage = "failed"
  /\ failures' = NotPolling /\ syncing' = FALSE /\ banner' = "failed"
  /\ UNCHANGED <<serviceVars, screen, polling, ticking, button>>

(* Faulty variant: one grace poll too many.                                *)
PollGraceLate ==
  /\ failures # NotPolling
  /\ ~build.running /\ build.stage = "idle"
  /\ failures <= GracePolls
  /\ failures' = failures + 1
  /\ UNCHANGED <<serviceVars, screen, polling, ticking, syncing, banner, button>>

PollGrace ==
  /\ failures # NotPolling
  /\ ~build.running /\ build.stage = "idle"
  /\ failures < GracePolls
  /\ failures' = failures + 1
  /\ UNCHANGED <<serviceVars, screen, polling, ticking, syncing, banner, button>>

(* Neither running nor failed nor to be granted time: it must be done.     *)
PollDone ==
  /\ failures # NotPolling
  /\ ~build.running /\ build.stage # "failed"
  /\ ~(build.stage = "idle" /\ failures < GracePolls)
  /\ failures' = NotPolling /\ syncing' = FALSE
  /\ AskStatus("sync")
  /\ UNCHANGED <<screen, polling, ticking, banner, button>>

-----------------------------------------------------------------------------

(* Other clients (sync_index of the MCP server) start builds and search.   *)
OtherClient ==
  /\ StartBuild \/ \E c \in Clients : AskSearch(c)
  /\ UNCHANGED pageVars

PollSync == PollRunning \/ PollFailed \/ PollGrace \/ PollDone
Service == /\ MessageArrives \/ ServiceStep \/ ServiceFaults
           /\ UNCHANGED pageVars

Next ==
  \/ Service \/ PollHealth \/ HealthLost \/ ClickBuild \/ Tick \/ StatusArrives \/ StatusLost
  \/ SyncNow \/ PollFails \/ PollSync \/ OtherClient

Spec == PageInit /\ [][Next]_vars

(* Threads, timers and answers come in the end; a cached reading expires.  *)
(* Nothing is owed of the user, of new messages or of failures.            *)
FairSpec ==
  /\ Spec
  /\ \A t \in Threads : WF_vars(BuildStep(t) /\ UNCHANGED pageVars)
  /\ \A w \in Workers : WF_vars(WorkerStep(w) /\ UNCHANGED pageVars)
  /\ WF_vars(FreshnessExpires /\ UNCHANGED pageVars)
  /\ WF_vars(PollHealth) /\ WF_vars(PollSync) /\ WF_vars(Tick) /\ WF_vars(StatusArrives)

-----------------------------------------------------------------------------
(* What the user relies on.                                                *)

PageTypeOK ==
  /\ TypeOK
  /\ screen \in {"loading", "build_idle", "progress", "app"}
  /\ polling \in BOOLEAN /\ ticking \in BOOLEAN /\ syncing \in BOOLEAN
  /\ failures \in 0..GracePolls \cup {NotPolling}
  /\ banner \in Banners /\ button \in {"none", "on", "off"}

(* While a sync is being watched the banner never says that things are as  *)
(* they were or as they should be: a status answer asked for before the    *)
(* click and arriving after it does not replace it (app.js:185).           *)
SyncNeverLooksDone == syncing => banner \in {"syncing", "failed"}

(* Every sync ends and gives the Sync button back, whatever is lost on the *)
(* way and whoever else builds.                                            *)
SyncGivesButtonBack == syncing ~> ~syncing /\ button = "on"

(* When messages stop arriving and nobody syncs any more, the banner ends  *)
(* up telling the truth about the index.                                   *)
BannerSettles ==
  <>[](ticking => banner = Shown([newer |-> live - horizon, readable |-> TRUE]))
=============================================================================
