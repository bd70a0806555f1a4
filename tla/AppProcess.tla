----------------------------- MODULE AppProcess -----------------------------
(***************************************************************************)
(* The processes of the app (seaglass/app/__main__.py): the choice of a    *)
(* port, the lock file of the single instance, the settings file, the way  *)
(* a process ends, and the relaunch of seaglass/app/server.py.             *)
(*                                                                         *)
(* A process is named by its pid, given in order of launch, which is also  *)
(* its token.  Reading the lock, emptying it, writing it and deleting it   *)
(* are steps of their own, so launches and exits interleave.               *)
(***************************************************************************)
EXTENDS Integers, FiniteSets

CONSTANTS
  Procs,          \* pids: the bound on launches
  Ports,          \* ports from the default on
  Indexes,        \* paths of an index
  None,           \* no lock file
  Torn            \* a lock file that is not JSON: between open and write

ASSUME ProcessAssumption ==
  /\ Procs \subseteq Nat /\ Ports \subseteq Nat
  /\ None \notin Procs /\ None \notin [pid : Procs, port : Ports]
  /\ Torn \notin [pid : Procs, port : Ports] /\ Torn # None

VARIABLES
  pc,             \* per process: how far main has come
  server,         \* per process: "off", "starting", "listening", "failed"
  port, index,    \* per process: its port and the index of its engine
  signalled,      \* processes in the signal handler
  lock,           \* None, Torn or [pid, port]
  config,         \* the settings file: [port, index]
  strangers,      \* pids of ended processes now used by other programs
  handed,         \* auxiliary, per process: whom a launch handed over to
  calm            \* auxiliary: since a launch with no app alive, none met a start
                  \* or an exit under way

launching == <<port, index, handed>>
appVars == <<pc, server, port, index, signalled, lock, config, strangers, handed, calm>>

Stages == {"unborn", "picked", "taking", "writing", "locked", "up",
           "cleaning", "unlinking", "leaving", "gone"}

AppInit ==
  /\ pc = [p \in Procs |-> "unborn"] /\ server = [p \in Procs |-> "off"]
  /\ signalled = {} /\ lock = None /\ strangers = {}
  /\ config \in [port : Ports, index : Indexes]
  /\ \A n \in Ports : config.port <= n
  /\ port = [p \in Procs |-> config.port] /\ index = [p \in Procs |-> config.index]
  /\ handed = [p \in Procs |-> None] /\ calm = TRUE

-----------------------------------------------------------------------------

Alive(p) == pc[p] \notin {"unborn", "gone"}
PidIsLive(pid) == Alive(pid) \/ pid \in strangers
ListeningOn(n) == {p \in Procs : server[p] = "listening" /\ port[p] = n}
Owner == IF lock \in {None, Torn} THEN None ELSE lock.pid

(* On its way up or out, with its lock or its port not settled.            *)
InTransit(p) ==
  pc[p] \in {"picked", "taking", "writing", "locked", "cleaning", "unlinking"}
  \/ server[p] = "starting"

(* pick_port: the first port nobody listens on, not yet bound.             *)
PickPort(n) ==
  /\ n \in Ports /\ n >= config.port /\ ListeningOn(n) = {}
  /\ \A m \in Ports : (m >= config.port /\ m < n) => ListeningOn(m) # {}

(* main up to pick_port: i is the index of the settings or of --index-db.  *)
Launch(p, i) ==
  /\ pc[p] = "unborn" /\ \A q \in Procs : q < p => pc[q] # "unborn"
  /\ \E n \in Ports : PickPort(n) /\ port' = [port EXCEPT ![p] = n]
  /\ index' = [index EXCEPT ![p] = i]
  /\ pc' = [pc EXCEPT ![p] = "picked"]
  /\ calm' = \/ \A q \in Procs : ~Alive(q)
             \/ calm /\ \A q \in Procs : ~InTransit(q)
  /\ UNCHANGED <<server, signalled, lock, config, strangers, handed>>

(* Faulty variant: the lock is taken whoever holds it.                     *)
TakeLockAlways(p) ==
  /\ pc[p] = "picked"
  /\ pc' = [pc EXCEPT ![p] = "taking"]
  /\ UNCHANGED <<server, launching, signalled, lock, config, strangers, calm>>

(* acquire_lock up to its decision: hand over to a live instance that      *)
(* answers, or take the lock.  An unreadable lock counts as none.          *)
TakeLock(p) ==
  /\ pc[p] = "picked"
  /\ IF Owner # None /\ PidIsLive(Owner) /\ ListeningOn(lock.port) # {}
     THEN /\ pc' = [pc EXCEPT ![p] = "gone"]
          /\ \E q \in ListeningOn(lock.port) :
               handed' = [handed EXCEPT ![p] = [pid |-> Owner, reached |-> q, calm |-> calm]]
     ELSE pc' = [pc EXCEPT ![p] = "taking"] /\ handed' = handed
  /\ UNCHANGED <<server, port, index, signalled, lock, config, strangers, calm>>

(* write_text: the file is empty before it holds the new lock.             *)
TruncateLock(p) ==
  /\ pc[p] = "taking"
  /\ lock' = Torn /\ pc' = [pc EXCEPT ![p] = "writing"]
  /\ UNCHANGED <<server, launching, signalled, config, strangers, calm>>

WriteLock(p) ==
  /\ pc[p] = "writing"
  /\ lock' = [pid |-> p, port |-> port[p]] /\ pc' = [pc EXCEPT ![p] = "locked"]
  /\ UNCHANGED <<server, launching, signalled, config, strangers, calm>>

(* save_config keeps the picked port and --index-db; the server thread     *)
(* starts.                                                                 *)
StartServer(p) ==
  /\ pc[p] = "locked"
  /\ config' = [port |-> port[p], index |-> index[p]]
  /\ pc' = [pc EXCEPT ![p] = "up"] /\ server' = [server EXCEPT ![p] = "starting"]
  /\ UNCHANGED <<launching, signalled, lock, strangers, calm>>

(* The thread binds the port; if that fails it ends, and main goes on.     *)
Bind(p) ==
  /\ Alive(p) /\ server[p] = "starting"
  /\ server' = [server EXCEPT ![p] = IF ListeningOn(port[p]) = {} THEN "listening" ELSE "failed"]
  /\ UNCHANGED <<pc, launching, signalled, lock, config, strangers, calm>>

(* POST /api/config: the file follows, the engine does not.                *)
SaveSettings(p, i) ==
  /\ Alive(p) /\ server[p] = "listening"
  /\ config' = [config EXCEPT !.index = i]
  /\ UNCHANGED <<pc, server, launching, signalled, lock, strangers, calm>>

-----------------------------------------------------------------------------
(* Ending.                                                                 *)

(* The window closes, the headless query is answered, or the browser loop  *)
(* ends; a relaunch closes the window too.                                 *)
Quit(p) ==
  /\ pc[p] = "up"
  /\ pc' = [pc EXCEPT ![p] = "cleaning"]
  /\ calm' = (calm /\ \A q \in Procs : q # p => ~InTransit(q))
  /\ UNCHANGED <<server, launching, signalled, lock, config, strangers>>

(* SIGINT and SIGTERM only run cleanup: the process stays.                 *)
Signal(p) ==
  /\ pc[p] = "up"
  /\ pc' = [pc EXCEPT ![p] = "cleaning"] /\ signalled' = signalled \cup {p}
  /\ calm' = FALSE
  /\ UNCHANGED <<server, launching, lock, config, strangers>>

AfterCleanup(p) ==
  /\ pc' = [pc EXCEPT ![p] = IF p \in signalled THEN "up" ELSE "leaving"]
  /\ signalled' = signalled \ {p}

(* cleanup, up to its comparison of the pid                                *)
ReadOwnLock(p) ==
  /\ pc[p] = "cleaning"
  /\ IF Owner = p
     THEN pc' = [pc EXCEPT ![p] = "unlinking"] /\ signalled' = signalled
     ELSE AfterCleanup(p)
  /\ UNCHANGED <<server, launching, lock, config, strangers, calm>>

Unlink(p) ==
  /\ pc[p] = "unlinking"
  /\ lock' = None /\ AfterCleanup(p)
  /\ UNCHANGED <<server, launching, config, strangers, calm>>

Ended(p) ==
  /\ pc' = [pc EXCEPT ![p] = "gone"] /\ server' = [server EXCEPT ![p] = "off"]
  /\ signalled' = signalled \ {p}
  /\ UNCHANGED <<launching, lock, config, strangers, calm>>

Exit(p) == pc[p] = "leaving" /\ Ended(p)

(* A crash, a kill, or os._exit when a relaunch has waited too long: no    *)
(* cleanup, the lock stays.                                                *)
Crash(p) == Alive(p) /\ Ended(p)

(* Another program gets the pid of an ended process.                       *)
ReusePid(p) ==
  /\ pc[p] = "gone" /\ p \notin strangers
  /\ strangers' = strangers \cup {p}
  /\ UNCHANGED <<pc, server, launching, signalled, lock, config, calm>>

ProcessStep(p) ==
  \/ \E i \in Indexes : Launch(p, i) \/ SaveSettings(p, i)
  \/ TakeLock(p) \/ TruncateLock(p) \/ WriteLock(p) \/ StartServer(p) \/ Bind(p)
  \/ Quit(p) \/ Signal(p) \/ ReadOwnLock(p) \/ Unlink(p) \/ Exit(p)
  \/ Crash(p) \/ ReusePid(p)

AppNext == \E p \in Procs : ProcessStep(p)
AppSpec == AppInit /\ [][AppNext]_appVars

-----------------------------------------------------------------------------
(* Properties.                                                             *)

AppTypeOK ==
  /\ pc \in [Procs -> Stages]
  /\ server \in [Procs -> {"off", "starting", "listening", "failed"}]
  /\ port \in [Procs -> Ports] /\ index \in [Procs -> Indexes]
  /\ signalled \subseteq Procs /\ strangers \subseteq Procs
  /\ lock \in {None, Torn} \cup [pid : Procs, port : Ports]
  /\ config \in [port : Ports, index : Indexes]
  /\ handed \in [Procs -> {None} \cup [pid : Procs, reached : Procs, calm : BOOLEAN]]
  /\ calm \in BOOLEAN

(* From a launch with no other app alive, and as long as no launch or exit *)
(* meets another on its way up or out and no signal runs cleanup in a      *)
(* process that stays, there is one instance, its port is its own and the  *)
(* lock names it: whatever lock, torn or stale, was left behind, however   *)
(* many processes crash and whoever has their pids now.                    *)
OneInstance ==
  calm => \A p, q \in Procs :
            pc[p] = "up" =>
              /\ pc[q] = "up" => p = q
              /\ lock = [pid |-> p, port |-> port[p]]
              /\ server[p] # "failed"

(* A launch that gives way opens the window of an instance that will       *)
(* accept the token it brings: the server at the lock's port is the lock's *)
(* owner.                                                                  *)
HandsOverToOwner ==
  \A p \in Procs : (handed[p] # None /\ handed[p].calm) => handed[p].pid = handed[p].reached
=============================================================================
