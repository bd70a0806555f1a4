--------------------------- MODULE ProcessesProofs ---------------------------
(***************************************************************************)
(* Theorems about AppProcess and McpServer for any number of launches,     *)
(* ports and indexes: one settled instance owns the lock and its port; the *)
(* tool does not disturb the app, an answer comes from the index that was  *)
(* wanted, and a sync is not reported before its build has ended.          *)
(***************************************************************************)
EXTENDS McpServer, TLAPS

-----------------------------------------------------------------------------
(* The app by itself.                                                      *)

Holding == {"taking", "writing", "locked", "up", "cleaning", "unlinking"}
Named == {"locked", "up", "cleaning", "unlinking"}
Serving == {"starting", "listening"}

(* What holds always: where servers and signal handlers may be.            *)
PlaceInv ==
  /\ AppTypeOK
  /\ \A p \in Procs : server[p] # "off" <=> pc[p] \in {"up", "cleaning", "unlinking", "leaving"}
  /\ \A p \in signalled : pc[p] \in {"cleaning", "unlinking"}
  /\ HandsOverToOwner

(* What calm keeps: one process at a time between the decision to take the *)
(* lock and its release; a launch beside it only while it is settled; the  *)
(* lock and the ports are those of the servers.                            *)
CalmInv ==
  /\ signalled = {}
  /\ \A p, q \in Procs : pc[p] \in Holding /\ pc[q] \in Holding => p = q
  /\ \A p, q \in Procs : pc[p] = "picked" /\ pc[q] = "picked" => p = q
  /\ \A p, q \in Procs : pc[p] \in Holding /\ pc[q] = "picked"
                           => pc[p] = "up" /\ server[p] = "listening"
  /\ \A p \in Procs : pc[p] \in Named => lock = [pid |-> p, port |-> port[p]]
  /\ \A p, q \in Procs : pc[p] \in Holding \cup {"picked"} /\ p # q /\ server[q] \in Serving
                           => port[p] # port[q]
  /\ \A p \in Procs : pc[p] \in Holding => server[p] # "failed"
  /\ \A p \in Procs : server[p] \in Serving /\ lock \notin {None, Torn} /\ lock.port = port[p]
                        => lock.pid = p

Inv == PlaceInv /\ (calm => CalmInv)

-----------------------------------------------------------------------------

LEMMA InvInit == AppInit => Inv
<1> USE ProcessAssumption
<1> SUFFICES ASSUME AppInit PROVE Inv
  OBVIOUS
<1>1. AppTypeOK
  BY DEF AppInit, AppTypeOK, Stages
<1>2. PlaceInv
  BY <1>1 DEF AppInit, PlaceInv, HandsOverToOwner
<1>3. CalmInv
  BY DEF AppInit, CalmInv, Holding, Named, Serving
<1> QED BY <1>2, <1>3 DEF Inv

-----------------------------------------------------------------------------
(* One lemma per action.                                                   *)

LEMMA LaunchKeeps ==
  ASSUME Inv, NEW p \in Procs, NEW i \in Indexes, Launch(p, i) PROVE Inv'
<1> USE ProcessAssumption
<1>1. PICK n \in Ports : PickPort(n) /\ port' = [port EXCEPT ![p] = n]
  BY DEF Launch, PickPort
<1>2. /\ pc[p] = "unborn" /\ pc' = [pc EXCEPT ![p] = "picked"]
      /\ index' = [index EXCEPT ![p] = i]
      /\ UNCHANGED <<server, signalled, lock, config, strangers, handed>>
  BY DEF Launch
<1>3. AppTypeOK'
  BY <1>1, <1>2 DEF Launch, Inv, PlaceInv, AppTypeOK, Stages
<1>4. server[p] = "off" /\ p \notin signalled
  BY <1>2 DEF Inv, PlaceInv, AppTypeOK, Alive
<1>5. PlaceInv'
  BY <1>2, <1>3, <1>4 DEF Inv, PlaceInv, AppTypeOK, HandsOverToOwner
<1>6. CASE \A q \in Procs : ~Alive(q)
  <2>1. \A q \in Procs : server[q] = "off" /\ pc[q] \in {"unborn", "gone"}
    BY <1>6 DEF Alive, Inv, PlaceInv, AppTypeOK
  <2>2. signalled' = {}
    BY <1>2, <2>1 DEF Inv, PlaceInv, AppTypeOK
  <2>3. /\ \A q \in Procs : server'[q] = "off"
        /\ \A q \in Procs : pc'[q] \in {"unborn", "gone"} \/ (q = p /\ pc'[q] = "picked")
    BY <1>2, <2>1 DEF Inv, PlaceInv, AppTypeOK
  <2>4. CalmInv'
    BY <2>2, <2>3 DEF CalmInv, Holding, Named, Serving
  <2> QED BY <1>5, <2>4 DEF Inv
<1>7. CASE calm /\ \A q \in Procs : ~InTransit(q)
  <2>1. \A q \in Procs : pc[q] \notin {"picked", "taking", "writing", "locked", "cleaning", "unlinking"}
                         /\ server[q] # "starting"
    BY <1>7 DEF InTransit
  <2>2. \A q \in Procs : pc[q] = "up" => server[q] = "listening"
    BY <1>7, <2>1 DEF Inv, PlaceInv, CalmInv, AppTypeOK, Holding
  <2>3. \A q \in Procs : server[q] = "listening" => port[q] # n
    BY <1>1 DEF PickPort, ListeningOn
  <2>4. CalmInv'
    BY <1>1, <1>2, <1>4, <1>7, <2>1, <2>2, <2>3
       DEF Inv, PlaceInv, AppTypeOK, CalmInv, Holding, Named, Serving
  <2> QED BY <1>5, <2>4 DEF Inv
<1>8. CASE ~calm'
  BY <1>5, <1>8 DEF Inv
<1> QED BY <1>6, <1>7, <1>8 DEF Launch

LEMMA TakeLockKeeps ==
  ASSUME Inv, NEW p \in Procs, TakeLock(p) PROVE Inv'
<1> USE ProcessAssumption
<1>1. pc[p] = "picked" /\ UNCHANGED <<server, port, index, signalled, lock, config, strangers, calm>>
  BY DEF TakeLock
<1>2. server[p] = "off"
  BY <1>1 DEF Inv, PlaceInv, AppTypeOK
<1>3. CASE Owner # None /\ PidIsLive(Owner) /\ ListeningOn(lock.port) # {}
  <2>1. PICK q \in ListeningOn(lock.port) :
          handed' = [handed EXCEPT ![p] = [pid |-> Owner, reached |-> q, calm |-> calm]]
    BY <1>3 DEF TakeLock
  <2>2. q \in Procs /\ server[q] = "listening" /\ port[q] = lock.port
    BY DEF ListeningOn
  <2>3. lock \in [pid : Procs, port : Ports] /\ Owner = lock.pid
    BY <1>3 DEF Owner, Inv, PlaceInv, AppTypeOK
  <2>4. calm => Owner = q
    BY <2>2, <2>3 DEF Inv, CalmInv, Serving
  <2>5. pc' = [pc EXCEPT ![p] = "gone"]
    BY <1>3 DEF TakeLock
  <2>6. AppTypeOK'
    BY <1>1, <2>1, <2>2, <2>3, <2>5 DEF Inv, PlaceInv, AppTypeOK, Stages
  <2>7. HandsOverToOwner'
    BY <1>1, <2>1, <2>4 DEF HandsOverToOwner, Inv, PlaceInv, AppTypeOK
  <2>8. PlaceInv'
    <3>1. \A r \in signalled : r # p
      BY <1>1 DEF Inv, PlaceInv
    <3> QED BY <1>1, <1>2, <2>5, <2>6, <2>7, <3>1 DEF Inv, PlaceInv, AppTypeOK
  <2>9. calm' => CalmInv'
    BY <1>1, <1>2, <2>5 DEF Inv, PlaceInv, AppTypeOK, CalmInv, Holding, Named, Serving
  <2> QED BY <2>8, <2>9 DEF Inv
<1>4. CASE ~(Owner # None /\ PidIsLive(Owner) /\ ListeningOn(lock.port) # {})
  <2>1. pc' = [pc EXCEPT ![p] = "taking"] /\ handed' = handed
    BY <1>4 DEF TakeLock
  <2>2. PlaceInv'
    <3>1. AppTypeOK'
      BY <1>1, <2>1 DEF Inv, PlaceInv, AppTypeOK, Stages
    <3>2. /\ pc'[p] = "taking"
          /\ \A q \in Procs : q # p => pc'[q] = pc[q]
      BY <2>1 DEF Inv, PlaceInv, AppTypeOK
    <3>3. \A r \in signalled : r # p
      BY <1>1 DEF Inv, PlaceInv
    <3> QED BY <1>1, <1>2, <2>1, <3>1, <3>2, <3>3 DEF Inv, PlaceInv, HandsOverToOwner
  <2>3. ASSUME calm, NEW q \in Procs, pc[q] \in Holding PROVE FALSE
    <3>1. pc[q] = "up" /\ server[q] = "listening" /\ lock = [pid |-> q, port |-> port[q]]
      BY <1>1, <2>3 DEF Inv, CalmInv, Named
    <3>2. Owner = q /\ lock.port = port[q] /\ q # None
      <4>1. lock \in [pid : Procs, port : Ports] /\ lock.pid = q /\ lock.port = port[q]
        BY <3>1 DEF Inv, PlaceInv, AppTypeOK
      <4> QED BY <4>1 DEF Owner
    <3> QED BY <1>4, <3>1, <3>2 DEF PidIsLive, Alive, ListeningOn
  <2>4. calm' => CalmInv'
    BY <1>1, <1>2, <2>1, <2>3 DEF Inv, PlaceInv, AppTypeOK, CalmInv, Holding, Named, Serving
  <2> QED BY <2>2, <2>4 DEF Inv
<1> QED BY <1>3, <1>4

LEMMA TruncateLockKeeps ==
  ASSUME Inv, NEW p \in Procs, TruncateLock(p) PROVE Inv'
<1> USE ProcessAssumption
<1>1. /\ pc[p] = "taking" /\ pc' = [pc EXCEPT ![p] = "writing"] /\ lock' = Torn
      /\ UNCHANGED <<server, port, index, handed, signalled, config, strangers, calm>>
  BY DEF TruncateLock, launching
<1>2. AppTypeOK'
  BY <1>1 DEF Inv, PlaceInv, AppTypeOK, Stages
<1>3. /\ pc'[p] = "writing"
      /\ \A q \in Procs : q # p => pc'[q] = pc[q]
  BY <1>1 DEF Inv, PlaceInv, AppTypeOK
<1>4. PlaceInv'
  BY <1>1, <1>2, <1>3 DEF Inv, PlaceInv, AppTypeOK, HandsOverToOwner
<1>5. ASSUME calm PROVE CalmInv'
  <2>1. \A q \in Procs : q # p => pc[q] \notin Holding \cup {"picked"}
    BY <1>1, <1>5 DEF Inv, CalmInv, Holding
  <2>2. \A q \in Procs : q # p /\ server[q] \in Serving => port[p] # port[q]
    BY <1>1, <1>5 DEF Inv, CalmInv, Holding
  <2> QED BY <1>1, <1>3, <1>5, <2>1, <2>2 DEF Inv, PlaceInv, CalmInv, Holding, Named, Serving
<1> QED BY <1>1, <1>4, <1>5 DEF Inv

LEMMA WriteLockKeeps ==
  ASSUME Inv, NEW p \in Procs, WriteLock(p) PROVE Inv'
<1> USE ProcessAssumption
<1>1. /\ pc[p] = "writing" /\ pc' = [pc EXCEPT ![p] = "locked"] /\ lock' = [pid |-> p, port |-> port[p]]
      /\ UNCHANGED <<server, port, index, handed, signalled, config, strangers, calm>>
  BY DEF WriteLock, launching
<1>2. AppTypeOK'
  BY <1>1 DEF Inv, PlaceInv, AppTypeOK, Stages
<1>3. /\ pc'[p] = "locked"
      /\ \A q \in Procs : q # p => pc'[q] = pc[q]
  BY <1>1 DEF Inv, PlaceInv, AppTypeOK
<1>4. PlaceInv'
  BY <1>1, <1>2, <1>3 DEF Inv, PlaceInv, AppTypeOK, HandsOverToOwner
<1>5. ASSUME calm PROVE CalmInv'
  <2>1. \A q \in Procs : q # p => pc[q] \notin Holding \cup {"picked"}
    BY <1>1, <1>5 DEF Inv, CalmInv, Holding
  <2>2. \A q \in Procs : q # p /\ server[q] \in Serving => port[p] # port[q]
    BY <1>1, <1>5 DEF Inv, CalmInv, Holding
  <2> QED BY <1>1, <1>3, <1>5, <2>1, <2>2 DEF Inv, PlaceInv, CalmInv, Holding, Named, Serving
<1> QED BY <1>1, <1>4, <1>5 DEF Inv

LEMMA StartServerKeeps ==
  ASSUME Inv, NEW p \in Procs, StartServer(p) PROVE Inv'
<1> USE ProcessAssumption
<1>1. /\ pc[p] = "locked" /\ config' = [port |-> port[p], index |-> index[p]]
      /\ pc' = [pc EXCEPT ![p] = "up"] /\ server' = [server EXCEPT ![p] = "starting"]
      /\ UNCHANGED <<port, index, handed, signalled, lock, strangers, calm>>
  BY DEF StartServer, launching
<1>2. AppTypeOK'
  BY <1>1 DEF Inv, PlaceInv, AppTypeOK, Stages
<1>3. /\ pc'[p] = "up" /\ server'[p] = "starting" /\ server[p] = "off"
      /\ \A q \in Procs : q # p => pc'[q] = pc[q] /\ server'[q] = server[q]
  BY <1>1 DEF Inv, PlaceInv, AppTypeOK
<1>4. PlaceInv'
  BY <1>1, <1>2, <1>3 DEF Inv, PlaceInv, AppTypeOK, HandsOverToOwner
<1>5. ASSUME calm PROVE CalmInv'
  <2>1. \A q \in Procs : q # p => pc[q] \notin Holding \cup {"picked"}
    BY <1>1, <1>5 DEF Inv, CalmInv, Holding
  <2>2. lock = [pid |-> p, port |-> port[p]]
    BY <1>1, <1>5 DEF Inv, CalmInv, Named
  <2>3. \A q \in Procs : q # p /\ server[q] \in Serving => port[p] # port[q]
    BY <1>1, <1>5 DEF Inv, CalmInv, Holding
  <2> QED BY <1>1, <1>3, <1>5, <2>1, <2>2, <2>3 DEF Inv, CalmInv, Holding, Named, Serving
<1> QED BY <1>1, <1>4, <1>5 DEF Inv

LEMMA BindKeeps ==
  ASSUME Inv, NEW p \in Procs, Bind(p) PROVE Inv'
<1> USE ProcessAssumption
<1>1. /\ server[p] = "starting"
      /\ UNCHANGED <<pc, port, index, handed, signalled, lock, config, strangers, calm>>
  BY DEF Bind, launching
<1>2. /\ server' \in [Procs -> {"off", "starting", "listening", "failed"}]
      /\ server'[p] \in {"listening", "failed"}
      /\ \A q \in Procs : q # p => server'[q] = server[q]
  BY DEF Bind, Inv, PlaceInv, AppTypeOK
<1>3. PlaceInv'
  BY <1>1, <1>2 DEF Inv, PlaceInv, AppTypeOK, HandsOverToOwner
<1>4. ASSUME calm, pc[p] \in Holding PROVE server'[p] = "listening"
  <2>1. ListeningOn(port[p]) = {}
    BY <1>1, <1>4 DEF ListeningOn, Inv, CalmInv, Holding, Serving
  <2> QED BY <2>1 DEF Bind, Inv, PlaceInv, AppTypeOK
<1>5. ASSUME calm PROVE CalmInv'
  <2>1. \A q \in Procs : server'[q] \in Serving => server[q] \in Serving
    BY <1>1, <1>2 DEF Serving
  <2>2. \A q \in Procs : pc[q] \in Holding => server'[q] # "failed"
    BY <1>2, <1>4, <1>5 DEF Inv, CalmInv
  <2>3. \A q \in Procs : server[q] = "listening" => server'[q] = "listening"
    BY <1>1, <1>2
  <2> QED BY <1>1, <1>5, <2>1, <2>2, <2>3 DEF Inv, CalmInv, Named
<1> QED BY <1>1, <1>3, <1>5 DEF Inv

LEMMA SaveSettingsKeeps ==
  ASSUME Inv, NEW p \in Procs, NEW i \in Indexes, SaveSettings(p, i) PROVE Inv'
<1>1. PlaceInv'
  BY DEF SaveSettings, launching, Inv, PlaceInv, AppTypeOK, HandsOverToOwner
<1> QED BY <1>1 DEF SaveSettings, launching, Inv, CalmInv

LEMMA QuitKeeps ==
  ASSUME Inv, NEW p \in Procs, Quit(p) PROVE Inv'
<1> USE ProcessAssumption
<1>1. /\ pc[p] = "up" /\ pc' = [pc EXCEPT ![p] = "cleaning"]
      /\ calm' = (calm /\ \A q \in Procs : q # p => ~InTransit(q))
      /\ UNCHANGED <<server, port, index, handed, signalled, lock, config, strangers>>
  BY DEF Quit, launching
<1>2. AppTypeOK'
  BY <1>1 DEF Inv, PlaceInv, AppTypeOK, Stages
<1>3. /\ pc'[p] = "cleaning"
      /\ \A q \in Procs : q # p => pc'[q] = pc[q]
  BY <1>1 DEF Inv, PlaceInv, AppTypeOK
<1>4. PlaceInv'
  BY <1>1, <1>2, <1>3 DEF Inv, PlaceInv, AppTypeOK, HandsOverToOwner
<1>5. ASSUME calm' PROVE CalmInv'
  <2>1. calm /\ \A q \in Procs : q # p => pc[q] # "picked"
    BY <1>1, <1>5 DEF InTransit
  <2>2. \A q \in Procs : q # p => pc[q] \notin Holding
    BY <1>1, <2>1 DEF Inv, CalmInv, Holding
  <2> QED BY <1>1, <1>3, <2>1, <2>2 DEF Inv, CalmInv, Holding, Named
<1> QED BY <1>4, <1>5 DEF Inv

LEMMA SignalKeeps ==
  ASSUME Inv, NEW p \in Procs, Signal(p) PROVE Inv'
<1> USE ProcessAssumption
<1>1. /\ pc[p] = "up" /\ pc' = [pc EXCEPT ![p] = "cleaning"]
      /\ signalled' = signalled \cup {p} /\ calm' = FALSE
      /\ UNCHANGED <<server, port, index, handed, lock, config, strangers>>
  BY DEF Signal, launching
<1>2. AppTypeOK'
  BY <1>1 DEF Inv, PlaceInv, AppTypeOK, Stages
<1>3. /\ pc'[p] = "cleaning"
      /\ \A q \in Procs : q # p => pc'[q] = pc[q]
  BY <1>1 DEF Inv, PlaceInv, AppTypeOK
<1>4. PlaceInv'
  BY <1>1, <1>2, <1>3 DEF Inv, PlaceInv, AppTypeOK, HandsOverToOwner
<1> QED BY <1>1, <1>4 DEF Inv

LEMMA ReadOwnLockKeeps ==
  ASSUME Inv, NEW p \in Procs, ReadOwnLock(p) PROVE Inv'
<1> USE ProcessAssumption
<1>1. pc[p] = "cleaning" /\ UNCHANGED <<server, port, index, handed, lock, config, strangers, calm>>
  BY DEF ReadOwnLock, launching
<1>2. /\ pc' \in [Procs -> Stages] /\ signalled' \subseteq signalled
      /\ pc'[p] \in {"unlinking", "up", "leaving"}
      /\ pc'[p] = "up" => p \in signalled
      /\ \A q \in Procs : q # p => pc'[q] = pc[q]
  BY <1>1 DEF ReadOwnLock, AfterCleanup, Inv, PlaceInv, AppTypeOK, Stages
<1>3. PlaceInv'
  <2>1. AppTypeOK'
    BY <1>1, <1>2 DEF Inv, PlaceInv, AppTypeOK
  <2>2. \A q \in signalled' : pc'[q] \in {"cleaning", "unlinking"}
    BY <1>1, <1>2 DEF ReadOwnLock, AfterCleanup, Inv, PlaceInv, AppTypeOK
  <2> QED BY <1>1, <1>2, <2>1, <2>2 DEF Inv, PlaceInv, HandsOverToOwner
<1>4. calm' => CalmInv'
  <2> SUFFICES ASSUME calm PROVE CalmInv'
    BY <1>1
  <2>1. Owner = p
    BY <1>1 DEF Owner, Inv, PlaceInv, AppTypeOK, CalmInv, Named
  <2>2. pc' = [pc EXCEPT ![p] = "unlinking"] /\ signalled' = signalled
    BY <2>1 DEF ReadOwnLock
  <2> QED BY <1>1, <2>2 DEF Inv, PlaceInv, AppTypeOK, CalmInv, Holding, Named, Serving
<1> QED BY <1>3, <1>4 DEF Inv

LEMMA UnlinkKeeps ==
  ASSUME Inv, NEW p \in Procs, Unlink(p) PROVE Inv'
<1> USE ProcessAssumption
<1>1. /\ pc[p] = "unlinking" /\ lock' = None
      /\ UNCHANGED <<server, port, index, handed, config, strangers, calm>>
  BY DEF Unlink, launching
<1>2. /\ pc' = [pc EXCEPT ![p] = IF p \in signalled THEN "up" ELSE "leaving"]
      /\ signalled' = signalled \ {p}
  BY DEF Unlink, AfterCleanup
<1>3. AppTypeOK'
  BY <1>1, <1>2 DEF Inv, PlaceInv, AppTypeOK, Stages
<1>4. /\ pc'[p] \in {"up", "leaving"} /\ (pc'[p] = "up" => p \in signalled)
      /\ \A q \in Procs : q # p => pc'[q] = pc[q]
  BY <1>2 DEF Inv, PlaceInv, AppTypeOK
<1>5. PlaceInv'
  BY <1>1, <1>2, <1>3, <1>4 DEF Inv, PlaceInv, AppTypeOK, HandsOverToOwner
<1>6. ASSUME calm PROVE CalmInv'
  <2>1. pc'[p] = "leaving" /\ signalled' = {}
    BY <1>2, <1>4, <1>6 DEF Inv, CalmInv
  <2>2. \A q \in Procs : pc'[q] \notin Holding
    BY <1>1, <1>4, <1>6, <2>1 DEF Inv, CalmInv, Holding
  <2> QED BY <1>1, <1>4, <1>6, <2>1, <2>2 DEF Inv, CalmInv, Holding, Named, Serving
<1> QED BY <1>1, <1>5, <1>6 DEF Inv

LEMMA EndedKeeps ==
  ASSUME Inv, NEW p \in Procs, Ended(p) PROVE Inv'
<1> USE ProcessAssumption
<1>1. /\ pc' = [pc EXCEPT ![p] = "gone"] /\ server' = [server EXCEPT ![p] = "off"]
      /\ signalled' = signalled \ {p}
      /\ UNCHANGED <<port, index, handed, lock, config, strangers, calm>>
  BY DEF Ended, launching
<1>2. AppTypeOK'
  BY <1>1 DEF Inv, PlaceInv, AppTypeOK, Stages
<1>3. /\ pc'[p] = "gone" /\ server'[p] = "off"
      /\ \A q \in Procs : q # p => pc'[q] = pc[q] /\ server'[q] = server[q]
  BY <1>1 DEF Inv, PlaceInv, AppTypeOK
<1>4. PlaceInv'
  BY <1>1, <1>2, <1>3 DEF Inv, PlaceInv, AppTypeOK, HandsOverToOwner
<1>5. ASSUME calm PROVE CalmInv'
  BY <1>1, <1>3, <1>5 DEF Inv, CalmInv, Holding, Named, Serving
<1> QED BY <1>1, <1>4, <1>5 DEF Inv

LEMMA ReusePidKeeps ==
  ASSUME Inv, NEW p \in Procs, ReusePid(p) PROVE Inv'
<1>1. PlaceInv'
  BY DEF ReusePid, launching, Inv, PlaceInv, AppTypeOK, HandsOverToOwner
<1> QED BY <1>1 DEF ReusePid, launching, Inv, CalmInv

-----------------------------------------------------------------------------

LEMMA InvStep == Inv /\ [AppNext]_appVars => Inv'
<1> SUFFICES ASSUME Inv, [AppNext]_appVars PROVE Inv'
  OBVIOUS
<1>1. CASE UNCHANGED appVars
  BY <1>1 DEF appVars, Inv, PlaceInv, CalmInv, AppTypeOK, HandsOverToOwner
<1>2. ASSUME NEW p \in Procs, ProcessStep(p) PROVE Inv'
  <2>1. CASE \E i \in Indexes : Launch(p, i) \/ SaveSettings(p, i)
    BY <2>1, LaunchKeeps, SaveSettingsKeeps
  <2>2. CASE TakeLock(p) \/ TruncateLock(p) \/ WriteLock(p) \/ StartServer(p) \/ Bind(p)
    BY <2>2, TakeLockKeeps, TruncateLockKeeps, WriteLockKeeps, StartServerKeeps, BindKeeps
  <2>3. CASE Quit(p) \/ Signal(p) \/ ReadOwnLock(p) \/ Unlink(p) \/ ReusePid(p)
    BY <2>3, QuitKeeps, SignalKeeps, ReadOwnLockKeeps, UnlinkKeeps, ReusePidKeeps
  <2>4. CASE Exit(p) \/ Crash(p)
    BY <2>4, EndedKeeps DEF Exit, Crash
  <2> QED BY <1>2, <2>1, <2>2, <2>3, <2>4 DEF ProcessStep
<1> QED BY <1>1, <1>2 DEF AppNext

LEMMA InvImplies == Inv => OneInstance /\ HandsOverToOwner
<1> SUFFICES ASSUME Inv PROVE OneInstance
  BY DEF Inv, PlaceInv
<1> QED BY DEF Inv, CalmInv, OneInstance, Holding, Named

(* One instance, on its own port and named by the lock, for any number of  *)
(* launches: from a launch with no other app alive (main in                *)
(* app/__main__.py), while none meets another on its way.                  *)
THEOREM OneInstanceAlways == AppSpec => []OneInstance
<1>1. AppSpec => []Inv
  BY InvInit, InvStep, PTL DEF AppSpec
<1> QED BY <1>1, InvImplies, PTL

(* A launch that gives way (acquire_lock) opens the window of a server     *)
(* that accepts the token it brings.                                       *)
THEOREM HandsOverAlways == AppSpec => []HandsOverToOwner
<1>1. AppSpec => []Inv
  BY InvInit, InvStep, PTL DEF AppSpec
<1> QED BY <1>1, InvImplies, PTL

-----------------------------------------------------------------------------
(* The inductive invariant.                                                *)

Locks == [pid : Procs, port : Ports]

Calls == [stage : {"none", "connected", "alone", "checked", "answered"}, conn : Locks \cup {None},
          wanted : Indexes \cup {None}, index : Indexes \cup {None}]
Syncs == [stage : {"none", "waiting", "finished"}, conn : Locks \cup {None}]

ToolTypeOK ==
  /\ call \in Calls /\ sync \in Syncs
  /\ building \subseteq Procs /\ built \subseteq Procs
  /\ pinned \in Indexes \cup {None}

Born(p) == pc[p] # "unborn"

(* The process whose status was read still has the index it had then: a    *)
(* pid is not given twice, and no engine changes its index.                *)
CallInv ==
  /\ call.stage \in {"connected", "checked"} => call.conn \in Locks
  /\ call.stage = "checked" => Born(call.conn.pid) /\ index[call.conn.pid] = call.wanted
  /\ AnswersFromWantedIndex

(* The process that was asked for a build is at it, or was seen to end it, *)
(* or has itself ended and answers no more.                                *)
SyncInv ==
  /\ sync.stage = "waiting" =>
       /\ sync.conn \in Locks
       /\ sync.conn.pid \in building \cup built \/ pc[sync.conn.pid] = "gone"
  /\ FinishedMeansBuilt

ToolInv == ToolTypeOK /\ CallInv /\ SyncInv

-----------------------------------------------------------------------------

LEMMA ToolInit == Init => ToolInv
<1> SUFFICES ASSUME Init PROVE ToolInv
  OBVIOUS
<1>1. call = NoCall /\ sync = NoSync /\ building = {} /\ built = {}
      /\ pinned \in Indexes \cup {None}
  BY DEF Init
<1>2. NoCall \in Calls /\ NoSync \in Syncs
  BY DEF NoCall, NoSync, Calls, Syncs
<1> QED BY <1>1, <1>2 DEF NoCall, NoSync, ToolInv, ToolTypeOK, CallInv, SyncInv,
             AnswersFromWantedIndex, FinishedMeansBuilt

(* A server is reached while its process lives.                            *)
LEMMA AcceptedLives ==
  ASSUME PlaceInv, NEW conn, NEW p \in Accepting(conn)
  PROVE  p \in Procs /\ p = conn.pid /\ pc[p] \notin {"unborn", "gone"}
BY DEF Accepting, ListeningOn, PlaceInv

LEMMA ConnectionIsLock ==
  ASSUME PlaceInv PROVE Connection \in Locks \cup {None}
BY DEF Connection, Owner, PlaceInv, AppTypeOK, Locks

LEMMA WantedIsIndex ==
  ASSUME PlaceInv, ToolTypeOK PROVE Wanted \in Indexes
BY DEF Wanted, PlaceInv, AppTypeOK, ToolTypeOK

(* A process keeps its index, and once it has ended it stays so.           *)
LEMMA ProcessGoesOn ==
  ASSUME AppTypeOK, NEW p \in Procs, ProcessStep(p), NEW q \in Procs
  PROVE  /\ Born(q) => Born(q)' /\ index'[q] = index[q]
         /\ pc[q] = "gone" => pc'[q] = "gone"
<1> USE DEF AppTypeOK, Born, launching
<1>1. CASE \E i \in Indexes : Launch(p, i)
  BY <1>1 DEF Launch
<1>2. CASE \E i \in Indexes : SaveSettings(p, i)
  BY <1>2 DEF SaveSettings
<1>3. CASE TakeLock(p)
  BY <1>3 DEF TakeLock
<1>4. CASE TruncateLock(p) \/ WriteLock(p) \/ StartServer(p) \/ Bind(p)
  BY <1>4 DEF TruncateLock, WriteLock, StartServer, Bind
<1>5. CASE Quit(p) \/ Signal(p) \/ ReadOwnLock(p) \/ Unlink(p)
  BY <1>5 DEF Quit, Signal, ReadOwnLock, Unlink, AfterCleanup
<1>6. CASE Exit(p) \/ Crash(p) \/ ReusePid(p)
  BY <1>6 DEF Exit, Crash, Alive, Ended, ReusePid
<1> QED BY <1>1, <1>2, <1>3, <1>4, <1>5, <1>6 DEF ProcessStep

LEMMA AppStepKeeps ==
  ASSUME PlaceInv, ToolInv, NEW p \in Procs, AppStep(p) PROVE ToolInv'
<1> USE DEF ToolInv, AppStep, toolVars
<1>1. ToolTypeOK'
  BY DEF ToolTypeOK
<1>2. \A q \in Procs : /\ Born(q) => Born(q)' /\ index'[q] = index[q]
                       /\ pc[q] = "gone" => pc'[q] = "gone"
  BY ProcessGoesOn DEF PlaceInv
<1>3. CallInv'
  <2>1. call.stage = "checked" => call.conn.pid \in Procs
    BY DEF CallInv, Locks
  <2> QED BY <1>2, <2>1 DEF CallInv, AnswersFromWantedIndex
<1>4. SyncInv'
  <2>1. sync.stage = "waiting" => sync.conn.pid \in Procs
    BY DEF SyncInv, Locks
  <2>2. building' = {q \in building : pc'[q] # "gone"} /\ built' = built
    OBVIOUS
  <2> QED BY <1>2, <2>1, <2>2 DEF SyncInv, FinishedMeansBuilt
<1> QED BY <1>1, <1>3, <1>4

LEMMA BuildKeeps ==
  ASSUME ToolInv, NEW p \in Procs, Warm(p) \/ BuildFromPage(p) \/ BuildEnds(p) PROVE ToolInv'
<1> USE DEF ToolInv, Warm, BuildFromPage, BuildEnds, toolVars, appVars
<1>1. ToolTypeOK'
  BY DEF ToolTypeOK
<1>2. CallInv'
  BY DEF CallInv, AnswersFromWantedIndex, Born
<1>3. SyncInv'
  BY DEF SyncInv, FinishedMeansBuilt
<1> QED BY <1>1, <1>2, <1>3

-----------------------------------------------------------------------------
(* The search.                                                             *)

LEMMA SearchingKeeps ==
  ASSUME PlaceInv, ToolInv, Search \/ CheckStatus \/ AskApp \/ AnswerHere PROVE ToolInv'
<1> USE DEF ToolInv
<1>1. sync' = sync /\ building' = building /\ built' = built /\ pinned' = pinned
      /\ UNCHANGED appVars
  BY DEF Search, CheckStatus, AskApp, AnswerHere
<1>2. SyncInv'
  BY <1>1 DEF SyncInv, FinishedMeansBuilt, appVars
<1>3. call' \in Calls /\ CallInv'
  <2> USE DEF CallInv, AnswersFromWantedIndex, Born, appVars
  <2>1. call \in Calls /\ NoCall \in Calls /\ NoCall.stage = "none"
    BY DEF ToolTypeOK, NoCall, Calls
  <2>2. CASE call' = [NoCall EXCEPT !.stage = "alone"] \/ call' = NoCall
    BY <2>1, <2>2 DEF Calls
  <2>3. CASE Connection # None /\ call' = [NoCall EXCEPT !.stage = "connected", !.conn = Connection]
    <3>1. Connection \in Locks
      BY <2>3, ConnectionIsLock
    <3> QED BY <2>1, <2>3, <3>1 DEF Calls, NoCall
  <2>4. ASSUME NEW p \in Accepting(call.conn), index[p] = Wanted, call.stage = "connected",
               call' = [call EXCEPT !.stage = "checked", !.wanted = Wanted]
        PROVE  call' \in Calls /\ CallInv'
    <3>1. p = call.conn.pid /\ pc[p] # "unborn"
      BY AcceptedLives
    <3>2. Wanted \in Indexes
      BY WantedIsIndex
    <3> QED BY <1>1, <2>1, <2>4, <3>1, <3>2 DEF Calls
  <2>5. ASSUME NEW p \in Accepting(call.conn), call.stage = "checked",
               call' = [call EXCEPT !.stage = "answered", !.conn = None, !.index = index[p]]
        PROVE  call' \in Calls /\ CallInv'
    <3>1. p \in Procs /\ p = call.conn.pid
      BY AcceptedLives
    <3>2. index[p] \in Indexes /\ index[p] = call.wanted
      BY <2>5, <3>1 DEF PlaceInv, AppTypeOK
    <3> QED BY <2>1, <2>5, <3>2 DEF Calls
  <2>6. CASE Search
    BY <2>2, <2>3, <2>6 DEF Search
  <2>7. CASE CheckStatus
    BY <2>2, <2>4, <2>7 DEF CheckStatus
  <2>8. CASE AskApp
    BY <2>2, <2>5, <2>8 DEF AskApp
  <2>9. CASE AnswerHere
    BY <2>2, <2>9 DEF AnswerHere
  <2> QED BY <2>6, <2>7, <2>8, <2>9
<1> QED BY <1>1, <1>2, <1>3 DEF ToolTypeOK

-----------------------------------------------------------------------------
(* The sync.                                                               *)

LEMMA SyncingKeeps ==
  ASSUME PlaceInv, ToolInv, SyncIndex \/ PollBuild \/ GiveUp PROVE ToolInv'
<1> USE DEF ToolInv
<1>1. call' = call /\ pinned' = pinned /\ UNCHANGED appVars
  BY DEF SyncIndex, PollBuild, GiveUp
<1>2. CallInv'
  BY <1>1 DEF CallInv, AnswersFromWantedIndex, Born, appVars
<1>3. CASE SyncIndex
  <2>1. PICK p \in Accepting(Connection) : p \notin building
    BY <1>3 DEF SyncIndex
  <2>2. p = Connection.pid /\ Connection \in Locks
    BY <1>3, AcceptedLives, ConnectionIsLock DEF SyncIndex
  <2>3. Accepting(Connection) \subseteq Procs
    BY DEF Accepting, ListeningOn
  <2>4. /\ sync' = [stage |-> "waiting", conn |-> Connection] /\ built' = {}
        /\ building' = building \cup Accepting(Connection)
    BY <1>3 DEF SyncIndex
  <2>5. ToolTypeOK'
    BY <1>1, <2>2, <2>3, <2>4 DEF ToolTypeOK, Syncs
  <2>6. SyncInv'
    BY <2>2, <2>4 DEF SyncInv, FinishedMeansBuilt
  <2> QED BY <1>2, <2>5, <2>6
<1>4. CASE PollBuild
  <2>1. PICK p \in Accepting(sync.conn) : p \notin building
    BY <1>4 DEF PollBuild
  <2>2. p = sync.conn.pid /\ pc[p] # "gone"
    BY AcceptedLives
  <2>3. p \in built
    BY <1>4, <2>1, <2>2 DEF PollBuild, SyncInv
  <2>4. sync' = [sync EXCEPT !.stage = "finished"] /\ UNCHANGED <<building, built>>
    BY <1>4 DEF PollBuild
  <2>5. ToolTypeOK' /\ SyncInv'
    BY <1>1, <2>2, <2>3, <2>4 DEF ToolTypeOK, Syncs, SyncInv, FinishedMeansBuilt
  <2> QED BY <1>2, <2>5
<1>5. CASE GiveUp
  <2>1. sync' = NoSync /\ built' = {} /\ building' = building
    BY <1>5 DEF GiveUp
  <2>2. ToolTypeOK' /\ SyncInv'
    BY <1>1, <2>1 DEF ToolTypeOK, Syncs, NoSync, SyncInv, FinishedMeansBuilt
  <2> QED BY <1>2, <2>2
<1> QED BY <1>3, <1>4, <1>5

-----------------------------------------------------------------------------
(* The theorems.                                                           *)

LEMMA StepOfApp == [Next]_vars => [AppNext]_appVars
<1> SUFFICES ASSUME [Next]_vars PROVE [AppNext]_appVars
  OBVIOUS
<1>1. CASE \E p \in Procs : AppStep(p)
  BY <1>1 DEF AppStep, AppNext
<1>2. CASE \E p \in Procs : Warm(p) \/ BuildFromPage(p) \/ BuildEnds(p)
  BY <1>2 DEF Warm, BuildFromPage, BuildEnds
<1>3. CASE Search \/ CheckStatus \/ AskApp \/ AnswerHere \/ SyncIndex \/ PollBuild \/ GiveUp
  BY <1>3 DEF Search, CheckStatus, AskApp, AnswerHere, SyncIndex, PollBuild, GiveUp
<1> QED BY <1>1, <1>2, <1>3 DEF Next, vars

(* Whatever the tool does, the app behaves as it does without it: the      *)
(* composition implements the app alone, and what is proved of the app     *)
(* (one instance, its lock, whom a launch hands over to) stays true.       *)
THEOREM ToolLeavesAppAlone == Spec => AppSpec
<1>1. Init => AppInit
  BY DEF Init
<1> QED BY <1>1, StepOfApp, PTL DEF Spec, AppSpec

LEMMA ToolStep ==
  ASSUME PlaceInv, ToolInv, [Next]_vars PROVE ToolInv'
<1>1. CASE UNCHANGED vars
  BY <1>1 DEF vars, appVars, ToolInv, ToolTypeOK, CallInv, SyncInv, AnswersFromWantedIndex,
              FinishedMeansBuilt, Born
<1>2. CASE Next
  BY <1>2, AppStepKeeps, BuildKeeps, SearchingKeeps, SyncingKeeps DEF Next
<1> QED BY <1>1, <1>2

(* Whatever processes start and end between the steps of a tool call, the  *)
(* process whose status it read keeps its index, and the one it asked for  *)
(* a build is at it, has ended it or is gone (mcp_server.py).              *)
THEOREM ToolAlways == Spec => [](Inv /\ ToolInv)
<1>1. Spec => []Inv
  BY ToolLeavesAppAlone, InvInit, InvStep, PTL DEF AppSpec
<1>2. Inv => PlaceInv
  BY DEF Inv
<1> QED BY <1>1, <1>2, ToolInit, ToolStep, PTL DEF Spec

(* The app's one instance, with the tool at work beside it.                *)
THEOREM OneInstanceBesideTool == Spec => []OneInstance
BY ToolLeavesAppAlone, OneInstanceAlways, PTL

(* An answer of the app comes from the index the tool was configured for   *)
(* when it asked, whatever happened between the lock file, the status and  *)
(* the search (mcp_server.py).                                             *)
THEOREM AnswersFromWantedIndexAlways == Spec => []AnswersFromWantedIndex
<1>1. ToolInv => AnswersFromWantedIndex
  BY DEF ToolInv, CallInv
<1> QED BY <1>1, ToolAlways, PTL

(* A sync reported as finished saw a build of the app it asked end.        *)
THEOREM FinishedMeansBuiltAlways == Spec => []FinishedMeansBuilt
<1>1. ToolInv => FinishedMeansBuilt
  BY DEF ToolInv, SyncInv
<1> QED BY <1>1, ToolAlways, PTL

=============================================================================
