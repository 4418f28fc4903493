------------------------- MODULE InstanceLifecycle -------------------------
(***************************************************************************)
(* The main loop of the Instance controller: bringing up the StatefulSet,  *)
(* the load balancer and the services, creating and bootstrapping the      *)
(* database in the pod, its monitoring and its dNFS setting, stopping and  *)
(* starting the Instance, and pause mode.  The daemon's CreateCDB,         *)
(* BootstrapDatabase and NID operations, the tasks of                      *)
(* pkg/database/provision and the start script of the pod belong to it.    *)
(*                                                                         *)
(* A reconcile works on a copy of the Instance.  Its status is written at  *)
(* the end, after an error too, and the write is refused if the Instance   *)
(* has changed meanwhile.  Every call can fail and the operator can end    *)
(* between any two of them.                                                *)
(***************************************************************************)
EXTENDS Naturals, Sequences

\* The events that may come at any moment, all in all: changes of spec.isStopped,
\* spec.mode and spec.enableDnfs, calls that fail, reconciles cut short, time-outs,
\* restarts of the pod and operations that the daemon forgets.
CONSTANT MaxEvents

ASSUME LifecycleAssumption == MaxEvents \in Nat

VARIABLES
    image,          \* seeded, renamed (seeded with another CDB name) or unseeded
    stop, mode,     \* spec.isStopped, spec.mode
    dnfs,           \* spec.enableDnfs
    ready,          \* reason of the Ready condition, True in CreateComplete and Stopped
    dbReady,        \* reason of DatabaseInstanceReady, True in CreateComplete
    readyLate,      \* InstanceReadyTimeout has passed in this state of Ready
    dbLate,         \* the time-out of DatabaseInstanceReady has passed in this state
    dnfsEnabled,    \* status.dnfsEnabled
    sts, pod,       \* replicas of the StatefulSet; its pod
    lb, svc,        \* the load balancer and the services of the daemon and the agents
    secret, monitor,\* secret and replicas of the monitoring deployment
    host,           \* the database: its files on the volumes and what runs in the pod
    createOp, bootOp, \* operations in the daemon
    step,           \* of the bootstrap task that runs
    script,         \* step of the start script that brings up a provisioned database
    pc,             \* where the reconcile is
    fresh,          \* the Instance has not changed since it was read
    toReady, toDb, toDnfs, \* the status that will be written
    events,
    early,          \* history: the stop of an Instance that was not provisioned
    resuming,       \* history: a restart of a stopped Instance has begun
    forgotten,      \* history: an operation vanished just before a launch
    stranded        \* history: since the pod started its start script has failed, or a stop
                    \* or a change of enableDnfs was taken back before it was recorded

object == <<stop, mode, dnfs>>
conditions == <<ready, dbReady, readyLate, dbLate, dnfsEnabled>>
kube == <<sts, pod, lb, svc>>
monitoring == <<secret, monitor>>
daemon == <<createOp, bootOp, step, script>>
control == <<pc, fresh, toReady, toDb, toDnfs>>
history == <<early, resuming, forgotten, stranded>>
vars == <<image, object, conditions, kube, monitoring, host, daemon, control, events, history>>

YesNo == {"no", "yes"}
Other(b) == IF b = "yes" THEN "no" ELSE "yes"
ReadyReasons == {"none", "CreateInProgress", "CreateComplete", "Stopping", "Stopped", "Pause"}
DbReasons == {"none", "CreatePending", "CreateInProgress", "BootstrapPending",
              "BootstrapInProgress", "ReconcileServices", "CreateFailed", "CreateComplete"}
StopSteps == {"stop_sts", "stop_monitoring", "stop_services", "stop_check"}
DnfsSteps == {"dnfs", "dnfs_down", "dnfs_up"}
Calls == {"sts", "progress", "db", "launch", "boot", "secret", "user"}
         \cup StopSteps \cup DnfsSteps

\* The subtasks of a bootstrap in their order, and the marking of its end.
SubTasks ==
    [unseeded |-> <<"start", "set", "mount", "prep", "users", "seed", "listener", "mark">>,
     seeded   |-> <<"move", "config", "start", "set", "controlfile", "nidmount", "nid", "mount",
                    "prep", "users", "listener", "seed", "mark">>,
     renamed  |-> <<"rename", "renamenid", "reopen", "close", "move", "config", "start", "set",
                    "controlfile", "mount", "prep", "users", "listener", "seed", "mark">>]

Images == DOMAIN SubTasks
Steps == {"none"} \cup UNION {{SubTasks[i][n] : n \in 1..Len(SubTasks[i])} : i \in Images}
Modes == {"down", "nomount", "mounted", "open"}

\* Created users without their grants: the second command of several failed.
Hosts == [data: {"none", "partial", "created"}, provisioned: YesNo, config: {"unlinked", "linked"},
          db: Modes, listener: {"down", "up"}, users: {"none", "bare", "granted"},
          monitorUser: {"none", "bare", "granted"}, linked: YesNo]

TypeOK ==
    /\ image \in Images
    /\ stop \in YesNo /\ mode \in {"none", "pause"} /\ dnfs \in YesNo
    /\ ready \in ReadyReasons /\ dbReady \in DbReasons /\ readyLate \in YesNo /\ dbLate \in YesNo
    /\ dnfsEnabled \in YesNo /\ toDnfs \in YesNo
    /\ sts \in {"none", "0", "1"} /\ pod \in {"none", "init", "ready"}
    /\ lb \in {"none", "pending", "ready", "deleting"} /\ svc \in {"none", "present"}
    /\ secret \in YesNo /\ monitor \in {"none", "0", "1"}
    /\ host \in Hosts
    /\ createOp \in {"none", "started", "running", "created", "done", "failed"}
    /\ bootOp \in {"none", "running", "done", "failed"} /\ step \in Steps
    /\ script \in {"none", "relink", "start", "listener", "seed"}
    /\ pc \in Calls \cup {"idle", "commit"} /\ fresh \in YesNo
    /\ toReady \in ReadyReasons /\ toDb \in DbReasons
    /\ events \in 0..MaxEvents
    /\ early \in YesNo /\ resuming \in YesNo /\ forgotten \in YesNo /\ stranded \in YesNo

Init ==
    /\ image \in Images
    /\ stop = "no" /\ mode = "none" /\ dnfs = "no"
    /\ ready = "none" /\ dbReady = "none" /\ readyLate = "no" /\ dbLate = "no" /\ dnfsEnabled = "no"
    /\ sts = "none" /\ pod = "none" /\ lb = "none" /\ svc = "none"
    /\ secret = "no" /\ monitor = "none"
    /\ host = [data |-> "none", provisioned |-> "no", config |-> "unlinked", db |-> "down",
               listener |-> "down", users |-> "none", monitorUser |-> "none", linked |-> "no"]
    /\ createOp = "none" /\ bootOp = "none" /\ step = "none" /\ script = "none"
    /\ pc = "idle" /\ fresh = "yes" /\ toReady = "none" /\ toDb = "none" /\ toDnfs = "no"
    /\ events = 0
    /\ early = "no" /\ resuming = "no" /\ forgotten = "no" /\ stranded = "no"

-----------------------------------------------------------------------------
(* The owner, Kubernetes, time and the pod.                                *)

Event == events < MaxEvents /\ events' = events + 1

Edit == /\ Event
        /\ fresh' = IF pc = "idle" THEN fresh ELSE "no"
        /\ UNCHANGED <<image, conditions, kube, monitoring, host, daemon, pc, toReady, toDb,
                       toDnfs, early, resuming, forgotten>>

EditStop ==
    /\ Edit
    /\ stop' = Other(stop)
    /\ stranded' = IF stop = "yes" /\ ready # "Stopped" THEN "yes" ELSE stranded
    /\ UNCHANGED <<mode, dnfs>>

EditMode ==
    /\ Edit
    /\ mode' = IF mode = "pause" THEN "none" ELSE "pause"
    /\ UNCHANGED <<stop, dnfs, stranded>>

EditDnfs ==
    /\ Edit
    /\ dnfs' = Other(dnfs)
    /\ stranded' = IF dnfs = dnfsEnabled THEN stranded ELSE "yes"
    /\ UNCHANGED <<stop, mode>>

\* Time passes while a condition keeps its reason.
TimePasses ==
    /\ Event
    /\ \/ ready = "CreateInProgress" /\ readyLate' = "yes" /\ UNCHANGED dbLate
       \/ dbReady \notin {"none", "CreateComplete"} /\ dbLate' = "yes" /\ UNCHANGED readyLate
    /\ UNCHANGED <<image, object, ready, dbReady, dnfsEnabled, kube, monitoring, host, daemon,
                   control, history>>

PodIsCreated ==
    /\ sts = "1" /\ pod = "none"
    /\ pod' = "init"
    /\ UNCHANGED <<image, object, conditions, sts, lb, svc, monitoring, host, daemon, control,
                   events,
                   history>>

\* Whatever runs in the pod or lies on its own file system is gone.
StopHost ==
    host' = [host EXCEPT !.db = "down", !.listener = "down", !.config = "unlinked", !.linked = "no"]
StopDaemon == createOp' = "none" /\ bootOp' = "none" /\ step' = "none"

\* The containers as the template has them: the volumes keep the database, the
\* Oracle home is that of the image.  The daemon answers and the pod is ready while
\* the start script still brings up a provisioned database.  In the container of an
\* unseeded image the proxy links the configuration files.
StartPod ==
    /\ pod' = "ready"
    /\ host' = [host EXCEPT !.db = "down", !.listener = "down", !.linked = "no",
                            !.config = IF image = "unseeded" THEN "linked" ELSE "unlinked"]
    /\ StopDaemon
    /\ script' = CASE host.provisioned = "no" -> "none"
                   [] image = "unseeded" -> "start"
                   [] OTHER -> "relink"
    /\ stranded' = IF pc \in StopSteps \cup DnfsSteps THEN stranded ELSE "no"

PodStarts ==
    /\ sts = "1" /\ pod = "init"
    /\ StartPod
    /\ UNCHANGED <<image, object, conditions, sts, lb, svc, monitoring, control, events, early,
                   resuming, forgotten>>

PodRestarts ==
    /\ pod = "ready" /\ Event
    /\ StartPod
    /\ forgotten' = IF pc = "launch" /\ bootOp # "none" THEN "yes" ELSE forgotten
    /\ UNCHANGED <<image, object, conditions, sts, lb, svc, monitoring, control, early, resuming>>

PodStops ==
    /\ sts = "0" /\ pod # "none"
    /\ pod' = "none" /\ StopHost /\ StopDaemon /\ script' = "none"
    /\ UNCHANGED <<image, object, conditions, sts, lb, svc, monitoring, control, events, history>>

LoadBalancerChanges ==
    /\ \/ lb = "pending" /\ lb' = "ready"
       \/ lb = "deleting" /\ lb' = "none"
    /\ UNCHANGED <<image, object, conditions, sts, pod, svc, monitoring, host, daemon, control,
                   events, history>>

\* The daemon keeps a finished operation only for its time to live.
OperationExpires ==
    /\ Event
    /\ \/ createOp \in {"done", "failed"} /\ createOp' = "none" /\ UNCHANGED bootOp
       \/ bootOp \in {"done", "failed"} /\ bootOp' = "none" /\ UNCHANGED createOp
    /\ forgotten' = IF pc = "launch" /\ bootOp # bootOp' THEN "yes" ELSE forgotten
    /\ UNCHANGED <<image, object, conditions, kube, monitoring, host, step, script, control, early,
                   resuming, stranded>>

-----------------------------------------------------------------------------
(* The CreateCDB operation and the bootstrap task.                         *)

\* What the pod does to the database by itself.
InPod == UNCHANGED <<image, object, conditions, kube, monitoring, fresh, toReady, toDb, toDnfs,
                     early, resuming, forgotten>>

\* dbca either refuses files that are there or starts over.
createCDB ==
    /\ createOp = "started"
    /\ \/ host' = [host EXCEPT !.data = "partial", !.config = "unlinked"] /\ createOp' = "running"
       \/ host.data # "none" /\ createOp' = "failed" /\ host' = [host EXCEPT !.config = "unlinked"]
    /\ InPod /\ UNCHANGED <<bootOp, step, script, pc, events, stranded>>

\* dbca leaves the database open.  Its configuration is then moved and linked.
ProxyRunDbca ==
    /\ createOp = "running"
    /\ \/ /\ host' = [host EXCEPT !.data = "created", !.db = "open", !.config = "linked"]
          /\ createOp' = "created" /\ UNCHANGED events
       \/ /\ Event
          /\ createOp' = "failed"
          /\ \/ UNCHANGED host
             \/ host' = [host EXCEPT !.data = "created", !.db = "open"]
    /\ InPod /\ UNCHANGED <<bootOp, step, script, pc, stranded>>

shutdownDatabase(h) == [h EXCEPT !.db = "down"]

CreateCDBEnds ==
    /\ createOp = "created"
    /\ \/ host' = shutdownDatabase(host) /\ createOp' = "done" /\ UNCHANGED events
       \/ Event /\ createOp' = "failed" /\ UNCHANGED host
    /\ InPod /\ UNCHANGED <<bootOp, step, script, pc, stranded>>

NextStep ==
    LET tasks == SubTasks[image]
        n == CHOOSE i \in 1..Len(tasks) : tasks[i] = step
    IN  IF n = Len(tasks) THEN "none" ELSE tasks[n + 1]

FirstStep == SubTasks[image][1]

\* The task ends with an error: an operation of the daemon keeps it, a task that
\* the reconcile runs itself ends the reconcile.
TaskError ==
    /\ step' = "none"
    /\ IF image = "unseeded" THEN pc' = "commit" /\ UNCHANGED bootOp
                             ELSE bootOp' = "failed" /\ UNCHANGED pc

\* A start has three stages and a failure leaves what was reached.
HalfStarted(h) ==
    {h} \cup {[h EXCEPT !.db = m] : m \in {n \in {"nomount", "mounted"} : h.db = "down"}}
HalfStopped(h) ==
    {h} \cup {[h EXCEPT !.db = m] : m \in {n \in {"nomount", "mounted"} : h.db = "open"}}
HalfMade(users) == IF users = "none" /\ host.db = "open" THEN {"none", "bare"} ELSE {users}

\* A subtask fails, and what it had done by then stays.
TaskFails ==
    /\ step # "none"
    /\ Event
    /\ TaskError
    /\ host' \in CASE step \in {"start", "mount", "nidmount", "rename", "reopen"} -> HalfStarted(host)
                   [] step = "prep" -> {host, [host EXCEPT !.db = "open"]}
                   [] step = "move" -> {host, [host EXCEPT !.data = "partial"]}
                   [] step = "users" -> {[host EXCEPT !.users = u] : u \in HalfMade(host.users)}
                   [] OTHER -> {host}
    /\ InPod /\ UNCHANGED <<createOp, script, stranded>>

\* doSubTasks: a subtask that can be done leaves the host as given.
Run(s, possible, newHost) ==
    /\ step = s
    /\ IF possible THEN host' = newHost /\ step' = NextStep /\ UNCHANGED <<pc, bootOp>>
                   ELSE TaskError /\ UNCHANGED host
    /\ InPod /\ UNCHANGED <<createOp, script, events, stranded>>

\* A start is refused if the database is up.
startupDatabase(s, to) ==
    Run(s, host.db = "down" /\ host.config = "linked", [host EXCEPT !.db = to])

\* The name and the id of a mounted database are changed; that ends it.
NID(s) == Run(s, host.db = "mounted", shutdownDatabase(host))

\* The database of the image gets the name of the Instance while it is still there.
renameDatabase ==
    \/ Run("rename", host.db = "down", [host EXCEPT !.db = "mounted"])
    \/ NID("renamenid")
    \/ Run("reopen", host.db = "down", [host EXCEPT !.db = "open"])
    \/ Run("close", TRUE, shutdownDatabase(host))

\* The files of the image are copied to the volumes, and removed from the image.
moveDataFiles == Run("move", TRUE, [host EXCEPT !.data = "partial"])

\* The configuration is moved too, and linked from where Oracle looks for it.
moveConfigFiles == Run("config", TRUE, [host EXCEPT !.config = "linked"])

setParameters == startupDatabase("start", "nomount")

\* The parameters get into the spfile; the database of a seeded image is then
\* brought back to nomount.
setParametersHelper ==
    Run("set", host.db = "nomount",
        [host EXCEPT !.db = IF image = "unseeded" THEN "down" ELSE "nomount"])

\* A new control file for the files in their new place.
moveDatabase ==
    Run("controlfile", host.db = "nomount", [host EXCEPT !.data = "created", !.db = "down"])

runNID == startupDatabase("nidmount", "mounted") \/ NID("nid")

prepDatabase ==
    \/ startupDatabase("mount", "mounted")
    \/ Run("prep", host.db = "mounted", [host EXCEPT !.db = "open"])

\* A user that exists is passed over, with or without its grants.
setupUsers ==
    Run("users", host.db = "open",
        [host EXCEPT !.users = IF host.users = "none" THEN "granted" ELSE host.users])

\* The listener is made for the PDBs that the database lists, so it must be open.
\* One that runs is stopped first.
CreateListener == Run("listener", host.db = "open", [host EXCEPT !.listener = "up"])

createPDBSeedTemp == Run("seed", host.db = "open", host)

\* The file that tells a provisioned database is created last.
MarkProvisioned ==
    /\ step = "mark"
    /\ host' = [host EXCEPT !.provisioned = "yes"] /\ step' = "none"
    /\ IF image = "unseeded"
       THEN pc' = "commit" /\ toDb' = "ReconcileServices" /\ UNCHANGED bootOp
       ELSE bootOp' = "done" /\ UNCHANGED <<pc, toDb>>
    /\ UNCHANGED <<image, object, conditions, kube, monitoring, createOp, script, fresh, toReady,
                   toDnfs, events, history>>

-----------------------------------------------------------------------------
(* The start script of a pod with a provisioned database.                  *)

Script(s, newHost, next) ==
    /\ script = s
    /\ host' = newHost /\ script' = next
    /\ InPod /\ UNCHANGED <<createOp, bootOp, step, pc, events>>

\* Its error is logged, and nothing repeats it.
ScriptEnds(s) == Script(s, host, "none") /\ stranded' = "yes"

relinkConfigFiles == Script("relink", [host EXCEPT !.config = "linked"], "start") /\ UNCHANGED stranded

startDB ==
    /\ image # "unseeded"
    /\ \/ /\ host.db = "down" /\ host.config = "linked"
          /\ Script("start", [host EXCEPT !.db = "open"], "listener") /\ UNCHANGED stranded
       \/ host.db # "down" /\ ScriptEnds("start")

initListeners ==
    /\ image # "unseeded"
    /\ \/ /\ host.db = "open"
          /\ Script("listener", [host EXCEPT !.listener = "up"], "seed") /\ UNCHANGED stranded
       \/ host.db # "open" /\ ScriptEnds("listener")

\* The temporary file of the seed PDB was made by the bootstrap.
SeedTemp ==
    /\ image # "unseeded"
    /\ \/ host.db = "open" /\ Script("seed", host, "none") /\ UNCHANGED stranded
       \/ host.db # "open" /\ ScriptEnds("seed")

\* In the container of an unseeded image each step is tried, whatever became of
\* the one before.
reinitUnseededHost ==
    /\ image = "unseeded"
    /\ \/ /\ host.db = "down" /\ host.config = "linked"
          /\ Script("start", [host EXCEPT !.db = "open"], "listener") /\ UNCHANGED stranded
       \/ host.db # "down" /\ Script("start", host, "listener") /\ UNCHANGED stranded
       \/ Script("listener", [host EXCEPT !.listener = "up"], "none") /\ UNCHANGED stranded

ScriptFails ==
    /\ script # "none"
    /\ Event
    /\ host' \in IF script = "start" THEN HalfStarted(host) ELSE {host}
    /\ script' = IF image = "unseeded" /\ script = "start" THEN "listener" ELSE "none"
    /\ stranded' = "yes"
    /\ InPod /\ UNCHANGED <<createOp, bootOp, step, pc>>

-----------------------------------------------------------------------------
(* The frame of a reconcile.                                               *)

IsTrue(r) == r \in {"CreateComplete", "Stopped"}
Reachable == svc = "present" /\ pod = "ready"

Goto(p) == pc' = p /\ UNCHANGED <<fresh, toReady, toDb, toDnfs>>
ToIdle == pc' = "idle" /\ fresh' = "yes" /\ toReady' = "none" /\ toDb' = "none" /\ toDnfs' = "no"

\* One replica; a StatefulSet that is there gets it back.
createStatefulSet == sts' = "1"
createDBLoadBalancer == lb' = IF lb = "none" THEN "pending" ELSE lb
createDataplaneServices == svc' = "present"

\* They are made in this order; a failure leaves the first ones.
SomeResources ==
    \/ UNCHANGED kube
    \/ pc = "sts" /\ createStatefulSet /\ UNCHANGED <<pod, lb, svc>>
    \/ pc = "sts" /\ createStatefulSet /\ createDBLoadBalancer /\ UNCHANGED <<pod, svc>>

\* A call fails, and what it had done by then stays; the status is written all the
\* same.
CallFails ==
    /\ pc \in Calls \ {"boot"}
    /\ Event
    /\ IF pc \in StopSteps THEN ToIdle ELSE Goto("commit")
    /\ host' \in CASE pc = "dnfs_up" -> HalfStarted(host)
                   [] pc = "dnfs_down" -> HalfStopped(host)
                   [] pc = "user" -> {[host EXCEPT !.monitorUser = u] : u \in HalfMade(host.monitorUser)}
                   [] OTHER -> {host}
    /\ SomeResources
    /\ UNCHANGED <<image, object, conditions, monitoring, daemon, history>>

\* The operator ends or the three minutes of a reconcile pass: the status is not
\* written, and a task that the reconcile runs stops.
CutShort ==
    /\ pc # "idle"
    /\ Event
    /\ ToIdle
    /\ step' = IF pc = "boot" THEN "none" ELSE step
    /\ SomeResources
    /\ UNCHANGED <<image, object, conditions, monitoring, host, createOp, bootOp, script, history>>

\* The deferred update of the status.  A new reason starts its time-out anew.
updateStatus ==
    /\ pc = "commit"
    /\ IF fresh = "yes"
       THEN /\ ready' = toReady /\ dbReady' = toDb /\ dnfsEnabled' = toDnfs
            /\ readyLate' = IF ready = toReady THEN readyLate ELSE "no"
            /\ dbLate' = IF dbReady = toDb THEN dbLate ELSE "no"
            /\ resuming' = IF toReady = "Stopped" THEN resuming ELSE "no"
       ELSE UNCHANGED <<conditions, resuming>>
    /\ ToIdle
    /\ UNCHANGED <<image, object, kube, monitoring, host, daemon, events, early, forgotten,
                   stranded>>

-----------------------------------------------------------------------------
(* Stopping.                                                               *)

\* The condition is saved at once; if that fails it is only logged.
reconcileInstanceStop ==
    /\ pc = "idle" /\ stop = "yes" /\ ready # "Stopped"
    /\ \/ ready' = "Stopping" /\ readyLate' = "no" /\ UNCHANGED events
       \/ Event /\ UNCHANGED <<ready, readyLate>>
    /\ Goto("stop_sts")
    /\ UNCHANGED <<image, object, dbReady, dbLate, dnfsEnabled, kube, monitoring, host, daemon,
                   history>>

stopDBStatefulset ==
    /\ pc = "stop_sts"
    /\ IF sts = "none" THEN ToIdle /\ UNCHANGED sts
                       ELSE sts' = "0" /\ Goto("stop_monitoring")
    /\ UNCHANGED <<image, object, conditions, pod, lb, svc, monitoring, host, daemon, events,
                   history>>

\* The deployment is made with the given replicas if its secret is there.
createMonitoringDeployment(replicas) == secret = "yes" /\ monitor' = replicas

stopMonitoringDeployment ==
    /\ pc = "stop_monitoring"
    /\ \/ createMonitoringDeployment("0") /\ Goto("stop_services")
       \/ secret = "no" /\ ToIdle /\ UNCHANGED monitor
    /\ UNCHANGED <<image, object, conditions, kube, secret, host, daemon, events, history>>

deleteServices ==
    /\ pc = "stop_services"
    /\ lb' = IF lb = "none" THEN "none" ELSE "deleting"
    /\ svc' = "none"
    /\ Goto("stop_check")
    /\ UNCHANGED <<image, object, conditions, sts, pod, monitoring, host, daemon, events, history>>

InstanceStopped_NoWait ==
    /\ pc = "stop_check"
    /\ ToIdle
    /\ ready' = "Stopped" /\ readyLate' = "no"
    /\ early' = IF dbReady = "CreateComplete" THEN early ELSE "yes"
    /\ UNCHANGED <<image, object, dbReady, dbLate, dnfsEnabled, kube, monitoring, host, daemon,
                   events,
                   resuming, forgotten, stranded>>

\* The Instance is read again before it is declared stopped.
InstanceStopped ==
    /\ pc = "stop_check"
    /\ ToIdle
    /\ IF lb # "none" THEN UNCHANGED <<ready, readyLate, early>>
                      ELSE /\ ready' = "Stopped" /\ readyLate' = "no"
                           /\ early' = IF dbReady = "CreateComplete" THEN early ELSE "yes"
    /\ UNCHANGED <<image, object, dbReady, dbLate, dnfsEnabled, kube, monitoring, host, daemon,
                   events,
                   resuming, forgotten, stranded>>

-----------------------------------------------------------------------------
(* The main loop.                                                          *)

Begins == pc = "idle" /\ (stop = "no" \/ ready = "Stopped")

\* A stopped Instance that is to run again is taken for one in creation.
Restarting == IF stop = "no" /\ ready = "Stopped" THEN "CreateInProgress" ELSE ready

Pausing == mode = "pause" /\ Restarting = "CreateComplete" /\ dbReady # "none"

Pause ==
    /\ Begins /\ Pausing
    /\ pc' = "commit" /\ toReady' = "Pause" /\ toDb' = dbReady /\ toDnfs' = dnfsEnabled /\ fresh' = "yes"
    /\ UNCHANGED <<image, object, conditions, kube, monitoring, host, daemon, events, history>>

Provisioned == IsTrue(Restarting) /\ dbReady = "CreateComplete"

\* An Instance that is ready gets its dNFS setting and its monitoring reconciled.
Reconcile ==
    /\ Begins /\ ~Pausing
    /\ toReady' = Restarting /\ toDb' = dbReady /\ toDnfs' = dnfsEnabled /\ fresh' = "yes"
    /\ pc' = CASE Provisioned /\ dnfs # dnfsEnabled -> "dnfs"
               [] Provisioned /\ dnfs = dnfsEnabled -> "secret"
               [] OTHER -> "sts"
    /\ resuming' = IF Restarting # ready THEN "yes" ELSE resuming
    /\ UNCHANGED <<image, object, conditions, kube, monitoring, host, daemon, events, early,
                   forgotten,
                   stranded>>

\* setDnfs: the other dNFS library is linked, and the database restarted with it.
SetDnfsState ==
    /\ pc = "dnfs"
    /\ IF Reachable THEN host' = [host EXCEPT !.linked = Other(dnfsEnabled)] /\ Goto("dnfs_down")
                    ELSE Goto("commit") /\ UNCHANGED host
    /\ UNCHANGED <<image, object, conditions, kube, monitoring, daemon, events, history>>

ShutdownForDnfs ==
    /\ pc = "dnfs_down"
    /\ IF Reachable THEN host' = shutdownDatabase(host) /\ Goto("dnfs_up")
                    ELSE Goto("commit") /\ UNCHANGED host
    /\ UNCHANGED <<image, object, conditions, kube, monitoring, daemon, events, history>>

StartupForDnfs_ErrorIgnored ==
    /\ pc = "dnfs_up"
    /\ pc' = "secret" /\ toDnfs' = Other(dnfsEnabled) /\ UNCHANGED <<fresh, toReady, toDb>>
    /\ \/ UNCHANGED host
       \/ Reachable /\ host.db = "down" /\ host.config = "linked" /\ host' = [host EXCEPT !.db = "open"]
    /\ UNCHANGED <<image, object, conditions, kube, monitoring, daemon, events, history>>

\* The setting is recorded when the database has come up.
StartupForDnfs ==
    /\ pc = "dnfs_up"
    /\ IF Reachable /\ host.db = "down" /\ host.config = "linked"
       THEN /\ host' = [host EXCEPT !.db = "open"]
            /\ pc' = "secret" /\ toDnfs' = Other(dnfsEnabled) /\ UNCHANGED <<fresh, toReady, toDb>>
       ELSE Goto("commit") /\ UNCHANGED host
    /\ UNCHANGED <<image, object, conditions, kube, monitoring, daemon, events, history>>

CreateResources ==
    /\ pc = "sts"
    /\ createStatefulSet /\ createDBLoadBalancer /\ createDataplaneServices /\ UNCHANGED pod
    /\ Goto("progress")
    /\ UNCHANGED <<image, object, conditions, monitoring, host, daemon, events, history>>

\* In per cent: the StatefulSet is there, it has its replica, its containers are ready.
statusProgress ==
    CASE sts = "none" -> 0
      [] sts = "0" \/ pod = "none" -> 10
      [] pod = "init" -> 50
      [] OTHER -> 100

\* The Instance is created when its pod is ready and its load balancer has an
\* address; then the database in it is looked after.
updateProgressCondition ==
    /\ pc = "progress"
    /\ LET r == IF toReady = "none" THEN "CreateInProgress" ELSE toReady
           late == ready = r /\ readyLate = "yes"
       IN  /\ toReady' = IF r = "CreateInProgress" /\ ~late /\ statusProgress = 100 /\ lb = "ready"
                         THEN "CreateComplete" ELSE r
           /\ pc' = IF IsTrue(r) THEN "db" ELSE "commit"
    /\ UNCHANGED <<fresh, toDb, toDnfs>>
    /\ UNCHANGED <<image, object, conditions, kube, monitoring, host, daemon, events, history>>

-----------------------------------------------------------------------------
(* reconcileDatabaseInstance.                                              *)

SetDb(r) == toDb' = r /\ pc' = "commit" /\ UNCHANGED <<fresh, toReady, toDnfs>>

isImageSeeded == image # "unseeded"

\* At its start it asks the pod for the kind of the image.
InDb(r) == pc = "db" /\ Reachable /\ dbReady = r /\ dbLate = "no"

\* The daemon cannot be reached, the time is over or there is nothing to do.
NothingToDo ==
    /\ pc = "db"
    /\ ~Reachable \/ dbLate = "yes" \/ dbReady = "CreateFailed"
    /\ Goto("commit")
    /\ UNCHANGED <<image, object, conditions, kube, monitoring, host, daemon, events, history>>

SetPending ==
    /\ InDb("none")
    /\ SetDb(IF isImageSeeded THEN "BootstrapPending" ELSE "CreatePending")
    /\ UNCHANGED <<image, object, conditions, kube, monitoring, host, daemon, events, history>>

CreateCDB_ExistsIsError ==
    /\ InDb("CreatePending")
    /\ IF createOp = "none" THEN createOp' = "started" /\ SetDb("CreateInProgress")
                            ELSE UNCHANGED createOp /\ Goto("commit")
    /\ UNCHANGED <<image, object, conditions, kube, monitoring, host, bootOp, step, script, events,
                   history>>

\* AlreadyExists is taken for success.
CreateCDB ==
    /\ InDb("CreatePending")
    /\ createOp' = IF createOp = "none" THEN "started" ELSE createOp
    /\ SetDb("CreateInProgress")
    /\ UNCHANGED <<image, object, conditions, kube, monitoring, host, bootOp, step, script, events,
                   history>>

AfterOperation_ErrorIgnored(op, next) ==
    CASE op \in {"done", "failed"} -> SetDb(next)
      [] OTHER -> Goto("commit")

\* IsLROOperationDone: an operation that the daemon does not know is not done.
AfterOperation(op, next) ==
    CASE op = "done" -> SetDb(next)
      [] op = "failed" -> SetDb("CreateFailed")
      [] OTHER -> Goto("commit")

PollCreateCDB ==
    /\ InDb("CreateInProgress")
    /\ AfterOperation(createOp, "BootstrapPending")
    /\ UNCHANGED <<image, object, conditions, kube, monitoring, host, daemon, events, history>>

BootstrapDatabase_NoCheck ==
    /\ InDb("BootstrapPending")
    /\ CASE image = "unseeded" -> Goto("boot") /\ step' = FirstStep
         [] OTHER -> Goto("launch") /\ UNCHANGED step
    /\ UNCHANGED <<image, object, conditions, kube, monitoring, host, createOp, bootOp, script,
                   events,
                   history>>

\* Nothing is done to a database that is provisioned.  An unseeded one is
\* bootstrapped by the reconcile, a seeded one by an operation of the daemon.
BootstrapDatabase ==
    /\ InDb("BootstrapPending")
    /\ CASE host.provisioned = "yes" -> SetDb("ReconcileServices") /\ UNCHANGED step
         [] host.provisioned = "no" /\ ~isImageSeeded -> Goto("boot") /\ step' = FirstStep
         [] OTHER -> Goto("launch") /\ UNCHANGED step
    /\ UNCHANGED <<image, object, conditions, kube, monitoring, host, createOp, bootOp, script,
                   events,
                   history>>

BootstrapDatabaseAsync ==
    /\ pc = "launch"
    /\ IF ~Reachable THEN Goto("commit") /\ UNCHANGED <<bootOp, step>>
                     ELSE /\ SetDb("BootstrapInProgress")
                          /\ IF bootOp = "none" THEN bootOp' = "running" /\ step' = FirstStep
                                                ELSE UNCHANGED <<bootOp, step>>
    /\ UNCHANGED <<image, object, conditions, kube, monitoring, host, createOp, script, events,
                   history>>

\* The pod has gone away under a task that the reconcile runs.
BootstrapLost ==
    /\ pc = "boot" /\ step = "none"
    /\ Goto("commit")
    /\ UNCHANGED <<image, object, conditions, kube, monitoring, host, daemon, events, history>>

PollBootstrapDatabase ==
    /\ InDb("BootstrapInProgress")
    /\ AfterOperation(bootOp, "ReconcileServices")
    /\ UNCHANGED <<image, object, conditions, kube, monitoring, host, daemon, events, history>>

ReconcileServices ==
    /\ InDb("ReconcileServices")
    /\ Goto("secret")
    /\ UNCHANGED <<image, object, conditions, kube, monitoring, host, daemon, events, history>>

\* reconcileMonitoring: the secret first; the reconcile ends if it was new.
MonitoringSecret ==
    /\ pc = "secret"
    /\ secret' = "yes"
    /\ Goto(IF secret = "no" THEN "commit" ELSE "user")
    /\ UNCHANGED <<image, object, conditions, kube, monitor, host, daemon, events, history>>

\* The monitoring user is made if the database is open and has none of that name.
\* The deployment comes after it in any case, and the database is ready if no error
\* came up.
MonitoringUser ==
    /\ pc = "user"
    /\ IF Reachable THEN createMonitoringDeployment("1") ELSE UNCHANGED monitor
    /\ IF Reachable /\ host.db = "open"
       THEN /\ host' = [host EXCEPT !.monitorUser = IF @ = "none" THEN "granted" ELSE @]
            /\ SetDb("CreateComplete")
       ELSE Goto("commit") /\ UNCHANGED host
    /\ UNCHANGED <<image, object, conditions, kube, secret, daemon, events, history>>

-----------------------------------------------------------------------------
Stopping == \/ reconcileInstanceStop \/ stopDBStatefulset \/ stopMonitoringDeployment
            \/ deleteServices \/ InstanceStopped
setDnfs == SetDnfsState \/ ShutdownForDnfs \/ StartupForDnfs
Provisioning ==
    \/ SetPending \/ CreateCDB \/ PollCreateCDB \/ BootstrapDatabase \/ BootstrapDatabaseAsync
    \/ BootstrapLost \/ PollBootstrapDatabase \/ ReconcileServices \/ MonitoringSecret
    \/ MonitoringUser \/ NothingToDo
Reconciling ==
    \/ Stopping \/ Pause \/ Reconcile \/ setDnfs \/ CreateResources \/ updateProgressCondition
    \/ Provisioning \/ updateStatus
SubTask == \/ renameDatabase \/ moveDataFiles \/ moveConfigFiles \/ setParameters
           \/ setParametersHelper \/ moveDatabase \/ runNID \/ prepDatabase \/ setupUsers
           \/ CreateListener \/ createPDBSeedTemp
Task == SubTask \/ MarkProvisioned
Dbca == createCDB \/ ProxyRunDbca \/ CreateCDBEnds
StartScript == \/ relinkConfigFiles \/ startDB \/ initListeners \/ SeedTemp \/ reinitUnseededHost
Kubernetes == PodIsCreated \/ PodStarts \/ PodStops

Next ==
    \/ EditStop \/ EditMode \/ EditDnfs \/ TimePasses \/ PodRestarts \/ OperationExpires
    \/ CallFails \/ CutShort \/ TaskFails \/ ScriptFails
    \/ Kubernetes \/ LoadBalancerChanges \/ Task \/ Dbca \/ StartScript \/ Reconciling

Spec == Init /\ [][Next]_vars

\* A reconcile that has begun goes on and is repeated; Kubernetes, the tasks, dbca
\* and the start script get on with their work.
FairSpec == /\ Spec
            /\ WF_vars(Reconciling) /\ WF_vars(Task) /\ WF_vars(Dbca) /\ WF_vars(StartScript)
            /\ WF_vars(Kubernetes) /\ WF_vars(LoadBalancerChanges)

-----------------------------------------------------------------------------
(* Properties.                                                             *)

\* A database that is reported ready was created and bootstrapped to the end,
\* also when an operation was started twice, failed or was forgotten.  (The case
\* that NothingIsOverwritten leaves out is left out here too.)
ReadyMeansProvisioned ==
    dbReady = "CreateComplete" /\ forgotten = "no" =>
        /\ host.provisioned = "yes" /\ host.data = "created" /\ secret = "yes"
        /\ host.users # "none" /\ host.monitorUser # "none"

\* The files of a provisioned database are never made again: not by a bootstrap
\* whose result was lost, and not by dbca.  (Unless the daemon forgets an
\* operation between the question for the provisioning file and the launch.)
NothingIsOverwritten ==
    [][host.provisioned = "yes" /\ forgotten = "no" =>
           host'.data = host.data /\ step' \notin {"rename", "move"}]_vars

\* An Instance that is stopped stays down: no reconcile brings its pod, its
\* services or its monitoring up.  Two ways around are left out: the stop of an
\* Instance that was not provisioned, and a restart whose status was not saved.
StoppedIsDown ==
    ready = "Stopped" /\ early = "no" /\ resuming = "no" =>
        sts = "0" /\ lb = "none" /\ svc = "none" /\ monitor = "0"

\* The result of an operation can no longer be learnt.
Lost == \/ dbReady = "CreateInProgress" /\ createOp = "none"
        \/ dbReady = "BootstrapInProgress" /\ bootOp = "none"

\* A bootstrap that was interrupted has left the database up; it is not repeated.
Torn == pc = "idle" /\ dbReady = "BootstrapPending" /\ host.provisioned = "no" /\ host.db # "down"

\* Provisioning ends, with success or a failure that is reported, unless it takes
\* too long, the Instance is stopped or paused before, the daemon forgets an
\* operation, an unseeded bootstrap is interrupted, or the pod restarts and its start
\* script fails.
ProvisioningEnds ==
    TRUE ~> \/ dbReady \in {"CreateComplete", "CreateFailed"}
            \/ readyLate = "yes" \/ dbLate = "yes"
            \/ ready \in {"Stopping", "Stopped", "Pause"}
            \/ Lost \/ Torn \/ stranded = "yes"

Serving == pod = "ready" /\ host.db = "open" /\ host.listener = "up"

\* The database of a provisioned Instance follows spec.isStopped: a stop ends, and
\* otherwise the database is up again after whatever took it down: the stop, a
\* restart of its pod, or a change of dNFS whose restart of the database failed
\* half-way.  Left out are an Instance that was paused, a restart that took too long,
\* and what nothing repeats: an error of the start script, and a stop or a change of
\* enableDnfs that was taken back on its way.
DatabaseFollowsSpec ==
    /\ stop = "yes" /\ dbReady = "CreateComplete" ~> ready = "Stopped" \/ stop = "no"
    /\ stop = "no" /\ dbReady = "CreateComplete" /\ forgotten = "no" ~>
           \/ Serving \/ stop = "yes" \/ ready \in {"Stopping", "Pause"} \/ readyLate = "yes"
           \/ stranded = "yes" \/ forgotten = "yes"
=============================================================================
