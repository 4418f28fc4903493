------------------------- MODULE StandbyController -------------------------
(***************************************************************************)
(* Migration of a database to El Carro through a Data Guard standby: the   *)
(* part of the Instance controller that creates the standby from an        *)
(* external primary, keeps Data Guard running, promotes the standby when   *)
(* spec.replicationSettings is removed and bootstraps it; and the way      *)
(* through spec.mode ManuallySetUpStandby, in which the owner does the     *)
(* first three by hand.                                                    *)
(*                                                                         *)
(* A reconcile reads the Instance, runs the tasks of the standby agent one *)
(* by one and ends with one write of the status, which is refused if the   *)
(* Instance has changed in between.  Every call can fail and the reconcile *)
(* can end between any two of them.  A step of the state machine that      *)
(* calls no one is one action, since its read and its write cannot be      *)
(* separated by a change of the Instance.                                  *)
(***************************************************************************)
EXTENDS Naturals

CONSTANTS
    Settings,       \* values of spec.replicationSettings: ways to the primary
    Hosts,          \* addresses of the load balancer of the Instance
    MaxEdits,       \* changes of the Instance and of its address
    MaxFailures,    \* calls that fail and reconciles that are cut short
    MaxRestarts     \* of the database pod or of the daemon in it

ASSUME StandbyAssumption ==
    /\ "none" \notin Settings /\ "none" \notin Hosts
    /\ MaxEdits \in Nat /\ MaxFailures \in Nat /\ MaxRestarts \in Nat

VARIABLES
    spec,           \* spec.replicationSettings
    mode,           \* spec.mode: manual for ManuallySetUpStandby
    ready,          \* reason of the Ready condition, True in CreateComplete
    dbReady,        \* whether DatabaseInstanceReady is True
    standbyReady,   \* the StandbyReady condition of the manual way
    reason,         \* reason of the StandbyDRReady condition
    current,        \* status.currentReplicationSettings
    host,           \* address of the load balancer
    db,             \* the database in the pod: down, nomount, mounted or open
    role,           \* its data: none, a standby or a primary
    listener,       \* none, standby (without the PDBs) or full
    broker,         \* dg_broker_start
    spfile, users, provisioned, pdbs, databases, \* what bootstrap brings about
    lro,            \* the CreateStandby operation in the daemon
    config,         \* Data Guard configuration of the primary: none, ours or foreign
    member,         \* whether it has the standby as a member
    dgHost,         \* connect identifier of the standby in it
    dgPrimary,      \* connect identifier of the primary in it
    pc,             \* where the reconcile is
    seen,           \* spec as it has read it
    seenHost,
    fresh,          \* the Instance has not changed since
    toReason,       \* the status it is about to write
    toCurrent,
    edits, failures, restarts,
    misread,        \* history: a call to exists failed and was taken for a no
    readded         \* history: settings came back after a promotion had begun

object == <<spec, mode>>
conditions == <<ready, dbReady, standbyReady, reason, current>>
pod == <<db, role, listener, broker>>
bootstrap == <<spfile, users, provisioned, pdbs, databases>>
primary == <<config, member, dgHost, dgPrimary>>
control == <<pc, seen, seenHost, fresh, toReason, toCurrent>>
history == <<misread, readded>>
vars == <<object, conditions, host, pod, bootstrap, lro, primary, control,
          edits, failures, restarts, history>>

Reasons == {"none", "VerifyFailed", "VerifyCompleted", "CreateInProgress", "CreateFailed",
            "CreateCompleted", "SetUpDataGuardFailed", "SetUpDataGuardCompleted",
            "DataGuardReplicationInProgress", "PromoteFailed", "PromoteCompleted",
            "BootstrapFailed", "BootstrapCompleted"}
CreateSteps == {"prepare", "nomount", "bounce", "listener", "clone"}
DataGuardSteps == {"dg_listener", "dg_database", "dg_broker", "dg_exists", "dg_standby",
                   "dg_primary"}
PromoteSteps == {"remove", "disabled", "activate", "open"}
BootstrapSteps == {"boot_listener", "boot_spfile", "boot_users", "boot_done", "boot_pdbs",
                   "boot_databases"}
YesNo == {"no", "yes"}

TypeOK ==
    /\ spec \in Settings \cup {"none"} /\ mode \in {"none", "manual"}
    /\ ready \in {"CreateComplete", "StandbyDRInProgress", "ManuallySetUpStandbyInProgress"}
    /\ dbReady \in YesNo /\ standbyReady \in {"none", "True", "False"}
    /\ reason \in Reasons /\ current \in Settings \cup {"none"} /\ host \in Hosts
    /\ db \in {"down", "nomount", "mounted", "open"} /\ role \in {"none", "standby", "primary"}
    /\ listener \in {"none", "standby", "full"} /\ broker \in {"off", "on"}
    /\ spfile \in YesNo /\ users \in YesNo /\ provisioned \in YesNo
    /\ pdbs \in {"mounted", "open"} /\ databases \in YesNo
    /\ lro \in {"none", "running", "done", "failed"}
    /\ config \in {"none", "ours", "foreign"} /\ member \in YesNo
    /\ dgHost \in Hosts \cup {"none"} /\ dgPrimary \in Settings \cup {"none"}
    /\ pc \in CreateSteps \cup DataGuardSteps \cup PromoteSteps \cup BootstrapSteps
              \cup {"idle", "commit"}
    /\ seen \in Settings \cup {"none"} /\ seenHost \in Hosts \cup {"none"} /\ fresh \in YesNo
    /\ toReason \in Reasons \cup {"manual"} /\ toCurrent \in Settings \cup {"none"}
    /\ edits \in 0..MaxEdits /\ failures \in 0..MaxFailures /\ restarts \in 0..MaxRestarts
    /\ misread \in YesNo /\ readded \in YesNo

Init ==
    /\ \/ spec \in Settings /\ mode = "none"
       \/ spec = "none" /\ mode = "manual"
    /\ ready = "CreateComplete" /\ dbReady = "no" /\ standbyReady = "none"
    /\ reason = "none" /\ current = "none" /\ host \in Hosts
    /\ db = "down" /\ role = "none" /\ listener = "none" /\ broker = "off"
    /\ spfile = "no" /\ users = "no" /\ provisioned = "no" /\ pdbs = "mounted"
    /\ databases = "no" /\ lro = "none"
    /\ config \in {"none", "foreign"} /\ member = "no" /\ dgHost = "none"
    /\ IF config = "none" THEN dgPrimary = "none" ELSE dgPrimary \in Settings
    /\ pc = "idle" /\ seen = "none" /\ seenHost = "none" /\ fresh = "yes"
    /\ toReason = "none" /\ toCurrent = "none"
    /\ edits = 0 /\ failures = 0 /\ restarts = 0 /\ misread = "no" /\ readded = "no"

-----------------------------------------------------------------------------
(* The owner of the Instance, the network and the pod.                     *)

Promoting == pc \in PromoteSteps \/ role = "primary"
             \/ reason \in {"PromoteFailed", "PromoteCompleted", "BootstrapFailed",
                            "BootstrapCompleted"}

Edit == /\ edits < MaxEdits
        /\ edits' = edits + 1
        /\ fresh' = IF pc = "idle" THEN fresh ELSE "no"

\* The owner changes the settings, removes them once the migration has begun,
\* or puts them back.
EditSettings ==
    /\ Edit
    /\ reason # "none"
    /\ \E s \in (Settings \cup {"none"}) \ {spec} : spec' = s
    /\ readded' = IF spec = "none" /\ Promoting THEN "yes" ELSE readded
    /\ UNCHANGED <<mode, conditions, host, pod, bootstrap, lro, primary, pc, seen, seenHost,
                   toReason, toCurrent, failures, restarts, misread>>

\* The manual way: the owner builds the standby, promotes it and then removes
\* spec.mode; or removes it too early.
SetUpByHand ==
    /\ standbyReady = "True" /\ mode = "manual" /\ role # "primary"
    /\ \/ /\ role = "none" /\ role' = "standby" /\ db' = "mounted"
       \/ /\ role = "standby" /\ db = "mounted" /\ role' = "primary" /\ db' = "open"
    /\ UNCHANGED <<object, conditions, host, listener, broker, bootstrap, lro, primary, control,
                   edits, failures, restarts, history>>

EditMode ==
    /\ Edit
    /\ standbyReady # "none"
    /\ mode' = IF mode = "manual" THEN "none" ELSE "manual"
    /\ UNCHANGED <<spec, conditions, host, pod, bootstrap, lro, primary, pc, seen, seenHost,
                   toReason, toCurrent, failures, restarts, history>>

HostMoves ==
    /\ edits < MaxEdits /\ edits' = edits + 1
    /\ \E h \in Hosts \ {host} : host' = h
    /\ UNCHANGED <<object, conditions, pod, bootstrap, lro, primary, control, failures,
                   restarts, history>>

\* After a restart of the pod the start script brings the database up only if
\* the provisioning_done file is there, and the listener from the files that
\* bootstrap has written before that file.
RestartPod ==
    /\ restarts < MaxRestarts /\ restarts' = restarts + 1
    /\ IF provisioned = "yes" THEN /\ db' = "open" /\ pdbs' = "open"
                                   /\ listener' = "full"
                              ELSE /\ db' = "down" /\ pdbs' = "mounted"
                                   /\ listener' = "none"
    /\ lro' = "none"
    /\ UNCHANGED <<object, conditions, host, role, broker, spfile, users, provisioned, databases,
                   primary, control, edits, failures, history>>

\* Only the daemon restarts: it forgets its operations, the database stays up.
RestartDaemon ==
    /\ restarts < MaxRestarts /\ restarts' = restarts + 1
    /\ lro # "none" /\ lro' = "none"
    /\ UNCHANGED <<object, conditions, host, pod, bootstrap, primary, control, edits, failures,
                   history>>

-----------------------------------------------------------------------------
(* The frame of a reconcile.                                               *)

isStandbyDR_SettingsOnly == spec # "none"

isStandbyDR == spec # "none" \/ reason \notin {"none", "BootstrapCompleted"}

InStateMachine == pc = "idle" /\ ready = "StandbyDRInProgress" /\ isStandbyDR

CanFail == failures < MaxFailures /\ failures' = failures + 1

\* The status that is written when a task has failed; the manual way writes none.
OnError ==
    CASE pc \in CreateSteps -> "CreateFailed"
      [] pc \in DataGuardSteps -> IF reason = "DataGuardReplicationInProgress"
                                  THEN reason ELSE "SetUpDataGuardFailed"
      [] pc \in PromoteSteps -> "PromoteFailed"
      [] OTHER -> IF reason = "none" THEN "none" ELSE "BootstrapFailed"

getStandbyHost == seenHost' = host

\* A reconcile calls the agent, which begins with task p and goes by what the Instance
\* and its load balancer are now.
Start(p) ==
    /\ pc' = p
    /\ seen' = spec /\ getStandbyHost /\ fresh' = "yes"

Goto(p) == pc' = p /\ UNCHANGED <<seen, seenHost, fresh, toReason, toCurrent>>

Write(r) == pc' = "commit" /\ toReason' = r /\ UNCHANGED <<seen, seenHost, fresh, toCurrent>>

ToIdle ==
    /\ pc' = "idle" /\ seen' = "none" /\ seenHost' = "none" /\ fresh' = "yes"
    /\ toReason' = "none" /\ toCurrent' = "none"

\* The call at this step fails before it has any effect.
TaskFails ==
    /\ pc \notin {"idle", "commit"}
    /\ CanFail
    /\ Write(OnError)
    /\ UNCHANGED <<object, conditions, host, pod, bootstrap, lro, primary, edits, restarts,
                   history>>

\* The reconcile times out or the operator stops; the next one starts afresh.
CutShort ==
    /\ pc # "idle"
    /\ CanFail
    /\ ToIdle
    /\ UNCHANGED <<object, conditions, host, pod, bootstrap, lro, primary, edits, restarts,
                   history>>

\* The deferred update of the status.
updateStatus ==
    /\ pc = "commit" /\ fresh = "yes"
    /\ CASE toReason = "manual" -> /\ ready' = "CreateComplete" /\ dbReady' = "yes"
                                   /\ standbyReady' = "False"
                                   /\ UNCHANGED <<reason, current>>
         [] toReason = "BootstrapCompleted" -> /\ ready' = "CreateComplete" /\ dbReady' = "yes"
                                               /\ reason' = toReason /\ current' = toCurrent
                                               /\ UNCHANGED standbyReady
         [] OTHER -> /\ reason' = toReason /\ current' = toCurrent
                     /\ UNCHANGED <<ready, dbReady, standbyReady>>
    /\ ToIdle
    /\ UNCHANGED <<object, host, pod, bootstrap, lro, primary, edits, failures, restarts,
                   history>>

UpdateConflicts ==
    /\ pc = "commit" /\ fresh = "no"
    /\ ToIdle
    /\ UNCHANGED <<object, conditions, host, pod, bootstrap, lro, primary, edits, failures,
                   restarts, history>>

-----------------------------------------------------------------------------
(* The main loop of the Instance controller, once the pod runs.            *)

EnterStandbyDR ==
    /\ pc = "idle" /\ ready # "StandbyDRInProgress" /\ dbReady = "no"
    /\ isStandbyDR
    /\ ready' = "StandbyDRInProgress"
    /\ UNCHANGED <<object, dbReady, standbyReady, reason, current, host, pod, bootstrap, lro,
                   primary, control, edits, failures, restarts, history>>

EnterManual ==
    /\ pc = "idle" /\ dbReady = "no"
    /\ ~isStandbyDR /\ mode = "manual"
    /\ <<ready, standbyReady>> # <<"ManuallySetUpStandbyInProgress", "True">>
    /\ ready' = "ManuallySetUpStandbyInProgress" /\ standbyReady' = "True"
    /\ UNCHANGED <<object, dbReady, reason, current, host, pod, bootstrap, lro, primary, control,
                   edits, failures, restarts, history>>

PromoteManual ==
    /\ pc = "idle" /\ dbReady = "no"
    /\ ~isStandbyDR /\ mode = "none" /\ standbyReady = "True"
    /\ Start("boot_listener")
    /\ UNCHANGED <<toReason, toCurrent>>
    /\ UNCHANGED <<object, conditions, host, pod, bootstrap, lro, primary, edits, failures,
                   restarts, history>>

-----------------------------------------------------------------------------
(* Verification and creation of the standby.                               *)

VerifyFails ==
    /\ InStateMachine /\ reason \in {"none", "VerifyFailed"}
    /\ \/ spec = "none" /\ reason = "none" /\ UNCHANGED failures
       \/ CanFail
    /\ reason' = "VerifyFailed"
    /\ UNCHANGED <<object, ready, dbReady, standbyReady, current, host, pod, bootstrap, lro,
                   primary, control, edits, restarts, history>>

VerifyCompletes ==
    /\ InStateMachine /\ reason \in {"none", "VerifyFailed"}
    /\ spec # "none"
    /\ reason' = "VerifyCompleted"
    /\ UNCHANGED <<object, ready, dbReady, standbyReady, current, host, pod, bootstrap, lro,
                   primary, control, edits, failures, restarts, history>>

StartCreate ==
    /\ InStateMachine /\ reason = "VerifyCompleted"
    /\ current' = spec /\ reason' = "CreateInProgress"
    /\ UNCHANGED <<object, ready, dbReady, standbyReady, host, pod, bootstrap, lro, primary,
                   control, edits, failures, restarts, history>>

\* CreateStandby asks for the operation first and starts it only if the daemon
\* does not know it.
CreateStandby ==
    /\ InStateMachine /\ reason = "CreateInProgress" /\ spec # "none"
    /\ toCurrent' = spec
    /\ CASE lro = "none" -> Start("prepare") /\ UNCHANGED <<toReason, lro>>
         [] lro = "running" -> Start("commit") /\ toReason' = "CreateInProgress" /\ UNCHANGED lro
         [] lro = "done" -> Start("commit") /\ toReason' = "CreateCompleted" /\ UNCHANGED lro
         [] lro = "failed" -> Start("commit") /\ toReason' = "CreateFailed" /\ lro' = "none"
    /\ UNCHANGED <<object, conditions, host, pod, bootstrap, primary, edits, failures, restarts,
                   history>>

PollFails ==
    /\ InStateMachine /\ reason = "CreateInProgress" /\ spec # "none" /\ lro # "none"
    /\ CanFail
    /\ toCurrent' = spec /\ Start("commit") /\ toReason' = "CreateFailed"
    /\ UNCHANGED <<object, conditions, host, pod, bootstrap, lro, primary, edits, restarts,
                   history>>

\* Metadata of the primary, directories, password file and init.ora.
PrepareFiles ==
    /\ pc = "prepare"
    /\ Goto("nomount")
    /\ UNCHANGED <<object, conditions, host, pod, bootstrap, lro, primary, edits, failures,
                   restarts, history>>

\* The start is refused if an instance of the database runs already.
startupNomount ==
    /\ pc = "nomount"
    /\ IF db = "down" THEN db' = "nomount" /\ Goto("bounce")
                      ELSE UNCHANGED db /\ Write("CreateFailed")
    /\ UNCHANGED <<object, conditions, host, role, listener, broker, bootstrap, lro, primary,
                   edits, failures, restarts, history>>

\* The spfile is created and the database bounced to use it; the start may fail.
bounceDatabase ==
    /\ pc = "bounce"
    /\ spfile' = "yes"
    /\ IF db # "nomount"
       THEN UNCHANGED <<db, failures>> /\ Write("CreateFailed")
       ELSE \/ UNCHANGED <<db, failures>> /\ Goto("listener")
            \/ db' = "down" /\ CanFail /\ Write("CreateFailed")
    /\ UNCHANGED <<object, conditions, host, role, listener, broker, users, provisioned, pdbs,
                   databases, lro, primary, edits, restarts, history>>

setupListener ==
    /\ pc = "listener"
    /\ listener' = "standby" /\ Goto("clone")
    /\ UNCHANGED <<object, conditions, host, db, role, broker, bootstrap, lro, primary, edits,
                   failures, restarts, history>>

\* RMAN duplication is started as an operation of the daemon.
clonePrimary ==
    /\ pc = "clone"
    /\ lro' = "running" /\ Write("CreateInProgress")
    /\ UNCHANGED <<object, conditions, host, pod, bootstrap, primary, edits, failures, restarts,
                   history>>

CloneEnds ==
    /\ lro = "running"
    /\ \/ db = "nomount" /\ lro' = "done" /\ role' = "standby" /\ db' = "mounted"
          /\ UNCHANGED failures
       \/ db # "nomount" /\ lro' = "failed" /\ UNCHANGED <<role, db, failures>>
       \/ CanFail /\ lro' = "failed" /\ UNCHANGED <<role, db>>
    /\ UNCHANGED <<object, conditions, host, listener, broker, bootstrap, primary, control, edits,
                   restarts, history>>

-----------------------------------------------------------------------------
(* Data Guard.                                                             *)

reconcileDataGuard == Start("dg_listener") /\ UNCHANGED toReason

SetUpDataGuard ==
    /\ InStateMachine /\ spec # "none"
    /\ reason \in {"CreateCompleted", "SetUpDataGuardFailed", "DataGuardReplicationInProgress"}
    /\ reconcileDataGuard
    /\ toCurrent' = IF reason = "DataGuardReplicationInProgress" THEN current ELSE spec
    /\ UNCHANGED <<object, conditions, host, pod, bootstrap, lro, primary, edits, failures,
                   restarts, history>>

ensureListener ==
    /\ pc = "dg_listener"
    /\ listener' = IF listener = "none" THEN "standby" ELSE listener
    /\ Goto("dg_database")
    /\ UNCHANGED <<object, conditions, host, db, role, broker, bootstrap, lro, primary, edits,
                   failures, restarts, history>>

\* A database that is down is started and mounted as a standby.  The start is
\* refused if it is up without being mounted, the mount if it is no standby.
ensureDatabase ==
    /\ pc = "dg_database"
    /\ CASE db \in {"mounted", "open"} -> UNCHANGED <<db, failures>> /\ Goto("dg_broker")
         [] db = "nomount" -> UNCHANGED <<db, failures>> /\ Write(OnError)
         [] db = "down" -> \/ role = "standby" /\ db' = "mounted" /\ UNCHANGED failures
                              /\ Goto("dg_broker")
                           \/ role # "standby" /\ db' = "nomount" /\ UNCHANGED failures
                              /\ Write(OnError)
                           \/ db' = "nomount" /\ CanFail /\ Write(OnError)
    /\ UNCHANGED <<object, conditions, host, role, listener, broker, bootstrap, lro, primary,
                   edits, restarts, history>>

\* Standby logs are added if they can be, and the broker is enabled.
ensureDataGuardBrokerEnable ==
    /\ pc = "dg_broker"
    /\ IF db \in {"mounted", "open"} THEN broker' = "on" /\ Goto("dg_exists")
                                     ELSE UNCHANGED broker /\ Write(OnError)
    /\ UNCHANGED <<object, conditions, host, db, role, listener, bootstrap, lro, primary, edits,
                   failures, restarts, history>>

\* What "show configuration" would say; any error of the call counts as a no.
standbyHasConfig == broker = "on" /\ member = "yes" /\ db \in {"mounted", "open"}
primaryHasConfig == config # "none"

\* The standbys in the configuration; one that the operator has not made has its own.
members == (IF member = "yes" THEN {"standby"} ELSE {})
           \cup (IF config = "foreign" THEN {"other"} ELSE {})
standbyContains == "standby" \in members

setConnectIdentifier == dgHost' = seenHost

\* The configuration is created on the primary with the standby in it; the
\* script may stop after its first command, which is refused if there is one.
ensureDGConfigExists ==
    /\ pc = "dg_exists"
    /\ \/ /\ standbyHasConfig \/ primaryHasConfig
          /\ Goto("dg_standby") /\ UNCHANGED <<primary, failures, misread>>
       \/ /\ standbyHasConfig \/ primaryHasConfig
          /\ CanFail /\ Write(OnError) /\ misread' = "yes" /\ UNCHANGED primary
       \/ /\ ~standbyHasConfig /\ ~primaryHasConfig
          /\ config' = "ours" /\ dgPrimary' = seen /\ member' = "yes" /\ dgHost' = seenHost
          /\ Goto("dg_standby") /\ UNCHANGED <<failures, misread>>
       \/ /\ ~standbyHasConfig /\ ~primaryHasConfig
          /\ config' = "ours" /\ dgPrimary' = seen /\ UNCHANGED <<member, dgHost>>
          /\ CanFail /\ Write(OnError) /\ UNCHANGED misread
    /\ UNCHANGED <<object, conditions, host, pod, bootstrap, lro, edits, restarts, readded>>

\* The standby is added if its own broker knows no configuration, which is
\* refused if it is a member; otherwise its connect identifier is corrected.
ensureDGConfigStandbyMatch ==
    /\ pc = "dg_standby"
    /\ CASE standbyHasConfig -> /\ IF dgHost = seenHost THEN UNCHANGED dgHost
                                                        ELSE setConnectIdentifier
                                /\ UNCHANGED member /\ Goto("dg_primary")
         [] ~standbyHasConfig /\ standbyContains -> UNCHANGED <<dgHost, member>> /\ Write(OnError)
         [] OTHER -> dgHost' = seenHost /\ member' = "yes" /\ Goto("dg_primary")
    /\ UNCHANGED <<object, conditions, host, pod, bootstrap, lro, config, dgPrimary, edits,
                   failures, restarts, history>>

ensureDGConfigPrimaryMatch ==
    /\ pc = "dg_primary"
    /\ IF standbyHasConfig
       THEN /\ dgPrimary' = seen
            /\ pc' = "commit" /\ toCurrent' = seen
            /\ toReason' = IF reason = "DataGuardReplicationInProgress"
                           THEN reason ELSE "SetUpDataGuardCompleted"
            /\ UNCHANGED <<seen, seenHost, fresh>>
       ELSE UNCHANGED dgPrimary /\ Write(OnError)
    /\ UNCHANGED <<object, conditions, host, pod, bootstrap, lro, config, member, dgHost, edits,
                   failures, restarts, history>>

StartReplication ==
    /\ InStateMachine /\ reason = "SetUpDataGuardCompleted"
    /\ reason' = "DataGuardReplicationInProgress"
    /\ UNCHANGED <<object, ready, dbReady, standbyReady, current, host, pod, bootstrap, lro,
                   primary, control, edits, failures, restarts, history>>

-----------------------------------------------------------------------------
(* Promotion.                                                              *)

reconcilePromoteStandby_ClearsFirst ==
    /\ toCurrent' = "none"
    /\ IF current = "none" THEN Start("commit") /\ toReason' = "PromoteCompleted"
                           ELSE Start("remove") /\ UNCHANGED toReason

\* Promotion goes by the settings in the status, and is taken to be over if there are
\* none.
reconcilePromoteStandby ==
    /\ toCurrent' = current
    /\ IF current = "none" THEN Start("commit") /\ toReason' = "PromoteCompleted"
                           ELSE Start("remove") /\ UNCHANGED toReason

PromoteStandby ==
    /\ InStateMachine
    /\ \/ reason = "DataGuardReplicationInProgress" /\ spec = "none"
       \/ reason = "PromoteFailed"
    /\ reconcilePromoteStandby
    /\ UNCHANGED <<object, conditions, host, pod, bootstrap, lro, primary, edits, failures,
                   restarts, history>>

removeConfiguration ==
    config' = "none" /\ member' = "no" /\ dgHost' = "none" /\ dgPrimary' = "none"

removeDataGuardConfig_OursOnly ==
    /\ pc = "remove"
    /\ IF config = "ours" /\ members = {"standby"} THEN removeConfiguration ELSE UNCHANGED primary
    /\ Goto("activate")
    /\ UNCHANGED <<object, conditions, host, pod, bootstrap, lro, edits, failures, restarts,
                   history>>

\* The whole configuration is removed if the operator has made it and the
\* standby is its only member, otherwise the standby is taken out of it.
removeDataGuardConfig ==
    /\ pc = "remove"
    /\ \/ /\ ~standbyHasConfig /\ ~primaryHasConfig
          /\ Goto("activate") /\ UNCHANGED <<primary, failures, misread>>
       \/ /\ primaryHasConfig
          /\ CanFail /\ misread' = "yes" /\ Goto("activate") /\ UNCHANGED primary
       \/ /\ primaryHasConfig /\ config = "ours" /\ members = {"standby"}
          /\ removeConfiguration /\ Goto("activate") /\ UNCHANGED <<failures, misread>>
       \/ /\ primaryHasConfig /\ config = "foreign" /\ standbyContains
          /\ Goto("disabled") /\ UNCHANGED <<primary, failures, misread>>
       \/ /\ primaryHasConfig /\ ~standbyContains
          /\ Goto("activate") /\ UNCHANGED <<primary, failures, misread>>
    /\ UNCHANGED <<object, conditions, host, pod, bootstrap, lro, edits, restarts, readded>>

removeStandbyDB ==
    /\ pc = "disabled"
    /\ member' = "no" /\ dgHost' = "none"
    /\ Goto("activate")
    /\ UNCHANGED <<object, conditions, host, pod, bootstrap, lro, config, dgPrimary, edits,
                   failures, restarts, history>>

\* Managed recovery is cancelled and the standby activated, unless it is a
\* primary already.
promoteStandby ==
    /\ pc = "activate"
    /\ CASE db \in {"down", "nomount"} -> UNCHANGED role /\ Write("PromoteFailed")
         [] OTHER -> role' = "primary" /\ Goto("open")
    /\ UNCHANGED <<object, conditions, host, db, listener, broker, bootstrap, lro, primary, edits,
                   failures, restarts, history>>

openPrimary ==
    /\ pc = "open"
    /\ IF db \in {"down", "nomount"} THEN UNCHANGED db /\ Write("PromoteFailed")
                                     ELSE db' = "open" /\ Write("PromoteCompleted")
    /\ UNCHANGED <<object, conditions, host, role, listener, broker, bootstrap, lro, primary,
                   edits, failures, restarts, history>>

-----------------------------------------------------------------------------
(* Bootstrap of the promoted database.                                     *)

BootstrapStandby ==
    /\ InStateMachine /\ reason \in {"PromoteCompleted", "BootstrapFailed"}
    /\ Start("boot_listener") /\ toCurrent' = "none" /\ UNCHANGED toReason
    /\ UNCHANGED <<object, conditions, host, pod, bootstrap, lro, primary, edits, failures,
                   restarts, history>>

createListener ==
    /\ pc = "boot_listener"
    /\ IF db \in {"down", "nomount"} THEN UNCHANGED listener /\ Write(OnError)
                                     ELSE listener' = "full" /\ Goto("boot_spfile")
    /\ UNCHANGED <<object, conditions, host, db, role, broker, bootstrap, lro, primary, edits,
                   failures, restarts, history>>

\* Only a database set up by hand may be without an spfile; it is bounced then.
createSPFile ==
    /\ pc = "boot_spfile"
    /\ IF spfile = "yes"
       THEN UNCHANGED <<spfile, db, failures>> /\ Goto("boot_users")
       ELSE \/ /\ db \in {"down", "nomount"}
               /\ UNCHANGED <<spfile, db, failures>> /\ Write(OnError)
            \/ /\ db \in {"mounted", "open"} /\ spfile' = "yes"
               /\ \/ db' = "open" /\ UNCHANGED failures /\ Goto("boot_users")
                  \/ db' = "down" /\ CanFail /\ Write(OnError)
    /\ UNCHANGED <<object, conditions, host, role, listener, broker, users, provisioned, pdbs,
                   databases, lro, primary, edits, restarts, history>>

\* The common users are created, which needs an open primary.
setupUsers ==
    /\ pc = "boot_users"
    /\ IF db = "open" /\ role = "primary" THEN users' = "yes" /\ Goto("boot_done")
                                          ELSE UNCHANGED users /\ Write(OnError)
    /\ UNCHANGED <<object, conditions, host, pod, spfile, provisioned, pdbs, databases, lro,
                   primary, edits, failures, restarts, history>>

markProvisionDone ==
    /\ pc = "boot_done"
    /\ provisioned' = "yes" /\ Goto("boot_pdbs")
    /\ UNCHANGED <<object, conditions, host, pod, spfile, users, pdbs, databases, lro, primary,
                   edits, failures, restarts, history>>

openPDBs ==
    /\ pc = "boot_pdbs"
    /\ IF db = "open" THEN pdbs' = "open" /\ Goto("boot_databases")
                      ELSE UNCHANGED pdbs /\ Write(OnError)
    /\ UNCHANGED <<object, conditions, host, pod, spfile, users, provisioned, databases, lro,
                   primary, edits, failures, restarts, history>>

\* The pluggable databases that came with the standby, and their users, can be read.
migratedPDBs == db = "open" /\ pdbs = "open"

\* A Database object for every one of them.
createDatabases ==
    /\ pc = "boot_databases"
    /\ IF migratedPDBs
       THEN /\ databases' = "yes"
            /\ Write(IF reason = "none" THEN "manual" ELSE "BootstrapCompleted")
       ELSE UNCHANGED databases /\ Write(OnError)
    /\ UNCHANGED <<object, conditions, host, pod, spfile, users, provisioned, pdbs, lro, primary,
                   edits, failures, restarts, history>>

-----------------------------------------------------------------------------
Reconcile ==
    \/ EnterStandbyDR \/ EnterManual \/ PromoteManual
    \/ VerifyCompletes \/ StartCreate \/ CreateStandby \/ PrepareFiles \/ startupNomount
    \/ bounceDatabase \/ setupListener \/ clonePrimary
    \/ SetUpDataGuard \/ ensureListener \/ ensureDatabase \/ ensureDataGuardBrokerEnable
    \/ ensureDGConfigExists \/ ensureDGConfigStandbyMatch \/ ensureDGConfigPrimaryMatch
    \/ StartReplication \/ PromoteStandby \/ removeDataGuardConfig \/ removeStandbyDB
    \/ promoteStandby \/ openPrimary \/ BootstrapStandby \/ createListener \/ createSPFile
    \/ setupUsers \/ markProvisionDone \/ openPDBs \/ createDatabases
    \/ updateStatus \/ UpdateConflicts

Next ==
    \/ EditSettings \/ EditMode \/ SetUpByHand \/ HostMoves \/ RestartPod \/ RestartDaemon
    \/ VerifyFails \/ PollFails \/ TaskFails \/ CutShort \/ CloneEnds
    \/ Reconcile

Spec == Init /\ [][Next]_vars

\* A reconcile that has begun goes on, failed ones are repeated, and RMAN ends.
FairSpec == Spec /\ WF_vars(Reconcile) /\ WF_vars(CloneEnds)

-----------------------------------------------------------------------------
(* Properties.                                                             *)

\* A database that has been activated is never overwritten by another clone of
\* the old primary and never becomes its standby again, however often the
\* status of the promotion is lost and whatever the owner does to the settings.
ActivationIsFinal == [][role = "primary" => role' = "primary"]_vars

\* reconcilePromoteStandby takes a promotion for completed when the status has
\* no settings; the state machine still never leaves promotion behind, and the
\* Instance is never reported ready, with a database that is not a promoted one,
\* has no users, would not survive a restart or has no Database objects.
ReadyMeansMigrated ==
    /\ reason \in {"PromoteCompleted", "BootstrapFailed", "BootstrapCompleted"} => role = "primary"
    /\ dbReady = "yes" => /\ role = "primary" /\ users = "yes" /\ provisioned = "yes"
                          /\ databases = "yes" /\ listener = "full"

\* The activated database is out of the Data Guard configuration of the old
\* primary, which goes on without it: the configuration is cleaned up before
\* the activation.  Except if a call to exists failed and was taken for a no,
\* or if the settings came back in the middle of the promotion.
PrimaryIsLetGo ==
    role = "primary" /\ misread = "no" /\ readded = "no" => member = "no"

\* Once the settings are removed from a replicating standby (or spec.mode from
\* one that was promoted by hand) the Instance becomes ready, unless a restart
\* or a failed bounce has left the database down: promotion does not start it.
MigrationEnds ==
    \/ reason = "DataGuardReplicationInProgress" /\ spec = "none"
    \/ standbyReady = "True" /\ mode = "none" /\ role = "primary"
    ~> \/ dbReady = "yes"
       \/ spec # "none" \/ mode = "manual"
       \/ db \in {"down", "nomount"}
=============================================================================
