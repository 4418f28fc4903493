------------------------- MODULE RestoreController -------------------------
(***************************************************************************)
(* The restore of an Instance: restoreStateMachine, the maintenance lock,  *)
(* the daemon's restore and data patch operations, the StatefulSet with    *)
(* its volumes, and the part of the main loop that runs when the machine   *)
(* has nothing to do.                                                      *)
(*                                                                         *)
(* A reconcile is one action per write or effect, and it may stop between  *)
(* two of them (Abort: an error, a refused write, the end of the operator).*)
(* The restore section of the spec is written by users and removed by the  *)
(* controller; a request is known by its requestTime.                      *)
(***************************************************************************)
EXTENDS Integers

CONSTANT MaxRequests        \* bound on the restores a user asks for

ASSUME MaxRequestsAssumption == MaxRequests \in Nat \ {0}

Requests == 1 .. MaxRequests

NoRequest == 0

\* A snapshot is named by the ID of its Backup or by a reference to it.
SnapshotTypes == {"Snapshot", "SnapshotByRef"}
Types == SnapshotTypes \union {"Physical"}
NoType == "none"

\* Operations of the daemon: lroRestoreOperationID is made from LastRestoreTime,
\* lroPatchingOperationID is the same for all restores of the instance.
PatchOp == 0

\* What the volumes hold: the database as it was, the outcome of a request, or ...
Original == 0
Damaged == -1               \* ... files removed and not (all) restored
Gone == -2                  \* ... no volumes
Empty == -3                 \* ... new volumes

VARIABLES
    restore,    \* spec.restore: its requestTime, or none
    type,       \* spec.restore.backupType
    newest,     \* the latest requestTime a user has written (history)
    lastTime,   \* status.LastRestoreTime
    reason,     \* reason of the Ready condition
    ready,      \* status of the Ready condition
    lock,       \* status.LockedByController
    pc,         \* where the reconcile is
    backup,     \* the Backup the request names
    op,         \* the operations of the daemon
    sts,        \* the StatefulSet: none, starting, ready, with Oracle open
    contents,   \* what the volumes hold
    launches,   \* how often a restore was launched for each request (history)
    undisturbed \* nothing interfered since the last request was accepted (history)

request == <<restore, type, newest>>
status == <<lastTime, reason, ready, lock>>
world == <<backup, op, sts, contents>>
history == <<launches, undisturbed>>
vars == <<request, status, pc, world, history>>

LRO == INSTANCE LROService WITH Ids <- Requests \union {PatchOp}

Stable == {"CreateComplete", "RestoreComplete", "RestoreFailed"}

InProgress ==
    {"RestorePreparationInProgress", "RestorePreparationComplete", "RestoreInProgress",
     "PostRestoreBootstrapInProgress", "PostRestoreBootstrapComplete",
     "PostRestoreDatabasePatchingInProgress"}

TypeOK ==
    /\ restore \in Requests \union {NoRequest}
    /\ newest \in Requests \union {NoRequest}
    /\ lastTime \in Requests \union {NoRequest}
    /\ type \in Types \union {NoType}
    /\ reason \in Stable \union InProgress \union {"ResizingInProgress"}
    /\ ready \in {"True", "False"}
    /\ lock \in {"free", "instancecontroller", "parameterUpdate"}
    /\ pc \in {"idle", "locked", "launch", "succeed", "fail",
               "clearSucceeded", "clearFailed", "reportSucceeded", "reportFailed"}
    /\ backup \in {"inProgress", "ready", "failed", "missing"}
    /\ LRO!ServiceTypeOK
    /\ sts \in {"none", "starting", "ready", "open"}
    /\ contents \in Empty .. MaxRequests
    /\ launches \in [Requests -> 0 .. 2]
    /\ undisturbed \in BOOLEAN

Init ==
    /\ restore = NoRequest /\ newest = NoRequest /\ lastTime = NoRequest
    /\ type = NoType
    /\ reason = "CreateComplete" /\ ready = "True" /\ lock = "free"
    /\ pc = "idle"
    /\ backup = "missing"
    /\ LRO!ServiceInit
    /\ sts = "open" /\ contents = Original
    /\ launches = [n \in Requests |-> 0]
    /\ undisturbed = TRUE

Ready(s, r) == ready' = s /\ reason' = r

Unready(r) == Ready("False", r)

-----------------------------------------------------------------------------
(* The start of a reconcile with a restore section.                        *)

\* The database instance is provisioned and the request has force set.
Reconciling == pc = "idle" /\ restore # NoRequest

\* The Backup named by its ID or by a reference, or the one before a point in
\* time; "missing" stands for one that is not found or is of another type, and for
\* a request that names none or more than one.
findBackupForRestore == backup # "missing"

\* It is looked for in every reconcile, whatever the state: a Backup that is not
\* found or has failed ends the restore, also one that is already under way.
BackupUnusable ==
    /\ Reconciling
    /\ ~findBackupForRestore \/ backup = "failed"
    /\ pc' = "fail"
    /\ UNCHANGED <<request, status, world, history>>

In(r) == Reconciling /\ backup = "ready" /\ reason = r

-----------------------------------------------------------------------------
(* Entry: CreateComplete, RestoreComplete, RestoreFailed.                  *)

AcquireInstanceMaintenanceLock ==
    /\ lock \in {"free", "instancecontroller"}
    /\ lock' = "instancecontroller"

\* One that is owned by another is left alone.
ReleaseInstanceMaintenanceLock ==
    lock' = IF lock = "instancecontroller" THEN "free" ELSE lock

AcquireLock ==
    /\ Reconciling /\ backup = "ready" /\ reason \in Stable
    /\ restore > lastTime
    /\ AcquireInstanceMaintenanceLock
    /\ pc' = "locked"
    /\ UNCHANGED <<request, lastTime, reason, ready, world, history>>

StartRestore ==
    /\ pc = "locked"
    /\ lastTime' = restore
    /\ Unready("RestorePreparationInProgress")
    /\ undisturbed' = \A n \in Requests : op[n] # "running"
    /\ pc' = "idle"
    /\ UNCHANGED <<request, lock, world, launches>>

-----------------------------------------------------------------------------
(* RestorePreparationInProgress, RestorePreparationComplete.               *)

\* deleteOldSTSandPVCs: first the StatefulSet, then the volumes, one reconcile each;
\* an error of the API server ends the restore.
RemoveOld ==
    /\ In("RestorePreparationInProgress") /\ type \in SnapshotTypes
    /\ \/ sts # "none" /\ sts' = "none" /\ LRO!Forget /\ UNCHANGED <<contents, pc>>
       \/ /\ sts = "none" /\ contents # Gone
          /\ contents' = Gone /\ UNCHANGED <<sts, op, pc>>
       \/ pc' = "fail" /\ UNCHANGED <<sts, op, contents>>
    /\ UNCHANGED <<request, status, backup, history>>

Prepared_WithoutWaiting ==
    /\ In("RestorePreparationInProgress")
    /\ Unready("RestorePreparationComplete")
    /\ UNCHANGED <<request, lastTime, lock, pc, world, history>>

Prepared ==
    /\ In("RestorePreparationInProgress")
    /\ type \in SnapshotTypes => sts = "none" /\ contents = Gone
    /\ Unready("RestorePreparationComplete")
    /\ UNCHANGED <<request, lastTime, lock, pc, world, history>>

\* The state is stored before the restore is launched.
CommitInProgress_Later ==
    /\ In("RestorePreparationComplete")
    /\ pc' = "launch"
    /\ Unready("RestoreInProgress") \/ UNCHANGED <<ready, reason>>
    /\ UNCHANGED <<request, lastTime, lock, world, history>>

CommitInProgress ==
    /\ In("RestorePreparationComplete")
    /\ Unready("RestoreInProgress")
    /\ pc' = "launch"
    /\ UNCHANGED <<request, lastTime, lock, world, history>>

CountLaunch ==
    launches' = [launches EXCEPT ![lastTime] = IF @ < 2 THEN @ + 1 ELSE @]

\* A launch uses the section it has read, also when it has been withdrawn since.
ForgetType == type' = IF restore = NoRequest THEN NoType ELSE type

\* The volumes are made from the snapshots with the ID in the section; without an ID
\* there they are new.
NewPVCs == IF type = "Snapshot" THEN lastTime ELSE Empty

\* restoreSnapshot creates the StatefulSet with its volumes.
LaunchSnapshot ==
    /\ pc = "launch" /\ type \in SnapshotTypes
    /\ sts' = IF sts = "none" THEN "starting" ELSE sts
    /\ contents' = IF contents = Gone THEN NewPVCs ELSE contents
    /\ CountLaunch
    /\ pc' = "idle" /\ ForgetType
    /\ UNCHANGED <<restore, newest, status, backup, op, undisturbed>>

\* restorePhysical gives up before anything is called: no load balancer address, an
\* image copy or a backup of some pluggable databases only, or a point in time
\* without the SCN or time of the backup.
RefusePhysical ==
    /\ pc = "launch" /\ type = "Physical"
    /\ pc' = "idle" /\ ForgetType
    /\ UNCHANGED <<restore, newest, status, world, history>>

\* The agent stops the database and removes its files before it starts the
\* operation, and any of its calls may fail.
PhysicalRestore ==
    /\ sts # "none"
    /\ contents' = Damaged
    /\ sts' = IF sts = "open" THEN "ready" ELSE sts
    /\ LRO!Start(lastTime) \/ UNCHANGED op

LaunchPhysical ==
    /\ pc = "launch" /\ type = "Physical"
    /\ PhysicalRestore
    /\ CountLaunch
    /\ pc' = "idle" /\ ForgetType
    /\ UNCHANGED <<restore, newest, status, backup, undisturbed>>

-----------------------------------------------------------------------------
(* RestoreInProgress.                                                      *)

\* isSnapshotRestoreDone asks for the StatefulSet only.
PollSnapshot ==
    /\ In("RestoreInProgress") /\ type \in SnapshotTypes
    /\ sts \in {"ready", "open"}
    /\ Unready("PostRestoreBootstrapInProgress")
    /\ UNCHANGED <<request, lastTime, lock, pc, world, history>>

PollPhysical_RetriesErrors ==
    /\ In("RestoreInProgress") /\ type = "Physical" /\ lastTime # NoRequest
    /\ op[lastTime] = "ok"
    /\ Unready("PostRestoreBootstrapInProgress")
    /\ UNCHANGED <<request, lastTime, lock, pc, world, history>>

\* An operation the daemon does not know is asked for again and again.
PollPhysical ==
    /\ In("RestoreInProgress") /\ type = "Physical" /\ lastTime # NoRequest
    /\ \/ op[lastTime] = "ok" /\ Unready("PostRestoreBootstrapInProgress") /\ UNCHANGED pc
       \/ op[lastTime] = "error" /\ pc' = "fail" /\ UNCHANGED <<ready, reason>>
    /\ UNCHANGED <<request, lastTime, lock, world, history>>

-----------------------------------------------------------------------------
(* The states after the restore.                                           *)

BootstrapSnapshot ==
    /\ In("PostRestoreBootstrapInProgress") /\ type \in SnapshotTypes
    /\ sts = "open"
    /\ Unready("PostRestoreBootstrapComplete")
    /\ UNCHANGED <<request, lastTime, lock, pc, world, history>>

BootstrapPhysical ==
    /\ In("PostRestoreBootstrapInProgress") /\ type = "Physical"
    /\ \/ /\ sts \in {"ready", "open"} /\ contents \notin {Damaged, Empty}
          /\ sts' = "open"
          /\ Unready("PostRestoreBootstrapComplete") /\ UNCHANGED pc
       \/ pc' = "fail" /\ UNCHANGED <<sts, ready, reason>>
    /\ UNCHANGED <<request, lastTime, lock, backup, op, contents, history>>

\* The backup was taken with the image that runs now.
CompleteWithoutPatch ==
    /\ In("PostRestoreBootstrapComplete")
    /\ pc' = "succeed"
    /\ UNCHANGED <<request, status, world, history>>

\* An operation that is known already is an error.
startDatabasePatching == sts # "none" /\ LRO!Start(PatchOp)

\* It was not: the data patch is started.
StartPatch ==
    /\ In("PostRestoreBootstrapComplete")
    /\ \/ /\ startDatabasePatching
          /\ Unready("PostRestoreDatabasePatchingInProgress") \/ UNCHANGED <<ready, reason>>
          /\ UNCHANGED pc
       \/ pc' = "fail" /\ UNCHANGED <<op, ready, reason>>
    /\ UNCHANGED <<request, lastTime, lock, backup, sts, contents, history>>

\* The request to delete the operation may fail; that is an error too.
isDatabasePatchingDone(err) ==
    \/ op[PatchOp] = "ok" /\ err \in BOOLEAN
    \/ op[PatchOp] = "error" /\ err

PollPatch ==
    /\ In("PostRestoreDatabasePatchingInProgress")
    /\ \E err \in BOOLEAN :
          /\ isDatabasePatchingDone(err)
          /\ pc' = IF err THEN "fail" ELSE "succeed"
    /\ UNCHANGED <<request, status, world, history>>

-----------------------------------------------------------------------------
(* setRestoreSucceeded and setRestoreFailed: three writes.                 *)

ReleaseLock ==
    /\ pc \in {"succeed", "fail"}
    /\ ReleaseInstanceMaintenanceLock
    /\ pc' = IF pc = "succeed" THEN "clearSucceeded" ELSE "clearFailed"
    /\ UNCHANGED <<request, lastTime, reason, ready, world, history>>

ClearRequest ==
    /\ pc \in {"clearSucceeded", "clearFailed"}
    /\ restore' = NoRequest /\ type' = NoType
    /\ pc' = IF pc = "clearSucceeded" THEN "reportSucceeded" ELSE "reportFailed"
    /\ UNCHANGED <<newest, status, world, history>>

Report ==
    /\ pc \in {"reportSucceeded", "reportFailed"}
    /\ IF pc = "reportSucceeded" THEN Ready("True", "RestoreComplete") ELSE Unready("RestoreFailed")
    /\ pc' = "idle"
    /\ UNCHANGED <<request, lastTime, lock, world, history>>

-----------------------------------------------------------------------------
(* The main loop, when there is no restore section or nothing to do for it.*)

InMainLoop ==
    /\ pc = "idle"
    /\ \/ restore = NoRequest
       \/ /\ backup = "ready"
          /\ (reason \in Stable /\ restore <= lastTime) \/ reason = "ResizingInProgress"

\* handleResize: a missing StatefulSet is created again, with new volumes where
\* there are none.
RecreateStatefulSet ==
    /\ InMainLoop /\ sts = "none"
    /\ sts' = "starting"
    /\ contents' = IF contents = Gone THEN Empty ELSE contents
    /\ Unready("ResizingInProgress") \/ UNCHANGED <<ready, reason>>
    /\ UNCHANGED <<request, lastTime, lock, pc, backup, op, history>>

ResizingDone ==
    /\ InMainLoop /\ reason = "ResizingInProgress" /\ sts \in {"ready", "open"}
    /\ Ready("True", "CreateComplete")
    /\ UNCHANGED <<request, lastTime, lock, pc, world, history>>

-----------------------------------------------------------------------------
(* The rest of the world.                                                  *)

\* What has been written stays; what was going to be written is lost.
Abort ==
    /\ pc # "idle"
    /\ pc' = "idle"
    /\ ForgetType
    /\ undisturbed' = (undisturbed /\ pc \notin {"reportSucceeded", "reportFailed"})
    /\ UNCHANGED <<restore, newest, status, world, launches>>

\* A new request, or an old manifest applied again.
UserRequests ==
    /\ restore = NoRequest
    /\ pc = "idle"
    /\ \/ newest < MaxRequests /\ restore' = newest + 1 /\ newest' = newest + 1
       \/ restore' \in 1 .. newest /\ UNCHANGED newest
    /\ type' \in Types
    /\ backup' \in {"inProgress", "ready", "missing"}
    /\ UNCHANGED <<status, pc, op, sts, contents, history>>

\* A parameter update takes the maintenance lock and gives it back.
ParameterUpdate ==
    /\ \/ lock = "free" /\ lock' = "parameterUpdate"
       \/ lock = "parameterUpdate" /\ lock' = "free"
    /\ UNCHANGED <<request, lastTime, reason, ready, pc, world, history>>

\* The next write of a reconcile that is under way is then refused.
UserWithdraws ==
    /\ restore # NoRequest
    /\ restore' = NoRequest
    /\ undisturbed' = FALSE
    /\ IF pc = "launch" THEN UNCHANGED <<type, pc>> ELSE type' = NoType /\ pc' = "idle"
    /\ UNCHANGED <<newest, status, world, launches>>

BackupEnds ==
    /\ backup = "inProgress"
    /\ backup' \in {"ready", "failed"}
    /\ UNCHANGED <<request, status, pc, op, sts, contents, history>>

BackupIsDeleted ==
    /\ backup = "ready"
    /\ backup' = "missing"
    /\ UNCHANGED <<request, status, pc, op, sts, contents, history>>

\* physicalRestore in the daemon; the files are those of the operation's request.
RestoreEnds ==
    /\ \E n \in Requests :
          \/ LRO!Finish(n, "ok") /\ contents' = IF contents \in {Gone, Empty} THEN contents ELSE n
          \/ LRO!Finish(n, "error") /\ UNCHANGED contents
    /\ UNCHANGED <<request, status, pc, backup, sts, history>>

PatchEnds ==
    /\ \E outcome \in {"ok", "error"} : LRO!Finish(PatchOp, outcome)
    /\ UNCHANGED <<request, status, pc, backup, sts, contents, history>>

OperationExpires ==
    /\ \E n \in Requests \union {PatchOp} : op[n] \in {"ok", "error"} /\ LRO!Expire({n})
    /\ UNCHANGED <<request, status, pc, backup, sts, contents, history>>

\* The pod restarts: the daemon forgets its operations.
PodRestarts ==
    /\ sts \in {"ready", "open"}
    /\ LRO!Forget
    /\ sts' = "starting"
    /\ UNCHANGED <<request, status, pc, backup, contents, history>>

PodStarts ==
    /\ \/ sts = "starting" /\ contents # Gone /\ sts' = "ready"
       \/ sts = "ready" /\ contents >= Original /\ sts' = "open"
    /\ UNCHANGED <<request, status, pc, backup, op, contents, history>>

-----------------------------------------------------------------------------
StateMachine ==
    \/ BackupUnusable \/ AcquireLock \/ StartRestore
    \/ RemoveOld \/ Prepared \/ CommitInProgress
    \/ LaunchSnapshot \/ RefusePhysical \/ LaunchPhysical
    \/ PollSnapshot \/ PollPhysical \/ BootstrapSnapshot \/ BootstrapPhysical
    \/ CompleteWithoutPatch \/ StartPatch \/ PollPatch
    \/ ReleaseLock \/ ClearRequest \/ Report

MainLoop == RecreateStatefulSet \/ ResizingDone

Environment ==
    \/ Abort \/ UserRequests \/ UserWithdraws \/ BackupEnds \/ BackupIsDeleted
    \/ RestoreEnds \/ PatchEnds \/ OperationExpires \/ PodRestarts \/ PodStarts
    \/ ParameterUpdate

Next == StateMachine \/ MainLoop \/ Environment

Spec == Init /\ [][Next]_vars

\* Following a restore that has been launched.
Follow ==
    \/ BackupUnusable \/ PollPhysical \/ BootstrapPhysical \/ CompleteWithoutPatch
    \/ StartPatch /\ reason' # reason

\* The work queue retries a reconcile until its writes get through, and operations end.
Fairness ==
    /\ WF_vars(Follow) /\ SF_vars(ReleaseLock) /\ SF_vars(ClearRequest)
    /\ WF_vars(BackupEnds) /\ WF_vars(RestoreEnds)

FairSpec == Spec /\ Fairness

-----------------------------------------------------------------------------
(* Properties.                                                             *)

\* A restore is launched at most once for a request, whatever crashes, is retried
\* or is applied again: RestoreInProgress is stored before the launch and
\* LastRestoreTime before that.
LaunchedOncePerRequest == \A n \in Requests : launches[n] <= 1

\* RestoreComplete means that the database is the one of the last accepted request,
\* unless its restore section was withdrawn, another operation was still running, or
\* the operator stopped between removing the section and reporting the outcome.
CompleteMeansRestored ==
    reason = "RestoreComplete" /\ undisturbed => contents = lastTime

\* A physical restore that runs is followed to its end: the request is answered and
\* removed from the spec, or its data patch is under way.  Unless the daemon forgets
\* the operation.
RunningRestoreIsAnswered ==
    reason = "RestoreInProgress" /\ type = "Physical" /\ restore # NoRequest
    /\ lastTime # NoRequest /\ op[lastTime] = "running"
      ~> \/ restore = NoRequest
         \/ op[lastTime] = "absent"
         \/ reason = "PostRestoreDatabasePatchingInProgress"
=============================================================================
