------------------------ MODULE PatchingController ------------------------
(***************************************************************************)
(* Minor version upgrade of an Instance: patchingStateMachine, the part of *)
(* the main reconcile loop that runs when the state machine has no case    *)
(* for the state it is in, handleResize with it, the pre-patching          *)
(* snapshots, the StatefulSet and its volumes, and the data patch          *)
(* operation of the database daemon.                                       *)
(*                                                                         *)
(* One action is one reconcile.  Its effects on other objects come first;  *)
(* the Instance status is written once, at the end, by the deferred update *)
(* of Reconcile, which may be refused or never happen: an action with an   *)
(* effect may leave the status as it was.                                  *)
(***************************************************************************)
EXTENDS VolumeResize

CONSTANTS
    StsImages,      \* images of the database container
    AgentImages,    \* images of the monitoring agent
    DefaultAgent,   \* the operator's own image of the agent
    BadImages,      \* the database images with which Oracle never starts
    OtherBackups,   \* TRUE: Backups of the instance complete during patching
    MaxSpecEdits,   \* bound on the number of edits of the spec
    EditsOverlap    \* TRUE: the user edits images and disks without waiting for
                    \* the edit before to be applied

ASSUME ImagesAssumption ==
    /\ "none" \notin StsImages /\ BadImages \subseteq StsImages
    /\ DefaultAgent \in AgentImages
    /\ OtherBackups \in BOOLEAN /\ EditsOverlap \in BOOLEAN /\ MaxSpecEdits \in Nat

ImagePairs == [sts : StsImages, agent : AgentImages]

\* spec.images names the database image, and the agent's or not.
Requests == ImagePairs \union [sts : StsImages]

PatchOp == "DatabasePatch"      \* lroPatchingOperationID: one per instance

VARIABLES
    spec,       \* spec.images
    specEdits,  \* number of edits of the spec so far
    resources,  \* the database container has the resources of the spec
    active,     \* status.ActiveImages
    failed,     \* status.LastFailedImages: none or one
    reason,     \* reason of the Ready condition
    isReady,    \* status of the Ready condition
    machine,    \* status.CurrentActiveStateMachine
    backupId,   \* status.BackupID: the last pre-patching backup, another one
    prepatch,   \* the snapshots of the last pre-patching backup
    kept,       \* the volume contents these snapshots hold
    stsImage,   \* image of the StatefulSet, or none when there is no StatefulSet
    volume,     \* contents of the volumes: good (written by the active image),
                \* touched by another one, foreign (another backup), empty, gone
    readiness,  \* readiness of the pod
    oracle,     \* the database is open
    op          \* operations of the daemon

instanceStatus == <<reason, isReady, machine, active, failed, backupId>>
world == <<prepatch, kept, stsImage, volume, readiness, oracle, op, resources, disks>>
patchingVars == <<spec, specEdits, instanceStatus, world>>

LRO == INSTANCE LROService WITH Ids <- {PatchOp}

Reasons ==
    {"CreateComplete", "PatchingBackupStarted", "PatchingBackupFailure",
     "DeploymentSetPatchingInProgress", "DeploymentSetPatchingComplete",
     "DeploymentSetPatchingRollbackInProgress", "StatefulSetPatchingInProgress",
     "StatefulSetPatchingComplete", "StatefulSetPatchingFailure",
     "DatabasePatchingInProgress", "DatabasePatchingComplete", "DatabasePatchingFailure",
     "PatchingRecoveryInProgress", "PatchingRecoveryCompleted", "PatchingRecoveryFailure",
     "ResizingInProgress"}

Contents == {"good", "touched", "foreign", "empty", "gone"}

PatchingTypeOK ==
    /\ spec \in Requests /\ active \in ImagePairs
    /\ failed \in SUBSET Requests
    /\ specEdits \in 0..MaxSpecEdits /\ resources \in BOOLEAN
    /\ DisksTypeOK
    /\ reason \in Reasons /\ isReady \in {"True", "False"}
    /\ machine \in {"", "PatchingStateMachine"}
    /\ backupId \in {"none", "prepatch", "other"}
    /\ prepatch \in {"none", "creating", "ready", "error"}
    /\ kept \in Contents /\ volume \in Contents
    /\ stsImage \in StsImages \union {"none"}
    /\ readiness \in {"ready", "notReady"} /\ oracle \in {"up", "down"}
    /\ LRO!ServiceTypeOK

PatchingInit ==
    /\ active \in ImagePairs /\ active.sts \notin BadImages
    /\ spec = active \/ (active.agent = DefaultAgent /\ spec = [sts |-> active.sts])
    /\ failed = {}
    /\ specEdits = 0 /\ resources = TRUE /\ DisksInit
    /\ reason = "CreateComplete" /\ isReady = "True" /\ machine = ""
    /\ backupId = "none" /\ prepatch = "none" /\ kept = "gone"
    /\ stsImage = active.sts /\ volume = "good"
    /\ readiness = "ready" /\ oracle = "up"
    /\ LRO!ServiceInit

-----------------------------------------------------------------------------
(* Helpers.                                                                *)

\* The Ready condition of the status that the reconcile commits.
Ready(s, r) == isReady' = s /\ reason' = r

Unready(r) == Ready("False", r)

\* The pods of the StatefulSet are replaced: the daemon starts afresh.
PodReplaced == readiness' = "notReady" /\ oracle' = "down" /\ LRO!Forget

\* The images to run: spec.images over the operator's own.
overrideDefaultImages ==
    [sts   |-> spec.sts,
     agent |-> IF "agent" \in DOMAIN spec THEN spec.agent ELSE DefaultAgent]

\* The failed images are stored as they stand in spec.images and compared with all
\* the images: they are recognised only if spec.images names every image.
PatchingEntryCondition ==
    /\ isReady = "True"
    /\ active # overrideDefaultImages
    /\ overrideDefaultImages \notin failed

InPatching == PatchingEntryCondition \/ machine = "PatchingStateMachine"

Stable == {"CreateComplete", "PatchingRecoveryCompleted"}

-----------------------------------------------------------------------------
(* patchingStateMachine, case by case.                                     *)

\* The images that were rolled back are not tried again.
StopsAtFailedImages == reason = "PatchingRecoveryCompleted" /\ spec \in failed

\* One snapshot for every disk of spec.disks: none when it lists no disks.
prePatchBackup ==
    IF DisksListed THEN prepatch' = "creating" /\ kept' = volume
                  ELSE prepatch' = "none" /\ kept' = "gone"

startPatchingBackup == prePatchBackup /\ backupId' = "prepatch"

StartPatching ==
    /\ InPatching /\ reason \in Stable /\ ~StopsAtFailedImages
    /\ machine' = "PatchingStateMachine"
    /\ \/ Unready("PatchingBackupStarted") /\ startPatchingBackup
       \/ /\ Unready("PatchingBackupFailure")
          /\ UNCHANGED <<backupId, prepatch, kept>>
    /\ UNCHANGED <<spec, specEdits, active, failed, stsImage, volume, readiness,
                   oracle, op, resources, disks>>

\* isPatchingBackupCompleted looks for the snapshots named after status.BackupID,
\* whichever backup that is.  A snapshot that cannot be read (an informer that has
\* not seen it yet included) ends the patching.
BackupCompleted ==
    \/ backupId = "prepatch" /\ (prepatch = "ready" \/ ~DisksListed)
    \/ backupId = "other"

AwaitBackup ==
    /\ InPatching /\ reason = "PatchingBackupStarted"
    /\ \/ BackupCompleted /\ Unready("DeploymentSetPatchingInProgress")
       \/ Unready("PatchingBackupFailure")
    /\ UNCHANGED <<spec, specEdits, machine, active, failed, backupId, world>>

\* The monitoring agents: patched, or rolled back after an error or a timeout.
PatchAgents ==
    /\ InPatching /\ reason = "DeploymentSetPatchingInProgress"
    /\ \/ Unready("DeploymentSetPatchingComplete")
       \/ Unready("DeploymentSetPatchingRollbackInProgress")
    /\ UNCHANGED <<spec, specEdits, machine, active, failed, backupId, world>>

RollbackAgents ==
    /\ InPatching /\ reason = "DeploymentSetPatchingRollbackInProgress"
    /\ \/ Unready("PatchingRecoveryCompleted")
       \/ Unready("PatchingRecoveryFailure")
    /\ UNCHANGED <<spec, specEdits, machine, active, failed, backupId, world>>

\* Compared with spec.images as it stands: an image it does not name differs.
isStatefulSetPatchingRequired == "agent" \notin DOMAIN spec \/ spec.sts # active.sts

\* Nothing to do for the StatefulSet when only the agents' image changed.
SkipStatefulSet ==
    /\ InPatching /\ reason = "DeploymentSetPatchingComplete" /\ oracle = "up"
    /\ ~isStatefulSetPatchingRequired
    /\ Unready("StatefulSetPatchingComplete")
    /\ UNCHANGED <<spec, specEdits, machine, active, failed, backupId, world>>

\* startStatefulSetPatching: the StatefulSet is deleted and created again with
\* the new image on the same volumes; each of the calls may fail.
ReplaceStatefulSet ==
    /\ InPatching /\ reason = "DeploymentSetPatchingComplete" /\ oracle = "up"
    /\ isStatefulSetPatchingRequired
    /\ \/ /\ stsImage # "none"
          /\ stsImage' = spec.sts /\ PodReplaced /\ resources' = TRUE /\ BuildStatefulSet(TRUE)
          /\ (Unready("StatefulSetPatchingInProgress") \/ UNCHANGED <<isReady, reason>>)
       \/ /\ stsImage # "none"
          /\ stsImage' = "none" /\ PodReplaced /\ UNCHANGED <<resources, disks>>
          /\ (Unready("StatefulSetPatchingFailure") \/ UNCHANGED <<isReady, reason>>)
       \/ /\ Unready("StatefulSetPatchingFailure")
          /\ UNCHANGED <<stsImage, readiness, oracle, op, resources, disks>>
    /\ UNCHANGED <<spec, specEdits, machine, active, failed, backupId, prepatch, kept, volume>>

AwaitStatefulSet ==
    /\ InPatching /\ reason = "StatefulSetPatchingInProgress"
    /\ \/ readiness = "ready" /\ Unready("StatefulSetPatchingComplete")
       \/ Unready("StatefulSetPatchingFailure")       \* databasePatchingTimeout
    /\ UNCHANGED <<spec, specEdits, machine, active, failed, backupId, world>>

\* startDatabasePatching: for a known operation ID the daemon answers AlreadyExists,
\* which counts as a failure, also when the operation is this attempt's own.
StartDatabasePatching ==
    /\ InPatching /\ reason = "StatefulSetPatchingComplete" /\ oracle = "up"
    /\ \/ /\ LRO!Start(PatchOp)
          /\ Unready("DatabasePatchingInProgress") \/ UNCHANGED <<isReady, reason>>
       \/ Unready("DatabasePatchingFailure") /\ UNCHANGED op
    /\ UNCHANGED <<spec, specEdits, machine, active, failed, backupId, prepatch, kept,
                   stsImage, volume, readiness, oracle, resources, disks>>

\* isDatabasePatchingDone: an operation the daemon does not know is waited for.
AwaitDatabasePatching ==
    /\ InPatching /\ reason = "DatabasePatchingInProgress"
    /\ \/ op[PatchOp] = "ok" /\ Unready("DatabasePatchingComplete")
       \/ op[PatchOp] \in {"ok", "error"} /\ Unready("DatabasePatchingFailure")
       \/ Unready("DatabasePatchingFailure")          \* databasePatchingTimeout
    /\ UNCHANGED <<spec, specEdits, machine, active, failed, backupId, world>>

PatchingDone ==
    /\ InPatching /\ reason = "DatabasePatchingComplete"
    /\ Ready("True", "CreateComplete")
    /\ active' = overrideDefaultImages
    /\ machine' = ""
    /\ volume' = IF volume = "touched" /\ stsImage = spec.sts THEN "good" ELSE volume
    /\ UNCHANGED <<spec, specEdits, failed, backupId, prepatch, kept, stsImage, readiness,
                   oracle, op, resources, disks>>

RemoveOld_KeepsVolumes ==
    /\ InPatching /\ reason \in {"StatefulSetPatchingFailure", "DatabasePatchingFailure"}
    /\ \/ /\ stsImage # "none"
          /\ stsImage' = "none" /\ PodReplaced
          /\ UNCHANGED <<instanceStatus, volume>>
       \/ /\ stsImage = "none" /\ volume # "gone"
          /\ Unready("PatchingRecoveryInProgress")
          /\ UNCHANGED <<machine, active, failed, backupId, stsImage, volume, readiness,
                         oracle, op>>
    /\ UNCHANGED <<spec, specEdits, prepatch, kept, resources, disks>>

RemoveOld_NeverDone ==
    /\ InPatching /\ reason \in {"StatefulSetPatchingFailure", "DatabasePatchingFailure"}
    /\ \/ /\ stsImage # "none"
          /\ stsImage' = "none" /\ PodReplaced
          /\ UNCHANGED volume
       \/ /\ stsImage = "none" /\ volume # "gone"
          /\ volume' = "gone"
          /\ UNCHANGED <<stsImage, readiness, oracle, op>>
    /\ UNCHANGED <<spec, specEdits, instanceStatus, prepatch, kept, resources, disks>>

\* deleteOldSTSandPVCs: one object per reconcile, then on to the recovery.
RemoveOld ==
    /\ InPatching /\ reason \in {"StatefulSetPatchingFailure", "DatabasePatchingFailure"}
    /\ \/ /\ stsImage # "none"
          /\ stsImage' = "none" /\ PodReplaced
          /\ UNCHANGED <<instanceStatus, volume>>
       \/ /\ stsImage = "none" /\ volume # "gone"
          /\ volume' = "gone"
          /\ UNCHANGED <<instanceStatus, stsImage, readiness, oracle, op>>
       \/ /\ stsImage = "none" /\ volume = "gone"
          /\ Unready("PatchingRecoveryInProgress")
          /\ UNCHANGED <<machine, active, failed, backupId, stsImage, volume, readiness,
                         oracle, op>>
       \/ /\ Unready("PatchingRecoveryFailure")
          /\ UNCHANGED <<machine, active, failed, backupId, stsImage, volume, readiness,
                         oracle, op>>
    /\ UNCHANGED <<spec, specEdits, prepatch, kept, resources, disks>>

\* What a volume created from the snapshots named after backupId contains; it
\* waits for snapshots that do not exist or are not ready.
Restored ==
    CASE backupId = "prepatch" /\ prepatch = "ready" -> {kept}
      [] backupId = "other"                          -> {"foreign", "gone"}
      [] OTHER                                       -> {"gone"}

\* recoverFromPatchingFailure, repeated by every reconcile in this state.
Recover ==
    /\ InPatching /\ reason = "PatchingRecoveryInProgress"
    /\ stsImage = "none"
    /\ stsImage' = active.sts /\ PodReplaced
    /\ volume' \in IF volume = "gone" THEN Restored ELSE {volume}
    /\ resources' = TRUE /\ BuildStatefulSet(volume # "gone")
    /\ UNCHANGED <<spec, specEdits, instanceStatus, prepatch, kept>>

RecoveryDone ==
    /\ InPatching /\ reason = "PatchingRecoveryInProgress"
    /\ stsImage # "none" /\ readiness = "ready" /\ oracle = "up"
    /\ Ready("True", "PatchingRecoveryCompleted")
    /\ failed' = {spec}
    /\ machine' = ""
    /\ UNCHANGED <<spec, specEdits, active, backupId, world>>

-----------------------------------------------------------------------------
(* The main loop: handleResize and createStatefulSet.                      *)

\* patchingStateMachine is not entered, or it has no case for the state.
InMainLoop ==
    \/ ~InPatching
    \/ reason \in {"PatchingBackupFailure", "PatchingRecoveryFailure", "ResizingInProgress"}

\* The Ready condition of a resize; the status update may be lost.
Resizing == Unready("ResizingInProgress") \/ UNCHANGED <<isReady, reason>>

\* A missing StatefulSet is created again, with the images of the spec and with new
\* volumes where there are none.
RecreateStatefulSet ==
    /\ InMainLoop /\ stsImage = "none"
    /\ stsImage' = spec.sts /\ PodReplaced
    /\ volume' = IF volume = "gone" THEN "empty" ELSE volume
    /\ resources' = TRUE /\ BuildStatefulSet(volume # "gone")
    /\ Resizing
    /\ UNCHANGED <<spec, specEdits, machine, active, failed, backupId, prepatch, kept>>

\* CPU or memory differ: the container of the StatefulSet gets the new resources.
ResizeResources ==
    /\ InMainLoop /\ stsImage # "none" /\ ~resources
    /\ resources' = TRUE /\ PodReplaced
    /\ Resizing
    /\ UNCHANGED <<spec, specEdits, machine, active, failed, backupId, prepatch, kept,
                   stsImage, volume, disks>>

\* tryResizeDisksOf with a changed disk: patch the claims and wait, delete the
\* StatefulSet at last.  An error leaves the condition as it is.
ResizeDisks ==
    /\ InMainLoop /\ stsImage # "none" /\ resources
    /\ FilterDiskWithSizeChanged # {} /\ PvcsCanBeExpanded
    /\ \/ /\ ~AllResized
          /\ \E patched \in SUBSET FilterDiskWithSizeChanged :
                /\ resizePvcs(patched)
                /\ IF patched = FilterDiskWithSizeChanged /\ CanBePatched(patched)
                   THEN Resizing ELSE UNCHANGED <<isReady, reason>>
          /\ UNCHANGED <<stsImage, readiness, oracle, op>>
       \/ AllResized /\ stsImage' = "none" /\ PodReplaced /\ Resizing /\ UNCHANGED disks
    /\ UNCHANGED <<spec, specEdits, machine, active, failed, backupId, prepatch, kept,
                   volume, resources>>

\* Nothing left to resize and the StatefulSet is ready.
ResizingDone ==
    /\ reason = "ResizingInProgress" /\ stsImage # "none" /\ readiness = "ready"
    /\ resources /\ FilterDiskWithSizeChanged = {}
    /\ Ready("True", "CreateComplete")
    /\ UNCHANGED <<spec, specEdits, machine, active, failed, backupId, world>>

\* createStatefulSet brings the StatefulSet to the images of the spec.
ApplyStatefulSet ==
    /\ InMainLoop /\ isReady = "False" /\ reason # "ResizingInProgress" /\ stsImage # "none"
    /\ stsImage # spec.sts /\ resources /\ FilterDiskWithSizeChanged = {}
    /\ stsImage' = spec.sts /\ PodReplaced
    /\ UNCHANGED <<spec, specEdits, instanceStatus, prepatch, kept, volume, resources, disks>>

-----------------------------------------------------------------------------
(* The rest of the world.                                                  *)

\* An edit of the spec; their number is bounded.
EditSpec == specEdits < MaxSpecEdits /\ specEdits' = specEdits + 1

UserChangesImages ==
    /\ EditSpec
    /\ EditsOverlap \/ (machine = "" /\ isReady = "True" /\ FilterDiskWithSizeChanged = {})
    /\ spec' \in Requests \ {spec}
    /\ UNCHANGED <<instanceStatus, world>>

\* Sizes may also change while a resize is under way, as long as there is a
\* StatefulSet.
UserChangesDisks ==
    /\ EditSpec
    /\ EditsOverlap \/ (machine = "" /\ stsImage # "none" /\ ~PatchingEntryCondition)
    /\ \E d \in Disks, s \in 0..MaxSize : DiskEdited(d, s)
    /\ UNCHANGED <<spec, instanceStatus, prepatch, kept, stsImage, volume, readiness,
                   oracle, op, resources>>

UserChangesResources ==
    /\ EditSpec
    /\ EditsOverlap \/ (machine = "" /\ stsImage # "none" /\ ~PatchingEntryCondition)
    /\ resources' = FALSE
    /\ UNCHANGED <<spec, instanceStatus, prepatch, kept, stsImage, volume, readiness, oracle,
                   op, disks>>

StorageExpands ==
    /\ \E d \in Disks : VolumeExpands(d)
    /\ UNCHANGED <<spec, specEdits, instanceStatus, prepatch, kept, stsImage, volume, readiness,
                   oracle, op, resources>>

\* The Backup controller records a Backup that completed on the Instance.
OtherBackupCompletes ==
    /\ OtherBackups
    /\ backupId' = "other"
    /\ UNCHANGED <<spec, specEdits, reason, isReady, machine, active, failed, world>>

SnapshotEnds ==
    /\ prepatch = "creating"
    /\ prepatch' \in {"ready", "error"}
    /\ UNCHANGED <<spec, specEdits, instanceStatus, kept, stsImage, volume, readiness,
                   oracle, op, resources, disks>>

PodGetsReady ==
    /\ stsImage # "none" /\ volume # "gone" /\ readiness = "notReady"
    /\ readiness' = "ready"
    /\ UNCHANGED <<spec, specEdits, instanceStatus, prepatch, kept, stsImage, volume, oracle,
                   op, resources, disks>>

\* Oracle opens the database; another version than before changes its contents.
OracleStarts ==
    /\ readiness = "ready" /\ stsImage \notin BadImages /\ oracle = "down" /\ volume # "empty"
    /\ oracle' = "up"
    /\ volume' = IF volume = "good" /\ stsImage # active.sts THEN "touched" ELSE volume
    /\ UNCHANGED <<spec, specEdits, instanceStatus, prepatch, kept, stsImage, readiness, op,
                   resources, disks>>

DatapatchEnds ==
    /\ \E outcome \in {"ok", "error"} : LRO!Finish(PatchOp, outcome)
    /\ UNCHANGED <<spec, specEdits, instanceStatus, prepatch, kept, stsImage, volume, readiness,
                   oracle, resources, disks>>

DatapatchExpires ==
    /\ op[PatchOp] \in {"ok", "error"}
    /\ LRO!Expire({PatchOp})
    /\ UNCHANGED <<spec, specEdits, instanceStatus, prepatch, kept, stsImage, volume, readiness,
                   oracle, resources, disks>>

-----------------------------------------------------------------------------
StateMachine ==
    \/ StartPatching \/ AwaitBackup \/ PatchAgents \/ RollbackAgents
    \/ SkipStatefulSet \/ ReplaceStatefulSet \/ AwaitStatefulSet
    \/ StartDatabasePatching \/ AwaitDatabasePatching \/ PatchingDone
    \/ RemoveOld \/ Recover \/ RecoveryDone

MainLoop ==
    \/ RecreateStatefulSet \/ ResizeResources \/ ResizeDisks
    \/ ResizingDone \/ ApplyStatefulSet

Environment ==
    \/ UserChangesImages \/ UserChangesDisks \/ UserChangesResources \/ StorageExpands
    \/ OtherBackupCompletes \/ SnapshotEnds
    \/ PodGetsReady \/ OracleStarts \/ DatapatchEnds \/ DatapatchExpires

PatchingNext == StateMachine \/ MainLoop \/ Environment

PatchingSpec == PatchingInit /\ [][PatchingNext]_patchingVars

\* Failed reconciles are retried until the status update is accepted and the state
\* machine requeues itself; pods start; the storage finishes snapshots and the daemon
\* its operations.
PatchingFairness ==
    /\ WF_patchingVars(StateMachine)
    /\ SF_patchingVars(StateMachine /\ reason' # reason)
    /\ WF_patchingVars(PodGetsReady) /\ WF_patchingVars(OracleStarts)
    /\ WF_patchingVars(SnapshotEnds) /\ WF_patchingVars(DatapatchEnds)
    /\ WF_patchingVars(RecreateStatefulSet) /\ WF_patchingVars(ResizeResources)
    /\ WF_patchingVars(ResizingDone)
    /\ WF_patchingVars(ResizeDisks) /\ WF_patchingVars(StorageExpands)

FairPatchingSpec == PatchingSpec /\ PatchingFairness

-----------------------------------------------------------------------------
(* Properties.                                                             *)

\* When a rollback is reported complete the database contents are what they were
\* before patching: the volumes were created from the snapshots of this attempt, and
\* these held the contents from before the new software ran.  Provided the backup ID
\* in the status is still the one startPatchingBackup stored there.
RollbackRestoresContents ==
    [][isReady = "False" /\ isReady' = "True" /\ reason' = "PatchingRecoveryCompleted"
         /\ backupId = "prepatch"
       => volume = kept]_patchingVars

\* A patching that failed after the rollout began ends: recovered, or reported as
\* not recoverable.  The state machine itself drives the recovery to its end.
FailedPatchingIsRecovered ==
    reason \in {"StatefulSetPatchingFailure", "DatabasePatchingFailure"} /\ kept = "good"
      ~> \/ reason \in {"PatchingRecoveryCompleted", "PatchingRecoveryFailure"}
         \/ backupId = "other"

\* A resize ends with the instance ready and every disk at least as large as asked
\* for, through patched claims, an expansion the storage takes its time for, the
\* deletion of the StatefulSet and its re-creation, with lost status updates and
\* sizes that are changed again on the way.  Provided no disk is to shrink, which
\* the API server refuses for ever.
ResizeIsApplied ==
    reason = "ResizingInProgress"
      ~> \/ isReady = "True" /\ \A d \in Disks : capacity[d] >= NewPVCs[d]
         \/ \E d \in Disks : NewPVCs[d] < claim[d]
=============================================================================
