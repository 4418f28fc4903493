---------------------- MODULE InstanceLifecycleProofs ----------------------
(***************************************************************************)
(* Proofs about the two halves of the Instance controller.                 *)
(*                                                                         *)
(* PatchingController, for any images and disks and any number of edits of *)
(* the spec: a rollback brings the old contents of the volumes back, and   *)
(* the images it goes back to work.  What the volumes hold in a recovery   *)
(* must be known from its beginning, and that the main loop stays away     *)
(* from it (PatchingInv); and which image the database runs in each phase  *)
(* of a patching (ImageInv).                                               *)
(*                                                                         *)
(* InstanceLifecycle, for every number of events: a stopped Instance stays *)
(* down, the files of a provisioned database are never made again, and a   *)
(* database that is reported ready is provisioned.                         *)
(***************************************************************************)
EXTENDS InstanceLifecycle, PatchingController, TLAPS

-----------------------------------------------------------------------------
(* Patching.                                                               *)

\* The reasons with which the patching state machine is not at work.
AtRest == {"CreateComplete", "PatchingRecoveryCompleted", "ResizingInProgress"}

\* What the volumes hold during a recovery, which the main loop does not disturb: the
\* pre-patching contents as soon as they are there.  The pod waits for them, and then
\* runs the old image, which leaves them as they are.
RecoveringInv ==
    reason = "PatchingRecoveryInProgress" =>
        /\ backupId = "prepatch" => volume \in {kept, "gone"}
        /\ stsImage # "none" => stsImage = active.sts /\ (readiness = "ready" => volume # "gone")

PatchingInv ==
    /\ reason \notin AtRest => machine = "PatchingStateMachine"
    /\ stsImage = "none" => readiness = "notReady"
    /\ RecoveringInv

\* What RollbackRestoresContents says of a step.
ReportIsTrue ==
    isReady = "False" /\ isReady' = "True" /\ reason' = "PatchingRecoveryCompleted"
      /\ backupId = "prepatch"
    => volume = kept

\* In a recovery the state machine has the Instance for itself.
LEMMA MachineStepKeepsInv ==
    ASSUME PatchingInv, StateMachine
    PROVE  PatchingInv' /\ ReportIsTrue
<1> USE DEF ReportIsTrue, PatchingInv, RecoveringInv, AtRest, Ready, Unready, PodReplaced,
        instanceStatus, world
<1>1. CASE StartPatching
  BY <1>1, Zenon DEF StartPatching
<1>2. CASE AwaitBackup \/ PatchAgents \/ RollbackAgents \/ SkipStatefulSet
  BY <1>2, Zenon DEF AwaitBackup, PatchAgents, RollbackAgents, SkipStatefulSet
<1>3. CASE ReplaceStatefulSet
  BY <1>3, Zenon DEF ReplaceStatefulSet
<1>4. CASE AwaitStatefulSet \/ StartDatabasePatching \/ AwaitDatabasePatching
  BY <1>4, Zenon DEF AwaitStatefulSet, StartDatabasePatching, AwaitDatabasePatching
<1>5. CASE PatchingDone \/ RecoveryDone
  BY <1>5, Zenon DEF PatchingDone, RecoveryDone
<1>6. CASE RemoveOld
  BY <1>6, Zenon DEF RemoveOld
<1>7. CASE Recover
  BY <1>7, Zenon DEF Recover, Restored
<1> QED
  BY <1>1, <1>2, <1>3, <1>4, <1>5, <1>6, <1>7, Zenon DEF StateMachine

\* The main loop runs only where the state machine has no case, ...
LEMMA MainLoopKeepsInv ==
    ASSUME PatchingInv, MainLoop
    PROVE  PatchingInv' /\ ReportIsTrue
<1> USE DEF ReportIsTrue, PatchingInv, RecoveringInv, AtRest, Ready, Unready, Resizing,
        InMainLoop,
        InPatching, PodReplaced, instanceStatus, world
<1>1. CASE RecreateStatefulSet \/ ResizeResources
  BY <1>1, Zenon DEF RecreateStatefulSet, ResizeResources
<1>2. CASE ResizeDisks
  BY <1>2, Zenon DEF ResizeDisks
<1>3. CASE ResizingDone \/ ApplyStatefulSet
  BY <1>3, Zenon DEF ResizingDone, ApplyStatefulSet
<1> QED
  BY <1>1, <1>2, <1>3, Zenon DEF MainLoop

\* ... and of the environment only the database touches the volumes.
LEMMA EnvironmentKeepsInv ==
    ASSUME PatchingInv, Environment \/ UNCHANGED patchingVars
    PROVE  PatchingInv' /\ (UNCHANGED patchingVars \/ ReportIsTrue)
<1> USE DEF ReportIsTrue, PatchingInv, RecoveringInv, instanceStatus, world
<1>1. CASE UserChangesImages \/ UserChangesDisks \/ UserChangesResources \/ StorageExpands
  BY <1>1, Zenon DEF UserChangesImages, UserChangesDisks, UserChangesResources, StorageExpands
<1>2. CASE OtherBackupCompletes \/ SnapshotEnds \/ PodGetsReady
  BY <1>2, Zenon DEF OtherBackupCompletes, SnapshotEnds, PodGetsReady
<1>3. CASE OracleStarts
  BY <1>3, Zenon DEF OracleStarts
<1>4. CASE DatapatchEnds \/ DatapatchExpires \/ UNCHANGED patchingVars
  BY <1>4, Zenon DEF DatapatchEnds, DatapatchExpires, patchingVars
<1> QED
  BY <1>1, <1>2, <1>3, <1>4, Zenon DEF Environment

\* So PatchingInv holds in every step, and a report of a rollback is true.
LEMMA StepKeepsPatchingInv ==
    ASSUME PatchingInv, [PatchingNext]_patchingVars
    PROVE  PatchingInv' /\ [ReportIsTrue]_patchingVars
  BY MachineStepKeepsInv, MainLoopKeepsInv, EnvironmentKeepsInv, Zenon DEF PatchingNext

LEMMA PatchingInvHolds == PatchingSpec => []PatchingInv
<1>1. PatchingInit => PatchingInv
  BY ImagesAssumption, Zenon DEF PatchingInit, PatchingInv, RecoveringInv, AtRest, ImagePairs
<1> QED
  BY <1>1, StepKeepsPatchingInv, PTL DEF PatchingSpec

\* A rollback that is reported complete has brought the contents back that the
\* volumes had before patching, for any images and disks and any number of edits, also
\* when these overlap.
THEOREM RollbackIsToTheSnapshots == PatchingSpec => RollbackRestoresContents
  BY PatchingInvHolds, StepKeepsPatchingInv, PTL
     DEF PatchingSpec, RollbackRestoresContents, ReportIsTrue

\* When nobody edits the images during a patching, the images in the status are ones
\* with which the database has started: what a rollback goes back to works.
RecordedImagesWork == EditsOverlap \/ active.sts \notin BadImages

\* The database runs only on an image that works, and from the StatefulSet on the images
\* of the spec are those that it runs or those of the status.
ImageInv ==
    /\ oracle = "up" => stsImage \notin BadImages
    /\ reason = "StatefulSetPatchingInProgress" => stsImage = spec.sts
    /\ reason = "StatefulSetPatchingComplete" => spec.sts \in {stsImage, active.sts}
    /\ reason \in {"DatabasePatchingInProgress", "DatabasePatchingComplete"} =>
         spec.sts \notin BadImages
    /\ active.sts \notin BadImages

\* Only PatchingDone changes the images in the status, to those of the spec.
LEMMA StepKeepsImages ==
    ASSUME ~ EditsOverlap, PatchingInv, ImageInv, [PatchingNext]_patchingVars
    PROVE  ImageInv'
<1> USE DEF ImageInv, Ready, Unready, PodReplaced, instanceStatus, world
<1>1. CASE StartPatching \/ AwaitBackup \/ PatchAgents \/ RollbackAgents
  BY <1>1, Zenon DEF StartPatching, AwaitBackup, PatchAgents, RollbackAgents
<1>2. CASE SkipStatefulSet
  BY <1>2, Zenon DEF SkipStatefulSet, isStatefulSetPatchingRequired
<1>3. CASE ReplaceStatefulSet
  BY <1>3, Zenon DEF ReplaceStatefulSet
<1>4. CASE AwaitStatefulSet
  BY <1>4, Zenon DEF AwaitStatefulSet
<1>5. CASE StartDatabasePatching
  BY <1>5, Zenon DEF StartDatabasePatching
<1>6. CASE AwaitDatabasePatching \/ RecoveryDone
  BY <1>6, Zenon DEF AwaitDatabasePatching, RecoveryDone
<1>7. CASE PatchingDone
  BY <1>7, Zenon DEF PatchingDone, overrideDefaultImages
<1>8. CASE RemoveOld \/ Recover
  BY <1>8, Zenon DEF RemoveOld, Recover
<1>9. CASE MainLoop
  <2>1. ~ (reason \in {"StatefulSetPatchingInProgress", "StatefulSetPatchingComplete",
                       "DatabasePatchingInProgress", "DatabasePatchingComplete"})
    BY <1>9, Zenon DEF MainLoop, RecreateStatefulSet, ResizeResources, ResizeDisks,
       ResizingDone,
       ApplyStatefulSet, InMainLoop, InPatching, PatchingInv, AtRest
  <2> QED
    BY <1>9, <2>1, Zenon DEF MainLoop, RecreateStatefulSet, ResizeResources, ResizeDisks,
       ResizingDone, ApplyStatefulSet, Resizing
<1>10. CASE UserChangesImages
  BY <1>10, Zenon DEF UserChangesImages, PatchingInv, AtRest
<1>11. CASE OracleStarts
  BY <1>11, Zenon DEF OracleStarts
<1>12. CASE UserChangesDisks \/ UserChangesResources \/ StorageExpands \/ OtherBackupCompletes
  BY <1>12, Zenon DEF UserChangesDisks, UserChangesResources, StorageExpands,
     OtherBackupCompletes
<1>13. CASE SnapshotEnds \/ PodGetsReady \/ DatapatchEnds \/ DatapatchExpires
  BY <1>13, Zenon DEF SnapshotEnds, PodGetsReady, DatapatchEnds, DatapatchExpires
<1>14. CASE UNCHANGED patchingVars
  BY <1>14, Zenon DEF patchingVars
<1> QED
  BY <1>1, <1>2, <1>3, <1>4, <1>5, <1>6, <1>7, <1>8, <1>9, <1>10, <1>11, <1>12, <1>13,
     <1>14, Zenon DEF PatchingNext, StateMachine, Environment

\* The images in the status work, for any images and disks and any number of edits.
THEOREM ImagesOfStatusWork == PatchingSpec => []RecordedImagesWork
<1> DEFINE IInv == EditsOverlap \/ ImageInv
<1>1. PatchingInit => IInv
  BY Zenon DEF PatchingInit, ImageInv
<1>2. PatchingInv /\ IInv /\ [PatchingNext]_patchingVars => IInv'
  BY StepKeepsImages, Zenon
<1>3. IInv => RecordedImagesWork
  BY Zenon DEF ImageInv, RecordedImagesWork
<1> QED
  BY <1>1, <1>2, <1>3, PatchingInvHolds, PTL DEF PatchingSpec

\* The sizes in new claim templates, ...
LEMMA NewPVCsAreSizes == ASSUME asked \in [Disks -> 0..MaxSize] PROVE NewPVCs \in Sizes
<1>1. ASSUME NEW d \in Disks PROVE FindDiskSize(d) \in 1..MaxSize
  <2>1. asked[d] \in 0..MaxSize
    BY Zenon
  <2>2. asked[d] # 0 => asked[d] \in 1..MaxSize
    BY <2>1, DisksAssumption
  <2> QED
    BY <2>2, DisksAssumption, Zenon DEF FindDiskSize
<1> QED
  BY <1>1, Zenon DEF NewPVCs, Sizes

\* ... and of the disks after a StatefulSet was built or a claim was patched or expanded.
LEMMA DisksStayTyped ==
    ASSUME DisksTypeOK,
           \/ \E b \in BOOLEAN : BuildStatefulSet(b)
           \/ \E S \in SUBSET Disks : resizePvcs(S)
           \/ \E d \in Disks : VolumeExpands(d)
           \/ \E d \in Disks, s \in 0..MaxSize : DiskEdited(d, s)
           \/ UNCHANGED disks
    PROVE  DisksTypeOK'
<1>1. NewPVCs \in Sizes
  BY NewPVCsAreSizes, Zenon DEF DisksTypeOK
<1> USE DEF DisksTypeOK
<1>2. ASSUME NEW b \in BOOLEAN, BuildStatefulSet(b) PROVE DisksTypeOK'
  BY <1>1, <1>2, Zenon DEF BuildStatefulSet
<1>3. ASSUME NEW S \in SUBSET Disks, resizePvcs(S) PROVE DisksTypeOK'
  BY <1>1, <1>3, Zenon DEF resizePvcs, Patch, Sizes
<1>4. ASSUME NEW d \in Disks, VolumeExpands(d) PROVE DisksTypeOK'
  BY <1>4, Zenon DEF VolumeExpands, Sizes
<1>5. ASSUME NEW d \in Disks, NEW s \in 0..MaxSize, DiskEdited(d, s) PROVE DisksTypeOK'
  BY <1>5, Zenon DEF DiskEdited
<1>6. CASE UNCHANGED disks
  BY <1>6, Zenon DEF disks
<1> QED
  BY <1>2, <1>3, <1>4, <1>5, <1>6, Zenon

\* The operation of a patch is in one of its states.
LEMMA OperationStaysTyped ==
    ASSUME LRO!ServiceTypeOK,
           \/ LRO!Start(PatchOp) \/ (\E o \in {"ok", "error"} : LRO!Finish(PatchOp, o))
           \/ LRO!Expire({PatchOp}) \/ LRO!Forget \/ UNCHANGED op
    PROVE  LRO!ServiceTypeOK'
  BY Zenon DEF LRO!ServiceTypeOK, LRO!OpStates, LRO!Outcomes, LRO!Start, LRO!Finish,
     LRO!Expire, LRO!Forget

\* What a step does to the disks and to the operation.
LEMMA StepOnDisks ==
    ASSUME PatchingTypeOK, [PatchingNext]_patchingVars
    PROVE  DisksTypeOK' /\ LRO!ServiceTypeOK'
<1> USE DEF PodReplaced, world
<1> DEFINE Op == \/ LRO!Start(PatchOp) \/ (\E o \in {"ok", "error"} : LRO!Finish(PatchOp, o))
                 \/ LRO!Expire({PatchOp}) \/ LRO!Forget \/ UNCHANGED op
           Volumes == \/ \E b \in BOOLEAN : BuildStatefulSet(b)
                      \/ \E S \in SUBSET Disks : resizePvcs(S)
                      \/ \E d \in Disks : VolumeExpands(d)
                      \/ \E d \in Disks, s \in 0..MaxSize : DiskEdited(d, s)
                      \/ UNCHANGED disks
<1>1. StateMachine => Op /\ Volumes
  <2>1. ReplaceStatefulSet \/ Recover => Op /\ Volumes
    BY Zenon DEF ReplaceStatefulSet, Recover
  <2>2. RemoveOld \/ StartDatabasePatching => Op /\ Volumes
    BY Zenon DEF RemoveOld, StartDatabasePatching
  <2>3. StartPatching \/ AwaitBackup \/ PatchAgents \/ RollbackAgents \/ SkipStatefulSet => Op /\ Volumes
    BY Zenon DEF StartPatching, AwaitBackup, PatchAgents, RollbackAgents, SkipStatefulSet
  <2>4. AwaitStatefulSet \/ AwaitDatabasePatching \/ PatchingDone \/ RecoveryDone => Op /\ Volumes
    BY Zenon DEF AwaitStatefulSet, AwaitDatabasePatching, PatchingDone, RecoveryDone
  <2> QED
    BY <2>1, <2>2, <2>3, <2>4, Zenon DEF StateMachine
<1>2. MainLoop => Op /\ Volumes
  <2>1. RecreateStatefulSet \/ ResizeResources \/ ResizingDone \/ ApplyStatefulSet => Op /\ Volumes
    BY Zenon DEF RecreateStatefulSet, ResizeResources, ResizingDone, ApplyStatefulSet
  <2>2. ResizeDisks => Op /\ Volumes
    <3>1. FilterDiskWithSizeChanged \subseteq Disks
      BY Zenon DEF FilterDiskWithSizeChanged
    <3> QED
      BY <3>1, Zenon DEF ResizeDisks
  <2> QED
    BY <2>1, <2>2, Zenon DEF MainLoop
<1>3. Environment => Op /\ Volumes
  <2>1. DatapatchEnds \/ DatapatchExpires => Op /\ Volumes
    BY Zenon DEF DatapatchEnds, DatapatchExpires
  <2>2. UserChangesDisks \/ StorageExpands => Op /\ Volumes
    BY Zenon DEF UserChangesDisks, StorageExpands
  <2>3. UserChangesImages \/ UserChangesResources \/ OtherBackupCompletes => Op /\ Volumes
    BY Zenon DEF UserChangesImages, UserChangesResources, OtherBackupCompletes
  <2>4. SnapshotEnds \/ PodGetsReady \/ OracleStarts => Op /\ Volumes
    BY Zenon DEF SnapshotEnds, PodGetsReady, OracleStarts
  <2> QED
    BY <2>1, <2>2, <2>3, <2>4, Zenon DEF Environment
<1>4. UNCHANGED patchingVars => Op /\ Volumes
  BY Zenon DEF patchingVars
<1>5. Op /\ Volumes
  BY <1>1, <1>2, <1>3, <1>4, Zenon DEF PatchingNext
<1> QED
  BY <1>5, DisksStayTyped, OperationStaysTyped, Zenon DEF PatchingTypeOK

\* Every variable of the patching keeps its type.
THEOREM PatchingTypeCorrect == PatchingSpec => []PatchingTypeOK
<1>1. PatchingInit => PatchingTypeOK
  <2> SUFFICES ASSUME PatchingInit PROVE PatchingTypeOK
    BY Zenon
  <2>1. DisksTypeOK
    <3>1. DisksInit
      BY Zenon DEF PatchingInit
    <3>2. asked \in [Disks -> 0..MaxSize]
      BY <3>1, DisksAssumption DEF DisksInit
    <3> QED
      BY <3>1, <3>2, NewPVCsAreSizes, Zenon DEF DisksInit, DisksTypeOK
  <2>2. LRO!ServiceTypeOK
    <3>1. LRO!ServiceInit
      BY Zenon DEF PatchingInit
    <3> QED
      BY <3>1, Zenon DEF LRO!ServiceInit, LRO!ServiceTypeOK, LRO!OpStates
  <2>3. active \in ImagePairs /\ (spec = active \/ spec = [sts |-> active.sts])
    BY Zenon DEF PatchingInit
  <2>4. active.sts \in StsImages
    BY <2>3, Zenon DEF ImagePairs
  <2>5. spec \in Requests
    <3>1. ASSUME NEW i \in StsImages PROVE [sts |-> i] \in [sts : StsImages]
      BY Zenon
    <3> QED
      BY <2>3, <2>4, <3>1, Zenon DEF Requests
  <2>6. /\ failed = {} /\ specEdits = 0 /\ resources = TRUE
        /\ reason = "CreateComplete" /\ isReady = "True" /\ machine = ""
        /\ backupId = "none" /\ prepatch = "none" /\ kept = "gone"
        /\ stsImage = active.sts /\ volume = "good"
        /\ readiness = "ready" /\ oracle = "up"
    BY Zenon DEF PatchingInit
  <2> QED
    <3>1. MaxSpecEdits \in Nat
      BY ImagesAssumption, Zenon
    <3>2. 0 \in 0..MaxSpecEdits
      BY <3>1
    <3> QED
      BY <2>1, <2>2, <2>3, <2>4, <2>5, <2>6, <3>2, Zenon DEF PatchingTypeOK, Reasons, Contents
<1>2. ASSUME PatchingTypeOK, [PatchingNext]_patchingVars PROVE PatchingTypeOK'
  <2>edit. EditSpec => specEdits' \in 0..MaxSpecEdits
    <3>1. specEdits \in 0..MaxSpecEdits /\ MaxSpecEdits \in Nat
      BY <1>2, ImagesAssumption, Zenon DEF PatchingTypeOK
    <3> QED
      BY <3>1 DEF EditSpec
  <2> USE DEF Ready, Unready, PodReplaced, instanceStatus, world, Reasons, Contents
  <2>0. DisksTypeOK' /\ LRO!ServiceTypeOK'
    BY <1>2, StepOnDisks, Zenon
  <2>1. spec.sts \in StsImages /\ active.sts \in StsImages /\ overrideDefaultImages \in ImagePairs
    BY <1>2, ImagesAssumption, Zenon DEF PatchingTypeOK, Requests, ImagePairs,
       overrideDefaultImages
  <2> SUFFICES /\ spec' \in Requests /\ active' \in ImagePairs /\ failed' \in SUBSET Requests
               /\ specEdits' \in 0..MaxSpecEdits /\ resources' \in BOOLEAN
               /\ reason' \in Reasons /\ isReady' \in {"True", "False"}
               /\ machine' \in {"", "PatchingStateMachine"}
               /\ backupId' \in {"none", "prepatch", "other"}
               /\ prepatch' \in {"none", "creating", "ready", "error"}
               /\ kept' \in Contents /\ volume' \in Contents
               /\ stsImage' \in StsImages \union {"none"}
               /\ readiness' \in {"ready", "notReady"} /\ oracle' \in {"up", "down"}
    BY <2>0, Zenon DEF PatchingTypeOK
  <2> USE <1>2 DEF PatchingTypeOK
  <2>2. CASE StartPatching \/ AwaitBackup \/ PatchAgents \/ RollbackAgents \/ SkipStatefulSet
    BY <2>2, Zenon DEF StartPatching, startPatchingBackup, prePatchBackup, AwaitBackup,
       PatchAgents,
       RollbackAgents, SkipStatefulSet
  <2>3. CASE ReplaceStatefulSet \/ AwaitStatefulSet
    BY <2>1, <2>3, Zenon DEF ReplaceStatefulSet, AwaitStatefulSet
  <2>4. CASE StartDatabasePatching \/ AwaitDatabasePatching
    BY <2>4, Zenon DEF StartDatabasePatching, AwaitDatabasePatching
  <2>5. CASE PatchingDone \/ RecoveryDone
    BY <2>1, <2>5, Zenon DEF PatchingDone, RecoveryDone
  <2>6. CASE RemoveOld
    BY <2>6, Zenon DEF RemoveOld
  <2>7. CASE Recover
    BY <2>1, <2>7, Zenon DEF Recover, Restored
  <2>8. CASE RecreateStatefulSet \/ ResizeResources
    BY <2>1, <2>8, Zenon DEF RecreateStatefulSet, ResizeResources, Resizing
  <2>9. CASE ResizeDisks \/ ResizingDone \/ ApplyStatefulSet
    BY <2>1, <2>9, Zenon DEF ResizeDisks, ResizingDone, ApplyStatefulSet, Resizing
  <2>10. CASE UserChangesImages \/ UserChangesDisks \/ UserChangesResources
    <3>1. EditSpec
      BY <2>10, Zenon DEF UserChangesImages, UserChangesDisks, UserChangesResources
    <3> QED
      BY <2>edit, <2>10, <3>1, Zenon DEF UserChangesImages, UserChangesDisks,
         UserChangesResources
  <2>11. CASE StorageExpands \/ OtherBackupCompletes \/ SnapshotEnds
    BY <2>11, Zenon DEF StorageExpands, OtherBackupCompletes, SnapshotEnds
  <2>12. CASE PodGetsReady \/ OracleStarts
    BY <2>12, Zenon DEF PodGetsReady, OracleStarts
  <2>13. CASE DatapatchEnds \/ DatapatchExpires \/ UNCHANGED patchingVars
    BY <2>13, Zenon DEF DatapatchEnds, DatapatchExpires, patchingVars
  <2> QED
    BY <2>2, <2>3, <2>4, <2>5, <2>6, <2>7, <2>8, <2>9, <2>10, <2>11, <2>12, <2>13, Zenon
       DEF PatchingNext, StateMachine, MainLoop, Environment
<1> QED
  BY <1>1, <1>2, PTL DEF PatchingSpec

-----------------------------------------------------------------------------
(* The life cycle of an Instance.                                          *)

(* What the steps do to the state that the invariants below speak of.      *)

\* What only a reconcile changes.
Kept == UNCHANGED <<image, ready, dbReady, sts, svc, monitor, secret, toReady, toDb, early, resuming>>

SameFiles(h) ==
    /\ h \in Hosts
    /\ h.data = host.data /\ h.provisioned = host.provisioned
    /\ h.users = host.users /\ h.monitorUser = host.monitorUser

\* What a pod loses when it stops is not part of the files.
LEMMA Volatile ==
    ASSUME NEW h, SameFiles(h), NEW m \in Modes, NEW l \in {"down", "up"},
           NEW c \in {"unlinked", "linked"}, NEW y \in YesNo
    PROVE  /\ SameFiles([h EXCEPT !.db = m]) /\ SameFiles([h EXCEPT !.listener = l])
           /\ SameFiles([h EXCEPT !.config = c]) /\ SameFiles([h EXCEPT !.linked = y])
  BY Zenon DEF SameFiles, Hosts

\* The owner, the clock and Kubernetes around the pod.
Outside == EditStop \/ EditMode \/ EditDnfs \/ TimePasses \/ PodIsCreated \/ LoadBalancerChanges
           \/ UNCHANGED vars

OutsideChanges ==
    /\ Kept /\ UNCHANGED <<pc, host, createOp, bootOp, step, forgotten>>
    /\ pod' = pod \/ (pod = "none" /\ pod' = "init")
    /\ lb' = lb \/ (lb = "pending" /\ lb' = "ready") \/ (lb = "deleting" /\ lb' = "none")

\* Steps from outside leave the database and the reconcile alone.
LEMMA OutsideStep == Outside => OutsideChanges
<1> USE DEF OutsideChanges, Kept, conditions, kube, monitoring, daemon, control, history
<1>1. EditStop \/ EditMode \/ EditDnfs => OutsideChanges
  BY Zenon DEF EditStop, EditMode, EditDnfs, Edit
<1>2. TimePasses \/ UNCHANGED vars => OutsideChanges
  BY Zenon DEF TimePasses, vars
<1>3. PodIsCreated \/ LoadBalancerChanges => OutsideChanges
  BY Zenon DEF PodIsCreated, LoadBalancerChanges
<1> QED
  BY <1>1, <1>2, <1>3, Zenon DEF Outside

\* The pod and its daemon, beside the tasks.
Pod == PodStarts \/ PodStops \/ PodRestarts \/ StartScript \/ ScriptFails \/ OperationExpires

PodChanges ==
    /\ Kept /\ UNCHANGED <<pc, lb>> /\ SameFiles(host')
    /\ step' \in {step, "none"} /\ createOp' \in {createOp, "none"} /\ bootOp' \in {bootOp, "none"}
    /\ pod' \in {pod, "ready"} \/ (createOp' = "none" /\ bootOp' = "none" /\ step' = "none")
    /\ step' = "none" \/ bootOp' = bootOp \/ bootOp # "running"
    /\ forgotten' = "no" => /\ forgotten = "no"
                            /\ pc = "launch" /\ sts = "1" => bootOp' = bootOp

\* The volumes survive a restart of the pod; what the daemon knew may get lost.
LEMMA PodStep ==
    ASSUME host \in Hosts, pod # "ready" => bootOp = "none", Pod PROVE PodChanges
<1> USE DEF PodChanges, Kept, conditions, kube, monitoring, daemon, control, history
<1>0. SameFiles(host) /\ "down" \in Modes /\ "no" \in YesNo
  BY Zenon DEF SameFiles, Modes, YesNo
<1> DEFINE h1 == [host EXCEPT !.db = "down"]
           h2 == [h1 EXCEPT !.listener = "down"]
<1>a. SameFiles(h2)
  BY <1>0, Volatile, Zenon
<1>1. CASE PodStarts \/ PodRestarts
  <2> DEFINE h3 == [h2 EXCEPT !.linked = "no"]
             c == IF image = "unseeded" THEN "linked" ELSE "unlinked"
  <2>0. SameFiles(h3)
    BY <1>0, <1>a, Volatile, Zenon
  <2>4. c \in {"unlinked", "linked"}
    BY Zenon
  <2>1. StartPod
    BY <1>1, Zenon DEF PodStarts, PodRestarts
  <2>3. host' = [h3 EXCEPT !.config = c]
    BY <2>1, Zenon DEF StartPod
  <2>2. SameFiles(host')
    BY <1>0, <2>0, <2>3, <2>4, Volatile, Zenon
  <2> QED
    BY <1>1, <2>2, Zenon DEF PodStarts, PodRestarts, StartPod, StopDaemon
<1>2. CASE PodStops
  <2> DEFINE h3 == [h2 EXCEPT !.config = "unlinked"]
  <2>0. SameFiles(h3)
    BY <1>0, <1>a, Volatile, Zenon
  <2>1. SameFiles(host')
    BY <1>0, <1>2, <2>0, Volatile, Zenon DEF PodStops, StopHost
  <2> QED
    BY <1>2, <2>1, Zenon DEF PodStops, StopDaemon
<1>3. CASE StartScript
  <2>1. SameFiles(host')
    BY <1>3 DEF StartScript, relinkConfigFiles, startDB, initListeners, SeedTemp,
       reinitUnseededHost, Script, ScriptEnds, SameFiles, Hosts, YesNo, Modes
  <2>2. InPod /\ UNCHANGED <<createOp, bootOp, step, pc>>
    BY <1>3, Zenon DEF StartScript, relinkConfigFiles, startDB, initListeners, SeedTemp,
       reinitUnseededHost, Script, ScriptEnds
  <2> QED
    BY <2>1, <2>2, Zenon DEF InPod
<1>4. CASE ScriptFails
  <2>1. SameFiles(host')
    BY <1>4 DEF ScriptFails, HalfStarted, SameFiles, Hosts, YesNo, Modes
  <2> QED
    BY <1>4, <2>1, Zenon DEF ScriptFails, InPod
<1>5. CASE OperationExpires
  BY <1>0, <1>5, Zenon DEF OperationExpires
<1> QED
  BY <1>1, <1>2, <1>3, <1>4, <1>5, Zenon DEF Pod

\* What a subtask may do to the database: one of them makes the users, one writes the
\* files, and one completes them.
MayMake(s, h) ==
    /\ h \in Hosts
    /\ h.users = host.users \/ (h.users # "none" /\ s = "users")
    /\ s = "users" => h.users # "none"
    /\ h.data = host.data \/ (s = "move" /\ h.data = "partial")
                          \/ (s = "controlfile" /\ h.data = "created")
    /\ s = "controlfile" => h.data = "created"
    /\ h.provisioned = host.provisioned /\ h.monitorUser = host.monitorUser

\* What a subtask that fails may leave.
MayLeave(h) ==
    /\ h \in Hosts
    /\ host.users # "none" => h.users # "none"
    /\ h.data = host.data \/ step = "move"
    /\ h.provisioned = host.provisioned /\ h.monitorUser = host.monitorUser

TaskChanges ==
    /\ Kept /\ UNCHANGED <<lb, pod, createOp, forgotten>>
    /\ step # "none"
    /\ \/ /\ step # "mark" /\ step' = NextStep /\ MayMake(step, host')
          /\ UNCHANGED <<pc, bootOp>>
       \/ TaskError /\ MayLeave(host')

\* A subtask that runs.
LEMMA RunStep ==
    ASSUME host \in Hosts, NEW s, s \notin {"mark", "none"}, NEW possible, NEW h,
           Run(s, possible, h), MayMake(s, h)
    PROVE  TaskChanges
  BY Zenon DEF TaskChanges, Run, InPod, Kept, MayLeave, conditions, kube, monitoring

\* Every subtask is one that runs, or fails.
LEMMA TaskStep == ASSUME host \in Hosts, SubTask \/ TaskFails PROVE TaskChanges
<1> USE DEF MayMake, Hosts, YesNo, Modes
<1>1. CASE renameDatabase
  BY <1>1, RunStep, Zenon DEF renameDatabase, NID, shutdownDatabase
<1>2. CASE moveDataFiles \/ moveConfigFiles
  BY <1>2, RunStep, Zenon DEF moveDataFiles, moveConfigFiles
<1>7. CASE moveDatabase
  BY <1>7, RunStep, Zenon DEF moveDatabase
<1>3. CASE setParameters \/ setParametersHelper
  BY <1>3, RunStep, Zenon DEF setParameters, setParametersHelper, startupDatabase
<1>4. CASE runNID \/ prepDatabase
  BY <1>4, RunStep DEF runNID, prepDatabase, startupDatabase, NID, shutdownDatabase
<1>5. CASE setupUsers \/ CreateListener \/ createPDBSeedTemp
  BY <1>5, RunStep DEF setupUsers, CreateListener, createPDBSeedTemp
<1>6. CASE TaskFails
  <2>1. MayLeave(host')
    BY <1>6 DEF TaskFails, MayLeave, HalfStarted, HalfMade
  <2> QED
    BY <1>6, <2>1, Zenon DEF TaskFails, TaskChanges, InPod, Kept, conditions, kube, monitoring
<1> QED
  BY <1>1, <1>2, <1>3, <1>4, <1>5, <1>6, <1>7, Zenon DEF SubTask

DbcaChanges ==
    /\ Kept /\ UNCHANGED <<lb, pod, pc, bootOp, step, forgotten>>
    /\ createOp \in {"started", "running", "created"}
    /\ createOp' \in {"running", "created", "done", "failed"}
    /\ host' \in Hosts /\ host'.provisioned = host.provisioned
    /\ host'.users = host.users /\ host'.monitorUser = host.monitorUser
    /\ createOp' \in {"created", "done"} =>
         host'.data = "created" \/ (createOp = "created" /\ host'.data = host.data)

\* dbca writes files, and ends with the files complete or fails.
LEMMA DbcaStep == ASSUME host \in Hosts, Dbca PROVE DbcaChanges
<1>1. Kept /\ UNCHANGED <<lb, pod, pc, bootOp, step, forgotten>>
  BY Zenon DEF Dbca, createCDB, ProxyRunDbca, CreateCDBEnds, InPod, Kept, conditions, kube,
     monitoring
<1>2. CASE createCDB
  BY <1>1, <1>2, Zenon DEF DbcaChanges, createCDB, Hosts, YesNo, Modes
<1>3. CASE ProxyRunDbca
  <2> DEFINE h1 == [host EXCEPT !.data = "created"]
             h2 == [h1 EXCEPT !.db = "open"]
             h3 == [h2 EXCEPT !.config = "linked"]
             Fine(h) == /\ h \in Hosts /\ h.provisioned = host.provisioned
                        /\ h.users = host.users /\ h.monitorUser = host.monitorUser
  <2>1. Fine(h1) /\ h1.data = "created"
    BY Zenon DEF Hosts
  <2> HIDE DEF h1
  <2>2. Fine(h2) /\ h2.data = "created"
    BY <2>1 DEF Hosts, Modes
  <2> HIDE DEF h2
  <2>3. Fine(h3) /\ h3.data = "created"
    BY <2>2, Zenon DEF Hosts
  <2>4. \/ host' = h3 /\ createOp' = "created"
        \/ createOp' = "failed" /\ host' = host
        \/ createOp' = "failed" /\ host' = h2
    BY <1>3, Zenon DEF ProxyRunDbca, h1, h2
  <2> HIDE DEF h3
  <2> QED
    BY <1>1, <1>3, <2>2, <2>3, <2>4, Zenon DEF DbcaChanges, ProxyRunDbca
<1>4. CASE CreateCDBEnds
  BY <1>1, <1>4 DEF DbcaChanges, CreateCDBEnds, shutdownDatabase, Hosts, YesNo, Modes
<1> QED
  BY <1>2, <1>3, <1>4, Zenon DEF Dbca

CallFailsChanges ==
    /\ UNCHANGED <<image, ready, dbReady, monitor, secret, createOp, bootOp, step, early, resuming,
                   forgotten>>
    /\ pc \in Calls \ {"boot"}
    /\ IF pc \in StopSteps THEN pc' = "idle" /\ toDb' = "none"
                        ELSE pc' = "commit" /\ UNCHANGED <<toReady, toDb>>
    /\ host' \in Hosts /\ host'.data = host.data /\ host'.provisioned = host.provisioned
    /\ host'.users = host.users /\ (host.monitorUser # "none" => host'.monitorUser # "none")
    /\ UNCHANGED pod /\ sts' \in {sts, "1"} /\ (pc = "sts" \/ UNCHANGED <<sts, lb, svc>>)

\* A failed call leaves the files; it may have started or stopped the database.
LEMMA CallFailsStep == ASSUME host \in Hosts, CallFails PROVE CallFailsChanges
<1> DEFINE Fine == /\ host' \in Hosts /\ host'.data = host.data /\ host'.provisioned = host.provisioned
                   /\ host'.users = host.users /\ (host.monitorUser # "none" => host'.monitorUser # "none")
<1>1. Fine
  <2>1. CASE pc = "user"
    BY <2>1 DEF CallFails, HalfMade, Hosts
  <2>2. CASE pc # "user"
    BY <2>2 DEF CallFails, HalfStarted, HalfStopped, Hosts, Modes
  <2> QED
    BY <2>1, <2>2, Zenon
<1> QED
  BY <1>1, Zenon DEF CallFails, CallFailsChanges, ToIdle, Goto, SomeResources,
     createStatefulSet, conditions,
     kube, monitoring, daemon, history


DnfsChanges ==
    /\ Kept /\ UNCHANGED <<lb, pod, createOp, bootOp, step, forgotten>>
    /\ SameFiles(host')
    /\ pc \in DnfsSteps /\ pc' \in {"dnfs_down", "dnfs_up", "secret", "commit"}
    /\ pc' = "commit" \/ svc = "present"

\* The change of dNFS restarts the database, as far as the pod can be reached.
LEMMA DnfsStep == ASSUME host \in Hosts, setDnfs PROVE DnfsChanges
<1>1. Kept /\ UNCHANGED <<lb, pod, createOp, bootOp, step, forgotten>>
  BY Zenon DEF setDnfs, SetDnfsState, ShutdownForDnfs, StartupForDnfs, Goto, Kept,
     conditions, kube,
     monitoring, daemon, history
<1>2. SameFiles(host')
  BY DEF setDnfs, SetDnfsState, ShutdownForDnfs, StartupForDnfs, shutdownDatabase, Other,
     SameFiles,
     Hosts, Modes, YesNo
<1>3. /\ pc \in DnfsSteps /\ pc' \in {"dnfs_down", "dnfs_up", "secret", "commit"}
      /\ pc' = "commit" \/ svc = "present"
  BY Zenon DEF setDnfs, SetDnfsState, ShutdownForDnfs, StartupForDnfs, Goto, Reachable,
     DnfsSteps
<1> QED
  BY <1>1, <1>2, <1>3, Zenon DEF DnfsChanges

ProvisioningKeeps ==
    UNCHANGED <<image, ready, dbReady, sts, pod, lb, svc, toReady, early, resuming, forgotten>>

\* The steps of reconcileDatabaseInstance change neither the conditions nor the pod.
LEMMA ProvisioningStep == Provisioning => ProvisioningKeeps
<1> USE DEF ProvisioningKeeps, Goto, SetDb, conditions, kube, history
<1>1. SetPending \/ CreateCDB \/ PollCreateCDB \/ PollBootstrapDatabase => ProvisioningKeeps
  BY Zenon DEF SetPending, CreateCDB, PollCreateCDB, PollBootstrapDatabase, AfterOperation
<1>2. BootstrapDatabase \/ BootstrapDatabaseAsync \/ BootstrapLost => ProvisioningKeeps
  BY Zenon DEF BootstrapDatabase, BootstrapDatabaseAsync, BootstrapLost
<1>3. ReconcileServices \/ MonitoringSecret \/ MonitoringUser \/ NothingToDo => ProvisioningKeeps
  BY Zenon DEF ReconcileServices, MonitoringSecret, MonitoringUser, NothingToDo
<1> QED
  BY <1>1, <1>2, <1>3, Zenon DEF Provisioning

-----------------------------------------------------------------------------
(* The stop.                                                               *)

\* A reconcile that is not a stop, and so ends with the update of the status.
Busy == pc \notin StopSteps \cup {"idle"}

\* What each step of the stop leaves to the next one.
StopSoFar ==
    /\ pc \in StopSteps => ready # "Stopped"
    /\ pc \in {"stop_monitoring", "stop_services", "stop_check"} => sts = "0"
    /\ pc \in {"stop_services", "stop_check"} => monitor = "0"
    /\ pc = "stop_check" => svc = "none" /\ lb \in {"none", "deleting"}

Down == sts = "0" /\ lb = "none" /\ svc = "none" /\ monitor = "0"

\* The reconciles of a stopped Instance cannot reach the daemon, and write the
\* conditions that they have read.
StaysStopped ==
    ready = "Stopped" /\ early = "no" /\ resuming = "no" =>
        /\ Down /\ dbReady = "CreateComplete"
        /\ pc \in {"idle", "dnfs", "secret", "user", "commit"}
        /\ pc # "idle" => toReady = "Stopped" /\ toDb = "CreateComplete"

\* The task of an unseeded image runs inside a reconcile.
TaskIsReconciles == image = "unseeded" => pc # "launch" /\ (step # "none" => pc = "boot")

StopInv ==
    /\ StopSoFar /\ StaysStopped /\ TaskIsReconciles
    /\ Busy /\ toReady = "Stopped" => ready = "Stopped"

-----------------------------------------------------------------------------
(* The files of the database.                                              *)

\* The states of DatabaseInstanceReady after the creation of the database.
After == DbReasons \ {"none", "CreatePending", "CreateInProgress"}

CreationIsOver == createOp \in {"none", "done", "failed"}

\* Once the creation is over no reconcile goes back behind it.
CreatedOnce ==
    /\ dbReady \in DbReasons /\ toDb \in DbReasons
    /\ IF dbReady = "none" THEN CreationIsOver ELSE Busy => toDb # "none"
    /\ dbReady \in After => CreationIsOver /\ (Busy => toDb \in After)
    /\ Busy /\ toDb \in After => CreationIsOver

\* A bootstrap is begun only behind the creation and with the pod up, and what comes
\* last for a new database is done only then.
BootstrapInPod ==
    /\ pc \in {"launch", "boot"} => dbReady = "BootstrapPending"
    /\ pc \in DnfsSteps \cup {"secret", "user"} => dbReady \in After
    /\ pc \in {"progress", "db", "launch", "boot"} => sts = "1"
    /\ pod # "ready" => createOp = "none" /\ bootOp = "none" /\ step = "none"
    /\ step # "none" => dbReady \in After
    /\ image # "unseeded" /\ step # "none" => bootOp = "running"

\* No task runs on a provisioned database, and none can be launched.
BootstrappedOnce ==
    host.provisioned = "yes" =>
        /\ dbReady \in After
        /\ forgotten = "no" => step = "none" /\ (pc = "launch" => bootOp # "none")

FilesInv ==
    /\ host \in Hosts
    /\ TaskIsReconciles /\ CreatedOnce /\ BootstrapInPod /\ BootstrappedOnce

\* A step leaves the files of a provisioned database as they are and begins no task
\* that would make them.
FilesKept ==
    host.provisioned = "yes" /\ forgotten = "no" =>
        host'.data = host.data /\ step' \notin {"rename", "move"}
-----------------------------------------------------------------------------
\* FilesInv holds at the start.
LEMMA FilesInit == Init => FilesInv
<1> SUFFICES ASSUME Init PROVE FilesInv
  BY Zenon
<1>1. host \in Hosts /\ host.provisioned = "no"
  BY Zenon DEF Init, Hosts, YesNo, Modes
<1>2. TaskIsReconciles /\ CreatedOnce /\ BootstrapInPod
  BY Zenon DEF Init, TaskIsReconciles, CreatedOnce, BootstrapInPod, Busy, CreationIsOver,
     DnfsSteps,
         After, DbReasons, StopSteps
<1> QED
  BY <1>1, <1>2, Zenon DEF FilesInv, BootstrappedOnce

\* Every step keeps FilesInv, and the files of a provisioned database.
LEMMA FilesStep == FilesInv /\ [Next]_vars => FilesInv' /\ FilesKept
<1> SUFFICES ASSUME FilesInv, [Next]_vars PROVE FilesInv' /\ FilesKept
  BY Zenon
<1> USE DEF FilesInv, FilesKept, TaskIsReconciles, CreatedOnce, BootstrapInPod,
     BootstrappedOnce, Busy, After, CreationIsOver, Hosts, YesNo, Modes, DbReasons,
     StopSteps, Calls, DnfsSteps
<1>1. CASE Outside
  BY <1>1, OutsideStep DEF OutsideChanges, Kept
<1>2. CASE Pod
  BY <1>2, PodStep DEF PodChanges, Kept, SameFiles
<1>3. CASE CallFails
  BY <1>3, CallFailsStep DEF CallFailsChanges
<1>4. CASE CutShort
  BY <1>4 DEF CutShort, ToIdle, SomeResources, createStatefulSet, createDBLoadBalancer,
       conditions, kube, monitoring, history
<1>5. CASE SubTask \/ TaskFails
  BY <1>5, TaskStep DEF TaskChanges, Kept, MayMake, MayLeave, TaskError
<1>6. CASE MarkProvisioned
  BY <1>6 DEF MarkProvisioned, conditions, kube, monitoring, history
<1>7. CASE Dbca
  BY <1>7, DbcaStep DEF DbcaChanges, Kept
<1>8. CASE Stopping
  <2> USE DEF ToIdle, Goto, conditions, kube, monitoring, daemon, history
  <2>1. CASE reconcileInstanceStop \/ stopDBStatefulset
    BY <2>1 DEF reconcileInstanceStop, stopDBStatefulset
  <2>2. CASE stopMonitoringDeployment \/ deleteServices
    BY <2>2 DEF stopMonitoringDeployment, createMonitoringDeployment, deleteServices
  <2>3. CASE InstanceStopped
    BY <2>3 DEF InstanceStopped
  <2> QED
    BY <1>8, <2>1, <2>2, <2>3, Zenon DEF Stopping
<1>9. CASE Pause
  BY <1>9 DEF Pause, Begins, Pausing, Restarting, conditions, kube, monitoring, daemon,
     history
<1>10. CASE Reconcile
  BY <1>10 DEF Reconcile, Begins, Pausing, Restarting, Provisioned, IsTrue, conditions, kube,
       monitoring, daemon
<1>11. CASE setDnfs
  BY <1>11, DnfsStep DEF DnfsChanges, Kept, SameFiles
<1>12. CASE CreateResources
  BY <1>12 DEF CreateResources, createStatefulSet, createDBLoadBalancer,
     createDataplaneServices,
       Goto, conditions, monitoring, daemon, history
<1>13. CASE updateProgressCondition
  BY <1>13 DEF updateProgressCondition, IsTrue, conditions, kube, monitoring, daemon, history
<1>14. CASE updateStatus
  BY <1>14 DEF updateStatus, ToIdle, conditions, kube, monitoring, daemon, history
<1>15. CASE Provisioning
  <2>0. ProvisioningKeeps
    BY <1>15, ProvisioningStep, Zenon
  <2> USE DEF ProvisioningKeeps, Goto, SetDb, monitoring, daemon
  <2>1. CASE SetPending
    BY <2>0, <2>1 DEF SetPending, InDb, Reachable, isImageSeeded
  <2>2. CASE CreateCDB
    BY <2>0, <2>2 DEF CreateCDB, InDb, Reachable
  <2>3. CASE PollCreateCDB
    BY <2>0, <2>3 DEF PollCreateCDB, InDb, Reachable, AfterOperation
  <2>4. CASE BootstrapDatabase
    BY <2>0, <2>4 DEF BootstrapDatabase, InDb, Reachable, isImageSeeded
  <2>5. CASE BootstrapDatabaseAsync
    BY <2>0, <2>5 DEF BootstrapDatabaseAsync, Reachable
  <2>6. CASE BootstrapLost
    BY <2>0, <2>6 DEF BootstrapLost
  <2>7. CASE PollBootstrapDatabase
    BY <2>0, <2>7 DEF PollBootstrapDatabase, InDb, Reachable, AfterOperation
  <2>8. CASE ReconcileServices
    BY <2>0, <2>8 DEF ReconcileServices, InDb, Reachable
  <2>9. CASE MonitoringSecret
    BY <2>0, <2>9 DEF MonitoringSecret
  <2>10. CASE MonitoringUser
    BY <2>0, <2>10 DEF MonitoringUser, Reachable
  <2>11. CASE NothingToDo
    BY <2>0, <2>11 DEF NothingToDo
  <2> QED
    BY <1>15, <2>1, <2>2, <2>3, <2>4, <2>5, <2>6, <2>7, <2>8, <2>9, <2>10, <2>11,
       Zenon DEF Provisioning
<1> QED
  BY <1>1, <1>2, <1>3, <1>4, <1>5, <1>6, <1>7, <1>8,
     <1>9, <1>10, <1>11, <1>12, <1>13, <1>14, <1>15, Zenon
     DEF Next, Task, Reconciling, Kubernetes, Outside, Pod

\* Every step keeps StopInv.
LEMMA StopStep == StopInv /\ FilesInv /\ [Next]_vars => StopInv'
<1> SUFFICES ASSUME StopInv, FilesInv, [Next]_vars PROVE StopInv'
  BY Zenon
<1>0. host \in Hosts /\ (pod # "ready" => bootOp = "none")
  BY Zenon DEF FilesInv, BootstrapInPod
<1> USE DEF StopInv, StopSoFar, StaysStopped, TaskIsReconciles, Busy, Down, StopSteps,
        Calls, DnfsSteps
<1>1. CASE Outside
  BY <1>1, OutsideStep DEF OutsideChanges, Kept
<1>2. CASE Pod
  BY <1>0, <1>2, PodStep DEF PodChanges, Kept
<1>3. CASE CallFails
  BY <1>0, <1>3, CallFailsStep DEF CallFailsChanges
<1>4. CASE CutShort
  BY <1>4, Zenon DEF CutShort, ToIdle, SomeResources, createStatefulSet, createDBLoadBalancer,
       conditions, kube, monitoring, history
<1>5. CASE SubTask \/ TaskFails
  BY <1>0, <1>5, TaskStep, Zenon DEF TaskChanges, Kept, TaskError
<1>6. CASE MarkProvisioned
  BY <1>6, Zenon DEF MarkProvisioned, conditions, kube, monitoring, history
<1>7. CASE Dbca
  BY <1>0, <1>7, DbcaStep DEF DbcaChanges, Kept
<1>8. CASE Stopping
  <2> USE DEF ToIdle, Goto, conditions, kube, monitoring, daemon, history
  <2>1. CASE reconcileInstanceStop \/ stopDBStatefulset
    BY <2>1, Zenon DEF reconcileInstanceStop, stopDBStatefulset
  <2>2. CASE stopMonitoringDeployment \/ deleteServices
    BY <2>2, Zenon DEF stopMonitoringDeployment, createMonitoringDeployment, deleteServices
  <2>3. CASE InstanceStopped
    BY <2>3, Zenon DEF InstanceStopped
  <2> QED
    BY <1>8, <2>1, <2>2, <2>3, Zenon DEF Stopping
<1>9. CASE Pause
  BY <1>9, Zenon DEF Pause, Begins, Pausing, Restarting, conditions, kube, monitoring,
     daemon, history
<1>10. CASE Reconcile
  BY <1>10, Zenon DEF Reconcile, Begins, Pausing, Restarting, Provisioned, IsTrue,
     conditions, kube,
       monitoring, daemon
<1>11. CASE setDnfs
  BY <1>0, <1>11, DnfsStep, Zenon DEF DnfsChanges, Kept
<1>12. CASE CreateResources
  BY <1>12, Zenon DEF CreateResources, createStatefulSet, createDBLoadBalancer,
     createDataplaneServices,
       Goto, conditions, monitoring, daemon, history
<1>13. CASE updateProgressCondition
  BY <1>13, Zenon DEF updateProgressCondition, IsTrue, conditions, kube, monitoring, daemon,
     history
<1>14. CASE updateStatus
  BY <1>14, Zenon DEF updateStatus, ToIdle, conditions, kube, monitoring, daemon, history
<1>15. CASE Provisioning
  <2>0. ProvisioningKeeps
    BY <1>15, ProvisioningStep, Zenon
  <2> USE DEF ProvisioningKeeps, Goto, SetDb, monitoring, daemon
  <2>1. CASE SetPending
    BY <2>0, <2>1, Zenon DEF SetPending, InDb, Reachable, isImageSeeded
  <2>2. CASE CreateCDB
    BY <2>0, <2>2, Zenon DEF CreateCDB, InDb, Reachable
  <2>3. CASE PollCreateCDB
    BY <2>0, <2>3, Zenon DEF PollCreateCDB, InDb, Reachable, AfterOperation
  <2>4. CASE BootstrapDatabase
    BY <1>0, <2>0, <2>4, Zenon DEF BootstrapDatabase, InDb, isImageSeeded, Hosts, YesNo
  <2>5. CASE BootstrapDatabaseAsync
    BY <2>0, <2>5, Zenon DEF BootstrapDatabaseAsync, Reachable
  <2>6. CASE BootstrapLost
    BY <2>0, <2>6, Zenon DEF BootstrapLost
  <2>7. CASE PollBootstrapDatabase
    BY <2>0, <2>7, Zenon DEF PollBootstrapDatabase, InDb, Reachable, AfterOperation
  <2>8. CASE ReconcileServices
    BY <2>0, <2>8, Zenon DEF ReconcileServices, InDb, Reachable
  <2>9. CASE MonitoringSecret
    BY <2>0, <2>9, Zenon DEF MonitoringSecret
  <2>10. CASE MonitoringUser
    BY <2>0, <2>10, Zenon DEF MonitoringUser, Reachable, createMonitoringDeployment
  <2>11. CASE NothingToDo
    BY <2>0, <2>11, Zenon DEF NothingToDo
  <2> QED
    BY <1>15, <2>1, <2>2, <2>3, <2>4, <2>5, <2>6, <2>7, <2>8, <2>9, <2>10, <2>11,
       Zenon DEF Provisioning
<1> QED
  BY <1>1, <1>2, <1>3, <1>4, <1>5, <1>6, <1>7, <1>8,
     <1>9, <1>10, <1>11, <1>12, <1>13, <1>14, <1>15, Zenon
     DEF Next, Task, Reconciling, Kubernetes, Outside, Pod

\* A stopped Instance stays down (reconcileInstanceStop, the reconciles of a stopped
\* Instance): the property StoppedIsDown of the model-checking run, with any number
\* of events.
THEOREM StoppedStaysDown == Spec => []StoppedIsDown
<1>1. Init => StopInv
  BY Zenon DEF Init, StopInv, StopSoFar, StaysStopped, TaskIsReconciles, Busy, StopSteps
<1>2. StopInv => StoppedIsDown
  BY Zenon DEF StopInv, StaysStopped, Down, StoppedIsDown
<1>3. FilesInv => host \in Hosts
  BY Zenon DEF FilesInv
<1> QED
  BY <1>1, <1>2, <1>3, StopStep, FilesStep, FilesInit, PTL DEF Spec

\* The files of a provisioned database are never made again (BootstrapDatabase, the
\* launch of a bootstrap and CreateCDB): the property NothingIsOverwritten, with any
\* number of events.
THEOREM ProvisionedIsNotOverwritten == Spec => NothingIsOverwritten
<1>1. FilesKept => (host.provisioned = "yes" /\ forgotten = "no" =>
                      host'.data = host.data /\ step' \notin {"rename", "move"})
  BY Zenon DEF FilesKept
<1> QED
  BY FilesInit, FilesStep, <1>1, PTL DEF Spec, NothingIsOverwritten


-----------------------------------------------------------------------------
(* What a ready database says.                                             *)

\* The subtasks behind the one that creates the users, ...
AfterUsers == {"listener", "seed", "mark"}

\* ... and those of a seeded image behind the one that makes the new control file.
AfterControlfile == {"nidmount", "nid", "mount", "prep", "users"} \cup AfterUsers

\* The subtasks of the image.
Tasks == {SubTasks[image][i] : i \in 1..Len(SubTasks[image])}

\* The reasons of DatabaseInstanceReady behind a creation that went well, ...
Made == After \ {"CreateFailed"}

\* ... and behind a bootstrap.
Booted == {"ReconcileServices", "CreateComplete"}

\* The condition, or the one that the reconcile is about to write.
DbIn(S) == dbReady \in S \/ (Busy /\ toDb \in S)

\* The files are complete and the users are there at the end of the bootstrap, ...
TaskSoFar ==
    /\ step \in AfterUsers => host.users # "none"
    /\ image # "unseeded" /\ step \in AfterControlfile => host.data = "created"
    /\ image \in Images /\ step \in {"none"} \cup Tasks
    /\ image = "unseeded" /\ (createOp \in {"created", "done"} \/ DbIn(Made)) => host.data = "created"

\* ... which is known by the provisioning file ...
MarkedAtEnd ==
    /\ host.provisioned = "yes" => host.data = "created" /\ host.users # "none"
    /\ bootOp = "done" \/ DbIn(Booted) => host.provisioned = "yes"

\* ... and only then monitored.
MonitoredLast ==
    /\ pc \in DnfsSteps \cup {"secret", "user"} => dbReady \in Booted
    /\ pc = "user" => secret = "yes"
    /\ DbIn({"CreateComplete"}) => host.monitorUser # "none" /\ secret = "yes"

ProvisionInv == forgotten = "no" => TaskSoFar /\ MarkedAtEnd /\ MonitoredLast

\* What the order of the subtasks says of a subtask and the next one, ...
LEMMA OrderOfTasks ==
    ASSUME image \in Images, step \in Tasks, step # "mark"
    PROVE  /\ NextStep \in {"none"} \cup Tasks
           /\ NextStep \in AfterUsers => step \in AfterUsers \cup {"users"}
           /\ image # "unseeded" /\ NextStep \in AfterControlfile => step \in AfterControlfile \cup {"controlfile"}
<1> DEFINE tasks == SubTasks[image]
           n == CHOOSE i \in 1..Len(tasks) : tasks[i] = step
<1>1. n \in 1..Len(tasks) /\ tasks[n] = step
  BY Zenon DEF Tasks
<1>2. NextStep = IF n = Len(tasks) THEN "none" ELSE tasks[n + 1]
  BY Zenon DEF NextStep
<1> HIDE DEF n
<1>3. CASE image = "unseeded"
  <2>1. tasks = <<"start", "set", "mount", "prep", "users", "seed", "listener", "mark">>
    BY <1>3, Zenon DEF SubTasks
  <2>2. n = 8 \/ (n + 1 \in 1..Len(tasks))
    BY <1>1, <2>1
  <2> QED
    BY <1>1, <1>2, <1>3, <2>1, <2>2 DEF AfterUsers, Tasks
<1>4. CASE image = "seeded"
  <2>1. tasks = <<"move", "config", "start", "set", "controlfile", "nidmount", "nid", "mount",
                    "prep", "users", "listener", "seed", "mark">>
    BY <1>4, Zenon DEF SubTasks
  <2>2. n = 13 \/ (n + 1 \in 1..Len(tasks))
    BY <1>1, <2>1
  <2> QED
    BY <1>1, <1>2, <1>4, <2>1, <2>2 DEF AfterUsers, AfterControlfile, Tasks
<1>5. CASE image = "renamed"
  <2>1. tasks = <<"rename", "renamenid", "reopen", "close", "move", "config", "start", "set",
                    "controlfile", "mount", "prep", "users", "listener", "seed", "mark">>
    BY <1>5, Zenon DEF SubTasks
  <2>2. n = 15 \/ (n + 1 \in 1..Len(tasks))
    BY <1>1, <2>1
  <2> QED
    BY <1>1, <1>2, <1>5, <2>1, <2>2 DEF AfterUsers, AfterControlfile, Tasks
<1> QED
  BY <1>3, <1>4, <1>5, Zenon DEF Images, SubTasks

\* ... of the first one, and of those of an unseeded image.
LEMMA FirstTask ==
    ASSUME image \in Images
    PROVE  /\ FirstStep \in Tasks /\ FirstStep \in {"start", "move", "rename"}
           /\ image # "unseeded" => FirstStep # "start"
           /\ image = "unseeded" => {"move", "controlfile"} \cap Tasks = {}
<1>1. CASE image = "unseeded"
  <2>1. SubTasks[image] = <<"start", "set", "mount", "prep", "users", "seed", "listener", "mark">>
    BY <1>1, Zenon DEF SubTasks
  <2> QED
    BY <1>1, <2>1 DEF FirstStep, Tasks
<1>2. CASE image = "seeded"
  <2>1. SubTasks[image] = <<"move", "config", "start", "set", "controlfile", "nidmount", "nid", "mount",
                            "prep", "users", "listener", "seed", "mark">>
    BY <1>2, Zenon DEF SubTasks
  <2> QED
    BY <1>2, <2>1 DEF FirstStep, Tasks
<1>3. CASE image = "renamed"
  <2>1. SubTasks[image] = <<"rename", "renamenid", "reopen", "close", "move", "config", "start", "set",
                            "controlfile", "mount", "prep", "users", "listener", "seed", "mark">>
    BY <1>3, Zenon DEF SubTasks
  <2> QED
    BY <1>3, <2>1 DEF FirstStep, Tasks
<1> QED
  BY <1>1, <1>2, <1>3, Zenon DEF Images, SubTasks

\* A subtask, done or failed, keeps ProvisionInv.
LEMMA TaskKeepsProvision ==
    ASSUME FilesInv, ProvisionInv, TaskChanges, forgotten = "no"
    PROVE  (TaskSoFar /\ MarkedAtEnd /\ MonitoredLast)'
<1>0. /\ TaskSoFar /\ MarkedAtEnd /\ MonitoredLast
      /\ host.provisioned = "no" /\ step \in Tasks
      /\ UNCHANGED <<image, dbReady, secret, toDb, createOp>>
  BY Zenon DEF TaskChanges, Kept, ProvisionInv, TaskSoFar, FilesInv, BootstrappedOnce,
     Hosts, YesNo
<1>1. Tasks' = Tasks /\ image \in Images
  BY <1>0, Zenon DEF Tasks, TaskSoFar
<1>2. CASE step # "mark" /\ step' = NextStep /\ MayMake(step, host') /\ UNCHANGED <<pc, bootOp>>
  <2>1. DbIn(Booted)' = DbIn(Booted) /\ DbIn({"CreateComplete"})' = DbIn({"CreateComplete"}) /\ DbIn(Made)' = DbIn(Made)
    BY <1>0, <1>2, Zenon DEF DbIn, Busy
  <2>2. MarkedAtEnd' /\ MonitoredLast'
    BY <1>0, <1>2, <2>1, Zenon DEF MarkedAtEnd, MonitoredLast, MayMake
  <2>3. TaskSoFar'
    BY <1>0, <1>1, <1>2, <2>1, OrderOfTasks, FirstTask, Zenon DEF TaskSoFar, MayMake,
       AfterUsers, AfterControlfile
  <2> QED
    BY <2>2, <2>3, Zenon
<1>3. CASE TaskError /\ MayLeave(host')
  <2>1. image = "unseeded" => host'.data = host.data
    BY <1>0, <1>1, <1>3, FirstTask, Zenon DEF MayLeave
  <2>2. Busy' => Busy
    BY <1>3, <1>0, Zenon DEF TaskChanges, TaskError, FilesInv, TaskIsReconciles, Busy,
       StopSteps
  <2>3. /\ DbIn(Booted)' => DbIn(Booted)
        /\ DbIn({"CreateComplete"})' => DbIn({"CreateComplete"})
        /\ DbIn(Made)' => DbIn(Made)
    BY <1>0, <2>2, Zenon DEF DbIn
  <2> QED
    BY <1>0, <1>1, <1>3, <2>1, <2>3, Zenon DEF TaskSoFar, MarkedAtEnd, MonitoredLast,
       MayLeave, TaskError,
       AfterUsers, AfterControlfile, DnfsSteps
<1> QED
  BY <1>2, <1>3, Zenon DEF TaskChanges

\* The reason that a reconcile is about to give is one that the state has earned.
Earned(r) ==
    /\ r \in Made /\ image = "unseeded" => createOp = "done" \/ dbReady \in Made
    /\ r \in Booted => bootOp = "done" \/ host.provisioned = "yes"
    /\ r = "CreateComplete" => secret = "yes" /\ host'.monitorUser # "none"

\* A step that takes nothing back, begins a task at its beginning and gives no reason
\* without having earned it.
Orderly ==
    /\ UNCHANGED <<image, dbReady>> /\ (forgotten' = "no" => forgotten = "no")
    /\ host'.data = host.data /\ host'.provisioned = host.provisioned /\ host'.users = host.users
    /\ host.monitorUser # "none" => host'.monitorUser # "none"
    /\ secret = "yes" => secret' = "yes"
    /\ step' \in {step, "none", FirstStep}
    /\ createOp' \in {createOp, "none", "started"} /\ bootOp' \in {bootOp, "none", "running"}
    /\ Busy' => toDb' = dbReady \/ (Busy /\ toDb' = toDb) \/ Earned(toDb')
    /\ pc' \in DnfsSteps \cup {"secret", "user"} => dbReady \in Booted
    /\ pc' = "user" => secret' = "yes"

LEMMA OrderlyStep == ASSUME ProvisionInv, Orderly PROVE ProvisionInv'
<1> SUFFICES ASSUME forgotten' = "no" PROVE (TaskSoFar /\ MarkedAtEnd /\ MonitoredLast)'
  BY Zenon DEF ProvisionInv
<1>1. TaskSoFar /\ MarkedAtEnd /\ MonitoredLast
  BY Zenon DEF Orderly, ProvisionInv
<1>2. /\ DbIn(Booted)' => DbIn(Booted) \/ bootOp = "done" \/ host.provisioned = "yes"
      /\ DbIn({"CreateComplete"})' => \/ DbIn({"CreateComplete"})
                                      \/ secret = "yes" /\ host'.monitorUser # "none"
      /\ image = "unseeded" /\ DbIn(Made)' => DbIn(Made) \/ createOp = "done"
  BY Zenon DEF DbIn, Orderly, Earned
<1>3. Tasks' = Tasks /\ image \in Images
  BY <1>1, Zenon DEF Tasks, Orderly, TaskSoFar
<1>4. MarkedAtEnd' /\ MonitoredLast'
  BY <1>1, <1>2, Zenon DEF Orderly, MarkedAtEnd, MonitoredLast
<1>5. TaskSoFar'
  BY <1>1, <1>2, <1>3, FirstTask, Zenon DEF Orderly, TaskSoFar, AfterUsers, AfterControlfile
<1> QED
  BY <1>4, <1>5, Zenon

\* Beside the tasks, only dbca and the update of the status are more than that.
LEMMA OrderlySteps ==
    ASSUME FilesInv, ProvisionInv, forgotten' = "no",
           \/ Outside \/ Pod \/ CallFails \/ CutShort
           \/ Stopping \/ Pause \/ Reconcile \/ setDnfs \/ CreateResources \/ updateProgressCondition
           \/ Provisioning
    PROVE  Orderly
<1>0. host \in Hosts /\ (pod # "ready" => bootOp = "none")
  BY Zenon DEF FilesInv, BootstrapInPod
<1>m. forgotten = "no" => /\ pc \in DnfsSteps \cup {"secret", "user"} => dbReady \in Booted
                          /\ pc = "user" => secret = "yes" /\ host.provisioned = "yes"
  BY Zenon DEF ProvisionInv, MonitoredLast, MarkedAtEnd, DbIn
<1> USE DEF Orderly
<1>1. CASE Outside
  BY <1>m, <1>1, OutsideStep, Zenon DEF OutsideChanges, Kept, Busy
<1>2. CASE Pod
  BY <1>0, <1>m, <1>2, PodStep, Zenon DEF PodChanges, Kept, SameFiles, Busy
<1>3. CASE CallFails
  BY <1>0, <1>3, CallFailsStep, Zenon DEF CallFailsChanges, Calls, Busy, StopSteps, DnfsSteps
<1>4. CASE CutShort
  BY <1>4, Zenon DEF CutShort, ToIdle, conditions, monitoring, history, Busy, DnfsSteps
<1>5. CASE Stopping
  <2> DEFINE Stops == /\ UNCHANGED <<image, dbReady, secret, forgotten, host, createOp, bootOp, step>>
                      /\ pc' \in StopSteps \cup {"idle"}
  <2> USE DEF ToIdle, Goto, StopSteps, conditions, monitoring, daemon, history
  <2>1. reconcileInstanceStop \/ stopDBStatefulset => Stops
    BY Zenon DEF reconcileInstanceStop, stopDBStatefulset
  <2>2. stopMonitoringDeployment \/ deleteServices => Stops
    BY Zenon DEF stopMonitoringDeployment, deleteServices
  <2>3. InstanceStopped => Stops
    BY Zenon DEF InstanceStopped
  <2>4. Stops
    BY <1>5, <2>1, <2>2, <2>3, Zenon DEF Stopping
  <2> QED
    BY <2>4, Zenon DEF Busy, DnfsSteps
<1>6. CASE Pause
  BY <1>6, Zenon DEF Pause, conditions, monitoring, daemon, history, Busy, DnfsSteps
<1>7. CASE Reconcile
  BY <1>7, Zenon DEF Reconcile, Provisioned, Booted, conditions, monitoring, daemon, Busy,
     DnfsSteps
<1>8. CASE setDnfs
  BY <1>0, <1>m, <1>8, DnfsStep, Zenon DEF DnfsChanges, Kept, SameFiles, Busy, StopSteps,
     DnfsSteps
<1>9. CASE CreateResources
  BY <1>9, Zenon DEF CreateResources, Goto, conditions, monitoring, daemon, history, Busy,
     StopSteps, DnfsSteps
<1>10. CASE updateProgressCondition
  BY <1>10, Zenon DEF updateProgressCondition, conditions, monitoring, daemon, history,
     Busy, StopSteps, DnfsSteps
<1>11. CASE Provisioning
  <2>1. ProvisioningKeeps
    BY <1>11, ProvisioningStep, Zenon
  <2>2. /\ pc \in {"db", "launch", "boot", "secret", "user"} => Busy
        /\ {"commit", "boot", "launch"} \cap (DnfsSteps \cup {"secret", "user"}) = {}
    BY Zenon DEF Busy, StopSteps, DnfsSteps
  <2>3. pc = "launch" => dbReady = "BootstrapPending"
    BY Zenon DEF FilesInv, BootstrapInPod
  <2> USE DEF ProvisioningKeeps, Earned, Made, After, DbReasons, Booted
  <2>4. CASE BootstrapLost \/ NothingToDo
    BY <2>1, <2>2, <2>4, Zenon DEF BootstrapLost, NothingToDo, Goto, monitoring, daemon
  <2>5. CASE ReconcileServices
    BY <2>1, <2>2, <2>5, Zenon DEF ReconcileServices, InDb, Goto, monitoring, daemon
  <2>6. CASE SetPending
    BY <2>1, <2>2, <2>6, Zenon DEF SetPending, SetDb, isImageSeeded, monitoring, daemon
  <2>7. CASE CreateCDB
    BY <2>1, <2>2, <2>7, Zenon DEF CreateCDB, SetDb, monitoring
  <2>8. CASE PollCreateCDB
    BY <2>1, <2>2, <2>8, Zenon DEF PollCreateCDB, InDb, AfterOperation, SetDb, Goto,
       monitoring, daemon
  <2>9. CASE BootstrapDatabase
    BY <1>0, <2>1, <2>2, <2>9, Zenon DEF BootstrapDatabase, InDb, isImageSeeded, SetDb,
       Goto, monitoring,
       Hosts, YesNo
  <2>10. CASE BootstrapDatabaseAsync
    BY <2>1, <2>2, <2>3, <2>10, Zenon DEF BootstrapDatabaseAsync, SetDb, Goto, monitoring
  <2>11. CASE PollBootstrapDatabase
    BY <2>1, <2>2, <2>11, Zenon DEF PollBootstrapDatabase, InDb, AfterOperation, SetDb,
       Goto, monitoring, daemon
  <2>12. CASE MonitoringSecret
    BY <1>m, <2>1, <2>2, <2>12, Zenon DEF MonitoringSecret, Goto, daemon
  <2>13. CASE MonitoringUser
    BY <1>0, <1>m, <2>1, <2>2, <2>13 DEF MonitoringUser, SetDb, Goto, daemon, Hosts
  <2> QED
    BY <1>11, <2>4, <2>5, <2>6, <2>7, <2>8, <2>9, <2>10, <2>11, <2>12, <2>13,
       Zenon DEF Provisioning
<1> QED
  BY <1>1, <1>2, <1>3, <1>4, <1>5, <1>6, <1>7, <1>8, <1>9, <1>10, <1>11, Zenon

\* Every step keeps ProvisionInv.
LEMMA ProvisionStep == FilesInv /\ ProvisionInv /\ [Next]_vars => ProvisionInv'
<1> SUFFICES ASSUME FilesInv, ProvisionInv, [Next]_vars, forgotten' = "no" PROVE ProvisionInv'
  BY Zenon DEF ProvisionInv
<1>0. host \in Hosts
  BY Zenon DEF FilesInv
<1>1. CASE \/ Outside \/ Pod \/ CallFails \/ CutShort
           \/ Stopping \/ Pause \/ Reconcile \/ setDnfs \/ CreateResources \/ updateProgressCondition
           \/ Provisioning
  BY <1>1, OrderlySteps, OrderlyStep, Zenon
<1>2. CASE SubTask \/ TaskFails
  <2>1. TaskChanges /\ forgotten = "no"
    BY <1>0, <1>2, TaskStep, Zenon DEF TaskChanges
  <2> QED
    BY <2>1, TaskKeepsProvision, Zenon DEF ProvisionInv
<1>3. ASSUME MarkProvisioned \/ Dbca \/ updateStatus PROVE ProvisionInv'
  <2>1. MarkProvisioned \/ updateStatus => UNCHANGED <<image, forgotten>>
    BY Zenon DEF MarkProvisioned, updateStatus, history
  <2>2. Dbca => UNCHANGED <<image, forgotten>>
    BY <1>0, DbcaStep, Zenon DEF DbcaChanges, Kept
  <2>3. TaskSoFar /\ MarkedAtEnd /\ MonitoredLast
    BY <1>3, <2>1, <2>2, Zenon DEF ProvisionInv
  <2>4. Tasks' = Tasks
    BY <1>3, <2>1, <2>2, Zenon DEF Tasks
  <2> SUFFICES TaskSoFar' /\ MarkedAtEnd' /\ MonitoredLast'
    BY Zenon DEF ProvisionInv
  <2> USE DEF TaskSoFar, MarkedAtEnd, MonitoredLast, DbIn, Made, After, Booted, AfterUsers,
          AfterControlfile
  <2>5. CASE MarkProvisioned
    BY <1>0, <2>3, <2>4, <2>5, Zenon DEF MarkProvisioned, conditions, monitoring, Hosts,
       YesNo, FilesInv,
       BootstrapInPod, TaskIsReconciles, Busy, StopSteps, DnfsSteps
  <2>6. CASE Dbca
    <3>1. DbcaChanges
      BY <1>0, <2>6, DbcaStep, Zenon
    <3>2. ~ DbIn(After) /\ step = "none" /\ host.provisioned # "yes"
      BY <1>0, <3>1, Zenon DEF DbcaChanges, FilesInv, CreatedOnce, CreationIsOver,
         BootstrapInPod, BootstrappedOnce
    <3> QED
      BY <2>3, <2>4, <3>1, <3>2, Zenon DEF DbcaChanges, Kept, Busy
  <2>7. CASE updateStatus
    BY <2>3, <2>4, <2>7, Zenon DEF updateStatus, ToIdle, conditions, monitoring, daemon,
       Busy, StopSteps, DnfsSteps
  <2> QED
    BY <1>3, <2>5, <2>6, <2>7, Zenon
<1> QED
  BY <1>1, <1>2, <1>3, Zenon DEF Next, Task, Reconciling, Kubernetes, Outside, Pod

\* A database that is reported ready was created and bootstrapped to the end, and is
\* monitored (reconcileDatabaseInstance): the property ReadyMeansProvisioned, for every
\* image and any number of events.
THEOREM ReadyDatabaseIsProvisioned == Spec => []ReadyMeansProvisioned
<1>1. Init => ProvisionInv
  BY DEF Init, ProvisionInv, TaskSoFar, MarkedAtEnd, MonitoredLast, DbIn, Made, After,
     Booted, Busy, StopSteps, DnfsSteps, AfterUsers, AfterControlfile
<1>2. ProvisionInv => ReadyMeansProvisioned
  BY Zenon DEF ProvisionInv, MarkedAtEnd, MonitoredLast, DbIn, Booted, ReadyMeansProvisioned
<1> QED
  BY <1>1, <1>2, FilesInit, FilesStep, ProvisionStep, PTL DEF Spec

-----------------------------------------------------------------------------
(* Types.                                                                  *)

\* The next subtask is one of the image, whatever has been forgotten.
TaskOfImage == image \in Images /\ step \in {"none"} \cup Tasks

\* Every step leaves the task with a subtask of the image, or with none.
LEMMA TaskOfImageStays == ASSUME FilesInv, TaskOfImage, [Next]_vars PROVE TaskOfImage'
<1>0. host \in Hosts
  BY Zenon DEF FilesInv
<1>1. /\ image' = image
      /\ step' \in {step, "none", FirstStep} \/ (step \notin {"none", "mark"} /\ step' = NextStep)
  <2>1. CASE EditStop \/ EditMode \/ EditDnfs \/ TimePasses \/ PodIsCreated \/ LoadBalancerChanges
             \/ UNCHANGED vars
    BY <2>1, Zenon DEF EditStop, EditMode, EditDnfs, Edit, TimePasses, PodIsCreated,
       LoadBalancerChanges, daemon, vars
  <2>2. CASE PodStarts \/ PodRestarts \/ PodStops \/ OperationExpires
    BY <2>2, Zenon DEF PodStarts, PodRestarts, PodStops, StartPod, StopDaemon, OperationExpires
  <2>3. CASE CallFails \/ CutShort \/ updateStatus
    BY <2>3, Zenon DEF CallFails, CutShort, updateStatus, daemon
  <2>4. CASE SubTask \/ TaskFails
    BY <1>0, <2>4, TaskStep, Zenon DEF TaskChanges, Kept, TaskError
  <2>5. CASE MarkProvisioned \/ ScriptFails
    BY <2>5, Zenon DEF MarkProvisioned, ScriptFails, InPod
  <2>6. CASE Dbca
    BY <2>6, Zenon DEF Dbca, createCDB, ProxyRunDbca, CreateCDBEnds, InPod
  <2>7. CASE StartScript
    BY <2>7, Zenon DEF StartScript, relinkConfigFiles, startDB, initListeners, SeedTemp,
       reinitUnseededHost, ScriptEnds, Script, InPod
  <2>8. CASE Stopping
    BY <2>8, Zenon DEF Stopping, reconcileInstanceStop, stopDBStatefulset,
       stopMonitoringDeployment, deleteServices, InstanceStopped, daemon
  <2>9. CASE Pause \/ Reconcile \/ setDnfs \/ CreateResources \/ updateProgressCondition
    BY <2>9, Zenon DEF Pause, Reconcile, setDnfs, SetDnfsState, ShutdownForDnfs, StartupForDnfs,
       CreateResources, updateProgressCondition, daemon
  <2>10. CASE SetPending \/ CreateCDB \/ PollCreateCDB \/ PollBootstrapDatabase \/ NothingToDo
    BY <2>10, Zenon DEF SetPending, CreateCDB, PollCreateCDB, PollBootstrapDatabase,
       NothingToDo, daemon
  <2>11. CASE BootstrapDatabase \/ BootstrapDatabaseAsync \/ BootstrapLost
    BY <2>11, Zenon DEF BootstrapDatabase, BootstrapDatabaseAsync, BootstrapLost, daemon
  <2>12. CASE ReconcileServices \/ MonitoringSecret \/ MonitoringUser
    BY <2>12, Zenon DEF ReconcileServices, MonitoringSecret, MonitoringUser, daemon
  <2> QED
    BY <2>1, <2>2, <2>3, <2>4, <2>5, <2>6, <2>7, <2>8, <2>9, <2>10, <2>11, <2>12, Zenon
       DEF Next, Task, Reconciling, Provisioning, Kubernetes
<1>2. Tasks' = Tasks
  BY <1>1, Zenon DEF Tasks
<1>3. step \in Tasks /\ step # "mark" => NextStep \in {"none"} \cup Tasks
  BY OrderOfTasks, Zenon DEF TaskOfImage
<1>4. FirstStep \in Tasks
  BY FirstTask, Zenon DEF TaskOfImage
<1> QED
  BY <1>1, <1>2, <1>3, <1>4, Zenon DEF TaskOfImage

\* The variables that have a few values only.
NamesOK ==
    /\ stop \in YesNo /\ mode \in {"none", "pause"} /\ dnfs \in YesNo
    /\ ready \in ReadyReasons /\ dbReady \in DbReasons /\ readyLate \in YesNo /\ dbLate \in YesNo
    /\ dnfsEnabled \in YesNo /\ toDnfs \in YesNo
    /\ sts \in {"none", "0", "1"} /\ pod \in {"none", "init", "ready"}
    /\ lb \in {"none", "pending", "ready", "deleting"} /\ svc \in {"none", "present"}
    /\ secret \in YesNo /\ monitor \in {"none", "0", "1"}
    /\ createOp \in {"none", "started", "running", "created", "done", "failed"}
    /\ bootOp \in {"none", "running", "done", "failed"}
    /\ script \in {"none", "relink", "start", "listener", "seed"}
    /\ pc \in Calls \cup {"idle", "commit"} /\ fresh \in YesNo
    /\ toReady \in ReadyReasons /\ toDb \in DbReasons
    /\ early \in YesNo /\ resuming \in YesNo /\ forgotten \in YesNo /\ stranded \in YesNo

\* They keep to them.
LEMMA NamesStay == ASSUME NamesOK, [Next]_vars PROVE NamesOK'
<1> USE DEF NamesOK, YesNo, object, conditions, kube, monitoring, daemon, control, history
<1>1. CASE EditStop \/ EditMode \/ EditDnfs
  BY <1>1, Zenon DEF EditStop, EditMode, EditDnfs, Edit, Other
<1>2. CASE TimePasses \/ PodIsCreated \/ LoadBalancerChanges \/ UNCHANGED vars
  BY <1>2, Zenon DEF TimePasses, PodIsCreated, LoadBalancerChanges, vars
<1>3. CASE PodStarts \/ PodRestarts
  BY <1>3, Zenon DEF PodStarts, PodRestarts, StartPod, StopDaemon
<1>4. CASE PodStops \/ OperationExpires
  BY <1>4, Zenon DEF PodStops, StopDaemon, OperationExpires
<1>5. CASE CallFails
  BY <1>5 DEF CallFails, SomeResources, createStatefulSet, createDBLoadBalancer, Goto,
     ToIdle, ReadyReasons, DbReasons
<1>6. CASE CutShort
  BY <1>6 DEF CutShort, SomeResources, createStatefulSet, createDBLoadBalancer, ToIdle,
     ReadyReasons, DbReasons
<1>7. CASE updateStatus
  BY <1>7 DEF updateStatus, ToIdle, ReadyReasons, DbReasons
<1>8. CASE TaskFails
  BY <1>8 DEF TaskFails, TaskError, InPod
<1>9. CASE SubTask
  <2>1. ASSUME NEW s, NEW possible, NEW h, Run(s, possible, h) PROVE NamesOK'
    BY <2>1 DEF Run, TaskError, InPod
  <2> QED
    BY <1>9, <2>1, Zenon DEF SubTask, renameDatabase, NID, moveDataFiles, moveConfigFiles,
       setParameters, startupDatabase, setParametersHelper, moveDatabase, runNID, prepDatabase,
       setupUsers, CreateListener, createPDBSeedTemp
<1>10. CASE MarkProvisioned
  BY <1>10 DEF MarkProvisioned, DbReasons
<1>11. CASE Dbca
  BY <1>11, Zenon DEF Dbca, createCDB, ProxyRunDbca, CreateCDBEnds, InPod
<1>12. CASE StartScript \/ ScriptFails
  <2>1. ASSUME NEW s, NEW h, NEW next \in {"none", "start", "listener", "seed"}, Script(s, h, next),
               stranded' \in YesNo
        PROVE  NamesOK'
    BY <2>1 DEF Script, InPod
  <2>2. CASE StartScript
    BY <2>1, <2>2, Zenon DEF StartScript, relinkConfigFiles, startDB, initListeners, SeedTemp,
       reinitUnseededHost, ScriptEnds
  <2>3. CASE ScriptFails
    BY <2>3 DEF ScriptFails, InPod
  <2> QED
    BY <1>12, <2>2, <2>3, Zenon
<1>13. CASE Stopping
  <2> USE DEF Goto, ToIdle, ReadyReasons, DbReasons, Calls, StopSteps
  <2>1. CASE reconcileInstanceStop \/ stopDBStatefulset
    BY <2>1, Zenon DEF reconcileInstanceStop, stopDBStatefulset
  <2>2. CASE stopMonitoringDeployment \/ deleteServices
    BY <2>2, Zenon DEF stopMonitoringDeployment, createMonitoringDeployment, deleteServices
  <2>3. CASE InstanceStopped
    BY <2>3 DEF InstanceStopped
  <2> QED
    BY <1>13, <2>1, <2>2, <2>3, Zenon DEF Stopping
<1>14. CASE Pause
  BY <1>14 DEF Pause, ReadyReasons
<1>15. CASE Reconcile
  <2>1. Restarting \in ReadyReasons
    BY Zenon DEF Restarting, ReadyReasons
  <2> QED
    BY <1>15, <2>1 DEF Reconcile, Calls, DnfsSteps
<1>16. CASE setDnfs
  BY <1>16, Zenon DEF setDnfs, SetDnfsState, ShutdownForDnfs, StartupForDnfs, Goto, Other,
     Calls, DnfsSteps
<1>17. CASE CreateResources \/ updateProgressCondition
  BY <1>17, Zenon DEF CreateResources, createStatefulSet, createDBLoadBalancer,
     createDataplaneServices, updateProgressCondition, Goto, ReadyReasons, Calls
<1>18. CASE Provisioning
  <2> USE DEF Goto, SetDb, DbReasons, Calls
  <2>1. CASE SetPending \/ CreateCDB \/ NothingToDo
    BY <2>1, Zenon DEF SetPending, CreateCDB, NothingToDo
  <2>2. CASE PollCreateCDB \/ PollBootstrapDatabase
    BY <2>2, Zenon DEF PollCreateCDB, PollBootstrapDatabase, AfterOperation
  <2>3. CASE BootstrapDatabase \/ BootstrapDatabaseAsync \/ BootstrapLost
    BY <2>3, Zenon DEF BootstrapDatabase, BootstrapDatabaseAsync, BootstrapLost
  <2>4. CASE ReconcileServices \/ MonitoringSecret \/ MonitoringUser
    BY <2>4, Zenon DEF ReconcileServices, MonitoringSecret, MonitoringUser,
       createMonitoringDeployment
  <2> QED
    BY <1>18, <2>1, <2>2, <2>3, <2>4, Zenon DEF Provisioning
<1> QED
  BY <1>1, <1>2, <1>3, <1>4, <1>5, <1>6, <1>7, <1>8, <1>9, <1>10, <1>11, <1>12, <1>13, <1>14,
     <1>15, <1>16, <1>17, <1>18, Zenon DEF Next, Task, Reconciling, Kubernetes

\* Every variable of the life cycle keeps its type, and the events their bound.
THEOREM LifecycleTypeCorrect == Spec => []TypeOK
<1> DEFINE IInv == FilesInv /\ TaskOfImage /\ NamesOK /\ events \in 0..MaxEvents
<1>1. Init => IInv
  <2> SUFFICES ASSUME Init PROVE IInv
    BY Zenon
  <2>1. TaskOfImage
    BY Zenon DEF Init, TaskOfImage
  <2>2. NamesOK
    BY Zenon DEF Init, NamesOK, YesNo, ReadyReasons, DbReasons
  <2>3. events \in 0..MaxEvents
    BY LifecycleAssumption DEF Init
  <2> QED
    BY <2>1, <2>2, <2>3, FilesInit, Zenon
<1>2. IInv /\ [Next]_vars => IInv'
  <2> SUFFICES ASSUME IInv, [Next]_vars PROVE IInv'
    BY Zenon
  <2>1. Event \/ events' = events
    <3>1. CASE \/ EditStop \/ EditMode \/ EditDnfs \/ TimePasses \/ PodRestarts \/ OperationExpires
               \/ CallFails \/ CutShort \/ TaskFails \/ ScriptFails \/ UNCHANGED vars
      BY <3>1, Zenon DEF EditStop, EditMode, EditDnfs, Edit, TimePasses, PodRestarts,
         OperationExpires, CallFails, CutShort, TaskFails, ScriptFails, vars
    <3>2. CASE Kubernetes \/ LoadBalancerChanges \/ Dbca \/ updateStatus
      BY <3>2, Zenon DEF Kubernetes, PodIsCreated, PodStarts, PodStops, LoadBalancerChanges,
         Dbca, createCDB, ProxyRunDbca, CreateCDBEnds, updateStatus
    <3>3. CASE Task
      BY <3>3, Zenon DEF Task, SubTask, renameDatabase, NID, moveDataFiles, moveConfigFiles,
         setParameters, startupDatabase, setParametersHelper, moveDatabase, runNID, prepDatabase,
         setupUsers, CreateListener, createPDBSeedTemp, Run, MarkProvisioned
    <3>4. CASE StartScript
      BY <3>4, Zenon DEF StartScript, relinkConfigFiles, startDB, initListeners, SeedTemp,
         reinitUnseededHost, ScriptEnds, Script
    <3>5. CASE Stopping
      BY <3>5, Zenon DEF Stopping, reconcileInstanceStop, stopDBStatefulset,
         stopMonitoringDeployment, deleteServices, InstanceStopped
    <3>6. CASE Pause \/ Reconcile \/ setDnfs \/ CreateResources \/ updateProgressCondition
      BY <3>6, Zenon DEF Pause, Reconcile, setDnfs, SetDnfsState, ShutdownForDnfs,
         StartupForDnfs, CreateResources, updateProgressCondition
    <3>7. CASE Provisioning
      BY <3>7, Zenon DEF Provisioning, SetPending, CreateCDB, PollCreateCDB, BootstrapDatabase,
         BootstrapDatabaseAsync, BootstrapLost, PollBootstrapDatabase, ReconcileServices,
         MonitoringSecret, MonitoringUser, NothingToDo
    <3> QED
      BY <3>1, <3>2, <3>3, <3>4, <3>5, <3>6, <3>7, Zenon DEF Next, Reconciling
  <2>2. events' \in 0..MaxEvents
    <3>1. events \in 0..MaxEvents
      BY Zenon
    <3> QED
      BY <2>1, <3>1, LifecycleAssumption DEF Event
  <2> QED
    BY <2>2, FilesStep, TaskOfImageStays, NamesStay, Zenon
<1>3. IInv => TypeOK
  <2>1. Tasks \subseteq Steps \/ image \notin Images
    BY Zenon DEF Tasks, Steps
  <2> QED
    BY <2>1, Zenon DEF FilesInv, TaskOfImage, NamesOK, TypeOK, Steps
<1> QED
  BY <1>1, <1>2, <1>3, PTL DEF Spec
=============================================================================
