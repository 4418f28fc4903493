-------------------------- MODULE ControllerProofs --------------------------
(***************************************************************************)
(* Proofs about two controllers of the operator that share no state.       *)
(*                                                                         *)
(* The Backup controller, for any set of Backups and of disks: a ready     *)
(* Backup is complete, and a backup is started only for a Backup that      *)
(* waits for it.                                                           *)
(*                                                                         *)
(* The parameter update of the Instance controller, for any values and any *)
(* number of changes of the spec and of failures.  That a ready instance   *)
(* has a running database needs to know at which steps of an update the    *)
(* database is down.  That a completed update is in force and a failed one *)
(* undone needs what the parameter files hold at each step, as long as     *)
(* nobody interferes.                                                      *)
(***************************************************************************)
EXTENDS BackupController, ParameterUpdate, TLAPS

-----------------------------------------------------------------------------
(* The Backup controller.                                                  *)

\* A reconcile is past the answer that the backup is complete.
Completing(b) == pc[b] \in {"complete", "described"}

\* What a reconcile has read does not change under it, and nobody else moves the
\* state of its Backup on.
ReadIsStable(b) ==
    /\ Verifying(b) => pc[b] = "idle"
    /\ pc[b] \in {"create", "created"} =>
          cached[b] = "BackupIdentified" /\ (state[b] = "BackupIdentified" \/ object[b] = "gone")
    /\ Completing(b) => cached[b] = "BackupInProgress"
    /\ ~Verifying(b) /\ cached[b] = "BackupDeleting" => state[b] = "BackupDeleting"

\* The copy that a physical backup has written is there until the Backup is deleted.
CopyIsKept(b) ==
    Physical(b) =>
        /\ op[b] = "ok" /\ object[b] = "live" => data[b] # "none"
        /\ Completing(b) \/ state[b] = "BackupReady" => data[b] # "none"

\* All the snapshots of a snapshot backup are applied before it is in progress, and
\* are kept until the Backup is gone.
SnapshotsAreKept(b) ==
    kind[b] = "Snapshot" /\ object[b] # "gone" =>
        \A d \in Disks :
            /\ pc[b] = "created" \/ "BackupInProgress" \in {state[b], cached[b]} => snap[<<b, d>>] # "none"
            /\ Completing(b) \/ state[b] = "BackupReady" => snap[<<b, d>>] = "ready"

Inv == TypeOK /\ \A b \in Backups : ReadIsStable(b) /\ CopyIsKept(b) /\ SnapshotsAreKept(b)

\* The initial states satisfy Inv.
LEMMA InitInv == Init => Inv
  BY PlansAssumption DEF Init, Inv, TypeOK, States, SnapStates, ReadIsStable, CopyIsKept,
     SnapshotsAreKept,
     Completing

\* The steps of a reconcile before the backup is in progress.
LEMMA StartKeepsInv ==
    ASSUME Inv, NEW b \in Backups,
           ToPending(b) \/ InstanceNotReady(b) \/ CommitID(b) \/ StartCreate(b) \/ CreatePhysical(b)
           \/ CreateSnapshots(b) \/ CommitInProgress(b)
    PROVE  Inv'
<1> USE DEF Inv, TypeOK, States, SnapStates, ReadIsStable, CopyIsKept, SnapshotsAreKept,
        Completing, Verifying,
        Physical, Creating, CommitState, Fresh
<1>1. CASE ToPending(b)
  BY <1>1 DEF ToPending
<1>2. CASE InstanceNotReady(b)
  BY <1>2 DEF InstanceNotReady
<1>3. CASE CommitID(b)
  BY <1>3 DEF CommitID
<1>4. CASE StartCreate(b)
  BY <1>4 DEF StartCreate, addBackupMetadata
<1>5. CASE CreatePhysical(b)
  BY <1>5 DEF CreatePhysical, LRO!Start
<1>6. CASE CreateSnapshots(b)
  BY <1>6 DEF CreateSnapshots, SnapshotDisks
<1>7. CASE CommitInProgress(b)
  BY <1>7 DEF CommitInProgress
<1> QED
  BY <1>1, <1>2, <1>3, <1>4, <1>5, <1>6, <1>7, Zenon

\* The steps of a reconcile from there on.
LEMMA EndKeepsInv ==
    ASSUME Inv, NEW b \in Backups,
           PollPhysical(b) \/ PollSnapshot(b) \/ FetchMetadata(b) \/ CommitReady(b) \/ RecordOnInstance(b)
           \/ AddFinalizer(b) \/ Verify(b) \/ RefuseVerify(b) \/ MarkDeleting(b) \/ DeleteData(b)
           \/ RemoveFinalizer(b)
    PROVE  Inv'
<1> USE DEF Inv, TypeOK, States, SnapStates, ReadIsStable, CopyIsKept, SnapshotsAreKept,
        Completing, Verifying,
        Physical, Creating, CommitState, Fresh
<1>1. CASE PollPhysical(b)
  BY <1>1 DEF PollPhysical, Polling
<1>2. CASE PollSnapshot(b)
  <2>1. CASE CommitState(b, "BackupFailed") /\ UNCHANGED pc
    BY <1>2, <2>1 DEF PollSnapshot, Polling
  <2>2. CASE (\A s \in Listed(b) : snap[s] = "ready") /\ pc' = [pc EXCEPT ![b] = "complete"]
             /\ UNCHANGED state
    <3>1. object[b] = "live" /\ kind[b] = "Snapshot" /\ cached[b] = "BackupInProgress"
      BY <1>2, Zenon DEF PollSnapshot, Polling
    <3>2. \A d \in Disks : <<b, d>> \in Listed(b)
      BY <3>1, Zenon DEF Listed
    <3>3. \A d \in Disks : snap[<<b, d>>] = "ready"
      BY <2>2, <3>2, Zenon
    <3> QED
      BY <1>2, <2>2, <3>1, <3>3 DEF PollSnapshot, Polling
  <2> QED
    BY <1>2, <2>1, <2>2, Zenon DEF PollSnapshot
<1>3. CASE FetchMetadata(b)
  BY <1>3 DEF FetchMetadata
<1>4. CASE CommitReady(b)
  BY <1>4 DEF CommitReady
<1>5. CASE RecordOnInstance(b)
  BY <1>5 DEF RecordOnInstance
<1>6. CASE AddFinalizer(b)
  BY <1>6 DEF AddFinalizer
<1>7. CASE Verify(b)
  BY <1>7 DEF Verify
<1>8. CASE RefuseVerify(b)
  BY <1>8 DEF RefuseVerify
<1>9. CASE MarkDeleting(b)
  BY <1>9 DEF MarkDeleting, Deleting
<1>10. CASE DeleteData(b)
  BY <1>10 DEF DeleteData, Deleting, PhysicalBackupDelete
<1>11. CASE RemoveFinalizer(b)
  BY <1>11 DEF RemoveFinalizer, Deleting
<1> QED
  BY <1>1, <1>2, <1>3, <1>4, <1>5, <1>6, <1>7, <1>8, <1>9, <1>10, <1>11, Zenon

\* Everything else.
LEMMA EnvironmentKeepsInv == ASSUME Inv, Environment \/ UNCHANGED vars PROVE Inv'
<1> USE DEF Inv, TypeOK, States, SnapStates, ReadIsStable, CopyIsKept, SnapshotsAreKept,
        Completing, Verifying,
        Physical
<1>1. ASSUME NEW b \in Backups, Abort(b) \/ CacheCatchesUp(b) \/ UserDeletes(b) PROVE Inv'
  <2>1. CASE Abort(b)
    BY <1>1, <2>1 DEF Abort
  <2>2. CASE CacheCatchesUp(b)
    BY <1>1, <2>2 DEF CacheCatchesUp
  <2>3. CASE UserDeletes(b)
    BY <1>1, <2>3 DEF UserDeletes
  <2> QED
    BY <1>1, <2>1, <2>2, <2>3, Zenon
<1>2. ASSUME NEW b \in Backups, OperationEnds(b) PROVE Inv'
  BY <1>2 DEF OperationEnds, LRO!Finish
<1>3. ASSUME NEW b \in Backups, OperationExpires(b) PROVE Inv'
  BY <1>3 DEF OperationExpires, LRO!Expire
<1>4. ASSUME NEW b \in Backups, ElsewhereChanges(b) PROVE Inv'
  BY <1>4 DEF ElsewhereChanges
<1>5. ASSUME NEW b \in Backups, CollectSnapshots(b) PROVE Inv'
  BY <1>5 DEF CollectSnapshots
<1>6. ASSUME NEW s \in Backups \X Disks, SnapshotEnds(s) PROVE Inv'
  BY <1>6 DEF SnapshotEnds
<1>7. CASE DaemonRestarts
  BY <1>7 DEF DaemonRestarts, LRO!Forget
<1>8. CASE InstanceChanges
  BY <1>8 DEF InstanceChanges
<1>9. CASE UNCHANGED vars
  BY <1>9 DEF vars
<1> QED
  BY <1>1, <1>2, <1>3, <1>4, <1>5, <1>6, <1>7, <1>8, <1>9, Zenon DEF Environment

\* Inv holds in every reachable state.
LEMMA InvHolds == Spec => []Inv
<1>1. Inv /\ [Next]_vars => Inv'
  BY StartKeepsInv, EndKeepsInv, EnvironmentKeepsInv, Zenon DEF Next, Reconcile
<1> QED
  BY <1>1, InitInv, PTL DEF Spec

\* Every variable of the Backup controller keeps its type.
THEOREM BackupTypeCorrect == Spec => []TypeOK
<1>1. Inv => TypeOK
  BY Zenon DEF Inv
<1> QED
  BY <1>1, InvHolds, PTL

\* Whatever is deleted, restarted, retried or read late, a Backup with reason
\* BackupReady has its data, or all of its snapshots.
THEOREM ReadyBackupIsComplete == Spec => []ReadyMeansComplete
<1>1. Inv => ReadyMeansComplete
  BY Zenon DEF Inv, CopyIsKept, SnapshotsAreKept, ReadyMeansComplete, OwnSnapshots
<1> QED
  BY <1>1, InvHolds, PTL

\* No worker starts a backup from an outdated copy of its Backup.
THEOREM OnlyPendingBackupsStart == Spec => StartsOnlyPendingBackups
<1> DEFINE Pends(b) == op[b] = "absent" /\ op'[b] = "running" => state[b] = "BackupIdentified" \/ object[b] = "gone"
<1>1. ASSUME Inv, [Next]_vars PROVE [\A b \in Backups : Pends(b)]_vars
  <2>1. ASSUME NEW b \in Backups, Reconcile(b), ~CreatePhysical(b) PROVE op' = op
    BY <2>1, Zenon DEF Reconcile, ToPending, InstanceNotReady, CommitID, StartCreate,
       CreateSnapshots, CommitInProgress,
       PollPhysical, PollSnapshot, FetchMetadata, CommitReady, RecordOnInstance,
       AddFinalizer, Verify, RefuseVerify,
       MarkDeleting, DeleteData, RemoveFinalizer
  <2>2. ASSUME NEW b \in Backups, CreatePhysical(b) PROVE \A c \in Backups : Pends(c)
    <3>1. (op[b] = "absent" /\ op' = [op EXCEPT ![b] = "running"]) \/ UNCHANGED op
      BY <2>2, Zenon DEF CreatePhysical, LRO!Start
    <3>2. state[b] = "BackupIdentified" \/ object[b] = "gone"
      BY <1>1, <2>2, Zenon DEF CreatePhysical, Inv, ReadIsStable
    <3>3. op \in [Backups -> {"absent", "running", "ok", "error"}]
      BY <1>1, Zenon DEF Inv, TypeOK
    <3> QED
      BY <2>2, <3>1, <3>2, <3>3, Zenon
  <2>3. CASE Environment \/ UNCHANGED vars
    BY <1>1, <2>3 DEF Environment, Abort, CacheCatchesUp, UserDeletes, OperationEnds,
       OperationExpires,
       ElsewhereChanges, CollectSnapshots, SnapshotEnds, DaemonRestarts, InstanceChanges,
       vars, LRO!Finish,
       LRO!Expire, LRO!Forget, Inv, TypeOK
  <2> QED
    BY <1>1, <2>1, <2>2, <2>3, Zenon DEF Next
<1> QED
  BY <1>1, InvHolds, PTL DEF Spec, StartsOnlyPendingBackups

-----------------------------------------------------------------------------
(* The parameter update.                                                   *)

Created == reason = "CreateComplete"
InProgress == reason = "ParameterUpdateInProgress"
Complete == reason = "ParameterUpdateComplete"
RollingBack == reason = "ParameterUpdateRollbackInProgress"

\* Each step belongs to the reason its reconcile has found.
StepsFit ==
    /\ stage \in {"fetch", "toInProgress"} => Created
    /\ stage \in {"set", "shutdown", "startup", "toComplete"} => InProgress
    /\ stage = "toDone" => Complete
    /\ stage \in {"recover", "shutdownAgain", "startupAgain", "setBack", "toRecovered"} => RollingBack
    /\ stage = "toRollback" => Created \/ InProgress

\* The database is down only in the middle of an update or of a rollback.
DownFits ==
    up = "no" => \/ InProgress /\ stage \in {"idle", "set", "startup", "toRollback"}
                 \/ RollingBack /\ stage \in {"idle", "recover", "shutdownAgain", "startupAgain"}

\* What the reconcile has read is what the spec says, and an update under way
\* asks for something.
RequestFits ==
    /\ stage # "idle" => seen = spec
    /\ InProgress /\ spec = "none" => current = "none"
    /\ InProgress /\ stage # "idle" => seen # "none"
    /\ Complete => spec # "none"

\* What the database has, at each step of an update.
FilesFit ==
    /\ Created => current = "none" \/ live = current
    /\ Created \/ Complete => parameterType = "dynamic" \/ live = saved
    /\ Created /\ current = "none" => live = saved
    /\ InProgress => parameterType # "static" \/ current = "none"
    /\ (InProgress /\ stage # "toComplete") \/ RollingBack =>
         parameterType = "dynamic" \/ current = "none" \/ saved = current
    /\ Complete => live = spec
    /\ stage \in {"shutdown", "startup"} => spfile = seen /\ parameterType # "dynamic"
    /\ stage = "toComplete" => live = seen /\ (parameterType = "dynamic" \/ live = saved)
    /\ stage \in {"shutdownAgain", "startupAgain"} => spfile = saved
    /\ stage = "setBack" => live = saved
    /\ stage = "toRecovered" => /\ current = "none" \/ live = current
                                /\ (parameterType = "dynamic" /\ current # "none") \/ live = saved

\* What a rollback would restore, as long as nothing is repeated.
RollbackFits ==
    (InProgress /\ stage # "toComplete") \/ RollingBack =>
        \/ parameterType = "dynamic" /\ current = before
        \/ parameterType # "dynamic" /\ saved = before
        \/ current = "none" /\ saved = before
        \/ InProgress /\ spec = "none"

CalmFits == calm = "yes" => /\ RequestFits
                            /\ FilesFit
                            /\ retried = "no" => RollbackFits

UpdateInv == UpdateTypeOK /\ StepsFit /\ DownFits /\ CalmFits

\* A database just created, without parameters in the spec.
LEMMA UpdateInitInv == UpdateInit => UpdateInv
  BY ValuesAssumption DEF UpdateInit, UpdateInv, UpdateTypeOK, StepsFit, DownFits, CalmFits,
     RequestFits, FilesFit,
     RollbackFits, Created, InProgress, Complete, RollingBack, Reasons, Commits, Maybe

\* Every step of users, of time and of a reconcile preserves UpdateInv.
LEMMA UpdateStepKeepsInv == UpdateInv /\ [UpdateNext]_updateVars => UpdateInv'
<1> SUFFICES ASSUME UpdateInv, [UpdateNext]_updateVars PROVE UpdateInv'
  BY Zenon
<1> USE ValuesAssumption DEF UpdateInv, UpdateTypeOK, Reasons, Commits, Maybe, Created,
        InProgress, Complete,
        RollingBack, status, database, history, user, Goto
<1>1. CASE ChangeSpec
  <2>1. UpdateTypeOK'
    BY <1>1 DEF ChangeSpec
  <2>2. StepsFit' /\ DownFits'
    BY <1>1, Zenon DEF StepsFit, DownFits, ChangeSpec
  <2>3. CalmFits'
    BY <1>1, Zenon DEF StepsFit, CalmFits, RequestFits, FilesFit, RollbackFits, ChangeSpec
  <2> QED
    BY <2>1, <2>2, <2>3, Zenon
<1>2. CASE TimePasses
  <2>1. UpdateTypeOK'
    BY <1>2 DEF TimePasses
  <2>2. StepsFit' /\ DownFits'
    BY <1>2, Zenon DEF StepsFit, DownFits, TimePasses
  <2>3. CalmFits'
    BY <1>2, Zenon DEF StepsFit, CalmFits, RequestFits, FilesFit, RollbackFits, TimePasses
  <2> QED
    BY <2>1, <2>2, <2>3
<1>3. CASE Begin
  <2>1. UpdateTypeOK'
    BY <1>3 DEF Begin, Enters, FirstStep
  <2>2. StepsFit' /\ DownFits'
    BY <1>3, Zenon DEF StepsFit, DownFits, Begin, Enters, FirstStep
  <2>3. CalmFits'
    BY <1>3, Zenon DEF StepsFit, CalmFits, RequestFits, FilesFit, RollbackFits, Begin,
       Enters, FirstStep
  <2> QED
    BY <2>1, <2>2, <2>3
<1>4. CASE FetchCurrentParameterState
  <2>1. UpdateTypeOK'
    BY <1>4 DEF FetchCurrentParameterState
  <2>2. StepsFit' /\ DownFits'
    BY <1>4, Zenon DEF StepsFit, DownFits, FetchCurrentParameterState
  <2>3. CalmFits'
    BY <1>4, Zenon DEF StepsFit, CalmFits, RequestFits, FilesFit, RollbackFits,
       FetchCurrentParameterState
  <2> QED
    BY <2>1, <2>2, <2>3
<1>5. CASE SetParameters
  <2>1. UpdateTypeOK'
    BY <1>5 DEF SetParameters, SetParameter
  <2>2. StepsFit' /\ DownFits'
    BY <1>5, Zenon DEF StepsFit, DownFits, SetParameters, SetParameter,
       fetchAndParseSingleResultQuery
  <2>3. CalmFits'
    BY <1>5, Zenon DEF StepsFit, CalmFits, RequestFits, FilesFit, RollbackFits,
       SetParameters, SetParameter
  <2> QED
    BY <2>1, <2>2, <2>3
<1>6. CASE Bounce
  <2>1. UpdateTypeOK'
    BY <1>6 DEF Bounce, StartsUp
  <2>2. StepsFit' /\ DownFits'
    BY <1>6, Zenon DEF StepsFit, DownFits, Bounce, StartsUp
  <2>3. CalmFits'
    BY <1>6, Zenon DEF StepsFit, CalmFits, RequestFits, FilesFit, RollbackFits, Bounce,
       StartsUp
  <2> QED
    BY <2>1, <2>2, <2>3
<1>7. CASE InitiateRecovery
  <2>1. UpdateTypeOK'
    BY <1>7 DEF InitiateRecovery, RecoverConfigFile
  <2>2. StepsFit' /\ DownFits'
    BY <1>7, Zenon DEF StepsFit, DownFits, InitiateRecovery, RecoverConfigFile
  <2>3. CalmFits'
    BY <1>7, Zenon DEF StepsFit, CalmFits, RequestFits, FilesFit, RollbackFits,
       InitiateRecovery, RecoverConfigFile
  <2> QED
    BY <2>1, <2>2, <2>3
<1>8. CASE BounceAgain
  <2>1. UpdateTypeOK'
    BY <1>8 DEF BounceAgain, StartsUp
  <2>2. StepsFit' /\ DownFits'
    BY <1>8, Zenon DEF StepsFit, DownFits, BounceAgain, StartsUp
  <2>3. CalmFits'
    BY <1>8 DEF StepsFit, CalmFits, RequestFits, FilesFit, RollbackFits, BounceAgain, StartsUp
  <2> QED
    BY <2>1, <2>2, <2>3
<1>9. CASE SetBack
  <2>1. UpdateTypeOK'
    BY <1>9 DEF SetBack, SetParameter
  <2>2. StepsFit' /\ DownFits'
    BY <1>9, Zenon DEF StepsFit, DownFits, SetBack, SetParameter
  <2>3. CalmFits'
    BY <1>9 DEF StepsFit, CalmFits, RequestFits, FilesFit, RollbackFits, SetBack, SetParameter
  <2> QED
    BY <2>1, <2>2, <2>3
<1>10. CASE UpdateStatus
  <2>1. UpdateTypeOK'
    BY <1>10 DEF UpdateStatus, EndReconcile, NewReason, CurrentParametersAfter,
       RollbackState, GetParameterTypeValue
  <2>2. StepsFit' /\ DownFits'
    BY <1>10, Zenon DEF StepsFit, DownFits, UpdateStatus, EndReconcile, NewReason,
       CurrentParametersAfter, RollbackState, GetParameterTypeValue
  <2>3. CalmFits'
    BY <1>10 DEF StepsFit, CalmFits, RequestFits, FilesFit, RollbackFits, UpdateStatus,
       EndReconcile, NewReason, CurrentParametersAfter, RollbackState, GetParameterTypeValue
  <2> QED
    BY <2>1, <2>2, <2>3
<1>11. CASE UpdateConditionOnly
  <2>1. UpdateTypeOK'
    BY <1>11 DEF UpdateConditionOnly, EndReconcile, NewReason
  <2>2. StepsFit' /\ DownFits'
    BY <1>11, Zenon DEF StepsFit, DownFits, UpdateConditionOnly, EndReconcile, NewReason
  <2>3. CalmFits'
    BY <1>11, Zenon DEF StepsFit, CalmFits, RequestFits, FilesFit, RollbackFits,
       UpdateConditionOnly, EndReconcile, NewReason
  <2> QED
    BY <2>1, <2>2, <2>3
<1>12. CASE CutShort
  <2>1. UpdateTypeOK'
    BY <1>12 DEF CutShort, EndReconcile
  <2>2. StepsFit' /\ DownFits'
    BY <1>12, Zenon DEF StepsFit, DownFits, CutShort, EndReconcile
  <2>3. CalmFits'
    BY <1>12, Zenon DEF StepsFit, CalmFits, RequestFits, FilesFit, RollbackFits, CutShort,
       EndReconcile
  <2> QED
    BY <2>1, <2>2, <2>3
<1>13. CASE UNCHANGED updateVars
  <2>1. UpdateTypeOK'
    BY <1>13 DEF updateVars
  <2>2. StepsFit' /\ DownFits'
    BY <1>13, Zenon DEF StepsFit, DownFits, updateVars
  <2>3. CalmFits'
    BY <1>13, Zenon DEF StepsFit, CalmFits, RequestFits, FilesFit, RollbackFits, updateVars
  <2> QED
    BY <2>1, <2>2, <2>3
<1> QED
  BY <1>1, <1>2, <1>3, <1>4, <1>5, <1>6, <1>7, <1>8, <1>9, <1>10, <1>11, <1>12, <1>13, Zenon
     DEF UpdateNext, Work

\* UpdateInv holds in every reachable state.
THEOREM UpdateInvHolds == UpdateSpec => []UpdateInv
  BY UpdateInitInv, UpdateStepKeepsInv, PTL DEF UpdateSpec

\* The variables have their types.
THEOREM UpdateTypeCorrect == UpdateSpec => []UpdateTypeOK
  BY UpdateInvHolds, PTL DEF UpdateInv

\* A ready instance has a running database, whatever the values asked for,
\* whenever the spec changes and whichever reconciles and updates fail.
THEOREM ReadyInstanceIsUp == UpdateSpec => []ReadyMeansUp
<1>1. UpdateInv => ReadyMeansUp
  BY Zenon DEF UpdateInv, UpdateTypeOK, DownFits, ReadyMeansUp, Settled, InProgress,
     RollingBack
<1> QED
  BY <1>1, UpdateInvHolds, PTL

\* When nobody interferes the database runs with status.currentParameters.
THEOREM CalmUpdateIsInForce == UpdateSpec => []CalmUpdateIsSet
<1>1. UpdateInv => CalmUpdateIsSet
  BY Zenon DEF UpdateInv, CalmFits, FilesFit, CalmUpdateIsSet, Settled, Created
<1> QED
  BY <1>1, UpdateInvHolds, PTL

\* A rollback leaves the database as it was before the update.
THEOREM RollbackRestores == UpdateSpec => FailedUpdateIsUndone
<1> DEFINE Undone == (reason = "ParameterUpdateRollbackInProgress" /\ reason' = "CreateComplete"
                        /\ calm' = "yes" /\ retried = "no") => live' = before
<1>1. UpdateInv /\ [UpdateNext]_updateVars => [Undone]_updateVars
  <2> SUFFICES ASSUME UpdateInv, UpdateNext, reason = "ParameterUpdateRollbackInProgress",
                      reason' = "CreateComplete", calm' = "yes", retried = "no"
               PROVE  live' = before
    BY Zenon
  <2>1. UpdateStatus
    BY Zenon DEF UpdateNext, Work, ChangeSpec, TimePasses, Begin,
       FetchCurrentParameterState, SetParameters,
       Bounce, InitiateRecovery, BounceAgain, SetBack, UpdateConditionOnly, CutShort,
       status, database, history, user
  <2>2. stage = "toRecovered" /\ calm = "yes" /\ live' = live
    BY <2>1, Zenon DEF UpdateStatus, NewReason, Commits, UpdateInv, StepsFit, Created,
       Complete, database
  <2> QED
    BY <2>2, ValuesAssumption DEF UpdateInv, UpdateTypeOK, Maybe, CalmFits, FilesFit,
       RollbackFits, RequestFits, RollingBack, Created,
       InProgress, Complete
<1> QED
  BY <1>1, UpdateInvHolds, PTL DEF UpdateSpec, FailedUpdateIsUndone
=============================================================================
