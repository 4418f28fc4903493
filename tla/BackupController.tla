-------------------------- MODULE BackupController --------------------------
(***************************************************************************)
(* The Backup controller: what its worker does to the Backup objects of    *)
(* one Instance, to the long running operations of the database daemon     *)
(* (physical backups), to the VolumeSnapshots of the namespace (snapshot   *)
(* backups) and to the Instance, while users delete Backups, the instance  *)
(* comes and goes, the daemon restarts and the operator's writes conflict. *)
(*                                                                         *)
(* A reconcile is one action per write it makes, so that it can stop       *)
(* (Abort: an error, a conflict, the end of the operator process) between  *)
(* two of them.  It reads its Backup from the informer cache, which lags   *)
(* behind; a write based on an outdated copy is refused by the API server. *)
(***************************************************************************)
EXTENDS Naturals, FiniteSets

CONSTANTS
    Backups,    \* the Backup objects of the instance
    Plans,      \* the assignments of kinds to Backups that are considered
    Disks       \* the disks of the instance

\* What the spec asks for: a physical backup on the instance's disk, to
\* spec.gcsPath or to a folder of spec.gcsDir; a physical backup whose options
\* contradict each other; a snapshot; a type or subtype that is not supported; or,
\* with spec.mode VerifyExists, a look at spec.gcsPath or at no bucket at all.
Kinds == {"Local", "GcsPath", "GcsDir", "Contradictory", "Snapshot", "Unsupported",
          "VerifyExists", "VerifyNothing"}

ASSUME PlansAssumption == Plans \subseteq [Backups -> Kinds]

ASSUME InstanceHasDisks == Disks # {}

VARIABLES
    kind,       \* the kind of each Backup; it never changes
    state,      \* the reason of the Ready condition of the Backup, NoReason
                \* until there is a condition; the pseudo reason BackupIdentified
                \* is BackupPending with the backup ID, time and start time committed
    cached,     \* the same in the informer cache
    finalizer,  \* whether the Backup has the controller's finalizer
    object,     \* the Backup exists, is marked for deletion or is gone
    pc,         \* where the reconcile of the Backup is
    op,         \* the operations of the daemon, by the Backup they belong to
    snap,       \* VolumeSnapshots, one for each Backup and disk
    data,       \* where a complete copy exists for a Backup that is not a snapshot
    inst,       \* the Instance is ready, not ready or gone
    instBackup  \* inst.Status.BackupID, by the Backup it names

vars == <<kind, state, cached, finalizer, object, pc, op, snap, data, inst, instBackup>>

States == {"NoReason", "BackupPending", "BackupIdentified", "BackupInProgress",
           "BackupReady", "BackupFailed", "BackupDeleting", "NotSupported"}

SnapStates == {"none", "creating", "ready", "error"}

LRO == INSTANCE LROService WITH Ids <- Backups

TypeOK ==
    /\ kind \in [Backups -> Kinds]
    /\ state \in [Backups -> States]
    /\ cached \in [Backups -> States]
    /\ finalizer \in [Backups -> {"no", "yes"}]
    /\ object \in [Backups -> {"live", "deleting", "gone"}]
    /\ pc \in [Backups -> {"idle", "create", "created", "complete", "described",
                          "record", "purged"}]
    /\ op \in [Backups -> {"absent", "running", "ok", "error"}]
    /\ snap \in [Backups \X Disks -> SnapStates]
    /\ data \in [Backups -> {"none", "disk", "bucket"}]
    /\ inst \in {"ready", "notReady", "gone"}
    /\ instBackup \in Backups \union {"none"}

Init ==
    /\ kind \in Plans
    /\ state = [b \in Backups |-> "NoReason"]
    /\ cached = [b \in Backups |-> "NoReason"]
    /\ finalizer = [b \in Backups |-> "no"]
    /\ object = [b \in Backups |-> "live"]
    /\ pc = [b \in Backups |-> "idle"]
    /\ op = [b \in Backups |-> "absent"]
    /\ snap = [s \in Backups \X Disks |-> "none"]
    /\ data = [b \in Backups |-> "none"]
    /\ inst \in {"ready", "notReady"}
    /\ instBackup = "none"

-----------------------------------------------------------------------------
(* Writes of the Backup object: refused unless the copy read is current.   *)

Fresh(b) == object[b] # "gone" /\ cached[b] = state[b]

CommitState(b, reason) ==
    /\ Fresh(b)
    /\ state' = [state EXCEPT ![b] = reason]

-----------------------------------------------------------------------------
(* reconcileBackupCreation, case "" and case BackupPending.                *)

Verifying(b) == kind[b] \in {"VerifyExists", "VerifyNothing"}

Physical(b) == kind[b] \in {"Local", "GcsPath", "GcsDir", "Contradictory"}

\* A Backup that does not pass keeps its reason, so nothing ever happens to it.
ValidateBackupSpec(b) == kind[b] # "Unsupported"

\* Reconcile runs the creation state machine for a Backup that is not being
\* deleted and whose mode is not VerifyExists.
Creating(b) ==
    /\ ~Verifying(b) /\ ValidateBackupSpec(b)
    /\ object[b] = "live" /\ pc[b] = "idle"

instReady == inst = "ready"

\* addBackupMetadata writes labels and annotations, which nothing here reads: of
\* it remains that a worker with an outdated copy stops.
addBackupMetadata(b) == Fresh(b)

ToPending(b) ==
    /\ Creating(b)
    /\ cached[b] = "NoReason"
    /\ CommitState(b, "BackupPending")
    /\ UNCHANGED <<kind, cached, finalizer, object, pc, op, snap, data, inst, instBackup>>

\* The instance is missing or not ready: the backup fails, for good.
InstanceNotReady(b) ==
    /\ Creating(b)
    /\ cached[b] \in {"BackupPending", "BackupIdentified"}
    /\ ~instReady
    /\ CommitState(b, "BackupFailed")
    /\ UNCHANGED <<kind, cached, finalizer, object, pc, op, snap, data, inst, instBackup>>

CommitID(b) ==
    /\ Creating(b)
    /\ cached[b] = "BackupPending"
    /\ instReady
    /\ CommitState(b, "BackupIdentified")
    /\ UNCHANGED <<kind, cached, finalizer, object, pc, op, snap, data, inst, instBackup>>

StartCreate_Unfenced(b) ==
    /\ Creating(b)
    /\ cached[b] = "BackupIdentified"
    /\ instReady
    /\ pc' = [pc EXCEPT ![b] = "create"]
    /\ UNCHANGED <<kind, state, cached, finalizer, object, op, snap, data, inst, instBackup>>

\* The metadata of the instance is written before anything is started.
StartCreate(b) ==
    /\ Creating(b)
    /\ cached[b] = "BackupIdentified"
    /\ instReady
    /\ addBackupMetadata(b)
    /\ pc' = [pc EXCEPT ![b] = "create"]
    /\ UNCHANGED <<kind, state, cached, finalizer, object, op, snap, data, inst, instBackup>>

\* PhysicalBackup refuses a pluggable database backup that names none, tablespace
\* and datafile backups, and a compressed image copy: the reconcile fails, and is
\* retried for ever.
Preflight(b) == kind[b] # "Contradictory"

\* physicalBackup.create: the daemon starts the operation, or knows its ID
\* already and the controller goes on.
CreatePhysical(b) ==
    /\ Physical(b) /\ pc[b] = "create" /\ inst # "gone"
    /\ Preflight(b)
    /\ \/ LRO!Start(b)
       \/ op[b] # "absent" /\ UNCHANGED op
    /\ pc' = [pc EXCEPT ![b] = "created"]
    /\ UNCHANGED <<kind, state, cached, finalizer, object, snap, data, inst, instBackup>>

\* The snapshots of some disks are applied; applying one that exists changes
\* nothing.  A snapshot of a Backup that is gone is refused by its owner reference
\* only later, by the garbage collector.
SnapshotDisks(b, applied) ==
    snap' = [s \in Backups \X Disks |->
               IF s[1] = b /\ s[2] \in applied /\ snap[s] = "none"
               THEN "creating" ELSE snap[s]]

\* snapshotBackup.create applies one snapshot per disk, one after the other,
\* and returns an error when one of them cannot be applied.
CreateSnapshots(b) ==
    /\ kind[b] = "Snapshot" /\ pc[b] = "create"
    /\ \E applied \in SUBSET Disks :
          /\ applied # {}
          /\ SnapshotDisks(b, applied)
          /\ pc' = [pc EXCEPT ![b] = IF applied = Disks THEN "created" ELSE "idle"]
    /\ UNCHANGED <<kind, state, cached, finalizer, object, op, data, inst, instBackup>>

CommitInProgress(b) ==
    /\ pc[b] = "created"
    /\ CommitState(b, "BackupInProgress")
    /\ pc' = [pc EXCEPT ![b] = "idle"]
    /\ UNCHANGED <<kind, cached, finalizer, object, op, snap, data, inst, instBackup>>

-----------------------------------------------------------------------------
(* case BackupInProgress.                                                  *)

Polling(b) == Creating(b) /\ cached[b] = "BackupInProgress" /\ inst # "gone"

PollPhysical_ErrorShadowed(b) ==
    /\ Polling(b) /\ Physical(b) /\ op[b] # "running"
    /\ IF op[b] = "absent"
       THEN CommitState(b, "BackupFailed") /\ UNCHANGED pc
       ELSE pc' = [pc EXCEPT ![b] = "complete"] /\ UNCHANGED state
    /\ UNCHANGED <<kind, cached, finalizer, object, op, snap, data, inst, instBackup>>

\* Retries instead of failing when the daemon does not know the operation.
PollPhysical_RetriesLost(b) ==
    /\ Polling(b) /\ Physical(b) /\ op[b] \in {"ok", "error"}
    /\ IF op[b] = "error"
       THEN CommitState(b, "BackupFailed") /\ UNCHANGED pc
       ELSE pc' = [pc EXCEPT ![b] = "complete"] /\ UNCHANGED state
    /\ UNCHANGED <<kind, cached, finalizer, object, op, snap, data, inst, instBackup>>

\* physicalBackup.status: an unknown operation was interrupted, one that ended
\* with an error has failed, and one that ended well is marked for deletion in
\* the daemon before its end is recorded.
PollPhysical(b) ==
    /\ Polling(b) /\ Physical(b) /\ op[b] # "running"
    /\ IF op[b] = "ok"
       THEN pc' = [pc EXCEPT ![b] = "complete"] /\ UNCHANGED state
       ELSE CommitState(b, "BackupFailed") /\ UNCHANGED pc
    /\ UNCHANGED <<kind, cached, finalizer, object, op, snap, data, inst, instBackup>>

\* The VolumeSnapshots snapshotBackup.status looks at.  The requirements it
\* builds are added to a copy of the selector that is thrown away: it lists
\* every VolumeSnapshot of the namespace.
Listed(b) == {s \in Backups \X Disks : snap[s] # "none"}

\* The first listed snapshot that is not ready decides; the order of a list
\* served by the informer cache is arbitrary.
PollSnapshot(b) ==
    /\ Polling(b) /\ kind[b] = "Snapshot"
    /\ Listed(b) # {}
    /\ \/ /\ \E s \in Listed(b) : snap[s] = "error"
          /\ CommitState(b, "BackupFailed")
          /\ UNCHANGED pc
       \/ /\ \A s \in Listed(b) : snap[s] = "ready"
          /\ pc' = [pc EXCEPT ![b] = "complete"]
          /\ UNCHANGED state
    /\ UNCHANGED <<kind, cached, finalizer, object, op, snap, data, inst, instBackup>>

\* physicalBackup.metadata asks RMAN for the SCN of the backup and the database for
\* its time and incarnation; any of them may fail (Abort), and a time that the
\* database no longer knows leaves the metadata out.  A snapshot has none.
FetchMetadata(b) ==
    /\ pc[b] = "complete" /\ inst # "gone"
    /\ kind[b] # "Snapshot" => addBackupMetadata(b)
    /\ pc' = [pc EXCEPT ![b] = "described"]
    /\ UNCHANGED <<kind, state, cached, finalizer, object, op, snap, data, inst, instBackup>>

\* updateBackupStatus for BackupReady: first the Backup, then the Instance.
CommitReady(b) ==
    /\ pc[b] = "described"
    /\ CommitState(b, "BackupReady")
    /\ pc' = [pc EXCEPT ![b] = "record"]
    /\ UNCHANGED <<kind, cached, finalizer, object, op, snap, data, inst, instBackup>>

RecordOnInstance(b) ==
    /\ pc[b] = "record" /\ inst # "gone"
    /\ instBackup' = b
    /\ pc' = [pc EXCEPT ![b] = "idle"]
    /\ UNCHANGED <<kind, state, cached, finalizer, object, op, snap, data, inst>>

\* case BackupReady: the finalizer is added by a later reconcile.
AddFinalizer(b) ==
    /\ Creating(b)
    /\ cached[b] = "BackupReady"
    /\ finalizer[b] = "no" /\ Fresh(b)
    /\ finalizer' = [finalizer EXCEPT ![b] = "yes"]
    /\ UNCHANGED <<kind, state, cached, object, pc, op, snap, data, inst, instBackup>>

-----------------------------------------------------------------------------
(* reconcileVerifyExists: looks at a backup taken elsewhere, repeatedly.   *)

\* VerifyPhysicalBackup lists the directory that spec.gcsPath names.
VerifyPhysicalBackup(b) == data[b] = "bucket"

Verify(b) ==
    /\ kind[b] = "VerifyExists" /\ object[b] # "gone" /\ instReady
    /\ CommitState(b, IF VerifyPhysicalBackup(b) THEN "BackupReady" ELSE "BackupFailed")
    /\ UNCHANGED <<kind, cached, finalizer, object, pc, op, snap, data, inst, instBackup>>

\* A snapshot, or a physical backup without a bucket, cannot be verified.
RefuseVerify(b) ==
    /\ kind[b] = "VerifyNothing" /\ object[b] # "gone"
    /\ CommitState(b, "NotSupported")
    /\ UNCHANGED <<kind, cached, finalizer, object, pc, op, snap, data, inst, instBackup>>

-----------------------------------------------------------------------------
(* reconcileBackupDeletion.                                                *)

Deleting(b) == ~Verifying(b) /\ object[b] = "deleting" /\ finalizer[b] = "yes"

MarkDeleting(b) ==
    /\ Deleting(b) /\ pc[b] = "idle"
    /\ cached[b] # "BackupDeleting"
    /\ CommitState(b, "BackupDeleting")
    /\ UNCHANGED <<kind, cached, finalizer, object, pc, op, snap, data, inst, instBackup>>

\* Where GetBackupGcsPath finds a path, the objects below it are deleted, and RMAN
\* deletes the backup otherwise.  RMAN wrote the backup of a spec with a gcsDir to
\* the disk, as create only looks at spec.gcsPath: it stays there.
GetBackupGcsPath(b) == kind[b] \in {"GcsPath", "GcsDir"}

PhysicalBackupDelete(b) ==
    data' = [data EXCEPT ![b] = IF GetBackupGcsPath(b) /\ @ = "disk" THEN @ ELSE "none"]

\* physicalBackup.delete; snapshotBackup.delete leaves it to the collector.
DeleteData(b) ==
    /\ Deleting(b) /\ pc[b] = "idle"
    /\ cached[b] = "BackupDeleting"
    /\ inst # "gone"
    /\ PhysicalBackupDelete(b)
    /\ pc' = [pc EXCEPT ![b] = "purged"]
    /\ UNCHANGED <<kind, state, cached, finalizer, object, op, snap, inst, instBackup>>

\* After the data, or at once when the instance no longer exists.
RemoveFinalizer(b) ==
    /\ Deleting(b) /\ cached[b] = "BackupDeleting"
    /\ pc[b] = "purged" \/ (pc[b] = "idle" /\ inst = "gone")
    /\ Fresh(b)
    /\ finalizer' = [finalizer EXCEPT ![b] = "no"]
    /\ object' = [object EXCEPT ![b] = "gone"]
    /\ pc' = [pc EXCEPT ![b] = "idle"]
    /\ UNCHANGED <<kind, state, cached, op, snap, data, inst, instBackup>>

-----------------------------------------------------------------------------
(* The rest of the world.                                                  *)

\* A reconcile ends early: a call returns an error, a write is refused, the
\* operator is restarted.  What it has written stays.
Abort(b) ==
    /\ pc[b] # "idle"
    /\ pc' = [pc EXCEPT ![b] = "idle"]
    /\ UNCHANGED <<kind, state, cached, finalizer, object, op, snap, data, inst, instBackup>>

\* The informer delivers the current object.
CacheCatchesUp(b) ==
    /\ cached[b] # state[b] /\ pc[b] = "idle"
    /\ cached' = [cached EXCEPT ![b] = state[b]]
    /\ UNCHANGED <<kind, state, finalizer, object, pc, op, snap, data, inst, instBackup>>

\* A user deletes the Backup; without a finalizer it is gone at once.
UserDeletes(b) ==
    /\ object[b] = "live"
    /\ object' = [object EXCEPT ![b] = IF finalizer[b] = "yes" THEN "deleting" ELSE "gone"]
    /\ UNCHANGED <<kind, state, cached, finalizer, pc, op, snap, data, inst, instBackup>>

OperationEnds(b) ==
    /\ \E outcome \in {"ok", "error"} :
          /\ LRO!Finish(b, outcome)
          /\ data' = [data EXCEPT ![b] = IF outcome = "error" THEN @
                                         ELSE IF kind[b] = "GcsPath" THEN "bucket" ELSE "disk"]
    /\ UNCHANGED <<kind, state, cached, finalizer, object, pc, snap, inst, instBackup>>

OperationExpires(b) ==
    /\ op[b] \in {"ok", "error"}
    /\ LRO!Expire({b})
    /\ UNCHANGED <<kind, state, cached, finalizer, object, pc, snap, data, inst, instBackup>>

DaemonRestarts ==
    /\ LRO!Forget
    /\ UNCHANGED <<kind, state, cached, finalizer, object, pc, snap, data, inst, instBackup>>

\* The backup a VerifyExists object points at is written or removed.
ElsewhereChanges(b) ==
    /\ kind[b] = "VerifyExists"
    /\ data' = [data EXCEPT ![b] = IF @ = "bucket" THEN "none" ELSE "bucket"]
    /\ UNCHANGED <<kind, state, cached, finalizer, object, pc, op, snap, inst, instBackup>>

SnapshotEnds(s) ==
    /\ snap[s] = "creating"
    /\ \E end \in {"ready", "error"} : snap' = [snap EXCEPT ![s] = end]
    /\ UNCHANGED <<kind, state, cached, finalizer, object, pc, op, data, inst, instBackup>>

\* The garbage collector removes the snapshots owned by a Backup that is gone.
CollectSnapshots(b) ==
    /\ object[b] = "gone"
    /\ \E d \in Disks : snap[<<b, d>>] # "none"
    /\ snap' = [s \in Backups \X Disks |-> IF s[1] = b THEN "none" ELSE snap[s]]
    /\ UNCHANGED <<kind, state, cached, finalizer, object, pc, op, data, inst, instBackup>>

\* The Instance controller changes the Ready condition, a user deletes the Instance.
InstanceChanges ==
    /\ inst # "gone"
    /\ inst' \in {"ready", "notReady", "gone"} \ {inst}
    /\ UNCHANGED <<kind, state, cached, finalizer, object, pc, op, snap, data, instBackup>>

-----------------------------------------------------------------------------
Reconcile(b) ==
    \/ ToPending(b) \/ InstanceNotReady(b) \/ CommitID(b)
    \/ StartCreate(b) \/ CreatePhysical(b) \/ CreateSnapshots(b) \/ CommitInProgress(b)
    \/ PollPhysical(b) \/ PollSnapshot(b)
    \/ FetchMetadata(b) \/ CommitReady(b) \/ RecordOnInstance(b)
    \/ AddFinalizer(b) \/ Verify(b) \/ RefuseVerify(b)
    \/ MarkDeleting(b) \/ DeleteData(b) \/ RemoveFinalizer(b)

Environment ==
    \/ \E b \in Backups :
          \/ Abort(b) \/ CacheCatchesUp(b) \/ UserDeletes(b)
          \/ OperationEnds(b) \/ OperationExpires(b) \/ ElsewhereChanges(b)
          \/ CollectSnapshots(b)
    \/ \E s \in Backups \X Disks : SnapshotEnds(s)
    \/ DaemonRestarts
    \/ InstanceChanges

Next == (\E b \in Backups : Reconcile(b)) \/ Environment

Spec == Init /\ [][Next]_vars

-----------------------------------------------------------------------------
(* Properties.                                                             *)

OwnSnapshots(b) == {<<b, d>> : d \in Disks}

\* A Backup with reason BackupReady is one that can be restored from: the
\* operation that wrote it ended well, or all its own snapshots are ready.  The
\* reason is written several calls after the daemon or the storage was asked.
ReadyMeansComplete ==
    \A b \in Backups : state[b] = "BackupReady" /\ object[b] # "gone" =>
        /\ Physical(b) => data[b] # "none"
        /\ kind[b] = "Snapshot" => \A s \in OwnSnapshots(b) : snap[s] = "ready"

\* A backup is started only for a Backup object that waits for it: never again
\* once the object has left BackupPending, however old the copy the worker read
\* (a second RMAN run under the same tag would overwrite the first).
StartsOnlyPendingBackups ==
    [][\A b \in Backups : op[b] = "absent" /\ op'[b] = "running"
          => state[b] = "BackupIdentified" \/ object[b] = "gone"]_vars

\* Every Backup that was started comes to an end: the reconcile loop polls it,
\* and an operation that the daemon no longer knows counts as failed.
StartedBackupsEnd ==
    \A b \in Backups :
        state[b] = "BackupInProgress"
          ~> state[b] \in {"BackupReady", "BackupFailed"} \/ object[b] = "gone" \/ inst = "gone"

\* The work queue retries every reconcile that failed and a reconcile ends, at the
\* latest by its timeout; the informer delivers every change, operations and
\* snapshots end, and the daemon forgets the operations marked for deletion.  The
\* writes to the API server are not refused for ever; the queries for the metadata
\* of a physical backup may be.
Fairness ==
    /\ \A b \in Backups :
          /\ WF_vars(CacheCatchesUp(b)) /\ WF_vars(Abort(b))
          /\ SF_vars(PollPhysical(b)) /\ SF_vars(PollSnapshot(b))
          /\ SF_vars(kind[b] = "Snapshot" /\ FetchMetadata(b)) /\ SF_vars(CommitReady(b))
          /\ WF_vars(OperationEnds(b)) /\ WF_vars(OperationExpires(b))
          /\ WF_vars(CollectSnapshots(b))
    /\ \A s \in Backups \X Disks : WF_vars(SnapshotEnds(s))

FairSpec == Spec /\ Fairness
=============================================================================
