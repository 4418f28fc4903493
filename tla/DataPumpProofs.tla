--------------------------- MODULE DataPumpProofs ---------------------------
(***************************************************************************)
(* Proofs about the requests of the database daemon and the controllers of *)
(* Imports and Exports, for any number of requests of every kind and any   *)
(* number of restarts.                                                     *)
(*                                                                         *)
(* Inv says where the mutexes are held, which keeps the password of the    *)
(* loader and the upgrade mode of a patch as they are, and ImportInv       *)
(* follows an outcome from the end of impdp to the status.                 *)
(***************************************************************************)
EXTENDS DataPump, TLAPS

-----------------------------------------------------------------------------
(* The mutexes of the requests.                                            *)

\* Where a data pump job holds pdbLoadMutex, ...
LoadPcs == {"download", "alter", "meta", "tablespaces", "pumping", "upload"}

\* ... and another request holds databaseSid for reading.
ReadPcs == {"rman", "bounce", "pfile", "backupData", "backupControl", "copyOut",
            "restoreFiles", "restoreDatabase", "recover"}

FreePcs == {"idle", "done", "copyIn", "createDirs", "restoreQueued", "latestSCN", "recoverQueued"}

LoadsLock ==
    \A r \in Loads :
        /\ pc[r] \in {"idle", "queued"} \union LoadPcs
        /\ pc[r] \in LoadPcs => loader = {r}

OthersLock ==
    \A r \in Others :
        /\ pc[r] \in FreePcs \union ReadPcs \union PatchPcs
        /\ pc[r] \in ReadPcs => r \in sidReaders
        /\ pc[r] \in PatchPcs => sidWriter = {r}

\* The locks are held where the code says so, and exclude each other; the mode that
\* a patch has set stays, as does the password that a job has set.
Inv ==
    /\ pc \in [Requests -> Pcs]
    /\ LoadsLock
    /\ OthersLock
    /\ sidWriter = {} \/ sidReaders = {}
    /\ LoaderPasswordIsCurrent
    /\ PatchIsUninterrupted

\* The initial states satisfy Inv.
LEMMA InitInv == Init => Inv
<1> SUFFICES ASSUME Init PROVE Inv
  OBVIOUS
<1>1. pc = [r \in Requests |-> "idle"] /\ sidWriter = {}
  BY DEF Init, DaemonInit
<1>2. \A r \in Requests : pc[r] = "idle"
  BY <1>1, Zenon
<1>3. pc \in [Requests -> Pcs]
  BY <1>1, Zenon DEF Pcs
<1>4. LoadsLock /\ OthersLock
  BY <1>2, Zenon DEF LoadsLock, OthersLock, LoadPcs, ReadPcs, FreePcs, PatchPcs, Requests
<1>5. LoaderPasswordIsCurrent /\ PatchIsUninterrupted
  BY <1>2, Zenon DEF LoaderPasswordIsCurrent, PatchIsUninterrupted, PatchPcs, Requests
<1> QED
  BY <1>1, <1>3, <1>4, <1>5, Zenon DEF Inv

\* The steps of a data pump job.
LEMMA JobKeepsInv ==
    ASSUME Inv, NEW r \in Loads, QueueLoad(r) \/ LockForLoad(r) \/ LoadStep(r)
    PROVE  Inv'
<1> USE DisjointRequests DEF Inv, LoadsLock, OthersLock, LoadPcs, ReadPcs, FreePcs, PatchPcs, Pcs, Requests,
        LoaderPasswordIsCurrent, PatchIsUninterrupted, Goto, Advance, Unlock, EndJob, locks, database
<1>1. CASE QueueLoad(r)
  BY <1>1 DEF QueueLoad
<1>2. CASE LockForLoad(r)
  BY <1>2 DEF LockForLoad
<1>3. CASE FetchDump(r) \/ RemoveOldDump(r)
  BY <1>3 DEF FetchDump, RemoveOldDump
<1>4. CASE SetupUserPwConnString(r)
  BY <1>4 DEF SetupUserPwConnString
<1>5. CASE GatherMetadata(r) \/ CreateTablespacesFromSqlfile(r)
  BY <1>5 DEF GatherMetadata, CreateTablespacesFromSqlfile
<1>6. CASE EndTool(r)
  BY <1>6 DEF EndTool
<1>7. CASE Upload(r) \/ LoadFails(r)
  BY <1>7 DEF Upload, LoadFails
<1> QED
  BY <1>1, <1>2, <1>3, <1>4, <1>5, <1>6, <1>7 DEF LoadStep

\* RMAN, bounces and the data patch.
LEMMA RequestKeepsInv ==
    ASSUME Inv, NEW r \in Others, OtherStep(r)
    PROVE  Inv'
<1> USE DisjointRequests DEF Inv, LoadsLock, OthersLock, LoadPcs, ReadPcs, FreePcs, PatchPcs, Pcs, Requests,
        LoaderPasswordIsCurrent, PatchIsUninterrupted, Goto, Advance, Unlock, Return, locks, database,
        LockSid, RLockSid, MayWriteSid, MayReadSid, Terminate, ShutdownDatabase, StartupDatabase, MayStart
<1>1. CASE RunRMAN(r) \/ BackupConfigFile(r)
  BY <1>1 DEF RunRMAN, BackupConfigFile
<1>2. CASE BounceDatabase(r)
  BY <1>2 DEF BounceDatabase
<1>3. CASE ApplyDataPatch(r)
  <2>1. CASE LockForPatch(r)
    BY <2>1 DEF LockForPatch
  <2>2. CASE PatchStep(r) /\ UNCHANGED loaderPassword
    BY <2>2 DEF PatchStep, SetDatabaseUpgradeMode, OpenPDBs
  <2>3. CASE pc[r] \in PatchPcs \ {"lockMaintenance"} /\ Return(r)
             /\ UNCHANGED <<kind, loaderPassword, database>>
    BY <2>3
  <2> QED
    BY <1>3, <2>1, <2>2, <2>3 DEF ApplyDataPatch
<1> QED
  BY <1>1, <1>2, <1>3 DEF OtherStep

\* Physical backups and restores.
LEMMA PhysicalKeepsInv ==
    ASSUME Inv, NEW r \in Others, PhysicalStep(r)
    PROVE  Inv'
<1> USE DisjointRequests DEF Inv, LoadsLock, OthersLock, LoadPcs, ReadPcs, FreePcs, PatchPcs, Pcs, Requests,
        LoaderPasswordIsCurrent, PatchIsUninterrupted, Goto, Advance, Unlock, Return, End, locks, database,
        RLockSid, MayWriteSid, MayReadSid, Terminate
<1>1. CASE PhysicalBackup(r) \/ RunBackupScript(r) \/ BackupScriptFails(r)
  BY <1>1 DEF PhysicalBackup, RunRMANAsync, RunBackupScript, WritePiece, BackupScriptFails
<1>2. CASE UploadDirectoryContents(r)
  BY <1>2 DEF UploadDirectoryContents, RemoveStaging
<1>3. CASE PhysicalRestore(r) \/ DownloadDirectory(r) \/ PrepareRestore(r) \/ createDirsForRestore(r)
  BY <1>3 DEF PhysicalRestore, DownloadDirectory, PrepareRestore, createDirsForRestore
<1>4. CASE PhysicalRestoreAsync(r) \/ latestSCN(r)
  BY <1>4 DEF PhysicalRestoreAsync, latestSCN
<1>5. CASE RunRestoreScript(r)
  BY <1>5 DEF RunRestoreScript
<1>6. CASE RunRecoverScript(r)
  BY <1>6 DEF RunRecoverScript
<1>7. CASE RestoreFails(r)
  <2>1. pc[r] \in Pcs \ (PatchPcs \union {"idle", "done"}) /\ Return(r) /\ UNCHANGED <<loaderPassword, database>>
    BY <1>7 DEF RestoreFails
  <2> QED
    BY <2>1
<1> QED
  BY <1>1, <1>2, <1>3, <1>4, <1>5, <1>6, <1>7 DEF PhysicalStep

\* Every step keeps Inv: one case per group of actions.
LEMMA StepKeepsInv == ASSUME Inv, [Next]_vars PROVE Inv'
<1> USE DEF Inv, LoadsLock, OthersLock, LoaderPasswordIsCurrent, PatchIsUninterrupted
<1>1. ASSUME NEW r \in Loads, Handle(r) PROVE Inv'
  BY <1>1, JobKeepsInv, Zenon DEF Handle, HandleNotStartedImport, HandleNotStartedExport, NotStarted, DataPumpImport,
     DataPumpExport, HandleRunningImport, HandleRunningExport, Running, daemonVars
<1>2. ASSUME NEW r \in Loads, UpdateStatus(r) \/ Abort(r) PROVE Inv'
  BY <1>2 DEF UpdateStatus, Abort, daemonVars
<1>3. ASSUME NEW r \in Loads, JobStep(r) PROVE Inv'
  BY <1>3, JobKeepsInv DEF JobStep
<1>4. ASSUME NEW r \in Loads, Collect(r) PROVE Inv'
  BY <1>4 DEF Collect, CollectJob, locks, database
<1>5. ASSUME NEW r \in Others, RequestStep(r) PROVE Inv'
  BY <1>5, RequestKeepsInv, PhysicalKeepsInv DEF RequestStep
<1>6. CASE DaemonRestarts
  BY <1>6, DisjointRequests DEF DaemonRestarts, Restart, Requests, Pcs, LoadPcs, ReadPcs, FreePcs, PatchPcs
<1>7. CASE UNCHANGED vars
  BY <1>7 DEF vars, daemonVars
<1> QED
  BY <1>1, <1>2, <1>3, <1>4, <1>5, <1>6, <1>7 DEF Next

\* Inv holds in every reachable state.
LEMMA InvHolds == Spec => []Inv
  BY InitInv, StepKeepsInv, PTL DEF Spec

\* pdbLoadMutex is enough, however many data pump jobs there are: none of them finds
\* the password changed that it has set for PDBLoaderUser.
THEOREM JobsKeepTheirPassword == Spec => []LoaderPasswordIsCurrent
  BY InvHolds, PTL DEF Inv

\* databaseSid is enough, however many bounces, patches, backups and restores there
\* are: the database stays in the mode that a data patch has put it in.
THEOREM PatchesAreUninterrupted == Spec => []PatchIsUninterrupted
  BY InvHolds, PTL DEF Inv

-----------------------------------------------------------------------------
(* What a completed Import says.                                           *)

\* The operation of job r runs as long as its goroutine does.  An outcome is only read
\* while the object is in progress, and then no job is started again; it is good only
\* after impdp has come to its end, which nothing but a new job forgets.
LoadInv(r) ==
    /\ op[r] = "running" <=> pc[r] # "idle"
    /\ ctl[r] \in {"ok", "error"} => status[r] = "InProgress" /\ pc[r] = "idle"
    /\ ctl[r] = "started" => status[r] = ""
    /\ status[r] \in {"Complete", "Failed"} => pc[r] = "idle"
    /\ kind[r] = "Import" /\ pc[r] = "upload" => r \in dumped
    /\ kind[r] = "Import" /\ op[r] = "ok" => r \in dumped
    /\ kind[r] = "Import" /\ ctl[r] = "ok" => r \in dumped
    /\ kind[r] = "Import" /\ status[r] = "Complete" => r \in dumped

LoadTypeOK ==
    /\ status \in [Loads -> {"", "InProgress", "Complete", "Failed"}]
    /\ ctl \in [Loads -> {"idle", "started", "ok", "error"}]
    /\ op \in [Loads -> {"absent", "running", "ok", "error"}]

ImportInv == LoadTypeOK /\ \A r \in Loads : LoadInv(r)

\* The initial states satisfy ImportInv.
LEMMA InitImportInv == Init => ImportInv
  BY Zenon DEF Init, DaemonInit, ImportInv, LoadInv, LoadTypeOK, LRO!ServiceInit, Requests, Pcs

\* A step that leaves alone what LoadInv says of a job.
LEMMA LoadFrame ==
    ASSUME ImportInv, NEW r \in Loads, UNCHANGED <<pc[r], op[r], ctl[r], status[r], kind[r]>>,
           r \in dumped => r \in dumped'
    PROVE  LoadInv(r)'
  BY Zenon DEF ImportInv, LoadInv

\* The steps of the controllers keep ImportInv.
LEMMA ControllerKeepsImportInv ==
    ASSUME Inv, ImportInv, NEW r \in Loads, Handle(r) \/ UpdateStatus(r) \/ Abort(r)
    PROVE  ImportInv'
<1> USE DEF LoadTypeOK, Requests
<1>0. LoadTypeOK /\ LoadInv(r) /\ pc \in [Requests -> Pcs]
  BY Zenon DEF ImportInv, Inv
<1>1. CASE HandleNotStartedImport(r) \/ HandleNotStartedExport(r)
  <2>1. /\ ctl[r] = "idle" /\ status[r] = "" /\ ctl' = [ctl EXCEPT ![r] = "started"]
        /\ UNCHANGED <<status, kind, dumped>>
        /\ \/ /\ op[r] = "absent" /\ op' = [op EXCEPT ![r] = "running"]
              /\ pc' = [pc EXCEPT ![r] = "queued"]
           \/ UNCHANGED <<pc, op>>
    BY <1>1, Zenon DEF HandleNotStartedImport, HandleNotStartedExport, NotStarted, DataPumpImport,
       DataPumpExport, QueueLoad, LRO!Start, Goto, daemonVars, database
  <2>2. LoadTypeOK'
    BY <1>0, <2>1, Zenon
  <2>3. LoadInv(r)'
    BY <1>0, <2>1, Zenon DEF LoadInv
  <2>4. ASSUME NEW q \in Loads \ {r} PROVE LoadInv(q)'
    BY <1>0, <2>1, LoadFrame, Zenon
  <2> QED
    BY <2>2, <2>3, <2>4, Zenon DEF ImportInv
<1>2. CASE HandleRunningImport(r) \/ HandleRunningExport(r)
  <2>1. /\ status[r] = "InProgress" /\ op[r] \in {"ok", "error"}
        /\ ctl' = [ctl EXCEPT ![r] = op[r]]
        /\ UNCHANGED <<pc, op, status, kind, dumped>>
    BY <1>2, Zenon DEF HandleRunningImport, HandleRunningExport, Running, LRO!Outcomes, daemonVars
  <2>2. LoadTypeOK'
    BY <1>0, <2>1, Zenon
  <2>3. LoadInv(r)'
    BY <1>0, <2>1, Zenon DEF LoadInv
  <2>4. ASSUME NEW q \in Loads \ {r} PROVE LoadInv(q)'
    BY <1>0, <2>1, LoadFrame, Zenon
  <2> QED
    BY <2>2, <2>3, <2>4 DEF ImportInv
<1>3. CASE UpdateStatus(r) \/ Abort(r)
  <2>1. /\ ctl' = [ctl EXCEPT ![r] = "idle"]
        /\ \/ /\ ctl[r] # "idle"
              /\ status' = [status EXCEPT ![r] =
                              IF ctl[r] = "started" THEN "InProgress"
                              ELSE IF ctl[r] = "ok" THEN "Complete" ELSE "Failed"]
           \/ UNCHANGED status
        /\ UNCHANGED <<pc, op, kind, dumped>>
    BY <1>3 DEF UpdateStatus, Abort, daemonVars
  <2>2. LoadTypeOK'
    BY <1>0, <2>1, Zenon
  <2>3. LoadInv(r)'
    BY <1>0, <2>1, Zenon DEF LoadInv
  <2>4. ASSUME NEW q \in Loads \ {r} PROVE LoadInv(q)'
    BY <1>0, <2>1, LoadFrame, Zenon
  <2> QED
    BY <2>2, <2>3, <2>4 DEF ImportInv
<1> QED
  BY <1>1, <1>2, <1>3 DEF Handle

\* The steps of a data pump job keep ImportInv.
LEMMA JobKeepsImportInv ==
    ASSUME Inv, ImportInv, NEW r \in Loads, JobStep(r)
    PROVE  ImportInv'
<1> USE DEF LoadTypeOK, Requests
<1>0. LoadTypeOK /\ LoadInv(r) /\ pc \in [Requests -> Pcs] /\ UNCHANGED <<ctl, status>>
  BY Zenon DEF ImportInv, Inv, JobStep, controllerVars
<1>1. CASE \/ LockForLoad(r) \/ FetchDump(r) \/ RemoveOldDump(r) \/ SetupUserPwConnString(r)
           \/ GatherMetadata(r) \/ CreateTablespacesFromSqlfile(r)
  <2>1. /\ UNCHANGED <<op, kind>>
        /\ pc[r] \in {"queued", "download", "alter", "meta", "tablespaces"}
        /\ \E to \in {"download", "alter", "meta", "tablespaces", "pumping"} :
              pc' = [pc EXCEPT ![r] = to]
        /\ dumped' = dumped \/ dumped' = dumped \ {r}
    BY <1>1, Zenon DEF LockForLoad, FetchDump, RemoveOldDump, SetupUserPwConnString, GatherMetadata,
       CreateTablespacesFromSqlfile, Advance, Goto, database
  <2>2. LoadTypeOK'
    BY <1>0, <2>1, Zenon
  <2>3. LoadInv(r)'
    <3>1. op[r] = "running" /\ ctl[r] \notin {"ok", "error"}
          /\ status[r] \notin {"Complete", "Failed"}
      BY <1>0, <2>1, Zenon DEF LoadInv
    <3>2. pc'[r] \notin {"idle", "upload"}
      BY <1>0, <2>1, Zenon
    <3> QED
      BY <1>0, <2>1, <3>1, <3>2, Zenon DEF LoadInv
  <2>4. ASSUME NEW q \in Loads \ {r} PROVE LoadInv(q)'
    BY <1>0, <2>1, LoadFrame, Zenon
  <2> QED
    BY <2>2, <2>3, <2>4, Zenon DEF ImportInv
<1>2. CASE EndTool(r) \/ Upload(r) \/ LoadFails(r)
  <2>1. /\ UNCHANGED kind
        /\ pc[r] # "idle"
        /\ \/ /\ pc' = [pc EXCEPT ![r] = "upload"] /\ UNCHANGED op
              /\ kind[r] = "Import" => r \in dumped'
           \/ \E res \in {"ok", "error"} :
                 /\ pc' = [pc EXCEPT ![r] = "idle"] /\ op' = [op EXCEPT ![r] = res]
                 /\ res = "ok" => pc[r] = "upload"
        /\ dumped' = dumped \/ dumped' = dumped \union {r}
    <3>1. CASE EndTool(r)
      BY <3>1 DEF EndTool, EndJob, LRO!Finish, Goto, Tolerates, ImportTolerates, ExportTolerates
    <3>2. CASE Upload(r) \/ LoadFails(r)
      BY <3>2 DEF Upload, LoadFails, EndJob, LRO!Finish, LRO!Outcomes, Goto
    <3> QED
      BY <1>2, <3>1, <3>2, Zenon
  <2>2. LoadTypeOK'
    BY <1>0, <2>1, Zenon
  <2>3. LoadInv(r)'
    BY <1>0, <2>1, Zenon DEF LoadInv
  <2>4. ASSUME NEW q \in Loads \ {r} PROVE LoadInv(q)'
    BY <1>0, <2>1, LoadFrame, Zenon
  <2> QED
    BY <2>2, <2>3, <2>4 DEF ImportInv
<1> QED
  BY <1>1, <1>2 DEF JobStep, LoadStep

\* The requests that are not data pump jobs leave the jobs alone.
LEMMA RequestFrame ==
    ASSUME NEW r \in Others, OtherStep(r) \/ PhysicalStep(r)
    PROVE  /\ UNCHANGED <<op, kind, dumped>>
           /\ \E to : pc' = [pc EXCEPT ![r] = to]
<1> USE DEF Goto, Advance, Return, End, locks, database, LockSid, RLockSid, Terminate
<1>1. CASE RunRMAN(r) \/ BackupConfigFile(r)
  BY <1>1 DEF RunRMAN, BackupConfigFile
<1>2. CASE BounceDatabase(r)
  BY <1>2 DEF BounceDatabase, ShutdownDatabase, StartupDatabase
<1>3. CASE ApplyDataPatch(r)
  BY <1>3 DEF ApplyDataPatch, LockForPatch, PatchStep, SetDatabaseUpgradeMode, OpenPDBs,
     ShutdownDatabase, StartupDatabase
<1>4. CASE PhysicalBackup(r) \/ RunBackupScript(r) \/ BackupScriptFails(r)
  BY <1>4 DEF PhysicalBackup, RunRMANAsync, RunBackupScript, WritePiece, BackupScriptFails
<1>5. CASE UploadDirectoryContents(r)
  BY <1>5 DEF UploadDirectoryContents, RemoveStaging
<1>6. CASE PhysicalRestore(r) \/ DownloadDirectory(r) \/ PrepareRestore(r) \/ createDirsForRestore(r)
  BY <1>6, Zenon DEF PhysicalRestore, DownloadDirectory, PrepareRestore, createDirsForRestore
<1>7. CASE PhysicalRestoreAsync(r) \/ latestSCN(r) \/ RunRestoreScript(r)
  BY <1>7, Zenon DEF PhysicalRestoreAsync, latestSCN, RunRestoreScript
<1>8. CASE RunRecoverScript(r) \/ RestoreFails(r)
  BY <1>8, Zenon DEF RunRecoverScript, RestoreFails
<1> QED
  BY <1>1, <1>2, <1>3, <1>4, <1>5, <1>6, <1>7, <1>8 DEF OtherStep, PhysicalStep

\* Every step keeps ImportInv.
LEMMA StepKeepsImportInv == ASSUME Inv, ImportInv, [Next]_vars PROVE ImportInv'
<1>1. ASSUME NEW r \in Loads, Collect(r) PROVE ImportInv'
  BY <1>1, Zenon DEF Collect, CollectJob, LRO!Expire, LRO!Outcomes, ImportInv, LoadInv, LoadTypeOK,
     controllerVars, database
<1>2. CASE DaemonRestarts
  BY <1>2, Zenon DEF DaemonRestarts, Restart, LRO!Forget, ImportInv, LoadInv, LoadTypeOK, Requests,
     controllerVars
<1>3. ASSUME NEW q \in Others, RequestStep(q) PROVE ImportInv'
  <2>1. /\ UNCHANGED <<status, ctl, op, kind, dumped>>
        /\ \E to : pc' = [pc EXCEPT ![q] = to]
    BY <1>3, RequestFrame DEF RequestStep, controllerVars
  <2>2. \A r \in Loads : pc'[r] = pc[r]
    BY <2>1, DisjointRequests DEF Inv, Requests
  <2> QED
    BY <2>1, <2>2, LoadFrame, Zenon DEF ImportInv, LoadTypeOK
<1>4. CASE UNCHANGED vars
  BY <1>4, LoadFrame, Zenon DEF ImportInv, LoadTypeOK, vars, daemonVars, controllerVars
<1> QED
  BY <1>1, <1>2, <1>3, <1>4, ControllerKeepsImportInv, JobKeepsImportInv DEF Next

\* Whatever the daemon forgets, cuts short or runs again: an Import is reported
\* complete only after impdp has run to its end for it.
THEOREM CompleteImportWasImported == Spec => []ImportCompleteMeansImported
<1>1. ImportInv => ImportCompleteMeansImported
  <2> SUFFICES ASSUME ImportInv, NEW r \in Loads, kind[r] = "Import", status[r] = "Complete"
               PROVE  r \in dumped
    BY DEF ImportCompleteMeansImported
  <2>1. LoadInv(r)
    BY DEF ImportInv
  <2> QED
    BY <2>1 DEF LoadInv
<1> QED
  BY <1>1, InvHolds, InitImportInv, StepKeepsImportInv, PTL DEF Spec

-----------------------------------------------------------------------------
(* The service that the controllers use.                                   *)

\* Seen by the operations of the data pump jobs alone, the daemon with all its other
\* requests is the service of LROService, which LROServer implements: no job starts
\* while its operation is known, and only running ones end.
THEOREM JobsFollowService == Spec => LRO!ServiceSpec
<1>1. Init => LRO!ServiceInit
  BY Zenon DEF Init, DaemonInit
<1>2. ASSUME [Next]_vars PROVE [LRO!ServiceNext]_op
  <2>1. ASSUME NEW r \in Loads, Handle(r) PROVE LRO!Start(r) \/ UNCHANGED op
    BY <2>1, Zenon DEF Handle, HandleNotStartedImport, HandleNotStartedExport, NotStarted, DataPumpImport,
       DataPumpExport, HandleRunningImport, HandleRunningExport, Running, QueueLoad, daemonVars
  <2>2. ASSUME NEW r \in Loads, UpdateStatus(r) \/ Abort(r) PROVE UNCHANGED op
    BY <2>2 DEF UpdateStatus, Abort, daemonVars
  <2>3. ASSUME NEW r \in Loads, JobStep(r)
        PROVE  (\E res \in LRO!Outcomes : LRO!Finish(r, res)) \/ UNCHANGED op
    <3>1. CASE EndTool(r) \/ Upload(r) \/ LoadFails(r)
      BY <3>1 DEF EndTool, Upload, LoadFails, EndJob, LRO!Outcomes
    <3>2. CASE ~(EndTool(r) \/ Upload(r) \/ LoadFails(r))
      BY <2>3, <3>2, Zenon DEF JobStep, LockForLoad, LoadStep, FetchDump, RemoveOldDump, SetupUserPwConnString,
         GatherMetadata, CreateTablespacesFromSqlfile, Advance
    <3> QED
      BY <3>1, <3>2
  <2>4. ASSUME NEW r \in Loads, Collect(r) PROVE \E S \in SUBSET Loads : LRO!Expire(S)
    BY <2>4 DEF Collect, CollectJob
  <2>5. ASSUME NEW r \in Others, RequestStep(r) PROVE UNCHANGED op
    BY <2>5, RequestFrame DEF RequestStep
  <2>6. DaemonRestarts => LRO!Forget
    BY DEF DaemonRestarts, Restart
  <2>7. UNCHANGED vars => UNCHANGED op
    BY DEF vars, daemonVars
  <2> QED
    BY <1>2, <2>1, <2>2, <2>3, <2>4, <2>5, <2>6, <2>7 DEF Next, LRO!ServiceNext
<1> QED
  BY <1>1, <1>2, PTL DEF Spec, LRO!ServiceSpec
=============================================================================
