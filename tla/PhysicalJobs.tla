---------------------------- MODULE PhysicalJobs ----------------------------
(***************************************************************************)
(* Physical backups to and restores from a Google Cloud Storage bucket, as *)
(* requests of the database daemon.  RMAN knows only the local disk: a     *)
(* backup is written to a staging directory and copied out, a restore is   *)
(* copied in and its spfile and control file are looked up there.  All     *)
(* jobs use the same directory, RMANStagingDir, and databaseSid is locked  *)
(* for reading by each run of RMAN, not by a job as a whole.               *)
(*                                                                         *)
(* A backup has two pieces: its data with the archived logs, and the       *)
(* spfile with the control file, which RMAN writes by a second command.    *)
(***************************************************************************)
EXTENDS DbDaemon, Sequences

VARIABLES
    staging,    \* the pieces in RMANStagingDir, in the order they were written
    bucket,     \* the pieces stored under the path of each backup
    todo,       \* the pieces a job has still to copy between the two
    source,     \* the backup that a restore is asked for
    picked,     \* the backup whose control file the restore found
    result,     \* how each job ended
    disturbed   \* the jobs during which another one changed the directory

physicalVars == <<staging, bucket, todo, source, picked, result, disturbed>>

\* "Old" is a backup that was taken and copied out long ago, by no job of these.
ASSUME OldIsNoJob == "Old" \notin Others

Backups == {"Old"} \union Others

Parts == {"data", "control"}

Piece(b, part) == [of |-> b, part |-> part]

Pieces(b) == {Piece(b, part) : part \in Parts}

AllPieces == UNION {Pieces(b) : b \in Backups}

Staged == {staging[i] : i \in DOMAIN staging}

PhysicalTypeOK ==
    /\ Staged \subseteq AllPieces
    /\ bucket \in [Backups -> SUBSET AllPieces]
    /\ todo \in [Others -> SUBSET AllPieces]
    /\ source \in [Others -> Backups]
    /\ picked \in [Others -> Backups]
    /\ result \in [Others -> {"none", "ok", "error"}]
    /\ disturbed \in SUBSET Others

PhysicalInit ==
    /\ staging = <<>>
    /\ bucket = [b \in Backups |-> IF b = "Old" THEN Pieces("Old") ELSE {}]
    /\ todo = [r \in Others |-> {}]
    /\ source = [r \in Others |-> "Old"]
    /\ picked = [r \in Others |-> "Old"]
    /\ result = [r \in Others |-> "none"]
    /\ disturbed = {}

\* Where a job depends on the directory.
StagingPcs ==
    {"backupData", "backupControl", "copyOut",
     "copyIn", "createDirs", "restoreQueued", "restoreFiles", "restoreDatabase",
     "latestSCN", "recoverQueued", "recover"}

\* Job r leaves the directory as dir.
Touch(r, dir) ==
    /\ staging' = dir
    /\ disturbed' = disturbed \union {q \in Others \ {r} : pc[q] \in StagingPcs}

\* Job r ends.
End(r, res) ==
    /\ Return(r)
    /\ result' = [result EXCEPT ![r] = res]
    /\ UNCHANGED <<kind, loaderPassword, bucket, todo, source, picked>>

-----------------------------------------------------------------------------
(* The backup.                                                             *)

\* The operation that runs RMAN starts.
RunRMANAsync(r) == RLockSid(r, "idle", "backupData")

\* The directory is created and RMAN is asked for a backup to it.
PhysicalBackup(r) ==
    /\ kind[r] = "Backup"
    /\ RunRMANAsync(r)
    /\ UNCHANGED physicalVars

\* RMAN writes a piece; it needs the database.
WritePiece(r, from, part, to) ==
    /\ Advance(r, from, to)
    /\ Up
    /\ Touch(r, Append(staging, Piece(r, part)))
    /\ UNCHANGED <<loaderPassword, database, bucket, source, picked, result>>

\* The files to copy out are those that the walk finds.
RunBackupScript(r) ==
    \/ WritePiece(r, "backupData", "data", "backupControl") /\ UNCHANGED todo
    \/ /\ WritePiece(r, "backupControl", "control", "copyOut")
       /\ todo' = [todo EXCEPT ![r] = Staged \union {Piece(r, "control")}]

\* RMAN fails: what it has written stays.
BackupScriptFails(r) ==
    /\ pc[r] \in {"backupData", "backupControl"}
    /\ End(r, "error")
    /\ UNCHANGED <<database, staging, disturbed>>

\* The directory is removed, whether all was copied out or not.
RemoveStaging(r, res) ==
    /\ Touch(r, <<>>)
    /\ End(r, res)
    /\ UNCHANGED database

UploadDirectoryContents_SkipsErrors(r) ==
    \/ \E p \in todo[r] :
          /\ Advance(r, "copyOut", "copyOut")
          /\ todo' = [todo EXCEPT ![r] = @ \ {p}]
          /\ \/ p \in Staged /\ bucket' = [bucket EXCEPT ![r] = @ \union {p}]
             \/ UNCHANGED bucket
          /\ UNCHANGED <<loaderPassword, database, staging, source, picked, result, disturbed>>
    \/ /\ pc[r] = "copyOut" /\ todo[r] = {}
       /\ RemoveStaging(r, "ok")

\* File by file; one that cannot be copied, or is gone, ends the walk.
UploadDirectoryContents(r) ==
    \/ \E p \in todo[r] :
          /\ Advance(r, "copyOut", "copyOut")
          /\ p \in Staged
          /\ bucket' = [bucket EXCEPT ![r] = @ \union {p}]
          /\ todo' = [todo EXCEPT ![r] = @ \ {p}]
          /\ UNCHANGED <<loaderPassword, database, staging, source, picked, result, disturbed>>
    \/ /\ pc[r] = "copyOut"
       /\ \/ todo[r] = {} /\ RemoveStaging(r, "ok")
          \/ todo[r] # {} /\ RemoveStaging(r, "error")

-----------------------------------------------------------------------------
(* The restore.                                                            *)

\* The operator asks for the restore of a backup that is there.
PhysicalRestore(r) ==
    /\ kind[r] = "Restore" /\ Advance(r, "idle", "copyIn")
    /\ \E b \in {"Old"} \union {q \in Others : kind[q] = "Backup" /\ result[q] = "ok"} :
          /\ source' = [source EXCEPT ![r] = b]
          /\ todo' = [todo EXCEPT ![r] = bucket[b]]
    /\ UNCHANGED <<loaderPassword, database, staging, bucket, picked, result, disturbed>>

\* A directory without the file at place i.
Without(dir, i) == SubSeq(dir, 1, i - 1) \o SubSeq(dir, i + 1, Len(dir))

\* A file that exists is written again.
downloadFile(r, p) ==
    \/ /\ p \notin Staged
       /\ Touch(r, Append(staging, p))
    \/ \E i \in DOMAIN staging :
          /\ staging[i] = p
          /\ Touch(r, Append(Without(staging, i), p))

DownloadDirectory(r) ==
    \E p \in todo[r] :
        /\ Advance(r, "copyIn", "copyIn")
        /\ downloadFile(r, p)
        /\ todo' = [todo EXCEPT ![r] = @ \ {p}]
        /\ UNCHANGED <<loaderPassword, database, bucket, source, picked, result>>

\* The places of spfile and control file pieces.
Candidates == {i \in DOMAIN staging : staging[i].part = "control"}

findLatestBackupPiece_First ==
    staging[CHOOSE i \in Candidates : \A j \in Candidates : i <= j].of

\* The piece that was written last.
findLatestBackupPiece ==
    staging[CHOOSE i \in Candidates : \A j \in Candidates : j <= i].of

\* As far as it works.  The data files stay: they are named by a pattern, and
\* files are removed by their exact name.
deleteFilesForRestore == spfile' \in {spfile, FALSE}

\* The control file is looked up and old files of the database are deleted.
PrepareRestore(r) ==
    /\ Advance(r, "copyIn", "createDirs")
    /\ todo[r] = {} /\ Candidates # {}
    /\ picked' = [picked EXCEPT ![r] = findLatestBackupPiece]
    /\ deleteFilesForRestore
    /\ UNCHANGED <<loaderPassword, mode, cut, dumped, staging, bucket, todo, source, result, disturbed>>

\* The directories of the database are created; then the restore is an
\* operation of the daemon.
createDirsForRestore(r) ==
    /\ Advance(r, "createDirs", "restoreQueued")
    /\ UNCHANGED <<loaderPassword, database, physicalVars>>

\* The operation starts with its first run of RMAN.
PhysicalRestoreAsync(r) ==
    /\ kind[r] = "Restore"
    /\ RLockSid(r, "restoreQueued", "restoreFiles")
    /\ UNCHANGED physicalVars

\* The first run of RMAN: the database is forced to nomount and gets its
\* spfile; then it is started with it, gets its control file and is mounted,
\* and its data files are restored.
RunRestoreScript(r) ==
    \/ /\ Advance(r, "restoreFiles", "restoreDatabase")
       /\ Piece(picked[r], "control") \in Staged
       /\ Terminate("nomount")
       /\ spfile' = TRUE
       /\ UNCHANGED <<loaderPassword, dumped, physicalVars>>
    \/ /\ pc[r] = "restoreDatabase" /\ mode = "nomount"
       /\ Pieces(picked[r]) \subseteq Staged
       /\ mode' = "mount"
       /\ Goto(r, "latestSCN") /\ Unlock(r)
       /\ UNCHANGED <<kind, op, loaderPassword, spfile, cut, dumped, physicalVars>>

\* SQL in the mounted database, with databaseSid locked for it.
latestSCN(r) ==
    /\ Advance(r, "latestSCN", "recoverQueued")
    /\ MayWriteSid
    /\ mode \in {"mount", "open", "cdbOpen"}
    /\ UNCHANGED <<loaderPassword, database, physicalVars>>

\* The second run of RMAN recovers the data files and opens the database; then
\* the directory is removed.
RunRecoverScript(r) ==
    \/ kind[r] = "Restore" /\ RLockSid(r, "recoverQueued", "recover") /\ UNCHANGED physicalVars
    \/ /\ pc[r] = "recover" /\ mode = "mount"
       /\ Piece(picked[r], "data") \in Staged
       /\ mode' = "open"
       /\ Touch(r, <<>>)
       /\ End(r, "ok")
       /\ UNCHANGED <<spfile, cut, dumped>>

\* A step fails: the directory, and the database, stay as they are.
RestoreFails(r) ==
    /\ \/ pc[r] \in {"copyIn", "createDirs", "restoreFiles", "restoreDatabase", "recover"}
       \/ pc[r] = "latestSCN" /\ MayWriteSid
    /\ End(r, "error")
    /\ UNCHANGED <<database, staging, disturbed>>

PhysicalStep(r) ==
    \/ PhysicalBackup(r) \/ RunBackupScript(r) \/ BackupScriptFails(r)
    \/ UploadDirectoryContents(r)
    \/ PhysicalRestore(r) \/ DownloadDirectory(r) \/ PrepareRestore(r)
    \/ createDirsForRestore(r) \/ PhysicalRestoreAsync(r)
    \/ RunRestoreScript(r) \/ latestSCN(r) \/ RunRecoverScript(r) \/ RestoreFails(r)

-----------------------------------------------------------------------------
\* A backup that is reported to be done is in the bucket with all its pieces,
\* also when failed backups have left theirs in the directory, unless another
\* job used the directory at the same time: uploadDirectoryContentsToGCS and
\* physicalRestore remove RMANStagingDir for all.
GcsBackupIsWhole ==
    \A r \in Others \ disturbed :
        kind[r] = "Backup" /\ result[r] = "ok" => Pieces(r) \subseteq bucket[r]

\* A restore that is reported to be done has restored the backup it was asked
\* for: among all control files in RMANStagingDir, those of failed jobs
\* included, findLatestBackupPiece finds the one that was copied in for it,
\* provided that the bucket holds no other and no other job used the directory
\* at the same time.
RestoredIsRequested ==
    \A r \in Others \ disturbed :
        kind[r] = "Restore" /\ result[r] = "ok" /\ bucket[source[r]] = Pieces(source[r])
            => picked[r] = source[r]
=============================================================================
