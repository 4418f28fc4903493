------------------------- MODULE PhysicalJobsProofs -------------------------
(***************************************************************************)
(* Proofs about physical backups to and restores from the bucket, for any  *)
(* number of requests of every kind and any number of restarts.            *)
(*                                                                         *)
(* PhysicalInv follows the pieces of a backup from RMAN through the        *)
(* staging directory to the bucket, and the control file of a restore from *)
(* the bucket to its place in the directory: it stays the last one         *)
(* written.  Both need that a job changes nothing of another one but the   *)
(* directory (StepAside), and that what is in the bucket changes no more   *)
(* once its backup is done.                                                *)
(***************************************************************************)
EXTENDS DataPumpProofs, SequenceTheorems


BackupPcs == {"backupData", "backupControl", "copyOut"}

\* A restore is copied in, ...
RestorePcs == {"copyIn", "createDirs", "restoreQueued", "restoreFiles", "restoreDatabase",
               "latestSCN", "recoverQueued", "recover"}

\* A job is where its kind leads, and is done when it has a result.
StageInv(r) ==
    /\ pc[r] \in BackupPcs => kind[r] = "Backup"
    /\ pc[r] \in RestorePcs => kind[r] = "Restore"
    /\ result[r] # "none" => pc[r] = "done"

\* As long as no other job disturbs it, a piece of a backup is in the directory, or to
\* be copied out, or copied.
BackupInv(r) ==
    r \notin disturbed =>
        /\ pc[r] = "backupControl" => Piece(r, "data") \in Staged
        /\ pc[r] = "copyOut" => Pieces(r) \subseteq bucket[r] \union todo[r]
        /\ kind[r] = "Backup" /\ result[r] = "ok" => Pieces(r) \subseteq bucket[r]

\* Restore r has been asked for.
Asked(r) == pc[r] \in RestorePcs \/ (kind[r] = "Restore" /\ result[r] = "ok")

\* The control file of backup b was written to the directory last.
LastControl(b) ==
    \E i \in DOMAIN staging :
        /\ staging[i] = Piece(b, "control")
        /\ \A j \in Candidates : j <= i

\* The backup that a restore is of was complete, and changes no more; its control file
\* is still to be copied, or is the last one copied, or was found.
RestoreInv(r) ==
    /\ Asked(r) => source[r] = "Old" \/ result[source[r]] = "ok"
    /\ Asked(r) /\ r \notin disturbed /\ bucket[source[r]] = Pieces(source[r]) =>
         IF pc[r] = "copyIn"
         THEN /\ todo[r] \subseteq Pieces(source[r])
              /\ Piece(source[r], "control") \in todo[r] \/ LastControl(source[r])
         ELSE picked[r] = source[r]

PhysicalTypes ==
    /\ bucket \in [Backups -> SUBSET AllPieces]
    /\ todo \in [Others -> SUBSET AllPieces]
    /\ source \in [Others -> Backups]
    /\ DOMAIN picked = Others
    /\ result \in [Others -> {"none", "ok", "error"}]
    /\ disturbed \in SUBSET Others

PhysicalInv ==
    /\ staging \in Seq(AllPieces)
    /\ PhysicalTypes
    /\ \A r \in Others : StageInv(r) /\ BackupInv(r) /\ RestoreInv(r)

\* The initial states satisfy PhysicalInv.
LEMMA InitPhysicalInv == Init => PhysicalInv
<1> SUFFICES ASSUME Init PROVE PhysicalInv
  OBVIOUS
<1>0. staging = <<>>
  BY Zenon DEF Init, PhysicalInit
<1>1. staging \in Seq(AllPieces) /\ Staged = {}
  BY <1>0, EmptySeq DEF Staged
<1>2. PhysicalTypes
  <2>1. \A b \in Backups : Pieces(b) \subseteq AllPieces
    BY DEF AllPieces
  <2> QED
    BY <1>1, <2>1, Zenon DEF Init, PhysicalInit, PhysicalTypes, Backups
<1>3. \A r \in Others : pc[r] = "idle" /\ result[r] = "none"
  BY Zenon DEF Init, PhysicalInit, DaemonInit, Requests
<1> QED
  BY <1>1, <1>2, <1>3 DEF PhysicalInv, StageInv, BackupInv, RestoreInv, Asked, BackupPcs, RestorePcs

\* What a step of request q leaves alone.
Aside(q) ==
    /\ pc[q] # "done"
    /\ UNCHANGED kind
    /\ \A r \in Others \ {q} : UNCHANGED <<pc[r], todo[r], source[r], picked[r], result[r]>>
    /\ \A b \in Backups \ {q} : UNCHANGED bucket[b]
    /\ disturbed \subseteq disturbed'
    /\ \/ UNCHANGED staging
       \/ \A r \in Others \ {q} : pc[r] \in StagingPcs => r \in disturbed'

\* Each step of a request leaves the others alone but for the directory, and then
\* notes which ones it disturbs.
LEMMA StepAside ==
    ASSUME Inv, PhysicalInv, NEW q \in Others,
           (OtherStep(q) /\ UNCHANGED physicalVars) \/ PhysicalStep(q)
    PROVE  Aside(q)
<1> USE DEF Aside, Goto, Advance, Return, End, LockSid, RLockSid, Touch, physicalVars
<1>0. /\ pc \in [Requests -> Pcs] /\ q \in Requests /\ Others \subseteq Requests
      /\ PhysicalTypes
  BY DEF Inv, PhysicalInv, Requests
<1> USE <1>0 DEF PhysicalTypes
<1>1. CASE OtherStep(q) /\ UNCHANGED physicalVars
  <2>1. UNCHANGED kind /\ \E to : pc' = [pc EXCEPT ![q] = to]
    BY <1>1, RequestFrame
  <2>2. pc[q] # "done"
    <3>1. CASE RunRMAN(q) \/ BackupConfigFile(q) \/ BounceDatabase(q)
      BY <3>1 DEF RunRMAN, BackupConfigFile, BounceDatabase
    <3>2. CASE ApplyDataPatch(q)
      BY <3>2 DEF ApplyDataPatch, LockForPatch, PatchStep, PatchPcs, SetDatabaseUpgradeMode, OpenPDBs
    <3> QED
      BY <1>1, <3>1, <3>2 DEF OtherStep
  <2> QED
    BY <1>1, <2>1, <2>2
<1>2. CASE PhysicalBackup(q) \/ RunBackupScript(q) \/ BackupScriptFails(q)
  BY <1>2 DEF PhysicalBackup, RunRMANAsync, RunBackupScript, WritePiece, BackupScriptFails
<1>3. CASE UploadDirectoryContents(q)
  BY <1>3 DEF UploadDirectoryContents, RemoveStaging
<1>4. CASE PhysicalRestore(q) \/ PrepareRestore(q) \/ createDirsForRestore(q)
  BY <1>4 DEF PhysicalRestore, PrepareRestore, createDirsForRestore
<1>5. CASE DownloadDirectory(q)
  BY <1>5 DEF DownloadDirectory, downloadFile
<1>6. CASE PhysicalRestoreAsync(q) \/ latestSCN(q) \/ RunRestoreScript(q)
  BY <1>6 DEF PhysicalRestoreAsync, latestSCN, RunRestoreScript
<1>7. CASE RunRecoverScript(q) \/ RestoreFails(q)
  BY <1>7 DEF RunRecoverScript, RestoreFails
<1> QED
  BY <1>1, <1>2, <1>3, <1>4, <1>5, <1>6, <1>7 DEF PhysicalStep

\* So they keep what is said of the other jobs.
LEMMA AsideKeepsJob ==
    ASSUME PhysicalInv, NEW q \in Others, Aside(q), NEW r \in Others \ {q}
    PROVE  StageInv(r)' /\ BackupInv(r)' /\ RestoreInv(r)'
<1>0. /\ StageInv(r) /\ BackupInv(r) /\ RestoreInv(r) /\ StageInv(q)
      /\ source[r] \in Backups /\ r \in Backups
      /\ UNCHANGED <<kind, pc[r], todo[r], source[r], picked[r], result[r], bucket[r]>>
      /\ disturbed \subseteq disturbed'
  BY DEF PhysicalInv, PhysicalTypes, Aside, Backups
<1>1. StageInv(r)'
  BY <1>0 DEF StageInv
<1>2. CASE r \in disturbed'
  <2>1. Asked(r) => source[r] = "Old" \/ (source[r] \in Others \ {q} /\ result[source[r]] = "ok")
    BY <1>0 DEF RestoreInv, Backups, StageInv, Aside
  <2>2. RestoreInv(r)'
    BY <1>0, <1>2, <2>1 DEF RestoreInv, Asked, Aside
  <2> QED
    BY <1>1, <1>2, <2>2 DEF BackupInv
<1>3. CASE r \notin disturbed' /\ (UNCHANGED staging \/ pc[r] \notin StagingPcs)
  <2>1. BackupInv(r)'
    BY <1>0, <1>3 DEF BackupInv, Staged, StagingPcs
  <2>2. Asked(r) => /\ source[r] = "Old" \/ (source[r] \in Others \ {q} /\ result[source[r]] = "ok")
                    /\ source[r] # q
    BY <1>0, OldIsNoJob DEF RestoreInv, Backups, StageInv, Aside
  <2>3. Asked(r) => UNCHANGED bucket[source[r]]
    BY <1>0, <2>2 DEF Aside
  <2>4. pc[r] = "copyIn" /\ LastControl(source[r]) => LastControl(source[r])'
    BY <1>0, <1>3 DEF LastControl, Candidates, StagingPcs
  <2>5. RestoreInv(r)'
    BY <1>0, <1>3, <2>2, <2>3, <2>4 DEF RestoreInv, Asked, Aside
  <2> QED
    BY <1>1, <2>1, <2>5
<1> QED
  BY <1>2, <1>3 DEF Aside

\* A directory without one of its files.
LEMMA WithoutFile ==
    ASSUME NEW S, NEW s \in Seq(S), NEW i \in 1..Len(s)
    PROVE  /\ Without(s, i) \in Seq(S)
           /\ Len(Without(s, i)) = Len(s) - 1
           /\ \A j \in 1..(Len(s) - 1) : Without(s, i)[j] = IF j < i THEN s[j] ELSE s[j + 1]
<1> DEFINE u == SubSeq(s, 1, i - 1)
           v == SubSeq(s, i + 1, Len(s))
<1>1. /\ u \in Seq(S)
      /\ Len(u) = i - 1
      /\ \A k \in 1..(i - 1) : u[k] = s[k]
  BY SubSeqProperties, LenProperties
<1>2. /\ v \in Seq(S)
      /\ Len(v) = Len(s) - i
      /\ \A k \in 1..(Len(s) - i) : v[k] = s[k + i]
  BY SubSeqProperties, LenProperties
<1>3. Without(s, i) = u \o v
  BY DEF Without
<1> HIDE DEF u, v
<1>4. /\ u \o v \in Seq(S)
      /\ Len(u \o v) = Len(u) + Len(v)
      /\ \A k \in 1..Len(u) + Len(v) : (u \o v)[k] = IF k <= Len(u) THEN u[k] ELSE v[k - Len(u)]
  BY <1>1, <1>2, ConcatProperties, Zenon
<1>5. Len(s) \in Nat
  BY LenProperties
<1>6. ASSUME NEW j \in 1..(Len(s) - 1) PROVE (u \o v)[j] = IF j < i THEN s[j] ELSE s[j + 1]
  <2>1. CASE j < i
    <3>1. j \in 1..Len(u) + Len(v) /\ j <= Len(u) /\ j \in 1..(i - 1)
      BY <1>1, <1>2, <1>5, <2>1
    <3> QED
      BY <1>1, <1>4, <2>1, <3>1
  <2>2. CASE ~(j < i)
    <3>1. /\ j \in 1..Len(u) + Len(v)
          /\ ~(j <= Len(u))
          /\ j - Len(u) \in 1..(Len(s) - i)
          /\ (j - Len(u)) + i = j + 1
      BY <1>1, <1>2, <1>5, <2>2
    <3> QED
      BY <1>2, <1>4, <2>2, <3>1, Zenon
  <2> QED
    BY <2>1, <2>2, Zenon
<1>7. Len(u \o v) = Len(s) - 1
  BY <1>1, <1>2, <1>4, <1>5
<1> QED
  BY <1>3, <1>4, <1>6, <1>7

\* A file that is copied to the directory is the last one there; if it is no control
\* file, the control file that was written last stays so.
LEMMA DownloadKeepsOrder ==
    ASSUME staging \in Seq(AllPieces), NEW r \in Others, NEW p \in AllPieces, downloadFile(r, p)
    PROVE  /\ staging' \in Seq(AllPieces)
           /\ \A b \in Backups : p = Piece(b, "control") => LastControl(b)'
           /\ \A b \in Backups : p.part # "control" /\ LastControl(b) => LastControl(b)'
<1>1. PICK s \in Seq(AllPieces) :
         /\ staging' = Append(s, p)
         /\ \/ s = staging
            \/ \E i \in 1..Len(staging) :
                  /\ staging[i] = p
                  /\ Len(s) = Len(staging) - 1
                  /\ \A j \in 1..(Len(staging) - 1) : s[j] = IF j < i THEN staging[j] ELSE staging[j + 1]
  <2> DEFINE IsBefore(s) ==
               /\ s \in Seq(AllPieces)
               /\ staging' = Append(s, p)
               /\ \/ s = staging
                  \/ \E i \in 1..Len(staging) :
                        /\ staging[i] = p
                        /\ Len(s) = Len(staging) - 1
                        /\ \A j \in 1..(Len(staging) - 1) :
                              s[j] = IF j < i THEN staging[j] ELSE staging[j + 1]
  <2>1. CASE p \notin Staged /\ Touch(r, Append(staging, p))
    BY <2>1 DEF Touch
  <2>2. ASSUME NEW i \in DOMAIN staging, staging[i] = p, Touch(r, Append(Without(staging, i), p))
        PROVE  IsBefore(Without(staging, i))
    <3>1. i \in 1..Len(staging)
      BY LenProperties
    <3>2. /\ Without(staging, i) \in Seq(AllPieces)
          /\ Len(Without(staging, i)) = Len(staging) - 1
          /\ \A j \in 1..(Len(staging) - 1) :
                Without(staging, i)[j] = IF j < i THEN staging[j] ELSE staging[j + 1]
      BY <3>1, WithoutFile, Zenon
    <3> QED
      BY <2>2, <3>1, <3>2, Zenon DEF Touch
  <2>3. \E s : IsBefore(s)
    BY <2>1, <2>2 DEF downloadFile
  <2> QED
    BY <2>3
<1> DEFINE n == Len(s)
<1>2. /\ staging' \in Seq(AllPieces) /\ n \in Nat /\ DOMAIN staging' = 1..n + 1
      /\ staging'[n + 1] = p
      /\ \A j \in 1..n : staging'[j] = s[j]
  BY <1>1, AppendProperties, LenProperties
<1>3. ASSUME NEW b \in Backups, p = Piece(b, "control") PROVE LastControl(b)'
  <2>1. n + 1 \in DOMAIN staging' /\ \A j \in DOMAIN staging' : j <= n + 1
    BY <1>2
  <2> QED
    BY <1>2, <1>3, <2>1 DEF LastControl, Candidates
<1>4. ASSUME NEW b \in Backups, p.part # "control", LastControl(b) PROVE LastControl(b)'
  <2>0. Len(staging) \in Nat /\ DOMAIN staging = 1..Len(staging)
    BY LenProperties
  <2>1. PICK k \in 1..Len(staging) : /\ staging[k] = Piece(b, "control")
                                     /\ \A j \in 1..Len(staging) : staging[j].part = "control" => j <= k
    BY <1>4, <2>0 DEF LastControl, Candidates
  <2>2. \E m \in 1..n + 1 : /\ staging'[m] = Piece(b, "control")
                            /\ \A j \in 1..n + 1 : staging'[j].part = "control" => j <= m
    <3>1. CASE s = staging
      BY <1>2, <1>4, <2>0, <2>1, <3>1
    <3>2. ASSUME NEW i \in 1..Len(staging), staging[i] = p, Len(s) = Len(staging) - 1,
                 \A j \in 1..(Len(staging) - 1) : s[j] = IF j < i THEN staging[j] ELSE staging[j + 1]
          PROVE  \E m \in 1..n + 1 : /\ staging'[m] = Piece(b, "control")
                                     /\ \A j \in 1..n + 1 : staging'[j].part = "control" => j <= m
      <4>0. k # i
        BY <1>4, <2>1, <3>2 DEF Piece
      <4>1. CASE k < i
        <5>1. k \in 1..n + 1 /\ staging'[k] = Piece(b, "control")
          <6>1. k \in 1..(Len(staging) - 1) /\ k \in 1..n /\ k \in 1..n + 1
            BY <2>0, <3>2, <4>1
          <6>2. s[k] = staging[k]
            BY <3>2, <4>1, <6>1
          <6> QED
            BY <1>2, <2>1, <6>1, <6>2
        <5>2. ASSUME NEW j \in 1..n + 1, staging'[j].part = "control" PROVE j <= k
          <6>1. j \in 1..n
            BY <1>2, <1>4, <5>2
          <6>2. s[j].part = "control"
            BY <1>2, <5>2, <6>1
          <6>3. CASE j < i
            BY <2>0, <2>1, <3>2, <6>1, <6>2, <6>3
          <6>4. CASE ~(j < i)
            <7>1. j + 1 \in 1..Len(staging) /\ j \in 1..(Len(staging) - 1)
              BY <2>0, <3>2, <6>1
            <7>2. j + 1 <= k
              BY <2>1, <3>2, <6>2, <6>4, <7>1
            <7> QED
              BY <2>0, <4>1, <6>1, <6>4, <7>2
          <6> QED
            BY <6>3, <6>4
        <5> QED
          BY <5>1, <5>2
      <4>2. CASE k > i
        <5>1. k - 1 \in 1..n + 1 /\ staging'[k - 1] = Piece(b, "control")
          <6>1. k - 1 \in 1..n /\ ~(k - 1 < i) /\ (k - 1) + 1 = k
            BY <2>0, <3>2, <4>2
          <6> QED
            BY <1>2, <2>0, <2>1, <3>2, <6>1
        <5>2. ASSUME NEW j \in 1..n + 1, staging'[j].part = "control" PROVE j <= k - 1
          <6>1. j \in 1..n
            BY <1>2, <1>4, <5>2
          <6>2. s[j].part = "control"
            BY <1>2, <5>2, <6>1
          <6>3. CASE j < i
            BY <2>0, <3>2, <4>2, <6>1, <6>3
          <6>4. CASE ~(j < i)
            BY <2>0, <2>1, <3>2, <6>1, <6>2, <6>4
          <6> QED
            BY <6>3, <6>4
        <5> QED
          BY <5>1, <5>2
      <4> QED
        BY <4>0, <4>1, <4>2
    <3> QED
      BY <1>1, <3>1, <3>2
  <2> QED
    BY <1>2, <2>2 DEF LastControl, Candidates
<1> QED
  BY <1>2, <1>3, <1>4

\* A directory holds pieces only, ...
LEMMA StagedArePieces ==
    ASSUME staging \in Seq(AllPieces)
    PROVE  Staged \subseteq AllPieces
<1>1. \A i \in 1..Len(staging) : staging[i] \in AllPieces
  BY ElementOfSeq
<1>2. DOMAIN staging = 1..Len(staging)
  BY LenProperties
<1> QED
  BY <1>1, <1>2, Zenon DEF Staged

\* ... and a piece that is written is there.
LEMMA PieceIsWritten ==
    ASSUME staging \in Seq(AllPieces), NEW p \in AllPieces, staging' = Append(staging, p)
    PROVE  staging' \in Seq(AllPieces) /\ p \in Staged'
<1>1. /\ Append(staging, p) \in Seq(AllPieces)
      /\ Len(Append(staging, p)) = Len(staging) + 1
      /\ Append(staging, p)[Len(staging) + 1] = p
  BY AppendProperties
<1>2. /\ Len(staging) \in Nat
      /\ DOMAIN Append(staging, p) = 1..Len(Append(staging, p))
  BY <1>1, LenProperties
<1>3. Len(staging) + 1 \in DOMAIN Append(staging, p)
  BY <1>1, <1>2
<1> QED
  BY <1>1, <1>3, Zenon DEF Staged

\* What a step of request q does to q itself.
KeepsOwn(q) ==
    /\ staging' \in Seq(AllPieces)
    /\ PhysicalTypes'
    /\ StageInv(q)' /\ BackupInv(q)' /\ RestoreInv(q)'

\* Requests that are no physical jobs.
LEMMA OtherKeepsOwn ==
    ASSUME Inv, PhysicalInv, NEW q \in Others, OtherStep(q), UNCHANGED physicalVars
    PROVE  KeepsOwn(q)
<1>0. /\ staging \in Seq(AllPieces) /\ PhysicalTypes
      /\ StageInv(q) /\ pc \in [Requests -> Pcs] /\ q \in Requests /\ Aside(q)
      /\ UNCHANGED <<staging, bucket, todo, source, picked, result, disturbed>>
  BY StepAside DEF PhysicalInv, Inv, Requests, physicalVars
<1>1. result[q] = "none"
  BY <1>0 DEF StageInv, Aside
<1>2. pc'[q] \notin BackupPcs \union RestorePcs
  <2> USE <1>0 DEF BackupPcs, RestorePcs, Goto, Advance, Return, LockSid, RLockSid
  <2>1. CASE RunRMAN(q) \/ BackupConfigFile(q) \/ BounceDatabase(q)
    BY <2>1 DEF RunRMAN, BackupConfigFile, BounceDatabase
  <2>2. CASE ApplyDataPatch(q)
    BY <2>2 DEF ApplyDataPatch, LockForPatch, PatchStep, SetDatabaseUpgradeMode, OpenPDBs
  <2> QED
    BY <2>1, <2>2 DEF OtherStep
<1> QED
  BY <1>0, <1>1, <1>2 DEF KeepsOwn, PhysicalTypes, StageInv, BackupInv, RestoreInv, Asked, BackupPcs, RestorePcs

\* The steps of a backup.
LEMMA BackupKeepsOwn ==
    ASSUME Inv, PhysicalInv, NEW q \in Others,
           PhysicalBackup(q) \/ RunBackupScript(q) \/ BackupScriptFails(q) \/ UploadDirectoryContents(q)
    PROVE  KeepsOwn(q)
<1>0. /\ staging \in Seq(AllPieces) /\ PhysicalTypes
      /\ StageInv(q) /\ BackupInv(q) /\ pc \in [Requests -> Pcs] /\ q \in Requests /\ q \in Backups
      /\ Aside(q)
  BY StepAside DEF PhysicalInv, Inv, Requests, PhysicalStep, Backups
<1>1. /\ result[q] = "none" /\ pc[q] # "done" /\ UNCHANGED kind /\ disturbed \subseteq disturbed'
  BY <1>0 DEF StageInv, Aside
<1>2. Piece(q, "data") \in AllPieces /\ Piece(q, "control") \in AllPieces
  BY <1>0 DEF AllPieces, Pieces, Parts
<1>3. <<>> \in Seq(AllPieces)
  BY EmptySeq
<1>4. kind[q] = "Backup"
  BY <1>0, Zenon DEF StageInv, BackupPcs, PhysicalBackup, RunBackupScript, WritePiece, Advance, BackupScriptFails,
     UploadDirectoryContents
<1>5. ASSUME pc'[q] \in {"backupData", "backupControl", "copyOut"}, result'[q] = "none",
             staging' \in Seq(AllPieces), PhysicalTypes', BackupInv(q)'
      PROVE  KeepsOwn(q)
  BY <1>1, <1>4, <1>5, Zenon DEF KeepsOwn, StageInv, RestoreInv, Asked, BackupPcs, RestorePcs
<1>6. ASSUME pc'[q] = "done", staging' \in Seq(AllPieces), PhysicalTypes', BackupInv(q)'
      PROVE  KeepsOwn(q)
  BY <1>1, <1>4, <1>6 DEF KeepsOwn, StageInv, RestoreInv, Asked, BackupPcs, RestorePcs
<1>7. CASE PhysicalBackup(q)
  <2>1. pc'[q] = "backupData" /\ UNCHANGED <<staging, bucket, todo, source, picked, result, disturbed>>
    BY <1>0, <1>7 DEF PhysicalBackup, RunRMANAsync, physicalVars, RLockSid, Goto
  <2> QED
    BY <1>0, <1>1, <1>5, <2>1 DEF PhysicalTypes, BackupInv
<1>8. CASE WritePiece(q, "backupData", "data", "backupControl") /\ UNCHANGED todo
  <2>1. /\ pc'[q] = "backupControl" /\ UNCHANGED <<bucket, todo, source, picked, result>>
        /\ staging' = Append(staging, Piece(q, "data"))
        /\ disturbed' \subseteq Others
    BY <1>0, <1>8 DEF WritePiece, Advance, Goto, Touch, PhysicalTypes
  <2>2. staging' \in Seq(AllPieces) /\ Piece(q, "data") \in Staged'
    BY <1>0, <1>2, <2>1, PieceIsWritten, Zenon
  <2> QED
    BY <1>0, <1>1, <1>5, <2>1, <2>2, Zenon DEF PhysicalTypes, BackupInv
<1>9. CASE /\ WritePiece(q, "backupControl", "control", "copyOut")
           /\ todo' = [todo EXCEPT ![q] = Staged \union {Piece(q, "control")}]
  <2>1. /\ pc[q] = "backupControl" /\ pc'[q] = "copyOut" /\ UNCHANGED <<bucket, source, picked, result>>
        /\ staging' = Append(staging, Piece(q, "control"))
        /\ todo'[q] = Staged \union {Piece(q, "control")}
        /\ disturbed' \subseteq Others
    BY <1>0, <1>9 DEF WritePiece, Advance, Goto, Touch, PhysicalTypes
  <2>2. staging' \in Seq(AllPieces)
    BY <1>0, <1>2, <2>1, PieceIsWritten, Zenon
  <2>3. q \notin disturbed' => Pieces(q) \subseteq todo'[q]
    BY <1>0, <1>1, <2>1, Zenon DEF BackupInv, Pieces, Parts
  <2>4. Staged \subseteq AllPieces /\ Piece(q, "control") \in AllPieces
    BY <1>0, <1>2, StagedArePieces, Zenon
  <2>5. PhysicalTypes'
    BY <1>0, <1>9, <2>1, <2>4, Zenon DEF PhysicalTypes
  <2> QED
    BY <1>1, <1>5, <2>1, <2>2, <2>3, <2>5, Zenon DEF BackupInv
<1>10. CASE BackupScriptFails(q)
  <2>1. /\ pc'[q] = "done" /\ result' = [result EXCEPT ![q] = "error"]
        /\ UNCHANGED <<staging, bucket, todo, source, picked, disturbed>>
    BY <1>0, <1>10 DEF BackupScriptFails, End, Return, Goto
  <2> QED
    BY <1>0, <1>6, <2>1, Zenon DEF PhysicalTypes, BackupInv
<1>11. ASSUME NEW p \in todo[q], Advance(q, "copyOut", "copyOut"), p \in Staged,
              bucket' = [bucket EXCEPT ![q] = @ \union {p}],
              todo' = [todo EXCEPT ![q] = @ \ {p}],
              UNCHANGED <<loaderPassword, database, staging, source, picked, result, disturbed>>
       PROVE  KeepsOwn(q)
  <2>1. pc[q] = "copyOut" /\ pc'[q] = "copyOut" /\ p \in AllPieces
    BY <1>0, <1>11 DEF PhysicalTypes, Advance, Goto
  <2>2. bucket'[q] = bucket[q] \union {p} /\ todo'[q] = todo[q] \ {p}
    BY <1>0, <1>11 DEF PhysicalTypes
  <2>3. PhysicalTypes'
    BY <1>0, <1>11, <2>1, Zenon DEF PhysicalTypes
  <2>4. BackupInv(q)'
    BY <1>0, <1>1, <1>11, <2>1, <2>2, Zenon DEF BackupInv
  <2> QED
    BY <1>0, <1>1, <1>5, <1>11, <2>1, <2>3, <2>4, Zenon
<1>12. ASSUME pc[q] = "copyOut", NEW res \in {"ok", "error"}, res = "ok" => todo[q] = {}, RemoveStaging(q, res)
       PROVE  KeepsOwn(q)
  <2>1. /\ pc'[q] = "done" /\ result' = [result EXCEPT ![q] = res] /\ staging' = <<>>
        /\ UNCHANGED <<bucket, todo, source, picked>>
        /\ disturbed' \subseteq Others
    BY <1>0, <1>12 DEF RemoveStaging, Touch, End, Return, Goto, PhysicalTypes
  <2>2. PhysicalTypes'
    BY <1>0, <2>1 DEF PhysicalTypes
  <2>3. BackupInv(q)'
    BY <1>0, <1>1, <1>12, <2>1, Zenon DEF BackupInv, PhysicalTypes
  <2> QED
    BY <1>3, <1>6, <2>1, <2>2, <2>3
<1> QED
  BY <1>7, <1>8, <1>9, <1>10, <1>11, <1>12 DEF RunBackupScript, UploadDirectoryContents

\* The control file that was written last is the one that is found.
LEMMA FindsLastControl ==
    ASSUME staging \in Seq(AllPieces), NEW b \in Backups, LastControl(b)
    PROVE  findLatestBackupPiece = b
<1>1. PICK i \in DOMAIN staging : staging[i] = Piece(b, "control") /\ \A j \in Candidates : j <= i
  BY DEF LastControl
<1>2. i \in Candidates /\ Candidates \subseteq Nat
  BY <1>1, LenProperties DEF Candidates, Piece
<1>3. \A k \in Candidates : (\A j \in Candidates : j <= k) => k = i
  BY <1>1, <1>2
<1>4. (CHOOSE k \in Candidates : \A j \in Candidates : j <= k) = i
  BY <1>1, <1>2, <1>3
<1>5. findLatestBackupPiece = staging[i].of
  BY <1>4, Zenon DEF findLatestBackupPiece
<1> QED
  BY <1>1, <1>5 DEF Piece

\* The steps of a restore.
LEMMA RestoreKeepsOwn ==
    ASSUME Inv, PhysicalInv, NEW q \in Others,
           \/ PhysicalRestore(q) \/ DownloadDirectory(q) \/ PrepareRestore(q)
           \/ createDirsForRestore(q) \/ PhysicalRestoreAsync(q)
           \/ RunRestoreScript(q) \/ latestSCN(q) \/ RunRecoverScript(q) \/ RestoreFails(q)
    PROVE  KeepsOwn(q)
<1>0. /\ staging \in Seq(AllPieces) /\ PhysicalTypes
      /\ StageInv(q) /\ RestoreInv(q) /\ pc \in [Requests -> Pcs] /\ q \in Requests /\ q \in Backups
      /\ Aside(q)
  BY StepAside DEF PhysicalInv, Inv, Requests, PhysicalStep, Backups
<1>1. /\ result[q] = "none" /\ pc[q] # "done" /\ UNCHANGED kind /\ disturbed \subseteq disturbed'
      /\ source[q] \in Backups
  BY <1>0, Zenon DEF StageInv, Aside, PhysicalTypes
<1>3. <<>> \in Seq(AllPieces)
  BY EmptySeq
<1>4. kind[q] = "Restore"
  BY <1>0, Zenon DEF StageInv, RestorePcs, PhysicalRestore, DownloadDirectory, PrepareRestore, createDirsForRestore,
     PhysicalRestoreAsync, RunRestoreScript, latestSCN, RunRecoverScript, RestoreFails, Advance
<1>5. ASSUME pc'[q] \in RestorePcs, result'[q] = "none",
             staging' \in Seq(AllPieces), PhysicalTypes', RestoreInv(q)'
      PROVE  KeepsOwn(q)
  BY <1>1, <1>4, <1>5, Zenon DEF KeepsOwn, StageInv, BackupInv, BackupPcs, RestorePcs
<1>6. ASSUME pc'[q] = "done", staging' \in Seq(AllPieces), PhysicalTypes', RestoreInv(q)'
      PROVE  KeepsOwn(q)
  BY <1>1, <1>4, <1>6 DEF KeepsOwn, StageInv, BackupInv, BackupPcs, RestorePcs
<1>7. CASE PhysicalRestore(q)
  <2>1. PICK b \in {"Old"} \union {r \in Others : kind[r] = "Backup" /\ result[r] = "ok"} :
           /\ source' = [source EXCEPT ![q] = b]
           /\ todo' = [todo EXCEPT ![q] = bucket[b]]
    BY <1>7, Zenon DEF PhysicalRestore
  <2>2. /\ pc'[q] = "copyIn" /\ UNCHANGED <<staging, bucket, picked, result, disturbed>>
    BY <1>0, <1>7 DEF PhysicalRestore, Advance, Goto
  <2>3. b \in Backups /\ bucket[b] \subseteq AllPieces /\ source'[q] = b /\ todo'[q] = bucket[b]
    BY <1>0, <2>1 DEF PhysicalTypes, Backups
  <2>4. PhysicalTypes'
    BY <1>0, <2>1, <2>2, <2>3 DEF PhysicalTypes
  <2>5. RestoreInv(q)'
    <3>1. b = "Old" \/ result[b] = "ok"
      BY <2>1
    <3>2. Piece(b, "control") \in Pieces(b)
      BY DEF Pieces, Parts
    <3> QED
      BY <2>2, <2>3, <3>1, <3>2, Zenon DEF RestoreInv
  <2> QED
    BY <1>0, <1>1, <1>5, <2>2, <2>4, <2>5 DEF RestorePcs
<1>8. CASE DownloadDirectory(q)
  <2>1. PICK p \in todo[q] : /\ downloadFile(q, p)
                             /\ todo' = [todo EXCEPT ![q] = @ \ {p}]
    BY <1>8, Zenon DEF DownloadDirectory
  <2>2. /\ pc[q] = "copyIn" /\ pc'[q] = "copyIn" /\ UNCHANGED <<bucket, source, picked, result>>
        /\ p \in AllPieces /\ todo'[q] = todo[q] \ {p}
    BY <1>0, <1>8, <2>1 DEF DownloadDirectory, Advance, Goto, PhysicalTypes
  <2>3. /\ staging' \in Seq(AllPieces)
        /\ p = Piece(source[q], "control") => LastControl(source[q])'
        /\ p.part # "control" /\ LastControl(source[q]) => LastControl(source[q])'
    BY <1>0, <1>1, <2>1, <2>2, DownloadKeepsOrder
  <2>4. PhysicalTypes'
    BY <1>0, <2>1, <2>2, Zenon DEF PhysicalTypes, downloadFile, Touch
  <2>5. p \in Pieces(source[q]) => p = Piece(source[q], "control") \/ p.part # "control"
    BY DEF Pieces, Parts, Piece
  <2>6. Asked(q)
    BY <2>2, Zenon DEF Asked, RestorePcs
  <2>7. RestoreInv(q)'
    BY <1>0, <1>1, <2>2, <2>3, <2>5, <2>6, Zenon DEF RestoreInv
  <2> QED
    BY <1>1, <1>5, <2>2, <2>3, <2>4, <2>7, Zenon DEF RestorePcs
<1>9. CASE PrepareRestore(q)
  <2>1. /\ pc[q] = "copyIn" /\ pc'[q] = "createDirs" /\ todo[q] = {}
        /\ picked' = [picked EXCEPT ![q] = findLatestBackupPiece]
        /\ UNCHANGED <<staging, bucket, todo, source, result, disturbed>>
    BY <1>0, <1>9, Zenon DEF PrepareRestore, Advance, Goto
  <2>2. PhysicalTypes' /\ picked'[q] = findLatestBackupPiece
    BY <1>0, <2>1 DEF PhysicalTypes
  <2>3. LastControl(source[q]) => findLatestBackupPiece = source[q]
    BY <1>0, <1>1, FindsLastControl, Zenon
  <2>4. Asked(q)
    BY <2>1, Zenon DEF Asked, RestorePcs
  <2>5. RestoreInv(q)'
    BY <1>0, <2>1, <2>2, <2>3, <2>4, Zenon DEF RestoreInv
  <2> QED
    BY <1>0, <1>1, <1>5, <2>1, <2>2, <2>5, Zenon DEF RestorePcs
<1>10. ASSUME pc[q] \in RestorePcs \ {"copyIn"}, pc'[q] \in RestorePcs \ {"copyIn"},
              UNCHANGED <<staging, bucket, todo, source, picked, result, disturbed>>
       PROVE  KeepsOwn(q)
  <2>1. PhysicalTypes'
    BY <1>0, <1>10, Zenon DEF PhysicalTypes
  <2>2. RestoreInv(q)'
    BY <1>0, <1>10, Zenon DEF RestoreInv, Asked
  <2> QED
    BY <1>0, <1>1, <1>5, <1>10, <2>1, <2>2, Zenon
<1>11. CASE createDirsForRestore(q) \/ PhysicalRestoreAsync(q) \/ RunRestoreScript(q) \/ latestSCN(q)
  BY <1>0, <1>10, <1>11, Zenon DEF createDirsForRestore, PhysicalRestoreAsync, RunRestoreScript, latestSCN, RestorePcs,
     Advance, RLockSid, Goto, physicalVars
<1>12. CASE RLockSid(q, "recoverQueued", "recover") /\ UNCHANGED physicalVars
  BY <1>0, <1>10, <1>12 DEF RestorePcs, RLockSid, Goto, physicalVars
<1>13. CASE pc[q] = "recover" /\ Touch(q, <<>>) /\ End(q, "ok")
  <2>1. /\ pc'[q] = "done" /\ result' = [result EXCEPT ![q] = "ok"] /\ staging' = <<>>
        /\ UNCHANGED <<bucket, todo, source, picked>>
        /\ disturbed' \subseteq Others
    BY <1>0, <1>13 DEF PhysicalTypes, Touch, End, Return, Goto
  <2>2. PhysicalTypes'
    BY <1>0, <2>1, Zenon DEF PhysicalTypes
  <2>3. Asked(q)
    BY <1>13 DEF Asked, RestorePcs
  <2>4. result'[source[q]] = "ok" \/ source[q] = "Old"
    BY <1>0, <2>1, <2>3 DEF RestoreInv, PhysicalTypes
  <2>5. RestoreInv(q)'
    BY <1>0, <1>1, <1>13, <2>1, <2>3, <2>4, Zenon DEF RestoreInv
  <2> QED
    BY <1>3, <1>6, <2>1, <2>2, <2>5
<1>14. CASE RestoreFails(q)
  <2>1. /\ pc'[q] = "done" /\ result' = [result EXCEPT ![q] = "error"]
        /\ UNCHANGED <<staging, bucket, todo, source, picked, disturbed>>
    BY <1>0, <1>14 DEF RestoreFails, End, Return, Goto
  <2>2. PhysicalTypes' /\ result'[q] = "error"
    BY <1>0, <2>1, Zenon DEF PhysicalTypes
  <2>3. ~Asked(q)'
    BY <2>1, <2>2, Zenon DEF Asked, RestorePcs
  <2> QED
    BY <1>0, <1>6, <2>1, <2>2, <2>3, Zenon DEF RestoreInv
<1> QED
  BY <1>7, <1>8, <1>9, <1>11, <1>12, <1>13, <1>14, Zenon DEF RunRecoverScript

\* Every step keeps PhysicalInv.
LEMMA StepKeepsPhysicalInv == ASSUME Inv, PhysicalInv, [Next]_vars PROVE PhysicalInv'
<1> DEFINE Kept == /\ UNCHANGED <<physicalVars, kind>>
                   /\ \A r \in Others : pc'[r] \in {pc[r], "done"}
<1>1. ASSUME NEW q \in Others, RequestStep(q) PROVE PhysicalInv'
  <2>1. KeepsOwn(q) /\ Aside(q)
    BY <1>1, OtherKeepsOwn, BackupKeepsOwn, RestoreKeepsOwn, StepAside DEF RequestStep, PhysicalStep
  <2> QED
    BY <2>1, AsideKeepsJob DEF KeepsOwn, PhysicalInv
<1>2. ASSUME NEW r \in Loads, Handle(r) \/ UpdateStatus(r) \/ Abort(r) \/ JobStep(r) \/ Collect(r)
      PROVE  UNCHANGED <<physicalVars, kind>> /\ \A q \in Others : pc'[q] = pc[q]
  <2>0. pc \in [Requests -> Pcs] /\ Others \subseteq Requests /\ r \notin Others
    BY DisjointRequests DEF Inv, Requests
  <2>1. CASE Handle(r)
    BY <2>0, <2>1, Zenon DEF Handle, HandleNotStartedImport, HandleNotStartedExport, NotStarted, DataPumpImport,
       DataPumpExport, HandleRunningImport, HandleRunningExport, Running, QueueLoad, Goto, daemonVars
  <2>2. CASE UpdateStatus(r) \/ Abort(r) \/ Collect(r)
    BY <2>2 DEF UpdateStatus, Abort, Collect, CollectJob, daemonVars
  <2>3. CASE JobStep(r)
    BY <2>0, <2>3, Zenon DEF JobStep, LockForLoad, LoadStep, FetchDump, RemoveOldDump, SetupUserPwConnString,
       GatherMetadata, CreateTablespacesFromSqlfile, EndTool, Upload, LoadFails, EndJob, Advance, Goto
  <2> QED
    BY <1>2, <2>1, <2>2, <2>3
<1>3. DaemonRestarts => Kept
  BY DisjointRequests DEF DaemonRestarts, Restart, Requests
<1>4. UNCHANGED vars => Kept
  BY DEF vars, daemonVars
<1>5. ASSUME Kept PROVE PhysicalInv'
  <2>1. UNCHANGED <<staging, bucket, todo, source, picked, result, disturbed, kind>>
    BY <1>5 DEF physicalVars
  <2>2. ASSUME NEW r \in Others PROVE StageInv(r)' /\ BackupInv(r)' /\ RestoreInv(r)'
    <3>0. StageInv(r) /\ BackupInv(r) /\ RestoreInv(r)
      BY DEF PhysicalInv
    <3>1. CASE pc'[r] = pc[r]
      BY <2>1, <3>0, <3>1, Zenon DEF StageInv, BackupInv, RestoreInv, Asked, LastControl, Candidates, Staged
    <3>2. CASE pc'[r] = "done"
      BY <2>1, <3>0, <3>2, Zenon DEF StageInv, BackupInv, RestoreInv, Asked, BackupPcs, RestorePcs
    <3> QED
      BY <1>5, <3>1, <3>2
  <2> QED
    BY <2>1, <2>2 DEF PhysicalInv, PhysicalTypes
<1> QED
  BY <1>1, <1>2, <1>3, <1>4, <1>5, Zenon DEF Next, Kept

\* PhysicalInv holds in every reachable state.
LEMMA PhysicalInvHolds == Spec => []PhysicalInv
  BY InvHolds, InitPhysicalInv, StepKeepsPhysicalInv, PTL DEF Spec

\* A backup that nobody disturbs is in the bucket with all its pieces when it is
\* reported to be done, however many backups and restores there are and whatever
\* failed ones have left in the directory.
THEOREM BackupsInBucketAreWhole == Spec => []GcsBackupIsWhole
<1>1. PhysicalInv => GcsBackupIsWhole
  BY DEF PhysicalInv, BackupInv, GcsBackupIsWhole
<1> QED
  BY <1>1, PhysicalInvHolds, PTL

\* A restore that nobody disturbs is of the backup that it was asked for: its control
\* file is the last one written, so that it is found among all that are there.
THEOREM RestoresAreOfTheRequested == Spec => []RestoredIsRequested
<1>1. PhysicalInv => RestoredIsRequested
  <2> SUFFICES ASSUME PhysicalInv, NEW r \in Others \ disturbed, kind[r] = "Restore", result[r] = "ok",
                      bucket[source[r]] = Pieces(source[r])
               PROVE  picked[r] = source[r]
    BY Zenon DEF RestoredIsRequested
  <2>1. StageInv(r) /\ RestoreInv(r)
    BY Zenon DEF PhysicalInv
  <2> QED
    BY <2>1, Zenon DEF StageInv, RestoreInv, Asked
<1> QED
  BY <1>1, PhysicalInvHolds, PTL

=============================================================================
