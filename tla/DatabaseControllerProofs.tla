---------------------- MODULE DatabaseControllerProofs ----------------------
(***************************************************************************)
(* Proofs about two parts of the system that share no state.               *)
(*                                                                         *)
(* Point-in-time recovery, for any number of logs, threads and failures:   *)
(* the windows that are reported can be recovered, and the hash store      *)
(* attests whole copies only.  It must be known what the hash store tells  *)
(* of each copy (AgentInv), and that a window begins with a backup and its *)
(* logs have all been replicated (WindowInv).                              *)
(*                                                                         *)
(* The Database controller, for any passwords, privileges and bounds: the  *)
(* names in the Instance and the finalizer of a Database are true to what  *)
(* exists.                                                                 *)
(***************************************************************************)
EXTENDS DatabaseController, PITR, FiniteSetTheorems, TLAPS

-----------------------------------------------------------------------------
(* Point-in-time recovery.                                                 *)

Before == {x \in Nat \X Nat : x[1] < x[2]}

\* Min finds the least number of a set, ...
LEMMA MinOfNumbers ==
    ASSUME NEW S \in SUBSET Nat, S # {}
    PROVE  Min(S) \in S /\ \A y \in S : Min(S) <= y
<1>1. IsWellFoundedOn(Before, Nat)
  BY NatLessThanWellFounded, Zenon DEF OpToRel, Before
<1>2. PICK x \in S : \A y \in S : ~ (<<y, x>> \in Before)
  BY <1>1, WFMin, Zenon
<1>3. ASSUME NEW y \in S PROVE x <= y
  <2>1. <<y, x>> \in Nat \X Nat /\ <<y, x>>[1] = y /\ <<y, x>>[2] = x
    BY Zenon
  <2> QED
    BY <1>2, <2>1 DEF Before
<1> QED
  BY <1>3, Zenon DEF Min

\* ... and Max the greatest one, if there is a bound.
LEMMA MaxOfNumbers ==
    ASSUME NEW S \in SUBSET Nat, S # {}, NEW t \in Nat, \A y \in S : y <= t
    PROVE  Max(S) \in S /\ \A y \in S : y <= Max(S)
<1> DEFINE Bounds == {n \in Nat : \A y \in S : y <= n}
<1> DEFINE m == Min(Bounds)
<1>1. m \in Bounds /\ \A n \in Bounds : m <= n
  BY MinOfNumbers, Zenon
<1> HIDE DEF m
<1>2. m \in S
  <2> SUFFICES ASSUME m \notin S PROVE FALSE
    BY Zenon
  <2>1. m \in Nat /\ \A y \in S : y < m
    BY <1>1
  <2>2. PICK x \in S : TRUE
    BY Zenon
  <2>3. x \in Nat /\ x < m
    BY <2>1, <2>2, Zenon
  <2>4. m - 1 \in Nat
    BY <2>1, <2>3
  <2>5. ASSUME NEW y \in S PROVE y <= m - 1
    <3>1. y \in Nat /\ y < m
      BY <2>1, Zenon
    <3> QED
      BY <2>1, <3>1
  <2> QED
    BY <1>1, <2>1, <2>4, <2>5
<1>3. \A y \in S : y <= m
  BY <1>1, Zenon
<1> QED
  BY <1>2, <1>3, Zenon DEF Max

\* What the hash store and the threads know of log i.  The hash store tells of a copy
\* only what was validated, and a thread that is about to write into it has seen the
\* copy and the file alike.
LogInv(i) ==
    /\ sync[i] # "idle" => src[i] # "absent"
    /\ sync[i] = "store" /\ i \notin harmed => replica[i] = IF Written(i) THEN "complete" ELSE "partial"
    /\ hash[i] \in {"complete", "zero"} => Written(i) /\ (i \notin harmed => replica[i] = "complete")
    /\ catalog[i] = "replicated" => hash[i] # "none"

AgentInv == AgentTypeOK /\ \A i \in Logs : LogInv(i)

\* Log i has had a replica: it still has one, or met an accident.
Replicated(i) ==
    /\ hash[i] # "none"
    /\ catalog[i] = "replicated" \/ (catalog[i] = "none" /\ i \in harmed)

\* A window begins with a backup, and all its logs have been replicated.
Covered(w) ==
    \E p, q \in Logs :
        /\ w[1] \in saved /\ 2 * p <= w[1] /\ w[2] = 2 * q + 2
        /\ \A i \in p..q : Replicated(i)

\* No backup is taken at the boundary of two logs.
BetweenLogs == \A k \in saved : \E j \in Nat : k = 2 * j + 1

WindowInv == BetweenLogs /\ \A w \in windows : Covered(w)

\* A step keeps what is known of log i, and that it has been replicated.
Stays(i) == LogInv(i)' /\ (Replicated(i) => Replicated(i)')

Alone(i) ==
    /\ UNCHANGED <<src[i], replica[i], hash[i], catalog[i]>>
    /\ sync'[i] \in {sync[i], "idle"}
    /\ harmed \subseteq harmed'

\* A log that a step leaves alone stays as it is.
LEMMA AloneStays ==
    ASSUME NEW i \in Logs, LogInv(i), Alone(i)
    PROVE  Stays(i)
  BY Zenon DEF LogInv, Alone, Stays, Replicated, Written

\* The types are right.
LEMMA AgentTypes == ASSUME AgentTypeOK, AgentNext PROVE AgentTypeOK'
<1> USE DEF AgentTypeOK
<1>1. CASE WriteLog
  BY <1>1, Zenon DEF WriteLog
<1>2. CASE StartAgent \/ StartFails \/ RestartAgent
  BY <1>2, AgentAssumption DEF StartAgent, StartFails, RestartAgent, SetArchiveLag,
     RunLogReplication, AllIdle, Fails
<1>3. CASE Deadline \/ LogDirIsLost
  BY <1>3, AgentAssumption DEF Deadline, LogDirIsLost, Fails
<1>4. CASE metadataUpdate
  <2>1. PICK read \in {catalog, NoEntries} :
           /\ UNCHANGED errors \/ Fails
           /\ catalog' = [i \in Logs |-> IF src[i] = "complete" THEN Entry(read[i], i) ELSE read[i]]
    BY <1>4, Zenon DEF metadataUpdate
  <2>2. read \in [Logs -> {"none", "listed", "replicated"}]
    BY Zenon DEF NoEntries
  <2>3. catalog' \in [Logs -> {"none", "listed", "replicated"}]
    BY <2>1, <2>2, Zenon DEF Entry
  <2> QED
    BY <1>4, <2>1, <2>3, AgentAssumption DEF metadataUpdate, Fails
<1>5. ASSUME NEW i \in Logs, PurgeLog(i) \/ validateHash(i) \/ storeHash(i) \/ SyncFails(i) \/ deleteLog(i)
      PROVE  AgentTypeOK'
  BY <1>5, AgentAssumption DEF PurgeLog, validateHash, storeHash, SyncFails, deleteLog,
     SyncEnds, mtime, Exists, Fails
<1>6. ASSUME NEW i \in Logs, TakeFile(i) PROVE AgentTypeOK'
  BY <1>6, AgentAssumption DEF TakeFile, copy, SyncEnds, Exists, Fails
<1> QED
  BY <1>1, <1>2, <1>3, <1>4, <1>5, <1>6, Zenon DEF AgentNext

\* Every step of the agent and of the database keeps what is known of all logs.
LEMMA AgentStep == ASSUME AgentInv, AgentNext PROVE \A i \in Logs : Stays(i)
<1> SUFFICES ASSUME NEW i \in Logs PROVE Stays(i)
  BY Zenon
<1>0. AgentTypeOK /\ LogInv(i)
  BY Zenon DEF AgentInv
<1>1. CASE WriteLog
  <2>1. CASE i = Current
    BY <1>0, <1>1, <2>1, Zenon DEF WriteLog, Stays, LogInv, Replicated, Written, AgentTypeOK
  <2>2. CASE i # Current
    BY <1>0, <1>1, <2>2, AloneStays, Zenon DEF WriteLog, Alone, AgentTypeOK
  <2> QED
    BY <2>1, <2>2, Zenon
<1>2. CASE StartAgent \/ StartFails \/ RestartAgent \/ Deadline \/ LogDirIsLost
  BY <1>0, <1>2, AloneStays, Zenon DEF StartAgent, StartFails, RestartAgent, Deadline,
     LogDirIsLost, AllIdle, Alone
<1>3. CASE metadataUpdate
  <2>1. PICK read \in {catalog, NoEntries} :
           catalog' = [j \in Logs |-> IF src[j] = "complete" THEN Entry(read[j], j) ELSE read[j]]
    BY <1>3, Zenon DEF metadataUpdate
  <2>2. /\ read[i] \in {catalog[i], "none"}
        /\ catalog'[i] = IF src[i] = "complete" THEN Entry(read[i], i) ELSE read[i]
    BY <2>1, Zenon DEF NoEntries
  <2>3. UNCHANGED <<src, replica, hash, sync>>
    BY <1>3, Zenon DEF metadataUpdate
  <2>4. harmed \subseteq harmed' /\ (catalog[i] = "replicated" /\ catalog'[i] = "none" => i \in harmed')
    BY <1>3, Zenon DEF metadataUpdate
  <2> QED
    BY <1>0, <2>2, <2>3, <2>4, Zenon DEF Entry, Stays, LogInv, Replicated, Written
<1>4. ASSUME NEW j \in Logs, j # i,
             PurgeLog(j) \/ TakeFile(j) \/ validateHash(j) \/ storeHash(j) \/ SyncFails(j) \/ deleteLog(j)
      PROVE  Stays(i)
  <2>1. Alone(i)
    BY <1>0, <1>4 DEF PurgeLog, TakeFile, copy, validateHash, storeHash, SyncFails,
       deleteLog, SyncEnds, Alone, AgentTypeOK
  <2> QED
    BY <1>0, <2>1, AloneStays, Zenon
<1>5. CASE PurgeLog(i)
  BY <1>0, <1>5, Zenon DEF PurgeLog, Stays, LogInv, Replicated, Written, AgentTypeOK
<1>6. CASE TakeFile(i)
  BY <1>0, <1>6, Zenon DEF TakeFile, copy, SyncEnds, Exists, Stays, LogInv, Replicated,
     Written, AgentTypeOK
<1>7. CASE validateHash(i)
  BY <1>0, <1>7, Zenon DEF validateHash, SameHash, Stays, LogInv, Replicated, Written,
     AgentTypeOK
<1>8. CASE storeHash(i)
  BY <1>0, <1>8, Zenon DEF storeHash, SyncEnds, mtime, Exists, Stays, LogInv, Replicated,
     Written, AgentTypeOK
<1>9. CASE SyncFails(i)
  BY <1>0, <1>9, AloneStays, Zenon DEF SyncFails, SyncEnds, Alone, AgentTypeOK
<1>10. CASE deleteLog(i)
  BY <1>0, <1>10, Zenon DEF deleteLog, Stays, LogInv, Replicated, Written, AgentTypeOK
<1> QED
  BY <1>1, <1>2, <1>3, <1>4, <1>5, <1>6, <1>7, <1>8, <1>9, <1>10, Zenon DEF AgentNext

\* A window stays covered while backups are added and its logs stay.
LEMMA CoveredStays ==
    ASSUME saved \subseteq saved', \A i \in Logs : Replicated(i) => Replicated(i)', NEW w, Covered(w)
    PROVE  Covered(w)'
<1>1. PICK p, q \in Logs :
         /\ w[1] \in saved /\ 2 * p <= w[1] /\ w[2] = 2 * q + 2
         /\ \A i \in p..q : Replicated(i)
  BY Zenon DEF Covered
<1>2. p..q \subseteq Logs
  BY AgentAssumption DEF Logs
<1>3. \A i \in p..q : Replicated(i)'
  BY <1>1, <1>2, Zenon
<1> QED
  BY <1>1, <1>3, Zenon DEF Covered

\* The windows that are reported are covered (Merge, updateStatus).
LEMMA ReportedIsCovered ==
    ASSUME AgentInv, BetweenLogs, NEW w \in recoveryWindows
    PROVE  Covered(w) /\ w \in Nat \X Nat
<1>1. PICK v \in Status : /\ \E k \in saved : k \in v[1]..v[2]
                          /\ w = <<Min({k \in saved : v[1] <= k}), v[2]>>
  BY Zenon DEF recoveryWindows
<1>2. PICK p, q \in Logs : /\ v = <<2 * p, 2 * q + 2>>
                           /\ \A i \in p..q : i \in Logs /\ catalog[i] = "replicated"
  BY <1>1, Zenon DEF Status, Merge, FirstTime, NextTime
<1>3. saved \subseteq Nat
  BY DEF BetweenLogs
<1> DEFINE S == {k \in saved : v[1] <= k}
<1>4. S # {} /\ S \in SUBSET Nat
  <2>1. PICK k \in saved : k \in v[1]..v[2]
    BY <1>1, Zenon
  <2>2. v[1] \in Nat /\ v[2] \in Nat
    BY <1>2, AgentAssumption DEF Logs
  <2>3. v[1] <= k
    BY <2>1, <2>2
  <2> QED
    BY <1>3, <2>3, Zenon
<1>5. w[1] \in S
  BY <1>1, <1>4, MinOfNumbers, Zenon
<1>6. \A i \in p..q : Replicated(i)
  BY <1>2, Zenon DEF AgentInv, LogInv, Replicated
<1>7. Min(S) \in Nat
  BY <1>4, MinOfNumbers, Zenon
<1>8. v[2] \in Nat
  BY <1>2, AgentAssumption DEF Logs
<1>9. w \in Nat \X Nat
  BY <1>1, <1>7, <1>8, Zenon
<1> QED
  BY <1>1, <1>2, <1>5, <1>6, <1>9, Zenon DEF Covered

\* A backup is taken between two logs, or after the last one.
LEMMA NowIsBetween == (\E j \in Nat : Now = 2 * j + 1) /\ Now \in 1..(2 * MaxLog + 3)
<1> DEFINE S == {i \in Logs : Written(i)}
<1>1. IsFiniteSet(Logs) /\ Cardinality(Logs) = MaxLog
  BY FS_Interval, AgentAssumption DEF Logs
<1>2. IsFiniteSet(S) /\ Cardinality(S) <= Cardinality(Logs)
  BY <1>1, FS_Subset, Zenon
<1>3. Cardinality(S) \in Nat
  BY <1>2, FS_CardinalityType, Zenon
<1>4. Now = 2 * (Cardinality(S) + 1) + 1
  BY Zenon DEF Now, FirstTime, Current
<1> HIDE DEF S
<1> QED
  BY <1>1, <1>2, <1>3, <1>4, AgentAssumption

\* Every step keeps both invariants.
LEMMA PITRStep ==
    ASSUME AgentInv, WindowInv, [PITRNext]_pitrVars
    PROVE  AgentInv' /\ WindowInv'
<1>1. CASE AgentAndEnvironment
  <2>1. AgentTypeOK' /\ \A i \in Logs : Stays(i)
    BY <1>1, AgentTypes, AgentStep, Zenon DEF AgentAndEnvironment, AgentInv
  <2>2. UNCHANGED <<saved, windows>>
    BY <1>1, Zenon DEF AgentAndEnvironment, backups
  <2> QED
    BY <2>1, <2>2, CoveredStays, Zenon DEF Stays, AgentInv, WindowInv, BetweenLogs
<1>2. ASSUME UNCHANGED <<src, replica, hash, catalog, sync, harmed>>,
             AgentTypeOK', saved \subseteq saved', saved' \subseteq saved \union {Now},
             \A w \in windows' : w \in windows \/ w \in recoveryWindows
      PROVE  AgentInv' /\ WindowInv'
  <2>1. AgentInv'
    BY <1>2, Zenon DEF AgentInv, LogInv, Written
  <2>2. BetweenLogs'
    BY <1>2, NowIsBetween, Zenon DEF WindowInv, BetweenLogs
  <2>3. ASSUME NEW w \in windows' PROVE Covered(w)'
    <3>1. Covered(w)
      BY <1>2, <2>3, ReportedIsCovered, Zenon DEF WindowInv
    <3>2. \A i \in Logs : Replicated(i) => Replicated(i)'
      BY <1>2, Zenon DEF Replicated
    <3> QED
      BY <1>2, <3>1, <3>2, CoveredStays, Zenon
  <2> QED
    BY <2>1, <2>2, <2>3, Zenon DEF WindowInv
<1>3. AgentTypeOK
  BY Zenon DEF AgentInv
<1>4. CASE EndInitialBackup
  BY <1>2, <1>3, <1>4, AgentAssumption DEF EndInitialBackup, AgentTypeOK, Fails
<1>5. CASE TakeScheduledBackup
  BY <1>2, <1>3, <1>5, Zenon DEF TakeScheduledBackup, AgentTypeOK, agentVars
<1>6. CASE ReconcilePITR
  BY <1>2, <1>3, <1>6, Zenon DEF ReconcilePITR, ensureAgent, updateRecoveryStatus, AgentTypeOK
<1>7. CASE ReconcileFails
  BY <1>2, <1>3, <1>7, AgentAssumption DEF ReconcileFails, ensureAgent, AgentTypeOK, Fails
<1>8. CASE UNCHANGED pitrVars
  BY <1>2, <1>3, <1>8, Zenon DEF pitrVars, agentVars, backups, AgentTypeOK
<1> QED
  BY <1>1, <1>4, <1>5, <1>6, <1>7, <1>8, Zenon DEF PITRNext

LEMMA PITRInvHolds == PITRSpec => [](AgentInv /\ WindowInv)
<1>1. PITRInit => AgentInv /\ WindowInv
  BY AgentAssumption DEF PITRInit, AgentInit, AgentInv, AgentTypeOK, LogInv, NoEntries,
     AllIdle, WindowInv, BetweenLogs
<1> QED
  BY <1>1, PITRStep, PTL DEF PITRSpec

\* Whatever instant of a reported window is recovered to, for any number of logs,
\* threads and failures: there is a backup, every log that is included has a replica,
\* and every log that is needed and met no accident is whole or will be copied again.
THEOREM ReportedWindowsCanBeRecovered == PITRSpec => []ReportedWindowIsRecoverable
<1>1. ASSUME AgentInv, WindowInv PROVE ReportedWindowIsRecoverable
  <2> SUFFICES ASSUME NEW w \in windows, NEW t \in w[1]..(w[2] - 1)
               PROVE  /\ \E b \in saved : b <= t
                      /\ StageLogs(findPITRBackup(t), t)
                      /\ \A i \in Redo(findPITRBackup(t), t) \ harmed :
                           /\ include(i, findPITRBackup(t), t)
                           /\ replica[i] = "complete" \/ hash[i] = "partial"
    BY Zenon DEF ReportedWindowIsRecoverable
  <2>1. PICK p, q \in Logs :
           /\ w[1] \in saved /\ 2 * p <= w[1] /\ w[2] = 2 * q + 2
           /\ \A i \in p..q : Replicated(i)
    BY <1>1, Zenon DEF WindowInv, Covered
  <2>2. saved \subseteq Nat
    BY <1>1 DEF WindowInv, BetweenLogs
  <2>3. t \in Nat /\ w[1] <= t /\ t < 2 * q + 2 /\ p \in Nat /\ q \in Nat
    <3>1. p \in Nat /\ q \in Nat
      BY AgentAssumption DEF Logs
    <3>2. w[1] \in Nat
      BY <2>1, <2>2, Zenon
    <3>3. 2 * q + 2 \in Nat /\ w[2] = 2 * q + 2
      BY <2>1, <3>1
    <3> QED
      BY <3>1, <3>2, <3>3
  <2> DEFINE b == findPITRBackup(t)
  <2>4. b \in saved /\ w[1] <= b /\ b <= t
    <3> DEFINE S == {k \in saved : k <= t}
    <3>1. S \in SUBSET Nat /\ S # {} /\ \A y \in S : y <= t
      BY <2>1, <2>2, <2>3, Zenon
    <3>2. Max(S) \in S /\ \A y \in S : y <= Max(S)
      BY <2>3, <3>1, MaxOfNumbers, Zenon
    <3> QED
      BY <2>1, <2>3, <3>2, Zenon DEF findPITRBackup
  <2>5. PICK j \in Nat : b = 2 * j + 1
    BY <1>1, <2>4, Zenon DEF WindowInv, BetweenLogs
  <2> HIDE DEF b
  <2>6. ASSUME NEW i \in Logs, 2 * i + 2 >= b, 2 * i <= t PROVE Replicated(i)
    <3>1. i \in Nat
      BY AgentAssumption DEF Logs
    <3>2. 2 * p <= b
      <4>1. w[1] \in Nat /\ 2 * p <= w[1]
        BY <2>1, <2>2, Zenon
      <4> QED
        BY <2>3, <2>4, <2>5, <4>1
    <3>3. i <= q
      BY <2>3, <2>6, <3>1
    <3>4. p <= i
      BY <2>3, <2>5, <2>6, <3>1, <3>2
    <3>5. i \in p..q
      BY <2>3, <3>1, <3>3, <3>4
    <3> QED
      BY <2>1, <3>5, Zenon
  <2>7. StageLogs(b, t)
    <3> SUFFICES ASSUME NEW i \in Logs, include(i, b, t) PROVE catalog[i] = "replicated"
      BY Zenon DEF StageLogs
    <3>1. 2 * i + 2 >= b /\ 2 * i <= t /\ catalog[i] # "none"
      BY <2>3, <2>5 DEF include, NextTime, FirstTime, Logs
    <3> QED
      BY <2>6, <3>1, Zenon DEF Replicated
  <2>8. ASSUME NEW i \in Redo(b, t) \ harmed
        PROVE  include(i, b, t) /\ (replica[i] = "complete" \/ hash[i] = "partial")
    <3>1. i \in Logs /\ 2 * i + 2 > b /\ 2 * i < t
      BY Zenon DEF Redo, NextTime, FirstTime
    <3>2. Replicated(i)
      BY <2>3, <2>5, <2>6, <3>1 DEF Logs
    <3>3. include(i, b, t)
      BY <2>3, <2>5, <3>1, <3>2 DEF include, Replicated, NextTime, FirstTime, Logs
    <3>4. LogInv(i) /\ hash[i] \in {"none", "partial", "complete", "zero"}
      BY <1>1, <3>1, Zenon DEF AgentInv, AgentTypeOK
    <3> QED
      BY <3>2, <3>3, <3>4, Zenon DEF LogInv, Replicated
  <2> QED
    BY <2>1, <2>3, <2>7, <2>8, Zenon DEF b
<1> QED
  BY <1>1, PITRInvHolds, PTL

\* A time of modification in the hash store that is that of the complete log, or zero
\* because the log was purged meanwhile (mtime), tells of a whole copy, unless the log
\* met an accident.  So a log that a thread passes over (changed) need not be copied.
AttestedIsWhole ==
    \A i \in Logs \ harmed :
        hash[i] \in {"complete", "zero"} => Written(i) /\ replica[i] = "complete"

\* Attested copies are whole, for any number of logs, threads and failures.
THEOREM AttestedCopiesAreWhole == PITRSpec => []AttestedIsWhole
<1>1. AgentInv => AttestedIsWhole
  BY Zenon DEF AgentInv, LogInv, AttestedIsWhole
<1> QED
  BY <1>1, PITRInvHolds, PTL

\* Every variable of point-in-time recovery keeps its type.
THEOREM PITRTypeCorrect == PITRSpec => []PITRTypeOK
<1>1. PITRInit /\ AgentInv => PITRTypeOK
  BY Zenon DEF PITRInit, AgentInv, PITRTypeOK
<1>2. ASSUME PITRTypeOK, AgentInv, WindowInv, AgentInv', [PITRNext]_pitrVars
      PROVE  PITRTypeOK'
  <2>1. AgentTypeOK'
    BY <1>2, Zenon DEF AgentInv
  <2>2. recoveryWindows \subseteq Nat \X Nat
    BY <1>2, ReportedIsCovered, Zenon DEF WindowInv
  <2>3. saved \union {Now} \subseteq 1..(2 * MaxLog + 3)
    BY <1>2, NowIsBetween, Zenon DEF PITRTypeOK
  <2> SUFFICES /\ initial' \in {"none", "underway", "ready", "failed", "unlabelled"}
               /\ saved' \subseteq 1..(2 * MaxLog + 3)
               /\ schedule' \in {"none", "due", "taken"}
               /\ windows' \subseteq Nat \X Nat
    BY <2>1, Zenon DEF PITRTypeOK
  <2> USE <1>2 DEF PITRTypeOK
  <2>4. CASE AgentAndEnvironment
    BY <2>4, Zenon DEF AgentAndEnvironment, backups
  <2>5. CASE EndInitialBackup
    BY <2>3, <2>5, Zenon DEF EndInitialBackup
  <2>6. CASE TakeScheduledBackup
    BY <2>3, <2>6, Zenon DEF TakeScheduledBackup
  <2>7. CASE ReconcilePITR
    BY <2>2, <2>7, Zenon DEF ReconcilePITR, ensureBackup, ensureBackupSchedule, updateRecoveryStatus
  <2>8. CASE ReconcileFails
    BY <2>8, Zenon DEF ReconcileFails, ensureBackupSchedule
  <2>9. CASE UNCHANGED pitrVars
    BY <2>9, Zenon DEF pitrVars, backups
  <2> QED
    BY <2>4, <2>5, <2>6, <2>7, <2>8, <2>9, Zenon DEF PITRNext
<1> QED
  BY <1>1, <1>2, PITRInvHolds, PTL DEF PITRSpec

-----------------------------------------------------------------------------
(* The Database controller.                                                *)

\* The steps after the finalizer has been added or seen.
Guarded == {"create", "open", "readyNew", "newUsers", "usersMade", "list", "readyOld",
            "usersChanged", "syncing", "update", "synced", "drop", "unlist", "release"}

\* A Database that reconciles or waits for its deletion has its finalizer.
FinalizerFits ==
    /\ finalizer = "yes" => database # "absent"
    /\ database = "deleting" => finalizer = "yes"
    /\ pc \in Guarded => finalizer = "yes"
    /\ pc = "finalize" /\ fresh = "yes" => database = "present"

\* A deletion that read a running Instance drops the pluggable database first.
DeletionFits ==
    /\ pc \in {"drop", "unlist", "release"} => database = "deleting"
    /\ pc = "release" => listed = "no"
    /\ pc \in {"unlist", "release"} /\ stopped = "no" /\ instanceFresh = "yes" => pdb = "absent"
    /\ pc = "idle" => instanceFresh = "yes" /\ fresh = "yes"

Inv == TypeOK /\ FinalizerFits /\ DeletionFits /\ ListedMeansExists

USE DatabaseAssumption

\* The initial states satisfy Inv.
LEMMA InitInv == Init => Inv
BY DEF Init, Inv, TypeOK, FinalizerFits, DeletionFits, ListedMeansExists, Guarded

\* Grants and revocations stay within the privileges there are.
LEMMA GrantType ==
    ASSUME NEW P \in SUBSET Privileges, NEW S \in SUBSET Privileges
    PROVE  grant(P, S) \subseteq Privileges /\ revoke(P, S) \subseteq Privileges
BY DEF grant, revoke

\* A sync that stops between two grants leaves users of the type that it found.
LEMMA PartlyGrantedType ==
    ASSUME NEW P \in SUBSET Privileges, NEW S \in SUBSET Privileges
    PROVE  PartlyGranted(P, S) \subseteq SUBSET Privileges
<1> SUFFICES ASSUME NEW T \in SUBSET S PROVE grant(P, T) \subseteq Privileges
  BY DEF PartlyGranted
<1>1. T \in SUBSET Privileges
  BY Zenon
<1> QED
  BY <1>1, GrantType, Zenon

\* What an update leaves behind, whole or in part, is a set of privileges.
LEMMA UpdateType ==
    ASSUME Inv, NEW P \in SUBSET Privileges
    PROVE  /\ update(P) \subseteq Privileges
           /\ PartlyUpdated(P) \subseteq SUBSET Privileges
<1>1. seenPrivileges \subseteq Privileges
  BY Zenon DEF Inv, TypeOK
<1>2. ASSUME NEW Q \in SUBSET Privileges, NEW K \in SUBSET Privileges
      PROVE  updatePrivs(Q, K) \subseteq Privileges
  <2> DEFINE G == grant(Q, ToGrant(Q) \intersect K)
  <2>1. G \in SUBSET Privileges
    <3>1. ToGrant(Q) \intersect K \in SUBSET Privileges
      BY <1>2, Zenon
    <3> QED
      BY <1>2, <3>1, GrantType, Zenon
  <2>2. ToRevoke(Q) \intersect K \in SUBSET Privileges
    BY <1>2
  <2> HIDE DEF G
  <2>3. revoke(G, ToRevoke(Q) \intersect K) \subseteq Privileges
    BY <2>1, <2>2, GrantType, Zenon
  <2> QED
    BY <2>3, Zenon DEF updatePrivs, G
<1>3. updateRolePrivs(P) \subseteq Privileges
  BY <1>2, Zenon DEF updateRolePrivs
<1>4. update(P) \subseteq Privileges
  BY <1>2, <1>3, Zenon DEF update, updateSysPrivs
<1> DEFINE R == updateRolePrivs(P)
<1>5. PartlyGranted(P, ToGrant(P) \intersect Roles) \subseteq SUBSET Privileges
  <2>1. ToGrant(P) \intersect Roles \in SUBSET Privileges
    BY Zenon
  <2> QED
    BY <2>1, PartlyGrantedType, Zenon
<1>6. PartlyGranted(R, ToGrant(R) \ Roles) \subseteq SUBSET Privileges
  <2>1. ToGrant(R) \ Roles \in SUBSET Privileges /\ R \in SUBSET Privileges
    BY <1>1, <1>3, Zenon DEF ToGrant
  <2> QED
    BY <2>1, PartlyGrantedType, Zenon
<1>7. PartlyUpdated(P) = PartlyGranted(P, ToGrant(P) \intersect Roles) \union {R, update(P)}
                         \union PartlyGranted(R, ToGrant(R) \ Roles)
  BY Zenon DEF PartlyUpdated
<1>8. {R, update(P)} \subseteq SUBSET Privileges
  BY <1>3, <1>4, Zenon
<1> HIDE DEF R
<1> QED
  BY <1>4, <1>5, <1>6, <1>7, <1>8, Zenon

\* So is what UpdateUsers leaves in the pluggable database.
LEMMA ChangedType ==
    ASSUME Inv
    PROVE  /\ Changed \in (Passwords \union {"none"}) \X SUBSET Privileges
           /\ PartlyChanged \subseteq (Passwords \union {"none"}) \X SUBSET Privileges
<1>1. /\ pdbPassword \in Passwords \union {"none"} /\ pdbPrivileges \in SUBSET Privileges
      /\ seenPassword \in Passwords \union {"none"} /\ seenPrivileges \in SUBSET Privileges
  BY Zenon DEF Inv, TypeOK
<1>2. create \in (Passwords \union {"none"}) \X SUBSET Privileges
  BY <1>1, GrantType, Zenon DEF create
<1>3. PartlyCreated \subseteq (Passwords \union {"none"}) \X SUBSET Privileges
  BY <1>1, PartlyGrantedType DEF PartlyCreated
<1>4. updatePassword \in Passwords \union {"none"}
  BY <1>1, Zenon DEF updatePassword
<1> QED
  BY <1>1, <1>2, <1>3, <1>4, UpdateType DEF Changed, PartlyChanged

\* What owners do, a deletion by the Instance controller included, keeps Inv.
LEMMA OwnersKeepInv ==
    ASSUME Inv, EditDatabase \/ DeleteDatabase \/ DeleteInstance \/ StopOrStart
                \/ ReconcileInstanceDeletion
    PROVE  Inv'
<1> USE DEF Inv, TypeOK, FinalizerFits, DeletionFits, ListedMeansExists, Guarded, Touch,
            TouchInstance, NoUser, Edits, object, status, owner, pluggable, control, seen,
            bounds
<1>1. CASE EditDatabase
  BY <1>1 DEF EditDatabase
<1>2. CASE DeleteDatabase
  BY <1>2 DEF DeleteDatabase, Deleted, Removed
<1>3. CASE DeleteInstance
  BY <1>3 DEF DeleteInstance
<1>4. CASE StopOrStart
  BY <1>4 DEF StopOrStart
<1>5. CASE ReconcileInstanceDeletion
  BY <1>5 DEF ReconcileInstanceDeletion, Deleted, Removed
<1> QED
  BY <1>1, <1>2, <1>3, <1>4, <1>5, Zenon

\* The steps of ReconcileDatabaseCreation keep Inv.
LEMMA CreationKeepsInv ==
    ASSUME Inv, Begin \/ PreflightFails \/ Creation
    PROVE  Inv'
<1> USE DEF Inv, TypeOK, FinalizerFits, DeletionFits, ListedMeansExists, Guarded, Goto,
            EndReconcile, object, status, owner, pluggable, control, seen, bounds
<1>1. CASE Begin
  BY <1>1 DEF Begin
<1>2. CASE PreflightFails
  BY <1>2 DEF PreflightFails
<1>3. CASE AddFinalizer
  BY <1>3 DEF AddFinalizer
<1>4. CASE NewDatabase
  BY <1>4 DEF NewDatabase, CreateDatabase, alreadyExists
<1>5. CASE OpenDatabase
  BY <1>5 DEF OpenDatabase
<1>6. CASE SetReady
  BY <1>6 DEF SetReady
<1>7. CASE CreateUsers
  BY <1>7, PartlyGrantedType DEF CreateUsers
<1>8. CASE NewUsers
  BY <1>8 DEF NewUsers
<1>9. CASE ListInInstance
  BY <1>9 DEF ListInInstance
<1>10. CASE UsersChanged
  BY <1>10 DEF UsersChanged
<1>11. CASE SetSyncInProgress
  BY <1>11 DEF SetSyncInProgress
<1>12. CASE UpdateUsers
  BY <1>12, ChangedType DEF UpdateUsers, SetUser
<1>13. CASE SyncUsers
  BY <1>13 DEF SyncUsers
<1> QED
  BY <1>1, <1>2, <1>3, <1>4, <1>5, <1>6, <1>7, <1>8, <1>9, <1>10, <1>11, <1>12, <1>13,
     Zenon DEF Creation

\* The steps of ReconcileDatabaseDeletion, and a reconcile cut short, keep Inv.
LEMMA DeletionKeepsInv ==
    ASSUME Inv, BeginDeletion \/ Deletion \/ CutShort
    PROVE  Inv'
<1> USE DEF Inv, TypeOK, FinalizerFits, DeletionFits, ListedMeansExists, Guarded, Goto,
        NoUser,
            EndReconcile, object, status, owner, pluggable, control, seen, bounds
<1>1. CASE BeginDeletion
  BY <1>1 DEF BeginDeletion
<1>2. CASE DropDatabase
  BY <1>2 DEF DropDatabase
<1>3. CASE Unlist
  BY <1>3 DEF Unlist
<1>4. CASE RemoveFinalizer
  BY <1>4 DEF RemoveFinalizer, Removed
<1>5. CASE CutShort
  BY <1>5 DEF CutShort
<1> QED
  BY <1>1, <1>2, <1>3, <1>4, <1>5, Zenon DEF Deletion

\* Every step keeps Inv: one case per group of actions.
LEMMA StepInv == Inv /\ [Next]_vars => Inv'
<1> SUFFICES ASSUME Inv, [Next]_vars PROVE Inv'
  BY Zenon
<1>1. CASE Next
  BY <1>1, OwnersKeepInv, CreationKeepsInv, DeletionKeepsInv, Zenon DEF Next
<1>2. CASE UNCHANGED vars
  BY <1>2 DEF vars, Inv, TypeOK, FinalizerFits, DeletionFits, ListedMeansExists, Guarded,
              object, status, owner, pluggable, control, bounds
<1> QED
  BY <1>1, <1>2, Zenon

\* Inv holds in every reachable state.
THEOREM InvIsInvariant == Spec => []Inv
BY InitInv, StepInv, PTL DEF Spec

\* Type correctness.
THEOREM TypeCorrect == Spec => []TypeOK
<1>1. Inv => TypeOK
  BY Zenon DEF Inv
<1> QED
  BY <1>1, InvIsInvariant, PTL

\* A name in status.databaseNames is that of a Database with its finalizer: the
\* deletion of the Instance (reconcileInstanceDeletion) finds what it waits for.
THEOREM NamesAreTrue == Spec => []ListedMeansExists
<1>1. Inv => ListedMeansExists
  BY Zenon DEF Inv
<1> QED
  BY <1>1, InvIsInvariant, PTL

\* A pluggable database is made only under the finalizer of its Database, which
\* ReconcileDatabaseDeletion removes only after it has dropped it.
THEOREM PdbIsGuarded == Spec => FinalizerGuardsPdb
<1> DEFINE Guards == /\ (pdb = "absent" /\ pdb' # "absent") => finalizer = "yes"
                     /\ (finalizer = "yes" /\ finalizer' = "no" /\ stopped = "no"
                           /\ instanceFresh = "yes") => pdb' = "absent"
<1>1. Inv /\ [Next]_vars => [Guards]_vars
  <2> SUFFICES ASSUME Inv, Next PROVE Guards
    BY Zenon
  <2> USE DEF Inv, TypeOK, FinalizerFits, DeletionFits, Guarded, Goto, NoUser, EndReconcile,
              object, status, owner, pluggable, control, seen, bounds
  <2>1. CASE NewDatabase
    BY <2>1, Zenon DEF NewDatabase, CreateDatabase, alreadyExists
  <2>2. CASE OpenDatabase
    BY <2>2, Zenon DEF OpenDatabase
  <2>3. CASE DropDatabase
    BY <2>3, Zenon DEF DropDatabase
  <2>4. CASE RemoveFinalizer
    BY <2>4, Zenon DEF RemoveFinalizer
  <2>5. CASE DeleteDatabase \/ ReconcileInstanceDeletion
    BY <2>5, Zenon DEF DeleteDatabase, ReconcileInstanceDeletion, Deleted
  <2>6. CASE EditDatabase \/ DeleteInstance \/ StopOrStart \/ Begin \/ PreflightFails
             \/ BeginDeletion \/ CutShort
    BY <2>6, Zenon DEF EditDatabase, DeleteInstance, StopOrStart, Begin, PreflightFails,
       BeginDeletion,
                CutShort
  <2>7. CASE AddFinalizer \/ SetReady \/ CreateUsers \/ NewUsers \/ ListInInstance
             \/ UsersChanged \/ SetSyncInProgress \/ SyncUsers \/ Unlist
    BY <2>7, Zenon DEF AddFinalizer, SetReady, CreateUsers, NewUsers, ListInInstance,
       UsersChanged,
                SetSyncInProgress, SyncUsers, Unlist
  <2>8. CASE UpdateUsers
    BY <2>8, Zenon DEF UpdateUsers
  <2> QED
    BY <2>1, <2>2, <2>3, <2>4, <2>5, <2>6, <2>7, <2>8, Zenon DEF Next, Creation, Deletion
<1> QED
  BY <1>1, InvIsInvariant, PTL DEF Spec, FinalizerGuardsPdb

\* Roles first, system privileges second: an update that succeeds leaves the
\* user with what the spec has, whatever privileges the roles bring and take.
LEMMA UpdateReachesSpec ==
    ASSUME Inv, NEW P \in SUBSET Privileges
    PROVE  update(P) = seenPrivileges
<1> DEFINE R == updateRolePrivs(P)
<1>1. seenPrivileges \subseteq Privileges
  BY DEF Inv, TypeOK
<1>2. R \intersect Roles = seenPrivileges \intersect Roles
  BY <1>1 DEF updateRolePrivs, updatePrivs, grant, revoke, ToGrant, ToRevoke
<1>3. R \subseteq Privileges
  BY <1>1 DEF updateRolePrivs, updatePrivs, grant, revoke, ToGrant, ToRevoke
<1>4. update(P) = (R \union (seenPrivileges \ (R \union Roles))) \ (R \ (seenPrivileges \union Roles))
  BY <1>1, <1>3, Zenon DEF update, updateSysPrivs, updatePrivs, grant, revoke, ToGrant,
     ToRevoke
<1> HIDE DEF R
<1> QED
  BY <1>1, <1>2, <1>3, <1>4, Zenon

\* Before it is reported in sync, the user has all that the spec asks for: the
\* order in which UpdateUsers changes roles and system privileges is enough.
THEOREM SyncedUsersAreGranted == Spec => []SyncedMeansGranted
<1>1. Init => SyncedMeansGranted
  BY Zenon DEF Init, SyncedMeansGranted
<1>2. Inv /\ SyncedMeansGranted /\ [Next]_vars => SyncedMeansGranted'
  <2> SUFFICES ASSUME Inv, SyncedMeansGranted, [Next]_vars PROVE SyncedMeansGranted'
    BY Zenon
  <2> USE DEF SyncedMeansGranted, Goto, EndReconcile, seen, pluggable, control
  <2>1. CASE UpdateUsers
    <3>1. CASE SetUser(Changed)
      <4>1. pdbPrivileges \in SUBSET Privileges
        BY Zenon DEF Inv, TypeOK
      <4>2. seenPassword # "none" => seenPrivileges \subseteq Changed[2]
        BY <4>1, UpdateReachesSpec, Zenon DEF Changed, create, grant, toCreate, toUpdate
      <4>3. UNCHANGED seen \/ pc' = "idle"
        BY <2>1, Zenon DEF UpdateUsers
      <4> QED
        BY <3>1, <4>2, <4>3, Zenon DEF SetUser
    <3>2. CASE pc' = "idle"
      BY <3>2, Zenon
    <3> QED
      BY <2>1, <3>1, <3>2, Zenon DEF UpdateUsers
  <2>2. CASE UsersChanged
    BY <2>2, Zenon DEF UsersChanged, toCreate, toUpdate
  <2>3. CASE EditDatabase \/ DeleteDatabase \/ DeleteInstance \/ StopOrStart
             \/ ReconcileInstanceDeletion \/ PreflightFails
    BY <2>3, Zenon DEF EditDatabase, DeleteDatabase, DeleteInstance, StopOrStart,
                ReconcileInstanceDeletion, PreflightFails
  <2>4. CASE Begin \/ AddFinalizer \/ NewDatabase \/ OpenDatabase \/ SetReady \/ CreateUsers
             \/ NewUsers \/ ListInInstance \/ SetSyncInProgress \/ SyncUsers
    BY <2>4, Zenon DEF Begin, AddFinalizer, NewDatabase, OpenDatabase, SetReady,
       CreateUsers, NewUsers,
                ListInInstance, SetSyncInProgress, SyncUsers
  <2>5. CASE BeginDeletion \/ Deletion \/ CutShort
    BY <2>5, Zenon DEF BeginDeletion, Deletion, DropDatabase, Unlist, RemoveFinalizer,
       CutShort
  <2>6. CASE UNCHANGED vars
    BY <2>6, Zenon DEF vars
  <2> QED
    BY <2>1, <2>2, <2>3, <2>4, <2>5, <2>6, Zenon DEF Next, Creation
<1> QED
  BY <1>1, <1>2, InvIsInvariant, PTL DEF Spec
=============================================================================
