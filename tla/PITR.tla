------------------------------- MODULE PITR -------------------------------
(***************************************************************************)
(* The point-in-time recovery of one incarnation of a database: the        *)
(* PITRAgent, the controller of the PITR resource, which deploys the       *)
(* agent, sees to a first backup, schedules the others and reports the     *)
(* windows that can be recovered, and what a recovery takes from them.     *)
(***************************************************************************)
EXTENDS PITRAgent, FiniteSetsExt

VARIABLES
    initial,        \* the first backup: none, underway, ready, failed, or unlabelled
    saved,          \* the instants of the backups that succeeded
    schedule,       \* the BackupSchedule: none, due (for one backup), or taken
    windows         \* status.availableRecoveryWindowTime

backups == <<initial, saved, schedule>>
pitrVars == <<agentVars, backups, windows>>

PITRTypeOK ==
    /\ AgentTypeOK
    /\ initial \in {"none", "underway", "ready", "failed", "unlabelled"}
    /\ saved \subseteq 1..(2 * MaxLog + 3)
    /\ schedule \in {"none", "due", "taken"}
    /\ windows \subseteq Nat \X Nat

PITRInit ==
    /\ AgentInit
    /\ initial = "none" /\ saved = {} /\ schedule = "none" /\ windows = {}

-----------------------------------------------------------------------------
(* The backups.                                                            *)

Now == FirstTime(Current) + 1

\* The first backup ends.  One that fails because the instance does not become ready
\* has not got the label of the incarnation yet.
EndInitialBackup ==
    /\ initial = "underway"
    /\ \/ initial' = "ready" /\ saved' = saved \cup {Now} /\ UNCHANGED errors
       \/ initial' \in {"failed", "unlabelled"} /\ Fails /\ UNCHANGED saved
    /\ UNCHANGED <<src, replica, hash, catalog, run, lag, sync, harmed, schedule, windows>>

TakeScheduledBackup ==
    /\ schedule = "due"
    /\ saved' = saved \cup {Now} /\ schedule' = "taken"
    /\ UNCHANGED <<agentVars, initial, windows>>

-----------------------------------------------------------------------------
(* The controller.                                                         *)

ensureAgent == run' = IF run = "off" THEN "starting" ELSE run

\* The labels do not find a backup before it was started; applying one that exists
\* changes nothing.  One that failed is deleted if it is the only one.
ensureBackup ==
    initial' = CASE initial = "none" -> "underway"
                 [] initial = "failed" /\ schedule # "taken" -> "none"
                 [] OTHER -> initial

\* ensureBackup lets the reconcile go on.
HasBackup == initial = "ready" \/ schedule = "taken"

ensureBackupSchedule == schedule' = IF schedule = "none" THEN "due" ELSE schedule

\* The agent answers.
AvailableRecoveryWindows == Running

\* A window begins with the first backup in it.
recoveryWindows ==
    {<<Min({k \in saved : w[1] <= k}), w[2]>> :
        w \in {v \in Status : \E k \in saved : k \in v[1]..v[2]}}

updateRecoveryStatus ==
    windows' = IF AvailableRecoveryWindows THEN recoveryWindows ELSE windows

\* Backups and logs are only added between the calls of a reconcile; it may also end
\* after any of them.
ReconcilePITR ==
    /\ ensureAgent /\ ensureBackup
    /\ IF HasBackup THEN ensureBackupSchedule /\ updateRecoveryStatus
                    ELSE UNCHANGED <<schedule, windows>>
    /\ UNCHANGED <<src, replica, hash, catalog, lag, sync, errors, harmed, saved>>

ReconcileFails ==
    /\ Fails
    /\ \/ UNCHANGED <<run, initial, schedule>>
       \/ ensureAgent /\ UNCHANGED <<initial, schedule>>
       \/ ensureAgent /\ HasBackup /\ ensureBackupSchedule /\ UNCHANGED initial
    /\ UNCHANGED <<src, replica, hash, catalog, lag, sync, harmed, saved, windows>>

-----------------------------------------------------------------------------
(* What a recovery to an instant uses.                                     *)

\* The last backup before the instant.
findPITRBackup(t) == Max({b \in saved : b <= t})

\* An entry of the catalog that touches the time from the backup to the instant.
include(i, b, t) == catalog[i] # "none" /\ ~(NextTime(i) < b \/ FirstTime(i) > t)

\* Every entry that is included must have a replica.
StageLogs(b, t) == \A i \in Logs : include(i, b, t) => catalog[i] = "replicated"

\* The logs that the database must read to get from the backup to the instant.
Redo(b, t) == {i \in Logs : NextTime(i) > b /\ FirstTime(i) < t}

-----------------------------------------------------------------------------
AgentAndEnvironment == AgentNext /\ UNCHANGED <<backups, windows>>

PITRNext ==
    \/ AgentAndEnvironment
    \/ EndInitialBackup \/ TakeScheduledBackup
    \/ ReconcilePITR \/ ReconcileFails

PITRSpec == PITRInit /\ [][PITRNext]_pitrVars

\* The reconcile is requeued every minute and goes on; the Backup controller treats
\* the backups; the goroutines of the agent go on.
PITRFairness ==
    /\ WF_pitrVars(ReconcilePITR)
    /\ WF_pitrVars(EndInitialBackup)
    /\ WF_pitrVars(StartAgent /\ UNCHANGED <<backups, windows>>)
    /\ WF_pitrVars(lag = "set" /\ WriteLog /\ UNCHANGED <<backups, windows>>)
    /\ WF_pitrVars(metadataUpdate /\ UNCHANGED <<backups, windows>>)
    /\ \A i \in Logs :
         WF_pitrVars(/\ (changed(i) /\ TakeFile(i)) \/ validateHash(i) \/ storeHash(i)
                     /\ UNCHANGED <<backups, windows>>)

FairPITRSpec == PITRSpec /\ PITRFairness

-----------------------------------------------------------------------------
(* Properties.                                                             *)

\* Every instant of a window that the PITR resource reports can be recovered: there
\* is a backup before it, the recovery finds a replica for every entry of the catalog
\* that it includes, and it finds a whole copy of every log from the chosen backup to
\* the instant (updateStatus, Merge, findPITRBackupForRestore, StageLogs).  Or the hash
\* store still asks for another copy: a log that was copied half written is not
\* forgotten (sync validates the copy before it writes the hash).  Excepted are logs
\* that met an accident, and the last instant of a window: it belongs to the next log
\* too, which may be in the catalog without a replica.
ReportedWindowIsRecoverable ==
    \A w \in windows : \A t \in w[1]..(w[2] - 1) :
        /\ \E b \in saved : b <= t
        /\ LET b == findPITRBackup(t)
           IN  /\ StageLogs(b, t)
               /\ \A i \in Redo(b, t) \ harmed :
                    /\ include(i, b, t)
                    /\ replica[i] = "complete" \/ hash[i] = "partial"

\* The agent gets every log archived and, as long as the database keeps it, replicated;
\* an instant in it can be recovered as soon as a backup precedes it, and there is a
\* backup in the end.  Excepted are a replication that hangs or has lost the directory,
\* a log before it that was purged or met an accident, and a first backup that failed
\* before it had its label (SetArchiveLag, logSyncer.run, RunMetadataUpdate,
\* ensureBackup, updateStatus).
LogsBecomeRecoverable ==
    \A i \in Logs :
        []<>(\/ /\ saved # {} /\ catalog[i] = "replicated" /\ replica[i] = "complete"
                /\ \A t \in FirstTime(i)..(NextTime(i) - 1) :
                     (\E b \in saved : b <= t) => \E w \in windows : t \in w[1]..w[2]
             \/ run \in {"hung", "lost"} \/ initial = "unlabelled"
             \/ \E k \in 1..i : src[k] = "purged" \/ k \in harmed)
=============================================================================
