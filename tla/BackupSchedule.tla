--------------------------- MODULE BackupSchedule ---------------------------
(***************************************************************************)
(* The BackupSchedule controller on top of the CronAnything controller: it *)
(* creates and updates a CronAnything whose children are Backups, reports  *)
(* them in its status, and deletes the old ones.  Its reconciles are       *)
(* caused by changes of the BackupSchedule and of the CronAnything.        *)
(***************************************************************************)
EXTENDS CronAnything

CONSTANT BackupRetention    \* successful backups to keep; 0 keeps all

ASSUME RetentionAssumption == BackupRetention \in Nat

\* What createCron puts into the CronAnything, and updateCron leaves there.
ASSUME OwnedAssumption ==
    \A c \in Confs : c.owned => c.policy = "Forbid" /\ c.keep = NoLimit /\ c.age = NoLimit

DefaultTriggerDeadline == 0

VARIABLES
    wanted,     \* spec.schedule of the BackupSchedule
    total,      \* status.backupTotal
    pending,    \* the key of the BackupSchedule is in the work queue
    good        \* triggers whose backup has succeeded (history)

schedule == <<wanted, total, pending, good>>
scheduleVars == <<cronVars, schedule>>

ScheduleTypeOK ==
    /\ CronTypeOK
    /\ wanted \in Times
    /\ total \in 0 .. MaxTime
    /\ pending \in BOOLEAN
    /\ good \subseteq Times

ScheduleInit ==
    /\ CronInit
    /\ wanted = period
    /\ total = 0
    /\ pending = conf.owned
    /\ good = {}

-----------------------------------------------------------------------------
(* The reconcile of the BackupSchedule.                                    *)

lookupCron == cron = "present"

createCron ==
    /\ pending /\ ~ lookupCron
    /\ cron' = "present" /\ period' = wanted
    /\ deadline' = IF conf.deadline = NoLimit THEN DefaultTriggerDeadline ELSE conf.deadline
    /\ Event /\ pending' = TRUE
    /\ UNCHANGED <<clock, conf, suspend, status, children, waiting, nextTrigger, local, wanted, total,
                   good>>

\* A deadline that is not set equals only one that is not set.
UpToDate == period = wanted /\ deadline = conf.deadline

\* The deadline of the BackupSchedule is copied, also when it is not set.
updateCron ==
    IF UpToDate
    THEN UNCHANGED <<period, deadline, ready>>
    ELSE period' = wanted /\ deadline' = conf.deadline /\ Event

\* List: the backups that are not being deleted.
backups == childResources \ deleting

\* What getSortedBackupsForCron sorts before t.
Newer(t) == {u \in backups : u > t}

\* Every backup counts.
Surplus_AllPhases ==
    {t \in backups : BackupRetention # 0 /\ Cardinality(Newer(t)) >= BackupRetention}

\* pruneBackups: what is older than the last successful backup to keep.
Surplus ==
    {t \in backups :
        /\ BackupRetention # 0
        /\ Cardinality({u \in Newer(t) : phase[u] = "succeeded"}) >= BackupRetention}

\* The newest is deleted first; an error ends the loop.
pruneBackups ==
    \/ deleting' = deleting \union Surplus /\ pending' = (total' # total \/ period' # period)
    \/ \E t \in Surplus :
          deleting' = deleting \union {u \in Surplus : u > t} /\ pending' = TRUE

updateHistory == total' = Cardinality(backups)

ReconcileSchedule ==
    /\ pending /\ lookupCron
    /\ updateCron
    /\ updateHistory
    /\ pruneBackups
    /\ UNCHANGED <<clock, conf, cron, suspend, status, phase, created, waiting, nextTrigger, local,
                   wanted, good>>

UserChangesBackupSchedule ==
    /\ conf.owned
    /\ \E c \in Changes : c[1] = wanted /\ c[2] # wanted /\ wanted' = c[2]
    /\ pending' = TRUE
    /\ UNCHANGED <<cronVars, total, good>>

-----------------------------------------------------------------------------
(* A step of the other controller: its writes are events for this one.     *)

CronStep ==
    /\ CronNext
    /\ pending' = (pending \/ (conf.owned /\ status' # status))
    /\ good' = good \union {t \in Times : phase[t] = "active" /\ phase'[t] = "succeeded"}
    /\ UNCHANGED <<wanted, total>>

ScheduleNext == CronStep \/ createCron \/ ReconcileSchedule \/ UserChangesBackupSchedule

ScheduleSpec == ScheduleInit /\ [][ScheduleNext]_scheduleVars

\* The queues deliver their keys, the workers take them, and a reconcile that is
\* retried gets through in the end.
ScheduleFairness ==
    /\ WF_cronVars(Tick \/ WakeUp \/ ChildIsGone)
    /\ WF_cronVars(Pick \/ Skip \/ Replace \/ Create \/ CreateFails \/ Record)
    /\ SF_cronVars(Skip \/ Replace \/ Create) /\ SF_cronVars(Record)

FairScheduleSpec == ScheduleSpec /\ ScheduleFairness

-----------------------------------------------------------------------------
(* Properties.                                                             *)

\* The policies hold whatever is retried or restarted: with Forbid (the one of every
\* BackupSchedule) and Replace there is at most one unfinished child, and with Forbid a
\* trigger creates at most one child, also when the operator stops between creating it
\* and recording that (Reconcile of CronAnything).  The last half needs a history that
\* keeps the last finished child and schedule changes that only add triggers.
ConcurrencyPolicyHolds ==
    /\ conf.policy \in {"Forbid", "Replace"} => Cardinality({t \in Times : phase[t] = "active"}) <= 1
    /\ conf.policy = "Forbid" => \A t \in Times : created[t] <= 1

\* The newest BackupRetention successful backups are never pruned.
RetentionKeepsNewest ==
    conf.owned =>
      \A t \in good :
        Cardinality({u \in good : u > t}) < BackupRetention =>
          phase[t] = "succeeded" /\ t \notin deleting

\* A trigger that is due in the delaying queue is dealt with: a child is created, or
\* it is stored that none is, unless the object is suspended.  A trigger with no
\* successor within the clock's bound is left out: the next trigger is what ends a
\* creation that keeps failing.
DueTriggersAreServed ==
    \A t \in Times :
        t \in waiting /\ clock >= t /\ Fires(t) /\ t + period <= MaxTime ~> last >= t \/ suspend
=============================================================================
