------------------------------ MODULE DataPump ------------------------------
(***************************************************************************)
(* The Import and Export controllers with the database daemon.  A          *)
(* controller starts the data pump job of its object as a long running     *)
(* operation of the daemon, named after the UID of the object, polls it    *)
(* and reports how it ended.                                               *)
(***************************************************************************)
EXTENDS PhysicalJobs

CONSTANT MaxRestarts        \* of the daemon

VARIABLES
    status,     \* the reason of the Ready condition; "" until the first one
    ctl,        \* where the reconcile of the object is, with the outcome it has read
    restarts,   \* how often the daemon has restarted
    lost        \* the objects whose operation was forgotten once

controllerVars == <<status, ctl>>
vars == <<daemonVars, physicalVars, controllerVars, restarts, lost>>

TypeOK ==
    /\ DaemonTypeOK
    /\ PhysicalTypeOK
    /\ status \in [Loads -> {"", "InProgress", "Complete", "Failed"}]
    /\ ctl \in [Loads -> {"idle", "started"} \union LRO!Outcomes]
    /\ restarts \in 0..MaxRestarts
    /\ lost \in SUBSET Loads

Init ==
    /\ DaemonInit
    /\ PhysicalInit
    /\ status = [r \in Loads |-> ""]
    /\ ctl = [r \in Loads |-> "idle"]
    /\ restarts = 0
    /\ lost = {}

-----------------------------------------------------------------------------
(* The controllers.                                                        *)

DataPumpImport(r) == kind[r] = "Import" /\ QueueLoad(r)

DataPumpExport(r) == kind[r] = "Export" /\ QueueLoad(r)

\* A pending object: the job is started, sooner or later: the Database has to
\* be ready, and a start that fails leaves the object pending.  One that finds
\* the operation known is as good as a start.
NotStarted(r) ==
    /\ ctl[r] = "idle" /\ status[r] = ""
    /\ ctl' = [ctl EXCEPT ![r] = "started"]
    /\ \/ DataPumpImport(r) \/ DataPumpExport(r)
       \/ op[r] # "absent" /\ UNCHANGED daemonVars
    /\ UNCHANGED <<physicalVars, status, restarts, lost>>

HandleNotStartedImport(r) == kind[r] = "Import" /\ NotStarted(r)

HandleNotStartedExport(r) == kind[r] = "Export" /\ NotStarted(r)

\* An object in progress: the outcome is read and the operation is dismissed.
\* One that runs or is not known is asked for again later.
Running(r) ==
    /\ ctl[r] = "idle" /\ status[r] = "InProgress"
    /\ op[r] \in LRO!Outcomes
    /\ ctl' = [ctl EXCEPT ![r] = op[r]]
    /\ UNCHANGED <<daemonVars, physicalVars, status, restarts, lost>>

HandleRunningImport(r) == kind[r] = "Import" /\ Running(r)

HandleRunningExport(r) == kind[r] = "Export" /\ Running(r)

Handle(r) ==
    \/ HandleNotStartedImport(r) \/ HandleNotStartedExport(r)
    \/ HandleRunningImport(r) \/ HandleRunningExport(r)

\* The deferred Status().Update of Reconcile.
UpdateStatus(r) ==
    /\ ctl[r] # "idle"
    /\ status' = [status EXCEPT ![r] =
                    IF ctl[r] = "started" THEN "InProgress"
                    ELSE IF ctl[r] = "ok" THEN "Complete" ELSE "Failed"]
    /\ ctl' = [ctl EXCEPT ![r] = "idle"]
    /\ UNCHANGED <<daemonVars, physicalVars, restarts, lost>>

\* The update fails, or the operator stops before it.
Abort(r) ==
    /\ ctl[r] # "idle"
    /\ ctl' = [ctl EXCEPT ![r] = "idle"]
    /\ UNCHANGED <<daemonVars, physicalVars, status, restarts, lost>>

-----------------------------------------------------------------------------
(* The daemon.                                                             *)

JobStep(r) ==
    /\ LockForLoad(r) \/ LoadStep(r)
    /\ UNCHANGED <<physicalVars, controllerVars, restarts, lost>>

RequestStep(r) ==
    /\ (OtherStep(r) /\ UNCHANGED physicalVars) \/ PhysicalStep(r)
    /\ UNCHANGED <<controllerVars, restarts, lost>>

\* The objects that still need the operation the daemon knows.
Unanswered == {r \in Loads : op[r] # "absent" /\ status[r] \in {"", "InProgress"}}

\* An operation that has ended is collected by the daemon; what becomes of one
\* nobody needs any more makes no difference.
Collect(r) ==
    /\ r \in Unanswered
    /\ CollectJob(r)
    /\ lost' = lost \union {r}
    /\ UNCHANGED <<physicalVars, controllerVars, restarts>>

DaemonRestarts ==
    /\ restarts < MaxRestarts
    /\ restarts' = restarts + 1
    /\ Restart
    /\ lost' = lost \union Unanswered
    /\ UNCHANGED <<physicalVars, controllerVars>>

Next ==
    \/ \E r \in Loads :
          \/ Handle(r) \/ UpdateStatus(r) \/ Abort(r)
          \/ JobStep(r) \/ Collect(r)
    \/ \E r \in Others : RequestStep(r)
    \/ DaemonRestarts

Spec == Init /\ [][Next]_vars

\* Requests go on, the work queue calls the reconciler again, and updates of
\* the status do not fail for ever.
Fairness ==
    /\ WF_vars(\E r \in Loads : JobStep(r))
    /\ WF_vars(\E r \in Others : RequestStep(r))
    /\ \A r \in Loads :
          /\ WF_vars(Handle(r))
          /\ SF_vars(UpdateStatus(r))

FairSpec == Spec /\ Fairness

-----------------------------------------------------------------------------
\* An Import that is reported complete was imported: impdp has run to its end
\* for it, also when the database went down under the job, the daemon lost it
\* or a second run was started (handleRunningImport, dataPumpImport).
ImportCompleteMeansImported ==
    \A r \in Loads : kind[r] = "Import" /\ status[r] = "Complete" => r \in dumped

\* A job that a controller has started is answered: neither pdbLoadMutex nor
\* databaseSid, which jobs take in this order, can block it for ever.  The
\* exception is an operation the daemon forgot: it is asked for again and again.
LoadsAreAnswered ==
    \A r \in Loads :
        status[r] = "InProgress" ~> status[r] \in {"Complete", "Failed"} \/ r \in lost
=============================================================================
