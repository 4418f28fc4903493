---------------------- MODULE RestoreControllerProofs ----------------------
(***************************************************************************)
(* Proofs about the Restore controller and about the server of the         *)
(* operations that it polls.                                               *)
(*                                                                         *)
(* RestoreController, for any number of requests: a restore is launched at *)
(* most once for a request, and what the status says of it.                *)
(*                                                                         *)
(* LROServer, for any number of operations and of Job objects and any      *)
(* times to live.  None of its safety properties is inductive.  ServerInv  *)
(* adds what the code relies on without saying so: a map entry and its job *)
(* agree on the ID, only a job that ended carries a time stamp, a job has  *)
(* an outcome exactly when it ended, and a handler's job is the one the    *)
(* map holds or one the map has dropped.                                   *)
(***************************************************************************)
EXTENDS RestoreController, LROServer, TLAPS

-----------------------------------------------------------------------------
(* The Restore controller.                                                 *)

\* What the requests and the counts of launches are.
CountsOK ==
    /\ restore \in Requests \union {NoRequest}
    /\ newest \in Requests \union {NoRequest}
    /\ lastTime \in Requests \union {NoRequest}
    /\ launches \in [Requests -> 0 .. 2]

Preparing == {"RestorePreparationInProgress", "RestorePreparationComplete"}

\* The launch of the last accepted request is still to come.
BeforeLaunch == pc = "launch" \/ reason \in Preparing

\* Requests after the last accepted one have not been launched, nor has that one as
\* long as its launch is still to come; what is about to be accepted is new.
Inv ==
    /\ CountsOK
    /\ LaunchedOncePerRequest
    /\ \A n \in Requests : n > lastTime => launches[n] = 0
    /\ BeforeLaunch => lastTime # NoRequest /\ launches[lastTime] = 0
    /\ pc = "launch" => reason = "RestoreInProgress"
    /\ pc = "locked" => restore > lastTime

\* The initial states satisfy Inv.
LEMMA InitInv == Init => Inv
  BY MaxRequestsAssumption DEF Init, Inv, CountsOK, LaunchedOncePerRequest, BeforeLaunch,
     Preparing,
     Requests, NoRequest, LRO!ServiceInit

\* A request is accepted.
LEMMA StartKeepsInv == ASSUME Inv, AcquireLock \/ StartRestore PROVE Inv'
<1> USE MaxRequestsAssumption DEF Inv, CountsOK, LaunchedOncePerRequest, BeforeLaunch,
        Preparing,
        Requests, NoRequest
<1>1. CASE AcquireLock
  BY <1>1, Zenon DEF AcquireLock, Reconciling, Stable, request, world, history
<1>2. CASE StartRestore
  <2>1. lastTime' = restore /\ restore > lastTime /\ launches' = launches /\ restore' = restore
        /\ newest' = newest /\ pc' = "idle" /\ restore \in Requests
    BY <1>2 DEF StartRestore, request
  <2> QED
    BY <2>1
<1> QED
  BY <1>1, <1>2, Zenon

\* A launch is counted, and none follows it for the same request.
LEMMA LaunchKeepsInv == ASSUME Inv, LaunchSnapshot \/ LaunchPhysical PROVE Inv'
<1> USE MaxRequestsAssumption DEF Inv, CountsOK, LaunchedOncePerRequest, BeforeLaunch,
        Preparing,
        Requests, NoRequest
<1>1. pc = "launch" /\ pc' = "idle" /\ CountLaunch
      /\ UNCHANGED <<restore, newest, lastTime, reason>>
  BY Zenon DEF LaunchSnapshot, LaunchPhysical, status
<1>2. lastTime \in Requests /\ launches[lastTime] = 0
  BY <1>1, Zenon
<1>3. launches' = [launches EXCEPT ![lastTime] = 1]
  BY <1>1, <1>2 DEF CountLaunch
<1> QED
  BY <1>1, <1>2, <1>3

\* The other steps leave the counts alone; only CommitInProgress goes on to a launch.
LEMMA OtherStepsKeepInv ==
    ASSUME Inv, [Next]_vars, ~AcquireLock, ~StartRestore, ~LaunchSnapshot, ~LaunchPhysical
    PROVE  Inv'
<1> USE MaxRequestsAssumption DEF Inv, CountsOK, LaunchedOncePerRequest, BeforeLaunch,
        Preparing,
        Requests, NoRequest, request, status, world, history, Ready, Unready
<1>1. CASE CommitInProgress
  BY <1>1, Zenon DEF CommitInProgress, In, Reconciling
<1>2. CASE BackupUnusable \/ RemoveOld \/ Prepared \/ RefusePhysical
  BY <1>2, Zenon DEF BackupUnusable, RemoveOld, Prepared, RefusePhysical, In, Reconciling
<1>3. CASE PollSnapshot \/ PollPhysical \/ BootstrapSnapshot \/ BootstrapPhysical
  BY <1>3, Zenon DEF PollSnapshot, PollPhysical, BootstrapSnapshot, BootstrapPhysical, In,
     Reconciling
<1>4. CASE CompleteWithoutPatch \/ StartPatch \/ PollPatch
  BY <1>4, Zenon DEF CompleteWithoutPatch, StartPatch, PollPatch, In, Reconciling
<1>5. CASE ReleaseLock \/ ClearRequest \/ Report
  BY <1>5, Zenon DEF ReleaseLock, ClearRequest, Report
<1>6. CASE MainLoop
  BY <1>6, Zenon DEF MainLoop, RecreateStatefulSet, ResizingDone, InMainLoop
<1>7. CASE UserRequests
  BY <1>7 DEF UserRequests
<1>8. CASE Abort \/ UserWithdraws \/ BackupEnds \/ BackupIsDeleted \/ ParameterUpdate
  BY <1>8, Zenon DEF Abort, UserWithdraws, BackupEnds, BackupIsDeleted, ParameterUpdate
<1>9. CASE RestoreEnds \/ PatchEnds \/ OperationExpires \/ PodRestarts \/ PodStarts
  BY <1>9, Zenon DEF RestoreEnds, PatchEnds, OperationExpires, PodRestarts, PodStarts
<1>10. CASE UNCHANGED vars
  BY <1>10, Zenon DEF vars
<1> QED
  BY <1>1, <1>2, <1>3, <1>4, <1>5, <1>6, <1>7, <1>8, <1>9, <1>10, Zenon DEF Next,
     StateMachine, Environment

\* Inv holds in every reachable state.
LEMMA InvHolds == Spec => []Inv
<1>1. Inv /\ [Next]_vars => Inv'
  BY StartKeepsInv, LaunchKeepsInv, OtherStepsKeepInv, Zenon
<1> QED
  BY <1>1, InitInv, PTL DEF Spec

\* Whatever crashes, is retried, withdrawn or applied again, and however many requests
\* there are, restorePhysical or restoreSnapshot is called at most once for each.
THEOREM RestoresAreLaunchedOnce == Spec => []LaunchedOncePerRequest
  BY InvHolds, PTL DEF Inv

-----------------------------------------------------------------------------
(* CompleteMeansRestored.  While nothing has interfered, the section of    *)
(* the accepted request stays in the spec until the outcome is reported,   *)
(* at most the operation of that request runs, and what the volumes hold   *)
(* follows from the state of the restore.                                  *)

PartsOK ==
    /\ type \in Types \union {NoType}
    /\ op \in [Requests \union {PatchOp} -> LRO!OpStates]
    /\ contents \in Empty .. MaxRequests
    /\ restore # NoRequest => type \in Types
    /\ \A n \in Requests : n > lastTime => op[n] = "absent"
    /\ pc \in {"locked", "launch", "reportSucceeded", "reportFailed"} =>
          (pc \in {"reportSucceeded", "reportFailed"} <=> restore = NoRequest) \/ ~undisturbed
    /\ pc = "locked" => reason \in Stable

Reporting == pc \in {"reportSucceeded", "reportFailed"}

Succeeding == pc \in {"succeed", "clearSucceeded", "reportSucceeded"}

Restored == {"PostRestoreBootstrapComplete", "PostRestoreDatabasePatchingInProgress",
             "RestoreComplete"}

SectionStays ==
    reason \in InProgress => lastTime # NoRequest /\ (Reporting \/ restore = lastTime)

OnlyItsOperation ==
    \A n \in Requests : op[n] = "running" =>
        /\ n = lastTime /\ contents = Damaged /\ sts # "none"
        /\ \/ reason = "RestoreInProgress" /\ (Reporting \/ type = "Physical")
           \/ reason = "RestoreFailed"

\* A snapshot restore after its preparation: new volumes, or none yet.
SnapshotContents ==
    reason \in {"RestorePreparationComplete", "RestoreInProgress", "PostRestoreBootstrapInProgress"}
    /\ type \in SnapshotTypes =>
        /\ contents \in {lastTime, Empty, Gone}
        /\ (contents = Gone) <=> (sts = "none")
        /\ sts = "open" => contents = lastTime

\* A physical restore whose operation has succeeded.
PhysicalContents ==
    type = "Physical" =>
        /\ reason \in InProgress /\ op[lastTime] = "ok" => contents = lastTime
        /\ reason = "PostRestoreBootstrapInProgress" => contents = lastTime
        /\ BeforeLaunch => op[lastTime] = "absent"

Undisturbed ==
    /\ SectionStays /\ OnlyItsOperation /\ SnapshotContents /\ PhysicalContents
    /\ reason \in Restored \/ Succeeding => contents = lastTime
    /\ Succeeding => reason \in Restored \ {"RestoreComplete"}

RestoreInv == Inv /\ PartsOK /\ (undisturbed => Undisturbed)

\* The initial states satisfy RestoreInv.
LEMMA InitRestoreInv == Init => RestoreInv
  BY InitInv, MaxRequestsAssumption
     DEF Init, RestoreInv, PartsOK, Undisturbed, SectionStays, OnlyItsOperation,
     SnapshotContents,
         PhysicalContents, Reporting, Succeeding, Restored, InProgress, Stable,
         SnapshotTypes, Types,
         NoType, Requests, NoRequest, PatchOp, Original, Empty, Gone, BeforeLaunch, Preparing,
         LRO!ServiceInit, LRO!OpStates, LRO!Outcomes

\* The actions of the controller keep RestoreInv.
LEMMA ControllerKeepsRestoreInv ==
    ASSUME RestoreInv, Inv', StateMachine \/ MainLoop
    PROVE  RestoreInv'
<1> USE MaxRequestsAssumption
    DEF RestoreInv, Inv, CountsOK, PartsOK, Undisturbed, SectionStays, OnlyItsOperation,
        SnapshotContents, PhysicalContents, Reporting, Succeeding, Restored, InProgress,
        Stable,
        SnapshotTypes, Types, NoType, Requests, NoRequest, PatchOp, Original, Empty, Gone,
        Damaged,
        BeforeLaunch, Preparing, LRO!OpStates, LRO!Outcomes, request, status, world,
        history, Ready,
        Unready, In, Reconciling
<1>1. CASE BackupUnusable
  BY <1>1 DEF BackupUnusable
<1>2. CASE AcquireLock
  BY <1>2, Zenon DEF AcquireLock
<1>3. CASE StartRestore
  BY <1>3 DEF StartRestore
<1>4. CASE RemoveOld
  BY <1>4 DEF RemoveOld, LRO!Forget
<1>5. CASE Prepared
  BY <1>5, Zenon DEF Prepared
<1>6. CASE CommitInProgress
  BY <1>6, Zenon DEF CommitInProgress
<1>7. CASE LaunchSnapshot
  BY <1>7 DEF LaunchSnapshot, NewPVCs, ForgetType
<1>8. CASE RefusePhysical
  BY <1>8, Zenon DEF RefusePhysical, ForgetType
<1>9. CASE LaunchPhysical
  <2>1. CASE LRO!Start(lastTime)
    BY <1>9, <2>1 DEF LaunchPhysical, PhysicalRestore, ForgetType, LRO!Start
  <2>2. CASE UNCHANGED op
    BY <1>9, <2>2 DEF LaunchPhysical, PhysicalRestore, ForgetType
  <2> QED
    BY <1>9, <2>1, <2>2, Zenon DEF LaunchPhysical, PhysicalRestore
<1>10. CASE PollSnapshot
  BY <1>10, Zenon DEF PollSnapshot
<1>11. CASE PollPhysical
  BY <1>11, Zenon DEF PollPhysical
<1>12. CASE BootstrapSnapshot
  BY <1>12, Zenon DEF BootstrapSnapshot
<1>13. CASE BootstrapPhysical
  BY <1>13, Zenon DEF BootstrapPhysical
<1>14. CASE CompleteWithoutPatch
  BY <1>14, Zenon DEF CompleteWithoutPatch
<1>15. CASE StartPatch
  BY <1>15 DEF StartPatch, startDatabasePatching, LRO!Start
<1>16. CASE PollPatch
  BY <1>16, Zenon DEF PollPatch
<1>17. CASE ReleaseLock
  BY <1>17 DEF ReleaseLock
<1>18. CASE ClearRequest
  BY <1>18, Zenon DEF ClearRequest
<1>19. CASE Report
  BY <1>19, Zenon DEF Report
<1>20. CASE RecreateStatefulSet
  BY <1>20 DEF RecreateStatefulSet, InMainLoop
<1>21. CASE ResizingDone
  BY <1>21, Zenon DEF ResizingDone, InMainLoop
<1> QED
  BY <1>1, <1>2, <1>3, <1>4, <1>5, <1>6, <1>7, <1>8, <1>9, <1>10, <1>11, <1>12, <1>13,
     <1>14, <1>15,
     <1>16, <1>17, <1>18, <1>19, <1>20, <1>21, Zenon DEF StateMachine, MainLoop

\* So does everything else.
LEMMA EnvironmentKeepsRestoreInv ==
    ASSUME RestoreInv, Inv', Environment \/ UNCHANGED vars
    PROVE  RestoreInv'
<1> USE MaxRequestsAssumption
    DEF RestoreInv, Inv, CountsOK, PartsOK, Undisturbed, SectionStays, OnlyItsOperation,
        SnapshotContents, PhysicalContents, Reporting, Succeeding, Restored, InProgress,
        Stable,
        SnapshotTypes, Types, NoType, Requests, NoRequest, PatchOp, Original, Empty, Gone,
        Damaged,
        BeforeLaunch, Preparing, LRO!OpStates, LRO!Outcomes, request, status, world, history
<1>1. CASE Abort
  BY <1>1, Zenon DEF Abort, ForgetType
<1>2. CASE UserRequests
  BY <1>2, Zenon DEF UserRequests
<1>3. CASE UserWithdraws
  BY <1>3, Zenon DEF UserWithdraws
<1>4. CASE BackupEnds \/ BackupIsDeleted
  BY <1>4 DEF BackupEnds, BackupIsDeleted
<1>5. CASE RestoreEnds
  BY <1>5 DEF RestoreEnds, LRO!Finish
<1>6. CASE PatchEnds
  BY <1>6 DEF PatchEnds, LRO!Finish
<1>7. CASE OperationExpires
  BY <1>7 DEF OperationExpires, LRO!Expire
<1>8. CASE PodRestarts
  BY <1>8 DEF PodRestarts, LRO!Forget
<1>9. CASE PodStarts
  BY <1>9 DEF PodStarts
<1>10. CASE ParameterUpdate
  BY <1>10 DEF ParameterUpdate
<1>11. CASE UNCHANGED vars
  BY <1>11 DEF vars
<1> QED
  BY <1>1, <1>2, <1>3, <1>4, <1>5, <1>6, <1>7, <1>8, <1>9, <1>10, <1>11, Zenon DEF Environment

\* RestoreInv holds in every reachable state.
LEMMA RestoreInvHolds == Spec => []RestoreInv
<1>1. RestoreInv /\ Inv' /\ [Next]_vars => RestoreInv'
  BY ControllerKeepsRestoreInv, EnvironmentKeepsRestoreInv, Zenon DEF Next
<1> QED
  BY <1>1, InitRestoreInv, InvHolds, PTL DEF Spec

\* RestoreComplete is never reported over volumes that hold something else than what
\* the last accepted request asked for, unless one of the named things interfered.
THEOREM CompleteRestoreIsOfRequest == Spec => []CompleteMeansRestored
<1>1. RestoreInv => CompleteMeansRestored
  BY Zenon DEF RestoreInv, Undisturbed, Restored, CompleteMeansRestored
<1> QED
  BY <1>1, RestoreInvHolds, PTL

\* Every variable of the Restore controller keeps its type.
THEOREM RestoreTypeCorrect == Spec => []TypeOK
<1> DEFINE Names == /\ reason \in Stable \union InProgress \union {"ResizingInProgress"}
                    /\ ready \in {"True", "False"}
                    /\ lock \in {"free", "instancecontroller", "parameterUpdate"}
                    /\ pc \in {"idle", "locked", "launch", "succeed", "fail", "clearSucceeded",
                               "clearFailed", "reportSucceeded", "reportFailed"}
                    /\ backup \in {"inProgress", "ready", "failed", "missing"}
                    /\ sts \in {"none", "starting", "ready", "open"}
                    /\ undisturbed \in BOOLEAN
<1>1. Init => Names
  BY Zenon DEF Init, Stable
<1>2. ASSUME Names, [Next]_vars PROVE Names'
  <2> USE <1>2 DEF Stable, InProgress, Ready, Unready, request, status, world, history
  <2>1. CASE BackupUnusable \/ AcquireLock \/ StartRestore \/ RemoveOld \/ Prepared \/ CommitInProgress
    BY <2>1, Zenon DEF BackupUnusable, AcquireLock, AcquireInstanceMaintenanceLock,
       StartRestore,
       RemoveOld, Prepared, CommitInProgress
  <2>2. CASE LaunchSnapshot \/ RefusePhysical \/ LaunchPhysical
    BY <2>2, Zenon DEF LaunchSnapshot, RefusePhysical, LaunchPhysical, PhysicalRestore,
       CountLaunch
  <2>3. CASE PollSnapshot \/ PollPhysical \/ BootstrapSnapshot \/ BootstrapPhysical
    BY <2>3, Zenon DEF PollSnapshot, PollPhysical, BootstrapSnapshot, BootstrapPhysical
  <2>4. CASE CompleteWithoutPatch \/ StartPatch \/ PollPatch
    BY <2>4, Zenon DEF CompleteWithoutPatch, StartPatch, PollPatch
  <2>5. CASE ReleaseLock \/ ClearRequest \/ Report
    BY <2>5, Zenon DEF ReleaseLock, ReleaseInstanceMaintenanceLock, ClearRequest, Report
  <2>6. CASE MainLoop
    BY <2>6, Zenon DEF MainLoop, RecreateStatefulSet, ResizingDone
  <2>7. CASE Abort \/ UserRequests \/ UserWithdraws
    BY <2>7, Zenon DEF Abort, UserRequests, UserWithdraws
  <2>8. CASE BackupEnds \/ BackupIsDeleted \/ RestoreEnds \/ PatchEnds \/ OperationExpires
    BY <2>8, Zenon DEF BackupEnds, BackupIsDeleted, RestoreEnds, PatchEnds, OperationExpires
  <2>9. CASE PodRestarts \/ PodStarts \/ ParameterUpdate \/ UNCHANGED vars
    BY <2>9, Zenon DEF PodRestarts, PodStarts, ParameterUpdate, vars
  <2> QED
    BY <2>1, <2>2, <2>3, <2>4, <2>5, <2>6, <2>7, <2>8, <2>9, Zenon
       DEF Next, StateMachine, MainLoop, Environment
<1>3. RestoreInv /\ Names => TypeOK
  BY Zenon DEF RestoreInv, Inv, CountsOK, PartsOK, TypeOK, LRO!ServiceTypeOK
<1> QED
  BY <1>1, <1>2, <1>3, RestoreInvHolds, PTL DEF Spec

-----------------------------------------------------------------------------
(* The server of long-running operations.                                  *)

EntriesAgree ==
    \A id \in Ids : jobs[id] # NoJob
                       => jobId[jobs[id]] = id /\ phase[jobs[id]] # "free"

OutcomeIffDone == \A j \in Jobs : IsDone(j) <=> outcome[j] # "none"

StampedJobsAreDone ==
    \A j \in Jobs : deleteAge[j] # Never \/ completeAge[j] # Never => IsDone(j)

CallsAgree ==
    \A id \in Ids :
        /\ call[id].req = "none" <=> call[id].job = NoJob
        /\ call[id].job # NoJob => /\ jobs[id] \in {NoJob, call[id].job}
                                   /\ phase[call[id].job] # "free"
        /\ call[id].req = "delete" => IsDone(call[id].job)

ServerInv ==
    /\ ServerTypeOK
    /\ LiveJobIsTracked
    /\ EntriesAgree
    /\ OutcomeIffDone
    /\ StampedJobsAreDone
    /\ CallsAgree
    /\ ReportedOutcomeStands

\* The initial map is empty and no job has been created: ServerInit establishes ServerInv.
LEMMA ServerInitInv == ServerInit => ServerInv
<1> SUFFICES ASSUME ServerInit PROVE ServerInv
  BY Zenon
<1> USE DEF Never, NoCall, Outcomes, Methods
<1>1. ServerTypeOK
  BY TtlAssumption DEF ServerTypeOK, ServerInit
<1> QED
  BY <1>1, Zenon DEF ServerInv, ServerInit, LiveJobIsTracked, Live, EntriesAgree,
     OutcomeIffDone,
     IsDone, StampedJobsAreDone, CallsAgree, ReportedOutcomeStands

\* Every step of the server, of its jobs, of the cleaner and of the clock, and
\* the end of the process, preserves ServerInv.
LEMMA ServerStepKeepsInv == ServerInv /\ [ServerNext]_serverVars => ServerInv'
<1> SUFFICES ASSUME ServerInv, [ServerNext]_serverVars PROVE ServerInv'
  BY Zenon
<1> USE DEF Never, NoCall, Outcomes, Methods, ServerInv, ServerTypeOK, IsDone, Live, fields,
        ages
<1>1. ASSUME NEW id \in Ids, AddJob(id) PROVE ServerInv'
  <2> PICK j \in Jobs :
          /\ Unreferenced(j)
          /\ jobs' = [jobs EXCEPT ![id] = j]
          /\ jobId' = [jobId EXCEPT ![j] = id]
          /\ phase' = [phase EXCEPT ![j] = "added"]
          /\ task' = [task EXCEPT ![j] = "nil"]
          /\ outcome' = [outcome EXCEPT ![j] = "none"]
          /\ ctx' = [ctx EXCEPT ![j] = "open"]
          /\ deleteAge' = [deleteAge EXCEPT ![j] = Never]
          /\ completeAge' = [completeAge EXCEPT ![j] = Never]
    BY <1>1, Zenon DEF AddJob
  <2>1. /\ call[id] = NoCall /\ jobs[id] = NoJob
        /\ seen' = [seen EXCEPT ![id] = "none"]
        /\ call' = call
    BY <1>1, Zenon DEF AddJob
  <2>2. /\ \A k \in Ids : jobs[k] # j /\ call[k].job # j
        /\ ~ Live(j)
    BY Zenon DEF Unreferenced, Tracked
  <2>3. ServerTypeOK'
    BY <2>1, TtlAssumption
  <2>4. LiveJobIsTracked'
    BY <2>1, <2>2, NoJobAssumption DEF LiveJobIsTracked
  <2>5. EntriesAgree'
    BY <2>1, <2>2, NoJobAssumption DEF EntriesAgree
  <2>6. OutcomeIffDone' /\ StampedJobsAreDone'
    BY <2>1 DEF OutcomeIffDone, StampedJobsAreDone
  <2>7. CallsAgree'
    BY <2>1, <2>2 DEF CallsAgree
  <2>8. ReportedOutcomeStands'
    BY <2>1, <2>2 DEF ReportedOutcomeStands
  <2> QED
    BY <2>3, <2>4, <2>5, <2>6, <2>7, <2>8, Zenon
<1>2. ASSUME NEW id \in Ids, AddExistingJob(id) PROVE ServerInv'
  BY <1>2 DEF AddExistingJob, LiveJobIsTracked, EntriesAgree, OutcomeIffDone,
              StampedJobsAreDone, CallsAgree, ReportedOutcomeStands
<1>3. ASSUME NEW id \in Ids, NEW req \in Methods, Lookup(id, req) PROVE ServerInv'
  BY <1>3, NoJobAssumption
     DEF Lookup, LiveJobIsTracked, EntriesAgree, OutcomeIffDone,
         StampedJobsAreDone, CallsAgree, ReportedOutcomeStands
<1>4. ASSUME NEW id \in Ids, GetOperation(id) \/ WaitOperation(id) PROVE ServerInv'
  <2>1. GetOperationData(id) /\ call[id].job \in Jobs
    BY <1>4, Zenon DEF GetOperation, WaitOperation, CallsAgree
  <2> QED
    BY <2>1, NoJobAssumption
       DEF GetOperationData, Status, LiveJobIsTracked, EntriesAgree, OutcomeIffDone,
         StampedJobsAreDone, CallsAgree, ReportedOutcomeStands
<1>5. ASSUME NEW id \in Ids, WaitTimesOut(id) PROVE ServerInv'
  BY <1>5 DEF WaitTimesOut, LiveJobIsTracked, EntriesAgree, OutcomeIffDone,
              StampedJobsAreDone, CallsAgree, ReportedOutcomeStands
<1>6. ASSUME NEW id \in Ids, DeleteOperation(id) PROVE ServerInv'
  <2>1. call[id].job \in Jobs /\ IsDone(call[id].job)
    BY <1>6, Zenon DEF DeleteOperation, CallsAgree
  <2> QED
    BY <1>6, <2>1, TtlAssumption
       DEF DeleteOperation, LiveJobIsTracked, EntriesAgree, OutcomeIffDone,
           StampedJobsAreDone, CallsAgree, ReportedOutcomeStands
<1>7. ASSUME NEW id \in Ids, CancelOperation(id) PROVE ServerInv'
  BY <1>7 DEF CancelOperation, LiveJobIsTracked, EntriesAgree, OutcomeIffDone,
              StampedJobsAreDone, CallsAgree, ReportedOutcomeStands
<1>8. ASSUME NEW j \in Jobs, Go(j) PROVE ServerInv'
  BY <1>8 DEF Go, LiveJobIsTracked, EntriesAgree, OutcomeIffDone,
              StampedJobsAreDone, CallsAgree, ReportedOutcomeStands
<1>9. ASSUME NEW j \in Jobs, SetTask(j) \/ TimeOut(j) PROVE ServerInv'
  <2>1. /\ UNCHANGED <<jobs, jobId, phase, outcome, ages, call, seen>>
        /\ task' \in [Jobs -> {"nil", "set"}]
        /\ ctx' \in [Jobs -> {"open", "cancelled", "expired"}]
    BY <1>9, Zenon DEF SetTask, TimeOut
  <2> QED
    BY <2>1 DEF LiveJobIsTracked, EntriesAgree, OutcomeIffDone,
                StampedJobsAreDone, CallsAgree, ReportedOutcomeStands
<1>10. ASSUME NEW j \in Jobs, NEW res \in Outcomes, JobEnds(j, res)
       PROVE  ServerInv'
  BY <1>10 DEF JobEnds, LiveJobIsTracked, EntriesAgree, OutcomeIffDone,
               StampedJobsAreDone, CallsAgree, ReportedOutcomeStands
<1>11. ASSUME DeleteExpiredJobs PROVE ServerInv'
  <2>1. \A j \in Jobs : AgeAfterCheck(j) \in Never .. TtlAfterComplete + 1
    BY TtlAssumption DEF AgeAfterCheck
  <2>2. ServerTypeOK'
    BY <1>11, <2>1, Zenon DEF DeleteExpiredJobs
  <2>3. \A j \in Jobs : Live(j) => ~ Expired(j)
    BY TtlAssumption
       DEF Expired, isDeletedJobExpired, AgeAfterCheck, StampedJobsAreDone
  <2>4. \A id \in Ids : jobs'[id] \in {NoJob, jobs[id]}
    BY <1>11, Zenon DEF DeleteExpiredJobs
  <2>5. LiveJobIsTracked'
    BY <1>11, <2>3, NoJobAssumption DEF DeleteExpiredJobs, LiveJobIsTracked
  <2>6. StampedJobsAreDone'
    BY <1>11, Zenon DEF DeleteExpiredJobs, StampedJobsAreDone, AgeAfterCheck
  <2>7. EntriesAgree' /\ OutcomeIffDone' /\ CallsAgree' /\ ReportedOutcomeStands'
    BY <1>11, <2>4 DEF DeleteExpiredJobs, EntriesAgree, OutcomeIffDone, CallsAgree,
                       ReportedOutcomeStands
  <2> QED
    BY <2>2, <2>5, <2>6, <2>7, Zenon
<1>12. ASSUME Tick PROVE ServerInv'
  BY <1>12, TtlAssumption
     DEF Tick, Older, LiveJobIsTracked, EntriesAgree, OutcomeIffDone,
         StampedJobsAreDone, CallsAgree, ReportedOutcomeStands
<1>13. ASSUME ProcessEnds PROVE ServerInv'
  BY <1>13, TtlAssumption
     DEF ProcessEnds, LiveJobIsTracked, EntriesAgree, OutcomeIffDone,
         StampedJobsAreDone, CallsAgree, ReportedOutcomeStands
<1>14. CASE UNCHANGED serverVars
  BY <1>14 DEF serverVars, LiveJobIsTracked, EntriesAgree, OutcomeIffDone,
               StampedJobsAreDone, CallsAgree, ReportedOutcomeStands
<1> QED
  BY <1>1, <1>2, <1>3, <1>4, <1>5, <1>6, <1>7, <1>8, <1>9, <1>10, <1>11, <1>12,
     <1>13, <1>14, Zenon
     DEF ServerNext, CreateAndRunLROJobWithID, Cleanup, CleanerPanics, ListOperationsPanics,
         HandlerPanics, ServerRestarts

\* ServerInv holds in every reachable state of the server.
THEOREM ServerInvHolds == ServerSpec => []ServerInv
<1> QED
  BY ServerInitInv, ServerStepKeepsInv, PTL DEF ServerSpec

\* The variables keep their types, for every set of operations and jobs.
THEOREM ServerTypeCorrect == ServerSpec => []ServerTypeOK
<1>1. ServerInv => ServerTypeOK
  BY Zenon DEF ServerInv
<1> QED
  BY <1>1, ServerInvHolds, PTL

\* No two jobs of one operation ID ever run at the same time: retries by the
\* controllers, DeleteOperation and the cleaner cannot start a second backup,
\* restore or data patch beside a running one.
THEOREM AtMostOneRun == ServerSpec => []OneRunPerOperation
<1>1. ServerInv => OneRunPerOperation
  BY Zenon DEF ServerInv, LiveJobIsTracked, OneRunPerOperation
<1> QED
  BY <1>1, ServerInvHolds, PTL

\* A running job stays in the map, so that GetOperation finds it.
THEOREM RunningJobIsFound == ServerSpec => []LiveJobIsTracked
<1>1. ServerInv => LiveJobIsTracked
  BY Zenon DEF ServerInv
<1> QED
  BY <1>1, ServerInvHolds, PTL

\* An outcome reported to a controller is the operation's final outcome.
THEOREM OutcomeIsFinal == ServerSpec => []ReportedOutcomeStands
<1>1. ServerInv => ReportedOutcomeStands
  BY Zenon DEF ServerInv
<1> QED
  BY <1>1, ServerInvHolds, PTL

\* OpState changes at one operation only if it does so pointwise.
LEMMA OpStateUpdate ==
    ASSUME NEW id \in Ids, NEW value,
           \A k \in Ids : OpState'[k] = IF k = id THEN value ELSE OpState[k]
    PROVE  OpState' = [OpState EXCEPT ![id] = value]
<1> DEFINE before == OpState
           after == OpState'
<1>1. /\ before = [k \in Ids |-> before[k]]
      /\ after = [k \in Ids |-> after[k]]
  BY Zenon DEF OpState
<1> HIDE DEF before, after
<1>2. \A k \in Ids : after[k] = IF k = id THEN value ELSE before[k]
  BY Zenon DEF before, after
<1>3. after = [before EXCEPT ![id] = value]
  BY <1>1, <1>2, Zenon
<1> QED
  BY <1>3, Zenon DEF before, after

\* Every step of the server is a step of the service its controllers see, or
\* is invisible to them.
LEMMA StepRefines == ServerInv /\ [ServerNext]_serverVars => [Service!ServiceNext]_OpState
<1> SUFFICES ASSUME ServerInv, [ServerNext]_serverVars
             PROVE  Service!ServiceNext \/ OpState' = OpState
  BY Zenon
<1> USE DEF Never, NoCall, Outcomes, Methods, ServerInv, ServerTypeOK, IsDone, fields, ages
<1>1. ASSUME NEW id \in Ids, AddJob(id) PROVE Service!Start(id)
  <2> PICK j \in Jobs : /\ Unreferenced(j)
                        /\ jobs' = [jobs EXCEPT ![id] = j]
                        /\ phase' = [phase EXCEPT ![j] = "added"]
                        /\ outcome' = [outcome EXCEPT ![j] = "none"]
    BY <1>1, Zenon DEF AddJob
  <2>1. jobs[id] = NoJob /\ \A k \in Ids : jobs[k] # j
    BY <1>1, Zenon DEF AddJob, Unreferenced, Tracked
  <2>2. \A k \in Ids : OpState'[k] = IF k = id THEN "running" ELSE OpState[k]
    BY <2>1, NoJobAssumption DEF OpState
  <2>3. OpState[id] = "absent"
    BY <2>1, Zenon DEF OpState
  <2> QED
    BY <2>2, <2>3, OpStateUpdate, Zenon DEF Service!Start
<1>2. ASSUME NEW j \in Jobs, NEW res \in Outcomes, JobEnds(j, res)
      PROVE  Service!Finish(jobId[j], res)
  <2>1. jobs[jobId[j]] = j
    BY <1>2, Zenon DEF JobEnds, LiveJobIsTracked, Live
  <2>2. \A k \in Ids : jobs[k] = j => k = jobId[j]
    BY NoJobAssumption, Zenon DEF EntriesAgree
  <2>3. \A k \in Ids : OpState'[k] = IF k = jobId[j] THEN res ELSE OpState[k]
    BY <1>2, <2>1, <2>2, NoJobAssumption DEF JobEnds, OpState
  <2>4. OpState[jobId[j]] = "running"
    BY <1>2, <2>1, NoJobAssumption, Zenon DEF OpState, JobEnds
  <2> QED
    BY <2>3, <2>4, OpStateUpdate, Zenon DEF Service!Finish
<1>3. ASSUME DeleteExpiredJobs PROVE Service!ServiceNext
  <2> DEFINE S == {id \in Ids : jobs[id] # NoJob /\ Expired(jobs[id])}
  <2>1. \A id \in S : IsDone(jobs[id])
    BY TtlAssumption
       DEF Expired, isDeletedJobExpired, AgeAfterCheck, StampedJobsAreDone
  <2>2. \A id \in S : OpState[id] \in Outcomes
    BY <2>1 DEF OpState, OutcomeIffDone
  <2>3. OpState' = [id \in Ids |-> IF id \in S THEN "absent" ELSE OpState[id]]
    BY <1>3, Zenon DEF DeleteExpiredJobs, OpState
  <2>4. Service!Expire(S)
    BY <2>2, <2>3, Zenon DEF Service!Expire, Service!Outcomes
  <2> QED
    BY <2>4, Zenon DEF Service!ServiceNext
<1>4. ASSUME ProcessEnds PROVE Service!Forget
  BY <1>4, Zenon DEF ProcessEnds, OpState, Service!Forget
<1>5. CASE UNCHANGED <<jobs, phase, outcome>>
  BY <1>5, Zenon DEF OpState
<1>6. ASSUME NEW j \in Jobs, Go(j) PROVE OpState' = OpState
  BY <1>6 DEF Go, OpState
<1>7. CASE \E id \in Ids :
              \/ AddExistingJob(id) \/ \E req \in Methods : Lookup(id, req)
              \/ GetOperation(id) \/ WaitOperation(id) \/ WaitTimesOut(id)
              \/ DeleteOperation(id) \/ CancelOperation(id)
  BY <1>5, <1>7, Zenon DEF AddExistingJob, Lookup, GetOperation, WaitOperation,
                    GetOperationData, WaitTimesOut, DeleteOperation, CancelOperation
<1>8. CASE UNCHANGED serverVars \/ Tick \/ \E j \in Jobs : SetTask(j) \/ TimeOut(j)
  BY <1>5, <1>8, Zenon DEF serverVars, Tick, SetTask, TimeOut
<1> QED
  BY <1>1, <1>2, <1>3, <1>4, <1>6, <1>7, <1>8
     DEF ServerNext, CreateAndRunLROJobWithID, Cleanup, CleanerPanics, ListOperationsPanics,
         HandlerPanics, ServerRestarts,
         Service!ServiceNext, Service!Outcomes

\* The in-memory server implements LROService: an operation starts at most
\* once while it is known, a running one is never forgotten short of the end
\* of the process, and an outcome never changes.
THEOREM ServerImplementsService == ServerSpec => ImplementsService
<1>1. ServerInit => Service!ServiceInit
  BY DEF ServerInit, Service!ServiceInit, OpState
<1> QED
  BY <1>1, ServerInvHolds, StepRefines, PTL
     DEF ServerSpec, ImplementsService, Service!ServiceSpec
=============================================================================
