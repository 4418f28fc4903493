----------------------------- MODULE LROServer -----------------------------
(***************************************************************************)
(* The long-running-operation server of the database daemon                *)
(* (oracle/pkg/database/lib/lro): a map from operation IDs to jobs, a      *)
(* goroutine per job, the gRPC handlers that look a job up, and the        *)
(* cleaner that drops jobs whose time to live has passed.                  *)
(*                                                                         *)
(* A handler takes the map's mutex only to find the job; what it does with *)
(* the job happens later, so every request is two steps.  The map is only  *)
(* in memory: when the daemon dies the jobs die with it.                   *)
(*                                                                         *)
(* Time is relative: the age of a time stamp, counted up to the first      *)
(* value beyond the time to live, is all the code ever compares.           *)
(***************************************************************************)
EXTENDS Integers

CONSTANTS Ids,               \* operation IDs, chosen by the controllers
          Jobs,              \* Job objects of the daemon's heap
          NoJob,             \* the nil pointer
          TtlAfterDelete,    \* in ticks of the clock
          TtlAfterComplete

ASSUME NoJobAssumption == NoJob \notin Jobs
ASSUME TtlAssumption == TtlAfterDelete \in Nat /\ TtlAfterComplete \in Nat

VARIABLES jobs,         \* Server.jobs: [Ids -> Jobs or NoJob]
          \* the fields of each Job object
          jobId,
          phase,        \* "added" to the map, "running" once detach.Go has
                        \* started its goroutine, "closed" once the goroutine
                        \* has closed the Finished channel
          task,         \* Job.task
          outcome,      \* Job.resp and Job.err
          ctx,          \* the context that detach.Go made
          \* the fields of its ttlJob
          deleteAge, completeAge,
          \* the controllers, one for each operation ID
          call,         \* the request it has in the server
          seen          \* the outcome it was last told

fields == <<jobId, phase, task, outcome, ctx>>
ages == <<deleteAge, completeAge>>
serverVars == <<jobs, fields, ages, call, seen>>

Never == -1                       \* the zero time.Time

Outcomes == {"ok", "error"}

Methods == {"get", "wait", "delete", "cancel"}

NoCall == [req |-> "none", job |-> NoJob]

ServerInit ==
    /\ jobs = [id \in Ids |-> NoJob]
    /\ jobId \in [Jobs -> Ids]
    /\ phase = [j \in Jobs |-> "free"]
    /\ task = [j \in Jobs |-> "nil"]
    /\ outcome = [j \in Jobs |-> "none"]
    /\ ctx = [j \in Jobs |-> "open"]
    /\ deleteAge = [j \in Jobs |-> Never]
    /\ completeAge = [j \in Jobs |-> Never]
    /\ call = [id \in Ids |-> NoCall]
    /\ seen = [id \in Ids |-> "none"]

IsDone(j) == phase[j] = "closed"

Tracked(j) == \E id \in Ids : jobs[id] = j

\* No goroutine, handler or map entry refers to the object.
Unreferenced(j) ==
    /\ \/ phase[j] = "free"
       \/ IsDone(j) /\ task[j] = "set"
    /\ ~ Tracked(j)
    /\ \A id \in Ids : call[id].job # j

-----------------------------------------------------------------------------
(* A controller starts its operation: CreateAndRunLROJobWithID.            *)

\* Mutant of AddJob: the map is written without looking for the ID first.
AddJob_Overwrites(id) ==
    /\ call[id] = NoCall
    /\ \E j \in Jobs :
          /\ Unreferenced(j)
          /\ jobs' = [jobs EXCEPT ![id] = j]
          /\ jobId' = [jobId EXCEPT ![j] = id]
          /\ phase' = [phase EXCEPT ![j] = "added"]
          /\ task' = [task EXCEPT ![j] = "nil"]
          /\ outcome' = [outcome EXCEPT ![j] = "none"]
          /\ ctx' = [ctx EXCEPT ![j] = "open"]
          /\ deleteAge' = [deleteAge EXCEPT ![j] = Never]
          /\ completeAge' = [completeAge EXCEPT ![j] = Never]
    /\ seen' = [seen EXCEPT ![id] = "none"]
    /\ UNCHANGED call

\* AddJob under s.mu.  The ID is new: the job is in the map before it runs.
AddJob(id) ==
    /\ call[id] = NoCall
    /\ jobs[id] = NoJob
    /\ \E j \in Jobs :
          /\ Unreferenced(j)
          /\ jobs' = [jobs EXCEPT ![id] = j]
          /\ jobId' = [jobId EXCEPT ![j] = id]
          /\ phase' = [phase EXCEPT ![j] = "added"]
          /\ task' = [task EXCEPT ![j] = "nil"]
          /\ outcome' = [outcome EXCEPT ![j] = "none"]
          /\ ctx' = [ctx EXCEPT ![j] = "open"]
          /\ deleteAge' = [deleteAge EXCEPT ![j] = Never]
          /\ completeAge' = [completeAge EXCEPT ![j] = Never]
    /\ seen' = [seen EXCEPT ![id] = "none"]
    /\ UNCHANGED call

\* AddJob answers AlreadyExists: addAndStartJob swallows the error and the
\* controller is told that its operation has been started.
AddExistingJob(id) ==
    /\ call[id] = NoCall
    /\ jobs[id] # NoJob
    /\ seen' = [seen EXCEPT ![id] = "none"]
    /\ UNCHANGED <<jobs, fields, ages, call>>

\* With the ID of the request, or one that nobody has used.
CreateAndRunLROJobWithID(id) == AddJob(id) \/ AddExistingJob(id)

\* Job.start: detach.Go starts the goroutine ...
Go(j) ==
    /\ phase[j] = "added"
    /\ phase' = [phase EXCEPT ![j] = "running"]
    /\ UNCHANGED <<jobs, jobId, task, outcome, ctx, ages, call, seen>>

\* ... and only then is Job.task assigned; the goroutine may have ended.
SetTask(j) ==
    /\ phase[j] \in {"running", "closed"}
    /\ task[j] = "nil"
    /\ task' = [task EXCEPT ![j] = "set"]
    /\ UNCHANGED <<jobs, jobId, phase, outcome, ctx, ages, call, seen>>

\* Mutant of JobEnds: the panic handler also runs after the channel is closed.
JobEnds_Twice(j, result) ==
    /\ phase[j] \in {"running", "closed"}
    /\ phase' = [phase EXCEPT ![j] = "closed"]
    /\ outcome' = [outcome EXCEPT ![j] = result]
    /\ UNCHANGED <<jobs, jobId, task, ctx, ages, call, seen>>

\* j.call returns, or panics and catchPanic records an error: the outcome is
\* stored and then the Finished channel is closed.
JobEnds(j, result) ==
    /\ phase[j] = "running"
    /\ phase' = [phase EXCEPT ![j] = "closed"]
    /\ outcome' = [outcome EXCEPT ![j] = result]
    /\ UNCHANGED <<jobs, jobId, task, ctx, ages, call, seen>>

\* The time that the caller gave the job (taskTimeout) is over: its context ends.
TimeOut(j) ==
    /\ phase[j] = "running"
    /\ ctx[j] = "open"
    /\ ctx' = [ctx EXCEPT ![j] = "expired"]
    /\ UNCHANGED <<jobs, jobId, phase, task, outcome, ages, call, seen>>

-----------------------------------------------------------------------------
(* The requests on a known operation.                                      *)

\* validateAndGetOperation: the handler finds the job under s.mu.  Every
\* controller deletes an operation only after it was told that it is done.
Lookup(id, req) ==
    /\ call[id] = NoCall
    /\ jobs[id] # NoJob
    /\ req = "delete" => seen[id] # "none"
    /\ call' = [call EXCEPT ![id] = [req |-> req, job |-> jobs[id]]]
    /\ UNCHANGED <<jobs, fields, ages, seen>>

Status_WithoutIsDone(j) == IF outcome[j] = "error" THEN "error" ELSE "ok"

\* A response or an error once the job is done.
Status(j) == IF IsDone(j) THEN outcome[j] ELSE "none"

\* The operation that a handler answers with.
GetOperationData(id) ==
    /\ task[call[id].job] = "set"
    /\ seen' = [seen EXCEPT ![id] = Status(call[id].job)]
    /\ call' = [call EXCEPT ![id] = NoCall]
    /\ UNCHANGED <<jobs, fields, ages>>

GetOperation(id) == call[id].req = "get" /\ GetOperationData(id)

WaitOperation(id) ==
    /\ call[id].req = "wait"
    /\ IsDone(call[id].job)
    /\ GetOperationData(id)

\* WaitOperation gives up with DeadlineExceeded.
WaitTimesOut(id) ==
    /\ call[id].req = "wait"
    /\ task[call[id].job] = "set"
    /\ call' = [call EXCEPT ![id] = NoCall]
    /\ UNCHANGED <<jobs, fields, ages, seen>>

\* DeleteOperation only stamps the job, under the job's own mutex; a repeated
\* request stamps it anew.
DeleteOperation(id) ==
    /\ call[id].req = "delete"
    /\ deleteAge' = [deleteAge EXCEPT ![call[id].job] = 0]
    /\ call' = [call EXCEPT ![id] = NoCall]
    /\ UNCHANGED <<jobs, fields, completeAge, seen>>

\* CancelOperation closes the job's context once; the job keeps running
\* until its call notices.
CancelOperation(id) ==
    /\ call[id].req = "cancel"
    /\ task[call[id].job] = "set"
    /\ ctx' = [ctx EXCEPT ![call[id].job] = "cancelled"]
    /\ call' = [call EXCEPT ![id] = NoCall]
    /\ UNCHANGED <<jobs, jobId, phase, task, outcome, ages, seen>>

-----------------------------------------------------------------------------
(* The cleaner, the clock and the end of the process.                      *)

\* The cleaner notices that a job is done and stamps it.
AgeAfterCheck(j) == IF completeAge[j] = Never /\ IsDone(j)
                    THEN 0 ELSE completeAge[j]

isDeletedJobExpired(j) == deleteAge[j] > TtlAfterDelete

Expired(j) == \/ isDeletedJobExpired(j)
              \/ AgeAfterCheck(j) > TtlAfterComplete

\* IsDone of a job whose task is nil, asked before it has a completion time.
CleanerMeetsNilTask ==
    \E j \in Jobs : Tracked(j) /\ completeAge[j] = Never /\ task[j] = "nil"

\* DeleteExpiredJobs holds s.mu from the first job to the last.  The entry
\* goes first: Job.Delete can refuse, and its refusal is only logged.
DeleteExpiredJobs ==
    /\ ~ CleanerMeetsNilTask
    /\ jobs' = [id \in Ids |-> IF jobs[id] # NoJob /\ Expired(jobs[id])
                               THEN NoJob ELSE jobs[id]]
    /\ completeAge' = [j \in Jobs |-> IF Tracked(j) THEN AgeAfterCheck(j)
                                                    ELSE completeAge[j]]
    /\ UNCHANGED <<fields, deleteAge, call, seen>>

Older(age, ttl) == IF age = Never \/ age > ttl THEN age ELSE age + 1

Tick ==
    /\ deleteAge' = [j \in Jobs |-> Older(deleteAge[j], TtlAfterDelete)]
    /\ completeAge' = [j \in Jobs |-> Older(completeAge[j], TtlAfterComplete)]
    /\ UNCHANGED <<jobs, fields, call, seen>>

\* The process ends: requests fail, jobs die, the map is empty afterwards.
ProcessEnds ==
    /\ jobs' = [id \in Ids |-> NoJob]
    /\ phase' = [j \in Jobs |-> "free"]
    /\ task' = [j \in Jobs |-> "nil"]
    /\ outcome' = [j \in Jobs |-> "none"]
    /\ ctx' = [j \in Jobs |-> "open"]
    /\ deleteAge' = [j \in Jobs |-> Never]
    /\ completeAge' = [j \in Jobs |-> Never]
    /\ call' = [id \in Ids |-> NoCall]
    /\ UNCHANGED <<jobId, seen>>

ServerRestarts == ProcessEnds

\* A handler dereferences Job.task before Job.start has assigned it; nothing
\* recovers a panic of a gRPC handler.
HandlerPanics(id) ==
    /\ call[id].req \in {"get", "wait", "cancel"}
    /\ task[call[id].job] = "nil"
    /\ ProcessEnds

\* ListOperations asks for the status of all jobs of a page, under s.mu.
ListOperationsPanics ==
    /\ \E j \in Jobs : Tracked(j) /\ task[j] = "nil"
    /\ ProcessEnds

\* The same in the cleaner's goroutine.
CleanerPanics ==
    /\ CleanerMeetsNilTask
    /\ ProcessEnds

Cleanup == DeleteExpiredJobs \/ CleanerPanics

ServerNext ==
    \/ \E id \in Ids :
          \/ CreateAndRunLROJobWithID(id)
          \/ \E req \in Methods : Lookup(id, req)
          \/ GetOperation(id) \/ WaitOperation(id) \/ WaitTimesOut(id)
          \/ DeleteOperation(id) \/ CancelOperation(id)
          \/ HandlerPanics(id)
    \/ \E j \in Jobs :
          \/ Go(j) \/ SetTask(j) \/ TimeOut(j)
          \/ \E result \in Outcomes : JobEnds(j, result)
    \/ Cleanup \/ ListOperationsPanics
    \/ Tick
    \/ ServerRestarts

ServerSpec == ServerInit /\ [][ServerNext]_serverVars

-----------------------------------------------------------------------------
(* Properties.                                                             *)

\* The type of the map, of the jobs' fields and of the controllers' calls.
ServerTypeOK ==
    /\ jobs \in [Ids -> Jobs \union {NoJob}]
    /\ jobId \in [Jobs -> Ids]
    /\ phase \in [Jobs -> {"free", "added", "running", "closed"}]
    /\ task \in [Jobs -> {"nil", "set"}]
    /\ outcome \in [Jobs -> Outcomes \union {"none"}]
    /\ ctx \in [Jobs -> {"open", "cancelled", "expired"}]
    /\ deleteAge \in [Jobs -> Never .. TtlAfterDelete + 1]
    /\ completeAge \in [Jobs -> Never .. TtlAfterComplete + 1]
    /\ call \in [Ids -> [req : Methods \union {"none"},
                         job : Jobs \union {NoJob}]]
    /\ seen \in [Ids -> Outcomes \union {"none"}]

Live(j) == phase[j] \in {"added", "running"}

\* Two jobs of one operation ID never run at the same time, whatever is
\* retried, deleted or expired: the controllers use the ID to run a backup,
\* a restore or a data patch once (addAndStartJob, DeleteExpiredJobs).
OneRunPerOperation ==
    \A j, k \in Jobs : Live(j) /\ Live(k) /\ jobId[j] = jobId[k] => j = k

\* A job that has not ended can be polled: the cleaner and DeleteOperation
\* never make the server lose a job that still runs.
LiveJobIsTracked == \A j \in Jobs : Live(j) => jobs[jobId[j]] = j

\* What a controller was told stays true: as long as the operation is known
\* and was not started again, it has ended, with the outcome reported.
ReportedOutcomeStands ==
    \A id \in Ids : seen[id] # "none" /\ jobs[id] # NoJob
                       => /\ IsDone(jobs[id])
                          /\ outcome[jobs[id]] = seen[id]

\* The server as its controllers see it.
OpState == [id \in Ids |->
              IF jobs[id] = NoJob THEN "absent"
              ELSE IF IsDone(jobs[id]) THEN outcome[jobs[id]]
              ELSE "running"]

Service == INSTANCE LROService WITH op <- OpState

\* Seen through GetOperation the server is the service of LROService: an
\* operation starts once, never goes back, and is forgotten only after it
\* ended or with the whole process.
ImplementsService == Service!ServiceSpec

\* server.go says of Status, which every handler calls, that it is "done in
\* one call to be thread safe": no request finds a job half started.
StatusIsThreadSafe ==
    [][~ (CleanerPanics \/ ListOperationsPanics \/ \E id \in Ids : HandlerPanics(id))]_serverVars
=============================================================================
