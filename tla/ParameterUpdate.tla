--------------------------- MODULE ParameterUpdate ---------------------------
(***************************************************************************)
(* The parameter update state machine of the Instance controller, for one  *)
(* parameter of the database.  A reconcile reads the Instance and works on *)
(* a copy; the state machine is given a copy of that copy, so what it      *)
(* assigns to the status after its own update of it is lost, and what it   *)
(* assigns to a condition, which the copies share, is also in the update   *)
(* that the reconcile itself makes at its end.                             *)
(*                                                                         *)
(* The database reads a static parameter from its server parameter file    *)
(* when it starts; the daemon saves the file after each startup and        *)
(* recovers it from what it has saved.                                     *)
(***************************************************************************)
EXTENDS MaintenanceWindow

CONSTANTS
    Values,         \* values a user may ask for
    Reserved,       \* those that stand for a reserved parameter
    Rejected,       \* those the database refuses
    Fatal,          \* those the database does not start with
    Initial,        \* the value the database was created with
    Windows,        \* what spec.maintenanceWindow may be
    MaxTime,        \* bound on the time
    MaxChanges,     \* of spec.parameters
    MaxFailures     \* of reconciles that are cut short

ASSUME ValuesAssumption ==
    /\ Reserved \union Rejected \union Fatal \subseteq Values
    /\ Initial \in Values \ (Reserved \union Rejected \union Fatal)
    /\ "none" \notin Values
    /\ MaxTime \in Nat /\ MaxChanges \in Nat /\ MaxFailures \in Nat

VARIABLES
    parameterType,  \* static, dynamic, or dynamic and treated as static when set
    spec,           \* spec.parameters; none if there are none
    changes,        \* how often the user has changed it
    window,         \* spec.maintenanceWindow
    now,            \* the time
    reason,         \* the reason of the Ready condition
    active,         \* status.currentActiveStateMachine is this one
    current,        \* status.currentParameters
    lastFailed,     \* status.lastFailedParameterUpdate
    failures,       \* how many reconciles were cut short
    stage,          \* where the reconcile is
    seen,           \* spec.parameters as the reconcile has read them
    up,             \* whether the database runs
    live,           \* the value it runs with
    spfile,         \* the value in the server parameter file
    saved,          \* the value in the saved file, pfile.lkws
    before,         \* history: the value when the update began
    calm,           \* history: the spec never changed during an update, no update
                    \* of the status was made in part and, for an overridden
                    \* parameter, no reconcile was cut short
    retried         \* history: a reconcile was cut short since the update began

status == <<reason, active, current, lastFailed>>
database == <<up, live, spfile, saved>>
history == <<before, calm, retried>>
user == <<parameterType, spec, changes, window, now>>
updateVars == <<user, status, failures, stage, seen, database, history>>

Maybe == Values \union {"none"}

Reasons == {"CreateComplete", "ParameterUpdateInProgress", "ParameterUpdateComplete",
            "ParameterUpdateRollbackInProgress"}

\* Steps of a reconcile that end with an update of the status.
Commits == {"toInProgress", "toRollback", "toComplete", "toDone", "toRecovered"}

UpdateTypeOK ==
    /\ parameterType \in {"static", "dynamic", "overridden"}
    /\ spec \in Maybe /\ seen \in Maybe
    /\ changes \in 0..MaxChanges
    /\ window \in Windows /\ now \in 0..MaxTime
    /\ failures \in 0..MaxFailures
    /\ reason \in Reasons
    /\ active \in {"no", "yes"}
    /\ current \in Maybe /\ lastFailed \in Maybe
    /\ stage \in {"idle", "fetch", "set", "shutdown", "startup", "recover",
                  "shutdownAgain", "startupAgain", "setBack"} \union Commits
    /\ up \in {"no", "yes"}
    /\ {live, spfile, saved, before} \subseteq Values
    /\ calm \in {"no", "yes"} /\ retried \in {"no", "yes"}

UpdateInit ==
    /\ parameterType \in {"static", "dynamic", "overridden"}
    /\ spec = "none" /\ seen = "none" /\ changes = 0 /\ failures = 0
    /\ window \in Windows /\ now = 0
    /\ reason = "CreateComplete" /\ active = "no"
    /\ current = "none" /\ lastFailed = "none"
    /\ stage = "idle"
    /\ up = "yes"
    /\ live = Initial /\ spfile = Initial /\ saved = Initial /\ before = Initial
    /\ calm = "yes" /\ retried = "no"

-----------------------------------------------------------------------------
(* Users and time.                                                         *)

ChangeSpec ==
    /\ changes < MaxChanges
    /\ \E v \in Maybe \ {spec} : spec' = v
    /\ changes' = changes + 1
    /\ calm' = IF reason = "CreateComplete" /\ stage = "idle" THEN calm ELSE "no"
    /\ UNCHANGED <<failures, parameterType, window, now, status, stage, seen, database, before, retried>>

TimePasses ==
    /\ now < MaxTime
    /\ now' = now + 1
    /\ UNCHANGED <<failures, parameterType, spec, changes, window, status, stage, seen, database,
                   history>>

-----------------------------------------------------------------------------
(* The beginning of a reconcile.                                           *)

isParameterUpdateStateMachineEntryCondition ==
    active = "yes" \/ (reason = "CreateComplete" /\ spec # "none")

\* Outside the maintenance windows the reconcile returns an error.
sanityCheckTimeRange == HasValidTimeRanges(window) /\ InRange(window, now)

Enters ==
    /\ stage = "idle"
    /\ isParameterUpdateStateMachineEntryCondition
    /\ spec # current
    /\ spec # lastFailed
    /\ sanityCheckTimeRange

FirstStep ==
    CASE reason = "CreateComplete" -> "fetch"
      [] reason = "ParameterUpdateInProgress" -> "set"
      [] reason = "ParameterUpdateComplete" -> "toDone"
      [] reason = "ParameterUpdateRollbackInProgress" -> "recover"

Begin ==
    /\ Enters
    /\ stage' = FirstStep
    /\ seen' = spec
    /\ UNCHANGED <<failures, user, status, database, history>>

-----------------------------------------------------------------------------
(* What a reconcile does to the database.                                  *)

Goto(l) == stage' = l

\* A query is answered by a running database only.
fetchAndParseSingleResultQuery == up = "yes"

\* The type of a parameter as the database sees it, and its value.
GetParameterTypeValue ==
    [type  |-> IF parameterType = "static" THEN "FALSE" ELSE "IMMEDIATE",
     value |-> live]

\* fetchCurrentParameterState: reserved parameters are refused, the types and values
\* of the others are queried, and a maintenance window must still be open.
FetchCurrentParameterState ==
    /\ stage = "fetch"
    /\ \/ /\ seen \notin Reserved /\ fetchAndParseSingleResultQuery
          /\ seen # "none" /\ GetParameterTypeValue.type = "FALSE" => HasValidTimeRanges(window)
          /\ InRange(window, now)
          /\ Goto("toInProgress")
       \/ Goto("toRollback")
    /\ UNCHANGED <<failures, user, status, seen, database, history>>

\* SetParameter, to the file only or also to the running database.
SetParameter(v) ==
    /\ spfile' = v
    /\ live' = IF parameterType = "dynamic" THEN v ELSE live

SetParameters_NoRestart ==
    /\ stage = "set"
    /\ IF seen \in Values \ Rejected /\ fetchAndParseSingleResultQuery
       THEN SetParameter(seen) ELSE UNCHANGED <<live, spfile>>
    /\ \/ Goto("toRollback")
       \/ seen \notin Rejected /\ fetchAndParseSingleResultQuery /\ Goto("toComplete")
    /\ UNCHANGED <<failures, user, status, seen, up, saved, history>>

\* setParameters sets and queries them; either may fail.  What is reserved was
\* looked at only when the update began.
SetParameters ==
    /\ stage = "set"
    /\ IF seen \in Values \ Rejected /\ fetchAndParseSingleResultQuery
       THEN SetParameter(seen) ELSE UNCHANGED <<live, spfile>>
    /\ \/ Goto("toRollback")
       \/ /\ seen \notin Rejected /\ fetchAndParseSingleResultQuery
          /\ Goto(IF seen # "none" /\ parameterType # "dynamic" THEN "shutdown" ELSE "toComplete")
    /\ UNCHANGED <<failures, user, status, seen, up, saved, history>>

StartsUp ==
    /\ spfile \notin Fatal
    /\ up' = "yes"
    /\ live' = spfile

Bounce_ErrorIgnored ==
    \/ /\ stage = "shutdown"
       /\ up' = "no" /\ Goto("startup")
       /\ UNCHANGED <<failures, user, status, seen, live, spfile, saved, history>>
    \/ /\ stage = "startup"
       /\ \/ StartsUp /\ saved' = spfile
          \/ UNCHANGED <<up, live, saved>>
       /\ Goto("toComplete")
       /\ UNCHANGED <<failures, user, status, seen, spfile, history>>

\* BounceDatabase for a static parameter; an error leads to the rollback.
Bounce ==
    \/ /\ stage = "shutdown"
       /\ \/ up' = "no" /\ Goto("startup")
          \/ UNCHANGED up /\ Goto("toRollback")
       /\ UNCHANGED <<failures, user, status, seen, live, spfile, saved, history>>
    \/ /\ stage = "startup"
       /\ \/ StartsUp /\ saved' = spfile /\ Goto("toComplete")
          \/ StartsUp /\ UNCHANGED saved /\ Goto("toRollback")
          \/ UNCHANGED <<up, live, saved>> /\ Goto("toRollback")
       /\ UNCHANGED <<failures, user, status, seen, spfile, history>>

InitiateRecovery_KeepsFile ==
    /\ stage = "recover"
    /\ Goto("shutdownAgain")
    /\ UNCHANGED <<failures, user, status, seen, database, history>>

RecoverConfigFile == spfile' = saved

\* initiateRecovery: the saved file is made the parameter file again, the
\* database is bounced and then the values of status.currentParameters are
\* set.  After an error the reconcile is over (CutShort).
InitiateRecovery ==
    /\ stage = "recover"
    /\ RecoverConfigFile
    /\ Goto("shutdownAgain")
    /\ UNCHANGED <<failures, user, status, seen, up, live, saved, history>>

BounceAgain ==
    \/ /\ stage = "shutdownAgain"
       /\ up' = "no"
       /\ Goto("startupAgain")
       /\ UNCHANGED <<failures, user, status, seen, live, spfile, saved, history>>
    \/ /\ stage = "startupAgain"
       /\ StartsUp
       /\ saved' = spfile
       /\ Goto("setBack")
       /\ UNCHANGED <<failures, user, status, seen, spfile, history>>

SetBack ==
    /\ stage = "setBack"
    /\ IF current = "none" THEN UNCHANGED <<live, spfile>> ELSE SetParameter(current)
    /\ Goto("toRecovered")
    /\ UNCHANGED <<failures, user, status, seen, up, saved, history>>

-----------------------------------------------------------------------------
(* The update of the status.  It is refused if the Instance has changed.   *)

NewReason ==
    CASE stage = "toInProgress" -> "ParameterUpdateInProgress"
      [] stage = "toRollback" -> "ParameterUpdateRollbackInProgress"
      [] stage = "toComplete" -> "ParameterUpdateComplete"
      [] stage \in {"toDone", "toRecovered"} -> "CreateComplete"

\* The values a rollback would set: those of the dynamic parameters.
RollbackState ==
    IF GetParameterTypeValue.type = "FALSE" \/ seen = "none"
    THEN "none" ELSE GetParameterTypeValue.value

CurrentParametersAfter_Requested ==
    CASE stage \in {"toInProgress", "toDone"} -> seen
      [] OTHER -> current

CurrentParametersAfter ==
    CASE stage = "toInProgress" -> RollbackState
      [] stage = "toDone" -> seen
      [] OTHER -> current

EndReconcile == Goto("idle") /\ seen' = "none"

UpdateStatus ==
    /\ stage \in Commits
    /\ seen = spec
    /\ reason' = NewReason
    /\ active' = "yes"
    /\ current' = CurrentParametersAfter
    /\ lastFailed' = IF stage = "toRecovered" THEN seen ELSE lastFailed
    /\ EndReconcile
    /\ IF reason = "CreateComplete"
       THEN before' = live /\ retried' = "no"
       ELSE UNCHANGED <<before, retried>>
    /\ UNCHANGED <<failures, user, database, calm>>

\* The state machine's update fails, but the deferred one of Reconcile, which
\* shares only the conditions, succeeds.
UpdateConditionOnly ==
    /\ stage \in Commits
    /\ seen = spec
    /\ reason' = NewReason
    /\ EndReconcile
    /\ calm' = "no"
    /\ UNCHANGED <<failures, user, active, current, lastFailed, database, before, retried>>

\* An error, a conflict or the end of the operator process.
CutShort ==
    /\ stage # "idle"
    /\ failures < MaxFailures \/ seen # spec
    /\ failures' = IF seen # spec THEN failures ELSE failures + 1
    /\ EndReconcile
    /\ retried' = "yes"
    /\ calm' = IF parameterType = "overridden" THEN "no" ELSE calm
    /\ UNCHANGED <<user, status, database, before>>

Work ==
    \/ FetchCurrentParameterState \/ SetParameters \/ Bounce
    \/ InitiateRecovery \/ BounceAgain \/ SetBack \/ UpdateStatus

UpdateNext ==
    \/ ChangeSpec \/ TimePasses
    \/ Begin \/ Work \/ UpdateConditionOnly \/ CutShort

UpdateSpec == UpdateInit /\ [][UpdateNext]_updateVars

\* Time passes and reconciles are retried.
UpdateFairness ==
    /\ SF_updateVars(Begin)
    /\ WF_updateVars(Work)
    /\ WF_updateVars(TimePasses)

FairUpdateSpec == UpdateSpec /\ UpdateFairness

-----------------------------------------------------------------------------
Settled == reason = "CreateComplete" /\ stage = "idle"

\* An instance that is ready has its database running: an update whose bounce
\* fails is not over before the rollback has started the database with the
\* saved file.
ReadyMeansUp == Settled => up = "yes"

\* status.currentParameters tells the truth: a ready instance runs with the value
\* recorded there, after an update as after a rollback, when nobody interfered:
\* spec.parameters did not change meanwhile and no update of the status was made
\* in part (parameterUpdateStateMachine).
CalmUpdateIsSet == Settled /\ calm = "yes" /\ current # "none" => live = current

\* "El Carro will automatically roll back all parameters": when a rollback is
\* over (initiateRecovery) the database runs with the value it had before the
\* update, unless a part of the update was repeated.
FailedUpdateIsUndone ==
    [][(reason = "ParameterUpdateRollbackInProgress" /\ reason' = "CreateComplete"
          /\ calm' = "yes" /\ retried = "no") => live' = before]_updateVars

\* "Wait for the parameter update operation to complete and for the instance to
\* transition to a ready state": an update ends (parameterUpdateStateMachine) when
\* nobody interferes with it, if it asks for a value and for another one than the
\* database has, and if the maintenance windows do not run out.
UpdatesEnd ==
    reason # "CreateComplete" /\ calm = "yes" /\ spec # before /\ spec # "none" ~>
        \/ reason = "CreateComplete" \/ calm = "no"
        \/ ~InRange(window, now) /\ NextWindow(window, now) = NoFutureWindows
=============================================================================
