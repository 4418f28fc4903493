---------------------------- MODULE CronAnything ----------------------------
(***************************************************************************)
(* The CronAnything controller: one CronAnything object, the child         *)
(* resources it creates, and the delaying work queue that wakes the        *)
(* controller at the next trigger.  Time is counted in units longer than   *)
(* the second the controller adds to now, and longer than its requeue.     *)
(*                                                                         *)
(* A reconcile is: Pick (read the object, clean up, drop old triggers),    *)
(* then Trigger (decide and create), then Record (store the outcome); it   *)
(* may stop between two of them.                                           *)
(***************************************************************************)
EXTENDS Integers, FiniteSets

CONSTANTS
    MaxTime,    \* bound on the clock
    Confs,      \* the policies of the CronAnything to consider
    Changes     \* pairs of periods: how a user may change the schedule

ASSUME MaxTimeAssumption == MaxTime \in Nat \ {0}
ASSUME ChangesAssumption == Changes \subseteq (1 .. MaxTime) \X (1 .. MaxTime)

Times == 1 .. MaxTime

NoLimit == -1

ASSUME ConfsAssumption == \A c \in Confs : {c.keep, c.age} \subseteq Nat \union {NoLimit}

VARIABLES
    clock,
    conf,           \* owned (by a BackupSchedule), policy, limit, keep, age, deadline, pauses
    cron,           \* whether the object exists
    period,         \* spec.schedule: triggers at its multiples
    deadline,       \* spec.triggerDeadlineSeconds
    suspend,        \* spec.suspend
    last,           \* status.lastScheduleTime
    pendingTrigger, \* status.pendingTrigger: a trigger whose child could not be created
    phase,          \* the child created for a trigger time (its name has the time)
    deleting,       \* children with a deletion timestamp
    created,        \* how often a child was created for a trigger (history)
    ready,          \* the key is in the work queue
    waiting,        \* the time at which the delaying queue adds it
    nextTrigger,    \* the controller's own map of queued triggers
    step,           \* where the reconcile is
    at, scheduleTime, nxt, removed  \* its now, trigger, next trigger and deleted children

spec == <<conf, cron, period, deadline, suspend>>
status == <<last, pendingTrigger>>
children == <<phase, deleting, created>>
queue == <<ready, waiting, nextTrigger>>
local == <<step, at, scheduleTime, nxt, removed>>
cronVars == <<clock, spec, status, children, queue, local>>

CronTypeOK ==
    /\ clock \in 0 .. MaxTime
    /\ conf \in Confs
    /\ cron \in {"absent", "present"}
    /\ period \in Times
    /\ deadline \in {NoLimit} \union 0 .. MaxTime
    /\ suspend \in BOOLEAN
    /\ last \in 0 .. MaxTime
    /\ pendingTrigger \subseteq Times /\ Cardinality(pendingTrigger) <= 1
    /\ phase \in [Times -> {"absent", "active", "succeeded", "failed"}]
    /\ deleting \subseteq Times
    /\ created \in [Times -> 0 .. 2]
    /\ ready \in BOOLEAN
    /\ \A q \in {waiting, nextTrigger} : q \subseteq 0 .. 2 * MaxTime /\ Cardinality(q) <= 1
    /\ step \in {"idle", "trigger", "record"}
    /\ at \in 0 .. MaxTime /\ scheduleTime \in 0 .. MaxTime /\ nxt \in 0 .. 2 * MaxTime
    /\ removed \subseteq Times

CronInit ==
    /\ clock = 0
    /\ conf \in Confs
    /\ cron = IF conf.owned THEN "absent" ELSE "present"
    /\ period \in {c[1] : c \in Changes}
    /\ deadline = conf.deadline /\ suspend = FALSE
    /\ last = 0 /\ pendingTrigger = {}
    /\ phase = [t \in Times |-> "absent"] /\ deleting = {}
    /\ created = [t \in Times |-> 0]
    /\ ready = TRUE /\ waiting = {} /\ nextTrigger = {}
    /\ step = "idle" /\ at = 0 /\ scheduleTime = 0 /\ nxt = 0 /\ removed = {}

-----------------------------------------------------------------------------
(* getScheduleTimes.                                                       *)

Fires(t) == t % period = 0

unmetScheduleTimes == {t \in last + 1 .. clock : Fires(t)}

nextScheduleTime == period * (clock \div period + 1)

MaxOf(S) == CHOOSE x \in S : \A y \in S : y <= x

MinOf(S) == CHOOSE x \in S : \A y \in S : x <= y

-----------------------------------------------------------------------------
(* Children.                                                               *)

childResources == {t \in Times : phase[t] # "absent"}

isFinished_PhaseUnset(t) == phase[t] # "absent"

isFinished(t) == phase[t] \in {"succeeded", "failed"}

activeChildResources == {t \in childResources : ~isFinished(t)}

finishedChildren == {t \in childResources : isFinished(t)}

\* Beyond the time limit, counted from when the child was made.
TooOld(t) == conf.age # NoLimit /\ t + conf.age < clock

\* The children that byTimestamp sorts before t.
Younger(t) == {u \in finishedChildren : u > t}

\* cleanupHistory: beyond the time limit, or the count limit of those that are not.
Outdated ==
    {t \in finishedChildren :
        \/ TooOld(t)
        \/ /\ conf.keep # NoLimit
           /\ Cardinality({u \in Younger(t) : ~ TooOld(u)}) >= conf.keep}

\* deleteInactiveResources: any deletion may fail, which is only logged.
Deletable == SUBSET (Outdated \ deleting)

-----------------------------------------------------------------------------
(* The work queue.                                                         *)

\* An update of the object is an event for its controller.
Event == ready' = TRUE

\* AddAfter keeps one entry for the key: the earlier one.
AddAfter(t) == waiting' = IF t > clock THEN {MinOf(waiting \union {t})} ELSE waiting

\* A trigger that is already in the map is taken to be queued.
updateTriggerTimes(t) ==
    IF nextTrigger = {t}
    THEN UNCHANGED <<waiting, nextTrigger>>
    ELSE nextTrigger' = {t} /\ AddAfter(t)

StoreOutcome_Backwards(t) ==
    /\ last' = IF last > t THEN t ELSE last
    /\ pendingTrigger' = {}

\* updateCronAnythingStatus with an outcome for trigger t (that it also adds to the
\* trigger history, which nothing reads, is left out).
StoreOutcome(t) ==
    /\ last' = IF last < t THEN t ELSE last
    /\ pendingTrigger' = {}

Return == step' = "idle" /\ at' = 0 /\ scheduleTime' = 0 /\ nxt' = 0 /\ removed' = {}

WakeUp ==
    /\ \E t \in waiting : t <= clock
    /\ ready' = TRUE /\ waiting' = {}
    /\ UNCHANGED <<clock, spec, status, children, nextTrigger, local>>

-----------------------------------------------------------------------------
(* The reconcile.                                                          *)

\* The latest of the unmet triggers is acted upon, the ones before it are dropped.
Proceed ==
    /\ step' = "trigger" /\ at' = clock /\ nxt' = nextScheduleTime
    /\ scheduleTime' = MaxOf(unmetScheduleTimes)
    /\ UNCHANGED <<waiting, nextTrigger>>

\* cleanupHistory comes first, then spec.suspend, then the triggers.
Pick ==
    /\ step = "idle" /\ ready /\ cron = "present"
    /\ \E D \in Deletable :
          /\ deleting' = deleting \union D
          /\ removed' = IF suspend \/ unmetScheduleTimes = {} THEN {} ELSE D
    /\ UNCHANGED <<clock, spec, phase, created>>
    /\ \/ /\ suspend
          /\ ready' = FALSE
          /\ UNCHANGED <<waiting, nextTrigger, status, step, at, scheduleTime, nxt>>
       \/ /\ ~ suspend /\ unmetScheduleTimes = {}
          /\ ready' = FALSE
          /\ updateTriggerTimes(nextScheduleTime)
          /\ UNCHANGED <<status, step, at, scheduleTime, nxt>>
       \/ /\ ~ suspend /\ Cardinality(unmetScheduleTimes) = 1
          /\ ready' = FALSE /\ Proceed
          /\ UNCHANGED status
       \/ /\ ~ suspend /\ Cardinality(unmetScheduleTimes) > 1
          /\ StoreOutcome(MaxOf(unmetScheduleTimes \ {MaxOf(unmetScheduleTimes)}))
          /\ Event /\ Proceed

DeadlineExceeded == deadline # NoLimit /\ scheduleTime + deadline < at

Forbidden == conf.policy = "Forbid" /\ activeChildResources # {}

LimitReached == conf.limit # NoLimit /\ Cardinality(childResources \ removed) >= conf.limit

\* No child for this trigger.
Skip ==
    /\ step = "trigger"
    /\ \/ DeadlineExceeded
       \/ Forbidden
       \/ LimitReached /\ (conf.policy = "Replace" => activeChildResources = {})
    /\ StoreOutcome(scheduleTime)
    /\ Event /\ updateTriggerTimes(nxt)
    /\ Return
    /\ UNCHANGED <<clock, spec, children>>

\* The active children are deleted, and the controller comes back a second later.
Replace ==
    /\ step = "trigger" /\ ~DeadlineExceeded
    /\ conf.policy = "Replace" /\ activeChildResources # {}
    /\ deleting' = deleting \union activeChildResources
    /\ ready' = TRUE /\ waiting' = {}
    /\ Return
    /\ UNCHANGED <<clock, spec, status, phase, created, nextTrigger>>

MayCreate ==
    /\ step = "trigger" /\ ~DeadlineExceeded /\ ~LimitReached
    /\ conf.policy \in {"Forbid", "Replace"} => activeChildResources = {}

\* getResourceName: the name has the time of the trigger.
NameIsTaken == phase[scheduleTime] # "absent"

Create ==
    /\ MayCreate /\ ~ NameIsTaken
    /\ phase' = [phase EXCEPT ![scheduleTime] = "active"]
    /\ created' = [created EXCEPT ![scheduleTime] = IF @ < 2 THEN @ + 1 ELSE @]
    /\ step' = "record"
    /\ UNCHANGED <<clock, spec, status, deleting, queue, at, scheduleTime, nxt, removed>>

\* Any error of the API server; that the child exists already is one.
CreateFails ==
    /\ MayCreate
    /\ pendingTrigger' = {scheduleTime}
    /\ Event
    /\ Return
    /\ UNCHANGED <<clock, spec, last, children, waiting, nextTrigger>>

Record ==
    /\ step = "record"
    /\ StoreOutcome(scheduleTime)
    /\ Event /\ updateTriggerTimes(nxt)
    /\ Return
    /\ UNCHANGED <<clock, spec, children>>

\* An error: the work queue tries the key again.
CronAbort ==
    /\ step # "idle"
    /\ ready' = TRUE
    /\ Return
    /\ UNCHANGED <<clock, spec, status, children, waiting, nextTrigger>>

-----------------------------------------------------------------------------
(* The rest of the world.                                                  *)

Tick ==
    /\ clock < MaxTime
    /\ clock' = clock + 1
    /\ UNCHANGED <<spec, status, children, queue, local>>

OperatorRestarts ==
    /\ step = "idle"
    /\ ready' = TRUE /\ waiting' = {} /\ nextTrigger' = {}
    /\ UNCHANGED <<clock, spec, status, children, local>>

\* How a child ends matters to BackupSchedule only.
ChildEnds ==
    /\ \E t \in Times, p \in {"succeeded"} \union {q \in {"failed"} : conf.owned} :
          phase[t] = "active" /\ phase' = [phase EXCEPT ![t] = p]
    /\ UNCHANGED <<clock, spec, status, deleting, created, queue, local>>

ChildIsGone ==
    /\ deleting # {}
    /\ phase' = [t \in Times |-> IF t \in deleting THEN "absent" ELSE phase[t]]
    /\ deleting' = {}
    /\ UNCHANGED <<clock, spec, status, created, queue, local>>

\* Of a CronAnything that has no owner.
UserChangesSchedule ==
    /\ ~conf.owned
    /\ \E c \in Changes : c[1] = period /\ c[2] # period /\ period' = c[2]
    /\ Event
    /\ UNCHANGED <<clock, conf, cron, deadline, suspend, status, children, waiting, nextTrigger,
                   local>>

UserSuspends ==
    /\ conf.pauses
    /\ suspend' = ~ suspend
    /\ Event
    /\ UNCHANGED <<clock, conf, cron, period, deadline, status, children, waiting, nextTrigger,
                   local>>

CronNext ==
    \/ WakeUp \/ Pick \/ Skip \/ Replace \/ Create \/ CreateFails \/ Record \/ CronAbort
    \/ Tick \/ OperatorRestarts \/ ChildEnds \/ ChildIsGone \/ UserChangesSchedule
    \/ UserSuspends
=============================================================================
