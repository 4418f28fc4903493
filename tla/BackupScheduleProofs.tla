------------------------ MODULE BackupScheduleProofs ------------------------
(***************************************************************************)
(* Proofs about BackupSchedule, for any clock, policies, retention and     *)
(* changes of the schedule: the newest successful backups stay, children   *)
(* are not concurrent, and a trigger is served once.                       *)
(***************************************************************************)
EXTENDS BackupSchedule, FiniteSetTheorems, TLAPS

Before == {p \in Nat \X Nat : p[1] < p[2]}

\* A nonempty set of numbers has a least element.
LEMMA LeastExists ==
    ASSUME NEW S \in SUBSET Nat, S # {}
    PROVE  \E x \in S : \A y \in S : x <= y
<1>1. IsWellFoundedOn(Before, Nat)
  BY NatLessThanWellFounded, Zenon DEF OpToRel, Before
<1>2. PICK x \in S : \A y \in S : ~ (<<y, x>> \in Before)
  BY <1>1, WFMin, Zenon
<1>3. ASSUME NEW y \in S PROVE x <= y
  <2>1. <<y, x>> \in Nat \X Nat /\ <<y, x>>[1] = y /\ <<y, x>>[2] = x
    OBVIOUS
  <2> QED
    BY <1>2, <2>1 DEF Before
<1> QED
  BY <1>3

\* A nonempty set of times has a last one: MaxOf finds it.
LEMMA MaxOfTimes ==
    ASSUME NEW S \in SUBSET Times, S # {}
    PROVE  MaxOf(S) \in S /\ \A y \in S : y <= MaxOf(S)
<1> DEFINE Bounds == {n \in Nat : \A y \in S : y <= n}
<1>1. S \subseteq Nat /\ \A y \in S : y <= MaxTime /\ y > 0
  BY MaxTimeAssumption DEF Times
<1>2. MaxTime \in Bounds
  BY <1>1, MaxTimeAssumption
<1>3. PICK m \in Bounds : \A n \in Bounds : m <= n
  BY <1>2, LeastExists, Zenon
<1>4. m \in S
  <2> SUFFICES ASSUME m \notin S PROVE FALSE
    OBVIOUS
  <2>1. PICK y \in S : TRUE
    OBVIOUS
  <2>2. m - 1 \in Nat
    BY <1>1, <2>1
  <2>3. ASSUME NEW z \in S PROVE z <= m - 1
    BY <1>1
  <2>4. m - 1 \in Bounds
    BY <2>2, <2>3
  <2> QED
    BY <1>3, <2>4
<1>5. \A y \in S : y <= m
  OBVIOUS
<1> HIDE DEF Bounds
<1> QED
  BY <1>4, <1>5 DEF MaxOf

Phases == {"absent", "active", "succeeded", "failed"}

ScheduleTypes ==
    /\ clock \in 0 .. MaxTime
    /\ conf \in Confs
    /\ period \in Times /\ wanted \in Times
    /\ last \in 0 .. MaxTime
    /\ phase \in [Times -> Phases]
    /\ deleting \subseteq Times
    /\ created \in [Times -> 0 .. 2]
    /\ good \subseteq Times
    /\ step \in {"idle", "trigger", "record"}
    /\ scheduleTime \in 0 .. MaxTime
    /\ step # "idle" => scheduleTime \in Times

\* Two unfinished children are one.
OneActive ==
    conf.policy \in {"Forbid", "Replace"} =>
        \A t, u \in Times : phase[t] = "active" /\ phase[u] = "active" => t = u

NewerGood(t) == {u \in good : u > t}

\* Enough successful backups have followed t.
Superseded(t) == BackupRetention # 0 /\ Cardinality(NewerGood(t)) >= BackupRetention

\* What a BackupSchedule deletes is superseded, and stays so.
RetentionInv ==
    /\ \A t \in Times : phase[t] = "succeeded" => t \in good
    /\ conf.owned =>
         /\ \A t \in deleting : Superseded(t)
         /\ \A t \in good : phase[t] = "succeeded" \/ Superseded(t)

ScheduleInv == ScheduleTypes /\ OneActive /\ RetentionInv

-----------------------------------------------------------------------------
\* Steps that touch neither the children nor the schedule, and end the reconcile or
\* leave it where it is.
Aside ==
    /\ UNCHANGED <<conf, cron, period, phase, deleting, created>>
    /\ clock' \in 0 .. MaxTime /\ clock <= clock'
    /\ last' \in 0 .. MaxTime /\ last <= last'
    /\ scheduleTime' \in 0 .. MaxTime
    /\ step' = "idle" \/ UNCHANGED <<step, scheduleTime, last>>

\* These are such steps.
LEMMA StepsAside ==
    ASSUME ScheduleTypes,
           \/ WakeUp \/ Skip \/ CreateFails \/ Record \/ CronAbort \/ Tick \/ OperatorRestarts
           \/ UserSuspends
    PROVE  Aside
<1> USE MaxTimeAssumption DEF ScheduleTypes, Aside, spec, status, children, local, queue
<1>1. CASE WakeUp
  BY <1>1 DEF WakeUp
<1>2. CASE Skip
  BY <1>2 DEF Skip, StoreOutcome, Return, Times
<1>3. CASE CreateFails
  BY <1>3 DEF CreateFails, Return
<1>4. CASE Record
  BY <1>4 DEF Record, StoreOutcome, Return, Times
<1>5. CASE CronAbort
  BY <1>5 DEF CronAbort, Return
<1>6. CASE Tick
  BY <1>6 DEF Tick
<1>7. CASE OperatorRestarts
  BY <1>7 DEF OperatorRestarts
<1>8. CASE UserSuspends
  BY <1>8 DEF UserSuspends
<1> QED
  BY <1>1, <1>2, <1>3, <1>4, <1>5, <1>6, <1>7, <1>8

\* The trigger that Pick chooses is the last unmet one, and all before it are met then.
Chosen ==
    /\ step' = "trigger" /\ scheduleTime' \in unmetScheduleTimes /\ last' < scheduleTime'
    /\ \A t \in unmetScheduleTimes : t <= scheduleTime' /\ (t < scheduleTime' => t <= last')

\* What Pick does.
LEMMA PickStep ==
    ASSUME ScheduleTypes, Pick
    PROVE  /\ UNCHANGED <<clock, conf, cron, period, phase, created>>
           /\ deleting \subseteq deleting' /\ deleting' \subseteq deleting \union Outdated
           /\ last' \in 0 .. MaxTime /\ last <= last'
           /\ step = "idle"
           /\ UNCHANGED <<step, scheduleTime, last>> \/ Chosen
<1> DEFINE U == unmetScheduleTimes
           m == MaxOf(U)
           d == MaxOf(U \ {m})
<1>1. U \subseteq Times /\ (\A t \in U : last < t) /\ IsFiniteSet(U)
  <2>1. U \subseteq Times /\ \A t \in U : last < t
    BY MaxTimeAssumption DEF ScheduleTypes, unmetScheduleTimes, Times
  <2>2. IsFiniteSet(Times)
    BY FS_Interval, MaxTimeAssumption DEF Times
  <2> QED
    BY <2>1, <2>2, FS_Subset
<1>2. /\ UNCHANGED <<clock, conf, cron, period, phase, created>> /\ step = "idle"
      /\ deleting \subseteq deleting' /\ deleting' \subseteq deleting \union Outdated
  BY DEF Pick, spec, Deletable
<1>3. \/ UNCHANGED <<last, step, scheduleTime>>
      \/ Cardinality(U) = 1 /\ Proceed /\ last' = last
      \/ Cardinality(U) > 1 /\ StoreOutcome(d) /\ Proceed
  <2> HIDE DEF U, d
  <2>1. \/ UNCHANGED <<status, step, scheduleTime>>
        \/ Cardinality(U) = 1 /\ Proceed /\ UNCHANGED status
        \/ Cardinality(U) > 1 /\ StoreOutcome(d) /\ Proceed
    BY Zenon DEF Pick, U, m, d
  <2> QED
    BY <2>1 DEF status
<1>4. ASSUME U # {} PROVE m \in U /\ \A y \in U : y <= m
  BY <1>1, <1>4, MaxOfTimes
<1>5. CASE UNCHANGED <<last, step, scheduleTime>>
  BY <1>2, <1>5 DEF ScheduleTypes
<1>6. CASE Cardinality(U) = 1 /\ Proceed /\ last' = last
  <2>1. PICK x : U = {x}
    BY <1>6, <1>1, FS_Singleton
  <2>2. m = x
    BY <1>4, <2>1
  <2>3. Chosen
    BY <1>6, <2>1, <2>2, <1>1, MaxTimeAssumption DEF Chosen, Proceed, Times
  <2> QED
    BY <1>2, <1>6, <2>3 DEF ScheduleTypes
<1>7. CASE Cardinality(U) > 1 /\ StoreOutcome(d) /\ Proceed
  <2>1. U # {}
    BY <1>7, FS_EmptySet
  <2>2. m \in U /\ \A y \in U : y <= m
    BY <2>1, <1>4
  <2>3. U \ {m} # {}
    <3> HIDE DEF U, m
    <3>1. Cardinality({m}) = 1
      BY FS_Singleton, Zenon
    <3> QED
      BY <3>1, <1>7, <2>2
  <2>4. d \in U \ {m} /\ \A y \in U \ {m} : y <= d
    BY <2>3, <1>1, MaxOfTimes
  <2>5. last' = d /\ scheduleTime' = m /\ step' = "trigger"
    <3>1. d \in Nat /\ last \in Nat /\ last < d
      <4> HIDE DEF U, m, d
      <4> QED
        BY <1>1, <2>4, MaxTimeAssumption DEF ScheduleTypes, Times
    <3>2. scheduleTime' = m /\ step' = "trigger"
      BY <1>7, Zenon DEF Proceed
    <3> HIDE DEF U, m, d
    <3> QED
      BY <1>7, <3>1, <3>2 DEF StoreOutcome
  <2>6. d < m /\ last < d /\ d \in Times /\ m \in Times
    <3> HIDE DEF U, m, d
    <3> QED
      BY <2>2, <2>4, <1>1, MaxTimeAssumption DEF Times, ScheduleTypes
  <2>7. Chosen
    <3> HIDE DEF U, m, d
    <3>1. \A t \in U : t <= m /\ (t < m => t <= d)
      BY <2>2, <2>4, <2>6, <1>1, MaxTimeAssumption DEF Times
    <3> QED
      BY <2>2, <2>5, <2>6, <3>1 DEF Chosen, U
  <2> QED
    BY <1>2, <2>5, <2>6, <2>7, MaxTimeAssumption DEF ScheduleTypes, Times
<1> QED
  BY <1>3, <1>5, <1>6, <1>7

-----------------------------------------------------------------------------
\* What has been superseded stays so: no successful backup is forgotten.
LEMMA SupersededStays ==
    ASSUME good' \subseteq Times, good \subseteq good', NEW t, Superseded(t)
    PROVE  Superseded(t)'
<1>1. IsFiniteSet(Times)
  BY FS_Interval, MaxTimeAssumption DEF Times
<1>2. IsFiniteSet(NewerGood(t)')
  BY <1>1, FS_Subset DEF NewerGood
<1>3. NewerGood(t) \subseteq NewerGood(t)'
  BY DEF NewerGood
<1>4. /\ Cardinality(NewerGood(t)) \in Nat /\ Cardinality(NewerGood(t)') \in Nat
      /\ Cardinality(NewerGood(t)) <= Cardinality(NewerGood(t)')
  BY <1>2, <1>3, FS_Subset, FS_CardinalityType
<1> QED
  BY <1>4, RetentionAssumption DEF Superseded

\* What pruneBackups deletes is superseded.
LEMMA SurplusIsSuperseded ==
    ASSUME ScheduleTypes, RetentionInv, NEW t \in Surplus
    PROVE  t \in Times /\ Superseded(t)
<1> DEFINE S == {u \in Newer(t) : phase[u] = "succeeded"}
<1>1. t \in Times /\ BackupRetention # 0 /\ Cardinality(S) >= BackupRetention
  BY DEF Surplus, backups, childResources
<1>2. S \subseteq NewerGood(t)
  BY DEF Newer, backups, childResources, NewerGood, RetentionInv
<1>3. IsFiniteSet(NewerGood(t))
  <2>1. IsFiniteSet(Times)
    BY FS_Interval, MaxTimeAssumption DEF Times
  <2> QED
    BY <2>1, FS_Subset DEF NewerGood, ScheduleTypes
<1>4. /\ Cardinality(S) \in Nat /\ Cardinality(NewerGood(t)) \in Nat
      /\ Cardinality(S) <= Cardinality(NewerGood(t))
  BY <1>2, <1>3, FS_Subset, FS_CardinalityType
<1> HIDE DEF S
<1> QED
  BY <1>1, <1>4, RetentionAssumption DEF Superseded

\* What the steps of the two controllers and of the environment may do to the children.
ChildrenStep ==
    /\ \A t \in deleting' \ deleting :
         \/ t \in Outdated \/ t \in Surplus
         \/ conf.policy = "Replace" /\ t \in activeChildResources
    /\ \/ UNCHANGED <<phase, created>> /\ deleting \subseteq deleting'
       \/ Create
       \/ ChildEnds
       \/ ChildIsGone

\* The variables that the invariants are about change in these ways only.
LEMMA AllSteps ==
    ASSUME ScheduleTypes, [ScheduleNext]_scheduleVars
    PROVE  /\ ScheduleTypes'
           /\ UNCHANGED conf
           /\ good' = good \union {t \in Times : phase[t] = "active" /\ phase'[t] = "succeeded"}
           /\ ChildrenStep
<1> DEFINE Succeeds == {t \in Times : phase[t] = "active" /\ phase'[t] = "succeeded"}
           Goal == /\ ScheduleTypes' /\ UNCHANGED conf /\ ChildrenStep
<1> USE MaxTimeAssumption DEF ScheduleTypes
<1>1. ASSUME CronStep PROVE Goal /\ good' = good \union Succeeds
  <2> SUFFICES Goal
    BY <1>1 DEF CronStep
  <2>0. wanted' = wanted /\ (good' \subseteq Times)
    BY <1>1 DEF CronStep
  <2>1. CASE Aside
    BY <2>0, <2>1 DEF Aside, ChildrenStep
  <2>2. CASE Pick
    <3>1. Chosen => scheduleTime' \in Times /\ step' = "trigger"
      BY DEF Chosen, unmetScheduleTimes, Times
    <3>2. Outdated \subseteq Times
      BY DEF Outdated, finishedChildren, childResources
    <3>3. /\ UNCHANGED <<clock, conf, period, phase, created>>
          /\ deleting \subseteq deleting' /\ deleting' \subseteq deleting \union Outdated
          /\ last' \in 0 .. MaxTime
          /\ UNCHANGED <<step, scheduleTime>> \/ Chosen
      BY <2>2, PickStep
    <3>4. ChildrenStep
      BY <3>3 DEF ChildrenStep
    <3>5. /\ scheduleTime' \in 0 .. MaxTime /\ step' \in {"idle", "trigger", "record"}
          /\ step' # "idle" => scheduleTime' \in Times
      BY <3>1, <3>3 DEF Times
    <3> QED
      BY <2>0, <3>2, <3>3, <3>4, <3>5
  <2>3. CASE Replace
    BY <2>0, <2>3 DEF Replace, ChildrenStep, spec, status, Return, activeChildResources, childResources
  <2>4. CASE Create
    BY <2>0, <2>4 DEF Create, MayCreate, ChildrenStep, spec, status, Phases
  <2>5. CASE ChildEnds
    BY <2>0, <2>5, Zenon DEF ChildEnds, ChildrenStep, spec, status, local, Phases
  <2>6. CASE ChildIsGone
    BY <2>0, <2>6 DEF ChildIsGone, ChildrenStep, spec, status, local, Phases
  <2>7. CASE UserChangesSchedule
    BY <2>0, <2>7, ChangesAssumption DEF UserChangesSchedule, ChildrenStep, status, local, children, Times
  <2> QED
    BY <1>1, <2>1, <2>2, <2>3, <2>4, <2>5, <2>6, <2>7, StepsAside DEF CronStep, CronNext
<1>2. ASSUME createCron \/ UserChangesBackupSchedule \/ UNCHANGED scheduleVars
      PROVE  Goal /\ UNCHANGED <<good, phase>>
  <2>1. CASE createCron
    BY <2>1 DEF createCron, ChildrenStep, status, children, local
  <2>2. CASE UserChangesBackupSchedule
    BY <2>2, ChangesAssumption DEF UserChangesBackupSchedule, ChildrenStep, cronVars, spec, status, children, local, Times
  <2>3. CASE UNCHANGED scheduleVars
    BY <2>3 DEF scheduleVars, schedule, ChildrenStep, cronVars, spec, status, children, local
  <2> QED
    BY <1>2, <2>1, <2>2, <2>3
<1>3. ASSUME ReconcileSchedule PROVE Goal /\ UNCHANGED <<good, phase>>
  <2>1. Surplus \subseteq Times
    BY DEF Surplus, backups, childResources
  <2>2. deleting \subseteq deleting' /\ deleting' \subseteq deleting \union Surplus
    BY <1>3 DEF ReconcileSchedule, pruneBackups
  <2>3. period' \in Times
    BY <1>3 DEF ReconcileSchedule, updateCron
  <2> QED
    BY <1>3, <2>1, <2>2, <2>3 DEF ReconcileSchedule, ChildrenStep, status, local
<1>4. CASE CronStep
  BY <1>1, <1>4
<1>5. CASE UNCHANGED <<good, phase>> /\ Goal
  BY <1>5
<1> QED
  BY <1>2, <1>3, <1>4, <1>5 DEF ScheduleNext

-----------------------------------------------------------------------------
\* A step keeps at most one child unfinished: only Create starts one.
LEMMA OneActiveKept ==
    ASSUME ScheduleTypes, OneActive, UNCHANGED conf, ChildrenStep
    PROVE  OneActive'
<1> USE DEF OneActive, ScheduleTypes
<1>1. CASE UNCHANGED phase
  BY <1>1
<1>2. CASE Create
  <2>1. phase' = [phase EXCEPT ![scheduleTime] = "active"]
    BY <1>2 DEF Create
  <2>2. conf.policy \in {"Forbid", "Replace"} => \A t \in Times : phase[t] # "active"
    BY <1>2 DEF Create, MayCreate, activeChildResources, childResources, isFinished
  <2> QED
    BY <2>1, <2>2
<1>3. CASE ChildEnds
  <2>1. PICK t \in Times, p \in {"succeeded", "failed"} : phase' = [phase EXCEPT ![t] = p]
    BY <1>3, Zenon DEF ChildEnds
  <2> QED
    BY <2>1
<1>4. CASE ChildIsGone
  BY <1>4 DEF ChildIsGone
<1> QED
  BY <1>1, <1>2, <1>3, <1>4 DEF ChildrenStep

\* A step deletes only what is superseded, and what is gone was superseded.
LEMMA RetentionKept ==
    ASSUME ScheduleTypes, ScheduleTypes', RetentionInv, UNCHANGED conf, ChildrenStep,
           good' = good \union {t \in Times : phase[t] = "active" /\ phase'[t] = "succeeded"}
    PROVE  RetentionInv'
<1> USE DEF ScheduleTypes
<1>1. ASSUME NEW t \in Times, Superseded(t) PROVE Superseded(t)'
  BY <1>1, SupersededStays
<1>2. ASSUME NEW t \in Times, phase'[t] = "succeeded" PROVE phase[t] \in {"succeeded", "active"}
  <2>1. CASE UNCHANGED phase
    BY <1>2, <2>1
  <2>2. CASE Create
    BY <1>2, <2>2 DEF Create
  <2>3. CASE ChildEnds
    BY <1>2, <2>3 DEF ChildEnds
  <2>4. CASE ChildIsGone
    BY <1>2, <2>4 DEF ChildIsGone
  <2> QED
    BY <2>1, <2>2, <2>3, <2>4 DEF ChildrenStep
<1>3. \A t \in Times : phase'[t] = "succeeded" => t \in good'
  BY <1>2 DEF RetentionInv
<1>4. ASSUME conf.owned, NEW t \in deleting' PROVE Superseded(t)'
  <2>1. Outdated = {} /\ conf.policy # "Replace"
    BY <1>4, OwnedAssumption DEF Outdated, TooOld
  <2>2. t \in deleting \/ t \in Surplus
    BY <1>4, <2>1 DEF ChildrenStep
  <2> QED
    BY <1>1, <1>4, <2>2, SurplusIsSuperseded DEF RetentionInv
<1>5. ASSUME conf.owned, NEW t \in good' PROVE phase'[t] = "succeeded" \/ Superseded(t)'
  <2>1. CASE t \notin good
    BY <1>5, <2>1
  <2>2. CASE t \in good /\ Superseded(t)
    BY <1>1, <2>2
  <2>3. CASE t \in good /\ phase[t] = "succeeded"
    <3>1. CASE UNCHANGED phase
      BY <2>3, <3>1
    <3>2. CASE Create
      BY <2>3, <3>2 DEF Create, NameIsTaken
    <3>3. CASE ChildEnds
      BY <2>3, <3>3 DEF ChildEnds
    <3>4. CASE ChildIsGone
      <4>1. phase'[t] = IF t \in deleting THEN "absent" ELSE phase[t]
        BY <2>3, <3>4 DEF ChildIsGone
      <4>2. t \in deleting => Superseded(t)
        BY <1>5 DEF RetentionInv
      <4> QED
        BY <2>3, <4>1, <4>2, <1>1
    <3> QED
      BY <3>1, <3>2, <3>3, <3>4 DEF ChildrenStep
  <2> QED
    BY <1>5, <2>1, <2>2, <2>3 DEF RetentionInv
<1> QED
  BY <1>3, <1>4, <1>5 DEF RetentionInv

\* The initial states satisfy ScheduleInv.
LEMMA ScheduleInvInit == ScheduleInit => ScheduleInv
<1> SUFFICES ASSUME ScheduleInit PROVE ScheduleInv
  OBVIOUS
<1>1. period \in Times /\ wanted = period
  BY ChangesAssumption DEF ScheduleInit, CronInit, Times
<1>2. /\ clock = 0 /\ conf \in Confs /\ last = 0 /\ deleting = {} /\ good = {}
      /\ phase = [t \in Times |-> "absent"] /\ created = [t \in Times |-> 0]
      /\ step = "idle" /\ scheduleTime = 0
  BY DEF ScheduleInit, CronInit
<1>3. ScheduleTypes
  BY <1>1, <1>2, MaxTimeAssumption DEF ScheduleTypes, Phases
<1> QED
  BY <1>2, <1>3 DEF ScheduleInv, OneActive, RetentionInv

\* ScheduleInv holds always.
LEMMA ScheduleInvariant == ScheduleSpec => []ScheduleInv
<1>1. ScheduleInv /\ [ScheduleNext]_scheduleVars => ScheduleInv'
  BY AllSteps, OneActiveKept, RetentionKept DEF ScheduleInv
<1> QED
  BY <1>1, ScheduleInvInit, PTL DEF ScheduleSpec

\* The newest BackupRetention successful backups of a BackupSchedule are never deleted.
THEOREM NewestBackupsAreKept == ScheduleSpec => []RetentionKeepsNewest
<1>1. ScheduleInv => RetentionKeepsNewest
  <2> SUFFICES ASSUME ScheduleInv, conf.owned, NEW t \in good,
                      Cardinality(NewerGood(t)) < BackupRetention
               PROVE  phase[t] = "succeeded" /\ t \notin deleting
    BY DEF RetentionKeepsNewest, NewerGood
  <2>1. IsFiniteSet(NewerGood(t))
    <3>1. IsFiniteSet(Times)
      BY FS_Interval, MaxTimeAssumption DEF Times
    <3> QED
      BY <3>1, FS_Subset DEF NewerGood, ScheduleInv, ScheduleTypes
  <2>2. Cardinality(NewerGood(t)) \in Nat
    BY <2>1, FS_CardinalityType
  <2>3. ~ Superseded(t)
    BY <2>2, RetentionAssumption DEF Superseded
  <2> QED
    BY <2>3 DEF ScheduleInv, RetentionInv
<1> QED
  BY <1>1, ScheduleInvariant, PTL

\* With the policies Forbid and Replace there is never more than one unfinished child,
\* whatever the history limits and the changes of the schedule.
AtMostOneActive ==
    conf.policy \in {"Forbid", "Replace"} => Cardinality({t \in Times : phase[t] = "active"}) <= 1

\* It is at most one, by OneActive.
LEMMA ActiveIsOne == ScheduleInv => AtMostOneActive
<1> SUFFICES ASSUME ScheduleInv, conf.policy \in {"Forbid", "Replace"}
             PROVE  Cardinality({t \in Times : phase[t] = "active"}) <= 1
  BY DEF AtMostOneActive
<1> DEFINE A == {t \in Times : phase[t] = "active"}
<1>1. CASE A = {}
  BY <1>1, FS_EmptySet
<1>2. CASE A # {}
  <2>1. PICK t : t \in A
    BY <1>2
  <2>2. A = {t}
    BY <2>1 DEF ScheduleInv, OneActive
  <2>3. Cardinality({t}) = 1
    BY FS_Singleton, Zenon
  <2> QED
    BY <2>2, <2>3
<1> QED
  BY <1>1, <1>2

\* Forbid and Replace never have two unfinished children, for every history limit and
\* every change of the schedule.
THEOREM NoConcurrentChildren == ScheduleSpec => []AtMostOneActive
  BY ScheduleInvariant, ActiveIsOne, PTL

-----------------------------------------------------------------------------
\* The last finished child of a CronAnything that forbids concurrency is kept.
ForbidKeepsLast == \A c \in Confs : c.policy = "Forbid" => c.keep # 0 /\ c.age = NoLimit

\* A new schedule has every trigger of the old one.
ChangesKeepTriggers == \A c \in Changes, t \in Times : t % c[1] = 0 => t % c[2] = 0

\* The triggers for which a child was created.
Served == {t \in Times : created[t] > 0}

Vacant(t) == phase[t] = "absent" \/ t \in deleting

\* The CronAnything of a BackupSchedule gets only schedules that keep its triggers, and
\* no trigger before it is there.
ScheduleKept ==
    /\ ~ conf.owned => ~ pending
    /\ conf.owned => \A t \in Times : Fires(t) => t % wanted = 0
    /\ cron # "present" => step = "idle" /\ Served = {}

\* A child that is deleted, or followed by another, is of a trigger that is recorded.
TriggerInv ==
    /\ \A t \in Times : phase[t] # "absent" \/ t \in deleting => t \in Served
    /\ \A t \in Served : created[t] = 1 /\ t <= clock /\ Fires(t)
    /\ \A t \in Served : Vacant(t) => t <= last
    /\ \A t, u \in Served : t < u => t <= last
    /\ step # "idle" => Fires(scheduleTime) /\ scheduleTime <= clock
    /\ step = "trigger" =>
         /\ last < scheduleTime
         /\ \A t \in Served : t <= scheduleTime /\ (t < scheduleTime => t <= last)

\* ScheduleKept is kept.
LEMMA ScheduleKeptStep ==
    ASSUME ChangesKeepTriggers, ScheduleTypes, ScheduleKept, [ScheduleNext]_scheduleVars
    PROVE  ScheduleKept'
<1> USE DEF ScheduleTypes, ScheduleKept, Served, Fires
<1>1. CASE CronStep
  <2>0. /\ wanted' = wanted /\ pending' = (pending \/ (conf.owned /\ status' # status)) /\ CronNext
    BY <1>1 DEF CronStep
  <2>1. CASE Aside
    BY <2>0, <2>1, Zenon DEF Aside
  <2>2. CASE Pick
    <3>1. UNCHANGED <<conf, cron, period, created>> /\ cron = "present"
      BY <2>2, PickStep, Zenon DEF Pick
    <3> QED
      BY <2>0, <3>1, Zenon
  <2>3. CASE Replace
    BY <2>0, <2>3, Zenon DEF Replace, spec, Return
  <2>4. CASE Create
    BY <2>0, <2>4, Zenon DEF Create, MayCreate, spec
  <2>5. CASE ChildEnds \/ ChildIsGone
    BY <2>0, <2>5, Zenon DEF ChildEnds, ChildIsGone, spec, local
  <2>6. CASE UserChangesSchedule
    BY <2>0, <2>6, Zenon DEF UserChangesSchedule, local, children
  <2> QED
    BY <2>0, <2>1, <2>2, <2>3, <2>4, <2>5, <2>6, StepsAside DEF CronNext
<1>2. CASE createCron
  BY <1>2 DEF createCron
<1>3. CASE ReconcileSchedule
  <2>1. /\ UNCHANGED <<conf, cron, created, step, wanted>> /\ pending
        /\ period' = period \/ period' = wanted
    BY <1>3 DEF ReconcileSchedule, updateCron, local
  <2> QED
    BY <2>1
<1>4. CASE UserChangesBackupSchedule
  <2>1. PICK c \in Changes : c[1] = wanted /\ wanted' = c[2]
    BY <1>4 DEF UserChangesBackupSchedule
  <2>2. UNCHANGED <<conf, cron, period, created, step>> /\ conf.owned
    BY <1>4 DEF UserChangesBackupSchedule, cronVars, spec, children, local
  <2> QED
    BY <2>1, <2>2 DEF ChangesKeepTriggers
<1>5. CASE UNCHANGED scheduleVars
  BY <1>5 DEF scheduleVars, schedule, cronVars, spec, children, local
<1> QED
  BY <1>1, <1>2, <1>3, <1>4, <1>5 DEF ScheduleNext

\* What is deleted has a successor, or is what Replace deletes.
LEMMA DeletedIsFollowed ==
    ASSUME ForbidKeepsLast, ScheduleTypes, conf.policy = "Forbid", TriggerInv, ChildrenStep,
           NEW t \in deleting' \ deleting
    PROVE  t \in Served /\ t <= last
<1>1. PICK S \in SUBSET {u \in childResources : u > t} : S # {} /\ t \in childResources
  <2>1. CASE t \in Outdated
    <3> DEFINE S == {u \in Younger(t) : ~ TooOld(u)}
    <3>1. conf.keep \in Nat \ {0} /\ Cardinality(S) >= conf.keep
      BY <2>1, ConfsAssumption DEF Outdated, TooOld, ForbidKeepsLast, ScheduleTypes
    <3>2. S # {}
      BY <3>1, FS_EmptySet
    <3>3. S \subseteq {u \in childResources : u > t} /\ t \in childResources
      BY <2>1 DEF Younger, finishedChildren, Outdated
    <3> QED
      BY <3>2, <3>3, Zenon
  <2>2. CASE t \in Surplus
    <3> DEFINE S == {u \in Newer(t) : phase[u] = "succeeded"}
    <3>1. BackupRetention # 0 /\ Cardinality(S) >= BackupRetention
      BY <2>2 DEF Surplus
    <3>2. S # {}
      BY <3>1, RetentionAssumption, FS_EmptySet
    <3>3. S \subseteq {u \in childResources : u > t} /\ t \in childResources
      BY <2>2 DEF Newer, backups, Surplus
    <3> QED
      BY <3>2, <3>3, Zenon
  <2> QED
    BY <2>1, <2>2 DEF ChildrenStep
<1>2. PICK u \in childResources : u > t
  BY <1>1
<1>3. t \in Served /\ u \in Served
  BY <1>1, <1>2 DEF TriggerInv, childResources
<1> QED
  BY <1>2, <1>3 DEF TriggerInv

\* A step that creates nothing, keeps every trigger that fires, and does not choose one.
Calm ==
    /\ UNCHANGED created
    /\ \A t \in Times : phase'[t] = "absent" => phase[t] = "absent" \/ t \in deleting
    /\ \A t \in Times : phase'[t] # "absent" => phase[t] # "absent"
    /\ \A t \in deleting' \ deleting : t \in Served /\ t <= last
    /\ \A t \in Times : Fires(t) => Fires(t)'
    /\ clock <= clock' /\ last <= last'
    /\ step' = "idle" \/ UNCHANGED <<step, scheduleTime, last>>

\* Such a step keeps TriggerInv.
LEMMA TriggerKept ==
    ASSUME ScheduleTypes, ScheduleTypes', TriggerInv, Calm
    PROVE  TriggerInv'
<1> USE DEF ScheduleTypes, Calm
<1>1. Served' = Served /\ Served \subseteq Times
  BY DEF Served
<1>2. \A t \in Times : t \in Nat /\ t \in Int
  BY MaxTimeAssumption DEF Times
<1>3. \A t \in Times : phase'[t] # "absent" \/ t \in deleting' => t \in Served'
  BY <1>1 DEF TriggerInv
<1>4. \A t \in Served' : created'[t] = 1 /\ t <= clock' /\ Fires(t)'
  BY <1>1, <1>2 DEF TriggerInv
<1>5. \A t \in Served' : Vacant(t)' => t <= last'
  <2> SUFFICES ASSUME NEW t \in Served, Vacant(t)' PROVE t <= last
    BY <1>1, <1>2
  <2> QED
    BY <1>1, <1>2 DEF TriggerInv, Vacant
<1>6. \A t, u \in Served' : t < u => t <= last'
  BY <1>1, <1>2 DEF TriggerInv
<1>7. /\ step' # "idle" => Fires(scheduleTime)' /\ scheduleTime' <= clock'
      /\ step' = "trigger" =>
           /\ last' < scheduleTime'
           /\ \A t \in Served' : t <= scheduleTime' /\ (t < scheduleTime' => t <= last')
  <2> SUFFICES ASSUME step' # "idle"
               PROVE  /\ Fires(scheduleTime)' /\ scheduleTime' <= clock'
                      /\ step' = "trigger" =>
                           /\ last' < scheduleTime'
                           /\ \A t \in Served' : t <= scheduleTime' /\ (t < scheduleTime' => t <= last')
    OBVIOUS
  <2>1. UNCHANGED <<step, scheduleTime, last>> /\ scheduleTime \in Times
    OBVIOUS
  <2>2. Fires(scheduleTime)'
    BY <2>1, Zenon DEF TriggerInv, Fires
  <2> QED
    BY <2>1, <2>2, <1>1, <1>2 DEF TriggerInv
<1> QED
  BY <1>3, <1>4, <1>5, <1>6, <1>7 DEF TriggerInv

\* Pick chooses a trigger that is served at most by the child that has its name.
LEMMA PickKeepsTriggers ==
    ASSUME ForbidKeepsLast, ScheduleTypes, ScheduleTypes', conf.policy = "Forbid", TriggerInv, Pick,
           ChildrenStep
    PROVE  TriggerInv'
<1> USE DEF ScheduleTypes
<1>1. /\ UNCHANGED <<clock, period, phase, created>> /\ last <= last'
      /\ UNCHANGED <<step, scheduleTime, last>> \/ Chosen
  BY PickStep
<1>2. \A t \in deleting' \ deleting : t \in Served /\ t <= last
  BY DeletedIsFollowed
<1>3. CASE UNCHANGED <<step, scheduleTime, last>>
  <2>1. Calm
    BY <1>1, <1>2, <1>3 DEF Calm, Fires
  <2> QED
    BY <2>1, TriggerKept
<1>4. CASE Chosen
  <2>1. Served' = Served /\ Served \subseteq Times
    BY <1>1 DEF Served
  <2>2. \A t \in Times : t \in Nat
    BY MaxTimeAssumption DEF Times
  <2>3. \A t \in Served : t > last => t \in unmetScheduleTimes
    BY <2>1, <2>2 DEF TriggerInv, unmetScheduleTimes
  <2>4. \A t \in Served : t <= scheduleTime' /\ (t < scheduleTime' => t <= last')
    <3> SUFFICES ASSUME NEW t \in Served
                 PROVE  t <= scheduleTime' /\ (t < scheduleTime' => t <= last')
      OBVIOUS
    <3>1. CASE t > last
      BY <1>4, <2>3, <3>1, Zenon DEF Chosen
    <3>2. CASE ~ (t > last)
      <4>1. t <= last /\ last <= last' /\ last' < scheduleTime'
        BY <1>1, <1>4, <2>1, <2>2, <3>2 DEF Chosen
      <4> QED
        BY <4>1, <2>1, <2>2
    <3> QED
      BY <3>1, <3>2
  <2>5. Fires(scheduleTime)' /\ scheduleTime' <= clock'
    BY <1>1, <1>4 DEF Chosen, unmetScheduleTimes, Fires
  <2>6. \A t \in Served : Vacant(t)' => t <= last'
    BY <1>1, <1>2, <2>1, <2>2 DEF TriggerInv, Vacant
  <2>7. \A t \in Times : phase'[t] # "absent" \/ t \in deleting' => t \in Served
    BY <1>1, <1>2 DEF TriggerInv
  <2>8. \A t \in Served : created'[t] = 1 /\ t <= clock' /\ Fires(t)'
    BY <1>1, <2>1 DEF TriggerInv, Fires
  <2>9. \A t, u \in Served : t < u => t <= last'
    BY <1>1, <2>1, <2>2 DEF TriggerInv
  <2>10. last' < scheduleTime'
    BY <1>4 DEF Chosen
  <2> QED
    BY <2>1, <2>4, <2>5, <2>6, <2>7, <2>8, <2>9, <2>10 DEF TriggerInv
<1> QED
  BY <1>1, <1>3, <1>4

\* Create serves a trigger that was not served before.
LEMMA CreateKeepsTriggers ==
    ASSUME ScheduleTypes, ScheduleTypes', TriggerInv, Create
    PROVE  TriggerInv'
<1> USE DEF ScheduleTypes
<1>1. /\ step = "trigger" /\ step' = "record"
      /\ UNCHANGED <<clock, period, last, deleting, scheduleTime>>
      /\ phase[scheduleTime] = "absent" /\ scheduleTime \in Times
      /\ phase' = [phase EXCEPT ![scheduleTime] = "active"]
      /\ created' = [created EXCEPT ![scheduleTime] = IF @ < 2 THEN @ + 1 ELSE @]
  BY DEF Create, MayCreate, NameIsTaken, spec, status
<1>2. \A t \in Times : t \in Nat
  BY MaxTimeAssumption DEF Times
<1>3. scheduleTime \notin Served
  BY <1>1, <1>2 DEF TriggerInv, Vacant
<1>4. created[scheduleTime] = 0 /\ scheduleTime \notin deleting
  BY <1>1, <1>3 DEF TriggerInv, Served
<1>5. /\ Served' = Served \union {scheduleTime} /\ created'[scheduleTime] = 1
      /\ Served \subseteq Times
      /\ \A t \in Served : t # scheduleTime /\ created'[t] = created[t]
  BY <1>1, <1>3, <1>4 DEF Served
<1>6. \A t \in Times : phase'[t] # "absent" \/ t \in deleting' => t \in Served'
  BY <1>1, <1>5 DEF TriggerInv
<1>7. \A t \in Served' : created'[t] = 1 /\ t <= clock' /\ Fires(t)'
  BY <1>1, <1>5 DEF TriggerInv, Fires
<1>8. \A t \in Served' : Vacant(t)' => t <= last'
  BY <1>1, <1>4, <1>5 DEF TriggerInv, Vacant
<1>9. \A t, u \in Served' : t < u => t <= last'
  <2> SUFFICES ASSUME NEW t \in Served', NEW u \in Served', t < u PROVE t <= last
    BY <1>1
  <2>1. t \in Times /\ u \in Times
    BY <1>1, <1>5
  <2>2. CASE t = scheduleTime
    BY <1>1, <1>2, <1>5, <2>1, <2>2 DEF TriggerInv
  <2>3. CASE u = scheduleTime /\ t \in Served
    BY <1>1, <2>3 DEF TriggerInv
  <2>4. CASE t \in Served /\ u \in Served
    BY <2>4 DEF TriggerInv
  <2> QED
    BY <1>5, <2>2, <2>3, <2>4
<1>10. step' # "idle" => Fires(scheduleTime)' /\ scheduleTime' <= clock'
  BY <1>1 DEF TriggerInv, Fires
<1> QED
  BY <1>1, <1>6, <1>7, <1>8, <1>9, <1>10 DEF TriggerInv

\* TriggerInv is kept by every step of a CronAnything that forbids concurrency.
LEMMA TriggerInvStep ==
    ASSUME ForbidKeepsLast, ChangesKeepTriggers, conf.policy = "Forbid", ScheduleTypes, ScheduleKept,
           TriggerInv, [ScheduleNext]_scheduleVars
    PROVE  TriggerInv'
<1>0. clock \in Int /\ last \in Int
  BY DEF ScheduleTypes
<1>1. ScheduleTypes' /\ ChildrenStep
  BY AllSteps
<1>2. \A t \in deleting' \ deleting : t \in Served /\ t <= last
  BY <1>1, DeletedIsFollowed
<1>3. CASE CronStep
  <2>1. CASE Aside
    <3>1. Calm
      BY <2>1 DEF Aside, Calm, Fires
    <3> QED
      BY <1>1, <3>1, TriggerKept
  <2>2. CASE Pick
    BY <1>1, <2>2, PickKeepsTriggers
  <2>3. CASE Replace
    BY <2>3 DEF Replace
  <2>4. CASE Create
    BY <1>1, <2>4, CreateKeepsTriggers
  <2>5. CASE ChildEnds
    <3>1. /\ UNCHANGED <<clock, period, last, deleting, created, step, scheduleTime>>
          /\ \A t \in Times : phase'[t] = "absent" <=> phase[t] = "absent"
      BY <2>5 DEF ChildEnds, spec, status, local, ScheduleTypes
    <3>2. Calm
      BY <1>0, <3>1 DEF Calm, Fires
    <3> QED
      BY <1>1, <3>2, TriggerKept
  <2>6. CASE ChildIsGone
    <3>1. /\ UNCHANGED <<clock, period, last, created, step, scheduleTime>> /\ deleting' = {}
          /\ \A t \in Times : phase'[t] = IF t \in deleting THEN "absent" ELSE phase[t]
      BY <2>6 DEF ChildIsGone, spec, status, local
    <3>2. Calm
      BY <1>0, <3>1 DEF Calm, Fires
    <3> QED
      BY <1>1, <3>2, TriggerKept
  <2>7. CASE UserChangesSchedule
    <3>1. PICK c \in Changes : c[1] = period /\ period' = c[2]
      BY <2>7 DEF UserChangesSchedule
    <3>2. UNCHANGED <<clock, phase, last, deleting, created, step, scheduleTime>>
      BY <2>7 DEF UserChangesSchedule, status, children, local
    <3>3. \A t \in Times : Fires(t) => Fires(t)'
      BY <3>1 DEF ChangesKeepTriggers, Fires
    <3>4. Calm
      BY <1>0, <3>2, <3>3 DEF Calm
    <3> QED
      BY <1>1, <3>4, TriggerKept
  <2> QED
    BY <1>3, <2>1, <2>2, <2>3, <2>4, <2>5, <2>6, <2>7, StepsAside DEF CronStep, CronNext
<1>4. CASE createCron
  <2>1. /\ UNCHANGED <<clock, phase, last, deleting, created, step, scheduleTime>>
        /\ cron # "present"
    BY <1>4 DEF createCron, lookupCron, status, children, local
  <2>2. Served = {} /\ Served' = {} /\ step' = "idle"
    BY <2>1 DEF ScheduleKept, Served
  <2> QED
    BY <2>1, <2>2 DEF TriggerInv
<1>5. CASE ReconcileSchedule
  <2>1. /\ UNCHANGED <<clock, phase, last, created, step, scheduleTime>> /\ pending
        /\ period' = period \/ period' = wanted
    BY <1>5 DEF ReconcileSchedule, updateCron, status, local
  <2>2. \A t \in Times : Fires(t) => Fires(t)'
    BY <2>1 DEF ScheduleKept, Fires
  <2>3. Calm
    BY <1>0, <1>2, <2>1, <2>2 DEF Calm
  <2> QED
    BY <1>1, <2>3, TriggerKept
<1>6. CASE UserChangesBackupSchedule \/ UNCHANGED scheduleVars
  <2>1. UNCHANGED <<clock, period, phase, last, deleting, created, step, scheduleTime>>
    BY <1>6 DEF UserChangesBackupSchedule, scheduleVars, cronVars, spec, status, children, local
  <2>2. Calm
    BY <1>0, <2>1 DEF Calm, Fires
  <2> QED
    BY <1>1, <2>2, TriggerKept
<1> QED
  BY <1>3, <1>4, <1>5, <1>6 DEF ScheduleNext

\* The policies hold.  One child for each trigger needs what the two assumptions say: a
\* history limit that removes the child of a trigger before it is recorded, or a
\* schedule that skips the trigger of a later child, has it created again.
THEOREM PoliciesHold ==
    ASSUME ForbidKeepsLast, ChangesKeepTriggers
    PROVE  ScheduleSpec => []ConcurrencyPolicyHolds
<1> DEFINE J == ScheduleInv /\ ScheduleKept /\ (conf.policy = "Forbid" => TriggerInv)
<1>1. ScheduleInit => J
  <2> SUFFICES ASSUME ScheduleInit PROVE J
    OBVIOUS
  <2>1. ScheduleInv
    BY ScheduleInvInit
  <2>2. Served = {} /\ step = "idle" /\ deleting = {} /\ \A t \in Times : phase[t] = "absent"
    BY DEF ScheduleInit, CronInit, Served
  <2>3. ScheduleKept
    BY <2>2 DEF ScheduleInit, ScheduleKept, Fires
  <2>4. TriggerInv
    BY <2>2 DEF TriggerInv
  <2> QED
    BY <2>1, <2>3, <2>4
<1>2. J /\ [ScheduleNext]_scheduleVars => J'
  <2> SUFFICES ASSUME J, [ScheduleNext]_scheduleVars PROVE J'
    OBVIOUS
  <2>1. ScheduleInv' /\ UNCHANGED conf
    BY AllSteps, OneActiveKept, RetentionKept DEF ScheduleInv
  <2>2. ScheduleKept'
    BY ScheduleKeptStep DEF ScheduleInv
  <2>3. conf.policy = "Forbid" => TriggerInv'
    BY TriggerInvStep DEF ScheduleInv
  <2> QED
    BY <2>1, <2>2, <2>3
<1>3. J => ConcurrencyPolicyHolds
  <2> SUFFICES ASSUME J PROVE ConcurrencyPolicyHolds
    OBVIOUS
  <2>1. AtMostOneActive
    BY ActiveIsOne
  <2>2. ASSUME conf.policy = "Forbid", NEW t \in Times PROVE created[t] <= 1
    <3>1. created[t] \in 0 .. 2
      BY DEF ScheduleInv, ScheduleTypes
    <3>2. created[t] > 0 => created[t] = 1
      BY <2>2 DEF TriggerInv, Served
    <3> QED
      BY <3>1, <3>2
  <2> QED
    BY <2>1, <2>2 DEF ConcurrencyPolicyHolds, AtMostOneActive
<1> QED
  BY <1>1, <1>2, <1>3, PTL DEF ScheduleSpec

=============================================================================
