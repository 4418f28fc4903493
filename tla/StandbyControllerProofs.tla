---------------------- MODULE StandbyControllerProofs ----------------------
(***************************************************************************)
(* For any settings, addresses and numbers of edits, failures and restarts:*)
(* an activated database stays one, the Instance is ready only with a      *)
(* migrated database, and the old primary is let go before the activation. *)
(***************************************************************************)
EXTENDS StandbyController, TLAPS

BeforeStandby == {"none", "VerifyFailed", "VerifyCompleted", "CreateInProgress", "CreateFailed"}
AsStandby == {"CreateCompleted", "SetUpDataGuardFailed", "SetUpDataGuardCompleted",
              "DataGuardReplicationInProgress", "PromoteFailed"}
AsPrimary == {"PromoteCompleted", "BootstrapFailed", "BootstrapCompleted"}

\* The reason in the status when the reconcile is at a step.
StepsFit ==
    /\ pc \in CreateSteps => reason = "CreateInProgress" /\ lro = "none" /\ toCurrent # "none"
    /\ pc \in DataGuardSteps =>
         /\ reason \in {"CreateCompleted", "SetUpDataGuardFailed",
                        "DataGuardReplicationInProgress"}
         /\ seen # "none" /\ toCurrent # "none"
    /\ pc \in PromoteSteps =>
         /\ reason \in {"DataGuardReplicationInProgress", "PromoteFailed"}
         /\ toCurrent # "none"
    /\ pc \in BootstrapSteps =>
         /\ reason \in {"none", "PromoteCompleted", "BootstrapFailed"}
         /\ reason = "none" => standbyReady = "True" /\ (mode = "none" \/ fresh = "no")
    /\ dbReady = "yes" => pc = "idle" /\ ready = "CreateComplete"

\* What a reconcile is about to write follows from the reason it found.
WritesFit == pc = "commit" =>
    \/ /\ toReason \in {"none", "manual"} /\ reason = "none" /\ standbyReady = "True"
       /\ mode = "none" \/ fresh = "no"
    \/ /\ toReason \in {"CreateInProgress", "CreateFailed", "CreateCompleted"}
       /\ reason = "CreateInProgress" /\ toCurrent # "none"
       /\ toReason = "CreateCompleted" => role = "standby" /\ lro # "running"
    \/ /\ toReason \in {"SetUpDataGuardFailed", "SetUpDataGuardCompleted"}
       /\ reason \in {"CreateCompleted", "SetUpDataGuardFailed"} /\ toCurrent # "none"
    \/ /\ toReason = "DataGuardReplicationInProgress"
       /\ reason = "DataGuardReplicationInProgress" /\ toCurrent # "none"
    \/ /\ toReason \in {"PromoteFailed", "PromoteCompleted"}
       /\ reason \in {"DataGuardReplicationInProgress", "PromoteFailed"} /\ toCurrent # "none"
       /\ toReason = "PromoteCompleted" => role = "primary"
    \/ /\ toReason \in {"BootstrapFailed", "BootstrapCompleted"}
       /\ reason \in {"PromoteCompleted", "BootstrapFailed"}

\* What the data of the pod are at each stage of the migration.
RoleFits ==
    /\ standbyReady # "none" => reason = "none" /\ spec = "none"
    /\ reason \in BeforeStandby /\ role = "primary" => standbyReady # "none"
    /\ reason \in AsStandby => role # "none" /\ current # "none"
    /\ reason \in AsPrimary => role = "primary"
    /\ reason = "BootstrapCompleted" => dbReady = "yes"
    /\ reason \in {"none", "VerifyFailed", "VerifyCompleted"} => lro = "none"
    /\ lro = "running" => reason \in {"CreateInProgress", "CreateFailed"}
    /\ lro = "done" => role # "none"
    /\ pc = "open" => role = "primary"

\* What the steps of bootstrap have brought about.
BootstrapFits ==
    /\ pc \in {"boot_done", "boot_pdbs", "boot_databases"} => role = "primary" /\ users = "yes"
    /\ pc \in {"boot_pdbs", "boot_databases"} => provisioned = "yes"
    /\ pc \in BootstrapSteps \ {"boot_listener"} =>
         listener = "full" \/ db = "down" \/ fresh = "no"
    /\ pc = "commit" /\ toReason \in {"manual", "BootstrapCompleted"} =>
         /\ role = "primary" /\ users = "yes" /\ provisioned = "yes" /\ databases = "yes"
         /\ listener = "full" \/ fresh = "no"

\* The standby is a member of no configuration before Data Guard is set up and
\* after it was removed, unless it is added again.
MembershipFits ==
    /\ config = "none" => member = "no" /\ pc # "dg_standby"
    /\ reason \in BeforeStandby => member = "no"
    /\ Promoting => spec = "none" \/ readded = "yes"
    /\ pc = "commit" /\ fresh = "yes" /\ toReason \in {"PromoteFailed", "PromoteCompleted"}
         => spec = "none" \/ readded = "yes"
    /\ pc \in {"activate", "open"} => member = "no" \/ misread = "yes" \/ readded = "yes"
    /\ pc \in DataGuardSteps => role # "primary" \/ readded = "yes"

Fits == StepsFit /\ WritesFit /\ RoleFits /\ BootstrapFits /\ MembershipFits

Inv == TypeOK /\ Fits /\ ReadyMeansMigrated /\ PrimaryIsLetGo

USE StandbyAssumption

\* The initial states satisfy Inv.
LEMMA InitInv == Init => Inv
BY DEF Init, Inv, TypeOK, Fits, StepsFit, WritesFit, RoleFits, BootstrapFits, MembershipFits,
       ReadyMeansMigrated, PrimaryIsLetGo, Promoting, BeforeStandby, AsStandby, AsPrimary, Reasons,
       CreateSteps, DataGuardSteps, PromoteSteps, BootstrapSteps, YesNo

\* What the owner, the pod, the network and RMAN do keeps Inv.
LEMMA WorldKeepsInv ==
    ASSUME Inv, EditSettings \/ EditMode \/ SetUpByHand \/ HostMoves \/ RestartPod \/
                RestartDaemon \/ CloneEnds
    PROVE  Inv'
<1> USE DEF Inv, TypeOK, Fits, StepsFit, WritesFit, RoleFits, BootstrapFits, MembershipFits,
            ReadyMeansMigrated, PrimaryIsLetGo, Promoting, BeforeStandby, AsStandby, AsPrimary,
            Reasons, CreateSteps, DataGuardSteps, PromoteSteps, BootstrapSteps, YesNo,
            object, conditions, pod, bootstrap, primary, control, history
<1>1. CASE EditSettings
  BY <1>1 DEF EditSettings, Edit
<1>2. CASE EditMode
  BY <1>2 DEF EditMode, Edit
<1>3. CASE SetUpByHand
  BY <1>3 DEF SetUpByHand
<1>4. CASE HostMoves
  BY <1>4 DEF HostMoves
<1>5. CASE RestartPod
  BY <1>5 DEF RestartPod
<1>6. CASE RestartDaemon
  BY <1>6 DEF RestartDaemon
<1>7. CASE CloneEnds
  BY <1>7 DEF CloneEnds, CanFail
<1> QED
  BY <1>1, <1>2, <1>3, <1>4, <1>5, <1>6, <1>7

\* Failures and the write of the status keep Inv.
LEMMA FrameKeepsInv ==
    ASSUME Inv, VerifyFails \/ PollFails \/ TaskFails \/ CutShort \/ updateStatus \/
                UpdateConflicts
    PROVE  Inv'
<1> USE DEF Inv, TypeOK, Fits, StepsFit, WritesFit, RoleFits, BootstrapFits, MembershipFits,
            ReadyMeansMigrated, PrimaryIsLetGo, Promoting, BeforeStandby, AsStandby, AsPrimary,
            Reasons, CreateSteps, DataGuardSteps, PromoteSteps, BootstrapSteps, YesNo,
            object, conditions, pod, bootstrap, primary, control, history
<1>1. CASE VerifyFails
  BY <1>1 DEF VerifyFails, InStateMachine, isStandbyDR, CanFail
<1>2. CASE PollFails
  BY <1>2 DEF PollFails, InStateMachine, isStandbyDR, CanFail, Start, getStandbyHost
<1>3. CASE TaskFails
  BY <1>3 DEF TaskFails, CanFail, Write, OnError
<1>4. CASE CutShort
  BY <1>4 DEF CutShort, CanFail, ToIdle
<1>5. CASE updateStatus
  BY <1>5 DEF updateStatus, ToIdle
<1>6. CASE UpdateConflicts
  BY <1>6 DEF UpdateConflicts, ToIdle
<1> QED
  BY <1>1, <1>2, <1>3, <1>4, <1>5, <1>6

\* The main loop and the steps that begin to call the agent keep Inv.
LEMMA BeginningKeepsInv ==
    ASSUME Inv, EnterStandbyDR \/ EnterManual \/ PromoteManual \/ VerifyCompletes \/ StartCreate
                \/ CreateStandby \/ SetUpDataGuard \/ StartReplication \/ PromoteStandby \/
                BootstrapStandby
    PROVE  Inv'
<1> USE DEF Inv, TypeOK, Fits, StepsFit, WritesFit, RoleFits, BootstrapFits, MembershipFits,
            ReadyMeansMigrated, PrimaryIsLetGo, Promoting, BeforeStandby, AsStandby, AsPrimary,
            Reasons, CreateSteps, DataGuardSteps, PromoteSteps, BootstrapSteps, YesNo,
            object, conditions, pod, bootstrap, primary, control, history
<1>1. CASE EnterStandbyDR
  BY <1>1 DEF EnterStandbyDR, isStandbyDR
<1>2. CASE EnterManual
  BY <1>2 DEF EnterManual, isStandbyDR
<1>3. CASE PromoteManual
  BY <1>3 DEF PromoteManual, isStandbyDR, Start, getStandbyHost
<1>4. CASE VerifyCompletes
  BY <1>4 DEF VerifyCompletes, InStateMachine, isStandbyDR
<1>5. CASE StartCreate
  BY <1>5 DEF StartCreate, InStateMachine, isStandbyDR
<1>6. CASE CreateStandby
  <2>1. CASE lro = "none"
    BY <1>6, <2>1 DEF CreateStandby, InStateMachine, isStandbyDR, Start, getStandbyHost
  <2>2. CASE lro = "running"
    BY <1>6, <2>2 DEF CreateStandby, InStateMachine, isStandbyDR, Start, getStandbyHost
  <2>3. CASE lro = "done"
    BY <1>6, <2>3 DEF CreateStandby, InStateMachine, isStandbyDR, Start, getStandbyHost
  <2>4. CASE lro = "failed"
    BY <1>6, <2>4 DEF CreateStandby, InStateMachine, isStandbyDR, Start, getStandbyHost
  <2> QED
    BY <2>1, <2>2, <2>3, <2>4
<1>7. CASE SetUpDataGuard
  BY <1>7 DEF SetUpDataGuard, reconcileDataGuard, InStateMachine, isStandbyDR, Start, getStandbyHost
<1>8. CASE StartReplication
  BY <1>8 DEF StartReplication, InStateMachine, isStandbyDR
<1>9. CASE PromoteStandby
  BY <1>9 DEF PromoteStandby, reconcilePromoteStandby, InStateMachine, isStandbyDR, Start, getStandbyHost
<1>10. CASE BootstrapStandby
  BY <1>10 DEF BootstrapStandby, InStateMachine, isStandbyDR, Start, getStandbyHost
<1> QED
  BY <1>1, <1>2, <1>3, <1>4, <1>5, <1>6, <1>7, <1>8, <1>9, <1>10

\* A failed Data Guard task keeps the reason or records the failure.
LEMMA DataGuardError ==
    ASSUME pc \in DataGuardSteps
    PROVE  OnError = IF reason = "DataGuardReplicationInProgress" THEN reason
                                                                  ELSE "SetUpDataGuardFailed"
BY DEF OnError, CreateSteps, DataGuardSteps, PromoteSteps

\* The tasks of creation and of Data Guard keep Inv.
LEMMA CreationKeepsInv ==
    ASSUME Inv, PrepareFiles \/ startupNomount \/ bounceDatabase \/ setupListener \/
                clonePrimary \/ ensureListener \/ ensureDatabase \/ ensureDataGuardBrokerEnable
                \/ ensureDGConfigExists \/ ensureDGConfigStandbyMatch \/
                ensureDGConfigPrimaryMatch
    PROVE  Inv'
<1> USE DEF Inv, TypeOK, Fits, StepsFit, WritesFit, RoleFits, BootstrapFits, MembershipFits,
            ReadyMeansMigrated, PrimaryIsLetGo, Promoting, BeforeStandby, AsStandby, AsPrimary,
            Reasons, CreateSteps, DataGuardSteps, PromoteSteps, BootstrapSteps, YesNo,
            object, conditions, pod, bootstrap, primary, control, history
<1>1. CASE PrepareFiles
  BY <1>1 DEF PrepareFiles, Goto, Write, OnError, CanFail
<1>2. CASE startupNomount
  BY <1>2 DEF startupNomount, Goto, Write, OnError, CanFail
<1>3. CASE bounceDatabase
  BY <1>3 DEF bounceDatabase, Goto, Write, OnError, CanFail
<1>4. CASE setupListener
  BY <1>4 DEF setupListener, Goto, Write, OnError, CanFail
<1>5. CASE clonePrimary
  BY <1>5 DEF clonePrimary, Goto, Write, OnError, CanFail
<1>6. CASE ensureListener
  BY <1>6 DEF ensureListener, Goto, Write, OnError, CanFail
<1>7. CASE ensureDatabase
  <2>1. CASE db \in {"mounted", "open"}
    <3>1. pc = "dg_database" /\ Goto("dg_broker") /\ db' = db /\ failures' = failures
      BY <1>7, <2>1 DEF ensureDatabase
    <3> QED
      BY <1>7, <2>1, <3>1 DEF ensureDatabase, Goto
  <2>2. CASE db = "nomount"
    BY <1>7, <2>2, DataGuardError DEF ensureDatabase, Write
  <2>3. CASE db = "down"
    BY <1>7, <2>3, DataGuardError DEF ensureDatabase, Goto, Write, CanFail
  <2> QED
    BY <2>1, <2>2, <2>3
<1>8. CASE ensureDataGuardBrokerEnable
  BY <1>8 DEF ensureDataGuardBrokerEnable, Goto, Write, OnError, CanFail
<1>9. CASE ensureDGConfigExists
  BY <1>9 DEF ensureDGConfigExists, Goto, Write, OnError, CanFail, standbyHasConfig,
         primaryHasConfig
<1>10. CASE ensureDGConfigStandbyMatch
  <2>1. CASE standbyHasConfig
    BY <1>10, <2>1 DEF ensureDGConfigStandbyMatch, Goto, standbyHasConfig, setConnectIdentifier
  <2>2. CASE ~standbyHasConfig /\ standbyContains
    BY <1>10, <2>2, DataGuardError DEF ensureDGConfigStandbyMatch, Write
  <2>3. CASE ~standbyHasConfig /\ ~standbyContains
    BY <1>10, <2>3 DEF ensureDGConfigStandbyMatch, Goto
  <2> QED
    BY <2>1, <2>2, <2>3
<1>11. CASE ensureDGConfigPrimaryMatch
  BY <1>11 DEF ensureDGConfigPrimaryMatch, Goto, Write, OnError, CanFail, standbyHasConfig,
         primaryHasConfig
<1> QED
  BY <1>1, <1>2, <1>3, <1>4, <1>5, <1>6, <1>7, <1>8, <1>9, <1>10, <1>11

\* The removal of the configuration moves on with the primary let go, or misread.
LEMMA RemovalOfConfig ==
    ASSUME Inv, removeDataGuardConfig
    PROVE  /\ pc = "remove" /\ pc' \in {"activate", "disabled"}
           /\ UNCHANGED <<object, conditions, host, pod, bootstrap, lro, seen, seenHost, fresh,
                          toReason, toCurrent, edits, restarts, readded>>
           /\ config' \in {"none", config} /\ member' \in {"no", member}
           /\ dgHost' \in {"none", dgHost} /\ dgPrimary' \in {"none", dgPrimary}
           /\ failures' \in 0..MaxFailures /\ misread' \in {"yes", misread}
           /\ config' = "none" => member' = "no"
           /\ pc' = "activate" => member' = "no" \/ misread' = "yes"
<1>1. /\ failures \in 0..MaxFailures /\ member \in {"no", "yes"}
      /\ config = "none" => member = "no"
  BY DEF Inv, TypeOK, Fits, MembershipFits, YesNo
<1>2. /\ pc = "remove" /\ pc' \in {"activate", "disabled"}
      /\ UNCHANGED <<object, conditions, host, pod, bootstrap, lro, seen, seenHost, fresh,
                     toReason, toCurrent, edits, restarts, readded>>
  BY DEF removeDataGuardConfig, Goto
<1>3. /\ config' \in {"none", config} /\ member' \in {"no", member}
      /\ dgHost' \in {"none", dgHost} /\ dgPrimary' \in {"none", dgPrimary}
      /\ misread' \in {"yes", misread}
  BY DEF removeDataGuardConfig, removeConfiguration, primary
<1>4. failures' \in 0..MaxFailures
  BY <1>1, StandbyAssumption DEF removeDataGuardConfig, CanFail
<1>5. config' = "none" => member' = "no"
  BY <1>1 DEF removeDataGuardConfig, removeConfiguration, primaryHasConfig, primary
<1>6. pc' = "activate" => member' = "no" \/ misread' = "yes"
  BY <1>1 DEF removeDataGuardConfig, Goto, primaryHasConfig, members, standbyContains,
         removeConfiguration, primary
<1> QED
  BY <1>2, <1>3, <1>4, <1>5, <1>6

\* The removal of the configuration keeps Inv.
LEMMA RemovalKeepsInv == ASSUME Inv, removeDataGuardConfig PROVE Inv'
<1> USE RemovalOfConfig DEF Inv, object, conditions, pod, bootstrap, PromoteSteps
<1>1. TypeOK'
  BY DEF TypeOK, YesNo
<1>2. StepsFit' /\ WritesFit'
  BY DEF Fits, StepsFit, WritesFit, CreateSteps, DataGuardSteps, BootstrapSteps
<1>3. RoleFits' /\ BootstrapFits'
  BY DEF Fits, RoleFits, BootstrapFits, BootstrapSteps
<1>4. MembershipFits'
  BY DEF Fits, MembershipFits, Promoting, DataGuardSteps, CreateSteps, BootstrapSteps
<1>5. ReadyMeansMigrated' /\ PrimaryIsLetGo'
  BY DEF Fits, MembershipFits, ReadyMeansMigrated, PrimaryIsLetGo
<1> QED
  BY <1>1, <1>2, <1>3, <1>4, <1>5 DEF Fits

\* The tasks of promotion and of bootstrap keep Inv.
LEMMA PromotionKeepsInv ==
    ASSUME Inv, removeDataGuardConfig \/ removeStandbyDB \/ promoteStandby \/ openPrimary \/
                createListener \/ createSPFile \/ setupUsers \/ markProvisionDone \/ openPDBs \/
                createDatabases
    PROVE  Inv'
<1> USE DEF Inv, TypeOK, Fits, StepsFit, WritesFit, RoleFits, BootstrapFits, MembershipFits,
            ReadyMeansMigrated, PrimaryIsLetGo, Promoting, BeforeStandby, AsStandby, AsPrimary,
            Reasons, CreateSteps, DataGuardSteps, PromoteSteps, BootstrapSteps, YesNo,
            object, conditions, pod, bootstrap, primary, control, history
<1>1. CASE removeDataGuardConfig
  BY <1>1, RemovalKeepsInv
<1>2. CASE removeStandbyDB
  BY <1>2 DEF removeStandbyDB, Goto, Write, OnError, CanFail
<1>3. CASE promoteStandby
  BY <1>3 DEF promoteStandby, Goto, Write, OnError, CanFail
<1>4. CASE openPrimary
  BY <1>4 DEF openPrimary, Goto, Write, OnError, CanFail
<1>5. CASE createListener
  BY <1>5 DEF createListener, Goto, Write, OnError, CanFail
<1>6. CASE createSPFile
  BY <1>6 DEF createSPFile, Goto, Write, OnError, CanFail
<1>7. CASE setupUsers
  BY <1>7 DEF setupUsers, Goto, Write, OnError, CanFail
<1>8. CASE markProvisionDone
  BY <1>8 DEF markProvisionDone, Goto, Write, OnError, CanFail
<1>9. CASE openPDBs
  BY <1>9 DEF openPDBs, Goto, Write, OnError, CanFail
<1>10. CASE createDatabases
  BY <1>10 DEF createDatabases, migratedPDBs, Goto, Write, OnError, CanFail
<1> QED
  BY <1>1, <1>2, <1>3, <1>4, <1>5, <1>6, <1>7, <1>8, <1>9, <1>10

\* Every step keeps Inv: one case per group of actions.
LEMMA StepKeepsInv == Inv /\ [Next]_vars => Inv'
<1> SUFFICES ASSUME Inv, [Next]_vars PROVE Inv'
  OBVIOUS
<1>1. CASE Next
  BY <1>1, WorldKeepsInv, FrameKeepsInv, BeginningKeepsInv, CreationKeepsInv, PromotionKeepsInv
     DEF Next, Reconcile
<1>2. CASE UNCHANGED vars
  BY <1>2 DEF Inv, TypeOK, Fits, StepsFit, WritesFit, RoleFits, BootstrapFits, MembershipFits,
              ReadyMeansMigrated, PrimaryIsLetGo, Promoting, vars, object, conditions, pod,
              bootstrap, primary, control, history
<1> QED
  BY <1>1, <1>2

\* Inv holds in every reachable state.
LEMMA InvHolds == Spec => []Inv
BY InitInv, StepKeepsInv, PTL DEF Spec

\* Type correctness of the migration.
THEOREM TypeCorrect == Spec => []TypeOK
BY InvHolds, PTL DEF Inv

\* An Instance past promotion has an activated database, and one that is ready
\* has a migrated one.
THEOREM ReadyInstanceIsMigrated == Spec => []ReadyMeansMigrated
BY InvHolds, PTL DEF Inv

\* The configuration of the old primary is cleaned up before the activation.
THEOREM OldPrimaryIsLetGo == Spec => []PrimaryIsLetGo
BY InvHolds, PTL DEF Inv

\* No step turns a database that was promoted back into a standby.
LEMMA StepKeepsPrimary ==
    ASSUME Inv, [Next]_vars, role = "primary"
    PROVE  role' = "primary"
<1> USE DEF object, conditions, pod, bootstrap, primary, control, history
<1>1. CASE CloneEnds
  BY <1>1 DEF CloneEnds, Inv, Fits, RoleFits, TypeOK, BeforeStandby
<1>2. CASE EditSettings \/ EditMode \/ SetUpByHand \/ HostMoves \/ RestartPod \/ RestartDaemon
  BY <1>2 DEF EditSettings, EditMode, SetUpByHand, HostMoves, RestartPod, RestartDaemon
<1>3. CASE VerifyFails \/ PollFails \/ TaskFails \/ CutShort \/ updateStatus \/ UpdateConflicts
  BY <1>3 DEF VerifyFails, PollFails, TaskFails, CutShort, updateStatus, UpdateConflicts
<1>4. CASE EnterStandbyDR \/ EnterManual \/ PromoteManual \/ VerifyCompletes \/ StartCreate
           \/ CreateStandby \/ SetUpDataGuard \/ StartReplication \/ PromoteStandby
           \/ BootstrapStandby
  BY <1>4 DEF EnterStandbyDR, EnterManual, PromoteManual, VerifyCompletes, StartCreate,
              CreateStandby, SetUpDataGuard, StartReplication, PromoteStandby, BootstrapStandby
<1>5. CASE PrepareFiles \/ startupNomount \/ bounceDatabase \/ setupListener \/ clonePrimary
           \/ ensureListener \/ ensureDatabase \/ ensureDataGuardBrokerEnable
           \/ ensureDGConfigExists \/ ensureDGConfigStandbyMatch \/ ensureDGConfigPrimaryMatch
  BY <1>5 DEF PrepareFiles, startupNomount, bounceDatabase, setupListener, clonePrimary,
              ensureListener, ensureDatabase, ensureDataGuardBrokerEnable, ensureDGConfigExists,
              ensureDGConfigStandbyMatch, ensureDGConfigPrimaryMatch
<1>6. CASE removeDataGuardConfig \/ removeStandbyDB \/ promoteStandby \/ openPrimary
           \/ createListener \/ createSPFile \/ setupUsers \/ markProvisionDone \/ openPDBs
           \/ createDatabases
  BY <1>6 DEF removeDataGuardConfig, removeStandbyDB, promoteStandby, openPrimary, createListener,
              createSPFile, setupUsers, markProvisionDone, openPDBs, createDatabases
<1>7. CASE UNCHANGED vars
  BY <1>7 DEF vars
<1> QED
  BY <1>1, <1>2, <1>3, <1>4, <1>5, <1>6, <1>7 DEF Next, Reconcile

\* No clone, Data Guard set-up or repeated promotion makes an activated database
\* a standby again.
THEOREM ActivationStands == Spec => ActivationIsFinal
<1>1. Inv /\ [Next]_vars => [role = "primary" => role' = "primary"]_vars
  BY StepKeepsPrimary
<1> QED
  BY <1>1, InvHolds, PTL DEF Spec, ActivationIsFinal
=============================================================================
