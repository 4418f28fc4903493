------------------------- MODULE DatabaseController -------------------------
(***************************************************************************)
(* The Database controller: one Database object (a pluggable database with *)
(* one managed user), the Instance it belongs to and the deletion of that  *)
(* Instance by the Instance controller.                                    *)
(*                                                                         *)
(* A reconcile of the Database is a sequence of steps, with one write to   *)
(* the API server or one call to the database daemon in each; it can end   *)
(* after any of them.  A write is refused if the object has changed since  *)
(* the reconcile read it.                                                  *)
(***************************************************************************)
EXTENDS Naturals

CONSTANTS
    Passwords,      \* of the user
    Invalid,        \* those that a spec must not have
    Privileges,     \* system privileges and roles
    Roles,          \* those that are roles
    Implied,        \* the system privileges that come and go with a role
    Wanted,         \* the sets of privileges that owners ask for
    SameName,       \* whether metadata.name and spec.name of the Database agree
    MaxEdits,       \* of the Database by its owner
    MaxFailures     \* of reconciles that end before their time

ASSUME DatabaseAssumption ==
    /\ "none" \notin Passwords /\ Invalid \subseteq Passwords
    /\ Roles \subseteq Privileges
    /\ Implied \in [Roles -> SUBSET (Privileges \ Roles)]
    /\ Wanted \subseteq SUBSET Privileges
    /\ SameName \in {"no", "yes"}
    /\ MaxEdits \in Nat /\ MaxFailures \in Nat

VARIABLES
    database,       \* the Database object: absent, present or deleting
    finalizer,      \* whether it has the operator's finalizer
    specPassword,   \* spec.users; none if the user is not in it
    specPrivileges,
    ready,          \* the Ready condition
    userReady,      \* the reason of the UserReady condition
    recorded,       \* status.userResourceVersions of the user
    instance,       \* the Instance object: present, deleting or gone
    stopped,        \* spec.isStopped
    listed,         \* whether status.databaseNames has the Database
    pdb,            \* the pluggable database: absent, mounted or open
    pdbPassword,    \* the user in it
    pdbPrivileges,
    pc,             \* where the reconcile is
    seenPassword,   \* spec.users as the reconcile has read it
    seenPrivileges,
    fresh,          \* the Database has not changed since it was read
    instanceFresh,  \* nor has the Instance
    edits,
    failures,
    clean           \* history: no reconcile ended between what it did to the
                    \* pluggable database and the record of it, and the user
                    \* was not taken out of the spec

object == <<database, finalizer, specPassword, specPrivileges>>
status == <<ready, userReady, recorded>>
owner == <<instance, stopped, listed>>
pluggable == <<pdb, pdbPassword, pdbPrivileges>>
control == <<pc, seenPassword, seenPrivileges, fresh, instanceFresh>>
seen == <<seenPassword, seenPrivileges>>
bounds == <<edits, failures, clean>>
vars == <<object, status, owner, pluggable, control, bounds>>

TypeOK ==
    /\ database \in {"absent", "present", "deleting"}
    /\ specPassword \in Passwords \union {"none"} /\ specPrivileges \subseteq Privileges
    /\ seenPassword \in Passwords \union {"none"} /\ seenPrivileges \subseteq Privileges
    /\ recorded \in Passwords \union {"none"}
    /\ userReady \in {"none", "CreateComplete", "SyncInProgress", "SyncComplete", "UserOutOfSync"}
    /\ instance \in {"present", "deleting", "gone"}
    /\ pdb \in {"absent", "mounted", "open"}
    /\ pdbPassword \in Passwords \union {"none"} /\ pdbPrivileges \subseteq Privileges
    /\ pc \in {"idle", "finalize", "create", "open", "readyNew", "newUsers", "usersMade", "list",
               "readyOld", "usersChanged", "syncing", "update", "synced", "drop", "unlist", "release"}
    /\ {finalizer, ready, stopped, listed, fresh, instanceFresh, clean} \subseteq {"no", "yes"}
    /\ edits \in 0..MaxEdits /\ failures \in 0..MaxFailures

Init ==
    /\ database = "absent" /\ finalizer = "no"
    /\ specPassword = "none" /\ specPrivileges = {}
    /\ ready = "no" /\ userReady = "none" /\ recorded = "none"
    /\ instance = "present" /\ stopped = "no" /\ listed = "no"
    /\ pdb = "absent" /\ pdbPassword = "none" /\ pdbPrivileges = {}
    /\ pc = "idle" /\ seenPassword = "none" /\ seenPrivileges = {}
    /\ fresh = "yes" /\ instanceFresh = "yes"
    /\ edits = 0 /\ failures = 0 /\ clean = "yes"

-----------------------------------------------------------------------------
(* What owners do.                                                         *)

Edits == edits < MaxEdits /\ edits' = edits + 1

\* A reconcile that runs has not seen the change.
Touch == fresh' = IF pc = "idle" THEN fresh ELSE "no"
TouchInstance == instanceFresh' = IF pc = "idle" THEN instanceFresh ELSE "no"

NoUser == specPassword' = "none" /\ specPrivileges' = {}

\* Create the Database, or change the user in its spec.
EditDatabase ==
    /\ database \in {"absent", "present"}
    /\ pc = "idle" \/ database = "present"
    /\ Edits
    /\ database' = "present"
    /\ NoUser \/ (specPassword' \in Passwords /\ specPrivileges' \in Wanted)
    /\ Touch
    /\ UNCHANGED <<seen, finalizer, status, owner, pluggable, pc, instanceFresh, failures, clean>>

\* An object without a finalizer is gone at once, with its status.
Removed ==
    /\ database' = "absent"
    /\ finalizer' = "no"
    /\ NoUser
    /\ ready' = "no" /\ userReady' = "none" /\ recorded' = "none"

Deleted ==
    /\ Touch
    /\ IF finalizer = "yes"
       THEN database' = "deleting" /\ UNCHANGED <<finalizer, specPassword, specPrivileges, status>>
       ELSE Removed

DeleteDatabase ==
    /\ database = "present"
    /\ Deleted
    /\ UNCHANGED <<seen, owner, pluggable, pc, instanceFresh, bounds>>

DeleteInstance ==
    /\ instance = "present"
    /\ instance' = "deleting"
    /\ TouchInstance
    /\ UNCHANGED <<seen, object, status, stopped, listed, pluggable, pc, fresh, bounds>>

StopOrStart ==
    /\ instance = "present"
    /\ Edits
    /\ stopped' = IF stopped = "yes" THEN "no" ELSE "yes"
    /\ TouchInstance
    /\ UNCHANGED <<seen, object, status, instance, listed, pluggable, pc, fresh, failures, clean>>

-----------------------------------------------------------------------------
(* ReconcileDatabaseCreation.                                              *)

\* The daemon answers, and CheckStatus finds the database, while the pod runs.
Reachable == instance # "gone" /\ stopped = "no"

Goto(l) == pc' = l

EndReconcile ==
    /\ Goto("idle")
    /\ seenPassword' = "none" /\ seenPrivileges' = {}
    /\ fresh' = "yes" /\ instanceFresh' = "yes"

\* One password, or one secret, that is an identifier.
validateSpec == specPassword \notin Invalid

Begin_NoFinalizer ==
    /\ pc = "idle"
    /\ database = "present"
    /\ validateSpec /\ Reachable
    /\ Goto("create")
    /\ seenPassword' = specPassword /\ seenPrivileges' = specPrivileges
    /\ UNCHANGED <<object, status, owner, pluggable, fresh, instanceFresh, bounds>>

\* The checks before anything is done: the pod, the CDB and the load balancer.
Begin ==
    /\ pc = "idle"
    /\ database = "present"
    /\ validateSpec /\ Reachable
    /\ Goto(IF finalizer = "yes" THEN "create" ELSE "finalize")
    /\ seenPassword' = specPassword /\ seenPrivileges' = specPrivileges
    /\ UNCHANGED <<object, status, owner, pluggable, fresh, instanceFresh, bounds>>

\* handlePreflightCheckError
PreflightFails ==
    /\ pc = "idle"
    /\ database = "present"
    /\ ~ (validateSpec /\ Reachable)
    /\ ready = "yes"
    /\ ready' = "no"
    /\ UNCHANGED <<object, userReady, recorded, owner, pluggable, control, bounds>>

AddFinalizer ==
    /\ pc = "finalize"
    /\ fresh = "yes"
    /\ finalizer' = "yes"
    /\ Goto("create")
    /\ UNCHANGED <<seen, database, specPassword, specPrivileges, status, owner, pluggable, fresh,
                   instanceFresh, bounds>>

\* v$pdbs has the pluggable database.
alreadyExists == pdb # "absent"

\* A pluggable database that exists is left as it is.
CreateDatabase == pdb' = IF alreadyExists THEN pdb ELSE "mounted"

NewDatabase ==
    /\ pc = "create"
    /\ Reachable
    /\ CreateDatabase
    /\ Goto(IF alreadyExists THEN "readyOld" ELSE "open")
    /\ UNCHANGED <<seen, object, status, owner, pdbPassword, pdbPrivileges, fresh, instanceFresh, bounds>>

OpenDatabase ==
    /\ pc = "open"
    /\ Reachable
    /\ pdb' = "open"
    /\ Goto("readyNew")
    /\ UNCHANGED <<seen, object, status, owner, pdbPassword, pdbPrivileges, fresh, instanceFresh, bounds>>

SetReady ==
    /\ pc \in {"readyNew", "readyOld"}
    /\ fresh = "yes"
    /\ ready' = "yes"
    /\ Goto(IF pc = "readyNew" THEN "newUsers" ELSE "usersChanged")
    /\ UNCHANGED <<seen, object, userReady, recorded, owner, pluggable, fresh, instanceFresh, bounds>>

\* Privileges after S was granted to, or revoked from, a user that has P.
grant(P, S) == P \union S \union UNION {Implied[r] : r \in S \intersect Roles}
revoke(P, S) == (P \ S) \ UNION {Implied[r] : r \in S \intersect Roles}

\* The grants are statements of their own, of which the first one that fails is
\* the last.
PartlyGranted(P, S) == {grant(P, T) : T \in SUBSET S}

\* The user first, then its privileges.  NewUsers goes on after an error in either.
CreateUsers ==
    /\ pc = "newUsers"
    /\ \/ UNCHANGED <<pdbPassword, pdbPrivileges>>
       \/ /\ Reachable
          /\ pdbPassword' = seenPassword
          /\ pdbPrivileges' \in PartlyGranted({}, seenPrivileges)
    /\ Goto("usersMade")
    /\ UNCHANGED <<seen, object, status, owner, pdb, fresh, instanceFresh, bounds>>

NewUsers ==
    /\ pc = "usersMade"
    /\ fresh = "yes"
    /\ userReady' = "CreateComplete"
    /\ recorded' = seenPassword
    /\ Goto("list")
    /\ UNCHANGED <<seen, object, ready, owner, pluggable, fresh, instanceFresh, bounds>>

\* The Instance was read when the reconcile began.
ListInInstance ==
    /\ pc = "list"
    /\ instanceFresh = "yes" /\ instance # "gone"
    /\ listed' = "yes"
    /\ EndReconcile
    /\ UNCHANGED <<object, status, instance, stopped, pluggable, bounds>>

-----------------------------------------------------------------------------
(* SyncUsers, for a pluggable database that existed.                       *)

toCreate == seenPassword # "none" /\ pdbPassword = "none"
toDelete == seenPassword = "none" /\ pdbPassword # "none"
toUpdate == seenPassword # "none" /\ pdbPassword # "none" /\ pdbPrivileges # seenPrivileges

toUpdatePwd_Never == FALSE

\* user.diff compares the password of the spec with the one recorded last.
toUpdatePwd == /\ seenPassword # "none" /\ pdbPassword # "none"
               /\ recorded # "none" /\ recorded # seenPassword

\* The users of a pluggable database that is not open cannot be read.
readEnv == Reachable /\ pdb = "open"

UsersChanged ==
    /\ pc = "usersChanged"
    /\ readEnv
    /\ Goto(IF toCreate \/ toUpdate \/ toUpdatePwd THEN "syncing" ELSE "synced")
    /\ UNCHANGED <<seen, object, status, owner, pluggable, fresh, instanceFresh, bounds>>

SetSyncInProgress ==
    /\ pc = "syncing"
    /\ fresh = "yes"
    /\ userReady' = "SyncInProgress"
    /\ Goto("update")
    /\ UNCHANGED <<seen, object, ready, recorded, owner, pluggable, fresh, instanceFresh, bounds>>

\* What compare finds between the spec and a user that has P.
ToGrant(P) == seenPrivileges \ P
ToRevoke(P) == P \ seenPrivileges

\* The user is altered to have what the spec has among the privileges in K.
updatePrivs(P, K) ==
    revoke(grant(P, ToGrant(P) \intersect K), ToRevoke(P) \intersect K)

updateRolePrivs(P) == updatePrivs(P, Roles)
updateSysPrivs(P) == updatePrivs(P, Privileges \ Roles)

update_SysPrivsFirst(P) == updateRolePrivs(updateSysPrivs(P))

\* Roles first: granting and revoking one changes system privileges.
update(P) == updateSysPrivs(updateRolePrivs(P))

\* What an update that fails leaves: a grant may be done and the revocation not.
PartlyUpdated(P) ==
    LET R == updateRolePrivs(P)
    IN  PartlyGranted(P, ToGrant(P) \intersect Roles) \union {R, update(P)}
        \union PartlyGranted(R, ToGrant(R) \ Roles)

\* A user, with its password and its grants.
create == <<seenPassword, grant({}, seenPrivileges)>>

PartlyCreated ==
    {<<pdbPassword, pdbPrivileges>>} \union
    {<<seenPassword, P>> : P \in PartlyGranted({}, seenPrivileges)}

updatePassword == IF toUpdatePwd THEN seenPassword ELSE pdbPassword

\* The user when all changes, or some of them, are made.
Changed ==
    IF toCreate THEN create
    ELSE <<updatePassword, IF toUpdate THEN update(pdbPrivileges) ELSE pdbPrivileges>>

PartlyChanged ==
    IF toCreate THEN PartlyCreated
    ELSE {pdbPassword, updatePassword} \X PartlyUpdated(pdbPrivileges)

SetUser(user) == pdbPassword' = user[1] /\ pdbPrivileges' = user[2]

\* UpdateUsers goes through all changes; after an error in one of them the
\* reconcile ends.
UpdateUsers ==
    /\ pc = "update"
    /\ readEnv
    /\ \/ /\ SetUser(Changed)
          /\ Goto("synced") /\ UNCHANGED <<seen, fresh, instanceFresh, failures, clean>>
       \/ /\ \E user \in PartlyChanged : SetUser(user)
          /\ failures < MaxFailures /\ failures' = failures + 1
          /\ EndReconcile /\ clean' = "no"
    /\ UNCHANGED <<object, status, owner, pdb, edits>>

SyncUsers ==
    /\ pc = "synced"
    /\ fresh = "yes"
    /\ userReady' = IF toDelete THEN "UserOutOfSync" ELSE "SyncComplete"
    /\ recorded' = seenPassword
    /\ clean' = IF toDelete THEN "no" ELSE clean
    /\ EndReconcile
    /\ UNCHANGED <<object, ready, owner, pluggable, edits, failures>>

-----------------------------------------------------------------------------
(* ReconcileDatabaseDeletion, which needs the Instance, and the deletion   *)
(* of the Instance.                                                        *)

BeginDeletion_KeepsName ==
    /\ pc = "idle"
    /\ database = "deleting"
    /\ instance # "gone"
    /\ Goto(IF stopped = "yes" THEN "release" ELSE "drop")
    /\ seenPassword' = specPassword /\ seenPrivileges' = specPrivileges
    /\ UNCHANGED <<object, status, owner, pluggable, fresh, instanceFresh, bounds>>

BeginDeletion ==
    /\ pc = "idle"
    /\ database = "deleting"
    /\ instance # "gone"
    /\ Goto(IF stopped = "yes" THEN "unlist" ELSE "drop")
    /\ seenPassword' = specPassword /\ seenPrivileges' = specPrivileges
    /\ UNCHANGED <<object, status, owner, pluggable, fresh, instanceFresh, bounds>>

DropDatabase ==
    /\ pc = "drop"
    /\ Reachable
    /\ pdb' = "absent" /\ pdbPassword' = "none" /\ pdbPrivileges' = {}
    /\ Goto("unlist")
    /\ UNCHANGED <<seen, object, status, owner, fresh, instanceFresh, bounds>>

Unlist ==
    /\ pc = "unlist"
    /\ instanceFresh = "yes" /\ instance # "gone"
    /\ listed' = "no"
    /\ Goto("release")
    /\ UNCHANGED <<seen, object, status, instance, stopped, pluggable, fresh, instanceFresh, bounds>>

RemoveFinalizer ==
    /\ pc = "release"
    /\ fresh = "yes"
    /\ Removed
    /\ EndReconcile
    /\ UNCHANGED <<owner, pluggable, bounds>>

ReconcileInstanceDeletion_Waits ==
    /\ instance = "deleting"
    /\ listed = "no"
    /\ instance' = "gone"
    /\ TouchInstance
    /\ UNCHANGED <<object, status, fresh, seen, stopped, listed, pluggable, pc, bounds>>

\* DatabaseNames has the names of the pluggable databases, by which the
\* Database objects are looked up; the first that is not found ends the
\* reconcile, without an error.
ReconcileInstanceDeletion ==
    /\ instance = "deleting"
    /\ \/ /\ listed = "no"
          /\ instance' = "gone"
          /\ TouchInstance
          /\ UNCHANGED <<object, status, fresh>>
       \/ /\ listed = "yes"
          /\ SameName = "yes"
          /\ database = "present"
          /\ Deleted
          /\ UNCHANGED <<instance, instanceFresh>>
    /\ UNCHANGED <<seen, stopped, listed, pluggable, pc, bounds>>

-----------------------------------------------------------------------------
Refused ==
    \/ pc \in {"finalize", "readyNew", "usersMade", "readyOld", "syncing", "synced", "release"}
         /\ fresh = "no"
    \/ pc \in {"list", "unlist"} /\ (instanceFresh = "no" \/ instance = "gone")
    \/ pc \in {"create", "open", "drop"} /\ ~ Reachable
    \/ pc \in {"usersChanged", "update"} /\ ~ readEnv

\* A conflict, an error or the end of the operator process.
CutShort ==
    /\ pc # "idle"
    /\ \/ Refused /\ UNCHANGED failures
       \/ failures < MaxFailures /\ failures' = failures + 1
    /\ EndReconcile
    /\ clean' = IF pc \in {"open", "readyNew", "newUsers", "usersMade", "list", "update", "synced"}
                THEN "no" ELSE clean
    /\ UNCHANGED <<object, status, owner, pluggable, edits>>

Creation ==
    \/ AddFinalizer \/ NewDatabase \/ OpenDatabase \/ SetReady \/ CreateUsers \/ NewUsers
    \/ ListInInstance \/ UsersChanged \/ SetSyncInProgress \/ UpdateUsers \/ SyncUsers

Deletion == DropDatabase \/ Unlist \/ RemoveFinalizer

Next ==
    \/ EditDatabase \/ DeleteDatabase \/ DeleteInstance \/ StopOrStart
    \/ Begin \/ PreflightFails \/ Creation
    \/ BeginDeletion \/ Deletion \/ ReconcileInstanceDeletion
    \/ CutShort

Spec == Init /\ [][Next]_vars

\* Every Database is reconciled again, at the latest after the resync period.
Fairness ==
    /\ SF_vars(Begin) /\ SF_vars(BeginDeletion)
    /\ WF_vars(Creation \/ Deletion \/ (Refused /\ CutShort))
    /\ WF_vars(ReconcileInstanceDeletion)

FairSpec == Spec /\ Fairness

-----------------------------------------------------------------------------
\* A name in status.databaseNames is that of a Database that still exists and
\* has the finalizer: the deletion of the Instance waits for it to be removed.
ListedMeansExists == listed = "yes" => database # "absent" /\ finalizer = "yes"

\* The finalizer guards the pluggable database: nothing is made without it, and
\* it goes only when the pluggable database is dropped, unless the Instance was
\* stopped meanwhile or the deletion came to a stopped one.
FinalizerGuardsPdb ==
    [][/\ (pdb = "absent" /\ pdb' # "absent") => finalizer = "yes"
       /\ (finalizer = "yes" /\ finalizer' = "no" /\ stopped = "no" /\ instanceFresh = "yes")
            => pdb' = "absent"]_vars

\* The user of the spec gets its privileges and, unless a record of what was
\* done is missing, its password (SyncUsers), also when CreateUsers has failed.
UsersConverge ==
    specPassword # "none" /\ database = "present" ~>
        \/ pdbPrivileges = specPrivileges /\ (clean = "no" \/ pdbPassword = specPassword)
        \/ specPassword = "none" \/ ~ validateSpec \/ database # "present" \/ ~ Reachable \/ pdb = "mounted"

\* A user that is about to be reported in sync has the privileges of the spec
\* that the reconcile read, although a role takes system privileges along when it
\* is revoked: that is why UpdateUsers says that it "will first update role and
\* then update sys privi".
SyncedMeansGranted ==
    pc = "synced" /\ seenPassword # "none" => seenPrivileges \subseteq pdbPrivileges

\* The deletion of an Instance ends: its Database is deleted first.
InstanceDeletionEnds == instance = "deleting" ~> instance = "gone"
=============================================================================
