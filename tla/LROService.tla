----------------------------- MODULE LROService -----------------------------
(***************************************************************************)
(* What the operator's controllers may rely on when they run a long        *)
(* operation (a backup, a restore, a data pump job...) in the database     *)
(* daemon under an operation ID of their choice: an operation is started   *)
(* at most once while it is known, a running one never disappears and its  *)
(* outcome never changes.  What they may not rely on: a known outcome      *)
(* expires, and everything is forgotten when the daemon restarts.          *)
(* Module LROServer, the in-memory server of the daemon, implements this.  *)
(***************************************************************************)
CONSTANT Ids            \* operation IDs

VARIABLE op             \* [Ids -> state of the operation]

Outcomes == {"ok", "error"}

OpStates == {"absent", "running"} \union Outcomes

ServiceTypeOK == op \in [Ids -> OpStates]

ServiceInit == op = [id \in Ids |-> "absent"]

\* An unknown operation is started.
Start(id) ==
    /\ op[id] = "absent"
    /\ op' = [op EXCEPT ![id] = "running"]

\* A running operation ends, with a response or with an error.
Finish(id, outcome) ==
    /\ op[id] = "running"
    /\ op' = [op EXCEPT ![id] = outcome]

\* Operations that have ended are forgotten, several in one sweep.
Expire(S) ==
    /\ \A id \in S : op[id] \in Outcomes
    /\ op' = [id \in Ids |-> IF id \in S THEN "absent" ELSE op[id]]

\* The daemon restarts: every operation is forgotten, running ones die.
Forget == op' = [id \in Ids |-> "absent"]

ServiceNext ==
    \/ \E id \in Ids :
          \/ Start(id)
          \/ \E outcome \in Outcomes : Finish(id, outcome)
    \/ \E S \in SUBSET Ids : Expire(S)
    \/ Forget

ServiceSpec == ServiceInit /\ [][ServiceNext]_op
=============================================================================
