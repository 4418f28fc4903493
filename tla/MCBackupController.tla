------------------------- MODULE MCBackupController -------------------------
(* A physical or a snapshot backup of two disks, or one that cannot be taken, *)
(* beside a Backup with spec.mode VerifyExists.                            *)
EXTENDS BackupController

CONSTANTS b1, b2

Pair(k1, k2) == [b \in {b1, b2} |-> IF b = b1 THEN k1 ELSE k2]

MCBackups == {b1, b2}

MCPlans ==
    {Pair("GcsDir", "VerifyExists"), Pair("Snapshot", "VerifyExists")}
      \union {Pair(k, "VerifyNothing") : k \in {"Local", "GcsPath", "Contradictory", "Unsupported"}}
=============================================================================
