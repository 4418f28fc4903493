----------------------------- MODULE MCDataPump -----------------------------
(* Two data pump jobs with one other request, or one with two others, and   *)
(* pairs of physical backups, restores and patches.                        *)
EXTENDS DataPump

CONSTANTS l1, l2, o1, o2

Plan(k1, k2, k3, k4) ==
    [r \in {l1, l2, o1, o2} |->
        CASE r = l1 -> k1 [] r = l2 -> k2 [] r = o1 -> k3 [] r = o2 -> k4]

MCPlans ==
    {Plan("Import", "Export", "Shutdown", "None"), Plan("Export", "None", "Patch", "Shutdown"),
     Plan("Import", "None", "Patch", "Patch"), Plan("Import", "None", "Shutdown", "Startup"),
     Plan("Export", "None", "Patch", "RMAN"),
     Plan("None", "None", "Backup", "Backup"), Plan("None", "None", "Backup", "Restore"),
     Plan("None", "None", "Restore", "Patch"), Plan("Export", "None", "Restore", "Shutdown")}
=============================================================================
