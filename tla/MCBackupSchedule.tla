-------------------------- MODULE MCBackupSchedule --------------------------
(* Policies and schedule changes for model checking BackupSchedule.        *)
EXTENDS BackupSchedule

Conf(owned, policy, limit, keep, age, dl, pauses) ==
    [owned |-> owned, policy |-> policy, limit |-> limit, keep |-> keep, age |-> age,
     deadline |-> dl, pauses |-> pauses]

\* A BackupSchedule without a deadline, and CronAnythings of users.
MCConfs ==
    {Conf(TRUE, "Forbid", NoLimit, NoLimit, NoLimit, NoLimit, FALSE),
     Conf(FALSE, "Forbid", NoLimit, 1, NoLimit, 1, TRUE),
     Conf(FALSE, "Replace", NoLimit, NoLimit, 1, NoLimit, FALSE),
     Conf(FALSE, "Allow", 2, NoLimit, NoLimit, NoLimit, FALSE)}

MoreOften == {<<2, 1>>}
=============================================================================
