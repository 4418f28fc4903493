------------------------------ MODULE DbDaemon ------------------------------
(***************************************************************************)
(* The requests that run at the same time in the database daemon of an     *)
(* instance, the mutexes they share and what they do to the database: the  *)
(* RWMutex of databaseSid, taken for writing by SQL and by the data patch  *)
(* and for reading by RMAN and by bounces, the mutex of the data pump jobs *)
(* and the mutex of maintenance.  SQL is short: RunSQLPlus locks, runs and *)
(* unlocks in one step.  So is a call of the database daemon proxy, which  *)
(* serialises its calls by a mutex of its own.                             *)
(*                                                                         *)
(* Oracle's tools are external.  A tool is given the time between two      *)
(* steps; shutting the database down cuts the data pump jobs that run.     *)
(***************************************************************************)
EXTENDS Naturals, FiniteSets

CONSTANTS
    Loads,      \* data pump requests, each one started for one object
    Others,     \* all other requests
    Plans       \* the assignments of kinds to requests that are considered

Requests == Loads \union Others

\* "None" is a request that is not made.
LoadKinds == {"Import", "Export", "None"}

\* RMAN stands for all that only reads databaseSid: RunRMAN, RunDataGuard
\* and KnownPDBs.  Backup and Restore are the jobs of module PhysicalJobs.
OtherKinds == {"RMAN", "Shutdown", "Startup", "Patch", "Backup", "Restore", "None"}

ASSUME DisjointRequests == Loads \intersect Others = {}

ASSUME PlansOfKinds ==
    \A plan \in Plans : /\ plan \in [Requests -> LoadKinds \union OtherKinds]
                        /\ \A r \in Loads : plan[r] \in LoadKinds
                        /\ \A r \in Others : plan[r] \in OtherKinds

VARIABLES
    kind,           \* what each request is; it never changes
    pc,             \* where the request is
    op,             \* the operations of the daemon: data pump jobs
    sidWriter,      \* the request that has databaseSid locked, if any
    sidReaders,     \* the requests that have databaseSid locked for reading
    loader,         \* the request that holds pdbLoadMutex, if any
    maintainer,     \* the request that holds maintenanceMutex, if any
    mode,           \* the mode of the database
    spfile,         \* whether the database has its server parameter file
    loaderPassword, \* the request that set the password of PDBLoaderUser last
    cut,            \* data pump jobs whose database went down under them
    dumped          \* data pump requests whose last tool reached its end

daemonVars == <<kind, pc, op, sidWriter, sidReaders, loader, maintainer, 
                mode, spfile, loaderPassword, cut, dumped>>

LRO == INSTANCE LROService WITH Ids <- Loads

Modes == {"open", "cdbOpen", "down", "nomount", "mount", "upgrade"}

Pcs == {"idle", "queued", "done",
        "rman",                                           \* RunRMAN
        "bounce", "pfile",                                \* BounceDatabase
        "lockMaintenance", "shutdown", "nomount", "upgrade", "datapatch",
        "shutdownAgain", "startup", "openPDBs", "datapatchAgain",
        "download", "alter", "meta", "tablespaces", "pumping", "upload",  \* data pump
        "backupData", "backupControl", "copyOut",         \* physical backup
        "copyIn", "createDirs", "restoreQueued", "restoreFiles", "restoreDatabase",
        "latestSCN", "recoverQueued", "recover"}          \* physical restore

DaemonTypeOK ==
    /\ kind \in [Requests -> LoadKinds \union OtherKinds]
    /\ pc \in [Requests -> Pcs]
    /\ LRO!ServiceTypeOK
    /\ sidWriter \in SUBSET Requests /\ Cardinality(sidWriter) <= 1
    /\ sidReaders \in SUBSET Requests
    /\ loader \in SUBSET Loads /\ Cardinality(loader) <= 1
    /\ maintainer \in SUBSET Others /\ Cardinality(maintainer) <= 1
    /\ mode \in Modes
    /\ spfile \in BOOLEAN
    /\ loaderPassword \in SUBSET Loads
    /\ cut \in SUBSET Loads
    /\ dumped \in SUBSET Loads

\* The database of a provisioned instance is open; the daemon has just started.
DaemonInit ==
    /\ kind \in Plans
    /\ pc = [r \in Requests |-> "idle"]
    /\ LRO!ServiceInit
    /\ sidWriter = {} /\ sidReaders = {} /\ loader = {} /\ maintainer = {}
    /\ mode = "open" /\ spfile = TRUE
    /\ loaderPassword = {}
    /\ cut = {}
    /\ dumped = {}

-----------------------------------------------------------------------------
(* The mutexes.                                                            *)

MayWriteSid == sidWriter = {} /\ sidReaders = {}

MayReadSid == sidWriter = {}

Goto(r, l) == pc' = [pc EXCEPT ![r] = l]

\* The deferred unlocks of r run.
Unlock(r) ==
    /\ sidWriter' = sidWriter \ {r}
    /\ sidReaders' = sidReaders \ {r}
    /\ loader' = loader \ {r}
    /\ maintainer' = maintainer \ {r}

\* The handler of r returns, with or without an error.
Return(r) ==
    /\ Goto(r, "done")
    /\ Unlock(r)
    /\ UNCHANGED op

\* The data pump job r returns.
EndJob(r, outcome) ==
    /\ Goto(r, "idle")
    /\ Unlock(r)
    /\ LRO!Finish(r, outcome)
    /\ cut' = cut \ {r}

locks == <<sidWriter, sidReaders, loader, maintainer>>
database == <<mode, spfile, cut, dumped>>

\* From the step of r at one place to the next, taking no lock.
Advance(r, from, to) ==
    /\ pc[r] = from
    /\ Goto(r, to)
    /\ UNCHANGED <<kind, op, locks>>

\* The same, locking databaseSid.
LockSid(r, from, to) ==
    /\ pc[r] = from
    /\ MayWriteSid
    /\ sidWriter' = {r}
    /\ Goto(r, to)
    /\ UNCHANGED <<kind, op, sidReaders, loader, maintainer, loaderPassword, database>>

RLockSid(r, from, to) ==
    /\ pc[r] = from
    /\ MayReadSid
    /\ sidReaders' = sidReaders \union {r}
    /\ Goto(r, to)
    /\ UNCHANGED <<kind, op, sidWriter, loader, maintainer, loaderPassword, database>>

\* SQL and data pump need the pluggable databases.
Up == mode = "open"

\* RunSQLPlus, as far as other requests can tell: databaseSid was free.  It
\* fails without the database.
RunSQLPlus(works) == MayWriteSid /\ (works <=> Up)

\* The database changes to mode m and drops its sessions: those of the data
\* pump jobs that run.
Terminate(m) ==
    /\ mode' = m
    /\ cut' = cut \union {r \in Loads : pc[r] \in {"meta", "pumping"}}

\* Also when the database is down already.
ShutdownDatabase == Terminate("down") /\ UNCHANGED <<spfile, dumped>>

MayStart == mode = "down" /\ spfile

StartupDatabase(m) ==
    /\ MayStart
    /\ mode' = m
    /\ UNCHANGED <<spfile, cut, dumped>>

-----------------------------------------------------------------------------
(* Requests that are not data pump jobs.                                   *)

RunRMAN(r) ==
    \/ kind[r] = "RMAN" /\ RLockSid(r, "idle", "rman")
    \/ /\ kind[r] = "RMAN" /\ pc[r] = "rman"
       /\ Return(r)
       /\ UNCHANGED <<kind, loaderPassword, database>>

\* A shutdown succeeds also when the database is down, a startup only then;
\* after a startup the daemon saves the server parameter file.
BounceDatabase(r) ==
    \/ kind[r] \in {"Shutdown", "Startup"} /\ RLockSid(r, "idle", "bounce")
    \/ /\ kind[r] = "Shutdown" /\ pc[r] = "bounce"
       /\ ShutdownDatabase
       /\ Return(r)
       /\ UNCHANGED <<kind, loaderPassword>>
    \/ /\ kind[r] = "Startup" /\ Advance(r, "bounce", "pfile")
       /\ StartupDatabase("open")
       /\ UNCHANGED loaderPassword
    \/ /\ kind[r] = "Startup" /\ pc[r] = "bounce" /\ ~MayStart
       /\ Return(r)
       /\ UNCHANGED <<kind, loaderPassword, database>>

\* The daemon's part after a startup.
BackupConfigFile(r) ==
    /\ kind[r] = "Startup" /\ pc[r] = "pfile"
    /\ Return(r)
    /\ UNCHANGED <<kind, loaderPassword, database>>

-----------------------------------------------------------------------------
(* ApplyDataPatchAsync: databaseSid is locked around the whole patch.      *)

LockForPatch_Shared(r) == RLockSid(r, "idle", "lockMaintenance")

LockForPatch(r) == LockSid(r, "idle", "lockMaintenance")

PatchPcs == {"lockMaintenance", "shutdown", "nomount", "upgrade", "datapatch",
             "shutdownAgain", "startup", "openPDBs", "datapatchAgain"}

\* The database is mounted and opened, with its pluggable databases, for an
\* upgrade.
SetDatabaseUpgradeMode(r) ==
    /\ Advance(r, "upgrade", "datapatch") /\ mode = "nomount"
    /\ mode' = "upgrade"
    /\ UNCHANGED <<spfile, cut, dumped>>

OpenPDBs(r) ==
    /\ Advance(r, "openPDBs", "datapatchAgain") /\ mode = "cdbOpen"
    /\ mode' = "open"
    /\ UNCHANGED <<spfile, cut, dumped>>

PatchStep(r) ==
    \/ /\ pc[r] = "lockMaintenance" /\ maintainer = {}
       /\ maintainer' = {r}
       /\ Goto(r, "shutdown")
       /\ UNCHANGED <<kind, op, sidWriter, sidReaders, loader, database>>
    \/ Advance(r, "shutdown", "nomount") /\ ShutdownDatabase
    \/ Advance(r, "nomount", "upgrade") /\ StartupDatabase("nomount")
    \/ SetDatabaseUpgradeMode(r)
    \/ Advance(r, "datapatch", "shutdownAgain") /\ UNCHANGED database
    \/ Advance(r, "shutdownAgain", "startup") /\ ShutdownDatabase
    \/ Advance(r, "startup", "openPDBs") /\ StartupDatabase("cdbOpen")
    \/ OpenPDBs(r)

\* The patch returns when it is done or when a step fails; the database then
\* stays as it is.
ApplyDataPatch(r) ==
    /\ kind[r] = "Patch"
    /\ \/ LockForPatch(r)
       \/ PatchStep(r) /\ UNCHANGED loaderPassword
       \/ /\ pc[r] \in PatchPcs \ {"lockMaintenance"}
          /\ Return(r)
          /\ UNCHANGED <<kind, loaderPassword, database>>

-----------------------------------------------------------------------------
(* Data pump jobs.                                                         *)

LockForLoad_Unlocked(r) ==
    /\ pc[r] = "queued"
    /\ loader' = {r}
    /\ Goto(r, "download")
    /\ UNCHANGED <<kind, op, sidWriter, sidReaders, maintainer, loaderPassword, database>>

LockForLoad_HoldsSid(r) ==
    /\ pc[r] = "queued"
    /\ loader = {} /\ MayWriteSid
    /\ loader' = {r}
    /\ sidWriter' = {r}
    /\ Goto(r, "download")
    /\ UNCHANGED <<kind, op, sidReaders, maintainer, loaderPassword, database>>

\* The goroutine of the job starts.
QueueLoad(r) ==
    /\ kind[r] # "None"
    /\ LRO!Start(r)
    /\ Goto(r, "queued")
    /\ UNCHANGED <<kind, locks, loaderPassword, database>>

\* A job starts with pdbLoadMutex and keeps it to its end.
LockForLoad(r) ==
    /\ pc[r] = "queued"
    /\ loader = {}
    /\ loader' = {r}
    /\ Goto(r, "download")
    /\ UNCHANGED <<kind, op, sidWriter, sidReaders, maintainer, loaderPassword, database>>

\* dataPumpImport fetches the dump file.
FetchDump(r) ==
    /\ kind[r] = "Import" /\ Advance(r, "download", "alter")
    /\ UNCHANGED <<loaderPassword, database>>

\* dataPumpExport removes an old dump file.
RemoveOldDump(r) ==
    /\ kind[r] = "Export" /\ Advance(r, "download", "alter")
    /\ UNCHANGED <<loaderPassword, database>>

\* PDBLoaderUser gets a new random password; an export writes its parameter
\* file then.
SetupUserPwConnString(r) ==
    /\ Advance(r, "alter", IF kind[r] = "Import" THEN "meta" ELSE "pumping")
    /\ RunSQLPlus(TRUE)
    /\ loaderPassword' = {r}
    /\ dumped' = dumped \ {r}
    /\ UNCHANGED <<mode, spfile, cut>>

\* How a tool that connects as PDBLoaderUser exits: it cannot start unless the
\* password is the current one, and it cannot end well if the database went
\* down.  Code 5 is an end with complaints.
ExitCodes(r) ==
    IF Up /\ loaderPassword = {r} /\ r \notin cut THEN {0, 1, 5} ELSE {1}

ImportTolerates_All == {0, 1, 5}

\* dataPumpImport goes on after the codes 0 and 5.
ImportTolerates == {0, 5}

\* impdp for the metadata; impdp for the data comes after the tablespaces.
GatherMetadata(r) ==
    /\ Advance(r, "meta", "tablespaces")
    /\ ExitCodes(r) \intersect ImportTolerates # {}
    /\ UNCHANGED <<loaderPassword, database>>

\* The tablespaces that the metadata names and the database lacks are created,
\* as far as SQL works: errors are only logged.
CreateTablespacesFromSqlfile(r) ==
    /\ Advance(r, "tablespaces", "pumping")
    /\ \E works \in BOOLEAN : RunSQLPlus(works)
    /\ UNCHANGED <<loaderPassword, database>>

\* dataPumpExport goes on after every code but 5.
ExportTolerates == {0, 1}

Tolerates(r) == IF kind[r] = "Import" THEN ImportTolerates ELSE ExportTolerates

\* The tool exits; the job goes on or returns an error.
EndTool(r) ==
    /\ pc[r] = "pumping"
    /\ \E code \in ExitCodes(r) :
          /\ dumped' = IF code = 1 THEN dumped ELSE dumped \union {r}
          /\ IF code \in Tolerates(r)
             THEN Goto(r, "upload") /\ UNCHANGED <<op, cut, locks>>
             ELSE EndJob(r, "error")
    /\ UNCHANGED <<kind, loaderPassword, mode, spfile>>

\* The log, and for an export the dump, are uploaded.
Upload(r) ==
    /\ pc[r] = "upload"
    /\ \E outcome \in LRO!Outcomes : EndJob(r, outcome)
    /\ UNCHANGED <<kind, loaderPassword, mode, spfile, dumped>>

\* A step of the preparation fails.
LoadFails(r) ==
    /\ pc[r] \in {"download", "meta"} \/ (pc[r] = "alter" /\ MayWriteSid)
    /\ EndJob(r, "error")
    /\ UNCHANGED <<kind, loaderPassword, mode, spfile, dumped>>

LoadStep(r) ==
    \/ FetchDump(r) \/ RemoveOldDump(r) \/ SetupUserPwConnString(r)
    \/ GatherMetadata(r) \/ CreateTablespacesFromSqlfile(r) \/ EndTool(r)
    \/ Upload(r) \/ LoadFails(r)

OtherStep(r) ==
    \/ RunRMAN(r) \/ BounceDatabase(r) \/ BackupConfigFile(r)
    \/ ApplyDataPatch(r)

\* The outcome of a job is forgotten.
CollectJob(r) ==
    /\ LRO!Expire({r})
    /\ UNCHANGED <<kind, pc, locks, loaderPassword, database>>

\* The daemon restarts: its requests, its mutexes and the tools it runs are
\* gone; the database, in another container, stays as it is.
Restart ==
    /\ pc' = [r \in Requests |-> IF r \in Loads \/ pc[r] = "idle" THEN "idle" ELSE "done"]
    /\ LRO!Forget
    /\ sidWriter' = {} /\ sidReaders' = {} /\ loader' = {} /\ maintainer' = {}
    /\ cut' = {}
    /\ UNCHANGED <<kind, mode, spfile, loaderPassword, dumped>>

-----------------------------------------------------------------------------
\* A data pump tool runs with the password that PDBLoaderUser has: the jobs
\* all set it (dataPumpImport and dataPumpExport), so pdbLoadMutex must keep a
\* second job from setting it before the first one has ended.
LoaderPasswordIsCurrent ==
    \A r \in Loads :
        pc[r] \in {"meta", "tablespaces", "pumping"} =>
            loaderPassword = {r}

\* While a data patch is between the start of its upgrade mode and the end of
\* its first datapatch, the database is in that mode: no bounce, by the daemon
\* or by a second patch, gets in between (applyDataPatch under databaseSid).
PatchIsUninterrupted ==
    \A r \in Others :
        /\ pc[r] \in {"datapatch", "shutdownAgain"} => mode = "upgrade"
        /\ pc[r] = "upgrade" => mode = "nomount"
        /\ pc[r] \in {"nomount", "startup"} => mode = "down"
=============================================================================
