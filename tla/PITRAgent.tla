----------------------------- MODULE PITRAgent -----------------------------
(***************************************************************************)
(* The agent of point-in-time recovery: three goroutines that copy the     *)
(* archived redo logs of a database to a bucket, keep a catalog of them    *)
(* there, and delete what has expired; and the windows that it reports.    *)
(*                                                                         *)
(* Log i is written after log i - 1 and covers the instants from 2 * i,    *)
(* its first time, to 2 * i + 2, its next time and the first time of log   *)
(* i + 1.  Oracle writes the file of a log in place, so that the agent may *)
(* meet it half written; its time of modification tells the two states     *)
(* apart.                                                                  *)
(***************************************************************************)
EXTENDS Integers, FiniteSets

CONSTANTS
    MaxLog,         \* the logs are 1..MaxLog
    Threads,        \* replicationThreadCount
    MaxErrors       \* calls that fail, deadlines that pass, restarts of the agent

ASSUME AgentAssumption ==
    MaxLog \in Nat /\ Threads \in Nat \ {0} /\ MaxErrors \in Nat

Logs == 1..MaxLog

VARIABLES
    src,            \* the file of each log: absent, partial, complete or purged
    replica,        \* its copy in the bucket: none, partial, complete or broken
    hash,           \* the time of modification in the hash store, none or zero
    catalog,        \* the entry in the catalog: none, listed or replicated
    run,            \* the agent: off, starting, or on; or its replication is hung or lost
    lag,            \* archive_lag_target: zero or set
    sync,           \* where the thread of each log is: idle, validate, store
    errors,
    harmed          \* history: logs that met one of the accidents named below

agentVars == <<src, replica, hash, catalog, run, lag, sync, errors, harmed>>

NoEntries == [i \in Logs |-> "none"]
AllIdle == [i \in Logs |-> "idle"]

AgentTypeOK ==
    /\ src \in [Logs -> {"absent", "partial", "complete", "purged"}]
    /\ replica \in [Logs -> {"none", "partial", "complete", "broken"}]
    /\ hash \in [Logs -> {"none", "partial", "complete", "zero"}]
    /\ catalog \in [Logs -> {"none", "listed", "replicated"}]
    /\ run \in {"off", "starting", "on", "hung", "lost"}
    /\ lag \in {"zero", "set"}
    /\ sync \in [Logs -> {"idle", "validate", "store"}]
    /\ errors \in 0..MaxErrors
    /\ harmed \subseteq Logs

AgentInit ==
    /\ src = [i \in Logs |-> "absent"]
    /\ replica = NoEntries /\ hash = NoEntries /\ catalog = NoEntries
    /\ run = "off" /\ lag \in {"zero", "set"} /\ sync = AllIdle
    /\ errors = 0
    /\ harmed = {}

Fails == errors < MaxErrors /\ errors' = errors + 1

-----------------------------------------------------------------------------
(* The database.                                                           *)

Written(i) == src[i] \in {"complete", "purged"}
Exists(i) == src[i] \in {"partial", "complete"}

FirstTime(i) == 2 * i
NextTime(i) == 2 * i + 2

\* The log that is being written, or the one after the last.
Current == Cardinality({i \in Logs : Written(i)}) + 1

\* The next log appears and is completed; a lag that is set sees to it even if there
\* is little to write.  Accident: a copy of it has been validated,
\* and the time of modification is still to be read.
WriteLog ==
    /\ Current \in Logs
    /\ src' = [src EXCEPT ![Current] = IF @ = "absent" THEN "partial" ELSE "complete"]
    /\ harmed' = IF sync[Current] = "store" THEN harmed \cup {Current} ELSE harmed
    /\ UNCHANGED <<replica, hash, catalog, run, lag, sync, errors>>

\* The database deletes an archived log to make room.
PurgeLog(i) ==
    /\ src[i] = "complete"
    /\ src' = [src EXCEPT ![i] = "purged"]
    /\ UNCHANGED <<replica, hash, catalog, run, lag, sync, errors, harmed>>

-----------------------------------------------------------------------------
(* The start of the agent.                                                 *)

\* A lag that is set already stays.
SetArchiveLag == lag' = "set"

\* Needs the directory of the archived logs.
RunLogReplication == run' = "on"

StartAgent ==
    /\ run = "starting" /\ SetArchiveLag /\ RunLogReplication
    /\ UNCHANGED <<src, replica, hash, catalog, sync, errors, harmed>>

\* One of the calls fails: the process ends and is started again.
StartFails ==
    /\ run = "starting" /\ Fails
    /\ SetArchiveLag \/ UNCHANGED lag
    /\ UNCHANGED <<src, replica, hash, catalog, run, sync, harmed>>

Running == run \notin {"off", "starting"}

\* The agent ends while it runs.
RestartAgent ==
    /\ Running /\ Fails
    /\ run' = "starting" /\ sync' = AllIdle
    /\ UNCHANGED <<src, replica, hash, catalog, lag, harmed>>

-----------------------------------------------------------------------------
(* Replication.  A run follows a run, and hands every file to a thread.    *)

Busy == {i \in Logs : sync[i] # "idle"}

\* syncTimeout passes in a run that has files left to hand out: the threads leave, and
\* the walk waits for ever for one that takes the next file.
Deadline ==
    /\ run = "on" /\ (\E i \in Logs : Exists(i)) /\ Fails
    /\ run' = "hung"
    /\ UNCHANGED <<src, replica, hash, catalog, lag, sync, harmed>>

\* After a run without errors the directory of the logs is asked for again, and it is
\* the answer to a question that failed that is used: an empty path.  No later run finds
\* a file there, or ends without errors to ask again.
LogDirIsLost ==
    /\ run = "on" /\ Busy = {} /\ Fails
    /\ run' = "lost"
    /\ UNCHANGED <<src, replica, hash, catalog, lag, sync, harmed>>

\* The time of modification, zero after an error.
mtime(i) == IF Exists(i) THEN src[i] ELSE "zero"

\* The file was never replicated, or was modified since.
changed(i) == hash[i] = "none" \/ hash[i] # src[i]

SyncEnds(i) == sync' = [sync EXCEPT ![i] = "idle"]

\* A copy that fails may leave what it has copied, for the writer is closed all the
\* same.  Accident: it overwrites a copy that the hash store calls good.
copy(i) ==
    \/ /\ replica' = [replica EXCEPT ![i] = src[i]]
       /\ sync' = [sync EXCEPT ![i] = "validate"]
       /\ (IF changed(i) THEN UNCHANGED errors ELSE Fails) /\ UNCHANGED harmed
    \/ /\ replica' = [replica EXCEPT ![i] = "broken"] /\ SyncEnds(i) /\ Fails
       /\ harmed' = IF hash[i] \in {"none", "partial"} THEN harmed ELSE harmed \cup {i}

\* A thread takes a file and copies it.  It passes over one that did not change, unless
\* the comparison ends with an error.
TakeFile(i) ==
    /\ run = "on" /\ Exists(i) /\ sync[i] = "idle" /\ Cardinality(Busy) < Threads
    /\ copy(i)
    /\ UNCHANGED <<src, hash, catalog, run, lag>>

SameHash(i) == src[i] = replica[i]

validateHash_Skipped(i) ==
    /\ sync[i] = "validate"
    /\ sync' = [sync EXCEPT ![i] = "store"]
    /\ UNCHANGED <<src, replica, hash, catalog, run, lag, errors, harmed>>

validateHash(i) ==
    /\ sync[i] = "validate"
    /\ sync' = [sync EXCEPT ![i] = IF SameHash(i) THEN "store" ELSE "idle"]
    /\ UNCHANGED <<src, replica, hash, catalog, run, lag, errors, harmed>>

\* The time of modification is read after the hashes.
storeHash(i) ==
    /\ sync[i] = "store" /\ SyncEnds(i)
    /\ hash' = [hash EXCEPT ![i] = mtime(i)]
    /\ UNCHANGED <<src, replica, catalog, run, lag, errors, harmed>>

SyncFails(i) ==
    /\ sync[i] \in {"validate", "store"} /\ Fails /\ SyncEnds(i)
    /\ UNCHANGED <<src, replica, hash, catalog, run, lag, harmed>>

-----------------------------------------------------------------------------
(* The catalog.                                                            *)

Entry_Kept(old, i) ==
    IF old # "none" THEN old ELSE IF hash[i] # "none" THEN "replicated" ELSE "listed"

\* An entry gets its replica as soon as the hash store knows it, and keeps it.
Entry(old, i) == IF old = "replicated" \/ hash[i] # "none" THEN "replicated" ELSE "listed"

\* The rows of v$archived_log are the logs that are complete and not deleted.  The lock
\* of the catalog is held from the read to the write and the other goroutines only add
\* hashes meanwhile, so the update takes place at its read.  A catalog that cannot be
\* read is taken for an empty one.  Accident: entries without a row are lost then.
metadataUpdate ==
    /\ Running
    /\ \E read \in {catalog, NoEntries} :
         /\ IF read = catalog THEN UNCHANGED errors ELSE Fails
         /\ catalog' = [i \in Logs |-> IF src[i] = "complete" THEN Entry(read[i], i) ELSE read[i]]
    /\ harmed' = harmed \cup {i \in Logs : catalog[i] = "replicated" /\ catalog'[i] = "none"}
    /\ UNCHANGED <<src, replica, hash, run, lag, sync>>

\* cleanUpLogs holds the lock of the catalog and deletes the copy of a log whose
\* retention has ended; the newest log is never that old.  The hash entry is then asked
\* for without the directory of the store, which the bucket refuses, and so the entry of
\* the catalog stays.  Accident: the entry outlives the copy.
deleteLog(i) ==
    /\ Running /\ Written(i) /\ i + 1 < Current
    /\ catalog[i] = "replicated" /\ replica[i] # "none"
    /\ replica' = [replica EXCEPT ![i] = "none"]
    /\ harmed' = harmed \cup {i}
    /\ UNCHANGED <<src, hash, catalog, run, lag, sync, errors>>

-----------------------------------------------------------------------------
(* The windows that the agent reports.                                     *)

\* The entries with a replica, joined while the next time of one is the first time of
\* another.
Merge ==
    LET S == {i \in Logs : catalog[i] = "replicated"}
    IN  {w \in S \X S : w[1] <= w[2] /\ w[1]..w[2] \subseteq S /\ {w[1] - 1, w[2] + 1} \cap S = {}}

Status == {<<FirstTime(w[1]), NextTime(w[2])>> : w \in Merge}

-----------------------------------------------------------------------------
AgentNext ==
    \/ WriteLog \/ StartAgent \/ StartFails \/ RestartAgent
    \/ Deadline \/ LogDirIsLost \/ metadataUpdate
    \/ \E i \in Logs : \/ PurgeLog(i) \/ TakeFile(i) \/ validateHash(i) \/ storeHash(i)
                       \/ SyncFails(i) \/ deleteLog(i)
=============================================================================
