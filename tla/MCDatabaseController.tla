------------------------ MODULE MCDatabaseController ------------------------
(* One role, which brings the one system privilege along: owners ask for    *)
(* either of them.                                                         *)
EXTENDS DatabaseController

MCImplied == [r \in {"dba"} |-> {"unlimited tablespace"}]
=============================================================================
