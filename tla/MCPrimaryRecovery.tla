------------------------ MODULE MCPrimaryRecovery ------------------------
(* Instances of PrimaryRecovery for TLC. *)
EXTENDS PrimaryRecovery

(* Lines in the log, commands, crashes and windows add up to at most Load. *)
CONSTANT Load
Bounded == Len(tpc_log) + Cardinality({c \in Cmd : fpc[c] # "new"})
             + crashes + Cardinality(spoiled) <= Load
=============================================================================
