------------------------------- MODULE Rollout -------------------------------
(***************************************************************************)
(* A release: instances boot against the gold database, and the operator   *)
(* runs the commands over the document database.  The two databases and    *)
(* the two programs share nothing, so each is followed by itself.          *)
(***************************************************************************)
EXTENDS SchemaMigrations, DataMigrations

VARIABLE stage

vars == <<stage, schemaVars, dataVars>>

Init ==
    /\ stage \in {"boot", "commands"}
    /\ SchemaInit
    /\ DataInit

Boots ==
    /\ stage = "boot"
    /\ SchemaNext
    /\ UNCHANGED <<stage, dataVars>>

RunsCommands ==
    /\ stage = "commands"
    /\ DataNext
    /\ UNCHANGED <<stage, schemaVars>>

Next == Boots \/ RunsCommands

Spec == Init /\ [][Next]_vars
==============================================================================
