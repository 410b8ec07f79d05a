----------------------------- MODULE MCDatabase -----------------------------
(* Small instances of Drafts and Migrations for TLC.  They share no state: *)
(* one of them runs in a behaviour, and the other stays as it begins.      *)
EXTENDS MCDrafts, Migrations

VARIABLE part

MCInit ==
    /\ part \in {"drafts", "migrations"}
    /\ Init /\ MigrationsInit
    /\ part = "drafts" => applied = {}

\* The server serves, and the commands are over.
Rests == \A x \in Proc : proc[x].pc \in {"migrated", "failed", "done"}

MCNext ==
    \/ part = "drafts" /\ Next /\ UNCHANGED <<part, migrationsVars>>
    \/ part = "migrations" /\ MigrationsNext /\ UNCHANGED <<part, vars>>
    \/ part = "migrations" /\ Rests /\ UNCHANGED <<part, vars, migrationsVars>>

MCSpec == MCInit /\ [][MCNext]_<<part, vars, migrationsVars>>
=============================================================================
