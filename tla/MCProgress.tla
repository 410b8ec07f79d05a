----------------------------- MODULE MCProgress -----------------------------
(* Small instances of Drafts, Uploads, Extract and Migrations, for what    *)
(* they do in the end.  They share no state: one of them runs in a         *)
(* behaviour, and the others stay as they begin.                           *)
EXTENDS Drafts, Uploads, Extract, Migrations

CONSTANTS a, bad

VARIABLE part

\* One task, and one that breaks the either-or rule.
MCBatches == {<<a>>, <<a, bad>>}

MCZones == {-1, 0, 1}
MCRetentions == {0, 1}

\* At once, under the cap, and far over it.
MCRetryAfters == {0, 1, 9}

MCInit ==
    /\ part \in {"drafts", "uploads", "extract", "migrations"}
    /\ Init /\ UploadsInit /\ ExtractInit /\ MigrationsInit
    /\ part # "uploads" => zone = 0 /\ days = 0
    /\ part # "migrations" => applied = {}

DraftsRun(Action) ==
    part = "drafts" /\ Action /\ UNCHANGED <<part, uploadsVars, extractVars, migrationsVars>>
UploadsRun(Action) ==
    part = "uploads" /\ Action /\ UNCHANGED <<part, vars, extractVars, migrationsVars>>
ExtractRuns ==
    part = "extract" /\ ExtractNext /\ UNCHANGED <<part, vars, uploadsVars, migrationsVars>>
MigrationsRun(Action) ==
    part = "migrations" /\ Action /\ UNCHANGED <<part, vars, uploadsVars, extractVars>>

\* The server serves, and the commands are over.
Rests ==
    /\ \A x \in Proc : proc[x].pc \in {"migrated", "failed", "done"}
    /\ UNCHANGED migrationsVars

MCNext ==
    \/ DraftsRun(Next) \/ UploadsRun(UploadsNext) \/ ExtractRuns
    \/ MigrationsRun(MigrationsNext) \/ MigrationsRun(Rests)

\* Each with the fairness of its own module.
MCFairSpec ==
    /\ MCInit /\ [][MCNext]_<<part, vars, uploadsVars, extractVars, migrationsVars>>
    /\ WF_vars(DraftsRun(CleanupExpired)) /\ WF_vars(DraftsRun(Tick))
    /\ WF_uploadsVars(UploadsRun(SweepBegins)) /\ WF_uploadsVars(UploadsRun(SweepEnds))
    /\ \A p \in Path : SF_uploadsVars(UploadsRun(Unlinks(p)))
    /\ WF_extractVars(ExtractRuns)
    /\ \A x \in Proc : WF_migrationsVars(MigrationsRun(Migrates(x)))
=============================================================================
