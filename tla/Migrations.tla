----------------------------- MODULE Migrations -----------------------------
(***************************************************************************)
(* The schema of the database and the copies that are made of it.  The     *)
(* server, before it serves, and the command line apply the scripts that   *)
(* schema_version does not name, each in a transaction of its own; which   *)
(* ones these are they decide before the first.  Nothing keeps two of them *)
(* from doing so at once but that a script fails where it has been applied *)
(* already.  `backup' copies what is committed to a file named by the      *)
(* second, and then removes all but the newest files.                      *)
(***************************************************************************)
EXTENDS Integers, FiniteSets

CONSTANTS
    Server,      \* the servers that systemd starts
    Cli,         \* the commands that are run, each once
    Scripts,     \* the number of migrations/*.sql, in the order of their names
    Keep,        \* [backup] keep
    MaxSecond,   \* bound on the clock, in seconds
    MaxCrashes,  \* bound on the processes that are killed
    NoOne        \* not a process

Proc == Server \cup Cli
Version == 1..Scripts

ASSUME ScriptsAreCounted ==
    Scripts \in Nat /\ Keep \in Int /\ MaxSecond \in Nat /\ MaxCrashes \in Nat
ASSUME ProcessesDiffer == Server \cap Cli = {} /\ NoOne \notin Proc

VARIABLES
    applied,   \* the scripts whose changes are committed
    recorded,  \* the rows of schema_version that are committed
    writer,    \* who is in a transaction that writes
    proc,      \* every process: where it is, the versions it found, the next script
    backups,   \* the backup files, by second: the versions in the copy, or Partial
    second,    \* the clock
    crashes    \* how many processes have been killed

migrationsVars == <<applied, recorded, writer, proc, backups, second, crashes>>

\* What is in a backup that is not complete.
Partial == {0}

Prefixes == {1..n : n \in 0..Scripts}

NewProcess == [pc |-> "idle", done |-> {}, next |-> 1, files |-> {}]

\* A database of this release, of an older one, or none.
MigrationsInit ==
    /\ applied \in Prefixes /\ recorded = applied
    /\ writer = NoOne
    /\ proc = [x \in Proc |-> NewProcess]
    /\ backups = <<>>
    /\ second = 0
    /\ crashes = 0

Moves(x, from, to) == proc[x].pc = from /\ proc' = [proc EXCEPT ![x].pc = to]

-----------------------------------------------------------------------------
(* apply_migrations.                                                       *)

\* applied_versions.
ReadsVersions(x) ==
    /\ proc[x].pc = "idle"
    /\ proc' = [proc EXCEPT ![x].pc = "migrate", ![x].done = recorded]
    /\ UNCHANGED <<applied, recorded, writer, backups, second, crashes>>

\* `if version in done: continue'.
Skips(x) ==
    /\ proc[x].pc = "migrate" /\ proc[x].next \in proc[x].done
    /\ proc' = [proc EXCEPT ![x].next = @ + 1]
    /\ UNCHANGED <<applied, recorded, writer, backups, second, crashes>>

\* The first statement of the script takes the write lock.
BeginsScript(x) ==
    /\ Moves(x, "migrate", "script")
    /\ proc[x].next \in Version \ proc[x].done
    /\ writer = NoOne /\ writer' = x
    /\ UNCHANGED <<applied, recorded, backups, second, crashes>>

\* A table or column is there already: an sqlite3.Error, and the transaction
\* ends with its connection.
ScriptFails(x) ==
    /\ Moves(x, "script", "failed")
    /\ proc[x].next \in applied
    /\ writer' = NoOne
    /\ UNCHANGED <<applied, recorded, backups, second, crashes>>

\* Faulty: the version is recorded in a transaction of its own.
CommitsScriptOnly(x) ==
    /\ proc[x].pc = "script" /\ proc[x].next \notin applied
    /\ applied' = applied \cup {proc[x].next}
    /\ recorded' = recorded
    /\ proc' = [proc EXCEPT ![x].pc = "migrate", ![x].next = @ + 1]
    /\ writer' = NoOne
    /\ UNCHANGED <<backups, second, crashes>>

\* INSERT INTO schema_version, and COMMIT of both.
Commits(x) ==
    /\ proc[x].pc = "script" /\ proc[x].next \notin applied \cup recorded
    /\ applied' = applied \cup {proc[x].next}
    /\ recorded' = recorded \cup {proc[x].next}
    /\ proc' = [proc EXCEPT ![x].pc = "migrate", ![x].next = @ + 1]
    /\ writer' = NoOne
    /\ UNCHANGED <<backups, second, crashes>>

\* The write lock is not free within busy_timeout; schema_version is written
\* to only if it may not exist yet.
TimesOut(x) ==
    /\ writer \notin {NoOne, x}
    /\ \/ proc[x].pc = "idle" /\ recorded = {}
       \/ proc[x].pc = "migrate" /\ proc[x].next \in Version \ proc[x].done
    /\ proc' = [proc EXCEPT ![x].pc = "failed"]
    /\ UNCHANGED <<applied, recorded, writer, backups, second, crashes>>

\* No script is left; the server serves, the command is done.
Finishes(x) ==
    /\ Moves(x, "migrate", "migrated") /\ proc[x].next > Scripts
    /\ UNCHANGED <<applied, recorded, writer, backups, second, crashes>>

\* Faulty: what was recorded is not read again.
RestartsWithStaleVersions(x) ==
    /\ x \in Server /\ Moves(x, "failed", "migrate")
    /\ UNCHANGED <<applied, recorded, writer, backups, second, crashes>>

\* Restart=on-failure.
Restarts(x) ==
    /\ x \in Server /\ proc[x].pc = "failed"
    /\ proc' = [proc EXCEPT ![x] = NewProcess]
    /\ UNCHANGED <<applied, recorded, writer, backups, second, crashes>>

-----------------------------------------------------------------------------
(* cmd_backup.                                                             *)

\* The target is opened; if there is one of this second it stays as it is.
\* Without a database the command ends; of one without tables no copies are
\* made here.
BackupOpens(c) ==
    /\ c \in Cli /\ proc[c].pc = "idle" /\ applied # {}
    /\ proc' = [proc EXCEPT ![c].pc = "copy", ![c].next = second]
    /\ backups' = [t \in DOMAIN backups \cup {second} |->
                      IF t \in DOMAIN backups THEN backups[t] ELSE Partial]
    /\ UNCHANGED <<applied, recorded, writer, second, crashes>>

\* All pages in one step, of what is committed.  The file is written anew if
\* somebody has removed it: to no name.
BackupCopies(c) ==
    /\ Moves(c, "copy", "list")
    /\ backups' = [t \in DOMAIN backups |->
                      IF t = proc[c].next THEN recorded \cup applied ELSE backups[t]]
    /\ UNCHANGED <<applied, recorded, writer, second, crashes>>

\* Faulty: keep = 0 keeps nothing.
StaleWithoutMinimum ==
    {t \in DOMAIN backups : Cardinality({s \in DOMAIN backups : s > t}) >= Keep}

\* existing[keep:], the newest first; keep is at least 1.
Stale ==
    {t \in DOMAIN backups : Cardinality({s \in DOMAIN backups : s > t}) >=
                                IF Keep > 1 THEN Keep ELSE 1}

BackupLists(c) ==
    /\ proc[c].pc = "list"
    /\ proc' = [proc EXCEPT ![c].pc = "prune", ![c].files = Stale]
    /\ UNCHANGED <<applied, recorded, writer, backups, second, crashes>>

\* unlink(missing_ok=True).
BackupPrunes(c) ==
    /\ proc[c].pc = "prune"
    /\ \E t \in proc[c].files :
          /\ proc' = [proc EXCEPT ![c].files = @ \ {t}]
          /\ backups' = [s \in DOMAIN backups \ {t} |-> backups[s]]
    /\ UNCHANGED <<applied, recorded, writer, second, crashes>>

BackupEnds(c) ==
    /\ Moves(c, "prune", "done") /\ proc[c].files = {}
    /\ UNCHANGED <<applied, recorded, writer, backups, second, crashes>>

-----------------------------------------------------------------------------
\* A process is killed: what it has not committed is gone.
Killed(x) ==
    /\ crashes < MaxCrashes /\ crashes' = crashes + 1
    /\ proc[x].pc \notin {"idle", "failed", "done"}
    /\ proc' = [proc EXCEPT ![x].pc = "failed"]
    /\ writer' = IF writer = x THEN NoOne ELSE writer
    /\ UNCHANGED <<applied, recorded, backups, second>>

SecondPasses ==
    /\ second < MaxSecond /\ second' = second + 1
    /\ UNCHANGED <<applied, recorded, writer, proc, backups, crashes>>

Migrates(x) ==
    \/ ReadsVersions(x) \/ Skips(x) \/ BeginsScript(x) \/ ScriptFails(x) \/ Commits(x)
    \/ Finishes(x) \/ Restarts(x)

BacksUp(c) ==
    \/ BackupOpens(c) \/ BackupCopies(c) \/ BackupLists(c) \/ BackupPrunes(c) \/ BackupEnds(c)

MigrationsNext ==
    \/ \E x \in Proc : Migrates(x) \/ TimesOut(x) \/ Killed(x)
    \/ \E c \in Cli : BacksUp(c)
    \/ SecondPasses

MigrationsSpec == MigrationsInit /\ [][MigrationsNext]_migrationsVars

\* A process that is running goes on, and systemd restarts a server.
MigrationsFairSpec == MigrationsSpec /\ \A x \in Proc : WF_migrationsVars(Migrates(x))

-----------------------------------------------------------------------------
(* Properties.                                                             *)

\* The files of backups that are complete.
Complete == {t \in DOMAIN backups : backups[t] # Partial}

Process == [pc : {"idle", "migrate", "script", "migrated", "failed",
                  "copy", "list", "prune", "done"},
            done : SUBSET Version, next : Nat, files : SUBSET (0..MaxSecond)]

\* Types; the lock is held by who is in a script.
MigrationsTypeOK ==
    /\ applied \subseteq Version /\ recorded \subseteq Version
    /\ writer \in Proc \cup {NoOne}
    /\ proc \in [Proc -> Process]
    /\ \A x \in Proc : /\ writer = x <=> proc[x].pc = "script"
                       /\ proc[x].pc = "script" => proc[x].next \in Version
    /\ DOMAIN backups \subseteq 0..MaxSecond
    /\ backups \in [DOMAIN backups -> SUBSET (0..Scripts)]
    /\ second \in 0..MaxSecond /\ crashes \in 0..MaxCrashes

\* However processes overlap and are killed, a script is recorded exactly if
\* its changes are in the schema, the scripts before it are applied as well,
\* and whoever has got through the migrations has all of them.  A complete
\* backup is such a database, too.
SchemaIsWhole ==
    /\ recorded = applied
    /\ applied \in Prefixes
    /\ \A x \in Proc : proc[x].pc = "migrated" => applied = Version
    /\ \A t \in Complete : backups[t] \in Prefixes

\* A server that has been started gets to serve in the end: who loses a race or
\* is killed fails, is started again and finds the script recorded.
ServerComesUp == \A x \in Server : proc[x].pc # "idle" ~> proc[x].pc = "migrated"

\* The last backup stays, if it is complete: neither another backup, killed or
\* not, nor any setting of keep removes or spoils it.  An older complete one
\* may go although the newest file is partial: that file counts as one kept.
LastBackupStays ==
    [][\A t \in Complete : (\A s \in DOMAIN backups : s <= t) => t \in Complete']_migrationsVars
=============================================================================
