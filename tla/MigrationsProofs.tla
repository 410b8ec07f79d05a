-------------------------- MODULE MigrationsProofs --------------------------
(***************************************************************************)
(* Proofs about Migrations, for any servers and commands, any number of    *)
(* scripts, of backups to keep, and of processes that are killed.          *)
(***************************************************************************)
EXTENDS Migrations, FiniteSetTheorems, TLAPS

-----------------------------------------------------------------------------
(* Type correctness.                                                       *)

LEMMA InitType == MigrationsInit => MigrationsTypeOK
<1> SUFFICES ASSUME MigrationsInit PROVE MigrationsTypeOK
  OBVIOUS
<1>1. NewProcess \in Process
  BY DEF NewProcess, Process
<1>2. applied \subseteq Version
  BY ScriptsAreCounted DEF MigrationsInit, Prefixes, Version
<1>3. \A x \in Proc : writer # x /\ proc[x].pc # "script"
  BY ProcessesDiffer DEF MigrationsInit, NewProcess
<1>4. DOMAIN backups = {} /\ backups \in [DOMAIN backups -> SUBSET (0..Scripts)]
  BY DEF MigrationsInit
<1> QED
  BY <1>1, <1>2, <1>3, <1>4, ScriptsAreCounted DEF MigrationsInit, MigrationsTypeOK

\* x becomes p and the lock goes with it, or stays with another.
LEMMA LockFollows ==
  ASSUME MigrationsTypeOK, NEW x \in Proc, NEW p \in Process,
         proc' = [proc EXCEPT ![x] = p],
         \/ p.pc = "script" /\ p.next \in Version /\ writer \in {NoOne, x} /\ writer' = x
         \/ p.pc # "script" /\ writer' = IF writer = x THEN NoOne ELSE writer
  PROVE  /\ proc' \in [Proc -> Process]
         /\ writer' \in Proc \cup {NoOne}
         /\ \A y \in Proc : /\ writer' = y <=> proc'[y].pc = "script"
                            /\ proc'[y].pc = "script" => proc'[y].next \in Version
<1>1. x # NoOne
  BY ProcessesDiffer
<1>2. proc' \in [Proc -> Process] /\ writer' \in Proc \cup {NoOne}
  BY DEF MigrationsTypeOK
<1>3. ASSUME NEW y \in Proc
      PROVE  /\ writer' = y <=> proc'[y].pc = "script"
             /\ proc'[y].pc = "script" => proc'[y].next \in Version
  <2>1. y # NoOne
    BY ProcessesDiffer
  <2>2. CASE y = x
    BY <1>1, <2>2 DEF MigrationsTypeOK
  <2>3. CASE y # x
    BY <1>1, <2>1, <2>3 DEF MigrationsTypeOK
  <2> QED
    BY <2>2, <2>3
<1> QED
  BY <1>2, <1>3

LEMMA NextType == MigrationsTypeOK /\ [MigrationsNext]_migrationsVars => MigrationsTypeOK'
<1> SUFFICES ASSUME MigrationsTypeOK, [MigrationsNext]_migrationsVars PROVE MigrationsTypeOK'
  OBVIOUS
<1> DEFINE DatabaseTyped == /\ applied \subseteq Version /\ recorded \subseteq Version
                            /\ DOMAIN backups \subseteq 0..MaxSecond
                            /\ backups \in [DOMAIN backups -> SUBSET (0..Scripts)]
                            /\ second \in 0..MaxSecond /\ crashes \in 0..MaxCrashes
           ProcessesTyped == /\ writer \in Proc \cup {NoOne}
                             /\ proc \in [Proc -> Process]
                             /\ \A x \in Proc :
                                  /\ writer = x <=> proc[x].pc = "script"
                                  /\ proc[x].pc = "script" => proc[x].next \in Version
<1>0. DatabaseTyped /\ ProcessesTyped
  BY DEF MigrationsTypeOK
<1>1. ASSUME NEW x \in Proc, ReadsVersions(x) PROVE MigrationsTypeOK'
  <2> DEFINE p == [proc[x] EXCEPT !.pc = "migrate", !.done = recorded]
  <2>1. proc[x] \in Process
    BY DEF MigrationsTypeOK
  <2>2. p \in Process /\ p.pc = "migrate"
    BY <1>0, <1>1, <2>1 DEF Process, ReadsVersions, Moves
  <2>3. proc' = [proc EXCEPT ![x] = p]
    BY <1>1 DEF ReadsVersions, Moves
  <2>4. writer # x /\ writer' = writer
    BY <1>1 DEF ReadsVersions, Moves, MigrationsTypeOK
  <2> HIDE DEF p
  <2>5. ProcessesTyped'
    BY <2>2, <2>3, <2>4, LockFollows
  <2> QED
    BY <1>0, <1>1, <2>5 DEF ReadsVersions, MigrationsTypeOK
<1>2. ASSUME NEW x \in Proc, Skips(x) PROVE MigrationsTypeOK'
  <2> DEFINE p == [proc[x] EXCEPT !.next = @ + 1]
  <2>1. proc[x] \in Process
    BY DEF MigrationsTypeOK
  <2>2. p \in Process /\ p.pc = "migrate"
    BY <1>0, <1>2, <2>1 DEF Process, Skips, Moves
  <2>3. proc' = [proc EXCEPT ![x] = p]
    BY <1>2 DEF Skips, Moves
  <2>4. writer # x /\ writer' = writer
    BY <1>2 DEF Skips, Moves, MigrationsTypeOK
  <2> HIDE DEF p
  <2>5. ProcessesTyped'
    BY <2>2, <2>3, <2>4, LockFollows
  <2> QED
    BY <1>0, <1>2, <2>5 DEF Skips, MigrationsTypeOK
<1>3. ASSUME NEW x \in Proc, BeginsScript(x) PROVE MigrationsTypeOK'
  <2> DEFINE p == [proc[x] EXCEPT !.pc = "script"]
  <2>1. proc[x] \in Process
    BY DEF MigrationsTypeOK
  <2>2. p \in Process /\ p.pc = "script"
    BY <1>0, <1>3, <2>1 DEF Process, BeginsScript, Moves
  <2>3. proc' = [proc EXCEPT ![x] = p]
    BY <1>3 DEF BeginsScript, Moves
  <2>4. writer \in {NoOne, x} /\ writer' = x /\ p.next \in Version
    BY <1>3, <2>1 DEF BeginsScript, Process
  <2> HIDE DEF p
  <2>5. ProcessesTyped'
    BY <2>2, <2>3, <2>4, LockFollows
  <2> QED
    BY <1>0, <1>3, <2>5 DEF BeginsScript, MigrationsTypeOK
<1>4. ASSUME NEW x \in Proc, ScriptFails(x) PROVE MigrationsTypeOK'
  <2> DEFINE p == [proc[x] EXCEPT !.pc = "failed"]
  <2>1. proc[x] \in Process
    BY DEF MigrationsTypeOK
  <2>2. p \in Process /\ p.pc = "failed"
    BY <1>0, <1>4, <2>1 DEF Process, ScriptFails, Moves
  <2>3. proc' = [proc EXCEPT ![x] = p]
    BY <1>4 DEF ScriptFails, Moves
  <2>4. writer = x /\ writer' = NoOne
    BY <1>4 DEF ScriptFails, Moves, MigrationsTypeOK
  <2> HIDE DEF p
  <2>5. ProcessesTyped'
    BY <2>2, <2>3, <2>4, LockFollows
  <2> QED
    BY <1>0, <1>4, <2>5 DEF ScriptFails, MigrationsTypeOK
<1>5. ASSUME NEW x \in Proc, Commits(x) PROVE MigrationsTypeOK'
  <2> DEFINE p == [proc[x] EXCEPT !.pc = "migrate", !.next = @ + 1]
  <2>1. proc[x] \in Process
    BY DEF MigrationsTypeOK
  <2>2. p \in Process /\ p.pc = "migrate"
    BY <1>0, <1>5, <2>1 DEF Process, Commits, Moves
  <2>3. proc' = [proc EXCEPT ![x] = p]
    BY <1>5 DEF Commits, Moves
  <2>4. writer = x /\ writer' = NoOne /\ proc[x].next \in 1..Scripts
    BY <1>5 DEF Commits, MigrationsTypeOK, Version
  <2> HIDE DEF p
  <2>5. ProcessesTyped'
    BY <2>2, <2>3, <2>4, LockFollows
  <2> QED
    BY <1>0, <1>5, <2>4, <2>5 DEF Commits, MigrationsTypeOK, Version
<1>6. ASSUME NEW x \in Proc, TimesOut(x) PROVE MigrationsTypeOK'
  <2> DEFINE p == [proc[x] EXCEPT !.pc = "failed"]
  <2>1. proc[x] \in Process
    BY DEF MigrationsTypeOK
  <2>2. p \in Process /\ p.pc = "failed"
    BY <1>0, <1>6, <2>1 DEF Process, TimesOut, Moves
  <2>3. proc' = [proc EXCEPT ![x] = p]
    BY <1>6 DEF TimesOut, Moves
  <2>4. writer # x /\ writer' = writer
    BY <1>6 DEF TimesOut, Moves, MigrationsTypeOK
  <2> HIDE DEF p
  <2>5. ProcessesTyped'
    BY <2>2, <2>3, <2>4, LockFollows
  <2> QED
    BY <1>0, <1>6, <2>5 DEF TimesOut, MigrationsTypeOK
<1>7. ASSUME NEW x \in Proc, Finishes(x) PROVE MigrationsTypeOK'
  <2> DEFINE p == [proc[x] EXCEPT !.pc = "migrated"]
  <2>1. proc[x] \in Process
    BY DEF MigrationsTypeOK
  <2>2. p \in Process /\ p.pc = "migrated"
    BY <1>0, <1>7, <2>1 DEF Process, Finishes, Moves
  <2>3. proc' = [proc EXCEPT ![x] = p]
    BY <1>7 DEF Finishes, Moves
  <2>4. writer # x /\ writer' = writer
    BY <1>7 DEF Finishes, Moves, MigrationsTypeOK
  <2> HIDE DEF p
  <2>5. ProcessesTyped'
    BY <2>2, <2>3, <2>4, LockFollows
  <2> QED
    BY <1>0, <1>7, <2>5 DEF Finishes, MigrationsTypeOK
<1>8. ASSUME NEW x \in Proc, Restarts(x) PROVE MigrationsTypeOK'
  <2> DEFINE p == NewProcess
  <2>1. proc[x] \in Process
    BY DEF MigrationsTypeOK
  <2>2. p \in Process /\ p.pc = "idle"
    BY <1>0, <1>8, <2>1 DEF Process, Restarts, Moves, NewProcess
  <2>3. proc' = [proc EXCEPT ![x] = p]
    BY <1>8 DEF Restarts, Moves, NewProcess
  <2>4. writer # x /\ writer' = writer
    BY <1>8 DEF Restarts, Moves, MigrationsTypeOK
  <2> HIDE DEF p
  <2>5. ProcessesTyped'
    BY <2>2, <2>3, <2>4, LockFollows
  <2> QED
    BY <1>0, <1>8, <2>5 DEF Restarts, MigrationsTypeOK
<1>9. ASSUME NEW c \in Cli, BackupOpens(c) PROVE MigrationsTypeOK'
  <2> DEFINE p == [proc[c] EXCEPT !.pc = "copy", !.next = second]
  <2>1. c \in Proc
    BY DEF Proc
  <2>2. proc[c] \in Process
    BY <2>1 DEF MigrationsTypeOK
  <2>3. second \in Nat
    BY <1>0
  <2>4. p \in Process /\ p.pc = "copy"
    BY <2>2, <2>3 DEF Process
  <2>5. proc' = [proc EXCEPT ![c] = p]
    BY <1>9 DEF BackupOpens, Moves
  <2>6. writer # c /\ writer' = writer
    BY <2>1, <1>9 DEF BackupOpens, Moves, MigrationsTypeOK
  <2> HIDE DEF p
  <2>7. ProcessesTyped'
    BY <2>1, <2>4, <2>5, <2>6, LockFollows
  <2>8. Partial \in SUBSET (0..Scripts)
    BY ScriptsAreCounted DEF Partial
  <2>9. DOMAIN backups' \subseteq 0..MaxSecond /\ backups' \in [DOMAIN backups' -> SUBSET (0..Scripts)]
    BY <1>0, <1>9, <2>8 DEF BackupOpens
  <2> QED
    BY <1>0, <1>9, <2>7, <2>9 DEF BackupOpens, MigrationsTypeOK
<1>10. ASSUME NEW c \in Cli, BackupCopies(c) PROVE MigrationsTypeOK'
  <2> DEFINE p == [proc[c] EXCEPT !.pc = "list"]
  <2>1. c \in Proc
    BY DEF Proc
  <2>2. proc[c] \in Process
    BY <2>1 DEF MigrationsTypeOK
  <2>3. p \in Process /\ p.pc = "list"
    BY <1>0, <1>10, <2>2 DEF Process, BackupCopies, Moves
  <2>4. proc' = [proc EXCEPT ![c] = p]
    BY <1>10 DEF BackupCopies, Moves
  <2>5. writer # c /\ writer' = writer
    BY <2>1, <1>10 DEF BackupCopies, Moves, MigrationsTypeOK
  <2> HIDE DEF p
  <2>6. ProcessesTyped'
    BY <2>1, <2>3, <2>4, <2>5, LockFollows
  <2>7. recorded \cup applied \in SUBSET (0..Scripts)
    BY <1>0, ScriptsAreCounted DEF Version
  <2>8. DOMAIN backups' \subseteq 0..MaxSecond /\ backups' \in [DOMAIN backups' -> SUBSET (0..Scripts)]
    BY <1>0, <1>10, <2>7 DEF BackupCopies
  <2> QED
    BY <1>0, <1>10, <2>6, <2>8 DEF BackupCopies, MigrationsTypeOK
<1>11. ASSUME NEW c \in Cli, BackupLists(c) PROVE MigrationsTypeOK'
  <2> DEFINE p == [proc[c] EXCEPT !.pc = "prune", !.files = Stale]
  <2>1. c \in Proc
    BY DEF Proc
  <2>2. proc[c] \in Process
    BY <2>1 DEF MigrationsTypeOK
  <2>3. Stale \in SUBSET (0..MaxSecond)
    BY <1>0 DEF Stale
  <2>4. p \in Process /\ p.pc = "prune"
    BY <1>0, <1>11, <2>2, <2>3 DEF Process, BackupLists, Moves
  <2>5. proc' = [proc EXCEPT ![c] = p]
    BY <1>11 DEF BackupLists, Moves
  <2>6. writer # c /\ writer' = writer
    BY <2>1, <1>11 DEF BackupLists, Moves, MigrationsTypeOK
  <2> HIDE DEF p
  <2>7. ProcessesTyped'
    BY <2>1, <2>4, <2>5, <2>6, LockFollows
  <2> QED
    BY <1>0, <1>11, <2>7 DEF BackupLists, MigrationsTypeOK
<1>12. ASSUME NEW c \in Cli, BackupPrunes(c) PROVE MigrationsTypeOK'
  <2>1. PICK t \in proc[c].files :
           /\ proc' = [proc EXCEPT ![c].files = @ \ {t}]
           /\ backups' = [s \in DOMAIN backups \ {t} |-> backups[s]]
    BY <1>12 DEF BackupPrunes
  <2> DEFINE p == [proc[c] EXCEPT !.files = @ \ {t}]
  <2>2. c \in Proc
    BY DEF Proc
  <2>3. proc[c] \in Process
    BY <2>2 DEF MigrationsTypeOK
  <2>4. p \in Process /\ p.pc = "prune"
    BY <1>0, <1>12, <2>3 DEF Process, BackupPrunes, Moves
  <2>5. proc' = [proc EXCEPT ![c] = p]
    BY <2>1 DEF BackupPrunes, Moves
  <2>6. writer # c /\ writer' = writer
    BY <2>2, <1>12 DEF BackupPrunes, Moves, MigrationsTypeOK
  <2> HIDE DEF p
  <2>7. ProcessesTyped'
    BY <2>2, <2>4, <2>5, <2>6, LockFollows
  <2>8. DOMAIN backups' \subseteq 0..MaxSecond /\ backups' \in [DOMAIN backups' -> SUBSET (0..Scripts)]
    BY <1>0, <2>1
  <2> QED
    BY <1>0, <1>12, <2>7, <2>8 DEF BackupPrunes, MigrationsTypeOK
<1>13. ASSUME NEW c \in Cli, BackupEnds(c) PROVE MigrationsTypeOK'
  <2> DEFINE p == [proc[c] EXCEPT !.pc = "done"]
  <2>1. c \in Proc
    BY DEF Proc
  <2>2. proc[c] \in Process
    BY <2>1 DEF MigrationsTypeOK
  <2>3. p \in Process /\ p.pc = "done"
    BY <1>0, <1>13, <2>2 DEF Process, BackupEnds, Moves
  <2>4. proc' = [proc EXCEPT ![c] = p]
    BY <1>13 DEF BackupEnds, Moves
  <2>5. writer # c /\ writer' = writer
    BY <2>1, <1>13 DEF BackupEnds, Moves, MigrationsTypeOK
  <2> HIDE DEF p
  <2>6. ProcessesTyped'
    BY <2>1, <2>3, <2>4, <2>5, LockFollows
  <2> QED
    BY <1>0, <1>13, <2>6 DEF BackupEnds, MigrationsTypeOK
<1>14. ASSUME NEW x \in Proc, Killed(x) PROVE MigrationsTypeOK'
  <2> DEFINE p == [proc[x] EXCEPT !.pc = "failed"]
  <2>1. proc[x] \in Process
    BY DEF MigrationsTypeOK
  <2>2. p \in Process /\ p.pc = "failed"
    BY <1>0, <1>14, <2>1 DEF Process, Killed, Moves
  <2>3. proc' = [proc EXCEPT ![x] = p]
    BY <1>14 DEF Killed, Moves
  <2>4. writer' = IF writer = x THEN NoOne ELSE writer
    BY <1>14 DEF Killed
  <2> HIDE DEF p
  <2>5. ProcessesTyped'
    BY <2>2, <2>3, <2>4, LockFollows
  <2> QED
    BY <1>0, <1>14, <2>5, ScriptsAreCounted DEF Killed, MigrationsTypeOK
<1>15. CASE SecondPasses
  BY <1>15, ScriptsAreCounted DEF SecondPasses, MigrationsTypeOK
<1>16. CASE UNCHANGED migrationsVars
  BY <1>16 DEF migrationsVars, MigrationsTypeOK
<1> QED
  BY <1>1, <1>2, <1>3, <1>4, <1>5, <1>6, <1>7, <1>8, <1>9, <1>10, <1>11, <1>12, <1>13,
     <1>14, <1>15, <1>16 DEF MigrationsNext, Migrates, BacksUp

\* The database, the processes and the files stay well typed, and the write
\* lock is held by exactly who runs a script.
THEOREM TypeCorrect == MigrationsSpec => []MigrationsTypeOK
  BY InitType, NextType, PTL DEF MigrationsSpec

-----------------------------------------------------------------------------
(* The schema.                                                             *)

\* How far a process has come: the versions it found are applied, and so is
\* every script it has passed; it has passed all once it is through.
Passed(x) ==
  /\ proc[x].pc = "idle" => proc[x].next = 1
  /\ proc[x].pc \in {"migrate", "script"} =>
        /\ proc[x].done \subseteq applied
        /\ proc[x].next \in 1..(Scripts + 1)
        /\ \A v \in Version : v < proc[x].next => v \in applied
  /\ proc[x].pc = "migrated" => applied = Version

\* The strengthening of SchemaIsWhole that is inductive.
SchemaInv ==
  /\ recorded = applied
  /\ applied \in Prefixes
  /\ \A x \in Proc : Passed(x)
  /\ \A t \in Complete : backups[t] \in Prefixes

LEMMA InitSchema == MigrationsInit => SchemaInv
<1> SUFFICES ASSUME MigrationsInit PROVE SchemaInv
  OBVIOUS
<1>1. \A x \in Proc : Passed(x)
  BY DEF MigrationsInit, NewProcess, Passed
<1>2. Complete = {}
  BY DEF MigrationsInit, Complete
<1> QED
  BY <1>1, <1>2 DEF MigrationsInit, SchemaInv

\* The script that is committed is the first that was not applied.
LEMMA CommitsNext ==
  ASSUME MigrationsTypeOK, SchemaInv, NEW x \in Proc, Commits(x)
  PROVE  /\ applied' = 1..proc[x].next
         /\ proc[x].next \in Version
         /\ applied' \in Prefixes
<1>1. PICK n \in 0..Scripts : applied = 1..n
  BY DEF SchemaInv, Prefixes
<1> DEFINE k == proc[x].next
<1>2. /\ k \in 1..Scripts /\ k \notin applied
      /\ \A v \in Version : v < k => v \in applied
  BY DEF Commits, MigrationsTypeOK, SchemaInv, Passed, Version
<1>3. k > n
  BY <1>1, <1>2
<1>4. ~(k > n + 1)
  <2>1. SUFFICES ASSUME k > n + 1 PROVE FALSE
    OBVIOUS
  <2>2. n + 1 \in Version
    BY <1>1, <1>2, <2>1, ScriptsAreCounted DEF Version
  <2>3. n + 1 \in applied
    BY <1>1, <1>2, <2>1, <2>2
  <2> QED
    BY <1>1, <2>3
<1>5. k = n + 1
  BY <1>1, <1>2, <1>3, <1>4
<1>6. applied' = applied \cup {k}
  BY DEF Commits
<1>7. applied' = 1..k
  BY <1>1, <1>2, <1>5, <1>6
<1> QED
  BY <1>2, <1>7, ScriptsAreCounted DEF Prefixes, Version

\* Only Commits changes the schema, and it adds to it.
LEMMA SchemaGrows ==
  ASSUME MigrationsTypeOK, SchemaInv, [MigrationsNext]_migrationsVars
  PROVE  /\ recorded' = applied' /\ applied' \in Prefixes
         /\ applied \subseteq applied' /\ applied' \subseteq Version
<1>1. ASSUME NEW x \in Proc, Commits(x)
      PROVE  recorded' = applied' /\ applied' \in Prefixes /\ applied \subseteq applied'
  BY <1>1, CommitsNext DEF SchemaInv, Commits
<1>2. UNCHANGED <<applied, recorded>>
        => recorded' = applied' /\ applied' \in Prefixes /\ applied \subseteq applied'
  BY DEF SchemaInv
<1>3. applied' \subseteq Version
  BY NextType DEF MigrationsTypeOK
<1>4. ASSUME NEW x \in Proc, Migrates(x) \/ TimesOut(x) \/ Killed(x), ~Commits(x)
      PROVE  UNCHANGED <<applied, recorded>>
  BY <1>4 DEF Migrates, ReadsVersions, Skips, BeginsScript, ScriptFails, Finishes, Restarts, TimesOut,
              Killed
<1>5. ASSUME NEW c \in Cli, BacksUp(c)
      PROVE  UNCHANGED <<applied, recorded>>
  BY <1>5 DEF BacksUp, BackupOpens, BackupCopies, BackupLists, BackupPrunes, BackupEnds
<1>6. SecondPasses \/ UNCHANGED migrationsVars => UNCHANGED <<applied, recorded>>
  BY DEF SecondPasses, migrationsVars
<1>7. (\E x \in Proc : Commits(x)) \/ UNCHANGED <<applied, recorded>>
  BY <1>4, <1>5, <1>6 DEF MigrationsNext
<1> QED
  BY <1>1, <1>2, <1>3, <1>7

\* A process that stands where it stood has passed at least what it had.
LEMMA StandingPassed ==
  ASSUME MigrationsTypeOK, SchemaInv, [MigrationsNext]_migrationsVars, NEW x \in Proc, proc'[x] = proc[x]
  PROVE  Passed(x)'
<1>1. applied \subseteq applied' /\ applied' \subseteq Version
  BY SchemaGrows
<1> QED
  BY <1>1 DEF SchemaInv, Passed

LEMMA NextPassed ==
  ASSUME MigrationsTypeOK, SchemaInv, [MigrationsNext]_migrationsVars, NEW y \in Proc
  PROVE  Passed(y)'
<1>0. /\ Passed(y) /\ proc[y] \in Process /\ proc \in [Proc -> Process]
      /\ applied \subseteq Version /\ recorded = applied
  BY DEF SchemaInv, MigrationsTypeOK
<1>1. CASE proc'[y] = proc[y]
  BY <1>1, StandingPassed
<1>2. ASSUME ReadsVersions(y) PROVE Passed(y)'
  <2>1. /\ proc'[y].pc = "migrate" /\ proc'[y].done = recorded
        /\ proc'[y].next = 1 /\ applied' = applied
    BY <1>0, <1>2 DEF ReadsVersions, Process, Passed
  <2>2. 1 \in 1..(Scripts + 1) /\ \A v \in Version : ~(v < 1)
    BY ScriptsAreCounted DEF Version
  <2> QED
    BY <1>0, <2>1, <2>2 DEF Passed
<1>3. ASSUME Skips(y) PROVE Passed(y)'
  <2>1. /\ proc'[y].pc = "migrate" /\ proc'[y].done = proc[y].done
        /\ proc'[y].next = proc[y].next + 1 /\ applied' = applied
        /\ proc[y].next \in applied
    BY <1>0, <1>3 DEF Skips, Process, Passed
  <2>2. proc[y].next \in 1..Scripts
    BY <1>0, <2>1 DEF Version
  <2>3. \A v \in Version : v < proc[y].next + 1 => v \in applied
    BY <1>0, <1>3, <2>1, <2>2, ScriptsAreCounted DEF Passed, Version, Skips
  <2>4. proc[y].next + 1 \in 1..(Scripts + 1)
    BY <2>2, ScriptsAreCounted
  <2> QED
    BY <1>0, <1>3, <2>1, <2>3, <2>4 DEF Passed, Skips
<1>4. ASSUME BeginsScript(y) PROVE Passed(y)'
  <2>1. /\ proc[y].pc = "migrate" /\ proc'[y].pc = "script" /\ proc'[y].done = proc[y].done
        /\ proc'[y].next = proc[y].next /\ applied' = applied
    BY <1>0, <1>4 DEF BeginsScript, Moves, Process
  <2> QED
    BY <1>0, <2>1 DEF Passed
<1>5. ASSUME Commits(y) PROVE Passed(y)'
  <2>1. /\ proc'[y].pc = "migrate" /\ proc'[y].done = proc[y].done
        /\ proc'[y].next = proc[y].next + 1 /\ proc[y].done \subseteq applied
    BY <1>0, <1>5 DEF Commits, Process, Passed
  <2>2. applied' = 1..proc[y].next /\ proc[y].next \in 1..Scripts /\ applied \subseteq applied'
    BY <1>5, CommitsNext, SchemaGrows DEF Version
  <2>3. \A v \in Version : v < proc[y].next + 1 => v \in applied'
    BY <2>2, ScriptsAreCounted DEF Version
  <2>4. proc[y].next + 1 \in 1..(Scripts + 1)
    BY <2>2, ScriptsAreCounted
  <2> QED
    BY <2>1, <2>2, <2>3, <2>4 DEF Passed
<1>6. ASSUME Finishes(y) PROVE Passed(y)'
  <2>1. /\ proc[y].pc = "migrate" /\ proc'[y].pc = "migrated"
        /\ proc[y].next > Scripts /\ applied' = applied
    BY <1>0, <1>6 DEF Finishes, Moves, Process
  <2>2. Version \subseteq applied
    BY <1>0, <2>1, ScriptsAreCounted DEF Passed, Version
  <2> QED
    BY <1>0, <2>1, <2>2 DEF Passed
<1>7. ASSUME Restarts(y) PROVE Passed(y)'
  BY <1>0, <1>7 DEF Restarts, NewProcess, Passed
<1>8. ASSUME proc'[y].pc \in {"failed", "copy", "list", "prune", "done"} PROVE Passed(y)'
  BY <1>8 DEF Passed
<1>9. ASSUME NEW x \in Proc, Migrates(x) \/ TimesOut(x) \/ Killed(x)
      PROVE  \/ proc'[y] = proc[y] \/ proc'[y].pc = "failed"
             \/ ReadsVersions(y) \/ Skips(y) \/ BeginsScript(y) \/ Commits(y) \/ Finishes(y) \/ Restarts(y)
  <2>1. CASE x # y
    BY <1>0, <1>9, <2>1 DEF Migrates, TimesOut, Killed, ReadsVersions, Skips, BeginsScript, ScriptFails,
                            Commits, Finishes, Restarts, Moves
  <2>2. CASE x = y
    BY <1>0, <1>9, <2>2 DEF Migrates, TimesOut, Killed, ScriptFails, Moves, Process
  <2> QED
    BY <2>1, <2>2
<1>10. ASSUME NEW c \in Cli, BacksUp(c)
       PROVE  proc'[y] = proc[y] \/ proc'[y].pc \in {"copy", "list", "prune", "done"}
  <2>1. CASE c # y
    BY <1>0, <1>10, <2>1 DEF BacksUp, BackupOpens, BackupCopies, BackupLists, BackupPrunes,
                             BackupEnds, Moves
  <2>2. CASE c = y
    <3>1. ASSUME BackupOpens(y) PROVE proc'[y].pc = "copy"
      BY <1>0, <3>1 DEF BackupOpens, Process
    <3>2. ASSUME BackupCopies(y) PROVE proc'[y].pc = "list"
      BY <1>0, <3>2 DEF BackupCopies, Moves, Process
    <3>3. ASSUME BackupLists(y) PROVE proc'[y].pc = "prune"
      BY <1>0, <3>3 DEF BackupLists, Process
    <3>4. ASSUME BackupPrunes(y) PROVE proc'[y].pc = "prune"
      BY <1>0, <3>4 DEF BackupPrunes, Process
    <3>5. ASSUME BackupEnds(y) PROVE proc'[y].pc = "done"
      BY <1>0, <3>5 DEF BackupEnds, Moves, Process
    <3> QED
      BY <1>10, <2>2, <3>1, <3>2, <3>3, <3>4, <3>5 DEF BacksUp
  <2> QED
    BY <2>1, <2>2
<1>11. CASE SecondPasses \/ UNCHANGED migrationsVars
  BY <1>1, <1>11 DEF SecondPasses, migrationsVars
<1> QED
  BY <1>1, <1>2, <1>3, <1>4, <1>5, <1>6, <1>7, <1>8, <1>9, <1>10, <1>11 DEF MigrationsNext

\* A copy is made of what is committed.
LEMMA NextCopies ==
  ASSUME MigrationsTypeOK, SchemaInv, [MigrationsNext]_migrationsVars, NEW t \in Complete'
  PROVE  backups'[t] \in Prefixes
<1>0. t \in DOMAIN backups' /\ backups'[t] # Partial
  BY DEF Complete
<1>1. CASE UNCHANGED backups
  BY <1>0, <1>1 DEF SchemaInv, Complete
<1>2. ASSUME NEW c \in Cli, BackupOpens(c) PROVE backups'[t] \in Prefixes
  BY <1>0, <1>2 DEF BackupOpens, SchemaInv, Complete
<1>3. ASSUME NEW c \in Cli, BackupCopies(c) PROVE backups'[t] \in Prefixes
  <2>1. recorded \cup applied \in Prefixes
    BY DEF SchemaInv
  <2> QED
    BY <1>0, <1>3, <2>1 DEF BackupCopies, SchemaInv, Complete
<1>4. ASSUME NEW c \in Cli, BackupPrunes(c) PROVE backups'[t] \in Prefixes
  BY <1>0, <1>4 DEF BackupPrunes, SchemaInv, Complete
<1> QED
  BY <1>1, <1>2, <1>3, <1>4
     DEF MigrationsNext, Migrates, BacksUp, ReadsVersions, Skips, BeginsScript, ScriptFails, Commits, Finishes,
         Restarts, TimesOut, Killed, BackupLists, BackupEnds, SecondPasses, migrationsVars

LEMMA NextSchema == MigrationsTypeOK /\ SchemaInv /\ [MigrationsNext]_migrationsVars => SchemaInv'
<1> SUFFICES ASSUME MigrationsTypeOK, SchemaInv, [MigrationsNext]_migrationsVars PROVE SchemaInv'
  OBVIOUS
<1> QED
  BY SchemaGrows, NextPassed, NextCopies DEF SchemaInv

\* For any number of processes that migrate at once, fail, are killed and are
\* started again: a script is recorded exactly if it is applied, never without
\* those before it, and who has got through finds all of them.
THEOREM SchemaStaysWhole == MigrationsSpec => []SchemaIsWhole
<1>1. MigrationsTypeOK /\ SchemaInv /\ [MigrationsNext]_migrationsVars => (MigrationsTypeOK /\ SchemaInv)'
  BY NextType, NextSchema
<1>2. MigrationsInit => MigrationsTypeOK /\ SchemaInv
  BY InitType, InitSchema
<1>3. SchemaInv => SchemaIsWhole
  BY DEF SchemaInv, SchemaIsWhole, Passed
<1> QED
  BY <1>1, <1>2, <1>3, PTL DEF MigrationsSpec

-----------------------------------------------------------------------------
(* The backups.                                                            *)

\* What a command is about to remove is never the newest file.
PruneInv ==
  \A c \in Cli : proc[c].pc = "prune" =>
     \A t \in proc[c].files : \E s \in DOMAIN backups : s > t

\* At least one newer file is kept for whatever is stale.
LEMMA StaleIsOlder ==
  ASSUME NEW t \in Stale
  PROVE  \E s \in DOMAIN backups : s > t
<1> DEFINE Newer == {s \in DOMAIN backups : s > t}
<1>1. Cardinality(Newer) >= IF Keep > 1 THEN Keep ELSE 1
  BY DEF Stale
<1>2. CASE Newer = {}
  <2>1. Cardinality(Newer) = 0
    BY <1>2, FS_EmptySet
  <2> QED
    BY <1>1, <2>1, ScriptsAreCounted
<1> QED
  BY <1>2

LEMMA NextPrune == MigrationsTypeOK /\ PruneInv /\ [MigrationsNext]_migrationsVars => PruneInv'
<1> SUFFICES ASSUME MigrationsTypeOK, PruneInv, [MigrationsNext]_migrationsVars,
                    NEW c \in Cli, proc'[c].pc = "prune", NEW t \in proc'[c].files
             PROVE  \E s \in DOMAIN backups' : s > t
  BY DEF PruneInv
<1>0. /\ proc \in [Proc -> Process] /\ c \in Proc /\ DOMAIN backups \subseteq 0..MaxSecond
      /\ t \in Int
  BY NextType DEF MigrationsTypeOK, Proc, Process
<1>1. ASSUME BackupLists(c) PROVE \E s \in DOMAIN backups' : s > t
  <2>1. proc'[c].files = Stale /\ backups' = backups
    BY <1>0, <1>1 DEF BackupLists, Process
  <2> QED
    BY <2>1, StaleIsOlder
<1>2. ASSUME ~BackupLists(c) PROVE proc[c].pc = "prune" /\ t \in proc[c].files
  <2>1. CASE proc'[c] = proc[c]
    BY <2>1
  <2>2. ASSUME NEW x \in Proc, Migrates(x) \/ TimesOut(x) \/ Killed(x) PROVE proc'[c] = proc[c]
    <3>1. CASE x # c
      BY <1>0, <2>2, <3>1 DEF Migrates, TimesOut, Killed, ReadsVersions, Skips, BeginsScript, ScriptFails,
                              Commits, Finishes, Restarts, Moves
    <3>2. CASE x = c
      <4>1. ~TimesOut(c) /\ ~Killed(c) /\ ~ScriptFails(c) /\ ~Finishes(c) /\ ~Restarts(c)
        BY <1>0 DEF TimesOut, Killed, ScriptFails, Finishes, Restarts, Moves, NewProcess, Process
      <4>2. ~ReadsVersions(c) /\ ~Skips(c) /\ ~BeginsScript(c) /\ ~Commits(c)
        BY <1>0 DEF ReadsVersions, Skips, BeginsScript, Commits, Moves, Process
      <4> QED
        BY <2>2, <3>2, <4>1, <4>2 DEF Migrates
    <3> QED
      BY <3>1, <3>2
  <2>3. ASSUME NEW d \in Cli, BacksUp(d), d # c PROVE proc'[c] = proc[c]
    BY <1>0, <2>3 DEF BacksUp, BackupOpens, BackupCopies, BackupLists, BackupPrunes, BackupEnds, Moves
  <2>4. ~BackupOpens(c) /\ ~BackupCopies(c) /\ ~BackupEnds(c)
    BY <1>0 DEF BackupOpens, BackupCopies, BackupEnds, Moves, Process
  <2>5. ASSUME BackupPrunes(c) PROVE proc[c].pc = "prune" /\ t \in proc[c].files
    BY <1>0, <2>5 DEF BackupPrunes, Process
  <2>6. CASE SecondPasses \/ UNCHANGED migrationsVars
    BY <2>6 DEF SecondPasses, migrationsVars
  <2> QED
    BY <1>2, <2>1, <2>2, <2>3, <2>4, <2>5, <2>6 DEF MigrationsNext, BacksUp
<1>3. ASSUME ~BackupLists(c) PROVE \E s \in DOMAIN backups' : s > t
  <2>1. PICK s \in DOMAIN backups : s > t
    BY <1>2, <1>3 DEF PruneInv
  <2>2. ASSUME NEW d \in Cli, BackupPrunes(d) PROVE \E u \in DOMAIN backups' : u > t
    <3>1. PICK gone \in proc[d].files : backups' = [u \in DOMAIN backups \ {gone} |-> backups[u]]
      BY <2>2 DEF BackupPrunes
    <3>2. PICK u \in DOMAIN backups : u > gone
      BY <2>2, <3>1 DEF BackupPrunes, PruneInv
    <3>3. gone \in Int /\ u \in Int /\ s \in Int
      BY <1>0, <2>1, <3>2 DEF MigrationsTypeOK, Proc, Process
    <3>4. CASE s # gone
      BY <2>1, <3>1, <3>4
    <3>5. CASE s = gone
      BY <1>0, <2>1, <3>1, <3>2, <3>3, <3>5
    <3> QED
      BY <3>4, <3>5
  <2>3. ASSUME NEW d \in Cli, BackupOpens(d) \/ BackupCopies(d)
        PROVE  DOMAIN backups \subseteq DOMAIN backups'
    BY <2>3 DEF BackupOpens, BackupCopies
  <2>4. ASSUME NEW x \in Proc, Migrates(x) \/ TimesOut(x) \/ Killed(x)
        PROVE  UNCHANGED backups
    BY <2>4 DEF Migrates, ReadsVersions, Skips, BeginsScript, ScriptFails, Commits, Finishes, Restarts,
                TimesOut, Killed
  <2>5. ASSUME NEW d \in Cli, BackupLists(d) \/ BackupEnds(d) PROVE UNCHANGED backups
    BY <2>5 DEF BackupLists, BackupEnds
  <2>6. CASE SecondPasses \/ UNCHANGED migrationsVars
    BY <2>1, <2>6 DEF SecondPasses, migrationsVars
  <2> QED
    BY <2>1, <2>2, <2>3, <2>4, <2>5, <2>6 DEF MigrationsNext, BacksUp
<1> QED
  BY <1>1, <1>3

\* Whatever the setting of keep, however many backups overlap, and whenever one
\* of them is killed: the newest file, once it is complete, is neither removed
\* nor spoiled.
THEOREM LastBackupIsKept == MigrationsSpec => LastBackupStays
<1> DEFINE Stays == \A t \in Complete : (\A s \in DOMAIN backups : s <= t) => t \in Complete'
<1>1. MigrationsTypeOK /\ SchemaInv /\ PruneInv /\ [MigrationsNext]_migrationsVars => [Stays]_migrationsVars
  <2> SUFFICES ASSUME MigrationsTypeOK, SchemaInv, PruneInv, [MigrationsNext]_migrationsVars, NEW t \in Complete,
                      \A s \in DOMAIN backups : s <= t
               PROVE  t \in DOMAIN backups' /\ backups'[t] # Partial
    BY DEF Complete
  <2>0. t \in DOMAIN backups /\ backups[t] # Partial /\ DOMAIN backups \subseteq 0..MaxSecond
    BY DEF Complete, MigrationsTypeOK
  <2>1. CASE UNCHANGED backups
    BY <2>0, <2>1
  <2>2. ASSUME NEW c \in Cli, BackupOpens(c) PROVE t \in DOMAIN backups' /\ backups'[t] # Partial
    BY <2>0, <2>2 DEF BackupOpens
  <2>3. ASSUME NEW c \in Cli, BackupCopies(c) PROVE t \in DOMAIN backups' /\ backups'[t] # Partial
    <3>1. recorded \cup applied # Partial
      BY DEF MigrationsTypeOK, Version, Partial
    <3> QED
      BY <2>0, <2>3, <3>1 DEF BackupCopies
  <2>4. ASSUME NEW c \in Cli, BackupPrunes(c) PROVE t \in DOMAIN backups' /\ backups'[t] # Partial
    <3>1. PICK gone \in proc[c].files : backups' = [u \in DOMAIN backups \ {gone} |-> backups[u]]
      BY <2>4 DEF BackupPrunes
    <3>2. PICK u \in DOMAIN backups : u > gone
      BY <2>4, <3>1 DEF BackupPrunes, PruneInv
    <3>3. gone # t
      BY <2>0, <3>2
    <3> QED
      BY <2>0, <3>1, <3>3
  <2>5. ASSUME NEW x \in Proc, Migrates(x) \/ TimesOut(x) \/ Killed(x)
        PROVE  UNCHANGED backups
    BY <2>5 DEF Migrates, ReadsVersions, Skips, BeginsScript, ScriptFails, Commits, Finishes, Restarts,
                TimesOut, Killed
  <2> QED
    BY <2>1, <2>2, <2>3, <2>4, <2>5 DEF MigrationsNext, BacksUp, BackupLists, BackupEnds, SecondPasses, migrationsVars
<1>2. MigrationsTypeOK /\ SchemaInv /\ PruneInv /\ [MigrationsNext]_migrationsVars => (MigrationsTypeOK /\ SchemaInv /\ PruneInv)'
  BY NextType, NextSchema, NextPrune
<1>3. MigrationsInit => MigrationsTypeOK /\ SchemaInv /\ PruneInv
  <2>1. MigrationsInit => PruneInv
    BY DEF MigrationsInit, PruneInv, NewProcess, Proc
  <2> QED
    BY <2>1, InitType, InitSchema
<1> QED
  BY <1>1, <1>2, <1>3, PTL DEF MigrationsSpec, LastBackupStays
=============================================================================
