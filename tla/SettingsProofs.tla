--------------------------- MODULE SettingsProofs ---------------------------
(***************************************************************************)
(* What holds of config.toml, the server and its sessions for any number   *)
(* of saves, commands and logins.                                          *)
(***************************************************************************)
EXTENDS Settings, TLAPS

-----------------------------------------------------------------------------
(* Types.                                                                  *)

PCs == {"idle", "prompt", "lock", "locked", "written", "build", "auth",
        "llm", "adapter", "install", "error", "done"}

AskType == [provider : Supported, key : Key \cup {NoKey, Keep}]

Process == [pc : PCs, kind : {"none", "save", "init", "set-password"},
            ask : AskType \cup {NoOne}, doc : Document \cup {NoOne},
            seen : AuthSection \cup {NoOne}, new : AuthSection \cup {NoOne}]

Memory == [up : {TRUE}, doc : Document, auth : AuthSection, llm : LLMSection,
           adapter : LLMSection \cup {NoAdapter}, error : BOOLEAN]

\* A process has, at each point, read what it goes on to use.
Carries(p) ==
    /\ p.pc \in {"locked", "written", "auth", "llm", "adapter", "install", "error"} =>
          p.doc \in Document
    /\ p.kind = "save" => p.ask \in AskType
    /\ p.kind \in {"init", "set-password"} => p.seen \in AuthSection

\* Who is a save and who a command, and where each can be.
SaveAt(p) ==
    p.pc \notin {"idle", "done"} =>
        /\ p.kind = "save"
        /\ p.pc \in {"lock", "locked", "written", "build", "auth", "llm", "adapter",
                     "install", "error"}

\* A command past its prompt is about to write a new secret, or a password.
Writes(c, p) ==
    /\ p.new \in AuthSection
    /\ \/ /\ p.kind = "init" /\ p.seen.secret = NoSecret
          /\ p.new = [p.seen EXCEPT !.secret = c]
       \/ /\ p.kind = "init" /\ p.seen.secret # NoSecret /\ p.seen.pw = NoPassword
          /\ \E pw \in Password : p.new = [p.seen EXCEPT !.pw = pw]
       \/ /\ p.kind = "set-password"
          /\ \E pw \in Password : p.new = [p.seen EXCEPT !.pw = pw, !.epoch = @ + 1]

CliAt(c, p) ==
    /\ p.pc \in {"idle", "prompt", "lock", "locked", "written", "done"}
    /\ p.pc \notin {"idle", "done"} => p.kind \in {"init", "set-password"}
    /\ p.pc = "prompt" /\ p.kind = "init" =>
          p.seen.secret # NoSecret /\ p.seen.pw = NoPassword
    /\ p.pc \in {"lock", "locked"} => Writes(c, p)

\* The process x is where it can be, and has what it needs there.
Sound(x, p) ==
    /\ p \in Process
    /\ Carries(p)
    /\ x \in Save => SaveAt(p)
    /\ x \in Cli => CliAt(x, p)

Sounds == \A x \in Actor : Sound(x, proc[x])

Locks == \A x \in Actor : lock = x <=> proc[x].pc \in {"locked", "written"}

\* Saves are requests to a server that is up.
Served == ~server.up => \A x \in Save : proc[x].pc \in {"idle", "done"}

\* The lock holder's copy is the file.
Copied == \A x \in Actor : proc[x].pc \in {"locked", "written"} => proc[x].doc = file

Base ==
    /\ file \in Document
    /\ lock \in Actor \cup {NoOne}
    /\ server = Down \/ server \in Memory
    /\ DOMAIN proc = Actor /\ proc = [x \in Actor |-> proc[x]]
    /\ Sounds /\ Locks /\ Served /\ Copied
    /\ tangled \in BOOLEAN /\ muddled \in BOOLEAN

\* What is true of every process separately makes the types.
LEMMA BaseTypes == Base => TypeOK
<1> SUFFICES ASSUME Base PROVE TypeOK
  OBVIOUS
<1>1. \A x \in Actor : proc[x] \in Process
  BY DEF Base, Sounds, Sound
<1>2. proc \in [Actor -> Process]
  BY <1>1 DEF Base
<1> QED
  BY <1>2 DEF Base, Memory, Locks, TypeOK, Process, PCs, AskType

\* The records made from scratch.
LEMMA IdleSound ==
    /\ \A x \in Actor : Sound(x, Idle) /\ Sound(x, Ended)
    /\ Idle.pc = "idle" /\ Ended.pc = "done"
  BY ActorsDiffer DEF Actor, Idle, Ended, Sound, Process, PCs, Carries, SaveAt, CliAt

LEMMA LoadedType ==
    ASSUME NEW doc \in Document
    PROVE  Loaded(doc) \in Memory
  BY NoAdapterIsNone DEF Loaded, Memory, Document, AdapterFor, Usable

LEMMA DownIsDown == Down.up = FALSE /\ \A m \in Memory : m.up = TRUE
<1>1. Down.up = FALSE
  BY DEF Down
<1>2. \A m \in Memory : m.up = TRUE
  BY DEF Memory
<1> QED
  BY <1>1, <1>2

-----------------------------------------------------------------------------
LEMMA InitBase == Init => Base
<1> SUFFICES ASSUME Init PROVE Base
  OBVIOUS
<1>1. \A x \in Actor : proc[x] = Idle
  BY DEF Init
<1>2. file \in Document
  BY FilesAreDocuments DEF Init
<1>3. lock = NoOne /\ NoOne \notin Actor
  BY ActorsDiffer DEF Init
<1>4. Sounds /\ Locks /\ Served /\ Copied
  BY <1>1, <1>3, IdleSound DEF Sounds, Locks, Served, Copied, Actor
<1> QED
  BY <1>2, <1>3, <1>4 DEF Init, Base

\* A step that changes one process, and leaves the lock and the file.
LEMMA Moved ==
    ASSUME Base, NEW x \in Actor, NEW q, proc' = [proc EXCEPT ![x] = q],
           Sound(x, q), q.pc \in {"locked", "written"} <=> lock' = x,
           lock' \in {lock, NoOne, x}, lock' # lock => lock \in {x, NoOne},
           file' = file, q.pc \in {"locked", "written"} => q.doc = file,
           server'.up = server.up, server.up \/ x \in Cli \/ q.pc \in {"idle", "done"}
    PROVE  Sounds' /\ Locks' /\ Served' /\ Copied' /\ DOMAIN proc' = Actor
           /\ proc' = [y \in Actor |-> proc'[y]]
<1>1. /\ DOMAIN proc' = Actor /\ proc' = [y \in Actor |-> proc'[y]]
      /\ proc'[x] = q /\ \A y \in Actor \ {x} : proc'[y] = proc[y]
  BY DEF Base
<1>2. Sounds'
  BY <1>1 DEF Base, Sounds
<1>3. NoOne \notin Actor
  BY ActorsDiffer
<1>4. Locks'
  <2> SUFFICES ASSUME NEW y \in Actor
               PROVE  lock' = y <=> proc'[y].pc \in {"locked", "written"}
    BY DEF Locks
  <2>1. CASE y = x
    BY <1>1, <2>1
  <2>2. CASE y # x
    BY <1>1, <1>3, <2>2 DEF Base, Locks
  <2> QED
    BY <2>1, <2>2
<1>5. Copied'
  BY <1>1 DEF Base, Copied
<1>6. Served'
  <2> SUFFICES ASSUME ~server'.up, NEW y \in Save PROVE proc'[y].pc \in {"idle", "done"}
    BY DEF Served
  <2>1. CASE y = x
    BY <1>1, <2>1, ActorsDiffer
  <2>2. CASE y # x
    BY <1>1, <2>2 DEF Base, Served, Actor
  <2> QED
    BY <2>1, <2>2
<1> QED
  BY <1>1, <1>2, <1>4, <1>5, <1>6

-----------------------------------------------------------------------------
(* The steps of update_section.                                            *)

LEMMA AcquireBase ==
    ASSUME Base, NEW x \in Actor, Acquire(x)
    PROVE  Base'
<1> DEFINE p == proc[x]
           q == [p EXCEPT !.pc = "locked", !.doc = file]
<1>1. p \in Process /\ p.pc = "lock" /\ Sound(x, p)
  BY DEF Base, Sounds, Sound, Acquire
<1>2. /\ q \in Process /\ q.pc = "locked" /\ q.doc = file /\ q.kind = p.kind
      /\ q.ask = p.ask /\ q.seen = p.seen /\ q.new = p.new
  BY <1>1 DEF Process, PCs, Base
<1>3. proc' = [proc EXCEPT ![x] = q]
  BY DEF Acquire
<1> HIDE DEF p, q
<1>4. Sound(x, q)
  BY <1>1, <1>2, ZenonT(30) DEF Sound, Carries, SaveAt, CliAt, Writes, Base
<1>5. lock = NoOne /\ lock' = x /\ file' = file /\ server' = server
  BY DEF Acquire
<1>6. server.up \/ x \in Cli
  BY <1>1 DEF Base, Served, Actor, p
<1>7. Sounds' /\ Locks' /\ Served' /\ Copied' /\ DOMAIN proc' = Actor
      /\ proc' = [y \in Actor |-> proc'[y]]
  BY <1>2, <1>3, <1>4, <1>5, <1>6, Moved
<1> QED
  BY <1>5, <1>7 DEF Base, Acquire

\* What update_section writes: a save leaves [auth] alone and takes over only
\* a key it was sent; a command leaves the rest alone, and sets a new secret,
\* or a password.
LEMMA MergedIs ==
    ASSUME Base, NEW x \in Actor, proc[x].pc = "locked"
    PROVE  /\ Merged(x, file) \in Document
           /\ x \in Save => /\ Merged(x, file).auth = file.auth
                            /\ Merged(x, file).llm.key # file.llm.key =>
                                  Merged(x, file).llm.key = proc[x].ask.key
           /\ x \in Cli =>
                 /\ Merged(x, file).llm = file.llm
                 /\ LET old == file.auth
                        new == Merged(x, file).auth
                    IN  \/ /\ proc[x].kind = "init" /\ proc[x].seen.secret = NoSecret
                           /\ new.secret = x /\ new.pw = old.pw
                           /\ new.epoch = proc[x].seen.epoch
                        \/ /\ proc[x].kind = "init"
                           /\ proc[x].seen.secret # NoSecret /\ proc[x].seen.pw = NoPassword
                           /\ new.secret = old.secret /\ new.pw \in Password
                           /\ new.epoch = proc[x].seen.epoch
                        \/ /\ proc[x].kind = "set-password"
                           /\ new.secret = old.secret /\ new.pw \in Password
                           /\ new.epoch = proc[x].seen.epoch + 1
<1> DEFINE p == proc[x]
<1>1. p \in Process /\ Sound(x, p) /\ p.pc = "locked" /\ file \in Document
  BY DEF Base, Sounds, Sound
<1>2. file.llm \in LLMSection /\ file.auth \in AuthSection
  BY <1>1 DEF Document
<1>3. CASE x \in Save
  <2>1. p.ask \in AskType /\ x \notin Cli
    BY <1>1, <1>3, ActorsDiffer DEF Sound, SaveAt, Carries
  <2> DEFINE llm == [provider |-> p.ask.provider,
                     key |-> IF p.ask.key = Keep THEN file.llm.key ELSE p.ask.key]
  <2>2. llm \in LLMSection
    BY <1>2, <2>1, ValuesDiffer DEF AskType, LLMSection
  <2>3. llm.key # file.llm.key => llm.key = p.ask.key
    BY <1>2, <2>1
  <2>4. Merged(x, file) = [file EXCEPT !.llm = llm]
    BY <1>3 DEF Merged
  <2> HIDE DEF llm, p
  <2>5. [file EXCEPT !.llm = llm] \in Document /\ [file EXCEPT !.llm = llm].auth = file.auth
        /\ [file EXCEPT !.llm = llm].llm = llm
    BY <1>1, <2>2 DEF Document
  <2> QED
    BY <2>1, <2>3, <2>4, <2>5 DEF p
<1>4. CASE x \in Cli
  <2>1. x \notin Save /\ Writes(x, p) /\ p.seen \in AuthSection
    BY <1>1, <1>4, ActorsDiffer DEF Sound, CliAt, Carries
  <2>2. x # NoSecret
    BY <1>4, ActorsDiffer
  <2>3. CASE p.kind = "init" /\ p.seen.secret = NoSecret
    <3>1. p.new = [p.seen EXCEPT !.secret = x]
      BY <2>1, <2>3 DEF Writes
    <3>2. p.new \in AuthSection /\ p.new.secret = x /\ p.new.epoch = p.seen.epoch
      BY <2>1, <3>1 DEF AuthSection, Writes
    <3> DEFINE auth == [file.auth EXCEPT !.secret = p.new.secret, !.epoch = p.new.epoch]
    <3>3. /\ auth \in AuthSection /\ auth.secret = x
          /\ auth.pw = file.auth.pw /\ auth.epoch = p.new.epoch
      BY <1>2, <3>2 DEF AuthSection
    <3>4. Merged(x, file) = [file EXCEPT !.auth = auth]
      BY <2>1, <2>2, <2>3, <3>2 DEF Merged
    <3> HIDE DEF p, auth
    <3>5. /\ [file EXCEPT !.auth = auth] \in Document
          /\ [file EXCEPT !.auth = auth].auth = auth /\ [file EXCEPT !.auth = auth].llm = file.llm
      BY <1>1, <3>3 DEF Document
    <3> QED
      BY <2>1, <2>3, <3>2, <3>3, <3>4, <3>5 DEF p
  <2>4. CASE ~(p.kind = "init" /\ p.seen.secret = NoSecret)
    <3>1. PICK pw \in Password :
             \/ /\ p.kind = "init" /\ p.seen.secret # NoSecret /\ p.seen.pw = NoPassword
                /\ p.new = [p.seen EXCEPT !.pw = pw]
             \/ /\ p.kind = "set-password"
                /\ p.new = [p.seen EXCEPT !.pw = pw, !.epoch = @ + 1]
      BY <2>1, <2>4 DEF Writes
    <3>2. /\ p.new.pw = pw
          /\ p.kind = "init" => p.new.secret = p.seen.secret /\ p.new.epoch = p.seen.epoch
          /\ p.kind = "set-password" => p.new.epoch = p.seen.epoch + 1
      BY <2>1, <3>1 DEF AuthSection
    <3> DEFINE auth == [file.auth EXCEPT !.pw = p.new.pw, !.epoch = p.new.epoch]
    <3>3. /\ auth \in AuthSection /\ auth.secret = file.auth.secret
          /\ auth.pw = p.new.pw /\ auth.epoch = p.new.epoch
      BY <1>2, <2>1 DEF AuthSection, Writes
    <3>4. Merged(x, file) = [file EXCEPT !.auth = auth]
      BY <2>1, <3>1, <3>2 DEF Merged
    <3> HIDE DEF p, auth
    <3>5. /\ [file EXCEPT !.auth = auth] \in Document
          /\ [file EXCEPT !.auth = auth].auth = auth /\ [file EXCEPT !.auth = auth].llm = file.llm
      BY <1>1, <3>3 DEF Document
    <3> QED
      BY <2>1, <3>1, <3>2, <3>3, <3>4, <3>5 DEF p
  <2> QED
    BY <2>3, <2>4
<1> QED
  BY <1>3, <1>4 DEF Actor

LEMMA ReplaceBase ==
    ASSUME Base, NEW x \in Actor, Replace(x)
    PROVE  Base'
<1> DEFINE p == proc[x]
           doc == Merged(x, p.doc)
           q == [p EXCEPT !.pc = "written", !.doc = doc]
<1>1. p \in Process /\ p.pc = "locked" /\ Sound(x, p) /\ p.doc = file
  BY DEF Base, Sounds, Sound, Replace, Copied
<1>2. doc \in Document
  BY <1>1, MergedIs
<1>3. /\ proc' = [proc EXCEPT ![x] = q] /\ file' = doc
      /\ lock' = lock /\ server' = server /\ muddled' = muddled
  BY DEF Replace
<1>4. tangled' \in BOOLEAN
  BY DEF Replace, Base
<1> HIDE DEF doc
<1>5. /\ q \in Process /\ q.pc = "written" /\ q.doc = doc /\ q.kind = p.kind
      /\ q.ask = p.ask /\ q.seen = p.seen /\ q.new = p.new
  BY <1>1, <1>2 DEF Process, PCs
<1> HIDE DEF p, q
<1>6. Sound(x, q)
  BY <1>1, <1>2, <1>5 DEF Sound, Carries, SaveAt, CliAt
<1>7. /\ DOMAIN proc' = Actor /\ proc' = [y \in Actor |-> proc'[y]]
      /\ proc'[x] = q /\ \A y \in Actor \ {x} : proc'[y] = proc[y]
  BY <1>3 DEF Base
<1>8. lock = x
  BY <1>1 DEF Base, Locks, p
<1>9. Sounds' /\ Locks'
  BY <1>3, <1>5, <1>6, <1>7, <1>8 DEF Base, Sounds, Locks
<1>10. Served'
  BY <1>1, <1>3, <1>7 DEF Base, Served, Actor, p
<1>11. Copied'
  BY <1>3, <1>5, <1>7, <1>8 DEF Base, Copied, Locks
<1> QED
  BY <1>2, <1>3, <1>4, <1>7, <1>9, <1>10, <1>11 DEF Base

LEMMA WriteFailsBase ==
    ASSUME Base, NEW x \in Actor, WriteFails(x)
    PROVE  Base'
<1>1. proc' = [proc EXCEPT ![x] = Ended] /\ Sound(x, Ended) /\ Ended.pc = "done"
  BY IdleSound DEF WriteFails
<1>2. lock' = (IF lock = x THEN NoOne ELSE lock) /\ file' = file /\ server' = server
  BY DEF WriteFails
<1>3. lock' # x /\ lock' \in {lock, NoOne} /\ (lock' # lock => lock = x)
  BY <1>2, ActorsDiffer
<1>4. Sounds' /\ Locks' /\ Served' /\ Copied' /\ DOMAIN proc' = Actor
      /\ proc' = [y \in Actor |-> proc'[y]]
  BY <1>1, <1>2, <1>3, Moved
<1> QED
  BY <1>2, <1>4 DEF Base, WriteFails

LEMMA KilledBase ==
    ASSUME Base, NEW x \in Cli, Killed(x)
    PROVE  Base'
<1>1. x \in Actor /\ proc' = [proc EXCEPT ![x] = Ended] /\ Sound(x, Ended) /\ Ended.pc = "done"
  BY IdleSound DEF Killed, Actor
<1>2. lock' = (IF lock = x THEN NoOne ELSE lock) /\ file' = file /\ server' = server
  BY DEF Killed
<1>3. lock' # x /\ lock' \in {lock, NoOne} /\ (lock' # lock => lock = x)
  BY <1>1, <1>2, ActorsDiffer
<1>4. Sounds' /\ Locks' /\ Served' /\ Copied' /\ DOMAIN proc' = Actor
      /\ proc' = [y \in Actor |-> proc'[y]]
  BY <1>1, <1>2, <1>3, Moved
<1> QED
  BY <1>2, <1>4 DEF Base, Killed

-----------------------------------------------------------------------------
(* The steps of a save.                                                    *)

LEMMA SaveRejectedBase ==
    ASSUME Base, NEW x \in Save, SaveRejected(x)
    PROVE  Base'
<1>1. x \in Actor /\ proc' = [proc EXCEPT ![x] = Ended] /\ Sound(x, Ended) /\ Ended.pc = "done"
  BY IdleSound DEF SaveRejected, Actor
<1>2. lock' = lock /\ file' = file /\ server' = server /\ proc[x].pc = "idle"
  BY DEF SaveRejected
<1>3. lock # x
  BY <1>1, <1>2 DEF Base, Locks
<1>4. Sounds' /\ Locks' /\ Served' /\ Copied' /\ DOMAIN proc' = Actor
      /\ proc' = [y \in Actor |-> proc'[y]]
  BY <1>1, <1>2, <1>3, Moved
<1> QED
  BY <1>2, <1>4 DEF Base, SaveRejected

LEMMA SaveBeginsBase ==
    ASSUME Base, NEW x \in Save, SaveBegins(x)
    PROVE  Base'
<1> DEFINE p == proc[x]
           q(a) == [p EXCEPT !.pc = "lock", !.kind = "save", !.ask = a]
<1>1. x \in Actor /\ p.pc = "idle" /\ p \in Process /\ Sound(x, p) /\ x \notin Cli /\ server.up
  BY ActorsDiffer DEF Base, Sounds, Sound, SaveBegins, Actor
<1>2. PICK a \in Ask : a.provider \in Supported /\ proc' = [proc EXCEPT ![x] = q(a)]
  BY DEF SaveBegins
<1>3. a \in AskType
  BY <1>2, AsksAreTyped DEF AskType
<1>4. /\ q(a) \in Process /\ q(a).pc = "lock" /\ q(a).kind = "save" /\ q(a).ask = a
      /\ q(a).seen = p.seen
  BY <1>1, <1>3 DEF Process, PCs, AskType
<1> HIDE DEF p, q
<1>5. Sound(x, q(a))
  BY <1>1, <1>3, <1>4 DEF Sound, Carries, SaveAt
<1>6. lock' = lock /\ file' = file /\ server' = server /\ tangled' = tangled
  BY DEF SaveBegins
<1>7. lock # x
  BY <1>1 DEF Base, Locks, p
<1>8. Sounds' /\ Locks' /\ Served' /\ Copied' /\ DOMAIN proc' = Actor
      /\ proc' = [y \in Actor |-> proc'[y]]
  BY <1>1, <1>2, <1>4, <1>5, <1>6, <1>7, Moved
<1>9. muddled' \in BOOLEAN
  BY DEF SaveBegins
<1> QED
  BY <1>6, <1>8, <1>9 DEF Base

\* A save that is under way has the server up, and is no command.
LEMMA SaveUnderWay ==
    ASSUME Base, NEW x \in Actor,
           proc[x].pc \in {"build", "auth", "llm", "adapter", "install", "error"} \/ x \in Save,
           proc[x].pc \notin {"idle", "done"}
    PROVE  x \in Save /\ x \notin Cli /\ server.up /\ server \in Memory /\ proc[x].kind = "save"
<1>1. x \in Save
  BY DEF Base, Sounds, Sound, CliAt, Actor
<1> QED
  BY <1>1, ActorsDiffer, DownIsDown DEF Base, Sounds, Sound, SaveAt, Served

LEMMA SavePublishesBase ==
    ASSUME Base, NEW x \in Actor, SavePublishes(x), x \in Save
    PROVE  Base'
<1> DEFINE p == proc[x]
           q == [p EXCEPT !.pc = "build"]
<1>1. p \in Process /\ p.pc = "written" /\ Sound(x, p)
  BY DEF Base, Sounds, Sound, SavePublishes, Moves
<1>2. x \in Save /\ x \notin Cli /\ server.up /\ server \in Memory /\ p.kind = "save"
  BY <1>1, SaveUnderWay
<1>3. /\ proc' = [proc EXCEPT ![x] = q] /\ file' = file /\ lock' = NoOne
      /\ tangled' = tangled /\ muddled' \in BOOLEAN
  BY DEF SavePublishes, Moves, Base
<1>4. server' \in Memory /\ server'.up = server.up
  <2>1. p.doc \in Document
    BY <1>1, <1>2 DEF Sound, Carries, Memory, Document
  <2>2. server' = [server EXCEPT !.doc = p.doc]
    BY DEF SavePublishes, Moves
  <2> QED
    BY <1>2, <2>1, <2>2 DEF Memory, Document
<1>5. /\ q \in Process /\ q.pc = "build" /\ q.kind = p.kind /\ q.ask = p.ask
      /\ q.seen = p.seen
  BY <1>1, <1>2 DEF Process, PCs, Sound, Carries, Memory, Document
<1> HIDE DEF p, q
<1>6. Sound(x, q)
  BY <1>1, <1>2, <1>5 DEF Sound, Carries, SaveAt
<1>7. lock' # x /\ lock' \in {lock, NoOne} /\ (lock' # lock => lock = x)
  BY <1>1, <1>3, ActorsDiffer DEF Base, Locks, p
<1>8. Sounds' /\ Locks' /\ Served' /\ Copied' /\ DOMAIN proc' = Actor
      /\ proc' = [y \in Actor |-> proc'[y]]
  BY <1>2, <1>3, <1>4, <1>5, <1>6, <1>7, Moved
<1> QED
  BY <1>3, <1>4, <1>7, <1>8 DEF Base

LEMMA BuildReadsBase ==
    ASSUME Base, NEW x \in Actor, BuildReads(x)
    PROVE  Base'
<1> DEFINE p == proc[x]
           q == [p EXCEPT !.pc = "auth", !.doc = server.doc]
<1>1. p \in Process /\ p.pc = "build" /\ Sound(x, p)
  BY DEF Base, Sounds, Sound, BuildReads
<1>2. x \in Save /\ x \notin Cli /\ server.up /\ server \in Memory /\ p.kind = "save"
  BY <1>1, SaveUnderWay
<1>3. /\ proc' = [proc EXCEPT ![x] = q] /\ file' = file /\ lock' = lock
      /\ tangled' = tangled /\ muddled' = muddled
  BY DEF BuildReads
<1>4. server' \in Memory /\ server'.up = server.up
  <2>1. server.doc \in Document
    BY <1>1, <1>2 DEF Sound, Carries, Memory, Document
  <2>2. server' = server
    BY DEF BuildReads
  <2> QED
    BY <1>2, <2>1, <2>2 DEF Memory, Document
<1>5. /\ q \in Process /\ q.pc = "auth" /\ q.kind = p.kind /\ q.ask = p.ask
      /\ q.seen = p.seen /\ q.doc \in Document
  BY <1>1, <1>2 DEF Process, PCs, Sound, Carries, Memory, Document
<1> HIDE DEF p, q
<1>6. Sound(x, q)
  BY <1>1, <1>2, <1>5 DEF Sound, Carries, SaveAt
<1>7. lock' # x /\ lock' \in {lock, NoOne} /\ (lock' # lock => lock = x)
  BY <1>1, <1>3, ActorsDiffer DEF Base, Locks, p
<1>8. Sounds' /\ Locks' /\ Served' /\ Copied' /\ DOMAIN proc' = Actor
      /\ proc' = [y \in Actor |-> proc'[y]]
  BY <1>2, <1>3, <1>4, <1>5, <1>6, <1>7, Moved
<1> QED
  BY <1>3, <1>4, <1>7, <1>8 DEF Base

LEMMA BuildAuthBase ==
    ASSUME Base, NEW x \in Actor, BuildAuth(x)
    PROVE  Base'
<1> DEFINE p == proc[x]
           q == [p EXCEPT !.pc = "llm"]
<1>1. p \in Process /\ p.pc = "auth" /\ Sound(x, p)
  BY DEF Base, Sounds, Sound, BuildAuth, Moves
<1>2. x \in Save /\ x \notin Cli /\ server.up /\ server \in Memory /\ p.kind = "save"
  BY <1>1, SaveUnderWay
<1>3. /\ proc' = [proc EXCEPT ![x] = q] /\ file' = file /\ lock' = lock
      /\ tangled' = tangled /\ muddled' = muddled
  BY DEF BuildAuth, Moves
<1>4. server' \in Memory /\ server'.up = server.up
  <2>1. p.doc.auth \in AuthSection
    BY <1>1, <1>2 DEF Sound, Carries, Memory, Document
  <2>2. server' = [server EXCEPT !.auth = p.doc.auth]
    BY DEF BuildAuth, Moves
  <2> QED
    BY <1>2, <2>1, <2>2 DEF Memory, Document
<1>5. /\ q \in Process /\ q.pc = "llm" /\ q.kind = p.kind /\ q.ask = p.ask
      /\ q.seen = p.seen /\ q.doc \in Document
  BY <1>1, <1>2 DEF Process, PCs, Sound, Carries, Memory, Document
<1> HIDE DEF p, q
<1>6. Sound(x, q)
  BY <1>1, <1>2, <1>5 DEF Sound, Carries, SaveAt
<1>7. lock' # x /\ lock' \in {lock, NoOne} /\ (lock' # lock => lock = x)
  BY <1>1, <1>3, ActorsDiffer DEF Base, Locks, p
<1>8. Sounds' /\ Locks' /\ Served' /\ Copied' /\ DOMAIN proc' = Actor
      /\ proc' = [y \in Actor |-> proc'[y]]
  BY <1>2, <1>3, <1>4, <1>5, <1>6, <1>7, Moved
<1> QED
  BY <1>3, <1>4, <1>7, <1>8 DEF Base

LEMMA BuildLLMBase ==
    ASSUME Base, NEW x \in Actor, BuildLLM(x)
    PROVE  Base'
<1> DEFINE p == proc[x]
           q == [p EXCEPT !.pc = "adapter"]
<1>1. p \in Process /\ p.pc = "llm" /\ Sound(x, p)
  BY DEF Base, Sounds, Sound, BuildLLM, Moves
<1>2. x \in Save /\ x \notin Cli /\ server.up /\ server \in Memory /\ p.kind = "save"
  BY <1>1, SaveUnderWay
<1>3. /\ proc' = [proc EXCEPT ![x] = q] /\ file' = file /\ lock' = lock
      /\ tangled' = tangled /\ muddled' = muddled
  BY DEF BuildLLM, Moves
<1>4. server' \in Memory /\ server'.up = server.up
  <2>1. p.doc.llm \in LLMSection
    BY <1>1, <1>2 DEF Sound, Carries, Memory, Document
  <2>2. server' = [server EXCEPT !.llm = p.doc.llm]
    BY DEF BuildLLM, Moves
  <2> QED
    BY <1>2, <2>1, <2>2 DEF Memory, Document
<1>5. /\ q \in Process /\ q.pc = "adapter" /\ q.kind = p.kind /\ q.ask = p.ask
      /\ q.seen = p.seen /\ q.doc \in Document
  BY <1>1, <1>2 DEF Process, PCs, Sound, Carries, Memory, Document
<1> HIDE DEF p, q
<1>6. Sound(x, q)
  BY <1>1, <1>2, <1>5 DEF Sound, Carries, SaveAt
<1>7. lock' # x /\ lock' \in {lock, NoOne} /\ (lock' # lock => lock = x)
  BY <1>1, <1>3, ActorsDiffer DEF Base, Locks, p
<1>8. Sounds' /\ Locks' /\ Served' /\ Copied' /\ DOMAIN proc' = Actor
      /\ proc' = [y \in Actor |-> proc'[y]]
  BY <1>2, <1>3, <1>4, <1>5, <1>6, <1>7, Moved
<1> QED
  BY <1>3, <1>4, <1>7, <1>8 DEF Base

LEMMA BuildAdapterBase ==
    ASSUME Base, NEW x \in Actor, BuildAdapter(x)
    PROVE  Base'
<1> DEFINE p == proc[x]
           q == [p EXCEPT !.pc = "install", !.doc = [p.doc EXCEPT !.llm = server.llm]]
<1>1. p \in Process /\ p.pc = "adapter" /\ Sound(x, p)
  BY DEF Base, Sounds, Sound, BuildAdapter
<1>2. x \in Save /\ x \notin Cli /\ server.up /\ server \in Memory /\ p.kind = "save"
  BY <1>1, SaveUnderWay
<1>3. /\ proc' = [proc EXCEPT ![x] = q] /\ file' = file /\ lock' = lock
      /\ tangled' = tangled /\ muddled' = muddled
  BY DEF BuildAdapter
<1>4. server' \in Memory /\ server'.up = server.up
  <2>1. p.doc \in Document
    BY <1>1, <1>2 DEF Sound, Carries, Memory, Document
  <2>2. server' = server
    BY DEF BuildAdapter
  <2> QED
    BY <1>2, <2>1, <2>2 DEF Memory, Document
<1>5. /\ q \in Process /\ q.pc = "install" /\ q.kind = p.kind /\ q.ask = p.ask
      /\ q.seen = p.seen /\ q.doc \in Document
  BY <1>1, <1>2 DEF Process, PCs, Sound, Carries, Memory, Document
<1> HIDE DEF p, q
<1>6. Sound(x, q)
  BY <1>1, <1>2, <1>5 DEF Sound, Carries, SaveAt
<1>7. lock' # x /\ lock' \in {lock, NoOne} /\ (lock' # lock => lock = x)
  BY <1>1, <1>3, ActorsDiffer DEF Base, Locks, p
<1>8. Sounds' /\ Locks' /\ Served' /\ Copied' /\ DOMAIN proc' = Actor
      /\ proc' = [y \in Actor |-> proc'[y]]
  BY <1>2, <1>3, <1>4, <1>5, <1>6, <1>7, Moved
<1> QED
  BY <1>3, <1>4, <1>7, <1>8 DEF Base

LEMMA InstallBase ==
    ASSUME Base, NEW x \in Actor, Install(x)
    PROVE  Base'
<1> DEFINE p == proc[x]
           q == [p EXCEPT !.pc = "error"]
<1>1. p \in Process /\ p.pc = "install" /\ Sound(x, p)
  BY DEF Base, Sounds, Sound, Install, Moves
<1>2. x \in Save /\ x \notin Cli /\ server.up /\ server \in Memory /\ p.kind = "save"
  BY <1>1, SaveUnderWay
<1>3. /\ proc' = [proc EXCEPT ![x] = q] /\ file' = file /\ lock' = lock
      /\ tangled' = tangled /\ muddled' = muddled
  BY DEF Install, Moves
<1>4. server' \in Memory /\ server'.up = server.up
  <2>1. p.doc.llm \in LLMSection
    BY <1>1, <1>2 DEF Sound, Carries, Memory, Document
  <2>2. server' = [server EXCEPT !.adapter = AdapterFor(p.doc.llm)]
    BY DEF Install, Moves
  <2> QED
    BY <1>2, <2>1, <2>2, NoAdapterIsNone DEF Memory, Document, AdapterFor
<1>5. /\ q \in Process /\ q.pc = "error" /\ q.kind = p.kind /\ q.ask = p.ask
      /\ q.seen = p.seen /\ q.doc \in Document
  BY <1>1, <1>2 DEF Process, PCs, Sound, Carries, Memory, Document
<1> HIDE DEF p, q
<1>6. Sound(x, q)
  BY <1>1, <1>2, <1>5 DEF Sound, Carries, SaveAt
<1>7. lock' # x /\ lock' \in {lock, NoOne} /\ (lock' # lock => lock = x)
  BY <1>1, <1>3, ActorsDiffer DEF Base, Locks, p
<1>8. Sounds' /\ Locks' /\ Served' /\ Copied' /\ DOMAIN proc' = Actor
      /\ proc' = [y \in Actor |-> proc'[y]]
  BY <1>2, <1>3, <1>4, <1>5, <1>6, <1>7, Moved
<1> QED
  BY <1>3, <1>4, <1>7, <1>8 DEF Base

LEMMA InstallErrorBase ==
    ASSUME Base, NEW x \in Actor, InstallError(x)
    PROVE  Base'
<1>1. proc[x].pc = "error"
  BY DEF InstallError
<1>2. server \in Memory /\ server.up
  BY <1>1, SaveUnderWay
<1>3. proc' = [proc EXCEPT ![x] = Ended] /\ Sound(x, Ended) /\ Ended.pc = "done"
  BY IdleSound DEF InstallError
<1>4. lock' = lock /\ file' = file /\ tangled' = tangled /\ muddled' = muddled
  BY DEF InstallError
<1>5. server' \in Memory /\ server'.up = server.up
  BY <1>2 DEF InstallError, Memory, Usable
<1>6. lock # x
  BY <1>1 DEF Base, Locks
<1>7. Sounds' /\ Locks' /\ Served' /\ Copied' /\ DOMAIN proc' = Actor
      /\ proc' = [y \in Actor |-> proc'[y]]
  BY <1>3, <1>4, <1>5, <1>6, Moved
<1> QED
  BY <1>4, <1>5, <1>7 DEF Base

-----------------------------------------------------------------------------
(* The steps of a command.                                                 *)

LEMMA IdleIsProcess == Idle \in Process
  BY DEF Idle, Process, PCs

LEMMA InitGoesOnSound ==
    ASSUME NEW c \in Cli, NEW auth \in AuthSection
    PROVE  /\ Sound(c, InitGoesOn(c, auth))
           /\ InitGoesOn(c, auth).pc \in {"lock", "prompt", "done"}
<1> DEFINE g == InitGoesOn(c, auth)
<1>0. c \notin Save /\ c \in Actor
  BY ActorsDiffer DEF Actor
<1>1. CASE auth.secret = NoSecret
  <2> DEFINE new == [auth EXCEPT !.secret = c]
             q == [Idle EXCEPT !.pc = "lock", !.kind = "init", !.seen = auth, !.new = new]
  <2>1. new \in AuthSection
    BY DEF AuthSection, Secret
  <2>2. g = q
    BY <1>1 DEF InitGoesOn
  <2>3. new = [auth EXCEPT !.secret = c]
    OBVIOUS
  <2> HIDE DEF new
  <2>4. q \in Process /\ q.pc = "lock" /\ q.kind = "init" /\ q.seen = auth /\ q.new = new
    BY <2>1, IdleIsProcess DEF Process, PCs
  <2> HIDE DEF q, g
  <2>5. Sound(c, q)
    BY <1>0, <1>1, <2>1, <2>3, <2>4 DEF Sound, Carries, CliAt, Writes
  <2> QED
    BY <2>2, <2>4, <2>5 DEF g
<1>2. CASE auth.secret # NoSecret /\ auth.pw = NoPassword
  <2> DEFINE q == [Idle EXCEPT !.pc = "prompt", !.kind = "init", !.seen = auth]
  <2>1. g = q
    BY <1>2 DEF InitGoesOn
  <2>2. q \in Process /\ q.pc = "prompt" /\ q.kind = "init" /\ q.seen = auth
    BY IdleIsProcess DEF Process, PCs
  <2> HIDE DEF q, g
  <2>3. Sound(c, q)
    BY <1>0, <1>2, <2>2 DEF Sound, Carries, CliAt
  <2> QED
    BY <2>1, <2>2, <2>3 DEF g
<1>3. CASE auth.secret # NoSecret /\ auth.pw # NoPassword
  <2>1. g = Ended
    BY <1>3 DEF InitGoesOn
  <2> QED
    BY <1>0, <2>1, IdleSound
<1> QED
  BY <1>1, <1>2, <1>3

LEMMA LoadBase ==
    ASSUME Base, NEW x \in Cli, Load(x)
    PROVE  Base'
<1> DEFINE p == proc[x]
           q == [p EXCEPT !.pc = "prompt", !.kind = "set-password", !.seen = file.auth]
<1>1. /\ x \in Actor /\ x \notin Save /\ p.pc = "idle" /\ p \in Process /\ Sound(x, p)
      /\ file.auth \in AuthSection
  BY ActorsDiffer DEF Base, Sounds, Sound, Load, Actor, Document
<1>2. lock' = lock /\ file' = file /\ server' = server /\ tangled' = tangled /\ muddled' = muddled
  BY DEF Load
<1>3. lock # x
  BY <1>1 DEF Base, Locks
<1>4. q \in Process /\ q.pc = "prompt" /\ q.kind = "set-password" /\ q.seen = file.auth
  BY <1>1 DEF Process, PCs
<1>5. proc' = [proc EXCEPT ![x] = InitGoesOn(x, file.auth)] \/ proc' = [proc EXCEPT ![x] = q]
  BY DEF Load
<1> HIDE DEF q
<1>6. Sound(x, q)
  BY <1>1, <1>4 DEF Sound, Carries, CliAt
<1>7. PICK r : /\ proc' = [proc EXCEPT ![x] = r] /\ Sound(x, r)
               /\ r.pc \notin {"locked", "written"}
  <2>1. CASE proc' = [proc EXCEPT ![x] = q]
    BY <1>4, <1>6, <2>1
  <2>2. CASE proc' = [proc EXCEPT ![x] = InitGoesOn(x, file.auth)]
    <3>1. /\ Sound(x, InitGoesOn(x, file.auth))
          /\ InitGoesOn(x, file.auth).pc \notin {"locked", "written"}
      BY <1>1, InitGoesOnSound
    <3> QED
      BY <2>2, <3>1
  <2> QED
    BY <1>5, <2>1, <2>2
<1>8. Sounds' /\ Locks' /\ Served' /\ Copied' /\ DOMAIN proc' = Actor
      /\ proc' = [y \in Actor |-> proc'[y]]
  BY <1>1, <1>2, <1>3, <1>7, Moved
<1> QED
  BY <1>2, <1>8 DEF Base

LEMMA TypesBase ==
    ASSUME Base, NEW x \in Cli, Types(x)
    PROVE  Base'
<1> DEFINE p == proc[x]
<1>1. /\ x \in Actor /\ x \notin Save /\ p.pc = "prompt" /\ p \in Process /\ Sound(x, p)
  BY ActorsDiffer DEF Base, Sounds, Sound, Types, Actor
<1>2. p.kind \in {"init", "set-password"} /\ p.seen \in AuthSection
      /\ (p.kind = "init" => p.seen.secret # NoSecret /\ p.seen.pw = NoPassword)
  BY <1>1, ActorsDiffer DEF Sound, CliAt, Carries
<1>3. PICK pw \in Password :
         proc' = [proc EXCEPT ![x].pc = "lock",
                     ![x].new = [p.seen EXCEPT !.pw = pw,
                                 !.epoch = IF p.kind = "init" THEN @ ELSE @ + 1]]
  BY DEF Types
<1> DEFINE new == IF p.kind = "init" THEN [p.seen EXCEPT !.pw = pw]
                  ELSE [p.seen EXCEPT !.pw = pw, !.epoch = @ + 1]
           q == [p EXCEPT !.pc = "lock", !.new = new]
<1>4. new \in AuthSection
  <2>1. [p.seen EXCEPT !.pw = pw] \in AuthSection
    BY <1>2 DEF AuthSection
  <2>2. p.seen.epoch + 1 \in Nat
    BY <1>2 DEF AuthSection
  <2>3. ASSUME NEW a \in AuthSection, NEW n \in Nat
        PROVE  [a EXCEPT !.epoch = n] \in AuthSection
    BY DEF AuthSection
  <2>4. [p.seen EXCEPT !.pw = pw, !.epoch = p.seen.epoch + 1] \in AuthSection
    BY <2>1, <2>2, <2>3
  <2> QED
    BY <2>1, <2>4
<1>5. [p.seen EXCEPT !.pw = pw, !.epoch = IF p.kind = "init" THEN @ ELSE @ + 1] = new
  <2>1. CASE p.kind = "init"
    <3>1. p.seen.epoch = [p.seen EXCEPT !.pw = pw].epoch
      BY <1>2 DEF AuthSection
    <3>2. [p.seen EXCEPT !.pw = pw, !.epoch = p.seen.epoch] = [p.seen EXCEPT !.pw = pw]
      BY <1>2, <3>1 DEF AuthSection
    <3> QED
      BY <2>1, <3>2
  <2>2. CASE p.kind # "init"
    BY <2>2
  <2> QED
    BY <2>1, <2>2
<1>6. proc' = [proc EXCEPT ![x] = q]
  BY <1>3, <1>5
<1>8. /\ p.kind = "init" => new = [p.seen EXCEPT !.pw = pw]
      /\ p.kind # "init" => new = [p.seen EXCEPT !.pw = pw, !.epoch = @ + 1]
  OBVIOUS
<1> HIDE DEF new
<1>9. q \in Process /\ q.pc = "lock" /\ q.kind = p.kind /\ q.seen = p.seen /\ q.new = new
      /\ q.ask = p.ask
  BY <1>1, <1>4 DEF Process, PCs
<1> HIDE DEF p, q
<1>10. Sound(x, q)
  BY <1>1, <1>2, <1>4, <1>8, <1>9, ZenonT(30) DEF Sound, Carries, CliAt, Writes
<1>11. lock' = lock /\ file' = file /\ server' = server /\ tangled' = tangled /\ muddled' = muddled
  BY DEF Types
<1>12. lock # x
  BY <1>1 DEF Base, Locks, p
<1>13. Sounds' /\ Locks' /\ Served' /\ Copied' /\ DOMAIN proc' = Actor
      /\ proc' = [y \in Actor |-> proc'[y]]
  BY <1>1, <1>6, <1>9, <1>10, <1>11, <1>12, Moved
<1> QED
  BY <1>11, <1>13 DEF Base

LEMMA CommandReleasesBase ==
    ASSUME Base, NEW x \in Actor, CommandReleases(x)
    PROVE  Base'
<1> DEFINE p == proc[x]
           q == IF p.kind = "init" THEN InitGoesOn(x, p.doc.auth) ELSE Ended
<1>1. x \in Cli /\ p.pc = "written" /\ p.doc.auth \in AuthSection
  BY DEF Base, Sounds, Sound, Carries, CommandReleases, Document
<1>2. proc' = [proc EXCEPT ![x] = q]
  BY DEF CommandReleases
<1>3. Sound(x, q) /\ q.pc \in {"lock", "prompt", "done"}
  BY <1>1, InitGoesOnSound, IdleSound DEF Actor
<1> HIDE DEF q
<1>4. /\ lock' = NoOne /\ file' = file /\ server' = server /\ tangled' = tangled
      /\ muddled' = muddled
  BY DEF CommandReleases
<1>5. lock = x /\ NoOne # x
  BY <1>1, ActorsDiffer DEF Base, Locks
<1>6. Sounds' /\ Locks' /\ Served' /\ Copied' /\ DOMAIN proc' = Actor
      /\ proc' = [y \in Actor |-> proc'[y]]
  BY <1>1, <1>2, <1>3, <1>4, <1>5, Moved
<1> QED
  BY <1>4, <1>6 DEF Base

-----------------------------------------------------------------------------
(* The server and its sessions.                                            *)

LEMMA StartBase ==
    ASSUME Base, Start
    PROVE  Base'
<1>1. server' \in Memory
  BY LoadedType DEF Start, Base
<1>2. server'.up
  BY <1>1, DownIsDown
<1> QED
  BY <1>1, <1>2 DEF Start, Base, Sounds, Locks, Served, Copied

LEMMA StopBase ==
    ASSUME Base, Stop
    PROVE  Base'
<1> DEFINE q(x) == IF x \in Save /\ InFlight(x) THEN Ended ELSE proc[x]
<1>1. /\ proc' = [x \in Actor |-> q(x)] /\ server' = Down /\ file' = file
      /\ lock' = (IF lock \in Save THEN NoOne ELSE lock)
      /\ tangled' = tangled /\ muddled' = muddled
  BY DEF Stop
<1>2. \A x \in Actor : Sound(x, q(x))
  BY IdleSound DEF Base, Sounds
<1>3. \A x \in Save : q(x).pc \in {"idle", "done"}
  BY IdleSound DEF InFlight
<1>4. /\ \A x \in Actor : x \notin Save => q(x) = proc[x]
  OBVIOUS
<1>5. \A x \in Actor : q(x).pc \in {"locked", "written"} => q(x) = proc[x]
  BY IdleSound
<1> HIDE DEF q
<1>6. DOMAIN proc' = Actor /\ \A x \in Actor : proc'[x] = q(x)
  BY <1>1
<1>7. Sounds' /\ Copied'
  BY <1>1, <1>2, <1>5, <1>6 DEF Sounds, Copied, Base
<1>8. Served'
  BY <1>3, <1>6 DEF Served, Actor
<1>9. NoOne \notin Actor
  BY ActorsDiffer
<1>10. Locks'
  <2> SUFFICES ASSUME NEW x \in Actor
               PROVE  lock' = x <=> proc'[x].pc \in {"locked", "written"}
    BY DEF Locks
  <2>1. CASE x \in Save
    BY <1>1, <1>3, <1>6, <1>9, <2>1
  <2>2. CASE x \notin Save
    BY <1>1, <1>4, <1>6, <1>9, <2>2 DEF Base, Locks
  <2> QED
    BY <2>1, <2>2
<1> QED
  BY <1>1, <1>6, <1>7, <1>8, <1>10 DEF Base

\* Logins and cookies change nothing of it.
LEMMA QuietBase ==
    ASSUME Base, UNCHANGED <<file, lock, server, proc, tangled, muddled>>
    PROVE  Base'
  BY DEF Base, Sounds, Locks, Served, Copied

LEMMA NextBase == Base /\ [Next]_vars => Base'
<1> SUFFICES ASSUME Base, [Next]_vars PROVE Base'
  OBVIOUS
<1>1. ASSUME NEW x \in Actor, Proceeds(x) PROVE Base'
  BY <1>1, AcquireBase, ReplaceBase, SavePublishesBase, BuildReadsBase, BuildAuthBase,
     BuildLLMBase, BuildAdapterBase, InstallBase, InstallErrorBase, CommandReleasesBase
     DEF Proceeds
<1>2. ASSUME NEW x \in Actor, WriteFails(x) PROVE Base'
  BY <1>2, WriteFailsBase
<1>3. ASSUME NEW x \in Save, SaveRejected(x) \/ SaveBegins(x) PROVE Base'
  BY <1>3, SaveRejectedBase, SaveBeginsBase
<1>4. ASSUME NEW x \in Cli, Load(x) \/ Types(x) \/ Killed(x) PROVE Base'
  BY <1>4, LoadBase, TypesBase, KilledBase
<1>5. ASSUME NEW l \in Login, LoginVerifies(l) \/ LoginSigns(l) PROVE Base'
  BY <1>5, QuietBase DEF LoginVerifies, LoginSigns
<1>6. CASE Start
  BY <1>6, StartBase
<1>7. CASE Stop
  BY <1>7, StopBase
<1>8. CASE CookieGoes \/ UNCHANGED vars
  BY <1>8, QuietBase DEF CookieGoes, vars
<1> QED
  BY <1>1, <1>2, <1>3, <1>4, <1>5, <1>6, <1>7, <1>8 DEF Next

LEMMA BaseHolds == Spec => []Base
  BY InitBase, NextBase, PTL DEF Spec

\* The file, the memory of the server and the processes stay well typed, and
\* the lock is held by exactly who is between reading the file and releasing.
THEOREM TypeCorrect == Spec => []TypeOK
  BY BaseHolds, BaseTypes, PTL

-----------------------------------------------------------------------------
(* Updates are merged.                                                     *)

\* Only Replace changes the file.
LEMMA FileStays ==
    ASSUME [Next]_vars, \A x \in Actor : ~Replace(x)
    PROVE  file' = file
<1>1. ASSUME NEW x \in Actor, Proceeds(x) PROVE file' = file
  BY <1>1 DEF Proceeds, Acquire, SavePublishes, BuildReads, BuildAuth, BuildLLM,
              BuildAdapter, Install, InstallError, CommandReleases
<1>2. ASSUME NEW x \in Actor, WriteFails(x) PROVE file' = file
  BY <1>2 DEF WriteFails
<1>3. ASSUME NEW x \in Save, SaveRejected(x) \/ SaveBegins(x) PROVE file' = file
  BY <1>3 DEF SaveRejected, SaveBegins
<1>4. ASSUME NEW x \in Cli, Load(x) \/ Types(x) \/ Killed(x) PROVE file' = file
  BY <1>4 DEF Load, Types, Killed
<1>5. ASSUME NEW l \in Login, LoginVerifies(l) \/ LoginSigns(l) PROVE file' = file
  BY <1>5 DEF LoginVerifies, LoginSigns
<1>6. CASE Start \/ Stop \/ CookieGoes \/ UNCHANGED vars
  BY <1>6 DEF Start, Stop, CookieGoes, vars
<1> QED
  BY <1>1, <1>2, <1>3, <1>4, <1>5, <1>6 DEF Next

\* What the holder of the lock writes.
LEMMA Replaced ==
    ASSUME Base, NEW x \in Actor, Replace(x)
    PROVE  /\ proc[x].pc = "locked" /\ proc[x].doc = file /\ file' = Merged(x, file)
           /\ proc'[x].pc = "written" /\ server' = server /\ lock' = lock
           /\ \A y \in Actor \ {x} : proc'[y] = proc[y]
<1>1. proc[x].pc = "locked" /\ proc[x].doc = file
  BY DEF Replace, Base, Copied
<1> DEFINE p == proc[x]
           doc == Merged(x, p.doc)
           q == [p EXCEPT !.pc = "written", !.doc = doc]
<1>2. p \in Process
  BY DEF Base, Sounds, Sound
<1>3. proc' = [proc EXCEPT ![x] = q]
  BY DEF Replace
<1> HIDE DEF doc
<1>4. q.pc = "written"
  BY <1>2 DEF Process
<1> HIDE DEF p, q
<1>5. proc'[x] = q /\ \A y \in Actor \ {x} : proc'[y] = proc[y]
  BY <1>3 DEF Base
<1> QED
  BY <1>1, <1>4, <1>5 DEF Replace, doc, p

\* Whoever else writes the file, under however many threads and processes: an
\* update changes its own section and keeps what the others have written.
THEOREM UpdatesMerge == Spec => UpdatesAreMerged
<1> DEFINE Step == /\ file'.llm # file.llm => file'.auth = file.auth
                   /\ file'.llm.key # file.llm.key =>
                         \E x \in Save : /\ proc[x].pc = "locked" /\ proc'[x].pc = "written"
                                         /\ proc[x].ask.key = file'.llm.key
<1>1. Base /\ [Next]_vars => [Step]_vars
  <2> SUFFICES ASSUME Base, [Next]_vars PROVE Step
    OBVIOUS
  <2>1. CASE \A x \in Actor : ~Replace(x)
    BY <2>1, FileStays
  <2>2. ASSUME NEW x \in Actor, Replace(x) PROVE Step
    <3>1. proc[x].pc = "locked" /\ file' = Merged(x, file) /\ proc'[x].pc = "written"
      BY <2>2, Replaced
    <3>2. CASE x \in Save
      BY <3>1, <3>2, MergedIs
    <3>3. CASE x \in Cli
      BY <3>1, <3>3, MergedIs
    <3> QED
      BY <3>2, <3>3 DEF Actor
  <2> QED
    BY <2>1, <2>2
<1> QED
  BY <1>1, BaseHolds, PTL DEF Spec, UpdatesAreMerged

-----------------------------------------------------------------------------
(* A running server is ready.                                              *)

\* Where a save has read the document it builds the sections from.
Built == {"auth", "llm", "adapter", "install", "error"}

\* The [auth] of a file that is ready, and the copies of it that a running
\* server may come to use.
InUse(a) ==
    \/ Ready(file.auth) /\ a = file.auth
    \/ server.up /\ (a = server.auth \/ a = server.doc.auth)
    \/ server.up /\ \E x \in Save : proc[x].pc \in Built /\ a = proc[x].doc.auth

\* A server runs only where the file is ready: that is checked once, when it
\* starts, and no update takes a secret or a password away.
UpIsReady == server.up => Ready(file.auth)

\* A file that is ready stays so.
LEMMA ReadyStays ==
    ASSUME Base, [Next]_vars, Ready(file.auth)
    PROVE  Ready(file'.auth)
<1>1. CASE \A x \in Actor : ~Replace(x)
  BY <1>1, FileStays
<1>2. ASSUME NEW x \in Actor, Replace(x) PROVE Ready(file'.auth)
  <2>1. proc[x].pc = "locked" /\ file' = Merged(x, file)
    BY <1>2, Replaced
  <2>2. CASE x \in Save
    BY <2>1, <2>2, MergedIs
  <2>3. CASE x \in Cli
    <3>1. x # NoSecret /\ NoPassword \notin Password
      BY <2>3, ActorsDiffer, ValuesDiffer
    <3>2. \/ file'.auth.secret = x /\ file'.auth.pw = file.auth.pw
          \/ file'.auth.secret = file.auth.secret /\ file'.auth.pw \in Password
      BY <2>1, <2>3, MergedIs
    <3> QED
      BY <3>1, <3>2 DEF Ready
  <2> QED
    BY <2>2, <2>3 DEF Actor
<1> QED
  BY <1>1, <1>2


\* What a server comes to use it used, or it is in the file: a step of one
\* process that leaves the file alone.
LEMMA MoveIsSourced ==
    ASSUME Base, NEW x \in Actor, NEW q, proc' = [proc EXCEPT ![x] = q],
           file' = file, server'.up = server.up,
           server.up => /\ InUse(server'.auth) /\ InUse(server'.doc.auth)
                        /\ x \in Save /\ q.pc \in Built => InUse(q.doc.auth),
           NEW a, InUse(a)'
    PROVE  InUse(a)
<1>1. proc'[x] = q /\ \A y \in Actor \ {x} : proc'[y] = proc[y]
  BY DEF Base
<1>2. CASE Ready(file.auth) /\ a = file.auth
  BY <1>2 DEF InUse
<1>3. CASE server.up /\ (a = server'.auth \/ a = server'.doc.auth)
  BY <1>3
<1>4. ASSUME server.up, NEW y \in Save, proc'[y].pc \in Built, a = proc'[y].doc.auth
      PROVE  InUse(a)
  <2>1. CASE y = x
    BY <1>1, <1>4, <2>1
  <2>2. CASE y # x
    BY <1>1, <1>4, <2>2 DEF InUse, Actor
  <2> QED
    BY <2>1, <2>2
<1> QED
  BY <1>2, <1>3, <1>4 DEF InUse

\* A step that leaves the server and the saves as they are.
LEMMA CalmIsSourced ==
    ASSUME server' = server, proc' = proc, file' = file, NEW a, InUse(a)'
    PROVE  InUse(a)
  BY DEF InUse

-----------------------------------------------------------------------------
(* Every step but Replace: what the server uses after it, it used before.  *)

LEMMA SavePublishesIsSourced ==
    ASSUME Base, UpIsReady, NEW x \in Actor, SavePublishes(x), x \in Save, NEW a, InUse(a)'
    PROVE  InUse(a)
<1> DEFINE p == proc[x]
           q == [p EXCEPT !.pc = "build"]
<1>1. p \in Process /\ p.pc = "written" /\ Sound(x, p)
  BY DEF Base, Sounds, Sound, SavePublishes, Moves
<1>2. x \in Save /\ server.up /\ server \in Memory
  BY <1>1, SaveUnderWay
<1>3. proc' = [proc EXCEPT ![x] = q] /\ file' = file
  BY DEF SavePublishes, Moves
<1>4. /\ server'.up = server.up /\ InUse(server'.auth) /\ InUse(server'.doc.auth)
  <2>1. server' = [server EXCEPT !.doc = p.doc] /\ p.doc = file
    BY <1>1 DEF SavePublishes, Base, Copied
  <2>2. server'.up = server.up /\ server'.auth = server.auth /\ server'.doc = file
    BY <1>2, <2>1 DEF Memory
  <2> QED
    BY <1>2, <2>2 DEF InUse, UpIsReady
<1>5. q.pc \notin Built
  BY <1>1 DEF Process, Built
<1> QED
  BY <1>2, <1>3, <1>4, <1>5, MoveIsSourced

LEMMA BuildReadsIsSourced ==
    ASSUME Base, UpIsReady, NEW x \in Actor, BuildReads(x), NEW a, InUse(a)'
    PROVE  InUse(a)
<1> DEFINE p == proc[x]
           q == [p EXCEPT !.pc = "auth", !.doc = server.doc]
<1>1. p \in Process /\ p.pc = "build" /\ Sound(x, p)
  BY DEF Base, Sounds, Sound, BuildReads
<1>2. x \in Save /\ server.up /\ server \in Memory
  BY <1>1, SaveUnderWay
<1>3. proc' = [proc EXCEPT ![x] = q] /\ file' = file
  BY DEF BuildReads
<1>4. /\ server'.up = server.up /\ InUse(server'.auth) /\ InUse(server'.doc.auth)
  BY <1>2 DEF BuildReads, InUse
<1>5. InUse(q.doc.auth)
  <2>1. q.doc = server.doc
    BY <1>1 DEF Process
  <2> QED
    BY <1>2, <2>1 DEF InUse
<1> QED
  BY <1>2, <1>3, <1>4, <1>5, MoveIsSourced

LEMMA BuildAuthIsSourced ==
    ASSUME Base, UpIsReady, NEW x \in Actor, BuildAuth(x), NEW a, InUse(a)'
    PROVE  InUse(a)
<1> DEFINE p == proc[x]
           q == [p EXCEPT !.pc = "llm"]
<1>1. p \in Process /\ p.pc = "auth" /\ Sound(x, p)
  BY DEF Base, Sounds, Sound, BuildAuth, Moves
<1>2. x \in Save /\ server.up /\ server \in Memory
  BY <1>1, SaveUnderWay
<1>3. proc' = [proc EXCEPT ![x] = q] /\ file' = file
  BY DEF BuildAuth, Moves
<1>4. /\ server'.up = server.up /\ InUse(server'.auth) /\ InUse(server'.doc.auth)
  <2>1. server' = [server EXCEPT !.auth = p.doc.auth]
    BY DEF BuildAuth
  <2>2. server'.up = server.up /\ server'.auth = p.doc.auth /\ server'.doc = server.doc
    BY <1>2, <2>1 DEF Memory
  <2> QED
    BY <1>1, <1>2, <2>2 DEF InUse, Built
<1>5. InUse(q.doc.auth)
  <2>1. q.doc = p.doc
    BY <1>1 DEF Process
  <2> QED
    BY <1>1, <1>2, <2>1 DEF InUse, Built
<1> QED
  BY <1>2, <1>3, <1>4, <1>5, MoveIsSourced

LEMMA BuildLLMIsSourced ==
    ASSUME Base, UpIsReady, NEW x \in Actor, BuildLLM(x), NEW a, InUse(a)'
    PROVE  InUse(a)
<1> DEFINE p == proc[x]
           q == [p EXCEPT !.pc = "adapter"]
<1>1. p \in Process /\ p.pc = "llm" /\ Sound(x, p)
  BY DEF Base, Sounds, Sound, BuildLLM, Moves
<1>2. x \in Save /\ server.up /\ server \in Memory
  BY <1>1, SaveUnderWay
<1>3. proc' = [proc EXCEPT ![x] = q] /\ file' = file
  BY DEF BuildLLM, Moves
<1>4. /\ server'.up = server.up /\ InUse(server'.auth) /\ InUse(server'.doc.auth)
  <2>1. server' = [server EXCEPT !.llm = p.doc.llm]
    BY DEF BuildLLM
  <2>2. server'.up = server.up /\ server'.auth = server.auth /\ server'.doc = server.doc
    BY <1>2, <2>1 DEF Memory
  <2> QED
    BY <1>2, <2>2 DEF InUse
<1>5. InUse(q.doc.auth)
  <2>1. q.doc = p.doc
    BY <1>1 DEF Process
  <2> QED
    BY <1>1, <1>2, <2>1 DEF InUse, Built
<1> QED
  BY <1>2, <1>3, <1>4, <1>5, MoveIsSourced

LEMMA BuildAdapterIsSourced ==
    ASSUME Base, UpIsReady, NEW x \in Actor, BuildAdapter(x), NEW a, InUse(a)'
    PROVE  InUse(a)
<1> DEFINE p == proc[x]
           q == [p EXCEPT !.pc = "install", !.doc = [p.doc EXCEPT !.llm = server.llm]]
<1>1. p \in Process /\ p.pc = "adapter" /\ Sound(x, p)
  BY DEF Base, Sounds, Sound, BuildAdapter
<1>2. x \in Save /\ server.up /\ server \in Memory
  BY <1>1, SaveUnderWay
<1>3. proc' = [proc EXCEPT ![x] = q] /\ file' = file
  BY DEF BuildAdapter
<1>4. /\ server'.up = server.up /\ InUse(server'.auth) /\ InUse(server'.doc.auth)
  BY <1>2 DEF BuildAdapter, InUse
<1>5. InUse(q.doc.auth)
  <2>1. p.doc \in Document
    BY <1>1 DEF Sound, Carries
  <2>2. [p.doc EXCEPT !.llm = server.llm].auth = p.doc.auth
    BY <2>1 DEF Document
  <2>3. q.doc = [p.doc EXCEPT !.llm = server.llm]
    BY <1>1 DEF Process
  <2> HIDE DEF q
  <2> QED
    BY <1>1, <1>2, <2>2, <2>3 DEF InUse, Built
<1> QED
  BY <1>2, <1>3, <1>4, <1>5, MoveIsSourced

LEMMA InstallIsSourced ==
    ASSUME Base, UpIsReady, NEW x \in Actor, Install(x), NEW a, InUse(a)'
    PROVE  InUse(a)
<1> DEFINE p == proc[x]
           q == [p EXCEPT !.pc = "error"]
<1>1. p \in Process /\ p.pc = "install" /\ Sound(x, p)
  BY DEF Base, Sounds, Sound, Install, Moves
<1>2. x \in Save /\ server.up /\ server \in Memory
  BY <1>1, SaveUnderWay
<1>3. proc' = [proc EXCEPT ![x] = q] /\ file' = file
  BY DEF Install, Moves
<1>4. /\ server'.up = server.up /\ InUse(server'.auth) /\ InUse(server'.doc.auth)
  <2>1. server' = [server EXCEPT !.adapter = AdapterFor(p.doc.llm)]
    BY DEF Install
  <2>2. server'.up = server.up /\ server'.auth = server.auth /\ server'.doc = server.doc
    BY <1>2, <2>1 DEF Memory
  <2> QED
    BY <1>2, <2>2 DEF InUse
<1>5. InUse(q.doc.auth)
  <2>1. q.doc = p.doc
    BY <1>1 DEF Process
  <2> QED
    BY <1>1, <1>2, <2>1 DEF InUse, Built
<1> QED
  BY <1>2, <1>3, <1>4, <1>5, MoveIsSourced

LEMMA InstallErrorIsSourced ==
    ASSUME Base, UpIsReady, NEW x \in Actor, InstallError(x), NEW a, InUse(a)'
    PROVE  InUse(a)
<1>1. proc[x].pc = "error"
  BY DEF InstallError
<1>2. x \in Save /\ server.up /\ server \in Memory
  BY <1>1, SaveUnderWay
<1>3. proc' = [proc EXCEPT ![x] = Ended] /\ file' = file
  BY DEF InstallError
<1>4. server'.up = server.up /\ server'.auth = server.auth /\ server'.doc = server.doc
  BY <1>2 DEF InstallError, Memory
<1>5. Ended.pc \notin Built
  BY IdleSound DEF Built
<1> QED
  BY <1>2, <1>3, <1>4, <1>5, MoveIsSourced DEF InUse

\* A step that leaves the server as it is, and of which no save comes to build.
LEMMA OtherIsSourced ==
    ASSUME Base, NEW x \in Actor, NEW q, proc' = [proc EXCEPT ![x] = q],
           file' = file, server' = server, x \in Cli \/ q.pc \notin Built, NEW a, InUse(a)'
    PROVE  InUse(a)
<1>1. server.up => InUse(server'.auth) /\ InUse(server'.doc.auth)
  BY DEF InUse
<1>2. ~(x \in Save /\ q.pc \in Built)
  BY ActorsDiffer
<1> QED
  BY <1>1, <1>2, MoveIsSourced

LEMMA AcquireIsSourced ==
    ASSUME Base, NEW x \in Actor, Acquire(x), NEW a, InUse(a)'
    PROVE  InUse(a)
<1> DEFINE q == [proc[x] EXCEPT !.pc = "locked", !.doc = file]
<1>1. proc[x] \in Process
  BY DEF Base, Sounds, Sound
<1>2. q.pc \notin Built
  BY <1>1 DEF Process, Built
<1>3. proc' = [proc EXCEPT ![x] = q] /\ file' = file /\ server' = server
  BY DEF Acquire
<1> QED
  BY <1>2, <1>3, OtherIsSourced

LEMMA SaveBeginsIsSourced ==
    ASSUME Base, NEW x \in Save, SaveBegins(x), NEW a, InUse(a)'
    PROVE  InUse(a)
<1>1. x \in Actor /\ proc[x] \in Process
  BY DEF Base, Sounds, Sound, Actor
<1>2. PICK ask \in Ask : proc' = [proc EXCEPT ![x].pc = "lock", ![x].kind = "save", ![x].ask = ask]
  BY DEF SaveBegins
<1> DEFINE q == [proc[x] EXCEPT !.pc = "lock", !.kind = "save", !.ask = ask]
<1>3. q.pc \notin Built
  BY <1>1 DEF Process, Built
<1>4. proc' = [proc EXCEPT ![x] = q] /\ file' = file /\ server' = server
  BY <1>2 DEF SaveBegins
<1> QED
  BY <1>1, <1>3, <1>4, OtherIsSourced

LEMMA CommandIsSourced ==
    ASSUME Base, NEW x \in Cli, Load(x) \/ Types(x) \/ Killed(x) \/ CommandReleases(x),
           NEW a, InUse(a)'
    PROVE  InUse(a)
<1>1. x \in Actor /\ file' = file /\ server' = server
  BY DEF Load, Types, Killed, CommandReleases, Actor
<1>2. \E q : proc' = [proc EXCEPT ![x] = q]
  BY DEF Load, Types, Killed, CommandReleases
<1> QED
  BY <1>1, <1>2, OtherIsSourced

LEMMA StopIsSourced ==
    ASSUME Base, Stop, NEW a, InUse(a)'
    PROVE  InUse(a)
<1>1. ~server'.up /\ file' = file
  BY DownIsDown DEF Stop
<1> QED
  BY <1>1 DEF InUse

LEMMA StartIsSourced ==
    ASSUME Base, Start, NEW a, InUse(a)'
    PROVE  InUse(a)
<1>1. ~server.up /\ Ready(file.auth) /\ server' = Loaded(file) /\ proc' = proc /\ file' = file
  BY DEF Start
<1>2. server'.auth = file.auth /\ server'.doc = file
  BY <1>1 DEF Loaded
<1>3. \A x \in Save : proc[x].pc \notin Built
  BY <1>1 DEF Base, Served, Built
<1> QED
  BY <1>1, <1>2, <1>3 DEF InUse

\* Only the file brings in something new.
LEMMA NextIsSourced ==
    ASSUME Base, UpIsReady, [Next]_vars, NEW a, InUse(a)'
    PROVE  \/ InUse(a)
           \/ (\E x \in Actor : Replace(x)) /\ Ready(file'.auth) /\ a = file'.auth
<1>1. ASSUME NEW x \in Actor, Proceeds(x), ~Replace(x) PROVE InUse(a)
  BY <1>1, AcquireIsSourced, SavePublishesIsSourced, BuildReadsIsSourced, BuildAuthIsSourced,
     BuildLLMIsSourced, BuildAdapterIsSourced, InstallIsSourced, InstallErrorIsSourced,
     CommandIsSourced DEF Proceeds, CommandReleases
<1>2. ASSUME NEW x \in Actor, Replace(x)
      PROVE  InUse(a) \/ (Ready(file'.auth) /\ a = file'.auth)
  <2>1. proc[x].pc = "locked" /\ proc'[x].pc = "written" /\ server' = server
        /\ \A y \in Actor \ {x} : proc'[y] = proc[y]
    BY <1>2, Replaced
  <2> QED
    BY <2>1 DEF InUse, Built, Actor
<1>3. ASSUME NEW x \in Actor, WriteFails(x) PROVE InUse(a)
  BY <1>3, OtherIsSourced, IdleSound DEF WriteFails, Built
<1>4. ASSUME NEW x \in Save, SaveRejected(x) \/ SaveBegins(x) PROVE InUse(a)
  BY <1>4, SaveBeginsIsSourced, OtherIsSourced, IdleSound DEF SaveRejected, Built, Actor
<1>5. ASSUME NEW x \in Cli, Load(x) \/ Types(x) \/ Killed(x) PROVE InUse(a)
  BY <1>5, CommandIsSourced
<1>6. ASSUME NEW l \in Login, LoginVerifies(l) \/ LoginSigns(l) PROVE InUse(a)
  BY <1>6, CalmIsSourced DEF LoginVerifies, LoginSigns
<1>7. CASE Start \/ Stop
  BY <1>7, StartIsSourced, StopIsSourced
<1>8. CASE CookieGoes \/ UNCHANGED vars
  BY <1>8, CalmIsSourced DEF CookieGoes, vars
<1> QED
  BY <1>1, <1>2, <1>3, <1>4, <1>5, <1>6, <1>7, <1>8 DEF Next

\* The server comes up by starting, and by nothing else.
LEMMA UpStep ==
    ASSUME Base, [Next]_vars
    PROVE  server'.up => server.up \/ Start
<1>1. ASSUME NEW x \in Actor, Proceeds(x), ~server.up PROVE server' = server
  <2>1. proc[x].pc \notin {"build", "auth", "llm", "adapter", "install", "error"}
    BY <1>1, SaveUnderWay
  <2>2. ~(SavePublishes(x) /\ x \in Save)
    BY <1>1, SaveUnderWay DEF SavePublishes, Moves
  <2> QED
    BY <1>1, <2>1, <2>2 DEF Proceeds, Acquire, Replace, BuildReads, BuildAuth, BuildLLM,
                            BuildAdapter, Install, InstallError, CommandReleases, Moves
<1>2. ASSUME NEW x \in Actor, WriteFails(x) PROVE server' = server
  BY <1>2 DEF WriteFails
<1>3. ASSUME NEW x \in Save, SaveRejected(x) \/ SaveBegins(x) PROVE server' = server
  BY <1>3 DEF SaveRejected, SaveBegins
<1>4. ASSUME NEW x \in Cli, Load(x) \/ Types(x) \/ Killed(x) PROVE server' = server
  BY <1>4 DEF Load, Types, Killed
<1>5. ASSUME NEW l \in Login, LoginVerifies(l) \/ LoginSigns(l) PROVE server' = server
  BY <1>5 DEF LoginVerifies, LoginSigns
<1>6. CASE CookieGoes \/ UNCHANGED vars
  BY <1>6 DEF CookieGoes, vars
<1>7. CASE Stop
  BY <1>7, DownIsDown DEF Stop
<1> QED
  BY <1>1, <1>2, <1>3, <1>4, <1>5, <1>6, <1>7 DEF Next

AllReady == UpIsReady /\ \A a : InUse(a) => Ready(a)

LEMMA AllReadyHolds == Spec => []AllReady
<1>1. Init => AllReady
  BY DownIsDown DEF Init, AllReady, UpIsReady, InUse
<1>2. Base /\ AllReady /\ [Next]_vars => AllReady'
  <2> SUFFICES ASSUME Base, AllReady, [Next]_vars PROVE AllReady'
    OBVIOUS
  <2>1. UpIsReady'
    <3>1. server'.up => Ready(file.auth)
      BY UpStep DEF AllReady, UpIsReady, Start
    <3> QED
      BY <3>1, ReadyStays DEF UpIsReady, Ready
  <2>2. ASSUME NEW a, InUse(a)' PROVE Ready(a)
    BY <2>2, NextIsSourced DEF AllReady
  <2>3. (\A a : InUse(a) => Ready(a))'
    BY <2>2 DEF Ready
  <2> QED
    BY <2>1, <2>3 DEF AllReady
<1> QED
  BY <1>1, <1>2, BaseHolds, PTL DEF Spec

\* A server that runs has a secret to sign with and a password to check,
\* whatever the commands write and in whichever order its sections are rebuilt.
THEOREM RunningStaysReady == Spec => []RunningIsReady
<1>1. AllReady => RunningIsReady
  BY DEF AllReady, InUse, RunningIsReady
<1> QED
  BY <1>1, AllReadyHolds, PTL

-----------------------------------------------------------------------------
(* A changed password ends the sessions.                                   *)

\* A login that has verified a password waits for a server that runs.
LoginInv ==
    /\ DOMAIN login = Login
    /\ \A l \in Login : login[l].pc = "verified" => server.up

LEMMA LoginInvHolds == Spec => []LoginInv
<1>1. Init => LoginInv
  BY DEF Init, LoginInv, NoLogin
<1>2. Base /\ LoginInv /\ [Next]_vars => LoginInv'
  <2> SUFFICES ASSUME Base, LoginInv, [Next]_vars PROVE LoginInv'
    OBVIOUS
  <2>1. ASSUME login' = login, ~Stop PROVE LoginInv'
    <3>1. server.up => server'.up
      <4>1. ASSUME NEW x \in Actor, Proceeds(x), server.up PROVE server'.up
        <5>1. server \in Memory
          BY <4>1, DownIsDown DEF Base
        <5> QED
          BY <4>1, <5>1 DEF Proceeds, Acquire, Replace, SavePublishes, BuildReads, BuildAuth,
             BuildLLM, BuildAdapter, Install, InstallError, CommandReleases, Memory
      <4>2. ASSUME NEW x \in Actor, WriteFails(x) PROVE server' = server
        BY <4>2 DEF WriteFails
      <4>3. ASSUME NEW x \in Save, SaveRejected(x) \/ SaveBegins(x) PROVE server' = server
        BY <4>3 DEF SaveRejected, SaveBegins
      <4>4. ASSUME NEW x \in Cli, Load(x) \/ Types(x) \/ Killed(x) PROVE server' = server
        BY <4>4 DEF Load, Types, Killed
      <4>5. ASSUME NEW l \in Login, LoginVerifies(l) \/ LoginSigns(l) PROVE server' = server
        BY <4>5 DEF LoginVerifies, LoginSigns
      <4>6. CASE CookieGoes \/ UNCHANGED vars
        BY <4>6 DEF CookieGoes, vars
      <4>7. CASE Start
        BY <4>7 DEF Start, Loaded
      <4> QED
        BY <2>1, <4>1, <4>2, <4>3, <4>4, <4>5, <4>6, <4>7 DEF Next
    <3> QED
      BY <2>1, <3>1 DEF LoginInv
  <2>2. CASE Stop
    <3>1. \A l \in Login : login'[l].pc # "verified"
      BY <2>2 DEF Stop, NoLogin
    <3> QED
      BY <2>2, <3>1 DEF LoginInv, Stop
  <2>3. ASSUME NEW l \in Login, LoginVerifies(l) PROVE LoginInv'
    BY <2>3 DEF LoginVerifies, LoginInv
  <2>4. ASSUME NEW l \in Login, LoginSigns(l) PROVE LoginInv'
    BY <2>4 DEF LoginSigns, LoginInv, NoLogin
  <2>5. login' = login \/ (\E l \in Login : LoginVerifies(l) \/ LoginSigns(l)) \/ Stop
    <3>1. ASSUME NEW x \in Actor, Proceeds(x) PROVE login' = login
      BY <3>1 DEF Proceeds, Acquire, Replace, SavePublishes, BuildReads, BuildAuth, BuildLLM,
                  BuildAdapter, Install, InstallError, CommandReleases
    <3>2. ASSUME NEW x \in Actor, WriteFails(x) PROVE login' = login
      BY <3>2 DEF WriteFails
    <3>3. ASSUME NEW x \in Save, SaveRejected(x) \/ SaveBegins(x) PROVE login' = login
      BY <3>3 DEF SaveRejected, SaveBegins
    <3>4. ASSUME NEW x \in Cli, Load(x) \/ Types(x) \/ Killed(x) PROVE login' = login
      BY <3>4 DEF Load, Types, Killed
    <3>5. CASE CookieGoes \/ Start \/ UNCHANGED vars
      BY <3>5 DEF CookieGoes, Start, vars
    <3> QED
      BY <3>1, <3>2, <3>3, <3>4, <3>5 DEF Next
  <2> QED
    BY <2>1, <2>2, <2>3, <2>4, <2>5
<1> QED
  BY <1>1, <1>2, BaseHolds, PTL DEF Spec

\* Where no commands have tangled, the file has the newest epoch.
Newest ==
    /\ \A a : InUse(a) => a.epoch <= file.auth.epoch
    /\ \A s \in sessions : Ready(file.auth) /\ s.epoch \in Nat /\ s.epoch <= file.auth.epoch

LEMMA InUseTyped ==
    ASSUME Base, NEW a, InUse(a)
    PROVE  a \in AuthSection
<1>1. CASE Ready(file.auth) /\ a = file.auth
  BY <1>1 DEF Base, Document
<1>2. CASE server.up /\ (a = server.auth \/ a = server.doc.auth)
  BY <1>2, DownIsDown DEF Base, Memory, Document
<1>3. CASE \E x \in Save : proc[x].pc \in Built /\ a = proc[x].doc.auth
  BY <1>3 DEF Base, Sounds, Sound, Carries, Built, Actor, Document
<1> QED
  BY <1>1, <1>2, <1>3 DEF InUse

\* A new session is of the epoch the server has.
LEMMA NewSessions ==
    ASSUME LoginInv, [Next]_vars, NEW s \in sessions'
    PROVE  \/ s \in sessions
           \/ server.up /\ s.epoch = server.auth.epoch
<1>1. ASSUME NEW x \in Actor, Proceeds(x) PROVE sessions' = sessions
  BY <1>1 DEF Proceeds, Acquire, Replace, SavePublishes, BuildReads, BuildAuth, BuildLLM,
              BuildAdapter, Install, InstallError, CommandReleases
<1>2. ASSUME NEW x \in Actor, WriteFails(x) PROVE sessions' = sessions
  BY <1>2 DEF WriteFails
<1>3. ASSUME NEW x \in Save, SaveRejected(x) \/ SaveBegins(x) PROVE sessions' = sessions
  BY <1>3 DEF SaveRejected, SaveBegins
<1>4. ASSUME NEW x \in Cli, Load(x) \/ Types(x) \/ Killed(x) PROVE sessions' = sessions
  BY <1>4 DEF Load, Types, Killed
<1>5. ASSUME NEW l \in Login, LoginVerifies(l) PROVE sessions' = sessions
  BY <1>5 DEF LoginVerifies
<1>6. ASSUME NEW l \in Login, LoginSigns(l), s \notin sessions
      PROVE  server.up /\ s.epoch = server.auth.epoch
  BY <1>6 DEF LoginSigns, LoginInv
<1>7. CASE CookieGoes \/ Start \/ Stop \/ UNCHANGED vars
  BY <1>7 DEF CookieGoes, Start, Stop, vars
<1> QED
  BY <1>1, <1>2, <1>3, <1>4, <1>5, <1>6, <1>7 DEF Next

\* A step that leaves the file alone adds no epoch.
LEMMA QuietNewest ==
    ASSUME Base, AllReady, LoginInv, Newest, [Next]_vars, \A x \in Actor : ~Replace(x)
    PROVE  Newest'
<1>1. file' = file
  BY FileStays
<1>2. \A a : InUse(a)' => InUse(a)
  BY NextIsSourced DEF AllReady
<1>3. ASSUME NEW s \in sessions'
      PROVE  Ready(file.auth) /\ s.epoch \in Nat /\ s.epoch <= file.auth.epoch
  <2>1. CASE s \in sessions
    BY <2>1 DEF Newest
  <2>2. CASE server.up /\ s.epoch = server.auth.epoch
    <3>1. InUse(server.auth)
      BY <2>2 DEF InUse
    <3>2. server.auth.epoch \in Nat
      BY <3>1, InUseTyped DEF AuthSection
    <3> QED
      BY <2>2, <3>1, <3>2 DEF Newest, AllReady, UpIsReady
  <2> QED
    BY <2>1, <2>2, NewSessions
<1>4. (\A a : InUse(a) => a.epoch <= file.auth.epoch)'
  BY <1>1, <1>2 DEF Newest
<1> QED
  BY <1>1, <1>3, <1>4 DEF Newest, Ready

\* A command that writes what it read gives a new password a new epoch.
LEMMA EpochGrows ==
    ASSUME Base, NEW x \in Actor, Replace(x), ~tangled', Ready(file.auth)
    PROVE  file'.auth = file.auth \/ file'.auth.epoch = file.auth.epoch + 1
<1>1. proc[x].pc = "locked" /\ proc[x].doc = file /\ file' = Merged(x, file)
  BY Replaced
<1>2. CASE x \in Save
  BY <1>1, <1>2, MergedIs
<1>3. CASE x \in Cli
  <2>1. proc[x].seen = file.auth
    BY <1>1, <1>3 DEF Replace
  <2> QED
    BY <1>1, <1>3, <2>1, MergedIs DEF Ready
<1> QED
  BY <1>2, <1>3 DEF Actor

\* It is later than any in use.
LEMMA ReplaceNewest ==
    ASSUME Base, AllReady, Newest, [Next]_vars, NEW x \in Actor, Replace(x), ~tangled'
    PROVE  Newest'
<1>1. \A a : InUse(a)' => InUse(a) \/ (Ready(file'.auth) /\ a = file'.auth)
  BY NextIsSourced DEF AllReady
<1>2. sessions' = sessions
  BY DEF Replace
<1>3. file.auth \in AuthSection /\ file'.auth \in AuthSection
  BY Replaced, MergedIs DEF Base, Document
<1>4. file.auth.epoch \in Nat /\ file'.auth.epoch \in Nat
  BY <1>3 DEF AuthSection
<1>5. CASE ~Ready(file.auth)
  <2>1. \A a : InUse(a)' => a = file'.auth
    BY <1>1, <1>5 DEF InUse, AllReady, UpIsReady
  <2>2. sessions = {}
    BY <1>5 DEF Newest
  <2>3. \A a : InUse(a)' => a.epoch <= file'.auth.epoch
    BY <1>4, <2>1
  <2>4. (\A a : InUse(a) => a.epoch <= file.auth.epoch)'
    BY <2>3
  <2> QED
    BY <1>2, <2>2, <2>4 DEF Newest
<1>6. CASE Ready(file.auth)
  <2>1. file.auth.epoch <= file'.auth.epoch /\ Ready(file'.auth)
    BY <1>4, <1>6, EpochGrows, ReadyStays
  <2>2. ASSUME NEW a, InUse(a)' PROVE a.epoch <= file'.auth.epoch
    <3>1. CASE InUse(a)
      <4>1. a.epoch \in Nat
        BY <3>1, InUseTyped DEF AuthSection
      <4> QED
        BY <1>4, <2>1, <3>1, <4>1 DEF Newest
    <3>2. CASE a = file'.auth
      BY <1>4, <3>2
    <3> QED
      BY <1>1, <2>2, <3>1, <3>2
  <2>3. ASSUME NEW s \in sessions PROVE s.epoch \in Nat /\ s.epoch <= file'.auth.epoch
    BY <1>4, <2>1 DEF Newest
  <2>4. (\A a : InUse(a) => a.epoch <= file.auth.epoch)'
    BY <2>2
  <2> QED
    BY <1>2, <2>1, <2>3, <2>4 DEF Newest, Ready
<1> QED
  BY <1>5, <1>6

\* A tangled file stays tangled.
LEMMA TangledStays ==
    ASSUME Base, [Next]_vars, tangled
    PROVE  tangled'
<1>1. ASSUME NEW x \in Actor, Proceeds(x) PROVE tangled'
  BY <1>1 DEF Proceeds, Acquire, Replace, SavePublishes, BuildReads, BuildAuth, BuildLLM,
              BuildAdapter, Install, InstallError, CommandReleases
<1>2. ASSUME NEW x \in Actor, WriteFails(x) PROVE tangled'
  BY <1>2 DEF WriteFails
<1>3. ASSUME NEW x \in Save, SaveRejected(x) \/ SaveBegins(x) PROVE tangled'
  BY <1>3 DEF SaveRejected, SaveBegins
<1>4. ASSUME NEW x \in Cli, Load(x) \/ Types(x) \/ Killed(x) PROVE tangled'
  BY <1>4 DEF Load, Types, Killed
<1>5. ASSUME NEW l \in Login, LoginVerifies(l) \/ LoginSigns(l) PROVE tangled'
  BY <1>5 DEF LoginVerifies, LoginSigns
<1>6. CASE Start \/ Stop \/ CookieGoes \/ UNCHANGED vars
  BY <1>6 DEF Start, Stop, CookieGoes, vars
<1> QED
  BY <1>1, <1>2, <1>3, <1>4, <1>5, <1>6 DEF Next

\* Unless two commands have overlapped, a changed password ends the sessions:
\* no cookie that is out is good for the [auth] that is written with it.
THEOREM PasswordEnds == Spec => PasswordEndsSessions
<1> DEFINE Inv == ~tangled => Newest
<1>1. Init => Inv
  <2> SUFFICES ASSUME Init PROVE Newest
    OBVIOUS
  <2>1. \A a : InUse(a) => a = file.auth
    BY DownIsDown DEF Init, InUse
  <2>2. file.auth.epoch \in Nat
    BY FilesAreDocuments DEF Init, Document, AuthSection
  <2> QED
    BY <2>1, <2>2 DEF Init, Newest
<1>2. Base /\ AllReady /\ LoginInv /\ Inv /\ [Next]_vars => Inv'
  <2> SUFFICES ASSUME Base, AllReady, LoginInv, Inv, [Next]_vars, ~tangled' PROVE Newest'
    OBVIOUS
  <2>1. Newest
    BY TangledStays
  <2> QED
    BY <2>1, QuietNewest, ReplaceNewest
<1>3. Base /\ Inv /\ [Next]_vars =>
        [file'.auth.pw # file.auth.pw /\ ~tangled' =>
            \A s \in sessions : ~GoodFor(s, file'.auth)]_vars
  <2> SUFFICES ASSUME Base, Inv, [Next]_vars, file'.auth.pw # file.auth.pw, ~tangled',
                      NEW s \in sessions
               PROVE  s.epoch # file'.auth.epoch
    BY DEF GoodFor
  <2>1. Newest
    BY TangledStays
  <2>2. PICK x \in Actor : Replace(x)
    BY FileStays
  <2>3. Ready(file.auth) /\ s.epoch \in Nat /\ s.epoch <= file.auth.epoch
    BY <2>1 DEF Newest
  <2>4. file'.auth.epoch = file.auth.epoch + 1
    BY <2>2, <2>3, EpochGrows
  <2>5. file.auth.epoch \in Nat
    BY DEF Base, Document, AuthSection
  <2> QED
    BY <2>3, <2>4, <2>5
<1> QED
  BY <1>1, <1>2, <1>3, BaseHolds, AllReadyHolds, LoginInvHolds, PTL DEF Spec, PasswordEndsSessions

-----------------------------------------------------------------------------
(* What was saved takes effect.                                            *)

\* Where a save has not touched the memory of the server, or not any more.
Waiting == {"idle", "done", "lock", "locked"}

\* The memory says of the LLM what the file says.
Agreed ==
    /\ server.llm = file.llm
    /\ server.adapter = AdapterFor(file.llm)
    /\ server.error = ~Usable(file.llm)

\* How far a save has carried the section of the file into the memory.
Carried(x) ==
    /\ proc[x].pc = "build" => server.doc.llm = file.llm
    /\ proc[x].pc \in {"auth", "llm", "install", "error"} => proc[x].doc.llm = file.llm
    /\ proc[x].pc \in {"adapter", "install", "error"} => server.llm = file.llm
    /\ proc[x].pc = "error" => server.adapter = AdapterFor(file.llm)

\* Without a muddle there is at most one save, and only while it carries its
\* section from the file to the memory do the two differ.
Settled ==
    server.up /\ ~muddled =>
        /\ \A x, y \in Save : InFlight(x) /\ InFlight(y) => x = y
        /\ (\A x \in Save : proc[x].pc \in Waiting) => Agreed
        /\ \A x \in Save : Carried(x)

\* A step that concerns neither the section nor a save that carries it.
LEMMA CalmSettled ==
    ASSUME Settled, server' = server, file'.llm = file.llm, muddled' = muddled,
           \A x \in Save :
              \/ proc'[x] = proc[x]
              \/ /\ proc[x].pc \in Waiting /\ proc'[x].pc \in Waiting
                 /\ proc[x].pc \in {"idle", "done"} => proc'[x].pc \in {"idle", "done"}
    PROVE  Settled'
<1> SUFFICES ASSUME server.up, ~muddled
             PROVE  /\ \A x, y \in Save : InFlight(x)' /\ InFlight(y)' => x = y
                    /\ (\A x \in Save : proc'[x].pc \in Waiting) => Agreed'
                    /\ \A x \in Save : Carried(x)'
  BY DEF Settled
<1>1. \A x \in Save : InFlight(x)' => InFlight(x)
  BY DEF InFlight
<1>2. \A x \in Save : proc'[x].pc \in Waiting => proc[x].pc \in Waiting
  OBVIOUS
<1>3. Agreed => Agreed'
  BY DEF Agreed
<1>4. ASSUME NEW x \in Save PROVE Carried(x)'
  BY <1>4 DEF Settled, Carried, Waiting
<1> QED
  BY <1>1, <1>2, <1>3, <1>4 DEF Settled

\* The step of a save that is under way.
LEMMA SaveSettled ==
    ASSUME Settled, NEW x \in Save, InFlight(x), server.up, muddled' = muddled,
           \A y \in Save \ {x} : proc'[y] = proc[y],
           ~muddled => Carried(x)' /\ (proc'[x].pc \notin Waiting \/ Agreed')
    PROVE  Settled'
<1> SUFFICES ASSUME ~muddled
             PROVE  /\ \A y, z \in Save : InFlight(y)' /\ InFlight(z)' => y = z
                    /\ (\A y \in Save : proc'[y].pc \in Waiting) => Agreed'
                    /\ \A y \in Save : Carried(y)'
  BY DEF Settled
<1>1. ASSUME NEW y \in Save \ {x} PROVE ~InFlight(y) /\ proc'[y] = proc[y]
  BY <1>1 DEF Settled
<1>2. ASSUME NEW y \in Save \ {x} PROVE Carried(y)' /\ ~InFlight(y)'
  BY <1>1, <1>2 DEF Carried, InFlight
<1> QED
  BY <1>2

\* What is known of a save under way and of the server it runs in.
LEMMA UnderWay ==
    ASSUME Base, NEW x \in Save, InFlight(x)
    PROVE  /\ x \in Actor /\ proc[x] \in Process /\ server.up /\ server \in Memory
           /\ \A q : proc' = [proc EXCEPT ![x] = q] =>
                 proc'[x] = q /\ \A y \in Save \ {x} : proc'[y] = proc[y]
<1>1. x \in Actor
  BY DEF Actor
<1> QED
  BY <1>1, SaveUnderWay DEF InFlight, Base, Sounds, Sound, Actor

\* Building the sections.
LEMMA BuildSettled ==
    ASSUME Base, Settled, NEW x \in Save,
           BuildReads(x) \/ BuildAuth(x) \/ BuildLLM(x)
    PROVE  Settled'
<1>1. InFlight(x)
  BY DEF BuildReads, BuildAuth, BuildLLM, Moves, InFlight
<1> DEFINE p == proc[x]
<1>2. /\ x \in Actor /\ p \in Process /\ server.up /\ server \in Memory
      /\ \A q : proc' = [proc EXCEPT ![x] = q] =>
            proc'[x] = q /\ \A y \in Save \ {x} : proc'[y] = proc[y]
  BY <1>1, UnderWay
<1>3. ~muddled => Carried(x)
  BY <1>2 DEF Settled
<1>4. CASE BuildReads(x)
  <2> DEFINE q == [p EXCEPT !.pc = "auth", !.doc = server.doc]
  <2>1. proc' = [proc EXCEPT ![x] = q]
    BY <1>4 DEF BuildReads
  <2>2. p.pc = "build" /\ q.pc = "auth" /\ q.doc = server.doc /\ file' = file
        /\ muddled' = muddled
    BY <1>2, <1>4 DEF BuildReads, Process
  <2> HIDE DEF p, q
  <2>3. proc'[x] = q /\ \A y \in Save \ {x} : proc'[y] = proc[y]
    BY <1>2, <2>1
  <2>4. ~muddled => Carried(x)' /\ proc'[x].pc \notin Waiting
    BY <1>3, <2>2, <2>3 DEF Carried, Waiting, p
  <2> QED
    BY <1>1, <1>2, <2>2, <2>3, <2>4, SaveSettled
<1>5. CASE BuildAuth(x)
  <2> DEFINE q == [p EXCEPT !.pc = "llm"]
  <2>1. proc' = [proc EXCEPT ![x] = q]
    BY <1>5 DEF BuildAuth, Moves
  <2>2. p.pc = "auth" /\ q.pc = "llm" /\ q.doc = p.doc /\ file' = file
        /\ muddled' = muddled
    BY <1>2, <1>5 DEF BuildAuth, Moves, Process
  <2> HIDE DEF p, q
  <2>3. proc'[x] = q /\ \A y \in Save \ {x} : proc'[y] = proc[y]
    BY <1>2, <2>1
  <2>4. ~muddled => Carried(x)' /\ proc'[x].pc \notin Waiting
    BY <1>3, <2>2, <2>3 DEF Carried, Waiting, p
  <2> QED
    BY <1>1, <1>2, <2>2, <2>3, <2>4, SaveSettled
<1>6. CASE BuildLLM(x)
  <2> DEFINE q == [p EXCEPT !.pc = "adapter"]
  <2>1. proc' = [proc EXCEPT ![x] = q]
    BY <1>6 DEF BuildLLM, Moves
  <2>2. p.pc = "llm" /\ q.pc = "adapter" /\ file' = file /\ muddled' = muddled
        /\ server'.llm = p.doc.llm
    BY <1>2, <1>6 DEF BuildLLM, Moves, Process, Memory
  <2> HIDE DEF p, q
  <2>3. proc'[x] = q /\ \A y \in Save \ {x} : proc'[y] = proc[y]
    BY <1>2, <2>1
  <2>4. ~muddled => Carried(x)' /\ proc'[x].pc \notin Waiting
    BY <1>3, <2>2, <2>3 DEF Carried, Waiting, p
  <2> QED
    BY <1>1, <1>2, <2>2, <2>3, <2>4, SaveSettled
<1> QED
  BY <1>4, <1>5, <1>6

\* Building and installing the adapter.
LEMMA InstallSettled ==
    ASSUME Base, Settled, NEW x \in Save,
           BuildAdapter(x) \/ Install(x) \/ InstallError(x)
    PROVE  Settled'
<1>1. InFlight(x)
  BY DEF BuildAdapter, Install, InstallError, Moves, InFlight
<1> DEFINE p == proc[x]
<1>2. /\ x \in Actor /\ p \in Process /\ server.up /\ server \in Memory
      /\ \A q : proc' = [proc EXCEPT ![x] = q] =>
            proc'[x] = q /\ \A y \in Save \ {x} : proc'[y] = proc[y]
  BY <1>1, UnderWay
<1>3. ~muddled => Carried(x)
  BY <1>2 DEF Settled
<1>4. CASE BuildAdapter(x)
  <2> DEFINE q == [p EXCEPT !.pc = "install", !.doc.llm = server.llm]
  <2>1. proc' = [proc EXCEPT ![x] = q]
    BY <1>4 DEF BuildAdapter
  <2>2. p.doc \in Document
    BY <1>2, <1>4 DEF BuildAdapter, Base, Sounds, Sound, Carries
  <2>3. p.pc = "adapter" /\ q.pc = "install" /\ q.doc.llm = server.llm
    BY <1>2, <1>4, <2>2 DEF BuildAdapter, Process, Document
  <2>4. file' = file /\ muddled' = muddled /\ server' = server
    BY <1>4 DEF BuildAdapter
  <2> HIDE DEF p, q
  <2>5. proc'[x] = q /\ \A y \in Save \ {x} : proc'[y] = proc[y]
    BY <1>2, <2>1
  <2>6. ~muddled => Carried(x)' /\ proc'[x].pc \notin Waiting
    BY <1>3, <2>3, <2>4, <2>5 DEF Carried, Waiting, p
  <2> QED
    BY <1>1, <1>2, <2>4, <2>5, <2>6, SaveSettled
<1>5. CASE Install(x)
  <2> DEFINE q == [p EXCEPT !.pc = "error"]
  <2>1. proc' = [proc EXCEPT ![x] = q]
    BY <1>5 DEF Install, Moves
  <2>2. p.pc = "install" /\ q.pc = "error" /\ q.doc = p.doc
    BY <1>2, <1>5 DEF Install, Moves, Process
  <2>3. /\ file' = file /\ muddled' = muddled /\ server'.llm = server.llm
        /\ server'.adapter = AdapterFor(p.doc.llm)
    BY <1>2, <1>5 DEF Install, Moves, Memory
  <2> HIDE DEF p, q
  <2>4. proc'[x] = q /\ \A y \in Save \ {x} : proc'[y] = proc[y]
    BY <1>2, <2>1
  <2>5. ~muddled => Carried(x)' /\ proc'[x].pc \notin Waiting
    BY <1>3, <2>2, <2>3, <2>4 DEF Carried, Waiting, p
  <2> QED
    BY <1>1, <1>2, <2>3, <2>4, <2>5, SaveSettled
<1>6. CASE InstallError(x)
  <2>1. proc' = [proc EXCEPT ![x] = Ended]
    BY <1>6 DEF InstallError
  <2>2. p.pc = "error" /\ file' = file /\ muddled' = muddled
    BY <1>6 DEF InstallError
  <2>3. /\ server'.llm = server.llm /\ server'.adapter = server.adapter
        /\ server'.error = ~Usable(p.doc.llm)
    BY <1>2, <1>6 DEF InstallError, Memory
  <2> HIDE DEF p
  <2>4. proc'[x] = Ended /\ \A y \in Save \ {x} : proc'[y] = proc[y]
    BY <1>2, <2>1
  <2>5. ~muddled => Carried(x)' /\ Agreed'
    BY <1>3, <2>2, <2>3, <2>4, IdleSound DEF Carried, Agreed, p
  <2> QED
    BY <1>1, <1>2, <2>2, <2>4, <2>5, SaveSettled
<1> QED
  BY <1>4, <1>5, <1>6

\* Writing the file: a save is on its way then, and a command keeps the section.
LEMMA ReplaceSettled ==
    ASSUME Base, Settled, NEW x \in Actor, Replace(x)
    PROVE  Settled'
<1>1. /\ proc[x].pc = "locked" /\ file' = Merged(x, file)
      /\ proc'[x].pc = "written" /\ server' = server /\ muddled' = muddled
      /\ \A y \in Actor \ {x} : proc'[y] = proc[y]
  BY Replaced DEF Replace
<1>2. CASE x \in Save
  <2>1. InFlight(x) /\ server.up
    BY <1>1, <1>2, UnderWay DEF InFlight
  <2>2. \A y \in Save \ {x} : proc'[y] = proc[y]
    BY <1>1 DEF Actor
  <2>3. Carried(x)' /\ proc'[x].pc \notin Waiting
    BY <1>1 DEF Carried, Waiting
  <2> QED
    BY <1>1, <1>2, <2>1, <2>2, <2>3, SaveSettled
<1>3. CASE x \in Cli
  <2>1. file'.llm = file.llm
    BY <1>1, <1>3, MergedIs
  <2>2. \A y \in Save : proc'[y] = proc[y]
    BY <1>1, <1>3, ActorsDiffer DEF Actor
  <2> QED
    BY <1>1, <2>1, <2>2, CalmSettled
<1> QED
  BY <1>2, <1>3 DEF Actor

\* A save that publishes alone ends every muddle.
LEMMA PublishSettled ==
    ASSUME Base, Settled, NEW x \in Save, SavePublishes(x)
    PROVE  Settled'
<1> DEFINE p == proc[x]
           q == [p EXCEPT !.pc = "build"]
<1>1. InFlight(x) /\ p.pc = "written"
  BY DEF SavePublishes, Moves, InFlight
<1>2. /\ x \in Actor /\ p \in Process /\ server.up /\ server \in Memory
      /\ \A r : proc' = [proc EXCEPT ![x] = r] =>
            proc'[x] = r /\ \A y \in Save \ {x} : proc'[y] = proc[y]
  BY <1>1, UnderWay
<1>3. p.doc = file
  BY <1>1, <1>2 DEF Base, Copied
<1>4. proc' = [proc EXCEPT ![x] = q]
  BY DEF SavePublishes, Moves
<1>5. q.pc = "build"
  BY <1>2 DEF Process
<1>6. server'.doc = file /\ file' = file
  BY <1>2, <1>3 DEF SavePublishes, Moves, Memory
<1>7. ~muddled' => \A y \in Save \ {x} : ~InFlight(y)
  BY <1>1, <1>2 DEF SavePublishes, Moves, Settled
<1> HIDE DEF p, q
<1>8. proc'[x] = q /\ \A y \in Save \ {x} : proc'[y] = proc[y]
  BY <1>2, <1>4
<1>9. Carried(x)' /\ proc'[x].pc \notin Waiting
  BY <1>5, <1>6, <1>8 DEF Carried, Waiting
<1>10. ~muddled' => \A y \in Save \ {x} : ~InFlight(y)' /\ Carried(y)'
  BY <1>7, <1>8 DEF InFlight, Carried
<1> QED
  BY <1>9, <1>10 DEF Settled

\* A save that begins muddles unless it is alone.
LEMMA BeginSettled ==
    ASSUME Base, Settled, NEW x \in Save, SaveBegins(x)
    PROVE  Settled'
<1> SUFFICES ASSUME ~muddled' PROVE Settled'
  BY DEF Settled
<1>1. ~muddled /\ server.up /\ \A y \in Save : ~InFlight(y)
  BY DEF SaveBegins
<1>2. file' = file /\ server' = server /\ x \in Actor /\ proc[x] \in Process
  BY DEF SaveBegins, Base, Sounds, Sound, Actor
<1>3. proc'[x].pc = "lock" /\ \A y \in Save \ {x} : proc'[y] = proc[y]
  <2> DEFINE q(a) == [proc[x] EXCEPT !.pc = "lock", !.kind = "save", !.ask = a]
  <2>1. PICK a \in Ask : proc' = [proc EXCEPT ![x] = q(a)]
    BY DEF SaveBegins
  <2>2. q(a).pc = "lock"
    BY <1>2 DEF Process
  <2> HIDE DEF q
  <2>3. proc'[x] = q(a) /\ \A y \in Save \ {x} : proc'[y] = proc[y]
    BY <1>2, <2>1 DEF Base, Actor
  <2> QED
    BY <2>2, <2>3
<1>4. Agreed
  BY <1>1 DEF Settled, InFlight, Waiting
<1>5. Agreed'
  BY <1>2, <1>4 DEF Agreed
<1>6. \A y \in Save \ {x} : ~InFlight(y)' /\ Carried(y)'
  BY <1>1, <1>3 DEF InFlight, Carried
<1>7. Carried(x)'
  BY <1>3 DEF Carried
<1> QED
  BY <1>5, <1>6, <1>7 DEF Settled

\* Where nothing is built: the lock, failures and rejections.
LEMMA WaitingSettled ==
    ASSUME Base, Settled, NEW x \in Actor,
           Acquire(x) \/ WriteFails(x) \/ (x \in Save /\ SaveRejected(x))
    PROVE  Settled'
<1>0. proc[x] \in Process
  BY DEF Base, Sounds, Sound
<1>1. server' = server /\ file' = file /\ muddled' = muddled
  BY DEF Acquire, WriteFails, SaveRejected
<1>2. /\ proc[x].pc \in Waiting /\ proc'[x].pc \in Waiting
      /\ proc[x].pc \in {"idle", "done"} => proc'[x].pc \in {"idle", "done"}
      /\ \A y \in Actor \ {x} : proc'[y] = proc[y]
  <2>1. CASE Acquire(x)
    <3> DEFINE q == [proc[x] EXCEPT !.pc = "locked", !.doc = file]
    <3>1. proc' = [proc EXCEPT ![x] = q] /\ proc[x].pc = "lock"
      BY <2>1 DEF Acquire
    <3>2. q.pc = "locked"
      BY <1>0 DEF Process
    <3> HIDE DEF q
    <3>3. proc'[x] = q /\ \A y \in Actor \ {x} : proc'[y] = proc[y]
      BY <3>1 DEF Base
    <3> QED
      BY <3>1, <3>2, <3>3 DEF Waiting
  <2>2. CASE WriteFails(x)
    BY <2>2, IdleSound DEF WriteFails, Base, Waiting
  <2>3. CASE SaveRejected(x)
    BY <2>3, IdleSound DEF SaveRejected, Base, Waiting
  <2> QED
    BY <2>1, <2>2, <2>3
<1> QED
  BY <1>1, <1>2, CalmSettled DEF Actor

\* The steps of the commands, but for their writing.
LEMMA CommandSettled ==
    ASSUME Base, Settled, NEW c \in Cli,
           Load(c) \/ Types(c) \/ Killed(c) \/ CommandReleases(c)
    PROVE  Settled'
<1>1. server' = server /\ file' = file /\ muddled' = muddled
  BY DEF Load, Types, Killed, CommandReleases
<1>2. c \in Actor /\ \A y \in Save : y \in Actor /\ y # c
  BY ActorsDiffer DEF Actor
<1>3. \E q : proc' = [proc EXCEPT ![c] = q]
  BY DEF Load, Types, Killed, CommandReleases
<1>4. \A y \in Save : proc'[y] = proc[y]
  BY <1>2, <1>3 DEF Base
<1> QED
  BY <1>1, <1>4, CalmSettled

\* Starting loads the file, with no save under way; stopping ends the claim.
LEMMA StartStopSettled ==
    ASSUME Base, Settled, Start \/ Stop
    PROVE  Settled'
<1>1. CASE Stop
  BY <1>1, DownIsDown DEF Stop, Settled
<1>2. CASE Start
  <2>1. \A x \in Save : proc'[x].pc \in {"idle", "done"}
    BY <1>2 DEF Start, Base, Served
  <2>2. server' = Loaded(file) /\ file' = file
    BY <1>2 DEF Start
  <2>3. Agreed'
    BY <2>2 DEF Agreed, Loaded
  <2>4. \A x \in Save : ~InFlight(x)' /\ Carried(x)'
    BY <2>1 DEF InFlight, Carried
  <2> QED
    BY <2>3, <2>4 DEF Settled
<1> QED
  BY <1>1, <1>2

\* The invariant is inductive.
LEMMA NextSettled == Base /\ Settled /\ [Next]_vars => Settled'
<1> SUFFICES ASSUME Base, Settled, [Next]_vars PROVE Settled'
  OBVIOUS
<1>1. ASSUME UNCHANGED <<file, server, proc, muddled>> PROVE Settled'
  BY <1>1, CalmSettled
<1>2. ASSUME NEW x \in Actor, Proceeds(x) PROVE Settled'
  <2>1. ASSUME BuildReads(x) \/ BuildAuth(x) \/ BuildLLM(x) \/ BuildAdapter(x)
                 \/ Install(x) \/ InstallError(x)
        PROVE  x \in Save
    BY <2>1, SaveUnderWay
       DEF BuildReads, BuildAuth, BuildLLM, BuildAdapter, Install, InstallError, Moves
  <2>2. ASSUME CommandReleases(x) PROVE x \in Cli
    BY <2>2 DEF CommandReleases
  <2> QED
    BY <1>2, <2>1, <2>2, WaitingSettled, ReplaceSettled, PublishSettled, BuildSettled,
       InstallSettled, CommandSettled DEF Proceeds
<1>3. ASSUME NEW x \in Actor, WriteFails(x) PROVE Settled'
  BY <1>3, WaitingSettled
<1>4. ASSUME NEW x \in Save, SaveRejected(x) \/ SaveBegins(x) PROVE Settled'
  BY <1>4, WaitingSettled, BeginSettled DEF Actor
<1>5. ASSUME NEW c \in Cli, Load(c) \/ Types(c) \/ Killed(c) PROVE Settled'
  BY <1>5, CommandSettled
<1>6. ASSUME NEW l \in Login, LoginVerifies(l) \/ LoginSigns(l) PROVE Settled'
  BY <1>1, <1>6 DEF LoginVerifies, LoginSigns
<1>7. CASE Start \/ Stop
  BY <1>7, StartStopSettled
<1>8. CASE CookieGoes \/ UNCHANGED vars
  BY <1>1, <1>8 DEF CookieGoes, vars
<1> QED
  BY <1>2, <1>3, <1>4, <1>5, <1>6, <1>7, <1>8 DEF Next

LEMMA SettledHolds == Spec => []Settled
<1>1. Init => Settled
  BY DownIsDown DEF Init, Settled
<1> QED
  BY <1>1, NextSettled, InitBase, NextBase, PTL DEF Spec

\* Once no save is under way, the section in memory, the adapter and the error
\* shown are those of the file, whatever the commands wrote meanwhile and
\* however many saves failed, unless saves met and none has published alone
\* since: what was saved is what the server uses.
THEOREM SavedIsInEffect == Spec => []SavedTakesEffect
<1>1. Settled => SavedTakesEffect
  <2> SUFFICES ASSUME Settled, server.up, ~muddled, \A x \in Save : ~InFlight(x)
               PROVE  Agreed
    BY DEF SavedTakesEffect, Agreed
  <2> QED
    BY DEF Settled, InFlight, Waiting
<1> QED
  BY <1>1, SettledHolds, PTL
=============================================================================
