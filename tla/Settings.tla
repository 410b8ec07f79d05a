------------------------------ MODULE Settings ------------------------------
(***************************************************************************)
(* config.toml and those who use it: the server, whose threads serve PUT   *)
(* /api/settings and swap the LLM adapter, the command line in processes   *)
(* of its own, and the sessions signed with what the server has in memory. *)
(*                                                                         *)
(* update_section takes a file lock, reads the file, merges, replaces the  *)
(* file and releases the lock; the server then rebuilds its sections from  *)
(* the document its threads share, one attribute after the other, and      *)
(* outside of the lock.  The command line computes what it writes to       *)
(* [auth] from what it read before the password prompt.                    *)
(*                                                                         *)
(* A value of the secret is the process that generated it.  `tangled' and  *)
(* `muddled' are only read by the properties: see there.                   *)
(***************************************************************************)
EXTENDS Integers, FiniteSets

CONSTANTS
    Save,        \* the PUT /api/settings requests, each served once
    Cli,         \* the command-line processes, each run once
    Login,       \* the POST /api/login requests that give the password
    NoOne,       \* not a process
    Key,         \* LLM API keys
    NoKey,       \* the empty API key
    Keep,        \* api_key is not sent
    Password,    \* passwords
    NoPassword,  \* the empty password_hash
    NoSecret,    \* the empty secret_key
    NoAdapter,   \* app.state.llm is None
    Ask,         \* the settings clients send
    Commands,    \* the commands that are run
    File         \* the files there are at the beginning

Actor == Save \cup Cli

Supported == {"mock", "responses"}
LLMSection == [provider : Supported, key : Key \cup {NoKey}]
Secret == Cli \cup {NoSecret, NoOne}
AuthSection == [secret : Secret, pw : Password \cup {NoPassword}, epoch : Nat]
Document == [llm : LLMSection, auth : AuthSection]

ASSUME ActorsDiffer == Save \cap Cli = {} /\ NoOne \notin Actor /\ NoSecret \notin Cli \cup {NoOne}
ASSUME ValuesDiffer == NoKey \notin Key /\ Keep \notin Key \cup {NoKey} /\ NoPassword \notin Password
ASSUME NoAdapterIsNone == NoAdapter \notin LLMSection
ASSUME AsksAreTyped ==
    Ask \subseteq [provider : Supported \cup {"other"}, key : Key \cup {NoKey, Keep}]
ASSUME CommandsExist == Commands \subseteq {"init", "set-password"}
ASSUME FilesAreDocuments == File \subseteq Document

VARIABLES
    file,      \* config.toml
    lock,      \* who holds config.toml.lock
    server,    \* the server's memory
    proc,      \* the requests and processes that write
    login,     \* the login requests
    sessions,  \* the session cookies that are out
    tangled,   \* a command wrote [auth] although it was not what it had read
    muddled    \* saves have met, and none has published alone since

vars == <<file, lock, server, proc, login, sessions, tangled, muddled>>

\* require_llm_config: without a key only the mock can be built.
Usable(llm) == llm.provider = "mock" \/ llm.key # NoKey

AdapterFor(llm) == IF Usable(llm) THEN llm ELSE NoAdapter

\* assert_ready.
Ready(auth) == auth.secret # NoSecret /\ auth.pw # NoPassword

Loaded(doc) == [up |-> TRUE, doc |-> doc, auth |-> doc.auth, llm |-> doc.llm,
                adapter |-> AdapterFor(doc.llm), error |-> ~Usable(doc.llm)]

Down == [up |-> FALSE, doc |-> NoOne, auth |-> NoOne, llm |-> NoOne,
         adapter |-> NoAdapter, error |-> FALSE]

\* `doc' is a local copy of the document, `seen' the [auth] a command loaded,
\* `new' the [auth] it is about to write, `ask' what a save writes.
Idle == [pc |-> "idle", kind |-> "none", ask |-> NoOne, doc |-> NoOne,
         seen |-> NoOne, new |-> NoOne]
Ended == [Idle EXCEPT !.pc = "done"]

NoLogin == [pc |-> "idle", pw |-> NoPassword]

Init ==
    /\ file \in File
    /\ lock = NoOne
    /\ server = Down
    /\ proc = [x \in Actor |-> Idle]
    /\ login = [l \in Login |-> NoLogin]
    /\ sessions = {}
    /\ tangled = FALSE
    /\ muddled = FALSE

InFlight(x) == proc[x].pc \notin {"idle", "done"}

Moves(x, from, to) == proc[x].pc = from /\ proc' = [proc EXCEPT ![x].pc = to]

-----------------------------------------------------------------------------
(* update_section.                                                         *)

\* What is merged into the document that was read under the lock.
Merged(x, doc) ==
    IF x \in Save
    THEN [doc EXCEPT !.llm = [provider |-> proc[x].ask.provider,
                              key |-> IF proc[x].ask.key = Keep THEN doc.llm.key
                                      ELSE proc[x].ask.key]]
    ELSE LET new == proc[x].new IN
         IF proc[x].kind = "init" /\ new.secret # proc[x].seen.secret
         THEN [doc EXCEPT !.auth = [@ EXCEPT !.secret = new.secret, !.epoch = new.epoch]]
         ELSE [doc EXCEPT !.auth = [@ EXCEPT !.pw = new.pw, !.epoch = new.epoch]]

\* Faulty: the lock is taken whoever holds it.
AcquireAnyway(x) ==
    /\ proc[x].pc = "lock"
    /\ lock' = x
    /\ proc' = [proc EXCEPT ![x].pc = "locked", ![x].doc = file]
    /\ UNCHANGED <<file, server, login, sessions, tangled, muddled>>

\* flock, and the reading of the file.
Acquire(x) ==
    /\ proc[x].pc = "lock" /\ lock = NoOne
    /\ lock' = x
    /\ proc' = [proc EXCEPT ![x].pc = "locked", ![x].doc = file]
    /\ UNCHANGED <<file, server, login, sessions, tangled, muddled>>

\* A temporary file is written, synced and moved over config.toml.
Replace(x) ==
    LET doc == Merged(x, proc[x].doc) IN
    /\ proc[x].pc = "locked"
    /\ proc' = [proc EXCEPT ![x].pc = "written", ![x].doc = doc]
    /\ file' = doc
    /\ tangled' = (tangled \/ (x \in Cli /\ proc[x].seen # proc[x].doc.auth))
    /\ UNCHANGED <<lock, server, login, sessions, muddled>>

\* An OSError: the temporary file is removed, the lock released, and the
\* request answered 500, or the command left with an error.
WriteFails(x) ==
    /\ proc[x].pc \in {"lock", "locked"}
    /\ proc' = [proc EXCEPT ![x] = Ended]
    /\ lock' = IF lock = x THEN NoOne ELSE lock
    /\ UNCHANGED <<file, server, login, sessions, tangled, muddled>>

-----------------------------------------------------------------------------
(* PUT /api/settings.                                                      *)

\* 422: a provider build_llm does not know is turned away before it is saved.
SaveRejected(x) ==
    /\ server.up /\ proc[x].pc = "idle"
    /\ \E a \in Ask : a.provider \notin Supported
    /\ proc' = [proc EXCEPT ![x] = Ended]
    /\ UNCHANGED <<file, lock, server, login, sessions, tangled, muddled>>

SaveBegins(x) ==
    /\ server.up /\ proc[x].pc = "idle"
    /\ \E a \in Ask :
          /\ a.provider \in Supported
          /\ proc' = [proc EXCEPT ![x].pc = "lock", ![x].kind = "save", ![x].ask = a]
    /\ muddled' = (muddled \/ \E y \in Save : InFlight(y))
    /\ UNCHANGED <<file, lock, server, login, sessions, tangled>>

\* self._doc = doc, and the lock is released.
SavePublishes(x) ==
    /\ Moves(x, "written", "build")
    /\ server' = [server EXCEPT !.doc = proc[x].doc]
    /\ lock' = NoOne
    /\ muddled' = (muddled /\ \E y \in Save \ {x} : InFlight(y))
    /\ UNCHANGED <<file, login, sessions, tangled>>

\* _build_sections reads self._doc once, which another thread may have set.
BuildReads(x) ==
    /\ proc[x].pc = "build"
    /\ proc' = [proc EXCEPT ![x].pc = "auth", ![x].doc = server.doc]
    /\ UNCHANGED <<file, lock, server, login, sessions, tangled, muddled>>

BuildAuth(x) ==
    /\ Moves(x, "auth", "llm")
    /\ server' = [server EXCEPT !.auth = proc[x].doc.auth]
    /\ UNCHANGED <<file, lock, login, sessions, tangled, muddled>>

BuildLLM(x) ==
    /\ Moves(x, "llm", "adapter")
    /\ server' = [server EXCEPT !.llm = proc[x].doc.llm]
    /\ UNCHANGED <<file, lock, login, sessions, tangled, muddled>>

\* build_llm takes the section that is in memory now.
BuildAdapter(x) ==
    /\ proc[x].pc = "adapter"
    /\ proc' = [proc EXCEPT ![x].pc = "install", ![x].doc.llm = server.llm]
    /\ UNCHANGED <<file, lock, server, login, sessions, tangled, muddled>>

\* Faulty: an unusable configuration leaves the adapter as it is.
InstallUsable(x) ==
    /\ Moves(x, "install", "error")
    /\ server' = [server EXCEPT !.adapter = IF Usable(proc[x].doc.llm) THEN proc[x].doc.llm ELSE @]
    /\ UNCHANGED <<file, lock, login, sessions, tangled, muddled>>

\* state.llm = .. and state.llm_error = .. are two assignments.
Install(x) ==
    /\ Moves(x, "install", "error")
    /\ server' = [server EXCEPT !.adapter = AdapterFor(proc[x].doc.llm)]
    /\ UNCHANGED <<file, lock, login, sessions, tangled, muddled>>

InstallError(x) ==
    /\ proc[x].pc = "error" /\ proc' = [proc EXCEPT ![x] = Ended]
    /\ server' = [server EXCEPT !.error = ~Usable(proc[x].doc.llm)]
    /\ UNCHANGED <<file, lock, login, sessions, tangled, muddled>>

-----------------------------------------------------------------------------
(* The command line: init and set-password.                                *)

\* Where init goes on with this [auth] loaded: it writes a secret if there is
\* none, then a password if there is none.
InitGoesOn(c, auth) ==
    CASE auth.secret = NoSecret -> [Idle EXCEPT !.pc = "lock", !.kind = "init", !.seen = auth,
                                                !.new = [auth EXCEPT !.secret = c]]
      [] auth.secret # NoSecret /\ auth.pw = NoPassword ->
            [Idle EXCEPT !.pc = "prompt", !.kind = "init", !.seen = auth]
      [] OTHER -> Ended

\* Config(..), without the lock.
Load(c) ==
    /\ proc[c].pc = "idle"
    /\ \/ "init" \in Commands /\ proc' = [proc EXCEPT ![c] = InitGoesOn(c, file.auth)]
       \/ /\ "set-password" \in Commands
          /\ proc' = [proc EXCEPT ![c].pc = "prompt", ![c].kind = "set-password",
                                  ![c].seen = file.auth]
    /\ UNCHANGED <<file, lock, server, login, sessions, tangled, muddled>>

\* Faulty: set-password keeps the epoch.
TypesSameEpoch(c) ==
    /\ proc[c].pc = "prompt"
    /\ \E pw \in Password :
          proc' = [proc EXCEPT ![c].pc = "lock",
                               ![c].new = [proc[c].seen EXCEPT !.pw = pw]]
    /\ UNCHANGED <<file, lock, server, login, sessions, tangled, muddled>>

\* The password is typed; set-password takes the next epoch after the one it
\* loaded, init the same.
Types(c) ==
    /\ proc[c].pc = "prompt"
    /\ \E pw \in Password :
          proc' = [proc EXCEPT ![c].pc = "lock",
                      ![c].new = [proc[c].seen EXCEPT !.pw = pw,
                                  !.epoch = IF proc[c].kind = "init" THEN @ ELSE @ + 1]]
    /\ UNCHANGED <<file, lock, server, login, sessions, tangled, muddled>>

\* The lock is released and the command's own sections rebuilt; init goes on.
CommandReleases(c) ==
    /\ c \in Cli /\ proc[c].pc = "written"
    /\ proc' = [proc EXCEPT ![c] = IF proc[c].kind = "init"
                                   THEN InitGoesOn(c, proc[c].doc.auth) ELSE Ended]
    /\ lock' = NoOne
    /\ UNCHANGED <<file, server, login, sessions, tangled, muddled>>

\* A command is interrupted; the system releases its lock.
Killed(c) ==
    /\ InFlight(c)
    /\ proc' = [proc EXCEPT ![c] = Ended]
    /\ lock' = IF lock = c THEN NoOne ELSE lock
    /\ UNCHANGED <<file, server, login, sessions, tangled, muddled>>

-----------------------------------------------------------------------------
(* The server starts and stops; sessions.                                  *)

\* Faulty: whatever the file says.
StartUnready ==
    /\ ~server.up
    /\ server' = Loaded(file)
    /\ muddled' = FALSE
    /\ UNCHANGED <<file, lock, proc, login, sessions, tangled>>

\* create_app refuses a configuration that is not ready, but not one for which
\* no adapter can be built.
Start ==
    /\ ~server.up /\ Ready(file.auth)
    /\ server' = Loaded(file)
    /\ muddled' = FALSE
    /\ UNCHANGED <<file, lock, proc, login, sessions, tangled>>

\* The process ends, at any moment, and its requests with it.
Stop ==
    /\ server.up
    /\ server' = Down
    /\ proc' = [x \in Actor |-> IF x \in Save /\ InFlight(x)
                                THEN Ended ELSE proc[x]]
    /\ lock' = IF lock \in Save THEN NoOne ELSE lock
    /\ login' = [l \in Login |-> IF login[l].pc = "verified"
                                 THEN [NoLogin EXCEPT !.pc = "done"] ELSE login[l]]
    /\ UNCHANGED <<file, sessions, tangled, muddled>>

\* verify_password against the hash in memory.
LoginVerifies(l) ==
    /\ server.up /\ login[l].pc = "idle"
    /\ login' = [login EXCEPT ![l] = [pc |-> "verified", pw |-> server.auth.pw]]
    /\ UNCHANGED <<file, lock, server, proc, sessions, tangled, muddled>>

\* The cookie is signed with the secret and the epoch that are in memory now;
\* `pw' is what was verified.
LoginSigns(l) ==
    /\ login[l].pc = "verified"
    /\ login' = [login EXCEPT ![l] = [NoLogin EXCEPT !.pc = "done"]]
    /\ sessions' = sessions \cup
          {[secret |-> server.auth.secret, epoch |-> server.auth.epoch, pw |-> login[l].pw]}
    /\ UNCHANGED <<file, lock, server, proc, tangled, muddled>>

\* A cookie expires, or a logout makes the browser drop it.
CookieGoes ==
    /\ \E s \in sessions : sessions' = sessions \ {s}
    /\ UNCHANGED <<file, lock, server, proc, login, tangled, muddled>>

\* verify_session, of a cookie that has not expired.
GoodFor(s, auth) == s.secret = auth.secret /\ s.epoch = auth.epoch
Accepts(s) == server.up /\ GoodFor(s, server.auth)

-----------------------------------------------------------------------------
\* The steps of a process that waits for nobody but the lock.
Proceeds(x) ==
    \/ Acquire(x) \/ Replace(x)
    \/ SavePublishes(x) /\ x \in Save
    \/ BuildReads(x) \/ BuildAuth(x) \/ BuildLLM(x) \/ BuildAdapter(x) \/ Install(x)
    \/ InstallError(x)
    \/ CommandReleases(x)

Next ==
    \/ \E x \in Actor : Proceeds(x) \/ WriteFails(x)
    \/ \E x \in Save : SaveRejected(x) \/ SaveBegins(x)
    \/ \E c \in Cli : Load(c) \/ Types(c) \/ Killed(c)
    \/ \E l \in Login : LoginVerifies(l) \/ LoginSigns(l)
    \/ Start \/ Stop \/ CookieGoes

Spec == Init /\ [][Next]_vars

-----------------------------------------------------------------------------
(* Properties.                                                             *)

TypeOK ==
    /\ file \in Document
    /\ lock \in Actor \cup {NoOne}
    /\ server = Down \/
       server \in [up : {TRUE}, doc : Document, auth : AuthSection, llm : LLMSection,
                   adapter : LLMSection \cup {NoAdapter}, error : BOOLEAN]
    /\ proc \in [Actor -> [pc : {"idle", "prompt", "lock", "locked", "written", "build", "auth",
                                 "llm", "adapter", "install", "error", "done"},
                           kind : {"none", "save", "init", "set-password"},
                           ask : [provider : Supported, key : Key \cup {NoKey, Keep}] \cup {NoOne},
                           doc : Document \cup {NoOne}, seen : AuthSection \cup {NoOne},
                           new : AuthSection \cup {NoOne}]]
    /\ \A x \in Actor : lock = x <=> proc[x].pc \in {"locked", "written"}
    /\ tangled \in BOOLEAN /\ muddled \in BOOLEAN

\* No update is lost: a step that changes one section of the file leaves the
\* others as they are, and a stored API key is replaced only by one that a
\* client sent, although every update rewrites the whole file from a copy.
UpdatesAreMerged ==
    [][/\ file'.llm # file.llm => file'.auth = file.auth
       /\ file'.llm.key # file.llm.key =>
             \E x \in Save : /\ proc[x].pc = "locked" /\ proc'[x].pc = "written"
                             /\ proc[x].ask.key = file'.llm.key]_vars

\* A running server has a secret and a password, also after it has reloaded a
\* file that commands change meanwhile: readiness is checked at the start only.
RunningIsReady == server.up => Ready(server.auth)

\* Once no save is under way, the section in memory, the adapter and the error
\* shown are those of the file.  Saves that overlap rebuild outside the lock,
\* and the older may come last: then they differ, until a save that meets no
\* other gets as far as publishing its document, or the server starts again.
SavedTakesEffect ==
    server.up /\ ~muddled /\ (\A x \in Save : ~InFlight(x)) =>
        /\ server.llm = file.llm
        /\ server.adapter = AdapterFor(file.llm)
        /\ server.error = ~Usable(file.llm)

\* A changed password ends the sessions: no cookie that is out when the file
\* gets another password is good for the [auth] it now has, which is that of
\* every server that starts or reloads from then on, however logins, saves and
\* starts have interleaved before.  Two commands that overlap may give one epoch
\* to two passwords (`tangled').
PasswordEndsSessions ==
    [][file'.auth.pw # file.auth.pw /\ ~tangled' =>
          \A s \in sessions : ~GoodFor(s, file'.auth)]_vars

-----------------------------------------------------------------------------
(* What the documents say and a running server refutes.                    *)

\* "Every cookie there is becomes invalid at once" (security.py, docs/api.md):
\* none is let in but for the password of the file.  The server that runs goes
\* on with the epoch in its memory, until it reloads or starts again.
CookiesVoidAtOnce == \A s \in sessions : Accepts(s) => s.pw = file.auth.pw
=============================================================================
