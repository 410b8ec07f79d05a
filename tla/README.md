# ScheduleKit in TLA+

ScheduleKit is a single-user schedule server: FastAPI over SQLite, with web
pages, phone shortcuts and widgets as clients, and a language model that turns
screenshots and text into tasks. This directory keeps its formal models: TLA+
modules translated from `src/`, TLC configurations that check them on small
instances, and TLAPS proofs that hold for every instance.

`PROJECT.json` is the index: components, runs, the source lines every
definition stands for, hazards, findings and theorems.

## 1. Inventory

Every handler that is `def` runs on a thread pool; `create_ingest`, `login` and
`logout` are coroutines on the one event loop. Each database call opens its own
connection: a read is one SELECT, a write is one `BEGIN IMMEDIATE .. COMMIT`
(`app/db.py`). **No handler as a whole is atomic**, and no handler reads again
inside its transaction what it decided on before. Ids are SQLite rowids without
`AUTOINCREMENT`, so the id of the last row, once deleted, is given out again.
These facts are behind most of what is hard here.

| component | state | operations | what makes it correct | module |
|---|---|---|---|---|
| **Drafts** `services/drafts.py`, `routers/ingest.py` | `ingest_drafts`; inserts into `items` | ingest (structured / by LLM), confirm, discard, purge, hourly sweep | nothing becomes a task before it is confirmed; a confirmation is all or nothing; final states are final; the record of a confirmation stays | `Drafts`, `DraftLifecycle`, `DraftsSolo` |
| **Extract** `llm/structured.py` | one coroutine's attempts, deadline, channel, reasons | post, retry after backoff, fall back to JSON, give up | bounded requests and time; a retry keeps the channel and a rejection changes it; a fallback is never silent | `Extract` |
| **LLM replies** `llm/responses.py`, `chat.py` | none | parse a reply | every reply is items, rejection, transient or final failure, and no items are lost | `Replies` |
| **RateLimiter** `ratelimit.py` | a deque of moments per key | `check` | no more than the limit in any window; nobody refused without cause; `Retry-After` suffices | `RateLimiter` |
| **Tasks** `services/tasks.py` | `items` | create (idempotent by `client_uuid`), update, delete, views | exactly one of `due_at` and `priority`; one task per `client_uuid`; each request acts at one moment | `Tasks`, `TaskStore` |
| **Tasks page** `tasks.js`, `routers/ui.py` | lists in the DOM | refresh from several lists | the panel shows what the server has | `TaskPage` |
| **Settings** `config.py`, `routers/settings.py`, with login and the **CLI** | `config.toml`, sections in memory, the LLM adapter, cookies | locked read-modify-write, rebuild, swap, `init`, `set-password`, login | no lost update; what is saved takes effect; a changed password ends access | `Settings` |
| **Authentication** `security.py`, `deps.py` | `api_keys` | decide on a request | cookie, key and CSRF token give exactly the access they should | `Access` |
| **Courses** `services/courses.py`, `routers/courses.py` | `courses`, `course_sessions` | replace all, read | an answer is one timetable; nothing is lost without an error | `Courses` |
| **Timetable** `services/timetable.py` | none | parse, format | format then parse changes nothing | `Timetable` |
| **Context**, **Normalize** | none | week and lessons of a moment; items of the model | the right lessons; always exactly one of deadline and priority | `Context`, `Normalize` |
| **Uploads** `media.py`, `housekeeping.py` | files by date and hash | store, read, purge by age | a stored image stays whole and for as long as it is to be retained | `Uploads` |
| **Migrations** `migrations/runner.py`, with `backup` | the schema, `schema_version`, backup files | apply what is missing, back up, prune | each script is applied once, in order, whole or not at all; the newest backup stays | `Migrations` |
| service worker, widgets, deployment scripts | copies of answers | | | not modelled, section 8 |

How they meet: an ingest request passes the *RateLimiter*, calls *Extract* with
a *Context* built from *Courses*, has the *reply* parsed and *normalised*, and
stores a *draft*; a confirm request writes *items*, which *Tasks* also creates
and deletes; *housekeeping* sweeps drafts and uploads beside all of this;
*Settings* replaces the LLM adapter under the requests in flight, and the
*command line* changes the same file and database from other processes.

Hard behaviours: check-then-act across two connections (drafts, tasks,
migrations), ids that come back, a sweep that runs at any moment, answers lost
after a commit, retries over two channels with one counter, a deadline compared
before a sleep, rounding of waits, a read torn over several connections,
configuration rebuilt outside its lock, files written in place, local dates
compared with UTC dates, processes killed among all of this.

## 2. Plan

Done: every component of section 1 that has state of its own or decides
something; and proofs of every safety property and both refinements that the
runs check, but for `SavedBackChangesNothing` of `Courses`.

What is left, in this order:

1. `SavedBackChangesNothing`: that formatting and then parsing a table that a
   text can tell gives it back (section 7 says what it needs).
2. `Widget` and `ServiceWorker`, should their caches ever be written back.

## 3. Modules

### Drafts

A request is a process with a program counter, the way a handler is a sequence
of database calls:

| code | actions |
|---|---|
| `create_ingest` | `IngestRefused`, or `IngestStructured` ; `InsertDraft`, or `IngestAsksLLM` ; `LLMReturns` / `LLMFails` ; `InsertDraft` |
| `confirm_ingest`, `confirm_draft` | `ConfirmRead` (SELECT and every check) ; `ConfirmWrite` (the transaction) ; `Answer` (the SELECT for the response) |
| `discard_ingest`, `discard_draft` | `DiscardRead` ; `DiscardWrite` ; `Answer` |
| `purge_ingest` | `Purge` |
| `housekeeping.sweep`, `cleanup_expired` | `CleanupExpired` |
| `create_item`, `delete_item` | `CreateTask`, `DeleteTask`, as far as they change `items` and its ids |
| exceptions before the commit, rollback | `HandlerRaises` |
| exceptions after it: the second `get_draft` finds no row, or raises | `Answer` with 500 |
| stop and start | `Restart` |

`drafts` and `items` are functions from ids to rows; a new row gets the largest
id in use plus one (`IsLastRowid`). An element of an `items` array is a member
of `Entry`; `ValidEntry` are those `validate_client_items` accepts. `origin`
and `by` are ghosts that tell a row from a later row under the same id.
`expires_at` is computed before the insertion, as in the code, so the sweep may
find a draft expired that was stored a moment ago.

`DraftLifecycle` says what `docs/api.md` promises of a draft. `DraftsSolo` is
`Drafts` with nothing running between the read and the answer of a confirm or
discard. For one client at a time the handlers implement the documented state
machine; and the same holds for any repair that makes those steps one, for
instance by reading and checking the status, and taking the row for the answer,
inside the transaction that writes. The second read may still fail after the
commit, also then: `OutcomeIsOnRecord` says that the draft nevertheless tells
what was done.

### Extract

One extraction: `Post`, then one of `Succeed`, `Retry`, `GiveUp`, `FallBack`,
`NoChannelLeft`, `Fail`, and `Wake` after a sleep. What the provider answers is
one of ten `ProviderReplies`; `Verdict` maps a reply on a channel to the exception the
code raises, including the one it does not intend (`"raised"`). Time is counted
in ticks: a request takes `0..MaxLatency`, a sleep what `_backoff` can return,
jitter included.

### RateLimiter

`check` is one action per outcome (`Admit`, `Refuse`); the popleft loop is
`Expires`/`Kept`, the reclaiming `Reclaimed`. `Tenths` allows both neighbours
of a tie of `round(x, 1)`. A tick is finer than the tenth, a second is several
ticks.

### Tasks, TaskStore, TaskPage

A request looks (`CreateMisses`, `PatchReads`) and writes in a later step
(`CreateInserts`, `CreateCollides`, `PatchWrites`, `PatchFindsNoRow`,
`WriteFails`), or is answered in its first (`Reject`, `CreateFinds`,
`PatchMisses`, `PatchConflicts`, `PatchSetsNothing`, `Delete`, `DeleteMisses`).
`Updated` is the assignment list of `update_item`: three blocks, the later
assignment of a column winning. `stamp` is the time a handler took before its
transaction. Whether a patch sets any of title, notes and category is one bit.

`TaskStore` is the table `docs/api.md` and `schemas.py` promise: each request
acts at one moment and the answer shows the row of that moment. `Store` in
`Tasks` instantiates it; the 500s, whatever their cause, are its failures.

`TaskPage` adds the page: the first rendering (`list_completed`) and `refresh`,
whose two lists are requested at once, come back at different moments, and are
merged when both are there.

### Settings

The locked part of `update_section` is `Acquire`, `Replace`, `SavePublishes` or
`CommandReleases`; what follows outside the lock is `BuildReads`, `BuildAuth`,
`BuildLLM`, `BuildAdapter`, `Install`, `InstallError`, each assignment a step
because other threads read in between. The command line is `Load`, `Types` (the
password prompt, between loading and locking), and the same locked part in a
process of its own, which may be `Killed`. `LoginVerifies` and `LoginSigns` are
the two reads of the configuration that `login` makes around its await.
A session is the secret and the epoch its cookie was signed with and, as a
ghost, the password that was verified for it; `GoodFor` is `verify_session`.
`tangled` records that commands have overlapped; `muddled` that saves have, and
that none has published its section alone since, which would repair what the
overlap left. Properties that are true only without them name them.

### Courses, Timetable

`replace_all` is one transaction (`PutReplaces`); an answer is four reads
(`ReadCourses`, `ReadSessions`, `CountCourses`, `CountSessions`). A body is an
array, a text, or `PutBack`, the text an earlier answer showed, which is how the
page saves. In `Timetable` a line is a sequence of words of a kind (day, time,
weeks, parity, name, comment, bar); `Segments` splits it at the bars, `Tokenize`
makes fields of it, and `Parse` and `Format` are the two directions. A name or a
location is a sequence of words, too, and may have bars in it when it comes from
an array. How much white space stands between two words is left out, and so are
line breaks within a name or location.

### Uploads

`store_image` is `Looks` (exists), `Opens` (the file is emptied), `Writes`;
`Reads` is the reading back for the LLM. `create_ingest` awaits nothing from the
one to the other, so no two ingestions are in between (`Busy`); the sweep, in a
thread, and the end of the process come at any point. The sweep lists (`SweepBegins`) and
removes file by file. `zone` is the offset between the local dates of the
buckets and the UTC date of the cutoff.

### Migrations

`ReadsVersions` reads what is recorded, once; then for each script `Skips`, or
`BeginsScript` (BEGIN IMMEDIATE), and `Commits` or `ScriptFails`. A process can be
killed at any point; systemd restarts the server. A backup is a partial file
until it is copied, and what is pruned is listed before.

### Access, Normalize, Context, Replies, Rules

Operators without state: `Decide` (`authenticate`, then the four dependencies),
`NormalizeItems`, `CourseLines`, `ParseResponse` for both protocols and both
channels. `Rules` calls one of them per behaviour, and its properties say
declaratively what each should answer.

## 4. Runs

All "pass" runs are exhaustive for their bounds. `MCDatabase`, `MCProgress`,
`MCServer` and `MCData` check components that share no state in one run: `part` says which of
them runs in a behaviour, and the others stay as they begin. Each component
keeps its own initial states, actions and fairness; what is checked of it is
what a run of its own would check.

| run | question | bounds, and why they are enough |
|---|---|---|
| `database` | drafts: which promises survive every interleaving | 4 requests: an ingestion, two that decide on its draft, and one that purges, ingests under the reused id, or deletes or creates a task; 3 draft ids; two confirmations of two tasks each (6 ids); TTL 1 and a clock of 2, so that drafts expire before, during and after a confirmation |
| | migrations: migrating and backing up at once | a server and 2 commands, 3 scripts from any state of an older release, one kill, two moments for the names of two backups; keep 0, which the code raises to 1 |
| `drafts_solo` | one client at a time gets the documented state machine, and its record | as the drafts of `database` |
| `progress` | drafts: the unconfirmed go away | 2 requests, a clock of 3, no symmetry (liveness) |
| | uploads: halves of images, retention, the sweep | 2 ingestions of one image; days of two moments, so that midnight falls between any two steps; zones behind, at and ahead of UTC; retention off and of a day |
| | extract: number, order, duration and end of the requests | 2 retries, so that the count runs out on either channel; a budget that two slow requests exceed; Retry-After of 0, below and above the cap |
| | migrations: the server comes up | a server and a command, 3 scripts, one kill; no symmetry |
| `tasks` | what handlers that look and then write promise together, and what the page shows | 3 requests: two that race and one that deletes or creates under the reused id; one `client_uuid` and the empty one; two moments; a refresh beside them |
| `server` | settings: saves, commands, logins and restarts around one file | 2 saves, 2 commands and a login: every pair of writers overlaps, beside a reader; the file of a new and of a running installation; 2 passwords |
| | limiter: the window, refusals, Retry-After | 2 callers, limit 2, almost two windows, 4 calls each, so that entries expire, are refused and come in again; reclaiming starts at the second bucket |
| `data` | courses: replacing, reading and saving back | 3 requests: two that read or put, and one that puts back what one of them showed; twelve bodies, each a case of the parser, one with a bar in a location |
| | rules: every decision without state | every combination of the values that its branches tell apart; up to three raw items or tool calls; the term's days before, within, between and after its weeks, with the minutes at every edge of a lesson and around midnight, also for a lesson that ends after it |

Six runs show where the code does not do what its documents say:

| run | property | what the repository says | what the run shows |
|---|---|---|---|
| `drafts_twice` | `ConfirmedOnce` | "幂等：已确认的草稿再确认会明确报错而不是重复插入" (`services/drafts.py:368`) | two confirmations that overlap both insert the tasks |
| `drafts_record` | `ConfirmationHasRecord` | "`confirmed` 的草稿**永远不会被自动清理**，要删只能显式 purge。" (`docs/api.md:683`) | the sweep removes the draft between the read and the write of its confirmation; the tasks are there, the record is not |
| `requests` | `RequestTotal` | "总请求数最多是 ``retry_count + 1``" (`config.py:115`) | the JSON channel sends one more after the last retry was rejected |
| `quota` | `RefusedCallsCount` | "被限流拒绝的请求也计入配额" (`docs/api.md:1074`, also `:222`) | a call is let through although its caller has called as often as the limit within the window |
| `cookies` | `CookiesVoidAtOnce` | "所有既有 Cookie 立即失效" (`docs/api.md:269`; also `security.py:6`, `cli.py:113`) | a running server lets in a cookie of the old password |
| `bar` | `TextCanBePutBack` | "`text` 可以直接回填到编辑框" (`docs/api.md:712`) | a name with a bar comes back as another name, in other weeks |

`ConfirmationHasRecord` is checked twice: it is false of requests that overlap,
and `drafts_solo` shows it for one decision at a time.

Each property of a passing run has a mutant: a definition (named `Faulty` in the
comment before it) that a plausible bug would put in place of the real one and
under which TLC finds the property violated.

`CHECK_DEADLOCK FALSE` stands where every request of an instance is served once
and the behaviour then ends. Deadlock is checked in `MCDatabase` and
`MCProgress`, where `Rests` says when migrations are over.

## 5. What the models showed

Besides the six runs above, the following was found while the models were
written. Where a property excludes it, its comment says so; "uncovered" means
that the code contradicts a document here and that no run shows it.

*Drafts.* A failed draft becomes confirmed when its id is reused between a
confirmation's read and write. A discarding that overlaps a confirmation
answers 200 although the tasks exist, against `docs/api.md:586` ("不创建任何任务"):
the same `ConfirmationHasRecord` is false of it, though `drafts_record` shows the
sweep. The second read of a confirmation may fail after the commit: 500, and the
tasks are there.

*Extract.* A JSON channel that starts with the attempts used up gives up at its
first transient failure. The deadline is compared before the sleep, so a retry
may be posted after the budget (`structured.py:68`, "超预算就不再重试");
`ElapsedBounded` says by how much. When the JSON channel ends otherwise than by
a rejection, the error names that channel only (uncovered: `docs/api.md:520`
has "每条通道各自失败的原因"). A reply that is JSON but no object raises an
`AttributeError`, arguments that are no string a `TypeError`: 500, and no failed
draft. A fence closed on its own line loses its JSON.

*RateLimiter.* The reclaiming of empty buckets finds none: a bucket is never
empty.

*Tasks.* The second of two creations with one `client_uuid` that overlap gets a
500, not the task; so does every second creation with an empty one (uncovered:
`docs/api.md:354`). An update of a task that is deleted meanwhile gets a 500,
or, when the id is used again, changes the other task. The completed panel cuts
two lists by deadline and by priority before it sorts them by completion, and
with more done tasks than the limit it misses recent ones (uncovered:
`docs/api.md:315-317`).

*Settings.* Saves that overlap may leave the adapter of the older one
(uncovered: `routers/settings.py:6`, "保存后立即重建适配器"). A login that
verified the old password just before a save reloads the file signs its cookie
with the new epoch. Two `set-password` that overlap give one epoch to two
passwords.

*Courses.* A range of weeks in the wrong order ("16-1周") is taken for a
location without an error. Saving the page drops courses without sessions, and
a name with a blank, which a line between bars may give, loses its second half
to the location, since the text shown has no bars. Structured weeks are not
checked for order. An answer that a PUT overlaps may mix two timetables.

*Context.* An hour no clock shows ("99:99", possible in the structured form)
makes every ingestion of that weekday fail. The rest of the week is sorted by
the text of the weekday. The week counts from `start_date`, Monday or not.

*Normalize.* A priority of `Infinity` or a date of the last year raises an
`OverflowError`: 500, and no failed draft.

*Uploads.* Half an image, left by a write that failed, is used for the rest of
the day. The cutoff is a UTC date and the buckets are local dates, so a zone
behind UTC loses up to its offset of the retention. Images of drafts that are
kept go with the others.

*Migrations.* The loser of a race fails and is started again. With `keep` 1,
backups that overlap can leave only a partial file beside the newest (uncovered:
`PLAN.md:453`).

## 6. Fairness

For the drafts, `progress` assumes `WF(CleanupExpired)` and `WF(Tick)`:
`run_forever` loops for as long as the process lives, swallows every exception
of the sweep, and the clock goes on. Nothing is assumed of the requests: no
client has to confirm, no handler has to finish. For an extraction it assumes
`WF(ExtractNext)`: the event loop resumes a due coroutine and a request comes
back or times out. httpx bounds each connect, read and write, not the request
as a whole; `MaxLatency` is therefore an assumption about the provider, and so
is the return of a request.

For the uploads it assumes `WF` of the beginning and the end of a sweep, by the
same loop, and `SF` of the removal of each file: an `OSError` skips the file
until the next sweep, a restart abandons the sweep, and neither does so for
ever to one file. For the migrations it assumes `WF` of each process's own
steps: an operating system schedules what is running, and `Restart=on-failure`
in `schedulekit.service` starts a server that failed. A process may still time
out waiting for the write lock; kills are bounded by `MaxCrashes`, since a
server that is killed for ever never comes up.

## 7. Proofs

TLAPS proves these for all values of the constants under the named assumptions
of the modules (naturals for bounds and times, typed payloads, placeholders that
are not values; symmetry and model values play no role).

* `DraftsProofs`: `TypeCorrect`, then `RowsKnow` and `DraftStageWritesNothing`
  from the inductive invariant `DraftInv`. `UnconfirmedWritesNothing` is not
  inductive by itself: a pending row under a reused id could belong to an
  ingestion somebody has confirmed before. `RowsKnowTheirIngestion` excludes
  it: a row and every request past its checks agree on who created the row,
  and a new row's ingestion is known to nobody. From it follow the action
  property `LateConfirmIsRejected` (a request that reads a pending row reads
  one without confirmations) and, with the rule for new rowids,
  `ConfirmedIsKept`. `RecordIsOne` has its own invariant `RecordInv`: what a
  confirmation inserted it keeps, and what it is about to insert is not empty.
  `ConfirmIsWhole` needs `TasksInv`: a list about to be written has been
  checked; the ids of a confirmation are one interval above all that were in
  use; and every task names the one request that made it, so that no task under
  a reused id is taken for one of the list.
  For one decision at a time, `SoloInv` says that the row a request decides on
  is still the one it read (`DecidedRow`) and that what was inserted is never
  answered with a refusal (`Told`). `RowTells` adds that a row is confirmed
  exactly if its tasks were inserted, and names them. `OutcomeRecorded` and
  `ConfirmationRecorded` follow, and `ImplementsDraftLifecycle`: reading and writing are stutters but
  for the one step that commits, and that is a step of `DraftLifecycle`.
* `ExtractProofs`: one invariant, `ExtractInv`, of four parts: types, the
  count (`CountInv`: how many attempts are possible at each point), the clock
  (`ClockInv`: a sleep starts within the budget) and the log (`LogInv`: what
  the last request was). Each bound follows. `LoudInv` ties the noted reasons
  to the channels that have been left.
* `RateLimiterProofs`: `LimiterInv` says that a bucket is the tail of the
  caller's admitted calls and that everything before it has left the window;
  `WindowIsRespected` follows because an admission finds fewer than `Limit`
  calls in the bucket. `TypeCorrect` includes that no bucket is empty, which
  is why the reclaiming never finds one. For `RefusalsAreDue` and
  `RetryAfterIsEnough`, `RefusalInv` adds that the admitted calls are in the
  order of their moments (`Ordered`) and that at the promised moment the
  `Limit`-th last of them has left the window (`Promised`), with lemmas about
  the two roundings: they lose less together than the header adds. They rest on
  `LimiterAssumption` saying that a second is a whole number of tenths.
* `TasksProofs`: `Inv` is `TypeOK`, `Checked` (a request past its look has a
  payload its validators and its look have let through), `RowsAreWhole`,
  `CreatedStays` and `CreatedOnce`. `CreatedOnce` needs `CreatedStays`: a task
  that was answered as created is still there with its `client_uuid`, unless a
  request deleted its id. The refinement `TasksImplementStore` uses `Checked`
  and `RowsAreWhole` as the invariant under which every step of a handler is a
  step of `TaskStore` (a look is `Receive`, or the whole request), or none.
  `PanelIsRight` is about `TaskPage`: a list read while nobody writes is what
  its query gives now (`ReadIsFresh`), a view with no more done tasks than the
  limit is listed whole, and a done task is in exactly one view because rows
  are whole. `MomentsAreOrdered` says that what is sorted by are integers,
  `PanelIsNoRefresh` that a name is not used twice.
* `MigrationsProofs`: `SchemaInv` adds `Passed(x)` to `SchemaIsWhole`: every
  script a process has gone past is applied. It holds for a process that
  skipped a script because what it read as recorded was applied then, and
  scripts are never taken back. `LastBackupIsKept` rests on `PruneInv`: what a
  backup is about to remove always has a newer file beside it.
* `SettingsProofs`: `Base` says of each process where it can be and what it has
  read there, of the lock that it is held by exactly who is between the reading
  and the release, and (`Copied`) that the holder's copy is the file: that is
  what makes `UpdatesMerge` true, for `MergedIs` says what a save or a command
  changes in the copy. `InUse(a)` collects the `[auth]` sections a server may
  come to use: that of a ready file, the two in memory, those of the documents
  from which saves rebuild. `NextIsSourced` shows that only a replacement of
  the file brings a new one in, whichever way the rebuilding overlaps.
  `RunningStaysReady` follows, for an update of a ready file leaves it ready;
  and `PasswordEnds`, from `Newest`: while no commands have overlapped, no
  epoch in use and none of a cookie is beyond that of the file, so that the one
  a changed password brings is new. `SavedIsInEffect` rests on `Settled`:
  without a muddle at most one save is past its lock, and file and memory
  differ only as far as that save has not carried its section yet (`Carried`).
* `UploadsProofs`: `HalvesAccounted` follows from who may hold a path, and from
  `OneIsBusy`: no two ingestions are between the look and the reading.
  `KeptAsLongAsRetained` from `RetentionInv`: a path is in the bucket of the
  local date on which it was last looked for (`Dated`), and what a sweep still
  visits was old when it began (`SweptIsOld`), with lemmas on the division of
  moments into days, for zones on either side of UTC. `NoneIsNothing` says
  that the placeholder is no path and no state of a file.
* `DataProofs`, about `Rules`: the four decisions, each for every input of its
  kind. `AccessIsByPolicy` and `ContextIsRight` are by cases.
  `ItemsFollowRules` and `RepliesAreReadWhole` hold for lists of any length and
  are by **induction over data**. The induction rules of the library take a
  predicate, which the provers cannot instantiate; here the predicate is a set
  and the step of a fold a function. `LeastNumber` derives the least-number
  principle from the well-foundedness of strict inclusion of finite sets,
  `Induction` follows for sets of naturals, `FoldExists` builds the function
  of partial results of a fold and `FoldIsLoop` says that `FoldLeft` ends
  with its last value. What remains is an ordinary loop invariant: `LoopInv`
  (after `k` items the kept ones are those with a title, in order and up to the
  limit, unless one overflowed) and `CallsInv` (after `k` calls every item of
  every call is there, unless one was no call of the tool or malformed).
  `RequestsAreTyped`, `RawsAreTyped`, `MomentsAreTyped` and `BodiesAreTyped`
  say what the inputs are made of, no more than FastAPI and `json.loads`
  give: numbers, texts and the kinds that the comments of the modules list.
* `DataProofs`, about `Courses`: two more loops. `ParseKeepsLines`: after `k`
  lines the parsed courses are one for every name, with as many sessions as
  there were lines of that name (`KeepsLines`). `StoredRows`: the rows flattened
  from the first `k` courses are as many, for each, as its sessions, and of no
  other course (`RowsOfFirst`). `BodyStored` puts them together: whatever is not
  refused is stored whole, of any length. `CoursesInv` is then about the requests:
  the stored rows are a table (`IsTable`), what a request has read is a sequence
  (`ReadSoFar`), so that its text can be put back and parsed, and what it has
  read with no PUT between is in the table still (`StillRight`). `AnswersAreWhole`
  and `PutsAreWhole` follow. `PutsHaveForm` says of the bodies what pydantic
  ensures of them: a text, an array of courses with their parts, or neither.

What attempts to prove corrected in the models: `muddled` was reset too early
(three saves in a row left the adapter of the second, which two saves cannot
show). `ContextTellsTheWeek` was false around midnight: a lesson over for less
than an hour is not told once its day is past. A chat reply is also whole with
the `finish_reason` `tool_calls` (`tests/test_llm.py:175`). A second that is no
whole number of tenths would make `Retry-After` too short. In each case the
instance was extended so that the run now covers it too, or the assumption named.

Only model-checked:

* `UnconfirmedDraftsExpire`, `Terminates`, `OldImagesGo` and `ServerComesUp`:
  liveness under fairness, and `ENABLED`, are out of the prover's reach.
* `SavedBackChangesNothing` of `Courses`: it needs that sorting the sessions of a
  course places each exactly once and that sorting them again changes nothing, a
  third induction (the lines of a course are parsed into it one after the other),
  and `SelectSeq` in `Tokenize`, whose definition the prover cannot expand.
* The properties of the six violation runs are false; `ConfirmationHasRecord` is
  proved of `DraftsSolo`.

## 8. Not modelled

`update_draft_items` has no caller; `SlidingWindowLimiter.reset` is called by
tests only. Creating and revoking an API key is one statement each and no
action. Payloads sent to the provider, wording, logs, the mock, templates and
the status snapshot change nothing that is kept. The lists of tasks that the
page does not use, the list of drafts, and images are read-only. The service
worker and the widgets keep copies of answers that the next answer replaces and
nothing is written back from; the scripts of `deploy/` and the demonstration
data are run once by an administrator.
