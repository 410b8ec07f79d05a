------------------------------- MODULE Drafts -------------------------------
(***************************************************************************)
(* The two-stage ingestion of ScheduleKit: an ingest request leaves a row  *)
(* in ingest_drafts, and only a confirm request turns that row into tasks. *)
(*                                                                         *)
(* The server runs handlers on a thread pool (and create_ingest on the     *)
(* event loop).  Each database call opens its own connection, so the unit  *)
(* of atomicity is one SELECT or one BEGIN IMMEDIATE .. COMMIT             *)
(* transaction, never a handler.  A request is therefore a small process:  *)
(* confirm and discard read the row, decide on what they read, write in a  *)
(* transaction that looks at nothing again, and read once more to answer.  *)
(*                                                                         *)
(* Fields that only the properties read (ghosts) are `origin', the ingest  *)
(* request that created a draft row, and `by', the request that inserted a *)
(* task.  They tell a row from a later row under the same id: the ids are  *)
(* plain SQLite rowids, which are reused once the largest is deleted.      *)
(***************************************************************************)
EXTENDS Integers, Sequences, FiniteSets

CONSTANTS
    Req,         \* the requests of a behaviour, each served once
    NoReq,       \* not a request
    Kinds,       \* the kinds of request the clients send
    Entry,       \* what one element of an `items' array can say
    NoEntry,     \* not an entry
    ValidEntry,  \* the entries validate_client_items accepts
    Batches,     \* the `items' arrays clients and the model produce
    TTL,         \* ingest.confirm_ttl_hours, in clock ticks
    MaxDrafts,   \* bound on draft ids
    MaxItems,    \* bound on task ids
    MaxTime      \* bound on the clock

AllKinds == {"ingest", "confirm", "discard", "purge",
             "create_task", "delete_task"}

ASSUME NoReqAssumption == NoReq \notin Req
ASSUME KindsAssumption == Kinds \subseteq AllKinds
ASSUME EntryAssumption == ValidEntry \subseteq Entry /\ NoEntry \notin Entry
ASSUME BatchesAssumption == Batches \subseteq Seq(Entry)
ASSUME BoundsAssumption == MaxDrafts \in Nat /\ MaxItems \in Nat /\ MaxTime \in Nat
ASSUME TTLAssumption == TTL \in Nat \ {0}

VARIABLES
    drafts,  \* the table ingest_drafts, a row for every id ("absent" if none)
    items,   \* the table items, a row for every id
    req,     \* the requests: program counter, locals and answer
    now      \* the server's UTC clock

vars == <<drafts, items, req, now>>

DraftId == 1..MaxDrafts
ItemId  == 1..MaxItems

-----------------------------------------------------------------------------
(* The tables.                                                             *)

Statuses == {"pending", "confirmed", "discarded", "failed"}

NoDraft == [status |-> "absent", origin |-> NoReq, batch |-> <<>>,
            created |-> {}, expires |-> 0]

NoItem == [by |-> NoReq, entry |-> NoEntry]

LiveDrafts == {d \in DraftId : drafts[d].status # "absent"}
LiveItems  == {i \in ItemId : items[i].by # NoReq}

\* SQLite gives a new row of a table without AUTOINCREMENT the largest rowid
\* in use plus one: `last' is that largest rowid, 0 in an empty table.
IsLastRowid(last, live) ==
    /\ \A x \in live : x <= last
    /\ last = 0 \/ last \in live

\* Faulty: the last element is left out.
InsertedIdsButLast(last, batch) == (last + 1)..(last + Len(batch) - 1)

\* The rows one transaction inserts one after the other, `last' before it.
InsertedIds(last, batch) == (last + 1)..(last + Len(batch))

-----------------------------------------------------------------------------
(* The requests.                                                           *)

Idle == [kind |-> "none", pc |-> "idle", draft |-> 0, origin |-> NoReq,
         batch |-> <<>>, ids |-> {}, expires |-> 0, reply |-> "none"]

InFlight == {r \in Req : req[r].pc \notin {"idle", "done"}}

Begins(r, kind) == kind \in Kinds /\ req[r].pc = "idle"

\* r ends with this answer and keeps nothing else of what it read.
Finish(r, kind, reply) ==
    req' = [req EXCEPT ![r] = [Idle EXCEPT !.kind = kind, !.pc = "done",
                                           !.reply = reply]]

AllValid(batch) == \A k \in 1..Len(batch) : batch[k] \in ValidEntry

-----------------------------------------------------------------------------
(* POST /api/ingest.                                                       *)

\* Turned away before anything is stored: rate limit, bad image, bad items,
\* no usable LLM configuration.
IngestRefused(r) ==
    /\ Begins(r, "ingest")
    /\ Finish(r, "ingest", "refused")
    /\ UNCHANGED <<drafts, items, now>>

\* create_draft and create_failed_draft compute expires_at before they open
\* the transaction that inserts the row.
ReadyToInsert(batch, pc) ==
    [Idle EXCEPT !.kind = "ingest", !.pc = pc, !.batch = batch,
                 !.expires = now + TTL]

\* The client sends structured items: no LLM, the draft follows at once.
IngestStructured(r) ==
    /\ Begins(r, "ingest")
    /\ \E b \in Batches :
          /\ b # <<>> /\ AllValid(b)
          /\ req' = [req EXCEPT ![r] = ReadyToInsert(b, "insert_pending")]
    /\ UNCHANGED <<drafts, items, now>>

IngestAsksLLM(r) ==
    /\ Begins(r, "ingest")
    /\ req' = [req EXCEPT ![r] = [Idle EXCEPT !.kind = "ingest", !.pc = "llm"]]
    /\ UNCHANGED <<drafts, items, now>>

\* The extraction returns; what normalize_items lets through is valid, and
\* may be nothing at all.
LLMReturns(r) ==
    /\ req[r].pc = "llm"
    /\ \E b \in Batches :
          /\ AllValid(b)
          /\ req' = [req EXCEPT ![r] = ReadyToInsert(b, "insert_pending")]
    /\ UNCHANGED <<drafts, items, now>>

LLMFails(r) ==
    /\ req[r].pc = "llm"
    /\ req' = [req EXCEPT ![r] = ReadyToInsert(<<>>, "insert_failed")]
    /\ UNCHANGED <<drafts, items, now>>

\* Faulty: the answer names the largest id before the insertion.
InsertDraftAnswersLast(r) ==
    /\ req[r].pc \in {"insert_pending", "insert_failed"}
    /\ \E last \in 0..(MaxDrafts - 1) :
          /\ IsLastRowid(last, LiveDrafts)
          /\ drafts' = [drafts EXCEPT ![last + 1] =
                [status |-> "pending", origin |-> r, batch |-> req[r].batch,
                 created |-> {}, expires |-> req[r].expires]]
          /\ req' = [req EXCEPT ![r].pc = "done", ![r].draft = last]
    /\ UNCHANGED <<items, now>>

InsertDraft(r) ==
    /\ req[r].pc \in {"insert_pending", "insert_failed"}
    /\ \E last \in 0..(MaxDrafts - 1) :
          /\ IsLastRowid(last, LiveDrafts)
          /\ drafts' = [drafts EXCEPT ![last + 1] =
                [status  |-> IF req[r].pc = "insert_failed" THEN "failed"
                                                            ELSE "pending",
                 origin  |-> r,
                 batch   |-> req[r].batch,
                 created |-> {},
                 expires |-> req[r].expires]]
          /\ req' = [req EXCEPT ![r] =
                [Idle EXCEPT !.kind = "ingest", !.pc = "done", !.draft = last + 1,
                             !.reply = IF req[r].pc = "insert_failed" THEN "502"
                                                                      ELSE "201"]]
    /\ UNCHANGED <<items, now>>

-----------------------------------------------------------------------------
(* POST /api/ingest/{draft_id}/confirm and /discard.                       *)

\* Faulty: only discarded and failed drafts are refused.
VerdictConfirmsAgain(row, final) ==
    CASE row.status = "absent"                     -> "404"
      [] row.status \in {"discarded", "failed"}    -> "409"
      [] OTHER -> IF final = <<>> \/ ~AllValid(final) THEN "422" ELSE "none"

\* What confirm_draft decides on the row it read and on the items it is to
\* insert (the client's, or else the draft's own); "none" lets it go on.
ConfirmVerdict(row, final) ==
    CASE row.status = "absent"               -> "404"
      [] row.status \notin {"absent", "pending"} -> "409"
      [] row.status = "pending" /\ (final = <<>> \/ ~AllValid(final)) -> "422"
      [] OTHER                               -> "none"

\* Faulty: discarding looks only whether the row is there.
DiscardVerdictAnyStatus(row) == IF row.status = "absent" THEN "404" ELSE "none"

DiscardVerdict(row) ==
    CASE row.status = "absent"                   -> "404"
      [] row.status \notin {"absent", "pending"} -> "409"
      [] OTHER                                   -> "none"

\* A request past its checks: what it read of the row is all it will know.
ReadyToWrite(kind, d, batch) ==
    [Idle EXCEPT !.kind = kind, !.pc = "write", !.draft = d,
                 !.origin = drafts[d].origin, !.batch = batch]

ConfirmRead(r) ==
    /\ Begins(r, "confirm")
    /\ \E d \in DraftId : \E final \in Batches \cup {drafts[d].batch} :
          LET verdict == ConfirmVerdict(drafts[d], final) IN
          IF verdict = "none"
          THEN req' = [req EXCEPT ![r] = ReadyToWrite("confirm", d, final)]
          ELSE Finish(r, "confirm", verdict)
    /\ UNCHANGED <<drafts, items, now>>

\* Faulty: the status is not set.
ConfirmedRowStillPending(row, batch, ids) ==
    IF row.status = "absent" THEN row
    ELSE [row EXCEPT !.batch = batch, !.created = ids]

\* Faulty: the items the client edited are inserted, but not kept as the
\* draft's own.
ConfirmedRowKeepsDraft(row, batch, ids) ==
    IF row.status = "absent" THEN row
    ELSE [row EXCEPT !.status = "confirmed", !.created = ids]

\* The row as the confirming transaction leaves it.  The UPDATE is by id
\* alone: no row, no effect; any row, whatever its status, is overwritten.
ConfirmedRow(row, batch, ids) ==
    IF row.status = "absent" THEN row
    ELSE [row EXCEPT !.status = "confirmed", !.batch = batch, !.created = ids]

ConfirmWrite(r) ==
    /\ req[r].kind = "confirm" /\ req[r].pc = "write"
    /\ \E last \in 0..MaxItems :
          LET ids == InsertedIds(last, req[r].batch) IN
          /\ IsLastRowid(last, LiveItems)
          /\ last + Len(req[r].batch) <= MaxItems
          /\ items' = [i \in ItemId |->
                IF i \in ids THEN [by |-> r, entry |-> req[r].batch[i - last]]
                             ELSE items[i]]
          /\ drafts' = [drafts EXCEPT ![req[r].draft] =
                ConfirmedRow(@, req[r].batch, ids)]
          /\ req' = [req EXCEPT ![r].pc = "reread", ![r].ids = ids]
    /\ UNCHANGED now

DiscardRead(r) ==
    /\ Begins(r, "discard")
    /\ \E d \in DraftId :
          LET verdict == DiscardVerdict(drafts[d]) IN
          IF verdict = "none"
          THEN req' = [req EXCEPT ![r] = ReadyToWrite("discard", d, <<>>)]
          ELSE Finish(r, "discard", verdict)
    /\ UNCHANGED <<drafts, items, now>>

DiscardedRow(row) ==
    IF row.status = "absent" THEN row ELSE [row EXCEPT !.status = "discarded"]

DiscardWrite(r) ==
    /\ req[r].kind = "discard" /\ req[r].pc = "write"
    /\ drafts' = [drafts EXCEPT ![req[r].draft] = DiscardedRow(@)]
    /\ req' = [req EXCEPT ![r].pc = "reread"]
    /\ UNCHANGED <<items, now>>

\* Faulty: the second read goes through the check for pending drafts.
AnswerOnlyPending(r) ==
    /\ req[r].pc = "reread"
    /\ req' = [req EXCEPT ![r].pc = "done",
          ![r].reply = IF drafts[req[r].draft].status # "pending" THEN "409"
                                                                  ELSE "200"]
    /\ UNCHANGED <<drafts, items, now>>

\* Both handlers read the row again for the response body, on a connection of
\* its own: they fail if the row has gone in between, and the read itself may
\* raise.  What is committed stays.
Answer(r) ==
    /\ req[r].pc = "reread"
    /\ \E reply \in {"200", "500"} :
          /\ drafts[req[r].draft].status = "absent" => reply = "500"
          /\ req' = [req EXCEPT ![r].pc = "done", ![r].reply = reply]
    /\ UNCHANGED <<drafts, items, now>>

-----------------------------------------------------------------------------
(* Removal: POST /api/ingest/purge and the hourly sweep.                   *)

Purge(r) ==
    /\ Begins(r, "purge")
    /\ \E wanted \in SUBSET DraftId \ {{}} :
          drafts' = [d \in DraftId |-> IF d \in wanted THEN NoDraft ELSE drafts[d]]
    /\ Finish(r, "purge", "200")
    /\ UNCHANGED <<items, now>>

\* Faulty: every old draft goes, confirmed or not.
ExpiredWhateverStatus(row) == row.status # "absent" /\ row.expires < now

\* Faulty: discarded and failed drafts are forgotten.
ExpiredPendingOnly(row) == row.status = "pending" /\ row.expires < now

Expired(row) ==
    /\ row.status \in {"pending", "discarded", "failed"}
    /\ row.expires < now

CleanupExpired ==
    /\ drafts' = [d \in DraftId |-> IF Expired(drafts[d]) THEN NoDraft ELSE drafts[d]]
    /\ UNCHANGED <<items, req, now>>

-----------------------------------------------------------------------------
(* The task endpoints, as far as they share the items table.               *)

CreateTask(r) ==
    /\ Begins(r, "create_task")
    /\ \E last \in 0..(MaxItems - 1), e \in ValidEntry :
          /\ IsLastRowid(last, LiveItems)
          /\ items' = [items EXCEPT ![last + 1] = [by |-> r, entry |-> e]]
    /\ Finish(r, "create_task", "201")
    /\ UNCHANGED <<drafts, now>>

DeleteTask(r) ==
    /\ Begins(r, "delete_task")
    /\ \E i \in ItemId :
          /\ items' = [items EXCEPT ![i] = NoItem]
          /\ Finish(r, "delete_task", IF items[i].by = NoReq THEN "404" ELSE "204")
    /\ UNCHANGED <<drafts, now>>

-----------------------------------------------------------------------------
(* What may happen to a request, and the environment.                      *)

\* The handler raises and has done nothing: a transaction that cannot get the
\* write lock within busy_timeout, or fails on the way, is rolled back; and
\* an extraction may end with an exception that is no LLMError (see Extract).
\* An exception after the commit is one of Answer's.
HandlerRaises(r) ==
    /\ req[r].pc \in {"llm", "insert_pending", "insert_failed", "write"}
    /\ Finish(r, req[r].kind, "500")
    /\ UNCHANGED <<drafts, items, now>>

\* The process stops and starts again: committed rows stay, the requests in
\* flight are never answered.
Restart ==
    /\ InFlight # {}
    /\ req' = [r \in Req |-> IF r \in InFlight
                             THEN [req[r] EXCEPT !.pc = "done", !.reply = "lost"]
                             ELSE req[r]]
    /\ UNCHANGED <<drafts, items, now>>

Tick ==
    /\ now < MaxTime
    /\ now' = now + 1
    /\ UNCHANGED <<drafts, items, req>>

-----------------------------------------------------------------------------
Init ==
    /\ drafts = [d \in DraftId |-> NoDraft]
    /\ items = [i \in ItemId |-> NoItem]
    /\ req = [r \in Req |-> Idle]
    /\ now = 0

Serve(r) ==
    \/ IngestRefused(r) \/ IngestStructured(r) \/ IngestAsksLLM(r)
    \/ LLMReturns(r) \/ LLMFails(r) \/ InsertDraft(r)
    \/ ConfirmRead(r) \/ ConfirmWrite(r)
    \/ DiscardRead(r) \/ DiscardWrite(r)
    \/ Answer(r)
    \/ Purge(r)
    \/ CreateTask(r) \/ DeleteTask(r)
    \/ HandlerRaises(r)

Next ==
    \/ \E r \in Req : Serve(r)
    \/ CleanupExpired
    \/ Restart
    \/ Tick

Spec == Init /\ [][Next]_vars

\* The sweep runs every hour for as long as the process lives, and survives
\* its own failures; the clock does not stop.
FairSpec == Spec /\ WF_vars(CleanupExpired) /\ WF_vars(Tick)

-----------------------------------------------------------------------------
(* Properties that hold under every interleaving.                          *)

\* A row that is there was created by an ingestion.
DraftRow ==
    {row \in [status : Statuses \cup {"absent"}, origin : Req \cup {NoReq},
              batch : Seq(Entry), created : SUBSET ItemId, expires : Nat] :
        row.status # "absent" => row.origin \in Req}

ItemRow == [by : Req \cup {NoReq}, entry : Entry \cup {NoEntry}]

PCs == {"idle", "llm", "insert_pending", "insert_failed", "write", "reread", "done"}

Replies == {"none", "refused", "lost", "200", "201", "204", "404", "409", "422",
            "500", "502"}

\* A request that still has to touch its draft row knows which row, and whose
\* it was when it looked.
Request ==
    {q \in [kind : AllKinds \cup {"none"}, pc : PCs, draft : 0..MaxDrafts,
            origin : Req \cup {NoReq}, batch : Seq(Entry), ids : SUBSET ItemId,
            expires : Nat, reply : Replies] :
        q.pc \in {"write", "reread"} =>
            /\ q.draft \in DraftId
            /\ q.origin \in Req
            /\ q.kind \in {"confirm", "discard"}}

\* The tables hold rows, the requests are requests, the clock counts.
TypeOK ==
    /\ drafts \in [DraftId -> DraftRow]
    /\ items \in [ItemId -> ItemRow]
    /\ req \in [Req -> Request]
    /\ now \in Nat

\* A draft row stands under the id its ingestion was answered with, and a
\* request past its checks remembers that same id and the ingestion whose row
\* it saw, although by now another ingestion's row may stand there.
RowsKnowTheirIngestion ==
    /\ \A d \in DraftId : drafts[d].status # "absent" =>
          /\ drafts[d].origin \in Req
          /\ req[drafts[d].origin].kind = "ingest"
          /\ req[drafts[d].origin].pc = "done"
          /\ req[drafts[d].origin].draft = d
    /\ \A r \in Req : req[r].origin # NoReq =>
          /\ req[r].origin \in Req
          /\ req[r].kind \in {"confirm", "discard"}
          /\ req[req[r].origin].kind = "ingest"
          /\ req[req[r].origin].pc = "done"
          /\ req[req[r].origin].draft = req[r].draft

\* The confirm requests that turned the draft of ingest request u into tasks.
ConfirmsOf(u) ==
    {r \in Req : req[r].kind = "confirm" /\ req[r].origin = u /\ req[r].ids # {}}

\* "Zero writes to items in the draft stage": as long as a draft waits for
\* its confirmation, or failed, no request has inserted tasks from it,
\* however confirm, discard, purge and the reuse of ids interleave.
UnconfirmedWritesNothing ==
    \A d \in DraftId : drafts[d].status \in {"pending", "failed"} =>
        ConfirmsOf(drafts[d].origin) = {}

\* A confirmation inserts the whole reviewed list or nothing, every element
\* valid, under ids of its own; the tasks of it that are still there say
\* what was reviewed (confirm_draft's single transaction).
ConfirmIsAllOrNothing ==
    \A r \in Req : req[r].kind = "confirm" =>
        /\ req[r].ids # {} =>
              /\ AllValid(req[r].batch)
              /\ \E last \in 0..MaxItems :
                    /\ req[r].ids = (last + 1)..(last + Len(req[r].batch))
                    /\ \A i \in req[r].ids : items[i].by = r =>
                          items[i].entry = req[r].batch[i - last]
        /\ \A i \in ItemId : items[i].by = r => i \in req[r].ids

\* The record a confirmed draft keeps (draft_json and created_item_ids) is
\* the one of a single confirmation, never a mixture of two.
RecordIsOneConfirm ==
    \A d \in DraftId : drafts[d].status = "confirmed" =>
        \E r \in Req : /\ req[r].kind = "confirm" /\ req[r].ids # {}
                        /\ drafts[d].created = req[r].ids
                        /\ drafts[d].batch = req[r].batch

\* A confirm request that begins after a confirmation of the same draft has
\* committed is turned away: retrying after a lost answer never inserts the
\* tasks twice.  (Two requests that overlap are another matter, see
\* ConfirmedOnce.)
LateConfirmRejected ==
    [][\A r \in Req : req[r].pc = "idle" /\ req'[r].kind = "confirm"
                                         /\ req'[r].pc = "write"
          => ConfirmsOf(req'[r].origin) = {}]_vars

\* The sweep, the restart and the other requests leave a confirmed draft
\* alone: its row goes only when a purge names it, and is never overwritten
\* by a later ingestion.
ConfirmedKeptUntilPurged ==
    [][\A d \in DraftId : drafts[d].status = "confirmed"
                          /\ drafts'[d].origin # drafts[d].origin
          => \E r \in Req : req[r].pc = "idle" /\ req'[r].kind = "purge"]_vars

\* A draft that is not confirmed and that the bounded clock can outlive.
HasUnconfirmedDraft(u) ==
    \E d \in DraftId : /\ drafts[d].origin = u
                       /\ drafts[d].status \in {"pending", "discarded", "failed"}
                       /\ drafts[d].expires < MaxTime

\* What was ingested and is not confirmed does not stay for ever: the sweep
\* takes it once its time is over.
UnconfirmedDraftsExpire == \A u \in Req : HasUnconfirmedDraft(u) ~> ~HasUnconfirmedDraft(u)

-----------------------------------------------------------------------------
(* What the documents say and the interleavings of this module refute.     *)

\* "Confirming twice: 409, and the tasks are created once" (PLAN.md, and the
\* docstring of confirm_draft).
ConfirmedOnce == \A u \in Req : Cardinality(ConfirmsOf(u)) <= 1

\* "A confirmed draft is never cleaned up automatically; it is the only
\* record of what was recognised and which tasks came of it" (docs/api.md):
\* while nothing is purged, a confirmation that was written has its row.  The
\* sweep, or a discard, between the read and the write of the confirmation
\* refutes it; with one decision at a time it holds (DraftsSolo).
ConfirmationHasRecord ==
    (\A r \in Req : req[r].kind # "purge") =>
        \A q \in Req : req[q].kind = "confirm" /\ req[q].ids # {} =>
            drafts[req[q].draft].status = "confirmed"
=============================================================================
