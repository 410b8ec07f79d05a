---------------------------- MODULE DraftsProofs ----------------------------
(***************************************************************************)
(* Proofs about Drafts, and about DraftsSolo, in which one request decides *)
(* at a time, for every set of requests, entries and batches and every     *)
(* bound.                                                                  *)
(***************************************************************************)
EXTENDS DraftsSolo, FiniteSetTheorems, TLAPS

-----------------------------------------------------------------------------
(* Types of the records the actions build.                                 *)

\* The record of a request that has not begun is a request.
LEMMA IdleType == Idle \in Request
  BY BoundsAssumption DEF Idle, Request, AllKinds, PCs, Replies

\* What stands for a row that is not there is a row too.
LEMMA AbsentTypes == NoDraft \in DraftRow /\ NoItem \in ItemRow
  BY DEF NoDraft, DraftRow, NoItem, ItemRow

\* The record a request ends with when it keeps nothing of what it read.
LEMMA FinishedType ==
  ASSUME NEW kind \in AllKinds, NEW reply \in Replies
  PROVE  [Idle EXCEPT !.kind = kind, !.pc = "done", !.reply = reply] \in Request
  BY IdleType DEF Idle, Request, PCs

\* Finishing leaves the table of requests well typed.
LEMMA FinishType ==
  ASSUME TypeOK, NEW r \in Req, NEW kind \in AllKinds, NEW reply \in Replies,
         Finish(r, kind, reply)
  PROVE  req' \in [Req -> Request]
  BY FinishedType DEF Finish, TypeOK

\* The record of an ingestion that is about to insert its draft.
LEMMA ReadyToInsertType ==
  ASSUME TypeOK, NEW batch \in Seq(Entry),
         NEW at \in {"insert_pending", "insert_failed"}
  PROVE  ReadyToInsert(batch, at) \in Request
<1> DEFINE expires == now + TTL
<1>1. expires \in Nat
  BY TTLAssumption DEF TypeOK
<1>2. ReadyToInsert(batch, at) =
         [Idle EXCEPT !.kind = "ingest", !.pc = at, !.batch = batch,
                      !.expires = expires]
  BY DEF ReadyToInsert
<1> HIDE DEF expires
<1> QED
  BY <1>1, <1>2, IdleType DEF Request, PCs, AllKinds

\* The record of a confirm or discard that has passed its checks.
LEMMA ReadyToWriteType ==
  ASSUME NEW kind \in {"confirm", "discard"}, NEW d \in DraftId,
         drafts[d].origin \in Req, NEW batch \in Seq(Entry)
  PROVE  ReadyToWrite(kind, d, batch) \in Request
<1>1. d \in 0..MaxDrafts
  BY BoundsAssumption DEF DraftId
<1> QED
  BY <1>1 DEF ReadyToWrite, Idle, Request, PCs, AllKinds, Replies

\* The row the confirming transaction leaves is a draft row.
LEMMA ConfirmedRowType ==
  ASSUME NEW row \in DraftRow, NEW batch \in Seq(Entry), NEW ids \in SUBSET ItemId
  PROVE  ConfirmedRow(row, batch, ids) \in DraftRow
  BY DEF ConfirmedRow, DraftRow, Statuses

\* So is the row the discarding transaction leaves.
LEMMA DiscardedRowType ==
  ASSUME NEW row \in DraftRow
  PROVE  DiscardedRow(row) \in DraftRow
  BY DEF DiscardedRow, DraftRow, Statuses

\* The ids one transaction gives out are item ids, as many as the list is long.
LEMMA InsertedIdsType ==
  ASSUME NEW batch \in Seq(Entry), NEW last \in 0..MaxItems,
         last + Len(batch) <= MaxItems
  PROVE  /\ InsertedIds(last, batch) \subseteq ItemId
         /\ \A i \in InsertedIds(last, batch) : i - last \in 1..Len(batch)
  BY BoundsAssumption DEF InsertedIds, ItemId

-----------------------------------------------------------------------------
(* Type correctness.                                                       *)

\* The empty database and idle requests are well typed.
LEMMA InitType == Init => TypeOK
  BY IdleType, AbsentTypes DEF Init, TypeOK

\* The steps of an ingestion keep the types.
LEMMA IngestType ==
  ASSUME TypeOK, NEW r \in Req
  PROVE  /\ IngestRefused(r) => TypeOK'
         /\ IngestStructured(r) => TypeOK'
         /\ IngestAsksLLM(r) => TypeOK'
         /\ LLMReturns(r) => TypeOK'
         /\ LLMFails(r) => TypeOK'
         /\ InsertDraft(r) => TypeOK'
<1>1. ASSUME IngestRefused(r) PROVE TypeOK'
  BY <1>1, FinishType DEF IngestRefused, TypeOK, AllKinds, Replies
<1>2. ASSUME NEW b \in Batches,
             req' = [req EXCEPT ![r] = ReadyToInsert(b, "insert_pending")]
      PROVE  req' \in [Req -> Request]
  BY <1>2, ReadyToInsertType, BatchesAssumption DEF TypeOK
<1>3. ASSUME IngestStructured(r) PROVE TypeOK'
  BY <1>2, <1>3 DEF IngestStructured, TypeOK
<1>4. ASSUME IngestAsksLLM(r) PROVE TypeOK'
  <2>1. [Idle EXCEPT !.kind = "ingest", !.pc = "llm"] \in Request
    BY IdleType DEF Request, PCs, AllKinds
  <2> QED
    BY <1>4, <2>1 DEF IngestAsksLLM, TypeOK
<1>5. ASSUME LLMReturns(r) PROVE TypeOK'
  BY <1>2, <1>5 DEF LLMReturns, TypeOK
<1>6. ASSUME LLMFails(r) PROVE TypeOK'
  <2>1. <<>> \in Seq(Entry)
    OBVIOUS
  <2> QED
    BY <1>6, <2>1, ReadyToInsertType DEF LLMFails, TypeOK
<1>7. ASSUME InsertDraft(r) PROVE TypeOK'
  <2>1. PICK last \in 0..(MaxDrafts - 1) : InsertDraft(r)!2!(last)
    BY <1>7 DEF InsertDraft
  <2>2. last + 1 \in DraftId /\ last + 1 \in 0..MaxDrafts
    BY BoundsAssumption DEF DraftId
  <2>3. req[r] \in Request
    BY DEF TypeOK
  <2>4. drafts' \in [DraftId -> DraftRow]
    BY <2>1, <2>2, <2>3 DEF DraftRow, TypeOK, Statuses, Request
  <2>5. req' \in [Req -> Request]
    <3> DEFINE reply == IF req[r].pc = "insert_failed" THEN "502" ELSE "201"
               q == [Idle EXCEPT !.kind = "ingest", !.pc = "done",
                                 !.draft = last + 1, !.reply = reply]
    <3>1. reply \in Replies
      BY DEF Replies
    <3>2. q \in Request
      <4> HIDE DEF reply
      <4> QED
        BY <2>2, <3>1, IdleType DEF Request, PCs, AllKinds
    <3>3. req' = [req EXCEPT ![r] = q]
      BY <2>1
    <3> QED
      BY <3>2, <3>3 DEF TypeOK
  <2> QED
    BY <1>7, <2>4, <2>5 DEF InsertDraft, TypeOK
<1> QED
  BY <1>1, <1>3, <1>4, <1>5, <1>6, <1>7

\* So do the reads of confirm and discard, whatever they decide.
LEMMA DecideType ==
  ASSUME TypeOK, NEW r \in Req
  PROVE  /\ ConfirmRead(r) => TypeOK'
         /\ DiscardRead(r) => TypeOK'
<1>1. ASSUME ConfirmRead(r) PROVE TypeOK'
  <2>0. PICK d \in DraftId : \E final \in Batches \cup {drafts[d].batch} :
           IF ConfirmVerdict(drafts[d], final) = "none"
           THEN req' = [req EXCEPT ![r] = ReadyToWrite("confirm", d, final)]
           ELSE Finish(r, "confirm", ConfirmVerdict(drafts[d], final))
    BY <1>1 DEF ConfirmRead
  <2>1. PICK final \in Batches \cup {drafts[d].batch} :
           IF ConfirmVerdict(drafts[d], final) = "none"
           THEN req' = [req EXCEPT ![r] = ReadyToWrite("confirm", d, final)]
           ELSE Finish(r, "confirm", ConfirmVerdict(drafts[d], final))
    BY <2>0
  <2>2. final \in Seq(Entry)
    BY BatchesAssumption DEF TypeOK, DraftRow
  <2>3. CASE ConfirmVerdict(drafts[d], final) = "none"
    <3>1. drafts[d].origin \in Req
      BY <2>3 DEF ConfirmVerdict, TypeOK, DraftRow
    <3> QED
      BY <1>1, <2>1, <2>2, <2>3, <3>1, ReadyToWriteType DEF ConfirmRead, TypeOK
  <2>4. CASE ConfirmVerdict(drafts[d], final) # "none"
    <3>1. ConfirmVerdict(drafts[d], final) \in Replies
      BY <2>4 DEF ConfirmVerdict, Replies
    <3> QED
      BY <1>1, <2>1, <2>4, <3>1, FinishType DEF ConfirmRead, TypeOK, AllKinds
  <2> QED
    BY <2>3, <2>4
<1>2. ASSUME DiscardRead(r) PROVE TypeOK'
  <2>1. PICK d \in DraftId : DiscardRead(r)!2!(d)
    BY <1>2 DEF DiscardRead
  <2>2. CASE DiscardVerdict(drafts[d]) = "none"
    <3>1. drafts[d].origin \in Req
      BY <2>2 DEF DiscardVerdict, TypeOK, DraftRow
    <3>2. <<>> \in Seq(Entry)
      OBVIOUS
    <3> QED
      BY <1>2, <2>1, <2>2, <3>1, <3>2, ReadyToWriteType DEF DiscardRead, TypeOK
  <2>3. CASE DiscardVerdict(drafts[d]) # "none"
    <3>1. DiscardVerdict(drafts[d]) \in Replies
      BY <2>3 DEF DiscardVerdict, Replies
    <3> QED
      BY <1>2, <2>1, <2>3, <3>1, FinishType DEF DiscardRead, TypeOK, AllKinds
  <2> QED
    BY <2>2, <2>3
<1> QED
  BY <1>1, <1>2

\* So do their transactions, their answers and a failed transaction.
LEMMA WriteType ==
  ASSUME TypeOK, NEW r \in Req
  PROVE  /\ ConfirmWrite(r) => TypeOK'
         /\ DiscardWrite(r) => TypeOK'
         /\ Answer(r) => TypeOK'
         /\ HandlerRaises(r) => TypeOK'
<1>0. req[r] \in Request
  BY DEF TypeOK
<1>1. ASSUME ConfirmWrite(r) PROVE TypeOK'
  <2>1. PICK last \in 0..MaxItems : ConfirmWrite(r)!2!(last)
    BY <1>1 DEF ConfirmWrite
  <2> DEFINE ids == InsertedIds(last, req[r].batch)
  <2>2. req[r].draft \in DraftId /\ req[r].batch \in Seq(Entry)
    BY <1>0, <1>1 DEF ConfirmWrite, Request
  <2>3. /\ ids \subseteq ItemId
        /\ \A i \in ids : i - last \in 1..Len(req[r].batch)
    BY <2>1, <2>2, InsertedIdsType
  <2>4. items' \in [ItemId -> ItemRow]
    <3>1. \A i \in ids : req[r].batch[i - last] \in Entry
      BY <2>2, <2>3
    <3> QED
      BY <2>1, <3>1 DEF TypeOK, ItemRow
  <2>5. drafts' \in [DraftId -> DraftRow]
    BY <2>1, <2>2, <2>3, ConfirmedRowType DEF TypeOK
  <2>6. req' \in [Req -> Request]
    BY <1>0, <1>1, <2>1, <2>3 DEF ConfirmWrite, TypeOK, Request, PCs
  <2> QED
    BY <1>1, <2>4, <2>5, <2>6 DEF ConfirmWrite, TypeOK
<1>2. ASSUME DiscardWrite(r) PROVE TypeOK'
  <2>1. req[r].draft \in DraftId
    BY <1>0, <1>2 DEF DiscardWrite, Request
  <2>2. drafts' \in [DraftId -> DraftRow]
    BY <1>2, <2>1, DiscardedRowType DEF DiscardWrite, TypeOK
  <2>3. req' \in [Req -> Request]
    BY <1>0, <1>2 DEF DiscardWrite, TypeOK, Request, PCs
  <2> QED
    BY <1>2, <2>2, <2>3 DEF DiscardWrite, TypeOK
<1>3. ASSUME Answer(r) PROVE TypeOK'
  <2>1. PICK reply \in {"200", "500"} :
           req' = [req EXCEPT ![r].pc = "done", ![r].reply = reply]
    BY <1>3 DEF Answer
  <2>2. req' \in [Req -> Request]
    <3>1. [req[r] EXCEPT !.pc = "done", !.reply = reply] \in Request
      BY <1>0 DEF Request, PCs, Replies
    <3>2. req' = [req EXCEPT ![r] = [req[r] EXCEPT !.pc = "done", !.reply = reply]]
      BY <2>1 DEF TypeOK
    <3> QED
      BY <3>1, <3>2 DEF TypeOK
  <2> QED
    BY <1>3, <2>2 DEF Answer, TypeOK
<1>4. ASSUME HandlerRaises(r) PROVE TypeOK'
  <2>1. CASE req[r].kind \in AllKinds
    BY <1>4, <2>1, FinishType DEF HandlerRaises, TypeOK, Replies
  <2>2. CASE req[r].kind = "none"
    <3>1. [Idle EXCEPT !.kind = "none", !.pc = "done", !.reply = "500"] \in Request
      BY IdleType DEF Request, PCs, Replies
    <3> QED
      BY <1>4, <2>2, <3>1 DEF HandlerRaises, Finish, TypeOK
  <2> QED
    BY <1>0, <2>1, <2>2 DEF Request
<1> QED
  BY <1>1, <1>2, <1>3, <1>4

\* So do purge, the task endpoints, the sweep, a restart and the clock.
LEMMA OtherType ==
  ASSUME TypeOK
  PROVE  /\ \A r \in Req : Purge(r) \/ CreateTask(r) \/ DeleteTask(r) => TypeOK'
         /\ CleanupExpired \/ Restart \/ Tick => TypeOK'
         /\ UNCHANGED vars => TypeOK'
<1>1. ASSUME NEW r \in Req, Purge(r) PROVE TypeOK'
  BY <1>1, FinishType, AbsentTypes DEF Purge, TypeOK, AllKinds, Replies
<1>2. ASSUME NEW r \in Req, CreateTask(r) PROVE TypeOK'
  <2>1. items' \in [ItemId -> ItemRow]
    <3>1. PICK last \in 0..(MaxItems - 1), e \in ValidEntry :
             items' = [items EXCEPT ![last + 1] = [by |-> r, entry |-> e]]
      BY <1>2 DEF CreateTask
    <3>2. [by |-> r, entry |-> e] \in ItemRow
      BY EntryAssumption DEF ItemRow
    <3> QED
      BY <3>1, <3>2 DEF TypeOK
  <2> QED
    BY <1>2, <2>1, FinishType DEF CreateTask, TypeOK, AllKinds, Replies
<1>3. ASSUME NEW r \in Req, DeleteTask(r) PROVE TypeOK'
  <2>1. items' \in [ItemId -> ItemRow]
    BY <1>3, AbsentTypes DEF DeleteTask, TypeOK
  <2> QED
    BY <1>3, <2>1, FinishType DEF DeleteTask, TypeOK, AllKinds, Replies
<1>4. ASSUME CleanupExpired PROVE TypeOK'
  BY <1>4, AbsentTypes DEF CleanupExpired, TypeOK
<1>5. ASSUME Restart PROVE TypeOK'
  <2>1. ASSUME NEW q \in Request
        PROVE  [q EXCEPT !.pc = "done", !.reply = "lost"] \in Request
    BY DEF Request, PCs, Replies
  <2> QED
    BY <1>5, <2>1 DEF Restart, TypeOK
<1>6. ASSUME Tick PROVE TypeOK'
  BY <1>6 DEF Tick, TypeOK
<1>7. ASSUME UNCHANGED vars PROVE TypeOK'
  BY <1>7 DEF vars, TypeOK
<1> QED
  BY <1>1, <1>2, <1>3, <1>4, <1>5, <1>6, <1>7

\* Type correctness is inductive.
LEMMA NextType == TypeOK /\ [Next]_vars => TypeOK'
  BY IngestType, DecideType, WriteType, OtherType DEF Next, Serve

\* The tables, the requests and the clock stay well typed: in particular a
\* request past its checks always knows the row it decided on.
THEOREM TypeCorrect == Spec => []TypeOK
  BY InitType, NextType, PTL DEF Spec

-----------------------------------------------------------------------------
(* Which draft a request is about.                                         *)

DraftInv == TypeOK /\ RowsKnowTheirIngestion /\ UnconfirmedWritesNothing

\* An answered request is never touched again.
DoneForever == \A q \in Req : req[q].pc = "done" => req'[q] = req[q]

\* No row appears, none changes its ingestion, none goes back to waiting.
RowsOnlySettle ==
    \A d \in DraftId :
        /\ drafts'[d].status # "absent" =>
              drafts[d].status # "absent" /\ drafts'[d].origin = drafts[d].origin
        /\ drafts'[d].status \in {"pending", "failed"} =>
              drafts[d].status \in {"pending", "failed"}

\* No request inserts tasks; one that comes to know a draft has just seen it.
NothingInserted ==
    \A q \in Req :
        /\ req'[q].ids # {} => /\ req'[q].ids = req[q].ids
                               /\ req'[q].kind = req[q].kind
                               /\ req'[q].origin = req[q].origin
        /\ req'[q].origin # NoReq =>
              \/ /\ req'[q].origin = req[q].origin
                 /\ req'[q].draft = req[q].draft
                 /\ req'[q].kind = req[q].kind
              \/ /\ req'[q].draft \in DraftId
                 /\ drafts[req'[q].draft].status # "absent"
                 /\ req'[q].origin = drafts[req'[q].draft].origin
                 /\ req'[q].kind \in {"confirm", "discard"}

\* A step that inserts no draft row and no tasks keeps the invariant.
LEMMA QuietStep ==
  ASSUME DraftInv, TypeOK', DoneForever, RowsOnlySettle, NothingInserted
  PROVE  DraftInv'
<1>1. RowsKnowTheirIngestion'
  <2>1. ASSUME NEW d \in DraftId, drafts'[d].status # "absent"
        PROVE  /\ drafts'[d].origin \in Req
               /\ req'[drafts'[d].origin].kind = "ingest"
               /\ req'[drafts'[d].origin].pc = "done"
               /\ req'[drafts'[d].origin].draft = d
    BY <2>1 DEF DraftInv, RowsKnowTheirIngestion, DoneForever, RowsOnlySettle
  <2>2. ASSUME NEW q \in Req, req'[q].origin # NoReq
        PROVE  /\ req'[q].origin \in Req
               /\ req'[q].kind \in {"confirm", "discard"}
               /\ req'[req'[q].origin].kind = "ingest"
               /\ req'[req'[q].origin].pc = "done"
               /\ req'[req'[q].origin].draft = req'[q].draft
    BY <2>2 DEF DraftInv, RowsKnowTheirIngestion, DoneForever, NothingInserted
  <2> QED
    BY <2>1, <2>2 DEF RowsKnowTheirIngestion
<1>2. UnconfirmedWritesNothing'
  <2> SUFFICES ASSUME NEW d \in DraftId, drafts'[d].status \in {"pending", "failed"},
                      NEW q \in Req, req'[q].kind = "confirm",
                      req'[q].origin = drafts'[d].origin, req'[q].ids # {}
               PROVE  FALSE
    BY DEF UnconfirmedWritesNothing, ConfirmsOf
  <2>1. /\ drafts[d].status \in {"pending", "failed"}
        /\ drafts'[d].origin = drafts[d].origin
    BY DEF RowsOnlySettle
  <2>2. q \in ConfirmsOf(drafts[d].origin)
    BY <2>1 DEF NothingInserted, ConfirmsOf
  <2> QED
    BY <2>1, <2>2 DEF DraftInv, UnconfirmedWritesNothing
<1> QED
  BY <1>1, <1>2 DEF DraftInv

\* A request is served alone.
LEMMA OthersWait ==
  ASSUME TypeOK, NEW r \in Req, Serve(r)
  PROVE  \A q \in Req : q # r => req'[q] = req[q]
  BY DEF Serve, Finish, IngestRefused, IngestStructured, IngestAsksLLM,
         LLMReturns, LLMFails, InsertDraft, ConfirmRead, ConfirmWrite,
         DiscardRead, DiscardWrite, Answer, Purge, CreateTask, DeleteTask,
         HandlerRaises, TypeOK

\* The sweep, a restart and the clock cut a request off or leave it alone.
LEMMA CutOff ==
  ASSUME TypeOK, CleanupExpired \/ Restart \/ Tick \/ UNCHANGED vars, NEW r \in Req
  PROVE  /\ req'[r].kind = req[r].kind /\ req'[r].ids = req[r].ids
         /\ req'[r].batch = req[r].batch
         /\ req'[r].pc = "done" \/ req'[r] = req[r]
<1>1. req[r] \in Request
  BY DEF TypeOK
<1>2. CASE CleanupExpired \/ Tick \/ UNCHANGED vars
  BY <1>2 DEF CleanupExpired, Tick, vars
<1>3. CASE Restart
  <2>1. \/ req'[r] = req[r]
        \/ req'[r] = [req[r] EXCEPT !.pc = "done", !.reply = "lost"]
    BY <1>3 DEF Restart
  <2> QED
    BY <1>1, <2>1 DEF Request
<1> QED
  BY <1>2, <1>3

\* Requests that are served once: a step never serves an answered one.
LEMMA ServedOnce ==
  ASSUME TypeOK, [Next]_vars
  PROVE  DoneForever
<1>1. ASSUME NEW r \in Req, Serve(r) PROVE req[r].pc # "done"
  BY <1>1 DEF Serve, Begins, IngestRefused, IngestStructured, IngestAsksLLM,
              LLMReturns, LLMFails, InsertDraft, ConfirmRead, ConfirmWrite,
              DiscardRead, DiscardWrite, Answer, Purge, CreateTask, DeleteTask,
              HandlerRaises
<1>2. ASSUME NEW r \in Req, Serve(r), NEW q \in Req, q # r PROVE req'[q] = req[q]
  BY <1>2, OthersWait
<1>3. ASSUME CleanupExpired \/ Restart \/ Tick \/ UNCHANGED vars PROVE DoneForever
  BY <1>3 DEF CleanupExpired, Restart, Tick, vars, DoneForever, InFlight
<1> QED
  BY <1>1, <1>2, <1>3 DEF Next, DoneForever

\* A request that ends with nothing of what it read inserts nothing.
LEMMA FinishInsertsNothing ==
  ASSUME TypeOK, NEW r \in Req, NEW kind, NEW reply, Finish(r, kind, reply)
  PROVE  NothingInserted
  BY DEF Finish, Idle, TypeOK, NothingInserted

\* Rows that stay as they are settle.
LEMMA UnchangedRowsSettle ==
  ASSUME UNCHANGED drafts
  PROVE  RowsOnlySettle
  BY DEF RowsOnlySettle

\* The steps of requests other than InsertDraft and ConfirmWrite are quiet.
LEMMA QuietRequests ==
  ASSUME DraftInv, NEW r \in Req,
         \/ IngestRefused(r) \/ IngestStructured(r) \/ IngestAsksLLM(r)
         \/ LLMReturns(r) \/ LLMFails(r) \/ ConfirmRead(r) \/ DiscardRead(r)
         \/ DiscardWrite(r) \/ Answer(r) \/ Purge(r) \/ CreateTask(r)
         \/ DeleteTask(r) \/ HandlerRaises(r)
  PROVE  RowsOnlySettle /\ NothingInserted
<1>0. TypeOK
  BY DEF DraftInv
<1>1. CASE IngestRefused(r)
  BY <1>0, <1>1, FinishInsertsNothing, UnchangedRowsSettle DEF IngestRefused
<1>2. CASE IngestStructured(r)
  BY <1>0, <1>2, UnchangedRowsSettle, ZenonT(30)
     DEF IngestStructured, ReadyToInsert, Idle, TypeOK, NothingInserted
<1>3. CASE IngestAsksLLM(r)
  BY <1>0, <1>3, UnchangedRowsSettle
     DEF IngestAsksLLM, Idle, TypeOK, NothingInserted
<1>4. CASE LLMReturns(r)
  BY <1>0, <1>4, UnchangedRowsSettle, ZenonT(30)
     DEF LLMReturns, ReadyToInsert, Idle, TypeOK, NothingInserted
<1>5. CASE LLMFails(r)
  BY <1>0, <1>5, UnchangedRowsSettle
     DEF LLMFails, ReadyToInsert, Idle, TypeOK, NothingInserted
<1>6. ASSUME NEW kind \in {"confirm", "discard"}, NEW d \in DraftId, NEW batch,
             drafts[d].status # "absent",
             req' = [req EXCEPT ![r] = ReadyToWrite(kind, d, batch)]
      PROVE  NothingInserted
  BY <1>0, <1>6 DEF ReadyToWrite, Idle, TypeOK, NothingInserted
<1>7. CASE ConfirmRead(r)
  <2>1. PICK d \in DraftId : \E final \in Batches \cup {drafts[d].batch} :
           IF ConfirmVerdict(drafts[d], final) = "none"
           THEN req' = [req EXCEPT ![r] = ReadyToWrite("confirm", d, final)]
           ELSE Finish(r, "confirm", ConfirmVerdict(drafts[d], final))
    BY <1>7 DEF ConfirmRead
  <2>2. PICK final \in Batches \cup {drafts[d].batch} :
           IF ConfirmVerdict(drafts[d], final) = "none"
           THEN req' = [req EXCEPT ![r] = ReadyToWrite("confirm", d, final)]
           ELSE Finish(r, "confirm", ConfirmVerdict(drafts[d], final))
    BY <2>1
  <2>3. CASE ConfirmVerdict(drafts[d], final) = "none"
    <3>1. drafts[d].status # "absent"
      BY <2>3 DEF ConfirmVerdict
    <3> QED
      BY <1>6, <1>7, <2>2, <2>3, <3>1, UnchangedRowsSettle DEF ConfirmRead
  <2>4. CASE ConfirmVerdict(drafts[d], final) # "none"
    BY <1>0, <1>7, <2>2, <2>4, FinishInsertsNothing, UnchangedRowsSettle
       DEF ConfirmRead
  <2> QED
    BY <2>3, <2>4
<1>8. CASE DiscardRead(r)
  <2>1. PICK d \in DraftId :
           IF DiscardVerdict(drafts[d]) = "none"
           THEN req' = [req EXCEPT ![r] = ReadyToWrite("discard", d, <<>>)]
           ELSE Finish(r, "discard", DiscardVerdict(drafts[d]))
    BY <1>8 DEF DiscardRead
  <2>2. CASE DiscardVerdict(drafts[d]) = "none"
    <3>1. drafts[d].status # "absent"
      BY <2>2 DEF DiscardVerdict
    <3> QED
      BY <1>6, <1>8, <2>1, <2>2, <3>1, UnchangedRowsSettle DEF DiscardRead
  <2>3. CASE DiscardVerdict(drafts[d]) # "none"
    BY <1>0, <1>8, <2>1, <2>3, FinishInsertsNothing, UnchangedRowsSettle
       DEF DiscardRead
  <2> QED
    BY <2>2, <2>3
<1>9. CASE DiscardWrite(r)
  <2>1. RowsOnlySettle
    BY <1>0, <1>9 DEF DiscardWrite, DiscardedRow, TypeOK, DraftRow, RowsOnlySettle
  <2>2. NothingInserted
    BY <1>0, <1>9 DEF DiscardWrite, TypeOK, Request, NothingInserted
  <2> QED
    BY <2>1, <2>2
<1>10. CASE Answer(r)
  BY <1>0, <1>10, UnchangedRowsSettle DEF Answer, TypeOK, Request, NothingInserted
<1>11. CASE Purge(r)
  <2>1. RowsOnlySettle
    BY <1>11 DEF Purge, NoDraft, RowsOnlySettle
  <2> QED
    BY <1>0, <1>11, <2>1, FinishInsertsNothing DEF Purge
<1>12. CASE CreateTask(r)
  BY <1>0, <1>12, FinishInsertsNothing, UnchangedRowsSettle DEF CreateTask
<1>13. CASE DeleteTask(r)
  BY <1>0, <1>13, FinishInsertsNothing, UnchangedRowsSettle DEF DeleteTask
<1>14. CASE HandlerRaises(r)
  BY <1>0, <1>14, FinishInsertsNothing, UnchangedRowsSettle DEF HandlerRaises
<1> QED
  BY <1>1, <1>2, <1>3, <1>4, <1>5, <1>7, <1>8, <1>9, <1>10, <1>11, <1>12, <1>13, <1>14

\* So are those of the sweep, a restart and the clock.
LEMMA QuietEnvironment ==
  ASSUME DraftInv, CleanupExpired \/ Restart \/ Tick \/ UNCHANGED vars
  PROVE  RowsOnlySettle /\ NothingInserted
<1>1. CASE CleanupExpired
  BY <1>1 DEF CleanupExpired, NoDraft, RowsOnlySettle, NothingInserted
<1>2. CASE Restart
  <2>1. NothingInserted
    BY <1>2 DEF Restart, DraftInv, TypeOK, Request, NothingInserted
  <2> QED
    BY <1>2, <2>1, UnchangedRowsSettle DEF Restart
<1>3. CASE Tick \/ UNCHANGED vars
  BY <1>3 DEF Tick, vars, RowsOnlySettle, NothingInserted
<1> QED
  BY <1>1, <1>2, <1>3

\* A new draft comes from a request nobody knew as an ingestion before.
LEMMA InsertDraftKeeps ==
  ASSUME DraftInv, TypeOK', DoneForever, NEW r \in Req, InsertDraft(r)
  PROVE  DraftInv'
<1>0. TypeOK
  BY DEF DraftInv
<1>1. PICK last \in 0..(MaxDrafts - 1) : InsertDraft(r)!2!(last)
  BY DEF InsertDraft
<1>2. last + 1 \in DraftId
  BY BoundsAssumption DEF DraftId
<1>3. req[r].pc # "done"
  BY DEF InsertDraft
<1>4. /\ req'[r].kind = "ingest" /\ req'[r].pc = "done" /\ req'[r].draft = last + 1
      /\ req'[r].origin = NoReq /\ req'[r].ids = {}
      /\ \A q \in Req : q # r => req'[q] = req[q]
  BY <1>0, <1>1 DEF Idle, TypeOK
<1>5. /\ drafts'[last + 1].origin = r
      /\ \A d \in DraftId : d # last + 1 => drafts'[d] = drafts[d]
  BY <1>0, <1>1, <1>2 DEF TypeOK
<1>6. RowsKnowTheirIngestion'
  <2>1. ASSUME NEW d \in DraftId, drafts'[d].status # "absent"
        PROVE  /\ drafts'[d].origin \in Req
               /\ req'[drafts'[d].origin].kind = "ingest"
               /\ req'[drafts'[d].origin].pc = "done"
               /\ req'[drafts'[d].origin].draft = d
    <3>1. CASE d = last + 1
      BY <1>4, <1>5, <3>1
    <3>2. CASE d # last + 1
      BY <1>5, <2>1, <3>2 DEF DraftInv, RowsKnowTheirIngestion, DoneForever
    <3> QED
      BY <3>1, <3>2
  <2>2. ASSUME NEW q \in Req, req'[q].origin # NoReq
        PROVE  /\ req'[q].origin \in Req
               /\ req'[q].kind \in {"confirm", "discard"}
               /\ req'[req'[q].origin].kind = "ingest"
               /\ req'[req'[q].origin].pc = "done"
               /\ req'[req'[q].origin].draft = req'[q].draft
    BY <1>4, <2>2 DEF DraftInv, RowsKnowTheirIngestion, DoneForever
  <2> QED
    BY <2>1, <2>2 DEF RowsKnowTheirIngestion
<1>7. UnconfirmedWritesNothing'
  <2> SUFFICES ASSUME NEW d \in DraftId, drafts'[d].status \in {"pending", "failed"},
                      NEW q \in Req, req'[q].kind = "confirm",
                      req'[q].origin = drafts'[d].origin, req'[q].ids # {}
               PROVE  FALSE
    BY DEF UnconfirmedWritesNothing, ConfirmsOf
  <2>1. q # r /\ req'[q] = req[q]
    BY <1>4
  <2>2. CASE d = last + 1
    \* q would know an ingestion that has not been answered yet
    BY <1>3, <1>5, <2>1, <2>2, NoReqAssumption
       DEF DraftInv, RowsKnowTheirIngestion
  <2>3. CASE d # last + 1
    BY <1>5, <2>1, <2>3 DEF DraftInv, UnconfirmedWritesNothing, ConfirmsOf
  <2> QED
    BY <2>2, <2>3
<1> QED
  BY <1>6, <1>7 DEF DraftInv

\* The confirming transaction leaves no waiting row of the draft it was
\* decided on: either that row is the one it marks, or it is gone.
LEMMA ConfirmWriteKeeps ==
  ASSUME DraftInv, TypeOK', DoneForever, NEW r \in Req, ConfirmWrite(r)
  PROVE  DraftInv'
<1>0. TypeOK /\ req[r] \in Request
  BY DEF DraftInv, TypeOK
<1>1. PICK last \in 0..MaxItems : ConfirmWrite(r)!2!(last)
  BY DEF ConfirmWrite
<1>2. /\ req[r].kind = "confirm" /\ req[r].pc = "write"
      /\ req[r].draft \in DraftId /\ req[r].origin \in Req
  BY <1>0 DEF ConfirmWrite, Request
<1>3. /\ req'[r].kind = "confirm" /\ req'[r].origin = req[r].origin
      /\ req'[r].draft = req[r].draft
      /\ \A q \in Req : q # r => req'[q] = req[q]
  BY <1>0, <1>1, <1>2 DEF TypeOK, Request
<1>4. \A d \in DraftId :
         /\ d # req[r].draft => drafts'[d] = drafts[d]
         /\ drafts'[d].status # "absent" =>
               drafts[d].status # "absent" /\ drafts'[d].origin = drafts[d].origin
  BY <1>0, <1>1, <1>2 DEF TypeOK, DraftRow, ConfirmedRow
<1>5. drafts'[req[r].draft].status \notin {"pending", "failed"}
  BY <1>0, <1>1, <1>2 DEF TypeOK, DraftRow, ConfirmedRow
<1>6. RowsKnowTheirIngestion'
  <2>1. ASSUME NEW d \in DraftId, drafts'[d].status # "absent"
        PROVE  /\ drafts'[d].origin \in Req
               /\ req'[drafts'[d].origin].kind = "ingest"
               /\ req'[drafts'[d].origin].pc = "done"
               /\ req'[drafts'[d].origin].draft = d
    BY <1>4, <2>1 DEF DraftInv, RowsKnowTheirIngestion, DoneForever
  <2>2. ASSUME NEW q \in Req, req'[q].origin # NoReq
        PROVE  /\ req'[q].origin \in Req
               /\ req'[q].kind \in {"confirm", "discard"}
               /\ req'[req'[q].origin].kind = "ingest"
               /\ req'[req'[q].origin].pc = "done"
               /\ req'[req'[q].origin].draft = req'[q].draft
    BY <1>2, <1>3, <2>2 DEF DraftInv, RowsKnowTheirIngestion, DoneForever
  <2> QED
    BY <2>1, <2>2 DEF RowsKnowTheirIngestion
<1>7. UnconfirmedWritesNothing'
  <2> SUFFICES ASSUME NEW d \in DraftId, drafts'[d].status \in {"pending", "failed"},
                      NEW q \in Req, req'[q].kind = "confirm",
                      req'[q].origin = drafts'[d].origin, req'[q].ids # {}
               PROVE  FALSE
    BY DEF UnconfirmedWritesNothing, ConfirmsOf
  <2>1. d # req[r].draft
    BY <1>5
  <2>2. CASE q = r
    \* the row at d is of the ingestion answered with d, r's with r's id
    BY <1>2, <1>3, <1>4, <2>1, <2>2, NoReqAssumption
       DEF DraftInv, RowsKnowTheirIngestion
  <2>3. CASE q # r
    BY <1>3, <1>4, <2>1, <2>3 DEF DraftInv, UnconfirmedWritesNothing, ConfirmsOf
  <2> QED
    BY <2>2, <2>3
<1> QED
  BY <1>6, <1>7 DEF DraftInv

\* The invariant is inductive.
LEMMA NextDraftInv == DraftInv /\ [Next]_vars => DraftInv'
<1> SUFFICES ASSUME DraftInv, [Next]_vars PROVE DraftInv'
  OBVIOUS
<1>1. TypeOK' /\ DoneForever
  BY NextType, ServedOnce DEF DraftInv
<1>2. CASE \E r \in Req : InsertDraft(r)
  BY <1>1, <1>2, InsertDraftKeeps
<1>3. CASE \E r \in Req : ConfirmWrite(r)
  BY <1>1, <1>3, ConfirmWriteKeeps
<1>4. CASE /\ ~ \E r \in Req : InsertDraft(r)
           /\ ~ \E r \in Req : ConfirmWrite(r)
  BY <1>1, <1>4, QuietStep, QuietRequests, QuietEnvironment DEF Next, Serve
<1> QED
  BY <1>2, <1>3, <1>4

\* In the initial state there is no draft and no request knows one.
LEMMA InitDraftInv == Init => DraftInv
<1> SUFFICES ASSUME Init PROVE DraftInv
  OBVIOUS
<1>1. \A d \in DraftId : drafts[d].status = "absent"
  BY DEF Init, NoDraft
<1>2. \A r \in Req : req[r].origin = NoReq
  BY DEF Init, Idle
<1> QED
  BY <1>1, <1>2, InitType DEF DraftInv, RowsKnowTheirIngestion, UnconfirmedWritesNothing

\* So it holds in every reachable state.
LEMMA DraftInvHolds == Spec => []DraftInv
  BY InitDraftInv, NextDraftInv, PTL DEF Spec

\* A draft row stands under the id its ingestion was answered with.
THEOREM RowsKnow == Spec => []RowsKnowTheirIngestion
  BY DraftInvHolds, PTL DEF DraftInv

\* "Zero writes in the draft stage", however the requests interleave.
THEOREM DraftStageWritesNothing == Spec => []UnconfirmedWritesNothing
  BY DraftInvHolds, PTL DEF DraftInv

-----------------------------------------------------------------------------
(* Retries, and what a confirmed draft keeps.                              *)

\* Ending a request keeps nothing that could be wrong.
LEMMA FinishStart ==
  ASSUME TypeOK, NEW r \in Req, NEW kind, NEW reply, Finish(r, kind, reply)
  PROVE  /\ req'[r].pc = "done" /\ req'[r].draft = 0 /\ req'[r].ids = {}
         /\ req'[r].kind = kind /\ req'[r].reply = reply
  BY DEF Finish, Idle, TypeOK

\* A request that is about to insert, or to write, and nothing else of it.
LEMMA InsertionAsIs ==
  ASSUME NEW batch, NEW pc, NEW x, x = ReadyToInsert(batch, pc)
  PROVE  x.kind = "ingest" /\ x.pc = pc /\ x.draft = 0 /\ x.ids = {}
  BY DEF ReadyToInsert, Idle

LEMMA WritingAsIs ==
  ASSUME NEW kind, NEW d, NEW batch, NEW x, x = ReadyToWrite(kind, d, batch)
  PROVE  x.kind = kind /\ x.pc = "write" /\ x.draft = d /\ x.ids = {}
  BY DEF ReadyToWrite, Idle

LEMMA ReadyToInsertAsIs ==
  ASSUME TypeOK, NEW r \in Req, NEW batch, NEW pc,
         req' = [req EXCEPT ![r] = ReadyToInsert(batch, pc)]
  PROVE  /\ req'[r].kind = "ingest" /\ req'[r].pc = pc /\ req'[r].draft = 0
         /\ req'[r].ids = {}
<1>1. req'[r] = ReadyToInsert(batch, pc)
  BY DEF TypeOK
<1> QED
  BY <1>1, InsertionAsIs

LEMMA ReadyToWriteAsIs ==
  ASSUME TypeOK, NEW r \in Req, NEW kind, NEW d, NEW batch,
         req' = [req EXCEPT ![r] = ReadyToWrite(kind, d, batch)]
  PROVE  /\ req'[r].kind = kind /\ req'[r].pc = "write" /\ req'[r].draft = d
         /\ req'[r].ids = {}
<1>1. req'[r] = ReadyToWrite(kind, d, batch)
  BY DEF TypeOK
<1> QED
  BY <1>1, WritingAsIs

\* The only step with which a request becomes a confirmation about to write.
LEMMA BeginsToConfirm ==
  ASSUME TypeOK, [Next]_vars, NEW r \in Req, req[r].pc = "idle",
         req'[r].kind = "confirm", req'[r].pc = "write"
  PROVE  /\ UNCHANGED <<drafts, items>>
         /\ \E d \in DraftId : \E final \in Batches \cup {drafts[d].batch} :
               /\ ConfirmVerdict(drafts[d], final) = "none"
               /\ req'[r] = ReadyToWrite("confirm", d, final)
<1>1. CASE CleanupExpired \/ Restart \/ Tick \/ UNCHANGED vars
  BY <1>1 DEF CleanupExpired, Restart, Tick, vars, InFlight
<1>2. ASSUME NEW q \in Req, Serve(q), q # r PROVE FALSE
  BY <1>2, OthersWait
<1>3. CASE Serve(r)
  <2>1. ConfirmRead(r)
    <3>1. ASSUME NEW kind, NEW reply, Finish(r, kind, reply) PROVE FALSE
      BY <3>1, FinishStart
    <3>2. ASSUME NEW batch, NEW pc, req' = [req EXCEPT ![r] = ReadyToInsert(batch, pc)]
          PROVE  FALSE
      BY <3>2, ReadyToInsertAsIs
    <3>3. ASSUME NEW d, NEW batch, req' = [req EXCEPT ![r] = ReadyToWrite("discard", d, batch)]
          PROVE  FALSE
      <4>1. req'[r].kind = "discard"
        BY <3>3, ReadyToWriteAsIs
      <4> QED
        BY <4>1
    <3>4. ~IngestAsksLLM(r)
      BY DEF IngestAsksLLM, Idle, TypeOK
    <3>5. ~IngestStructured(r)
      BY <3>2 DEF IngestStructured
    <3>6. ~DiscardRead(r)
      BY <3>1, <3>3 DEF DiscardRead
    <3>7. ~IngestRefused(r) /\ ~Purge(r) /\ ~CreateTask(r) /\ ~DeleteTask(r)
      BY <3>1 DEF IngestRefused, Purge, CreateTask, DeleteTask
    <3>8. /\ ~LLMReturns(r) /\ ~LLMFails(r) /\ ~InsertDraft(r) /\ ~ConfirmWrite(r)
          /\ ~DiscardWrite(r) /\ ~Answer(r) /\ ~HandlerRaises(r)
      BY DEF LLMReturns, LLMFails, InsertDraft, ConfirmWrite, DiscardWrite, Answer, HandlerRaises
    <3> QED
      BY <1>3, <3>4, <3>5, <3>6, <3>7, <3>8 DEF Serve
  <2>2. PICK d \in DraftId : \E final \in Batches \cup {drafts[d].batch} :
           IF ConfirmVerdict(drafts[d], final) = "none"
           THEN req' = [req EXCEPT ![r] = ReadyToWrite("confirm", d, final)]
           ELSE Finish(r, "confirm", ConfirmVerdict(drafts[d], final))
    BY <2>1 DEF ConfirmRead
  <2>3. PICK final \in Batches \cup {drafts[d].batch} :
           IF ConfirmVerdict(drafts[d], final) = "none"
           THEN req' = [req EXCEPT ![r] = ReadyToWrite("confirm", d, final)]
           ELSE Finish(r, "confirm", ConfirmVerdict(drafts[d], final))
    BY <2>2
  <2>4. ConfirmVerdict(drafts[d], final) = "none"
    BY <2>3 DEF Finish, Idle, TypeOK
  <2>5. req'[r] = ReadyToWrite("confirm", d, final)
    BY <2>3, <2>4 DEF TypeOK
  <2> QED
    BY <2>1, <2>4, <2>5 DEF ConfirmRead
<1> QED
  BY <1>1, <1>2, <1>3 DEF Next

\* A confirmation that begins after another of the same draft committed is
\* turned away: the check confirm_draft makes outside its transaction is
\* enough for retries, and for retries only.
THEOREM LateConfirmIsRejected == Spec => LateConfirmRejected
<1> DEFINE Late ==
      \A r \in Req : req[r].pc = "idle" /\ req'[r].kind = "confirm"
                                       /\ req'[r].pc = "write"
          => ConfirmsOf(req'[r].origin) = {}
<1>1. DraftInv /\ [Next]_vars => [Late]_vars
  <2> SUFFICES ASSUME DraftInv, [Next]_vars, NEW r \in Req, req[r].pc = "idle",
                      req'[r].kind = "confirm", req'[r].pc = "write"
               PROVE  ConfirmsOf(req'[r].origin) = {}
    OBVIOUS
  <2>1. PICK d \in DraftId : \E final \in Batches \cup {drafts[d].batch} :
               /\ ConfirmVerdict(drafts[d], final) = "none"
               /\ req'[r] = ReadyToWrite("confirm", d, final)
    BY BeginsToConfirm DEF DraftInv
  <2>2. drafts[d].status = "pending" /\ req'[r].origin = drafts[d].origin
    BY <2>1 DEF ConfirmVerdict, ReadyToWrite, Idle, DraftInv, TypeOK, DraftRow, Statuses
  <2> QED
    BY <2>2 DEF DraftInv, UnconfirmedWritesNothing
<1> QED
  BY <1>1, DraftInvHolds, PTL DEF Spec, LateConfirmRejected

\* A confirmation about to write has something to write, and only requests
\* that have written have ids.
RecordInv ==
    /\ \A r \in Req : req[r].kind = "confirm" /\ req[r].pc = "write" =>
          req[r].batch # <<>>
    /\ \A r \in Req : req[r].ids # {} => req[r].pc \in {"reread", "done"}
    /\ RecordIsOneConfirm

\* No row becomes confirmed, and a confirmed one keeps its record.
NoNewRecord ==
    \A d \in DraftId : drafts'[d].status = "confirmed" =>
        /\ drafts[d].status = "confirmed"
        /\ drafts'[d].created = drafts[d].created
        /\ drafts'[d].batch = drafts[d].batch

\* What a request has inserted stays with it.
InsertedForever ==
    \A q \in Req : req[q].ids # {} => /\ req'[q].kind = req[q].kind
                                     /\ req'[q].ids = req[q].ids
                                     /\ req'[q].batch = req[q].batch

\* Records survive a step that makes none and forgets no insertion.
LEMMA RecordKept ==
  ASSUME RecordIsOneConfirm, NoNewRecord, InsertedForever
  PROVE  RecordIsOneConfirm'
  BY DEF RecordIsOneConfirm, NoNewRecord, InsertedForever

\* A step of the server or of a request other than a confirming transaction
\* makes no record.
LEMMA NoOtherRecord ==
  ASSUME TypeOK, [Next]_vars, \A r \in Req : ~ConfirmWrite(r)
  PROVE  NoNewRecord
<1>1. CASE UNCHANGED drafts
  BY <1>1 DEF NoNewRecord
<1>2. ASSUME NEW r \in Req, InsertDraft(r) PROVE NoNewRecord
  <2>1. PICK last \in 0..(MaxDrafts - 1) : InsertDraft(r)!2!(last)
    BY <1>2 DEF InsertDraft
  <2> QED
    BY <2>1 DEF NoNewRecord, TypeOK
<1>3. ASSUME NEW r \in Req, DiscardWrite(r) PROVE NoNewRecord
  BY <1>3 DEF DiscardWrite, DiscardedRow, TypeOK, DraftRow, NoNewRecord
<1>4. ASSUME NEW r \in Req, Purge(r) PROVE NoNewRecord
  BY <1>4 DEF Purge, NoDraft, NoNewRecord
<1>5. CASE CleanupExpired
  BY <1>5 DEF CleanupExpired, NoDraft, NoNewRecord
<1>6. ASSUME NEW r \in Req, Serve(r), ~InsertDraft(r), ~DiscardWrite(r), ~Purge(r),
             ~ConfirmWrite(r)
      PROVE  UNCHANGED drafts
  BY <1>6 DEF Serve, IngestRefused, IngestStructured, IngestAsksLLM, LLMReturns,
              LLMFails, ConfirmRead, DiscardRead, Answer, CreateTask, DeleteTask,
              HandlerRaises
<1>7. CASE Restart \/ Tick \/ UNCHANGED vars
  BY <1>1, <1>7 DEF Restart, Tick, vars
<1> QED
  BY <1>1, <1>2, <1>3, <1>4, <1>5, <1>6, <1>7 DEF Next

\* No step makes a request forget what it inserted.
LEMMA StepInsertedForever ==
  ASSUME TypeOK, RecordInv, [Next]_vars
  PROVE  InsertedForever
<1>1. ASSUME NEW r \in Req, Serve(r), req[r].ids # {}
      PROVE  req[r].pc = "reread"
  BY <1>1, ServedOnce
     DEF Serve, Begins, IngestRefused, IngestStructured, IngestAsksLLM,
         LLMReturns, LLMFails, InsertDraft, ConfirmRead, ConfirmWrite,
         DiscardRead, DiscardWrite, Answer, Purge, CreateTask, DeleteTask,
         HandlerRaises, RecordInv
<1>2. ASSUME NEW r \in Req, Serve(r), req[r].pc = "reread"
      PROVE  Answer(r)
  BY <1>2 DEF Serve, Begins, IngestRefused, IngestStructured, IngestAsksLLM,
              LLMReturns, LLMFails, InsertDraft, ConfirmRead, ConfirmWrite,
              DiscardRead, DiscardWrite, Purge, CreateTask, DeleteTask,
              HandlerRaises
<1>3. ASSUME NEW r \in Req, Answer(r) PROVE InsertedForever
  BY <1>3 DEF Answer, TypeOK, Request, InsertedForever
<1>4. ASSUME NEW r \in Req, Serve(r), NEW q \in Req, q # r PROVE req'[q] = req[q]
  BY <1>4, OthersWait
<1>5. CASE CleanupExpired \/ Restart \/ Tick \/ UNCHANGED vars
  <2>1. ASSUME NEW q \in Req
        PROVE  /\ req'[q].kind = req[q].kind /\ req'[q].ids = req[q].ids
               /\ req'[q].batch = req[q].batch
    BY <1>5, CutOff
  <2> QED
    BY <2>1 DEF InsertedForever
<1>6. ASSUME NEW r \in Req, Serve(r) PROVE InsertedForever
  BY <1>1, <1>2, <1>3, <1>4, <1>6 DEF InsertedForever
<1> QED
  BY <1>5, <1>6 DEF Next

\* A request that waits for its write transaction does so since it read.
LEMMA WriteStays ==
  ASSUME TypeOK, [Next]_vars, NEW r \in Req, req[r].pc # "idle",
         req'[r].pc = "write"
  PROVE  req'[r] = req[r]
<1>1. CASE CleanupExpired \/ Restart \/ Tick \/ UNCHANGED vars
  BY <1>1, CutOff
<1>2. ASSUME NEW q \in Req, Serve(q), q # r PROVE req'[r] = req[r]
  BY <1>2, OthersWait
<1>3. CASE Serve(r)
  <2>1. CASE LLMReturns(r) \/ LLMFails(r)
    BY <2>1 DEF LLMReturns, LLMFails, ReadyToInsert, Idle, TypeOK
  <2>2. CASE ConfirmWrite(r) \/ DiscardWrite(r) \/ Answer(r)
    <3>1. CASE ConfirmWrite(r)
      <4>1. PICK last \in 0..MaxItems : ConfirmWrite(r)!2!(last)
        BY <3>1 DEF ConfirmWrite
      <4> QED
        BY <4>1 DEF TypeOK, Request
    <3> QED
      BY <2>2, <3>1 DEF DiscardWrite, Answer, TypeOK, Request
  <2>3. CASE InsertDraft(r) \/ HandlerRaises(r)
    <3>1. CASE InsertDraft(r)
      <4>1. PICK last \in 0..(MaxDrafts - 1) : InsertDraft(r)!2!(last)
        BY <3>1 DEF InsertDraft
      <4> QED
        BY <4>1 DEF Idle, TypeOK
    <3> QED
      BY <2>3, <3>1 DEF HandlerRaises, Finish, Idle, TypeOK
  <2> QED
    BY <1>3, <2>1, <2>2, <2>3
       DEF Serve, Begins, IngestRefused, IngestStructured, IngestAsksLLM,
           ConfirmRead, DiscardRead, Purge, CreateTask, DeleteTask
<1> QED
  BY <1>1, <1>2, <1>3 DEF Next

\* A request that has inserted is at most answered.
LEMMA AfterInsertion ==
  ASSUME TypeOK, RecordInv, [Next]_vars, NEW r \in Req, req[r].ids # {}
  PROVE  req'[r].pc \in {"reread", "done"}
<1>0. req[r].pc \in {"reread", "done"}
  BY DEF RecordInv
<1>1. CASE CleanupExpired \/ Restart \/ Tick \/ UNCHANGED vars
  BY <1>0, <1>1, CutOff
<1>2. ASSUME NEW q \in Req, Serve(q), q # r PROVE req'[r] = req[r]
  BY <1>2, OthersWait
<1>3. CASE Serve(r)
  <2>1. Answer(r)
    BY <1>0, <1>3
       DEF Serve, Begins, IngestRefused, IngestStructured, IngestAsksLLM,
           LLMReturns, LLMFails, InsertDraft, ConfirmRead, ConfirmWrite,
           DiscardRead, DiscardWrite, Purge, CreateTask, DeleteTask,
           HandlerRaises
  <2> QED
    BY <2>1 DEF Answer, TypeOK, Request
<1> QED
  BY <1>0, <1>1, <1>2, <1>3 DEF Next

\* Only the confirming transaction gives a request ids.
LEMMA InsertsOnlyOnce ==
  ASSUME TypeOK, [Next]_vars, NEW r \in Req, req[r].ids = {}, req'[r].ids # {}
  PROVE  req'[r].pc = "reread"
<1>1. CASE CleanupExpired \/ Restart \/ Tick \/ UNCHANGED vars
  BY <1>1, CutOff
<1>2. ASSUME NEW q \in Req, Serve(q), q # r PROVE FALSE
  BY <1>2, OthersWait
<1>3. CASE ConfirmWrite(r)
  <2>1. PICK last \in 0..MaxItems : ConfirmWrite(r)!2!(last)
    BY <1>3 DEF ConfirmWrite
  <2> QED
    BY <2>1 DEF TypeOK, Request
<1>4. CASE Serve(r) /\ ~ConfirmWrite(r)
  <2>1. CASE ConfirmRead(r)
    BY <2>1, FinishStart, ReadyToWriteAsIs DEF ConfirmRead
  <2>2. CASE InsertDraft(r)
    <3>1. PICK last \in 0..(MaxDrafts - 1) : InsertDraft(r)!2!(last)
      BY <2>2 DEF InsertDraft
    <3> QED
      BY <3>1 DEF Idle, TypeOK
  <2>3. CASE DiscardWrite(r) \/ Answer(r)
    <3>1. req[r] \in Request
      BY DEF TypeOK
    <3>2. req'[r].ids = req[r].ids
      BY <2>3, <3>1 DEF DiscardWrite, Answer, TypeOK, Request
    <3> QED
      BY <3>2
  <2>4. CASE DiscardRead(r)
    BY <2>4, FinishStart, ReadyToWriteAsIs DEF DiscardRead
  <2>5. CASE IngestStructured(r) \/ LLMReturns(r) \/ LLMFails(r)
    BY <2>5 DEF IngestStructured, LLMReturns, LLMFails, ReadyToInsert, Idle, TypeOK
  <2> QED
    <3>1. ASSUME NEW kind, NEW reply, Finish(r, kind, reply) PROVE FALSE
      BY <3>1 DEF Finish, Idle, TypeOK
    <3>2. CASE IngestAsksLLM(r)
      BY <3>2 DEF IngestAsksLLM, Idle, TypeOK
    <3> QED
      BY <1>4, <2>1, <2>2, <2>3, <2>4, <2>5, <3>1, <3>2
         DEF Serve, IngestRefused, Purge, CreateTask, DeleteTask, HandlerRaises
<1> QED
  BY <1>1, <1>2, <1>3, <1>4 DEF Next

\* The record invariant is inductive, given the types.
LEMMA NextRecordInv == TypeOK /\ RecordInv /\ [Next]_vars => RecordInv'
<1> SUFFICES ASSUME TypeOK, RecordInv, [Next]_vars PROVE RecordInv'
  OBVIOUS
<1>1. TypeOK' /\ InsertedForever
  BY NextType, StepInsertedForever
<1>2. ASSUME NEW r \in Req, req'[r].kind = "confirm", req'[r].pc = "write"
      PROVE  req'[r].batch # <<>>
  <2>1. CASE req[r].pc = "idle"
    <3>1. PICK d \in DraftId : \E final \in Batches \cup {drafts[d].batch} :
             /\ ConfirmVerdict(drafts[d], final) = "none"
             /\ req'[r] = ReadyToWrite("confirm", d, final)
      BY <1>2, <2>1, BeginsToConfirm
    <3>2. PICK final \in Batches \cup {drafts[d].batch} :
             /\ ConfirmVerdict(drafts[d], final) = "none"
             /\ req'[r] = ReadyToWrite("confirm", d, final)
      BY <3>1
    <3>3. final # <<>>
      BY <3>2 DEF ConfirmVerdict, TypeOK, DraftRow, Statuses
    <3>4. req'[r].batch = final
      BY <3>2 DEF ReadyToWrite, Idle
    <3> QED
      BY <3>3, <3>4
  <2>2. CASE req[r].pc # "idle"
    BY <1>2, <2>2, WriteStays DEF RecordInv
  <2> QED
    BY <2>1, <2>2
<1>3. ASSUME NEW r \in Req, req'[r].ids # {}
      PROVE  req'[r].pc \in {"reread", "done"}
  <2>1. CASE req[r].ids # {}
    BY <1>3, <2>1, AfterInsertion DEF RecordInv
  <2>2. CASE req[r].ids = {}
    BY <1>3, <2>2, InsertsOnlyOnce
  <2> QED
    BY <2>1, <2>2
<1>4. RecordIsOneConfirm'
  <2>1. CASE \A r \in Req : ~ConfirmWrite(r)
    BY <1>1, <2>1, NoOtherRecord, RecordKept DEF RecordInv
  <2>2. ASSUME NEW r \in Req, ConfirmWrite(r) PROVE RecordIsOneConfirm'
    <3>0. req[r] \in Request
      BY DEF TypeOK
    <3>1. PICK last \in 0..MaxItems : ConfirmWrite(r)!2!(last)
      BY <2>2 DEF ConfirmWrite
    <3> DEFINE ids == InsertedIds(last, req[r].batch)
    <3>2. /\ req[r].draft \in DraftId /\ req[r].batch \in Seq(Entry)
          /\ req[r].batch # <<>>
      BY <2>2, <3>0 DEF ConfirmWrite, Request, RecordInv
    <3>3. ids # {}
      <4>1. Len(req[r].batch) \in Nat \ {0}
        BY <3>2
      <4>2. last + 1 \in ids
        BY <4>1 DEF InsertedIds
      <4> QED
        BY <4>2
    <3>4. /\ req'[r].kind = "confirm" /\ req'[r].ids = ids
          /\ req'[r].batch = req[r].batch
      BY <2>2, <3>0, <3>1 DEF ConfirmWrite, TypeOK, Request
    <3> HIDE DEF ids
    <3>5. ASSUME NEW d \in DraftId, drafts'[d].status = "confirmed"
          PROVE  \E q \in Req : /\ req'[q].kind = "confirm" /\ req'[q].ids # {}
                                /\ drafts'[d].created = req'[q].ids
                                /\ drafts'[d].batch = req'[q].batch
      <4>1. CASE d = req[r].draft
        <5>1. drafts'[d] = ConfirmedRow(drafts[d], req[r].batch, ids)
          BY <3>1, <3>2, <4>1 DEF TypeOK, ids
        <5>2. drafts[d].status # "absent"
          BY <3>5, <5>1 DEF ConfirmedRow
        <5>3. drafts[d] \in DraftRow
          BY DEF TypeOK
        <5>4. drafts'[d].created = ids /\ drafts'[d].batch = req[r].batch
          BY <5>1, <5>2, <5>3 DEF ConfirmedRow, DraftRow
        <5> QED
          BY <3>3, <3>4, <5>4
      <4>2. CASE d # req[r].draft
        <5>1. drafts'[d] = drafts[d]
          BY <3>1, <4>2 DEF TypeOK
        <5>2. PICK q \in Req : /\ req[q].kind = "confirm" /\ req[q].ids # {}
                               /\ drafts[d].created = req[q].ids
                               /\ drafts[d].batch = req[q].batch
          BY <3>5, <5>1 DEF RecordInv, RecordIsOneConfirm
        <5> QED
          BY <1>1, <5>1, <5>2 DEF InsertedForever
      <4> QED
        BY <4>1, <4>2
    <3> QED
      BY <3>5 DEF RecordIsOneConfirm
  <2> QED
    BY <2>1, <2>2
<1> QED
  BY <1>2, <1>3, <1>4 DEF RecordInv

\* In the initial state nothing is confirmed and nothing inserted.
LEMMA InitRecordInv == Init => RecordInv
  BY DEF Init, Idle, NoDraft, RecordInv, RecordIsOneConfirm

LEMMA RecordInvHolds == Spec => []RecordInv
  BY InitType, InitRecordInv, NextType, NextRecordInv, PTL DEF Spec

\* The record of a confirmed draft is the record of one confirmation, also
\* when two overlap: the row and the tasks change in one transaction.
THEOREM RecordIsOne == Spec => []RecordIsOneConfirm
  BY RecordInvHolds, PTL DEF RecordInv

\* A confirmed row is lost to a purge and to nothing else: the sweep passes
\* it over and a new row takes an id above every row that is there.
THEOREM ConfirmedIsKept == Spec => ConfirmedKeptUntilPurged
<1> DEFINE Purging == \E r \in Req : req[r].pc = "idle" /\ req'[r].kind = "purge"
           Kept == \A d \in DraftId : drafts[d].status = "confirmed"
                                     /\ drafts'[d].origin # drafts[d].origin
                     => Purging
<1>1. TypeOK /\ [Next]_vars => [Kept]_vars
  <2> SUFFICES ASSUME TypeOK, [Next]_vars, NEW d \in DraftId,
                      drafts[d].status = "confirmed",
                      drafts'[d].origin # drafts[d].origin
               PROVE  Purging
    OBVIOUS
  <2>0. drafts[d] \in DraftRow
    BY DEF TypeOK
  <2>1. ASSUME NEW r \in Req, Purge(r) PROVE Purging
    BY <2>1 DEF Purge, Begins, Finish, Idle, TypeOK
  <2>2. ASSUME NEW r \in Req, InsertDraft(r) PROVE FALSE
    <3>1. PICK last \in 0..(MaxDrafts - 1) : InsertDraft(r)!2!(last)
      BY <2>2 DEF InsertDraft
    <3>2. d \in LiveDrafts
      BY DEF LiveDrafts
    <3>3. d # last + 1
      BY <3>1, <3>2, BoundsAssumption DEF IsLastRowid, DraftId
    <3> QED
      BY <3>1, <3>3 DEF TypeOK
  <2>3. ASSUME NEW r \in Req, ConfirmWrite(r) PROVE FALSE
    <3>1. PICK last \in 0..MaxItems : ConfirmWrite(r)!2!(last)
      BY <2>3 DEF ConfirmWrite
    <3> QED
      BY <2>0, <3>1 DEF TypeOK, ConfirmedRow, DraftRow
  <2>4. ASSUME NEW r \in Req, DiscardWrite(r) PROVE FALSE
    BY <2>0, <2>4 DEF DiscardWrite, DiscardedRow, TypeOK, DraftRow
  <2>5. CASE CleanupExpired
    BY <2>0, <2>5 DEF CleanupExpired, Expired
  <2>6. CASE UNCHANGED drafts
    BY <2>6
  <2>7. ASSUME NEW r \in Req, Serve(r), ~InsertDraft(r), ~ConfirmWrite(r),
               ~DiscardWrite(r), ~Purge(r)
        PROVE  UNCHANGED drafts
    BY <2>7 DEF Serve, IngestRefused, IngestStructured, IngestAsksLLM, LLMReturns,
                LLMFails, ConfirmRead, DiscardRead, Answer, CreateTask, DeleteTask,
                HandlerRaises
  <2> QED
    BY <2>1, <2>2, <2>3, <2>4, <2>5, <2>6, <2>7 DEF Next, Restart, Tick, vars
<1> QED
  BY <1>1, TypeCorrect, PTL DEF Spec, ConfirmedKeptUntilPurged

-----------------------------------------------------------------------------
(* All or nothing.                                                         *)

\* What a confirmation that has written inserted is all of its list, each
\* element valid, and what is still there of it says what the list says.
Whole(r) ==
    /\ AllValid(req[r].batch)
    /\ \E last \in 0..MaxItems :
          /\ req[r].ids = (last + 1)..(last + Len(req[r].batch))
          /\ \A i \in req[r].ids : items[i].by = r =>
                items[i].entry = req[r].batch[i - last]

\* A task was created by a request that did nothing else, or by a confirmation
\* that knows it inserted it.
Owned(i) ==
    items[i].by # NoReq =>
        \/ req[items[i].by].kind = "create_task" /\ req[items[i].by].pc = "done"
        \/ req[items[i].by].kind = "confirm" /\ i \in req[items[i].by].ids

\* A confirmation about to write has checked its list.
Reviewed(r) == req[r].kind = "confirm" /\ req[r].pc = "write" => AllValid(req[r].batch)

TasksInv ==
    /\ \A r \in Req : Reviewed(r)
    /\ \A r \in Req : req[r].kind = "confirm" /\ req[r].ids # {} => Whole(r)
    /\ \A i \in ItemId : Owned(i)

\* Tasks that are there keep what they are, but for a confirming transaction.
NoOtherTasks ==
    \A i \in ItemId : \/ items'[i] = items[i] \/ items'[i] = NoItem
                      \/ /\ items'[i].by \in Req
                         /\ req[items'[i].by].pc = "idle"
                         /\ req'[items'[i].by].kind = "create_task"
                         /\ req'[items'[i].by].pc = "done"

\* A step that is no confirming transaction inserts at most a created task.
LEMMA OnlyCreatedTasks ==
  ASSUME TypeOK, [Next]_vars, \A r \in Req : ~ConfirmWrite(r)
  PROVE  NoOtherTasks
<1>1. CASE UNCHANGED items
  BY <1>1 DEF NoOtherTasks
<1>2. ASSUME NEW r \in Req, CreateTask(r) PROVE NoOtherTasks
  <2>1. PICK last \in 0..(MaxItems - 1), e \in ValidEntry :
           items' = [items EXCEPT ![last + 1] = [by |-> r, entry |-> e]]
    BY <1>2 DEF CreateTask
  <2>2. req[r].pc = "idle" /\ req'[r].kind = "create_task" /\ req'[r].pc = "done"
    BY <1>2 DEF CreateTask, Begins, Finish, Idle, TypeOK
  <2> QED
    BY <2>1, <2>2 DEF TypeOK, NoOtherTasks
<1>3. ASSUME NEW r \in Req, DeleteTask(r) PROVE NoOtherTasks
  BY <1>3 DEF DeleteTask, TypeOK, NoOtherTasks
<1>4. ASSUME NEW r \in Req, Serve(r), ~ConfirmWrite(r), ~CreateTask(r), ~DeleteTask(r)
      PROVE  UNCHANGED items
  BY <1>4 DEF Serve, IngestRefused, IngestStructured, IngestAsksLLM, LLMReturns,
              LLMFails, InsertDraft, ConfirmRead, DiscardRead, DiscardWrite, Answer,
              Purge, HandlerRaises
<1>5. CASE CleanupExpired \/ Restart \/ Tick \/ UNCHANGED vars
  BY <1>1, <1>5 DEF CleanupExpired, Restart, Tick, vars
<1> QED
  BY <1>1, <1>2, <1>3, <1>4, <1>5 DEF Next

\* A confirmation that comes to write has just checked its list.
LEMMA ReviewedStays ==
  ASSUME TypeOK, TasksInv, [Next]_vars, NEW r \in Req
  PROVE  Reviewed(r)'
<1> SUFFICES ASSUME req'[r].kind = "confirm", req'[r].pc = "write"
             PROVE  AllValid(req'[r].batch)
  BY DEF Reviewed, AllValid
<1>1. CASE req[r].pc = "idle"
  <2>1. PICK d \in DraftId : \E final \in Batches \cup {drafts[d].batch} :
           /\ ConfirmVerdict(drafts[d], final) = "none"
           /\ req'[r] = ReadyToWrite("confirm", d, final)
    BY <1>1, BeginsToConfirm
  <2>2. PICK final \in Batches \cup {drafts[d].batch} :
           /\ ConfirmVerdict(drafts[d], final) = "none"
           /\ req'[r] = ReadyToWrite("confirm", d, final)
    BY <2>1
  <2>3. AllValid(final)
    BY <2>2 DEF ConfirmVerdict, TypeOK, DraftRow, Statuses
  <2>4. req'[r].batch = final
    BY <2>2 DEF ReadyToWrite, Idle
  <2> QED
    BY <2>3, <2>4
<1>2. CASE req[r].pc # "idle"
  BY <1>2, WriteStays DEF TasksInv, Reviewed
<1> QED
  BY <1>1, <1>2

\* No step but a confirming transaction gives a request ids.
LEMMA OnlyConfirmInserts ==
  ASSUME DraftInv, [Next]_vars, \A r \in Req : ~ConfirmWrite(r), NEW r \in Req,
         req'[r].ids # {}
  PROVE  req[r].ids # {}
<1>0. TypeOK
  BY DEF DraftInv
<1>1. ASSUME NEW q \in Req, InsertDraft(q) PROVE req[r].ids # {}
  <2>1. PICK last \in 0..(MaxDrafts - 1) : InsertDraft(q)!2!(last)
    BY <1>1 DEF InsertDraft
  <2> QED
    BY <1>0, <2>1 DEF Idle, TypeOK
<1>2. NothingInserted => req[r].ids # {}
  BY DEF NothingInserted
<1> QED
  BY <1>1, <1>2, QuietRequests, QuietEnvironment DEF Next, Serve

\* A step that is no confirming transaction.
LEMMA QuietTasks ==
  ASSUME DraftInv, RecordInv, TasksInv, [Next]_vars, \A r \in Req : ~ConfirmWrite(r)
  PROVE  TasksInv'
<1>0. TypeOK
  BY DEF DraftInv
<1>1. InsertedForever /\ DoneForever /\ NoOtherTasks
  BY <1>0, StepInsertedForever, ServedOnce, OnlyCreatedTasks
<1>2. ASSUME NEW r \in Req PROVE Reviewed(r)'
  BY <1>0, ReviewedStays
<1>3. ASSUME NEW r \in Req, req'[r].kind = "confirm", req'[r].ids # {} PROVE Whole(r)'
  <2>1. req[r].ids # {}
    BY <1>3, OnlyConfirmInserts
  <2>2. /\ req[r].kind = "confirm" /\ req'[r].ids = req[r].ids /\ req'[r].batch = req[r].batch
        /\ req[r].pc # "idle"
    BY <1>1, <1>3, <2>1 DEF InsertedForever, RecordInv
  <2>3. PICK last \in 0..MaxItems :
           /\ req[r].ids = (last + 1)..(last + Len(req[r].batch))
           /\ \A i \in req[r].ids : items[i].by = r =>
                 items[i].entry = req[r].batch[i - last]
    BY <2>1, <2>2 DEF TasksInv, Whole
  <2>4. ASSUME NEW i \in req[r].ids, items'[i].by = r PROVE items'[i] = items[i]
    <3>1. i \in ItemId
      BY <1>0 DEF TypeOK, Request
    <3> QED
      BY <1>1, <2>2, <2>4, <3>1, NoReqAssumption DEF NoOtherTasks, NoItem
  <2>5. \A i \in req'[r].ids : items'[i].by = r =>
           items'[i].entry = req'[r].batch[i - last]
    BY <2>2, <2>3, <2>4
  <2>6. AllValid(req'[r].batch)
    BY <2>1, <2>2 DEF Whole, TasksInv
  <2> QED
    BY <2>2, <2>3, <2>5, <2>6 DEF Whole, AllValid
<1>4. ASSUME NEW i \in ItemId PROVE Owned(i)'
  <2>1. CASE items'[i] = NoItem
    BY <2>1 DEF Owned, NoItem
  <2>2. CASE items'[i] = items[i] /\ items[i].by # NoReq
    <3>1. items[i].by \in Req
      BY <1>0, <2>2 DEF TypeOK, ItemRow
    <3> QED
      BY <1>1, <2>2, <3>1 DEF Owned, TasksInv, DoneForever, InsertedForever
  <2>3. CASE /\ items'[i].by \in Req /\ req'[items'[i].by].kind = "create_task"
             /\ req'[items'[i].by].pc = "done"
    BY <2>3 DEF Owned
  <2> QED
    BY <1>1, <2>1, <2>2, <2>3 DEF NoOtherTasks, Owned
<1> QED
  BY <1>2, <1>3, <1>4 DEF TasksInv

\* The confirming transaction inserts its list, and touches no other task.
LEMMA ConfirmWriteTasks ==
  ASSUME DraftInv, RecordInv, TasksInv, [Next]_vars, NEW r \in Req, ConfirmWrite(r)
  PROVE  TasksInv'
<1>0. TypeOK /\ req[r] \in Request
  BY DEF DraftInv, TypeOK
<1>1. InsertedForever /\ DoneForever
  BY <1>0, StepInsertedForever, ServedOnce
<1>2. PICK last \in 0..MaxItems : ConfirmWrite(r)!2!(last)
  BY DEF ConfirmWrite
<1> DEFINE batch == req[r].batch
           ids == InsertedIds(last, batch)
<1>3. req[r].kind = "confirm" /\ req[r].pc = "write" /\ AllValid(batch)
  BY DEF ConfirmWrite, TasksInv, Reviewed
<1>4. /\ req'[r].kind = "confirm" /\ req'[r].ids = ids /\ req'[r].batch = batch
      /\ \A q \in Req : q # r => req'[q] = req[q]
  BY <1>0, <1>2, <1>3 DEF TypeOK, Request
<1>5. \A i \in ItemId : /\ i \in ids => items'[i].by = r /\ items'[i].entry = batch[i - last]
                        /\ i \notin ids => items'[i] = items[i]
  BY <1>2
<1>6. ids \subseteq ItemId /\ ids = (last + 1)..(last + Len(batch))
  BY <1>0, <1>2, InsertedIdsType DEF Request, InsertedIds
<1>7. req[r].ids = {}
  BY <1>3 DEF RecordInv
<1> HIDE DEF ids, batch
<1>8. ASSUME NEW q \in Req PROVE Reviewed(q)'
  BY <1>0, ReviewedStays
<1>9. Whole(r)'
  <2>1. AllValid(req'[r].batch)
    BY <1>3, <1>4
  <2>2. \A i \in ids : items'[i].entry = batch[i - last]
    BY <1>5, <1>6
  <2> QED
    BY <1>4, <1>6, <2>1, <2>2 DEF Whole, AllValid
<1>10. ASSUME NEW q \in Req, q # r, req'[q].kind = "confirm", req'[q].ids # {}
       PROVE  Whole(q)'
  <2>1. req'[q] = req[q] /\ Whole(q)
    BY <1>4, <1>10 DEF TasksInv
  <2>2. ASSUME NEW i \in req[q].ids, items'[i].by = q PROVE items'[i] = items[i]
    <3>1. i \in ItemId
      BY <1>0 DEF TypeOK, Request
    <3> QED
      BY <1>5, <1>10, <2>2, <3>1
  <2> QED
    BY <2>1, <2>2 DEF Whole, AllValid
<1>11. ASSUME NEW i \in ItemId PROVE Owned(i)'
  <2>1. CASE i \in ids
    BY <1>4, <1>5, <2>1 DEF Owned
  <2>2. CASE i \notin ids /\ items[i].by # NoReq
    <3>1. items'[i] = items[i] /\ items[i].by \in Req
      BY <1>0, <1>5, <2>2 DEF TypeOK, ItemRow
    <3>2. items[i].by # r
      BY <1>3, <1>7, <2>2 DEF TasksInv, Owned
    <3> QED
      BY <1>4, <2>2, <3>1, <3>2 DEF TasksInv, Owned
  <2>3. CASE i \notin ids /\ items[i].by = NoReq
    BY <1>5, <2>3 DEF Owned
  <2> QED
    BY <2>1, <2>2, <2>3
<1> QED
  BY <1>8, <1>9, <1>10, <1>11 DEF TasksInv

LEMMA TasksInvHolds == Spec => []TasksInv
<1>1. Init => TasksInv
  BY DEF Init, Idle, NoItem, TasksInv, Reviewed, Owned
<1>2. DraftInv /\ RecordInv /\ TasksInv /\ [Next]_vars => TasksInv'
  BY QuietTasks, ConfirmWriteTasks
<1> QED
  BY <1>1, <1>2, DraftInvHolds, RecordInvHolds, PTL DEF Spec

\* A confirmation inserts the whole list it has reviewed or none of it, and
\* no task says of itself that it came from a confirmation that does not know
\* it, however confirmations, task requests and reused ids interleave.
THEOREM ConfirmIsWhole == Spec => []ConfirmIsAllOrNothing
<1>1. TasksInv => ConfirmIsAllOrNothing
  <2> SUFFICES ASSUME TasksInv, NEW r \in Req, req[r].kind = "confirm"
               PROVE  /\ req[r].ids # {} => Whole(r)
                      /\ \A i \in ItemId : items[i].by = r => i \in req[r].ids
    BY DEF ConfirmIsAllOrNothing, Whole
  <2> QED
    BY NoReqAssumption DEF TasksInv, Owned
<1> QED
  BY <1>1, TasksInvHolds, PTL

-----------------------------------------------------------------------------
(* One request decides at a time: the answers tell the truth, and the      *)
(* drafts implement DraftLifecycle.  What a request knows before it is     *)
(* answered:                                                               *)

\* The ingestion has left a row, the confirmation its tasks.
Ingested(q) == req[q].kind = "ingest" /\ req[q].draft # 0
Inserted(q) == req[q].kind = "confirm" /\ req[q].ids # {}

\* Where a request is before it knows a draft row.
Unbound == {"idle", "llm", "insert_pending", "insert_failed"}

StartInv ==
    /\ \A q \in Req : req[q].pc \in Unbound => req[q].draft = 0
    /\ \A q \in Req : req[q].kind = "purge" => req[q].pc = "done"
    /\ \A d \in DraftId : drafts[d].status = "absent" => drafts[d].origin = NoReq

\* The request that is served keeps StartInv.
LEMMA ServedStart ==
  ASSUME TypeOK, StartInv, NEW r \in Req, Serve(r)
  PROVE  /\ req'[r].pc \in Unbound => req'[r].draft = 0
         /\ req'[r].kind = "purge" => req'[r].pc = "done"
<1>0. req[r] \in Request
  BY DEF TypeOK
<1>1. ASSUME NEW kind, NEW reply, Finish(r, kind, reply)
      PROVE  req'[r].pc = "done"
  BY <1>1, FinishStart
<1>2. CASE IngestStructured(r) \/ IngestAsksLLM(r) \/ LLMReturns(r) \/ LLMFails(r)
  <2>1. CASE IngestStructured(r)
    BY <2>1 DEF IngestStructured, ReadyToInsert, Idle, TypeOK
  <2>2. CASE IngestAsksLLM(r)
    BY <2>2 DEF IngestAsksLLM, Idle, TypeOK
  <2>3. CASE LLMReturns(r) \/ LLMFails(r)
    <3>1. ASSUME NEW batch, NEW pc, req' = [req EXCEPT ![r] = ReadyToInsert(batch, pc)]
          PROVE  req'[r].draft = 0 /\ req'[r].kind = "ingest"
      BY <3>1, ReadyToInsertAsIs
    <3> QED
      BY <2>3, <3>1 DEF LLMReturns, LLMFails
  <2> QED
    BY <1>2, <2>1, <2>2, <2>3
<1>3. CASE InsertDraft(r)
  <2>1. PICK last \in 0..(MaxDrafts - 1) : InsertDraft(r)!2!(last)
    BY <1>3 DEF InsertDraft
  <2> QED
    BY <2>1 DEF Idle, TypeOK, Unbound
<1>4. ASSUME NEW kind \in {"confirm", "discard"}, NEW d, NEW batch,
             req' = [req EXCEPT ![r] = ReadyToWrite(kind, d, batch)]
      PROVE  req'[r].pc = "write" /\ req'[r].kind = kind
  BY <1>4 DEF ReadyToWrite, Idle, TypeOK
<1>5. CASE ConfirmRead(r)
  BY <1>1, <1>4, <1>5 DEF ConfirmRead, Unbound
<1>6. CASE DiscardRead(r)
  BY <1>1, <1>4, <1>6 DEF DiscardRead, Unbound
<1>7. CASE ConfirmWrite(r)
  <2>1. PICK last \in 0..MaxItems : ConfirmWrite(r)!2!(last)
    BY <1>7 DEF ConfirmWrite
  <2>2. req'[r].pc = "reread" /\ req'[r].kind = "confirm"
    BY <1>0, <1>7, <2>1 DEF ConfirmWrite, TypeOK, Request
  <2> QED
    BY <2>2 DEF Unbound
<1>8. CASE DiscardWrite(r)
  <2>1. req'[r].pc = "reread" /\ req'[r].kind = "discard"
    BY <1>0, <1>8 DEF DiscardWrite, TypeOK, Request
  <2> QED
    BY <2>1 DEF Unbound
<1>9. CASE Answer(r)
  <2>1. req'[r].pc = "done"
    BY <1>0, <1>9 DEF Answer, TypeOK, Request
  <2> QED
    BY <2>1 DEF Unbound
<1> QED
  BY <1>1, <1>2, <1>3, <1>5, <1>6, <1>7, <1>8, <1>9
     DEF Serve, IngestRefused, Purge, CreateTask, DeleteTask, HandlerRaises, Unbound

\* Rows that are not there are nobody's.
LEMMA AbsentStays ==
  ASSUME TypeOK, StartInv, [Next]_vars, NEW d \in DraftId, drafts'[d].status = "absent"
  PROVE  drafts'[d].origin = NoReq
<1>0. drafts[d] \in DraftRow /\ NoDraft.origin = NoReq
  BY DEF TypeOK, NoDraft
<1>1. CASE drafts'[d] = drafts[d]
  BY <1>1 DEF StartInv
<1>2. CASE drafts'[d] = NoDraft
  BY <1>0, <1>2
<1>3. ASSUME NEW r \in Req, InsertDraft(r) PROVE drafts'[d] = drafts[d]
  <2>1. PICK last \in 0..(MaxDrafts - 1) : InsertDraft(r)!2!(last)
    BY <1>3 DEF InsertDraft
  <2> QED
    BY <2>1 DEF TypeOK
<1>4. ASSUME NEW r \in Req, ConfirmWrite(r) PROVE drafts'[d] = drafts[d]
  <2>1. PICK last \in 0..MaxItems : ConfirmWrite(r)!2!(last)
    BY <1>4 DEF ConfirmWrite
  <2> QED
    BY <1>0, <2>1 DEF TypeOK, ConfirmedRow, DraftRow
<1>5. ASSUME NEW r \in Req, DiscardWrite(r) PROVE drafts'[d] = drafts[d]
  BY <1>0, <1>5 DEF DiscardWrite, TypeOK, DiscardedRow, DraftRow
<1>6. ASSUME NEW r \in Req, Purge(r) PROVE drafts'[d] \in {drafts[d], NoDraft}
  BY <1>6 DEF Purge
<1>7. CASE CleanupExpired
  BY <1>1, <1>2, <1>7 DEF CleanupExpired
<1>8. ASSUME NEW r \in Req, Serve(r), ~InsertDraft(r), ~ConfirmWrite(r),
             ~DiscardWrite(r), ~Purge(r)
      PROVE  drafts'[d] = drafts[d]
  BY <1>8 DEF Serve, IngestRefused, IngestStructured, IngestAsksLLM, LLMReturns,
              LLMFails, ConfirmRead, DiscardRead, Answer, CreateTask, DeleteTask,
              HandlerRaises
<1>9. CASE Restart \/ Tick \/ UNCHANGED vars
  BY <1>1, <1>9 DEF Restart, Tick, vars
<1> QED
  BY <1>1, <1>2, <1>3, <1>4, <1>5, <1>6, <1>7, <1>8, <1>9 DEF Next

\* What is known of requests and rows at the start is inductive.
LEMMA NextStartInv == TypeOK /\ StartInv /\ [Next]_vars => StartInv'
<1> SUFFICES ASSUME TypeOK, StartInv, [Next]_vars PROVE StartInv'
  OBVIOUS
<1>1. ASSUME NEW q \in Req
      PROVE  /\ req'[q].pc \in Unbound => req'[q].draft = 0
             /\ req'[q].kind = "purge" => req'[q].pc = "done"
  <2>1. CASE Serve(q)
    BY <2>1, ServedStart
  <2>2. CASE req'[q] = req[q]
    BY <2>2 DEF StartInv
  <2>3. CASE CleanupExpired \/ Restart \/ Tick \/ UNCHANGED vars
    BY <2>2, <2>3, CutOff DEF Unbound
  <2> QED
    BY <2>1, <2>2, <2>3, OthersWait DEF Next
<1> QED
  BY <1>1, AbsentStays DEF StartInv

LEMMA StartInvHolds == Spec => []StartInv
<1>1. Init => StartInv
  BY DEF Init, Idle, NoDraft, StartInv
<1> QED
  BY <1>1, InitType, NextType, NextStartInv, PTL DEF Spec

-----------------------------------------------------------------------------
(* One decision at a time.                                                 *)

\* The row a request has decided on is the one it read, and once it has
\* written, the one it wrote.
DecidedRow(q) ==
    /\ drafts[req[q].draft].origin = req[q].origin
    /\ req[q].pc = "write" => drafts[req[q].draft].status = "pending"
    /\ req[q].pc = "reread" /\ req[q].kind = "confirm" =>
          drafts[req[q].draft].status = "confirmed"
    /\ req[q].pc = "reread" /\ req[q].kind = "discard" =>
          drafts[req[q].draft].status = "discarded"

\* What a request has inserted it does not deny, and a 200 means that it has.
Told(q) ==
    /\ Inserted(q) => req[q].pc = "reread" \/ req[q].reply \in {"200", "500", "lost"}
    /\ req[q].kind = "confirm" /\ (req[q].pc = "reread" \/ req[q].reply = "200") => Inserted(q)

SoloInv ==
    /\ \A p, q \in Deciding : p = q
    /\ \A q \in Deciding : DecidedRow(q)
    /\ \A q \in Req : Told(q)

\* A solo step is a step.
LEMMA SoloIsNext == [SoloNext]_vars => [Next]_vars
  BY DEF SoloNext, Next

LEMMA SoloSpecIsSpec == SoloSpec => Spec
  BY SoloIsNext, PTL DEF SoloSpec, Spec

\* A confirming transaction inserts something, and did not before.
LEMMA WriteInserts ==
  ASSUME DraftInv, RecordInv, NEW r \in Req, ConfirmWrite(r)
  PROVE  /\ ~Inserted(r) /\ Inserted(r)'
         /\ req'[r].draft = req[r].draft /\ req'[r].origin = req[r].origin
         /\ req[r].draft \in DraftId /\ req[r].origin \in Req
<1>0. TypeOK /\ req[r] \in Request
  BY DEF DraftInv, TypeOK
<1>1. PICK last \in 0..MaxItems : ConfirmWrite(r)!2!(last)
  BY DEF ConfirmWrite
<1>2. /\ req[r].kind = "confirm" /\ req[r].pc = "write" /\ req[r].ids = {}
      /\ req[r].draft \in DraftId /\ req[r].batch \in Seq(Entry)
      /\ req[r].batch # <<>> /\ req[r].origin \in Req
  BY <1>0 DEF ConfirmWrite, Request, RecordInv
<1>3. last + 1 \in InsertedIds(last, req[r].batch)
  <2>1. Len(req[r].batch) \in Nat \ {0}
    BY <1>2
  <2> QED
    BY <2>1 DEF InsertedIds
<1>4. /\ req'[r].kind = "confirm" /\ req'[r].ids = InsertedIds(last, req[r].batch)
      /\ req'[r].draft = req[r].draft /\ req'[r].origin = req[r].origin
  BY <1>0, <1>1, <1>2 DEF TypeOK, Request
<1> QED
  BY <1>2, <1>3, <1>4 DEF Inserted

\* What a request served alone has after its step when it still decides.
LEMMA ServedDecides ==
  ASSUME DraftInv, RecordInv, NEW r \in Req, Serve(r),
         DecidedRow(r) \/ r \notin Deciding, Told(r)
  PROVE  /\ req'[r].pc \in {"write", "reread"} => DecidedRow(r)'
         /\ Told(r)'
<1>0. TypeOK /\ req[r] \in Request
  BY DEF DraftInv, TypeOK
<1>1. ASSUME NEW kind, NEW reply, Finish(r, kind, reply), kind = "confirm" => reply # "200"
      PROVE  req'[r].pc = "done" /\ Told(r)'
  <2>1. /\ req'[r].pc = "done" /\ req'[r].ids = {}
        /\ req'[r].kind = kind /\ req'[r].reply = reply
    BY <1>0, <1>1 DEF Finish, Idle, TypeOK
  <2> QED
    BY <1>1, <2>1 DEF Told, Inserted
<1>2. CASE IngestStructured(r) \/ IngestAsksLLM(r) \/ LLMReturns(r) \/ LLMFails(r)
  <2>1. ASSUME NEW batch, NEW at, req' = [req EXCEPT ![r] = ReadyToInsert(batch, at)]
        PROVE  req'[r].pc = at /\ req'[r].kind = "ingest"
    BY <1>0, <2>1 DEF ReadyToInsert, Idle, TypeOK
  <2>2. CASE IngestAsksLLM(r)
    <3>1. req'[r].pc = "llm" /\ req'[r].kind = "ingest"
      BY <1>0, <2>2 DEF IngestAsksLLM, Idle, TypeOK
    <3> QED
      BY <3>1 DEF Told, Inserted
  <2>3. CASE IngestStructured(r) \/ LLMReturns(r) \/ LLMFails(r)
    <3>1. req'[r].pc \in {"insert_pending", "insert_failed"} /\ req'[r].kind = "ingest"
      BY <2>1, <2>3 DEF IngestStructured, LLMReturns, LLMFails
    <3> QED
      BY <3>1 DEF Told, Inserted
  <2> QED
    BY <1>2, <2>2, <2>3
<1>3. CASE InsertDraft(r)
  <2>1. PICK last \in 0..(MaxDrafts - 1) : InsertDraft(r)!2!(last)
    BY <1>3 DEF InsertDraft
  <2>2. req'[r].pc = "done" /\ req'[r].kind = "ingest"
    BY <1>0, <2>1 DEF Idle, TypeOK
  <2> QED
    BY <2>2 DEF Told, Inserted
<1>4. ASSUME NEW kind \in {"confirm", "discard"}, NEW d \in DraftId, NEW batch,
             drafts[d].status = "pending", UNCHANGED drafts,
             req' = [req EXCEPT ![r] = ReadyToWrite(kind, d, batch)]
      PROVE  DecidedRow(r)' /\ Told(r)'
  <2>1. /\ req'[r].pc = "write" /\ req'[r].draft = d /\ req'[r].ids = {}
        /\ req'[r].origin = drafts[d].origin /\ req'[r].reply = "none"
    BY <1>0, <1>4 DEF ReadyToWrite, Idle, TypeOK
  <2> QED
    BY <1>4, <2>1 DEF DecidedRow, Told, Inserted
<1>5. CASE ConfirmRead(r)
  <2>1. PICK d \in DraftId : \E final \in Batches \cup {drafts[d].batch} :
           IF ConfirmVerdict(drafts[d], final) = "none"
           THEN req' = [req EXCEPT ![r] = ReadyToWrite("confirm", d, final)]
           ELSE Finish(r, "confirm", ConfirmVerdict(drafts[d], final))
    BY <1>5 DEF ConfirmRead
  <2>2. PICK final \in Batches \cup {drafts[d].batch} :
           IF ConfirmVerdict(drafts[d], final) = "none"
           THEN req' = [req EXCEPT ![r] = ReadyToWrite("confirm", d, final)]
           ELSE Finish(r, "confirm", ConfirmVerdict(drafts[d], final))
    BY <2>1
  <2>3. CASE ConfirmVerdict(drafts[d], final) = "none"
    <3>1. drafts[d].status = "pending"
      BY <1>0, <2>3 DEF ConfirmVerdict, TypeOK, DraftRow, Statuses
    <3> QED
      BY <1>4, <1>5, <2>2, <2>3, <3>1 DEF ConfirmRead
  <2>4. CASE ConfirmVerdict(drafts[d], final) # "none"
    <3>1. ConfirmVerdict(drafts[d], final) # "200"
      BY DEF ConfirmVerdict
    <3> QED
      BY <1>1, <2>2, <2>4, <3>1
  <2> QED
    BY <2>3, <2>4
<1>6. CASE DiscardRead(r)
  <2>1. PICK d \in DraftId :
           IF DiscardVerdict(drafts[d]) = "none"
           THEN req' = [req EXCEPT ![r] = ReadyToWrite("discard", d, <<>>)]
           ELSE Finish(r, "discard", DiscardVerdict(drafts[d]))
    BY <1>6 DEF DiscardRead
  <2>2. CASE DiscardVerdict(drafts[d]) = "none"
    <3>1. drafts[d].status = "pending"
      BY <1>0, <2>2 DEF DiscardVerdict, TypeOK, DraftRow, Statuses
    <3> QED
      BY <1>4, <1>6, <2>1, <2>2, <3>1 DEF DiscardRead
  <2>3. CASE DiscardVerdict(drafts[d]) # "none"
    BY <1>1, <2>1, <2>3
  <2> QED
    BY <2>2, <2>3
<1>7. CASE ConfirmWrite(r)
  <2>1. PICK last \in 0..MaxItems : ConfirmWrite(r)!2!(last)
    BY <1>7 DEF ConfirmWrite
  <2>2. req[r].pc = "write" /\ req[r].kind = "confirm" /\ req[r].draft \in DraftId
    BY <1>0, <1>7 DEF ConfirmWrite, Request
  <2>3. /\ req'[r].pc = "reread" /\ req'[r].kind = "confirm"
        /\ req'[r].draft = req[r].draft /\ req'[r].origin = req[r].origin
    BY <1>0, <2>1, <2>2 DEF TypeOK, Request
  <2>4. DecidedRow(r)
    BY <2>2 DEF Deciding
  <2>5. /\ drafts'[req[r].draft].status = "confirmed"
        /\ drafts'[req[r].draft].origin = req[r].origin
    BY <1>0, <2>1, <2>2, <2>4 DEF DecidedRow, ConfirmedRow, TypeOK, DraftRow
  <2>6. Inserted(r)'
    BY <1>7, WriteInserts
  <2> QED
    BY <2>3, <2>5, <2>6 DEF DecidedRow, Told
<1>8. CASE DiscardWrite(r)
  <2>2. req[r].pc = "write" /\ req[r].kind = "discard" /\ req[r].draft \in DraftId
    BY <1>0, <1>8 DEF DiscardWrite, Request
  <2>3. /\ req'[r].pc = "reread" /\ req'[r].kind = "discard"
        /\ req'[r].draft = req[r].draft /\ req'[r].origin = req[r].origin
    BY <1>0, <1>8, <2>2 DEF DiscardWrite, TypeOK, Request
  <2>4. DecidedRow(r)
    BY <2>2 DEF Deciding
  <2>5. /\ drafts'[req[r].draft].status = "discarded"
        /\ drafts'[req[r].draft].origin = req[r].origin
    BY <1>0, <1>8, <2>2, <2>4 DEF DiscardWrite, DecidedRow, DiscardedRow, TypeOK, DraftRow
  <2> QED
    BY <2>3, <2>5 DEF DecidedRow, Told, Inserted
<1>9. CASE Answer(r)
  <2>1. req[r].pc = "reread" /\ DecidedRow(r) /\ req[r].kind \in {"confirm", "discard"}
    BY <1>0, <1>9 DEF Answer, Deciding, Request
  <2>2. Told(r) /\ (req[r].kind = "confirm" => Inserted(r))
    BY <2>1 DEF Told
  <2>3. /\ req'[r].pc = "done" /\ req'[r].reply \in {"200", "500"}
        /\ req'[r].kind = req[r].kind /\ req'[r].ids = req[r].ids
    BY <1>0, <1>9 DEF Answer, TypeOK, Request
  <2> QED
    BY <2>2, <2>3 DEF Told, Inserted
<1> QED
  BY <1>1, <1>2, <1>3, <1>5, <1>6, <1>7, <1>8, <1>9
     DEF Serve, IngestRefused, Purge, CreateTask, DeleteTask, HandlerRaises

\* With one decision at a time, the invariant is inductive.
LEMMA NextSoloInv == DraftInv /\ RecordInv /\ SoloInv /\ [SoloNext]_vars => SoloInv'
<1> SUFFICES ASSUME DraftInv, RecordInv, SoloInv, [SoloNext]_vars PROVE SoloInv'
  OBVIOUS
<1>0. TypeOK
  BY DEF DraftInv
<1>1. ASSUME NEW r \in Req, Serve(r), Deciding \subseteq {r} PROVE SoloInv'
  <2>1. \A q \in Req : q # r => req'[q] = req[q]
    BY <1>0, <1>1, OthersWait
  <2>2. /\ req'[r].pc \in {"write", "reread"} => DecidedRow(r)'
        /\ Told(r)'
    BY <1>1, ServedDecides DEF SoloInv
  <2>3. \A q \in Deciding' : q = r
    BY <1>1, <2>1 DEF Deciding
  <2>4. \A q \in Deciding' : req'[q].pc \in {"write", "reread"}
    BY DEF Deciding
  <2>5. ASSUME NEW q \in Req PROVE Told(q)'
    BY <2>1, <2>2 DEF SoloInv, Told, Inserted
  <2> QED
    BY <2>2, <2>3, <2>4, <2>5 DEF SoloInv
<1>2. CASE CleanupExpired /\ Deciding = {}
  BY <1>2 DEF CleanupExpired, SoloInv, Deciding, Told, Inserted
<1>3. CASE Restart
  <2>1. ASSUME NEW q \in Req
        PROVE  \/ req'[q] = req[q] /\ req[q].pc \in {"idle", "done"}
               \/ /\ req'[q].pc = "done" /\ req'[q].reply = "lost"
    BY <1>0, <1>3 DEF Restart, InFlight, TypeOK, Request
  <2>2. Deciding' = {}
    BY <2>1 DEF Deciding
  <2>3. ASSUME NEW q \in Req PROVE Told(q)'
    BY <2>1 DEF SoloInv, Told, Inserted
  <2> QED
    BY <2>2, <2>3 DEF SoloInv
<1>4. CASE Tick \/ UNCHANGED vars
  BY <1>4 DEF Tick, vars, SoloInv, Deciding, DecidedRow, Told, Inserted
<1> QED
  BY <1>1, <1>2, <1>3, <1>4 DEF SoloNext

LEMMA SoloInvHolds == SoloSpec => []SoloInv
<1>1. Init => SoloInv
  BY DEF Init, Idle, SoloInv, Deciding, Told, Inserted
<1> QED
  BY <1>1, NextSoloInv, SoloSpecIsSpec, DraftInvHolds, RecordInvHolds, PTL DEF SoloSpec

-----------------------------------------------------------------------------
(* What a request leaves behind.                                           *)

\* q leaves as much as before, and of the same draft.
LeavesTheSame(q) ==
    /\ Ingested(q)' <=> Ingested(q)
    /\ Inserted(q)' <=> Inserted(q)
    /\ Ingested(q) \/ Inserted(q) => /\ req'[q].draft = req[q].draft
                                     /\ req'[q].origin = req[q].origin

\* Only InsertDraft and ConfirmWrite make a request leave anything.
LEMMA OthersLeaveNothing ==
  ASSUME TypeOK, RecordInv, StartInv, [Next]_vars, NEW q \in Req,
         ~InsertDraft(q), ~ConfirmWrite(q)
  PROVE  LeavesTheSame(q)
<1>0. req[q] \in Request
  BY DEF TypeOK
<1>1. CASE req'[q] = req[q]
  BY <1>1 DEF LeavesTheSame, Ingested, Inserted
<1>2. ASSUME req[q].pc \notin {"reread", "done"} PROVE ~Inserted(q)
  BY <1>2 DEF RecordInv, Inserted
<1>3. ASSUME req[q].pc \in Unbound PROVE ~Ingested(q) /\ ~Inserted(q)
  BY <1>2, <1>3 DEF StartInv, Ingested, Unbound
<1>4. ASSUME req[q].pc \in {"write", "reread"} PROVE ~Ingested(q)
  BY <1>0, <1>4 DEF Request, Ingested
<1>5. ASSUME NEW kind, NEW reply, Finish(q, kind, reply),
             req[q].pc \in Unbound \cup {"write"}
      PROVE  LeavesTheSame(q)
  <2>1. req'[q].draft = 0 /\ req'[q].ids = {}
    BY <1>0, <1>5, FinishStart
  <2> QED
    BY <1>2, <1>3, <1>4, <1>5, <2>1 DEF LeavesTheSame, Ingested, Inserted, Unbound
<1>6. CASE IngestStructured(q) \/ LLMReturns(q) \/ LLMFails(q)
  <2>1. ASSUME NEW batch, NEW at, req' = [req EXCEPT ![q] = ReadyToInsert(batch, at)]
        PROVE  req'[q].draft = 0 /\ req'[q].ids = {}
    BY <1>0, <2>1 DEF ReadyToInsert, Idle, TypeOK
  <2>2. req'[q].draft = 0 /\ req'[q].ids = {}
    BY <1>6, <2>1 DEF IngestStructured, LLMReturns, LLMFails
  <2>3. req[q].pc \in Unbound
    BY <1>6 DEF IngestStructured, LLMReturns, LLMFails, Begins, Unbound
  <2> QED
    BY <1>3, <2>2, <2>3 DEF LeavesTheSame, Ingested, Inserted
<1>7. CASE IngestAsksLLM(q)
  <2>1. req'[q].draft = 0 /\ req'[q].ids = {} /\ req[q].pc \in Unbound
    BY <1>0, <1>7 DEF IngestAsksLLM, Idle, TypeOK, Begins, Unbound
  <2> QED
    BY <1>3, <2>1 DEF LeavesTheSame, Ingested, Inserted
<1>8. ASSUME NEW kind \in {"confirm", "discard"}, NEW d, NEW batch,
             req' = [req EXCEPT ![q] = ReadyToWrite(kind, d, batch)],
             req[q].pc = "idle"
      PROVE  LeavesTheSame(q)
  <2>1. req'[q].kind = kind /\ req'[q].ids = {}
    BY <1>0, <1>8 DEF ReadyToWrite, Idle, TypeOK
  <2> QED
    BY <1>3, <1>8, <2>1 DEF LeavesTheSame, Ingested, Inserted, Unbound
<1>9. CASE ConfirmRead(q)
  BY <1>5, <1>8, <1>9 DEF ConfirmRead, Begins, Unbound
<1>10. CASE DiscardRead(q)
  BY <1>5, <1>8, <1>10 DEF DiscardRead, Begins, Unbound
<1>11. ASSUME /\ req'[q].kind = req[q].kind /\ req'[q].draft = req[q].draft
              /\ req'[q].origin = req[q].origin /\ req'[q].ids = req[q].ids
       PROVE  LeavesTheSame(q)
  BY <1>11 DEF LeavesTheSame, Ingested, Inserted
<1>12. CASE DiscardWrite(q) \/ Answer(q)
  BY <1>0, <1>11, <1>12 DEF DiscardWrite, Answer, TypeOK, Request
<1>13. CASE Restart
  BY <1>0, <1>11, <1>13 DEF Restart, TypeOK, Request
<1>14. CASE CleanupExpired \/ Tick \/ UNCHANGED vars
  BY <1>1, <1>14 DEF CleanupExpired, Tick, vars
<1>15. CASE Serve(q)
  BY <1>5, <1>6, <1>7, <1>9, <1>10, <1>12, <1>15
     DEF Serve, Begins, IngestRefused, Purge, CreateTask, DeleteTask, HandlerRaises,
         Unbound
<1> QED
  BY <1>1, <1>13, <1>14, <1>15, OthersWait DEF Next

\* An ingestion inserts one row where there was none, and is answered with it.
LEMMA InsertIngests ==
  ASSUME TypeOK, StartInv, NEW r \in Req, InsertDraft(r)
  PROVE  /\ ~Ingested(r) /\ Ingested(r)' /\ ~Inserted(r)' /\ req[r].pc # "done"
         /\ req'[r].draft \in DraftId
         /\ drafts[req'[r].draft].status = "absent"
         /\ drafts[req'[r].draft].origin = NoReq
         /\ drafts'[req'[r].draft].status \in {"pending", "failed"}
         /\ drafts'[req'[r].draft].origin = r
         /\ \A d \in DraftId : d # req'[r].draft => drafts'[d] = drafts[d]
<1>1. PICK last \in 0..(MaxDrafts - 1) : InsertDraft(r)!2!(last)
  BY DEF InsertDraft
<1>2. last + 1 \in DraftId /\ last + 1 # 0
  BY BoundsAssumption DEF DraftId
<1>3. req'[r].draft = last + 1 /\ req'[r].kind = "ingest" /\ req'[r].ids = {}
  BY <1>1 DEF Idle, TypeOK
<1>4. drafts[last + 1].status = "absent"
  BY <1>1, <1>2, BoundsAssumption DEF IsLastRowid, LiveDrafts, DraftId
<1>5. /\ drafts'[last + 1].status \in {"pending", "failed"}
      /\ drafts'[last + 1].origin = r
      /\ \A d \in DraftId : d # last + 1 => drafts'[d] = drafts[d]
  BY <1>1, <1>2 DEF TypeOK
<1>6. req[r].draft = 0 /\ req[r].pc # "done"
  BY DEF InsertDraft, StartInv, Unbound
<1> QED
  BY <1>2, <1>3, <1>4, <1>5, <1>6 DEF StartInv, Ingested, Inserted

-----------------------------------------------------------------------------
(* A confirmation has its record.                                          *)

NothingPurged == \A r \in Req : req[r].kind # "purge"

Recorded(q) ==
    Inserted(q) => /\ req[q].draft \in DraftId
                   /\ NothingPurged => drafts[req[q].draft].status = "confirmed"

SoloStep == DraftInv /\ RecordInv /\ StartInv /\ SoloInv /\ [SoloNext]_vars

\* The rows that one solo step may change, and how.
LEMMA SoloRows ==
  ASSUME SoloStep, NEW d \in DraftId
  PROVE  \/ drafts'[d] = drafts[d]
         \/ \E r \in Req : InsertDraft(r) /\ d = req'[r].draft
         \/ \E r \in Req : ConfirmWrite(r) /\ d = req[r].draft
         \/ \E r \in Req : DiscardWrite(r) /\ d = req[r].draft
         \/ (\E r \in Req : Purge(r)) /\ drafts'[d] = NoDraft
         \/ CleanupExpired /\ drafts'[d] = NoDraft /\ drafts[d].status # "confirmed"
<1>0. TypeOK
  BY DEF SoloStep, DraftInv
<1>1. ASSUME NEW r \in Req, InsertDraft(r), d # req'[r].draft
      PROVE  drafts'[d] = drafts[d]
  BY <1>0, <1>1, InsertIngests DEF SoloStep
<1>2. ASSUME NEW r \in Req, ConfirmWrite(r), d # req[r].draft
      PROVE  drafts'[d] = drafts[d]
  <2>1. PICK last \in 0..MaxItems : ConfirmWrite(r)!2!(last)
    BY <1>2 DEF ConfirmWrite
  <2> QED
    BY <1>0, <1>2, <2>1 DEF TypeOK
<1>3. ASSUME NEW r \in Req, DiscardWrite(r), d # req[r].draft
      PROVE  drafts'[d] = drafts[d]
  BY <1>0, <1>3 DEF DiscardWrite, TypeOK
<1>4. ASSUME NEW r \in Req, Purge(r)
      PROVE  drafts'[d] = drafts[d] \/ drafts'[d] = NoDraft
  BY <1>4 DEF Purge
<1>5. CASE CleanupExpired
  BY <1>5 DEF CleanupExpired, Expired
<1>6. ASSUME NEW r \in Req, Serve(r), ~InsertDraft(r), ~ConfirmWrite(r),
             ~DiscardWrite(r), ~Purge(r)
      PROVE  drafts'[d] = drafts[d]
  BY <1>6 DEF Serve, IngestRefused, IngestStructured, IngestAsksLLM, LLMReturns,
              LLMFails, ConfirmRead, DiscardRead, Answer, CreateTask, DeleteTask,
              HandlerRaises
<1>7. CASE Restart \/ Tick \/ UNCHANGED vars
  BY <1>7 DEF Restart, Tick, vars
<1> QED
  BY <1>1, <1>2, <1>3, <1>4, <1>5, <1>6, <1>7 DEF SoloStep, SoloNext

\* The row a write transaction meets is pending, and its draft's.
LEMMA WritesPending ==
  ASSUME SoloStep, NEW r \in Req, ConfirmWrite(r) \/ DiscardWrite(r)
  PROVE  /\ req[r].draft \in DraftId /\ req[r].origin \in Req
         /\ drafts[req[r].draft].status = "pending"
         /\ drafts[req[r].draft].origin = req[r].origin
<1>1. req[r].pc = "write" /\ req[r] \in Request
  BY DEF SoloStep, DraftInv, TypeOK, ConfirmWrite, DiscardWrite
<1>2. DecidedRow(r)
  BY <1>1 DEF SoloStep, SoloInv, Deciding
<1> QED
  BY <1>1, <1>2 DEF DecidedRow, Request

\* The row a confirming transaction leaves.
LEMMA ConfirmedNow ==
  ASSUME SoloStep, NEW r \in Req, ConfirmWrite(r)
  PROVE  /\ drafts'[req[r].draft].status = "confirmed"
         /\ drafts'[req[r].draft].origin = req[r].origin
<1>1. PICK last \in 0..MaxItems : ConfirmWrite(r)!2!(last)
  BY DEF ConfirmWrite
<1> QED
  BY <1>1, WritesPending DEF SoloStep, DraftInv, TypeOK, ConfirmedRow, DraftRow

\* The row a discarding transaction leaves.
LEMMA DiscardedNow ==
  ASSUME SoloStep, NEW r \in Req, DiscardWrite(r)
  PROVE  /\ drafts'[req[r].draft].status = "discarded"
         /\ drafts'[req[r].draft].origin = req[r].origin
  BY WritesPending
     DEF DiscardWrite, SoloStep, DraftInv, TypeOK, DiscardedRow, DraftRow

\* A confirmed row stays confirmed as long as nothing is purged.
LEMMA ConfirmedRowStays ==
  ASSUME SoloStep, NothingPurged', NEW d \in DraftId, drafts[d].status = "confirmed"
  PROVE  drafts'[d].status = "confirmed"
<1>0. TypeOK
  BY DEF SoloStep, DraftInv
<1>1. ASSUME NEW r \in Req, InsertDraft(r) PROVE d # req'[r].draft
  BY <1>0, <1>1, InsertIngests DEF SoloStep
<1>2. ASSUME NEW r \in Req, ConfirmWrite(r) \/ DiscardWrite(r) PROVE d # req[r].draft
  BY <1>2, WritesPending
<1>3. ASSUME NEW r \in Req, Purge(r) PROVE FALSE
  BY <1>0, <1>3, FinishStart DEF Purge, NothingPurged
<1> QED
  BY <1>1, <1>2, <1>3, SoloRows

\* What is confirmed keeps its row.
LEMMA NextRecorded ==
  ASSUME SoloStep, \A q \in Req : Recorded(q), NEW q \in Req
  PROVE  Recorded(q)'
<1>0. TypeOK /\ [Next]_vars
  BY SoloIsNext DEF SoloStep, DraftInv
<1>1. NothingPurged' => NothingPurged
  BY <1>0, ServedOnce DEF SoloStep, StartInv, DoneForever, NothingPurged
<1>2. CASE ConfirmWrite(q)
  BY <1>2, WriteInserts, ConfirmedNow DEF SoloStep, Recorded
<1>3. CASE InsertDraft(q)
  BY <1>0, <1>3, InsertIngests DEF SoloStep, Recorded
<1>4. CASE LeavesTheSame(q)
  <2> SUFFICES ASSUME Inserted(q)'
               PROVE  /\ req'[q].draft \in DraftId
                      /\ NothingPurged' => drafts'[req'[q].draft].status = "confirmed"
    BY DEF Recorded
  <2>1. Inserted(q) /\ req'[q].draft = req[q].draft /\ req[q].draft \in DraftId
    BY <1>4 DEF LeavesTheSame, Recorded
  <2> QED
    BY <1>1, <2>1, ConfirmedRowStays DEF Recorded
<1> QED
  BY <1>0, <1>2, <1>3, <1>4, OthersLeaveNothing DEF SoloStep

LEMMA RecordedHolds == SoloSpec => [](\A q \in Req : Recorded(q))
<1>1. Init => \A q \in Req : Recorded(q)
  BY DEF Init, Idle, Recorded, Inserted
<1>2. /\ DraftInv /\ RecordInv /\ StartInv /\ SoloInv /\ [SoloNext]_vars
      /\ \A q \in Req : Recorded(q)
      => (\A q \in Req : Recorded(q))'
  BY NextRecorded DEF SoloStep
<1> QED
  BY <1>1, <1>2, SoloSpecIsSpec, SoloInvHolds, DraftInvHolds, RecordInvHolds,
     StartInvHolds, PTL DEF SoloSpec

\* "The only record of what was recognised and which tasks came of it" is
\* there for every confirmation, as long as nothing is purged.
THEOREM ConfirmationRecorded == SoloSpec => []ConfirmationHasRecord
<1>1. (\A q \in Req : Recorded(q)) => ConfirmationHasRecord
  BY DEF Recorded, Inserted, NothingPurged, ConfirmationHasRecord
<1> QED
  BY <1>1, RecordedHolds, PTL

-----------------------------------------------------------------------------
(* A draft tells what was done.                                            *)

\* The row of d says whether its tasks were inserted, and which they are.
RowTells(d) ==
    drafts[d].status # "absent" =>
        /\ drafts[d].status = "confirmed" <=> ConfirmsOf(drafts[d].origin) # {}
        /\ \A q \in ConfirmsOf(drafts[d].origin) :
              drafts[d].created = req[q].ids /\ drafts[d].batch = req[q].batch

\* In a step in which q does not insert, q has confirmed what it had before.
LEMMA SameConfirms ==
  ASSUME SoloStep, NEW q \in Req, ~InsertDraft(q), ~ConfirmWrite(q), NEW u \in Req
  PROVE  /\ q \in ConfirmsOf(u)' <=> q \in ConfirmsOf(u)
         /\ q \in ConfirmsOf(u) => req'[q].ids = req[q].ids /\ req'[q].batch = req[q].batch
<1>1. TypeOK /\ [Next]_vars
  BY SoloIsNext DEF SoloStep, DraftInv
<1>2. LeavesTheSame(q)
  BY <1>1, OthersLeaveNothing DEF SoloStep
<1>3. InsertedForever
  BY <1>1, StepInsertedForever DEF SoloStep
<1> QED
  BY <1>2, <1>3 DEF LeavesTheSame, Inserted, InsertedForever, ConfirmsOf

\* A draft row that a step leaves as it is goes on telling the truth.
LEMMA UntouchedTells ==
  ASSUME SoloStep, NEW d \in DraftId, RowTells(d), drafts'[d] = drafts[d],
         \A r \in Req : InsertDraft(r) => d # req'[r].draft,
         \A r \in Req : ConfirmWrite(r) => d # req[r].draft
  PROVE  RowTells(d)'
<1> SUFFICES ASSUME drafts[d].status # "absent" PROVE RowTells(d)'
  BY DEF RowTells
<1> DEFINE u == drafts[d].origin
<1>0. TypeOK
  BY DEF SoloStep, DraftInv
<1>1. u \in Req /\ req[u].draft = d
  BY DEF SoloStep, DraftInv, RowsKnowTheirIngestion
<1>2. ASSUME NEW q \in Req, InsertDraft(q)
      PROVE  q \notin ConfirmsOf(u) /\ q \notin ConfirmsOf(u)'
  <2>1. ~Inserted(q)' /\ req[q].pc # "done"
    BY <1>0, <1>2, InsertIngests DEF SoloStep
  <2>2. req[q].pc # "reread"
    BY <1>2 DEF InsertDraft
  <2> QED
    BY <2>1, <2>2 DEF SoloStep, RecordInv, Inserted, ConfirmsOf
<1>3. ASSUME NEW q \in Req, ConfirmWrite(q)
      PROVE  q \notin ConfirmsOf(u) /\ q \notin ConfirmsOf(u)'
  <2>1. ~Inserted(q) /\ req'[q].origin = req[q].origin /\ req[q].origin \in Req
    BY <1>3, WriteInserts DEF SoloStep
  <2>2. req[req[q].origin].draft = req[q].draft
    BY <2>1, NoReqAssumption DEF SoloStep, DraftInv, RowsKnowTheirIngestion
  <2>3. req[q].origin # u
    BY <1>1, <1>3, <2>2
  <2> QED
    BY <2>1, <2>3 DEF Inserted, ConfirmsOf
<1>4. ASSUME NEW q \in Req
      PROVE  /\ q \in ConfirmsOf(u)' <=> q \in ConfirmsOf(u)
             /\ q \in ConfirmsOf(u) => req'[q].ids = req[q].ids /\ req'[q].batch = req[q].batch
  BY <1>1, <1>2, <1>3, <1>4, SameConfirms
<1>5. ConfirmsOf(u)' = ConfirmsOf(u)
  BY <1>4 DEF ConfirmsOf
<1>6. u' = u
  OBVIOUS
<1>7. ConfirmsOf(drafts[d].origin)' = ConfirmsOf(drafts[d].origin)
  BY <1>5, <1>6 DEF ConfirmsOf
<1> QED
  BY <1>4, <1>7 DEF RowTells, ConfirmsOf

\* Every row goes on telling the truth.
LEMMA NextTells ==
  ASSUME SoloStep, NEW d \in DraftId, RowTells(d)
  PROVE  RowTells(d)'
<1>0. TypeOK
  BY DEF SoloStep, DraftInv
<1>1. ASSUME NEW r \in Req, InsertDraft(r), d = req'[r].draft PROVE RowTells(d)'
  <2>1. /\ drafts'[d].status \in {"pending", "failed"} /\ drafts'[d].origin = r
        /\ ~Inserted(r)' /\ req[r].pc # "done"
    BY <1>0, <1>1, InsertIngests DEF SoloStep
  <2>2. ASSUME NEW q \in Req, q # r PROVE req'[q] = req[q]
    BY <1>0, <1>1, <2>2, OthersWait DEF Serve
  <2>3. ASSUME NEW q \in Req, req[q].origin = r PROVE FALSE
    BY <2>1, <2>3, NoReqAssumption DEF SoloStep, DraftInv, RowsKnowTheirIngestion
  <2>4. ConfirmsOf(r)' = {}
    BY <2>1, <2>2, <2>3 DEF ConfirmsOf, Inserted
  <2>5. ConfirmsOf(drafts[d].origin)' = {}
    BY <2>1, <2>4 DEF ConfirmsOf
  <2> QED
    BY <2>1, <2>5 DEF RowTells
<1>2. ASSUME NEW r \in Req, ConfirmWrite(r), d = req[r].draft PROVE RowTells(d)'
  <2>1. PICK last \in 0..MaxItems : ConfirmWrite(r)!2!(last)
    BY <1>2 DEF ConfirmWrite
  <2>2. /\ drafts[d].status = "pending" /\ drafts[d].origin = req[r].origin
        /\ req[r].origin \in Req /\ drafts[d] \in DraftRow
    BY <1>0, <1>2, WritesPending DEF TypeOK
  <2>3. /\ drafts'[d].status = "confirmed" /\ drafts'[d].origin = req[r].origin
        /\ drafts'[d].created = InsertedIds(last, req[r].batch)
        /\ drafts'[d].batch = req[r].batch
    BY <1>0, <1>2, <2>1, <2>2 DEF TypeOK, DraftRow, ConfirmedRow
  <2>4. /\ req'[r].ids = InsertedIds(last, req[r].batch) /\ req'[r].batch = req[r].batch
        /\ Inserted(r)' /\ req'[r].origin = req[r].origin
    BY <1>0, <1>2, <2>1, WriteInserts DEF SoloStep, TypeOK, Request
  <2>5. ConfirmsOf(req[r].origin) = {}
    BY <2>2 DEF RowTells
  <2>6. ASSUME NEW q \in Req, q # r PROVE req'[q] = req[q]
    BY <1>0, <1>2, <2>6, OthersWait DEF Serve
  <2>7. \A q \in ConfirmsOf(drafts[d].origin)' : q = r
    BY <2>2, <2>3, <2>5, <2>6 DEF ConfirmsOf
  <2>8. r \in ConfirmsOf(drafts[d].origin)'
    BY <2>3, <2>4 DEF ConfirmsOf, Inserted
  <2> QED
    BY <2>3, <2>4, <2>7, <2>8 DEF RowTells
<1>3. ASSUME NEW r \in Req, DiscardWrite(r), d = req[r].draft PROVE RowTells(d)'
  <2>1. /\ drafts[d].status = "pending" /\ drafts[d].origin = req[r].origin
        /\ drafts[d].origin \in Req
    BY <1>3, WritesPending
  <2>2. drafts'[d].status = "discarded" /\ drafts'[d].origin = req[r].origin
    BY <1>3, DiscardedNow
  <2>3. ConfirmsOf(drafts[d].origin) = {}
    BY <2>1 DEF RowTells
  <2>4. ASSUME NEW q \in Req PROVE ~InsertDraft(q) /\ ~ConfirmWrite(q)
    <3>1. req[r].pc = "write" /\ req[r].kind = "discard"
      BY <1>3 DEF DiscardWrite
    <3>2. CASE q = r
      BY <3>1, <3>2 DEF InsertDraft, ConfirmWrite
    <3>3. CASE q # r
      <4>1. Serve(r)
        BY <1>3 DEF Serve
      <4>2. req'[q] = req[q] /\ req[q] \in Request
        BY <1>0, <3>3, <4>1, OthersWait DEF TypeOK
      <4>3. InsertDraft(q) => req'[q].pc = "done"
        BY <1>0 DEF InsertDraft, Idle, TypeOK
      <4>4. ConfirmWrite(q) => req'[q].pc = "reread"
        BY <1>0 DEF ConfirmWrite, TypeOK, Request
      <4> QED
        BY <4>2, <4>3, <4>4 DEF InsertDraft, ConfirmWrite
    <3> QED
      BY <3>2, <3>3
  <2>5. ConfirmsOf(drafts[d].origin)' = {}
    <3>1. PICK u \in Req : u = drafts[d].origin
      BY <2>1
    <3>2. ASSUME NEW q \in Req PROVE q \notin ConfirmsOf(u)'
      BY <2>3, <2>4, <3>1, SameConfirms
    <3>3. drafts'[d].origin = u
      BY <2>1, <2>2, <3>1
    <3> QED
      BY <3>2, <3>3 DEF ConfirmsOf
  <2> QED
    BY <2>2, <2>5 DEF RowTells
<1>4. CASE drafts'[d] = NoDraft
  BY <1>4 DEF NoDraft, RowTells
<1> QED
  BY <1>1, <1>2, <1>3, <1>4, SoloRows, UntouchedTells

LEMMA RowsTell == SoloSpec => [](\A d \in DraftId : RowTells(d))
<1>1. Init => \A d \in DraftId : RowTells(d)
  BY DEF Init, NoDraft, RowTells
<1>2. /\ DraftInv /\ RecordInv /\ StartInv /\ SoloInv /\ [SoloNext]_vars
      /\ \A d \in DraftId : RowTells(d)
      => (\A d \in DraftId : RowTells(d))'
  BY NextTells DEF SoloStep
<1> QED
  BY <1>1, <1>2, SoloSpecIsSpec, SoloInvHolds, DraftInvHolds, RecordInvHolds,
     StartInvHolds, PTL DEF SoloSpec

\* An answer that is lost, or that fails after the commit, hides nothing: the
\* draft is confirmed exactly if its tasks were inserted, and names them; and
\* no refusal is the answer of a confirmation that inserted.
THEOREM OutcomeRecorded == SoloSpec => []OutcomeIsOnRecord
<1>1. SoloInv /\ (\A d \in DraftId : RowTells(d)) => OutcomeIsOnRecord
  BY DEF SoloInv, Told, Inserted, RowTells, LiveDrafts, OutcomeIsOnRecord
<1> QED
  BY <1>1, SoloInvHolds, RowsTell, PTL

-----------------------------------------------------------------------------
(* The drafts implement DraftLifecycle.                                    *)

\* Where the draft of an ingestion is: its row, if the row at its id is still
\* its own.
LEMMA StateOfRow ==
  DraftInv /\ StartInv =>
    \A u \in Req :
      /\ ~Ingested(u) => StateOf(u) = "new"
      /\ Ingested(u) => /\ req[u].draft \in DraftId
                        /\ IF drafts[req[u].draft].origin = u
                           THEN /\ StateOf(u) = drafts[req[u].draft].status
                                /\ StateOf(u) \in Statuses
                           ELSE StateOf(u) = "removed"
<1> SUFFICES ASSUME DraftInv, StartInv, NEW u \in Req
             PROVE  /\ ~Ingested(u) => StateOf(u) = "new"
                    /\ Ingested(u) =>
                         /\ req[u].draft \in DraftId
                         /\ IF drafts[req[u].draft].origin = u
                            THEN /\ StateOf(u) = drafts[req[u].draft].status
                                 /\ StateOf(u) \in Statuses
                            ELSE StateOf(u) = "removed"
  OBVIOUS
<1>0. TypeOK /\ req[u] \in Request
  BY DEF DraftInv, TypeOK
<1>1. ASSUME ~Ingested(u) PROVE StateOf(u) = "new"
  BY <1>1 DEF Ingested, StateOf
<1>2. ASSUME NEW d \in RowsOf(u) PROVE d = req[u].draft /\ drafts[d].status # "absent"
  BY <1>2, NoReqAssumption DEF RowsOf, DraftInv, RowsKnowTheirIngestion, StartInv
<1>3. ASSUME Ingested(u) PROVE req[u].draft \in DraftId
  BY <1>0, <1>3, BoundsAssumption DEF Request, Ingested, DraftId
<1>4. CASE Ingested(u) /\ drafts[req[u].draft].origin = u
  <2>1. req[u].draft \in RowsOf(u)
    BY <1>3, <1>4 DEF RowsOf
  <2>2. StateOf(u) = drafts[req[u].draft].status
    BY <1>4, <2>1 DEF StateOf, Ingested
  <2>3. drafts[req[u].draft] \in DraftRow
    BY <1>0, <1>3, <1>4 DEF TypeOK
  <2> QED
    BY <1>2, <1>3, <1>4, <2>1, <2>2, <2>3 DEF DraftRow
<1>5. CASE Ingested(u) /\ drafts[req[u].draft].origin # u
  <2>1. RowsOf(u) = {}
    BY <1>2, <1>5 DEF RowsOf
  <2> QED
    BY <1>3, <1>5, <2>1 DEF StateOf, Ingested
<1> QED
  BY <1>1, <1>4, <1>5

\* The same of the state after a step.
LEMMA StateOfRowNext ==
  (DraftInv /\ StartInv)' =>
    \A u \in Req :
      /\ ~Ingested(u)' => StateOf(u)' = "new"
      /\ Ingested(u)' => /\ req'[u].draft \in DraftId
                         /\ IF drafts'[req'[u].draft].origin = u
                            THEN /\ StateOf(u)' = drafts'[req'[u].draft].status
                                 /\ StateOf(u)' \in Statuses
                            ELSE StateOf(u)' = "removed"
<1> DEFINE P == DraftInv /\ StartInv =>
                  \A u \in Req :
                    /\ ~Ingested(u) => StateOf(u) = "new"
                    /\ Ingested(u) =>
                         /\ req[u].draft \in DraftId
                         /\ IF drafts[req[u].draft].origin = u
                            THEN /\ StateOf(u) = drafts[req[u].draft].status
                                 /\ StateOf(u) \in Statuses
                            ELSE StateOf(u) = "removed"
<1>1. P
  BY StateOfRow
<1>2. P'
  BY <1>1, PTL
<1> QED
  BY <1>2

SoloMapped == SoloStep /\ DraftInv' /\ StartInv'

\* An ingestion whose row stays what it is stays where it is.
LEMMA SameState ==
  ASSUME SoloMapped, NEW u \in Req, LeavesTheSame(u),
         Ingested(u) => \/ drafts'[req[u].draft] = drafts[req[u].draft]
                        \/ /\ drafts[req[u].draft].origin # u
                           /\ drafts'[req[u].draft].origin # u
  PROVE  StateOf(u)' = StateOf(u)
<1>1. CASE ~Ingested(u)
  BY <1>1, StateOfRow, StateOfRowNext DEF SoloMapped, SoloStep, LeavesTheSame
<1>2. CASE Ingested(u)
  <2>1. Ingested(u)' /\ req'[u].draft = req[u].draft
    BY <1>2 DEF LeavesTheSame
  <2> QED
    BY <1>2, <2>1, StateOfRow, StateOfRowNext DEF SoloMapped, SoloStep
<1> QED
  BY <1>1, <1>2

\* Requests that insert nothing turn no draft into tasks.
LEMMA SameTurned ==
  ASSUME \A q \in Req : /\ Inserted(q)' <=> Inserted(q)
                        /\ Inserted(q) => req'[q].origin = req[q].origin,
         NEW u
  PROVE  ConfirmsOf(u)' = ConfirmsOf(u)
  BY DEF ConfirmsOf, Inserted

\* Inserting a draft row creates the draft.
LEMMA InsertCreates ==
  ASSUME SoloMapped, NEW r \in Req, InsertDraft(r)
  PROVE  Lifecycle!Create(r)
<1>0. TypeOK /\ StartInv /\ RecordInv /\ [Next]_vars /\ Serve(r)
  BY SoloIsNext DEF SoloMapped, SoloStep, DraftInv, Serve
<1>1. /\ ~Ingested(r) /\ Ingested(r)' /\ ~Inserted(r)'
      /\ req'[r].draft \in DraftId
      /\ drafts[req'[r].draft].origin = NoReq
      /\ drafts'[req'[r].draft].status \in {"pending", "failed"}
      /\ drafts'[req'[r].draft].origin = r
      /\ \A d \in DraftId : d # req'[r].draft => drafts'[d] = drafts[d]
  BY <1>0, InsertIngests
<1>2. ~Inserted(r)
  BY <1>0 DEF InsertDraft, RecordInv, Inserted
<1>3. ASSUME NEW q \in Req, q # r PROVE LeavesTheSame(q)
  BY <1>0, <1>3, OthersWait DEF LeavesTheSame, Ingested, Inserted
<1>4. StateOf(r) = "new" /\ StateOf(r)' \in {"pending", "failed"}
  BY <1>1, StateOfRow, StateOfRowNext DEF SoloMapped, SoloStep
<1>5. ASSUME NEW q \in Req, q # r PROVE StateOf(q)' = StateOf(q)
  <2>1. ASSUME Ingested(q) PROVE req[q].draft \in DraftId
    BY <2>1, StateOfRow DEF SoloMapped, SoloStep
  <2> QED
    BY <1>1, <1>3, <1>5, <2>1, SameState, NoReqAssumption
<1>6. ASSUME NEW u \in Req PROVE ConfirmsOf(u)' = ConfirmsOf(u)
  <2>1. \A q \in Req : /\ Inserted(q)' <=> Inserted(q)
                       /\ Inserted(q) => req'[q].origin = req[q].origin
    BY <1>1, <1>2, <1>3 DEF LeavesTheSame
  <2> QED
    BY <2>1, SameTurned
<1>7. [u \in Req |-> StateOf(u)]'
        = [[u \in Req |-> StateOf(u)] EXCEPT ![r] = StateOf(r)']
  BY <1>5
<1> QED
  BY <1>4, <1>6, <1>7 DEF Lifecycle!Create

\* The row that is written is the draft of the ingestion it came from.
LEMMA WrittenDraft ==
  ASSUME SoloMapped, NEW r \in Req, ConfirmWrite(r) \/ DiscardWrite(r),
         NEW u \in Req, u = req[r].origin
  PROVE  /\ r # u /\ req[r].draft \in DraftId
         /\ Ingested(u) /\ Ingested(u)'
         /\ req[u].draft = req[r].draft /\ req'[u].draft = req[r].draft
         /\ StateOf(u) = "pending"
         /\ \A q \in Req : q # u /\ q # r => StateOf(q)' = StateOf(q)
<1>0. TypeOK /\ StartInv /\ [Next]_vars /\ Serve(r) /\ DraftInv
  BY SoloIsNext DEF SoloMapped, SoloStep, DraftInv, Serve
<1> DEFINE d == req[r].draft
<1>1. d \in DraftId /\ u \in Req /\ drafts[d].status = "pending" /\ drafts[d].origin = u
  BY WritesPending DEF SoloMapped
<1>2. req[u].kind = "ingest" /\ req[u].pc = "done" /\ req[u].draft = d
  BY <1>0, <1>1 DEF DraftInv, RowsKnowTheirIngestion
<1>3. r # u /\ req'[u] = req[u]
  BY <1>0, <1>1, <1>2, OthersWait DEF ConfirmWrite, DiscardWrite
<1>4. d # 0
  BY <1>1, BoundsAssumption DEF DraftId
<1>5. Ingested(u) /\ Ingested(u)'
  BY <1>2, <1>3, <1>4 DEF Ingested
<1>6. StateOf(u) = "pending"
  BY <1>0, <1>1, <1>2, <1>5, StateOfRow
<1>7. drafts'[d].origin = u
  BY <1>1, ConfirmedNow, DiscardedNow DEF SoloMapped
<1>8. ASSUME NEW e \in DraftId, e # d PROVE drafts'[e] = drafts[e]
  <2>1. CASE DiscardWrite(r)
    BY <1>0, <1>8, <2>1 DEF DiscardWrite, TypeOK
  <2>2. CASE ConfirmWrite(r)
    <3>1. PICK last \in 0..MaxItems : ConfirmWrite(r)!2!(last)
      BY <2>2 DEF ConfirmWrite
    <3> QED
      BY <1>0, <1>8, <3>1 DEF TypeOK
  <2> QED
    BY <2>1, <2>2
<1>9. ASSUME NEW q \in Req, q # u, q # r PROVE StateOf(q)' = StateOf(q)
  <2>1. LeavesTheSame(q)
    BY <1>0, <1>9, OthersWait DEF LeavesTheSame, Ingested, Inserted
  <2>2. ASSUME Ingested(q) PROVE req[q].draft \in DraftId
    BY <1>0, <2>2, StateOfRow
  <2> QED
    BY <1>1, <1>7, <1>8, <1>9, <2>1, <2>2, SameState
<1> QED
  BY <1>1, <1>2, <1>3, <1>5, <1>6, <1>9

\* The request that writes is itself no ingestion, and no draft.
LEMMA WriterIsNoDraft ==
  ASSUME SoloMapped, NEW r \in Req, ConfirmWrite(r) \/ DiscardWrite(r)
  PROVE  StateOf(r)' = StateOf(r)
<1>0. TypeOK /\ DraftInv /\ StartInv /\ RecordInv /\ [Next]_vars /\ Serve(r)
  BY SoloIsNext DEF SoloMapped, SoloStep, DraftInv, Serve
<1>1. ~Ingested(r)
  BY DEF ConfirmWrite, DiscardWrite, Ingested
<1>2. CASE ConfirmWrite(r)
  <2>1. ~Ingested(r)'
    BY <1>0, <1>2, WriteInserts DEF Inserted, Ingested
  <2> QED
    BY <1>0, <1>1, <2>1, StateOfRow, StateOfRowNext DEF SoloMapped
<1>3. CASE DiscardWrite(r)
  <2>1. ~Ingested(r)'
    BY <1>0, <1>3 DEF DiscardWrite, TypeOK, Request, Ingested
  <2> QED
    BY <1>0, <1>1, <2>1, StateOfRow, StateOfRowNext DEF SoloMapped
<1> QED
  BY <1>2, <1>3

\* The confirming transaction confirms the draft, and turns it into tasks for
\* the first time.
LEMMA WriteConfirms ==
  ASSUME SoloMapped, NEW r \in Req, ConfirmWrite(r)
  PROVE  Lifecycle!Confirm(req[r].origin)
<1>0. TypeOK /\ DraftInv /\ StartInv /\ RecordInv /\ [Next]_vars /\ Serve(r)
  BY SoloIsNext DEF SoloMapped, SoloStep, DraftInv, Serve
<1>1. PICK u \in Req : u = req[r].origin
  BY WritesPending DEF SoloMapped
<1>2. /\ r # u /\ req[r].draft \in DraftId
      /\ Ingested(u) /\ Ingested(u)'
      /\ req[u].draft = req[r].draft /\ req'[u].draft = req[r].draft
      /\ StateOf(u) = "pending"
      /\ \A q \in Req : q # u /\ q # r => StateOf(q)' = StateOf(q)
  BY <1>1, WrittenDraft
<1>3. /\ drafts'[req[r].draft].status = "confirmed"
      /\ drafts'[req[r].draft].origin = u
  BY <1>1, ConfirmedNow DEF SoloMapped
<1>4. StateOf(u)' = "confirmed"
  BY <1>2, <1>3, StateOfRowNext DEF SoloMapped
<1>5. \A q \in Req : q # u => StateOf(q)' = StateOf(q)
  BY <1>2, WriterIsNoDraft
<1>6. /\ ~Inserted(r) /\ Inserted(r)' /\ req'[r].origin = u
      /\ \A q \in Req : q # r => req'[q] = req[q]
  BY <1>0, <1>1, WriteInserts, OthersWait
<1>7. ConfirmsOf(u) = {}
  BY <1>0, <1>1, WritesPending DEF SoloMapped, DraftInv, UnconfirmedWritesNothing
<1>8. ConfirmsOf(u)' = {r}
  BY <1>6, <1>7 DEF ConfirmsOf, Inserted
<1>9. ASSUME NEW q \in Req, q # u PROVE ConfirmsOf(q)' = ConfirmsOf(q)
  BY <1>6, <1>9 DEF ConfirmsOf, Inserted
<1>10. Cardinality(ConfirmsOf(u)') = Cardinality(ConfirmsOf(u)) + 1
  <2>1. Cardinality(ConfirmsOf(u)) = 0 /\ Cardinality(ConfirmsOf(u)') = 1
    BY <1>7, <1>8, FS_EmptySet, FS_Singleton
  <2> QED
    BY <2>1
<1>11. [q \in Req |-> StateOf(q)]'
         = [[q \in Req |-> StateOf(q)] EXCEPT ![u] = "confirmed"]
  BY <1>4, <1>5
<1>12. [q \in Req |-> Cardinality(ConfirmsOf(q))]'
         = [[q \in Req |-> Cardinality(ConfirmsOf(q))] EXCEPT ![u] = @ + 1]
  BY <1>9, <1>10
<1>13. Lifecycle!Confirm(u)
  BY <1>2, <1>11, <1>12 DEF Lifecycle!Confirm
<1> QED
  BY <1>1, <1>13

\* The discarding transaction discards the draft.
LEMMA WriteDiscards ==
  ASSUME SoloMapped, NEW r \in Req, DiscardWrite(r)
  PROVE  Lifecycle!Discard(req[r].origin)
<1>0. TypeOK /\ DraftInv /\ StartInv /\ RecordInv /\ [Next]_vars /\ Serve(r)
  BY SoloIsNext DEF SoloMapped, SoloStep, DraftInv, Serve
<1>1. PICK u \in Req : u = req[r].origin
  BY WritesPending DEF SoloMapped
<1>2. /\ r # u /\ req[r].draft \in DraftId
      /\ Ingested(u) /\ Ingested(u)'
      /\ req[u].draft = req[r].draft /\ req'[u].draft = req[r].draft
      /\ StateOf(u) = "pending"
      /\ \A q \in Req : q # u /\ q # r => StateOf(q)' = StateOf(q)
  BY <1>1, WrittenDraft
<1>3. /\ drafts'[req[r].draft].status = "discarded"
      /\ drafts'[req[r].draft].origin = u
  BY <1>1, DiscardedNow DEF SoloMapped
<1>4. StateOf(u)' = "discarded"
  BY <1>2, <1>3, StateOfRowNext DEF SoloMapped
<1>5. \A q \in Req : q # u => StateOf(q)' = StateOf(q)
  BY <1>2, WriterIsNoDraft
<1>6. ASSUME NEW q \in Req PROVE LeavesTheSame(q)
  <2>1. CASE q = r
    <3>1. ~InsertDraft(q) /\ ~ConfirmWrite(q)
      BY <2>1 DEF DiscardWrite, ConfirmWrite, InsertDraft
    <3> QED
      BY <1>0, <3>1, OthersLeaveNothing
  <2>2. CASE q # r
    BY <1>0, <2>2, OthersWait DEF LeavesTheSame, Ingested, Inserted
  <2> QED
    BY <2>1, <2>2
<1>7. ASSUME NEW q \in Req PROVE ConfirmsOf(q)' = ConfirmsOf(q)
  BY <1>6, SameTurned DEF LeavesTheSame
<1>8. [q \in Req |-> StateOf(q)]'
        = [[q \in Req |-> StateOf(q)] EXCEPT ![u] = "discarded"]
  BY <1>4, <1>5
<1>9. Lifecycle!Discard(u)
  BY <1>2, <1>7, <1>8 DEF Lifecycle!Discard
<1> QED
  BY <1>1, <1>9

\* Every other step at most removes drafts.
LEMMA OthersRemove ==
  ASSUME SoloMapped,
         \A r \in Req : ~InsertDraft(r) /\ ~ConfirmWrite(r) /\ ~DiscardWrite(r)
  PROVE  \E gone \in SUBSET Req : Lifecycle!Remove(gone)
<1>0. TypeOK /\ DraftInv /\ StartInv /\ RecordInv /\ [Next]_vars
  BY SoloIsNext DEF SoloMapped, SoloStep, DraftInv
<1>1. ASSUME NEW q \in Req PROVE LeavesTheSame(q)
  BY <1>0, OthersLeaveNothing
<1>2. ASSUME NEW d \in DraftId PROVE drafts'[d] = drafts[d] \/ drafts'[d] = NoDraft
  BY SoloRows DEF SoloMapped
<1> DEFINE gone == {u \in Req : StateOf(u)' # StateOf(u)}
<1>3. ASSUME NEW u \in gone
      PROVE  StateOf(u) \notin {"new", "removed"} /\ StateOf(u)' = "removed"
  <2>1. Ingested(u) /\ req[u].draft \in DraftId
    BY <1>0, <1>1, <1>3, SameState, StateOfRow
  <2>2. /\ drafts'[req[u].draft] = NoDraft /\ drafts[req[u].draft] # NoDraft
        /\ drafts[req[u].draft].origin = u
    <3>1. /\ drafts'[req[u].draft] # drafts[req[u].draft]
          /\ drafts[req[u].draft].origin = u \/ drafts'[req[u].draft].origin = u
      BY <1>1, <1>3, SameState
    <3>2. drafts'[req[u].draft] = NoDraft
      BY <1>2, <2>1, <3>1
    <3>3. NoDraft.origin = NoReq /\ u \in Req
      BY DEF NoDraft
    <3> QED
      BY <3>1, <3>2, <3>3, NoReqAssumption
  <2>3. Ingested(u)' /\ req'[u].draft = req[u].draft
    BY <1>1, <2>1 DEF LeavesTheSame
  <2>4. StateOf(u)' = "removed"
    BY <2>2, <2>3, NoReqAssumption, StateOfRowNext DEF SoloMapped, NoDraft
  <2> QED
    BY <1>0, <2>1, <2>2, <2>4, StateOfRow DEF Statuses
<1>4. ASSUME NEW u \in Req PROVE ConfirmsOf(u)' = ConfirmsOf(u)
  BY <1>1, SameTurned DEF LeavesTheSame
<1>5. [u \in Req |-> StateOf(u)]'
        = [u \in Req |-> IF u \in gone THEN "removed"
                                       ELSE [v \in Req |-> StateOf(v)][u]]
  BY <1>3
<1>6. gone \in SUBSET Req
  OBVIOUS
<1>7. \A u \in gone : [v \in Req |-> StateOf(v)][u] \notin {"new", "removed"}
  BY <1>3
<1> HIDE DEF gone
<1>8. Lifecycle!Remove(gone)
  BY <1>4, <1>5, <1>7 DEF Lifecycle!Remove
<1> QED
  BY <1>6, <1>8

\* At the start every draft is new and none has been turned into tasks.
LEMMA InitMaps == Init => Lifecycle!Init
<1> SUFFICES ASSUME Init PROVE Lifecycle!Init
  OBVIOUS
<1>1. ASSUME NEW u \in Req PROVE StateOf(u) = "new" /\ Cardinality(ConfirmsOf(u)) = 0
  <2>1. ConfirmsOf(u) = {}
    BY DEF Init, Idle, ConfirmsOf
  <2> QED
    BY <2>1, FS_EmptySet DEF Init, Idle, StateOf
<1> QED
  BY <1>1 DEF Lifecycle!Init

\* Read, decide, write and answer look to a single client like the steps of
\* the documented state machine of a draft: created once, confirmed or
\* discarded only while it is pending, turned into tasks exactly when it is
\* confirmed, and gone for good once it is removed.
THEOREM ImplementsDraftLifecycle == SoloSpec => ImplementsLifecycle
<1>1. DraftInv /\ RecordInv /\ StartInv /\ SoloInv /\ DraftInv' /\ StartInv'
        /\ [SoloNext]_vars
      => [Lifecycle!Next]_(Lifecycle!vars)
  <2> SUFFICES ASSUME SoloMapped PROVE Lifecycle!Next
    BY DEF SoloMapped, SoloStep
  <2>1. ASSUME NEW r \in Req, InsertDraft(r) PROVE Lifecycle!Next
    BY <2>1, InsertCreates DEF Lifecycle!Next
  <2>2. ASSUME NEW r \in Req, ConfirmWrite(r) PROVE Lifecycle!Next
    BY <2>2, WriteConfirms, WritesPending DEF Lifecycle!Next, SoloMapped
  <2>3. ASSUME NEW r \in Req, DiscardWrite(r) PROVE Lifecycle!Next
    BY <2>3, WriteDiscards, WritesPending DEF Lifecycle!Next, SoloMapped
  <2> QED
    BY <2>1, <2>2, <2>3, OthersRemove DEF Lifecycle!Next
<1> QED
  BY <1>1, InitMaps, SoloSpecIsSpec, SoloInvHolds, DraftInvHolds, RecordInvHolds,
     StartInvHolds, PTL DEF SoloSpec, ImplementsLifecycle, Lifecycle!Spec
=============================================================================
