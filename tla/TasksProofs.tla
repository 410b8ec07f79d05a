----------------------------- MODULE TasksProofs -----------------------------
(***************************************************************************)
(* Proofs about Tasks, for every set of requests, tables, values and every *)
(* bound: rows stay whole, a creation creates once, and the handlers       *)
(* implement TaskStore.                                                    *)
(***************************************************************************)
EXTENDS TaskPage, FiniteSetTheorems, TLAPS

-----------------------------------------------------------------------------
(* What the operators on rows return.                                      *)

\* What passes the validators of ItemCreate makes a whole row.
LEMMA NewRowWhole ==
  ASSUME NEW a \in CreateAsk, NEW t \in 0..MaxTime, Accepts(a)
  PROVE  /\ NewRow(a, t) \in Row
         /\ Check(NewRow(a, t))
         /\ NewRow(a, t).completed = Nil /\ NewRow(a, t).status = "open"
  BY DEF CreateAsk, Accepts, NewRow, Row, Check, Status

\* Completion goes with the status.
LEMMA AfterStatusWhole ==
  ASSUME NEW row \in Row, NEW p \in PatchAsk, NEW t \in 0..MaxTime,
         (row.completed = Nil) # (row.status = "done")
  PROVE  LET new == AfterStatus(row, p, t) IN
         /\ new \in Row
         /\ new.due = row.due /\ new.priority = row.priority
         /\ new.uuid = row.uuid /\ new.created = row.created
         /\ (new.completed = Nil) # (new.status = "done")
         /\ new.status = IF p.status = Absent THEN row.status ELSE p.status
         /\ new.completed = IF p.status = Absent THEN row.completed
                            ELSE IF p.status = "done" THEN t ELSE Nil
<1>1. t # Nil
  BY NilIsNoValue, TimesAreNaturals
<1>2. p.status \in Status \cup {Absent}
  BY DEF PatchAsk
<1> QED
  BY <1>1, <1>2 DEF AfterStatus, Row

\* The two blocks of update_item for due_at and priority, together, do what
\* TaskStore says of them, if the patch passed the validator and emptied
\* neither field alone.
LEMMA AfterBothWhole ==
  ASSUME NEW row \in Row, NEW p \in PatchAsk, Accepts(p), ~Conflicts(p), Check(row)
  PROVE  LET new == AfterPriority(AfterDue(row, p), p) IN
         /\ new \in Row /\ Check(new)
         /\ new.due = IF p.due \in Due THEN p.due
                      ELSE IF p.priority \in Priority THEN Nil ELSE row.due
         /\ new.priority = IF p.priority \in Priority THEN p.priority
                           ELSE IF p.due \in Due THEN Nil ELSE row.priority
         /\ new.status = row.status /\ new.completed = row.completed
         /\ new.uuid = row.uuid /\ new.created = row.created
<1>1. p.due \in Due \cup {Nil, Absent} /\ p.priority \in Priority \cup {Nil, Absent} /\ p.op = "patch"
  BY DEF PatchAsk
<1>2. Nil # Absent /\ Nil \notin Due \cup Priority /\ Absent \notin Due \cup Priority
  BY NilIsNoValue, AbsentIsNoValue
<1>3. ~(p.due \in Due /\ p.priority \in Priority) /\ ~(p.due = Nil /\ p.priority = Nil)
  BY <1>1 DEF Accepts
<1>4. CASE p.due \in Due
  BY <1>1, <1>2, <1>3, <1>4 DEF AfterDue, AfterPriority, Row, Check
<1>5. CASE p.priority \in Priority
  BY <1>1, <1>2, <1>3, <1>5 DEF AfterDue, AfterPriority, Row, Check
<1>6. CASE p.due = Absent /\ p.priority = Absent
  BY <1>2, <1>6 DEF AfterDue, AfterPriority, Row, Check
<1> QED
  BY <1>1, <1>3, <1>4, <1>5, <1>6 DEF Conflicts

Whole(row) == Check(row) /\ (row.completed = Nil) # (row.status = "done")

\* An UPDATE makes a whole row of a whole row, the one TaskStore names.
LEMMA UpdatedWhole ==
  ASSUME NEW row \in Row, NEW p \in PatchAsk, NEW t \in 0..MaxTime,
         Accepts(p), ~Conflicts(p), Whole(row)
  PROVE  /\ Updated(row, p, t) \in Row
         /\ Whole(Updated(row, p, t))
         /\ Updated(row, p, t).uuid = row.uuid
         /\ Updated(row, p, t) = Store!Patched(row, p, t)
<1> DEFINE both == AfterPriority(AfterDue(row, p), p)
           new == AfterStatus(both, p, t)
<1>1. /\ both \in Row /\ Check(both)
      /\ both.due = IF p.due \in Due THEN p.due
                    ELSE IF p.priority \in Priority THEN Nil ELSE row.due
      /\ both.priority = IF p.priority \in Priority THEN p.priority
                         ELSE IF p.due \in Due THEN Nil ELSE row.priority
      /\ both.status = row.status /\ both.completed = row.completed
      /\ both.uuid = row.uuid /\ both.created = row.created
  BY AfterBothWhole DEF Whole
<1> HIDE DEF both
<1>2. /\ new \in Row
      /\ new.due = both.due /\ new.priority = both.priority
      /\ new.uuid = both.uuid /\ new.created = both.created
      /\ (new.completed = Nil) # (new.status = "done")
      /\ new.status = IF p.status = Absent THEN both.status ELSE p.status
      /\ new.completed = IF p.status = Absent THEN both.completed
                         ELSE IF p.status = "done" THEN t ELSE Nil
  BY <1>1, AfterStatusWhole DEF Whole
<1>3. Updated(row, p, t) = new
  BY DEF Updated, both
<1> HIDE DEF new
<1>4. Check(new)
  BY <1>1, <1>2 DEF Check
<1>5. new = Store!Patched(row, p, t)
  <2>1. new = [due |-> new.due, priority |-> new.priority, status |-> new.status,
               completed |-> new.completed, uuid |-> new.uuid, created |-> new.created]
    BY <1>2 DEF Row
  <2> QED
    BY <1>1, <1>2, <2>1 DEF Store!Patched
<1> QED
  BY <1>1, <1>2, <1>3, <1>4, <1>5 DEF Whole

\* A patch that sets nothing leaves the row as it is.
LEMMA NothingPatched ==
  ASSUME NEW row \in Row, NEW p \in PatchAsk, NEW t \in 0..MaxTime, SetsNothing(p)
  PROVE  Store!Patched(row, p, t) = row
<1>1. p.due \notin Due /\ p.priority \notin Priority /\ p.status = Absent
  BY AbsentIsNoValue DEF SetsNothing
<1> QED
  BY <1>1 DEF Store!Patched, Row

-----------------------------------------------------------------------------
(* The inductive invariant.                                                *)

\* Who is about to write has passed the checks, on whatever row it read.
Checked ==
  \A r \in Req : pc[r] = "write" =>
     /\ ask[r] \in Ask /\ Accepts(ask[r])
     /\ \/ ask[r].op = "create"
        \/ ask[r].op = "patch" /\ ~Conflicts(ask[r])

\* What was created is still there under its client_uuid, or was deleted.
CreatedStays ==
  \A r \in Req :
     Answered(r, {"created"}) =>
        \/ reply[r].id \in DOMAIN items /\ items[reply[r].id].uuid = ask[r].uuid
        \/ \E d \in Req : Answered(d, {"deleted"}) /\ reply[d].id = reply[r].id

Inv == TypeOK /\ Checked /\ RowsAreWhole /\ CreatedStays /\ CreatedOnce

\* The sets of asks are told apart by `op'.
LEMMA AskKinds ==
  ASSUME NEW a \in Ask
  PROVE  /\ a.op = "create" => a \in CreateAsk
         /\ a.op = "patch" => a \in PatchAsk
         /\ a.op = "delete" => a \in DeleteAsk
         /\ a.op \in {"create", "patch", "delete"}
         /\ a # NoAsk
  BY AsksAreTyped, NoAskIsNoAsk DEF CreateAsk, PatchAsk, DeleteAsk

\* Answers are replies.
LEMMA AnswerType ==
  ASSUME NEW code \in Codes, NEW id \in 0..MaxId, NEW row \in Row \cup {Nil}
  PROVE  /\ Answer(code, id, row) \in Reply
         /\ Answer(code, id, row) # NoReply
         /\ Answer(code, id, row).code = code
         /\ Answer(code, id, row).id = id
         /\ Answer(code, id, row).row = row
  BY NoReplyIsNoReply DEF Answer, Reply

-----------------------------------------------------------------------------
(* Type correctness.                                                       *)

\* The types of everything but the table.
RequestsTyped ==
  /\ ask \in [Req -> Ask \cup {NoAsk}]
  /\ pc \in [Req -> {"idle", "write", "done"}]
  /\ now \in 0..MaxTime
  /\ stamp \in [Req -> 0..MaxTime]
  /\ reply \in [Req -> Reply \cup {NoReply}]
  /\ \A r \in Req : /\ (pc[r] = "idle") = (ask[r] = NoAsk)
                     /\ (pc[r] = "done") = (reply[r] # NoReply)

TableTyped == DOMAIN items \subseteq 1..MaxId /\ items \in [DOMAIN items -> Row]

LEMMA TypeParts == TypeOK <=> TableTyped /\ RequestsTyped
  BY DEF TypeOK, TableTyped, RequestsTyped

\* A request that is answered in its first step.
LEMMA AtOnceType ==
  ASSUME RequestsTyped, NEW r \in Req, NEW a \in Ask, NEW answer \in Reply,
         AnswersAtOnce(r, a, answer)
  PROVE  RequestsTyped'
<1>1. answer # NoReply /\ a # NoAsk
  BY NoReplyIsNoReply, NoAskIsNoAsk
<1>2. /\ ask' \in [Req -> Ask \cup {NoAsk}]
      /\ pc' \in [Req -> {"idle", "write", "done"}]
      /\ reply' \in [Req -> Reply \cup {NoReply}]
      /\ now' \in 0..MaxTime /\ stamp' \in [Req -> 0..MaxTime]
  BY DEF RequestsTyped, AnswersAtOnce
<1>3. ASSUME NEW q \in Req
      PROVE  /\ (pc'[q] = "idle") = (ask'[q] = NoAsk)
             /\ (pc'[q] = "done") = (reply'[q] # NoReply)
  <2>1. CASE q = r
    BY <1>1, <2>1 DEF RequestsTyped, AnswersAtOnce
  <2>2. CASE q # r
    BY <2>2 DEF RequestsTyped, AnswersAtOnce
  <2> QED
    BY <2>1, <2>2
<1> QED
  BY <1>2, <1>3 DEF RequestsTyped

\* A request that goes on to its transaction.
LEMMA GoesOnType ==
  ASSUME RequestsTyped, NEW r \in Req, NEW a \in Ask, pc[r] = "idle", GoesOn(r, a)
  PROVE  RequestsTyped'
<1>1. a # NoAsk
  BY NoAskIsNoAsk
<1>2. reply[r] = NoReply
  BY DEF RequestsTyped
<1>3. /\ ask' \in [Req -> Ask \cup {NoAsk}]
      /\ pc' \in [Req -> {"idle", "write", "done"}]
      /\ reply' \in [Req -> Reply \cup {NoReply}]
      /\ now' \in 0..MaxTime /\ stamp' \in [Req -> 0..MaxTime]
  BY DEF RequestsTyped, GoesOn
<1>4. ASSUME NEW q \in Req
      PROVE  /\ (pc'[q] = "idle") = (ask'[q] = NoAsk)
             /\ (pc'[q] = "done") = (reply'[q] # NoReply)
  <2>1. CASE q = r
    BY <1>1, <1>2, <2>1 DEF RequestsTyped, GoesOn
  <2>2. CASE q # r
    BY <2>2 DEF RequestsTyped, GoesOn
  <2> QED
    BY <2>1, <2>2
<1> QED
  BY <1>3, <1>4 DEF RequestsTyped

\* A request whose transaction has ended.
LEMMA FinishesType ==
  ASSUME RequestsTyped, NEW r \in Req, pc[r] = "write", NEW answer \in Reply,
         Finishes(r, answer)
  PROVE  RequestsTyped'
<1>1. answer # NoReply
  BY NoReplyIsNoReply
<1>2. ask[r] # NoAsk
  BY DEF RequestsTyped
<1>3. /\ ask' \in [Req -> Ask \cup {NoAsk}]
      /\ pc' \in [Req -> {"idle", "write", "done"}]
      /\ reply' \in [Req -> Reply \cup {NoReply}]
      /\ now' \in 0..MaxTime /\ stamp' \in [Req -> 0..MaxTime]
  BY TimesAreNaturals DEF RequestsTyped, Finishes
<1>4. ASSUME NEW q \in Req
      PROVE  /\ (pc'[q] = "idle") = (ask'[q] = NoAsk)
             /\ (pc'[q] = "done") = (reply'[q] # NoReply)
  <2>1. CASE q = r
    BY <1>1, <1>2, <2>1 DEF RequestsTyped, Finishes
  <2>2. CASE q # r
    BY <2>2 DEF RequestsTyped, Finishes
  <2> QED
    BY <2>1, <2>2
<1> QED
  BY <1>3, <1>4 DEF RequestsTyped

\* A table with one more row, one other row, or one row less.
LEMMA TableWith ==
  ASSUME TableTyped, NEW id \in 1..MaxId, NEW row \in Row,
         items' = [i \in DOMAIN items \cup {id} |-> IF i = id THEN row ELSE items[i]]
  PROVE  TableTyped'
  BY DEF TableTyped

LEMMA TableUpdated ==
  ASSUME TableTyped, NEW id \in DOMAIN items, NEW row \in Row,
         items' = [items EXCEPT ![id] = row]
  PROVE  TableTyped'
  BY DEF TableTyped

LEMMA TableWithout ==
  ASSUME TableTyped, NEW id, items' = [i \in DOMAIN items \ {id} |-> items[i]]
  PROVE  TableTyped'
  BY DEF TableTyped

LEMMA TableSame ==
  ASSUME TableTyped, UNCHANGED items
  PROVE  TableTyped'
  BY DEF TableTyped

-----------------------------------------------------------------------------
(* The kinds of steps.  Every invariant is kept by each kind.              *)

\* Answered at once, with neither a creation nor a deletion.
AnsweringStep(r) ==
  \E a \in Ask, answer \in Reply :
     /\ pc[r] = "idle" /\ AnswersAtOnce(r, a, answer) /\ UNCHANGED items
     /\ answer.code \notin {"created", "deleted"}

\* Looked and decided to write.
DecidingStep(r) ==
  \E a \in Ask :
     /\ pc[r] = "idle" /\ GoesOn(r, a) /\ Accepts(a)
     /\ a.op = "create" \/ (a.op = "patch" /\ ~Conflicts(a))

\* The transaction failed.
FailingStep(r) ==
  \E answer \in Reply :
     /\ pc[r] = "write" /\ Finishes(r, answer) /\ UNCHANGED items
     /\ answer.code \in Errors

\* A whole row is inserted under an id above all others.
InsertingStep(r) ==
  \E id \in 1..MaxId, row \in Row :
     /\ pc[r] = "write" /\ ~Taken(ask[r].uuid)
     /\ \A i \in DOMAIN items : i < id
     /\ Whole(row) /\ row.uuid = ask[r].uuid
     /\ items' = [i \in DOMAIN items \cup {id} |-> IF i = id THEN row ELSE items[i]]
     /\ Finishes(r, Answer("created", id, row))

\* A row is replaced by a whole row with its client_uuid.
UpdatingStep(r) ==
  \E id \in DOMAIN items, row \in Row :
     /\ pc[r] = "write"
     /\ Whole(row) /\ row.uuid = items[id].uuid
     /\ items' = [items EXCEPT ![id] = row]
     /\ Finishes(r, Answer("patched", id, row))

DeletingStep(r) ==
  \E a \in Ask, id \in DOMAIN items :
     /\ pc[r] = "idle"
     /\ items' = [i \in DOMAIN items \ {id} |-> items[i]]
     /\ AnswersAtOnce(r, a, Answer("deleted", id, Nil))

\* The clock, or nothing.
QuietStep == UNCHANGED <<items, ask, pc, stamp, reply>> /\ now' \in 0..MaxTime

\* The row an INSERT makes.
LEMMA CreateInsertsIsStep ==
  ASSUME TypeOK, Checked, NEW r \in Req, CreateInserts(r)
  PROVE  InsertingStep(r)
<1>1. PICK id \in 1..MaxId :
         /\ IsNewId(id)
         /\ items' = [i \in DOMAIN items \cup {id} |->
                         IF i = id THEN NewRow(ask[r], stamp[r]) ELSE items[i]]
         /\ Finishes(r, Answer("created", id, NewRow(ask[r], stamp[r])))
  BY DEF CreateInserts
<1> DEFINE row == NewRow(ask[r], stamp[r])
<1>2. ask[r] \in CreateAsk /\ Accepts(ask[r]) /\ stamp[r] \in 0..MaxTime
  BY AskKinds DEF CreateInserts, Checked, TypeOK
<1>3. row \in Row /\ Whole(row)
  <2>1. row \in Row /\ Check(row) /\ row.completed = Nil /\ row.status = "open"
    BY <1>2, NewRowWhole
  <2> QED
    BY <2>1 DEF Whole
<1>4. row.uuid = ask[r].uuid
  BY DEF NewRow
<1>5. pc[r] = "write" /\ ~Taken(ask[r].uuid) /\ \A i \in DOMAIN items : i < id
  BY <1>1 DEF CreateInserts, IsNewId
<1> HIDE DEF row
<1>6. /\ items' = [i \in DOMAIN items \cup {id} |-> IF i = id THEN row ELSE items[i]]
      /\ Finishes(r, Answer("created", id, row))
  BY <1>1 DEF row
<1> QED
  BY <1>3, <1>4, <1>5, <1>6 DEF InsertingStep

\* The row an UPDATE makes of the row that has the id by then.
LEMMA PatchWritesIsStep ==
  ASSUME TypeOK, Checked, RowsAreWhole, NEW r \in Req, PatchWrites(r)
  PROVE  /\ UpdatingStep(r)
         /\ ask[r] \in Ask /\ ask[r].id \in DOMAIN items
         /\ Updated(items[ask[r].id], ask[r], stamp[r])
               = Store!Patched(items[ask[r].id], ask[r], stamp[r])
<1> DEFINE id == ask[r].id
           row == Updated(items[id], ask[r], stamp[r])
<1>1. /\ ask[r] \in PatchAsk /\ ask[r] \in Ask /\ Accepts(ask[r]) /\ ~Conflicts(ask[r])
      /\ stamp[r] \in 0..MaxTime
  BY AskKinds DEF PatchWrites, Patching, Checked, TypeOK
<1>2. id \in DOMAIN items /\ items[id] \in Row /\ Whole(items[id])
  BY DEF PatchWrites, TypeOK, RowsAreWhole, Whole
<1>3. /\ row \in Row /\ Whole(row) /\ row.uuid = items[id].uuid
      /\ row = Store!Patched(items[id], ask[r], stamp[r])
  BY <1>1, <1>2, UpdatedWhole
<1>4. /\ pc[r] = "write"
      /\ items' = [items EXCEPT ![id] = row]
      /\ Finishes(r, Answer("patched", id, row))
  BY DEF PatchWrites, Patching
<1> HIDE DEF row
<1>5. UpdatingStep(r)
  BY <1>2, <1>3, <1>4 DEF UpdatingStep
<1> QED
  BY <1>1, <1>2, <1>3, <1>5 DEF row

\* Every step is of one of the kinds.
LEMMA StepKinds ==
  ASSUME TypeOK, Checked, RowsAreWhole, [Next]_vars
  PROVE  \/ QuietStep
         \/ \E r \in Req : \/ AnsweringStep(r) \/ DecidingStep(r) \/ FailingStep(r)
                           \/ InsertingStep(r) \/ UpdatingStep(r) \/ DeletingStep(r)
<1>1. CASE Tick \/ UNCHANGED vars
  BY <1>1, TimesAreNaturals DEF Tick, vars, QuietStep, TypeOK
<1>2. ASSUME NEW r \in Req, Reject(r) PROVE AnsweringStep(r)
  <2>1. /\ Answer("422", 0, Nil) \in Reply /\ Answer("422", 0, Nil).code = "422"
    BY AnswerType, TimesAreNaturals DEF Codes
  <2> QED
    BY <1>2, <2>1 DEF Reject, AnsweringStep
<1>3. ASSUME NEW r \in Req, CreateFinds(r) PROVE AnsweringStep(r)
  <2>1. PICK a \in Ask, id \in DOMAIN items :
           pc[r] = "idle" /\ AnswersAtOnce(r, a, Answer("existing", id, items[id]))
    BY <1>3 DEF CreateFinds, Arrives
  <2>2. items[id] \in Row /\ id \in 0..MaxId
    BY DEF TypeOK
  <2>3. /\ Answer("existing", id, items[id]) \in Reply
        /\ Answer("existing", id, items[id]).code = "existing"
    BY <2>2, AnswerType DEF Codes
  <2> QED
    BY <1>3, <2>1, <2>3 DEF CreateFinds, AnsweringStep
<1>4. ASSUME NEW r \in Req, CreateMisses(r) PROVE DecidingStep(r)
  BY <1>4 DEF CreateMisses, Arrives, DecidingStep
<1>5. ASSUME NEW r \in Req, CreateCollides(r) PROVE FailingStep(r)
  <2>1. /\ Answer("taken", 0, Nil) \in Reply /\ Answer("taken", 0, Nil).code = "taken"
    BY AnswerType, TimesAreNaturals DEF Codes
  <2> QED
    BY <1>5, <2>1 DEF CreateCollides, FailingStep, Errors
<1>6. ASSUME NEW r \in Req, PatchMisses(r) \/ DeleteMisses(r) PROVE AnsweringStep(r)
  <2>1. /\ Answer("404", 0, Nil) \in Reply /\ Answer("404", 0, Nil).code = "404"
    BY AnswerType, TimesAreNaturals DEF Codes
  <2> QED
    BY <1>6, <2>1 DEF PatchMisses, DeleteMisses, Arrives, AnsweringStep
<1>7. ASSUME NEW r \in Req, PatchConflicts(r) PROVE AnsweringStep(r)
  <2>1. /\ Answer("409", 0, Nil) \in Reply /\ Answer("409", 0, Nil).code = "409"
    BY AnswerType, TimesAreNaturals DEF Codes
  <2> QED
    BY <1>7, <2>1 DEF PatchConflicts, Arrives, AnsweringStep
<1>8. ASSUME NEW r \in Req, PatchSetsNothing(r) PROVE AnsweringStep(r)
  <2>1. PICK a \in Ask :
           /\ pc[r] = "idle" /\ a.id \in DOMAIN items
           /\ AnswersAtOnce(r, a, Answer("patched", a.id, items[a.id]))
    BY <1>8 DEF PatchSetsNothing, Arrives
  <2>2. items[a.id] \in Row /\ a.id \in 0..MaxId
    BY <2>1 DEF TypeOK
  <2>3. /\ Answer("patched", a.id, items[a.id]) \in Reply
        /\ Answer("patched", a.id, items[a.id]).code = "patched"
    BY <2>2, AnswerType DEF Codes
  <2> QED
    BY <1>8, <2>1, <2>3 DEF PatchSetsNothing, AnsweringStep
<1>9. ASSUME NEW r \in Req, PatchReads(r) PROVE DecidingStep(r)
  BY <1>9 DEF PatchReads, Arrives, DecidingStep
<1>10. ASSUME NEW r \in Req, PatchFindsNoRow(r) PROVE FailingStep(r)
  <2>1. /\ Answer("gone", 0, Nil) \in Reply /\ Answer("gone", 0, Nil).code = "gone"
    BY AnswerType, TimesAreNaturals DEF Codes
  <2> QED
    BY <1>10, <2>1 DEF PatchFindsNoRow, Patching, FailingStep, Errors
<1>11. ASSUME NEW r \in Req, WriteFails(r) PROVE FailingStep(r)
  <2>1. /\ Answer("busy", 0, Nil) \in Reply /\ Answer("busy", 0, Nil).code = "busy"
    BY AnswerType, TimesAreNaturals DEF Codes
  <2> QED
    BY <1>11, <2>1 DEF WriteFails, FailingStep, Errors
<1>12. ASSUME NEW r \in Req, Delete(r) PROVE DeletingStep(r)
  BY <1>12 DEF Delete, Arrives, DeletingStep
<1> QED
  BY <1>1, <1>2, <1>3, <1>4, <1>5, <1>6, <1>7, <1>8, <1>9, <1>10, <1>11, <1>12,
     CreateInsertsIsStep, PatchWritesIsStep
     DEF Next, Handler

-----------------------------------------------------------------------------
(* Preservation.                                                           *)

LEMMA NextType ==
  ASSUME TypeOK, Checked, RowsAreWhole, [Next]_vars
  PROVE  TypeOK'
<1>1. TableTyped /\ RequestsTyped
  BY TypeParts
<1>2. CASE QuietStep
  BY <1>2 DEF QuietStep, TypeOK
<1>3. ASSUME NEW r \in Req, AnsweringStep(r) PROVE TableTyped' /\ RequestsTyped'
  BY <1>1, <1>3, AtOnceType, TableSame DEF AnsweringStep
<1>4. ASSUME NEW r \in Req, DecidingStep(r) PROVE TableTyped' /\ RequestsTyped'
  <2>1. UNCHANGED items
    BY <1>4 DEF DecidingStep, GoesOn
  <2> QED
    BY <1>1, <1>4, <2>1, GoesOnType, TableSame DEF DecidingStep
<1>5. ASSUME NEW r \in Req, FailingStep(r) PROVE TableTyped' /\ RequestsTyped'
  BY <1>1, <1>5, FinishesType, TableSame DEF FailingStep
<1>6. ASSUME NEW r \in Req, InsertingStep(r) PROVE TableTyped' /\ RequestsTyped'
  <2>1. PICK id \in 1..MaxId, row \in Row :
           /\ pc[r] = "write"
           /\ items' = [i \in DOMAIN items \cup {id} |-> IF i = id THEN row ELSE items[i]]
           /\ Finishes(r, Answer("created", id, row))
    BY <1>6 DEF InsertingStep
  <2>2. Answer("created", id, row) \in Reply
    BY AnswerType, TimesAreNaturals DEF Codes
  <2> QED
    BY <1>1, <2>1, <2>2, FinishesType, TableWith
<1>7. ASSUME NEW r \in Req, UpdatingStep(r) PROVE TableTyped' /\ RequestsTyped'
  <2>1. PICK id \in DOMAIN items, row \in Row :
           /\ pc[r] = "write"
           /\ items' = [items EXCEPT ![id] = row]
           /\ Finishes(r, Answer("patched", id, row))
    BY <1>7 DEF UpdatingStep
  <2>2. id \in 0..MaxId
    BY <1>1 DEF TableTyped
  <2>3. Answer("patched", id, row) \in Reply
    BY <2>2, AnswerType DEF Codes
  <2> QED
    BY <1>1, <2>1, <2>3, FinishesType, TableUpdated
<1>8. ASSUME NEW r \in Req, DeletingStep(r) PROVE TableTyped' /\ RequestsTyped'
  <2>1. PICK a \in Ask, id \in DOMAIN items :
           /\ items' = [i \in DOMAIN items \ {id} |-> items[i]]
           /\ AnswersAtOnce(r, a, Answer("deleted", id, Nil))
    BY <1>8 DEF DeletingStep
  <2>2. id \in 0..MaxId
    BY <1>1 DEF TableTyped
  <2>3. Answer("deleted", id, Nil) \in Reply
    BY <2>2, AnswerType DEF Codes
  <2> QED
    BY <1>1, <2>1, <2>3, AtOnceType, TableWithout
<1>9. TableTyped' /\ RequestsTyped' => TypeOK'
  BY DEF TableTyped, RequestsTyped, TypeOK
<1> QED
  BY <1>2, <1>3, <1>4, <1>5, <1>6, <1>7, <1>8, <1>9, StepKinds

LEMMA NextChecked ==
  ASSUME TypeOK, Checked, RowsAreWhole, [Next]_vars
  PROVE  Checked'
<1> SUFFICES ASSUME NEW q \in Req, pc'[q] = "write"
             PROVE  /\ ask'[q] \in Ask /\ Accepts(ask'[q])
                    /\ \/ ask'[q].op = "create"
                       \/ ask'[q].op = "patch" /\ ~Conflicts(ask'[q])
  BY DEF Checked
<1>1. CASE QuietStep
  BY <1>1 DEF QuietStep, Checked
<1>2. ASSUME NEW r \in Req, DecidingStep(r), q = r
      PROVE  /\ ask'[q] \in Ask /\ Accepts(ask'[q])
             /\ \/ ask'[q].op = "create"
                \/ ask'[q].op = "patch" /\ ~Conflicts(ask'[q])
  BY <1>2 DEF DecidingStep, GoesOn, TypeOK
<1>3. ASSUME NEW r \in Req, \/ AnsweringStep(r) \/ FailingStep(r) \/ InsertingStep(r)
                            \/ UpdatingStep(r) \/ DeletingStep(r)
      PROVE  q # r /\ ask'[q] = ask[q] /\ pc'[q] = pc[q]
  BY <1>3 DEF AnsweringStep, FailingStep, InsertingStep, UpdatingStep, DeletingStep,
              AnswersAtOnce, Finishes, TypeOK
<1>4. ASSUME NEW r \in Req, DecidingStep(r), q # r
      PROVE  ask'[q] = ask[q] /\ pc'[q] = pc[q]
  BY <1>4 DEF DecidingStep, GoesOn, TypeOK
<1> QED
  BY <1>1, <1>2, <1>3, <1>4, StepKinds DEF Checked

LEMMA NextWhole ==
  ASSUME TypeOK, Checked, RowsAreWhole, [Next]_vars
  PROVE  RowsAreWhole'
<1>0. \A i \in DOMAIN items : Whole(items[i])
  BY DEF RowsAreWhole, Whole
<1> SUFFICES ASSUME NEW i \in DOMAIN items' PROVE Whole(items'[i])
  BY DEF RowsAreWhole, Whole
<1>1. CASE UNCHANGED items
  BY <1>0, <1>1
<1>2. ASSUME NEW r \in Req, InsertingStep(r) PROVE Whole(items'[i])
  BY <1>0, <1>2 DEF InsertingStep
<1>3. ASSUME NEW r \in Req, UpdatingStep(r) PROVE Whole(items'[i])
  BY <1>0, <1>3 DEF UpdatingStep, TypeOK
<1>4. ASSUME NEW r \in Req, DeletingStep(r) PROVE Whole(items'[i])
  BY <1>0, <1>4 DEF DeletingStep
<1> QED
  BY <1>1, <1>2, <1>3, <1>4, StepKinds
     DEF QuietStep, AnsweringStep, DecidingStep, FailingStep, GoesOn

\* An answer once given stays, and so does what it answered.
LEMMA AnswersStay ==
  ASSUME TypeOK, Checked, RowsAreWhole, [Next]_vars, NEW q \in Req, pc[q] = "done"
  PROVE  pc'[q] = "done" /\ reply'[q] = reply[q] /\ ask'[q] = ask[q]
<1>1. CASE QuietStep
  BY <1>1 DEF QuietStep
<1>2. ASSUME NEW r \in Req, \/ AnsweringStep(r) \/ FailingStep(r) \/ InsertingStep(r)
                            \/ UpdatingStep(r) \/ DeletingStep(r) \/ DecidingStep(r)
      PROVE  pc'[q] = "done" /\ reply'[q] = reply[q] /\ ask'[q] = ask[q]
  <2>1. r # q
    BY <1>2 DEF AnsweringStep, FailingStep, InsertingStep, UpdatingStep, DeletingStep,
                DecidingStep
  <2> QED
    BY <1>2, <2>1 DEF AnsweringStep, FailingStep, InsertingStep, UpdatingStep, DeletingStep,
                      DecidingStep, AnswersAtOnce, Finishes, GoesOn, TypeOK
<1> QED
  BY <1>1, <1>2, StepKinds

Deleted(id) == \E d \in Req : Answered(d, {"deleted"}) /\ reply[d].id = id

LEMMA DeletedStays ==
  ASSUME TypeOK, Checked, RowsAreWhole, [Next]_vars, NEW id, Deleted(id)
  PROVE  Deleted(id)'
<1>1. PICK d \in Req : pc[d] = "done" /\ reply[d].code = "deleted" /\ reply[d].id = id
  BY DEF Deleted, Answered
<1>2. pc'[d] = "done" /\ reply'[d] = reply[d]
  BY <1>1, AnswersStay
<1> QED
  BY <1>1, <1>2 DEF Deleted, Answered

\* Who is answered 201 in this step has just inserted.
LEMMA NewlyCreated ==
  ASSUME TypeOK, Checked, RowsAreWhole, [Next]_vars, NEW q \in Req,
         Answered(q, {"created"})', pc[q] # "done"
  PROVE  InsertingStep(q) /\ reply'[q].id \in DOMAIN items'
         /\ items'[reply'[q].id].uuid = ask'[q].uuid /\ ask'[q] = ask[q]
<1>1. pc'[q] = "done" /\ reply'[q].code = "created"
  BY DEF Answered
<1>2. ~QuietStep
  BY <1>1 DEF QuietStep
<1>3. ASSUME NEW r \in Req, \/ AnsweringStep(r) \/ FailingStep(r) \/ InsertingStep(r)
                            \/ UpdatingStep(r) \/ DeletingStep(r) \/ DecidingStep(r)
      PROVE  r = q
  BY <1>1, <1>3 DEF AnsweringStep, FailingStep, InsertingStep, UpdatingStep, DeletingStep,
                    DecidingStep, AnswersAtOnce, Finishes, GoesOn, TypeOK
<1>4. ~AnsweringStep(q)
  BY <1>1 DEF AnsweringStep, AnswersAtOnce, TypeOK
<1>5. ~FailingStep(q)
  BY <1>1 DEF FailingStep, Finishes, Errors, TypeOK
<1>6. ~UpdatingStep(q)
  BY <1>1 DEF UpdatingStep, Finishes, Answer, TypeOK
<1>7. ASSUME DeletingStep(q) PROVE FALSE
  <2>1. PICK id \in DOMAIN items : reply' = [reply EXCEPT ![q] = Answer("deleted", id, Nil)]
    BY <1>7 DEF DeletingStep, AnswersAtOnce
  <2>2. reply'[q].code = "deleted"
    BY <2>1 DEF Answer, TypeOK
  <2> QED
    BY <1>1, <2>2
<1>8. ~DecidingStep(q)
  BY <1>1 DEF DecidingStep, GoesOn, TypeOK
<1>9. InsertingStep(q)
  BY <1>2, <1>3, <1>4, <1>5, <1>6, <1>7, <1>8, StepKinds
<1>10. PICK id \in 1..MaxId, row \in Row :
         /\ row.uuid = ask[q].uuid
         /\ items' = [i \in DOMAIN items \cup {id} |-> IF i = id THEN row ELSE items[i]]
         /\ Finishes(q, Answer("created", id, row))
  BY <1>9 DEF InsertingStep
<1>11. reply'[q].id = id /\ ask' = ask
  BY <1>10 DEF Finishes, Answer, TypeOK
<1> QED
  BY <1>9, <1>10, <1>11

LEMMA NextCreatedStays ==
  ASSUME TypeOK, Checked, RowsAreWhole, CreatedStays, [Next]_vars
  PROVE  CreatedStays'
<1> SUFFICES ASSUME NEW q \in Req, Answered(q, {"created"})'
             PROVE  \/ /\ reply'[q].id \in DOMAIN items'
                       /\ items'[reply'[q].id].uuid = ask'[q].uuid
                    \/ Deleted(reply[q].id)'
  BY DEF CreatedStays, Deleted
<1>1. CASE pc[q] # "done"
  BY <1>1, NewlyCreated
<1>2. CASE pc[q] = "done"
  <2>1. reply'[q] = reply[q] /\ ask'[q] = ask[q] /\ Answered(q, {"created"})
    BY <1>2, AnswersStay DEF Answered
  <2>0. PICK id : id = reply[q].id
    OBVIOUS
  <2>2. CASE Deleted(id)
    <3>1. Deleted(id)'
      BY <2>2, DeletedStays
    <3> QED
      BY <2>0, <2>1, <3>1 DEF Deleted
  <2>3. CASE id \in DOMAIN items /\ items[id].uuid = ask[q].uuid
    <3>1. CASE UNCHANGED items
      BY <2>0, <2>1, <2>3, <3>1
    <3>2. ASSUME NEW r \in Req, InsertingStep(r)
          PROVE  id \in DOMAIN items' /\ items'[id].uuid = ask[q].uuid
      <4>1. PICK new \in 1..MaxId, row \in Row :
               /\ \A i \in DOMAIN items : i < new
               /\ items' = [i \in DOMAIN items \cup {new} |-> IF i = new THEN row ELSE items[i]]
        BY <3>2 DEF InsertingStep
      <4>2. id # new
        BY <2>3, <4>1
      <4> QED
        BY <2>3, <4>1, <4>2
    <3>3. ASSUME NEW r \in Req, UpdatingStep(r)
          PROVE  id \in DOMAIN items' /\ items'[id].uuid = ask[q].uuid
      BY <2>3, <3>3 DEF UpdatingStep, TypeOK
    <3>4. ASSUME NEW r \in Req, DeletingStep(r)
          PROVE  (id \in DOMAIN items' /\ items'[id].uuid = ask[q].uuid) \/ Deleted(id)'
      <4>1. PICK a \in Ask, gone \in DOMAIN items :
               /\ items' = [i \in DOMAIN items \ {gone} |-> items[i]]
               /\ AnswersAtOnce(r, a, Answer("deleted", gone, Nil))
        BY <3>4 DEF DeletingStep
      <4>2. CASE gone = id
        <5>1. pc'[r] = "done" /\ reply'[r].code = "deleted" /\ reply'[r].id = id
          BY <4>1, <4>2 DEF AnswersAtOnce, Answer, TypeOK
        <5> QED
          BY <5>1 DEF Deleted, Answered
      <4>3. CASE gone # id
        BY <2>3, <4>1, <4>3
      <4> QED
        BY <4>2, <4>3
    <3>5. (id \in DOMAIN items' /\ items'[id].uuid = ask[q].uuid) \/ Deleted(id)'
      BY <2>3, <3>1, <3>2, <3>3, <3>4, StepKinds
         DEF QuietStep, AnsweringStep, DecidingStep, FailingStep, GoesOn
    <3> QED
      BY <2>0, <2>1, <3>5 DEF Deleted
  <2> QED
    BY <2>0, <2>1, <2>2, <2>3 DEF CreatedStays, Deleted
<1> QED
  BY <1>1, <1>2

LEMMA NextCreatedOnce ==
  ASSUME TypeOK, Checked, RowsAreWhole, CreatedStays, CreatedOnce, [Next]_vars
  PROVE  CreatedOnce'
<1> SUFFICES ASSUME NEW r \in Req, NEW q \in Req, r # q,
                    Answered(r, {"created"})', Answered(q, {"created"})',
                    ask'[r].uuid = ask'[q].uuid, ask'[r].uuid # Nil
             PROVE  Deleted(reply[r].id)' \/ Deleted(reply[q].id)'
  BY DEF CreatedOnce, Deleted
<1>1. PICK rid, qid : rid = reply[r].id /\ qid = reply[q].id
  OBVIOUS
<1>2. ASSUME NEW a \in Req, NEW b \in Req, a # b,
             Answered(a, {"created"})', Answered(b, {"created"})',
             ask'[a].uuid = ask'[b].uuid, ask'[a].uuid # Nil, pc[b] # "done"
      PROVE  Deleted(reply[a].id)'
  <2>1. InsertingStep(b) /\ ask'[b] = ask[b]
    BY <1>2, NewlyCreated
  <2>2. ~Taken(ask[b].uuid) /\ pc'[a] = pc[a]
    BY <1>2, <2>1 DEF InsertingStep, Finishes, TypeOK
  <2>3. pc[a] = "done"
    BY <1>2, <2>2 DEF Answered
  <2>4. reply'[a] = reply[a] /\ ask'[a] = ask[a]
    BY <2>3, AnswersStay
  <2>5. Answered(a, {"created"})
    BY <1>2, <2>3, <2>4 DEF Answered
  <2>6. ~(reply[a].id \in DOMAIN items /\ items[reply[a].id].uuid = ask[a].uuid)
    BY <1>2, <2>1, <2>2, <2>4 DEF Taken
  <2>7. PICK id : id = reply[a].id
    OBVIOUS
  <2>8. Deleted(id)
    BY <2>5, <2>6, <2>7 DEF CreatedStays, Deleted
  <2>9. Deleted(id)'
    BY <2>8, DeletedStays
  <2> QED
    BY <2>4, <2>7, <2>9 DEF Deleted, Answered
<1>3. CASE pc[r] # "done" \/ pc[q] # "done"
  BY <1>2, <1>3
<1>4. CASE pc[r] = "done" /\ pc[q] = "done"
  <2>1. /\ reply'[r] = reply[r] /\ ask'[r] = ask[r]
        /\ reply'[q] = reply[q] /\ ask'[q] = ask[q]
    BY <1>4, AnswersStay
  <2>2. Answered(r, {"created"}) /\ Answered(q, {"created"})
    BY <1>4, <2>1 DEF Answered
  <2>3. Deleted(rid) \/ Deleted(qid)
    BY <1>1, <2>1, <2>2 DEF CreatedOnce, Deleted
  <2>4. Deleted(rid)' \/ Deleted(qid)'
    BY <2>3, DeletedStays
  <2> QED
    BY <1>1, <2>1, <2>4 DEF Deleted, Answered
<1> QED
  BY <1>3, <1>4

-----------------------------------------------------------------------------
(* The theorems.                                                           *)

LEMMA InitInv == Init => Inv
<1> SUFFICES ASSUME Init PROVE Inv
  OBVIOUS
<1>1. TypeOK
  BY TablesAreWhole, TimesAreNaturals DEF Init, TypeOK
<1>2. RowsAreWhole
  BY TablesAreWhole DEF Init, RowsAreWhole
<1>3. Checked /\ CreatedStays /\ CreatedOnce
  BY DEF Init, Checked, CreatedStays, CreatedOnce, Answered
<1> QED
  BY <1>1, <1>2, <1>3 DEF Inv

\* Inv is inductive, and holds.
LEMMA InvHolds == Spec => []Inv
<1>1. Inv /\ [Next]_vars => Inv'
  BY NextType, NextChecked, NextWhole, NextCreatedStays, NextCreatedOnce DEF Inv
<1> QED
  BY <1>1, InitInv, PTL DEF Spec

\* The table, the requests and their answers stay well typed.
THEOREM TypeCorrect == Spec => []TypeOK
<1>1. Inv => TypeOK
  BY DEF Inv
<1> QED
  BY <1>1, InvHolds, PTL

\* Every row has exactly one of due_at and priority, and a completed_at exactly
\* while it is done, for any updates that overlap: update_item decides its
\* columns from the patch alone, not from the row it has read.
THEOREM RowsStayWhole == Spec => []RowsAreWhole
<1>1. Inv => RowsAreWhole
  BY DEF Inv
<1> QED
  BY <1>1, InvHolds, PTL

\* A client_uuid makes one task, for any number of requests that look for it
\* before any of them inserts.
THEOREM CreatesOnce == Spec => []CreatedOnce
<1>1. Inv => CreatedOnce
  BY DEF Inv
<1> QED
  BY <1>1, InvHolds, PTL

-----------------------------------------------------------------------------
(* The refinement.                                                         *)

ShownOf(x) == IF x = NoReply THEN NoReply
              ELSE [x EXCEPT !.code = IF @ \in Errors THEN "500" ELSE @]

\* The 500s look alike, and every other answer is shown as it is.
LEMMA ShownAnswer ==
  ASSUME NEW code \in Codes, NEW id \in 0..MaxId, NEW row \in Row \cup {Nil}
  PROVE  ShownOf(Answer(code, id, row))
            = Store!Shown(IF code \in Errors THEN "500" ELSE code, id, row)
<1>1. Answer(code, id, row) # NoReply
  BY AnswerType
<1> QED
  BY <1>1 DEF ShownOf, Answer, Store!Shown

\* The mapped answers after r has been answered.
LEMMA ShownUpdated ==
  ASSUME TypeOK, NEW r \in Req, NEW answer, reply' = [reply EXCEPT ![r] = answer]
  PROVE  replyShown' = [replyShown EXCEPT ![r] = ShownOf(answer)]
<1>1. replyShown = [q \in Req |-> ShownOf(reply[q])]
  BY DEF replyShown, ShownOf
<1>2. replyShown' = [q \in Req |-> ShownOf(reply'[q])]
  BY DEF replyShown, ShownOf
<1>3. \A q \in Req : reply'[q] = IF q = r THEN answer ELSE reply[q]
  BY DEF TypeOK
<1> QED
  BY <1>1, <1>2, <1>3

\* Answering at once, or at the end of a transaction, answers in TaskStore.
LEMMA AtOnceAnswers ==
  ASSUME TypeOK, NEW r \in Req, NEW a \in Ask, pc[r] = "idle",
         NEW code \in Codes, NEW id \in 0..MaxId, NEW row \in Row \cup {Nil},
         code \notin Errors, AnswersAtOnce(r, a, Answer(code, id, row))
  PROVE  /\ Store!Answers(r, a, Store!Shown(code, id, row))
         /\ a \in Store!Asked(r)
<1>1. reply[r] = NoReply /\ ask[r] = NoAsk
  BY DEF TypeOK
<1>2. replyShown[r] = NoReply
  BY <1>1 DEF replyShown
<1>3. replyShown' = [replyShown EXCEPT ![r] = Store!Shown(code, id, row)]
  BY ShownUpdated, ShownAnswer DEF AnswersAtOnce
<1> QED
  BY <1>1, <1>2, <1>3 DEF Store!Answers, Store!Asked, AnswersAtOnce

LEMMA FinishAnswers ==
  ASSUME TypeOK, Checked, NEW r \in Req, pc[r] = "write",
         NEW code \in Codes, NEW id \in 0..MaxId, NEW row \in Row \cup {Nil},
         Finishes(r, Answer(code, id, row))
  PROVE  /\ Store!Answers(r, ask[r],
                Store!Shown(IF code \in Errors THEN "500" ELSE code, id, row))
         /\ ask[r] \in Store!Asked(r)
<1>1. reply[r] = NoReply /\ ask[r] # NoAsk
  BY DEF TypeOK
<1>2. replyShown[r] = NoReply
  BY <1>1 DEF replyShown
<1>3. replyShown' = [replyShown EXCEPT ![r] =
                        Store!Shown(IF code \in Errors THEN "500" ELSE code, id, row)]
  BY ShownUpdated, ShownAnswer DEF Finishes
<1>4. ask' = [ask EXCEPT ![r] = ask[r]]
  BY DEF Finishes, TypeOK
<1> QED
  BY <1>1, <1>2, <1>3, <1>4 DEF Store!Answers, Store!Asked

\* A request that has arrived and waits.
LEMMA GoesOnReceives ==
  ASSUME TypeOK, NEW r \in Req, NEW a \in Ask, pc[r] = "idle", GoesOn(r, a)
  PROVE  Store!Receive(r)
<1>1. ask[r] = NoAsk
  BY DEF TypeOK
<1>2. ask' = [ask EXCEPT ![r] = a] /\ UNCHANGED items /\ UNCHANGED replyShown
  BY DEF GoesOn, replyShown
<1> QED
  BY <1>1, <1>2 DEF Store!Receive

\* A failure in the first step, and one at the end of a transaction.
LEMMA AtOnceFails ==
  ASSUME TypeOK, NEW r \in Req, NEW a \in Ask, pc[r] = "idle", UNCHANGED items,
         NEW code \in {"404", "409", "422"}, AnswersAtOnce(r, a, Answer(code, 0, Nil))
  PROVE  Store!Fail(r)
<1>1. code \in Codes /\ code \notin Errors /\ 0 \in 0..MaxId
  BY TimesAreNaturals DEF Codes, Errors
<1>2. Store!Answers(r, a, Store!Shown(code, 0, Nil)) /\ a \in Store!Asked(r)
  BY <1>1, AtOnceAnswers
<1> QED
  BY <1>2 DEF Store!Fail

LEMMA TransactionFails ==
  ASSUME TypeOK, Checked, NEW r \in Req, pc[r] = "write", UNCHANGED items,
         NEW code \in Errors, Finishes(r, Answer(code, 0, Nil))
  PROVE  Store!Fail(r)
<1>1. code \in Codes /\ 0 \in 0..MaxId
  BY TimesAreNaturals DEF Codes, Errors
<1>2. Store!Answers(r, ask[r], Store!Shown("500", 0, Nil)) /\ ask[r] \in Store!Asked(r)
  BY <1>1, FinishAnswers
<1> QED
  BY <1>2 DEF Store!Fail

\* The handlers that act on the table do so as TaskStore says.
LEMMA InsertCreates ==
  ASSUME TypeOK, Checked, NEW r \in Req, CreateInserts(r)
  PROVE  Store!Create(r)
<1>1. PICK id \in 1..MaxId :
         /\ IsNewId(id)
         /\ items' = [i \in DOMAIN items \cup {id} |->
                         IF i = id THEN NewRow(ask[r], stamp[r]) ELSE items[i]]
         /\ Finishes(r, Answer("created", id, NewRow(ask[r], stamp[r])))
  BY DEF CreateInserts
<1>2. /\ ask[r] \in CreateAsk /\ Accepts(ask[r]) /\ stamp[r] \in 0..MaxTime
      /\ pc[r] = "write" /\ ask[r].op = "create" /\ ~Taken(ask[r].uuid)
  BY AskKinds DEF CreateInserts, Checked, TypeOK
<1>3. NewRow(ask[r], stamp[r]) \in Row
  BY <1>2, NewRowWhole
<1>4. id \in 0..MaxId /\ "created" \in Codes /\ "created" \notin Errors
  BY DEF Codes, Errors
<1>5. /\ Store!Answers(r, ask[r], Store!Shown("created", id, NewRow(ask[r], stamp[r])))
      /\ ask[r] \in Store!Asked(r)
  BY <1>1, <1>2, <1>3, <1>4, FinishAnswers
<1>6. id \in (1..MaxId) \ DOMAIN items
  BY <1>1 DEF IsNewId, TypeOK
<1>7. ask[r].uuid # Nil => \A i \in DOMAIN items : items[i].uuid # ask[r].uuid
  BY <1>2 DEF Taken
<1>8. NewRow(ask[r], stamp[r]) = Store!NewRow(ask[r], stamp[r])
  BY DEF NewRow, Store!NewRow
<1> QED
  BY <1>1, <1>2, <1>5, <1>6, <1>7, <1>8 DEF Store!Create

LEMMA FindCreatesAgain ==
  ASSUME TypeOK, NEW r \in Req, CreateFinds(r)
  PROVE  Store!CreateAgain(r)
<1>1. PICK a \in Ask, id \in DOMAIN items :
         /\ pc[r] = "idle" /\ a.op = "create" /\ a.uuid # Nil /\ items[id].uuid = a.uuid
         /\ AnswersAtOnce(r, a, Answer("existing", id, items[id]))
  BY DEF CreateFinds, Arrives, IsLookedFor
<1>2. items[id] \in Row /\ id \in 0..MaxId /\ "existing" \in Codes /\ "existing" \notin Errors
  BY DEF TypeOK, Codes, Errors
<1>3. Store!Answers(r, a, Store!Shown("existing", id, items[id])) /\ a \in Store!Asked(r)
  BY <1>1, <1>2, AtOnceAnswers
<1> QED
  BY <1>1, <1>3 DEF CreateFinds, Store!CreateAgain

LEMMA NothingUpdates ==
  ASSUME TypeOK, NEW r \in Req, PatchSetsNothing(r)
  PROVE  Store!Update(r)
<1>1. PICK a \in Ask :
         /\ pc[r] = "idle" /\ a.op = "patch" /\ a.id \in DOMAIN items /\ SetsNothing(a)
         /\ AnswersAtOnce(r, a, Answer("patched", a.id, items[a.id]))
  BY DEF PatchSetsNothing, Arrives
<1>2. /\ items[a.id] \in Row /\ a.id \in 0..MaxId
      /\ "patched" \in Codes /\ "patched" \notin Errors
  BY <1>1 DEF TypeOK, Codes, Errors
<1>3. Store!Answers(r, a, Store!Shown("patched", a.id, items[a.id])) /\ a \in Store!Asked(r)
  BY <1>1, <1>2, AtOnceAnswers
<1>4. 0 \in 0..MaxTime /\ a \in PatchAsk
  BY <1>1, TimesAreNaturals, AskKinds
<1>5. Store!Patched(items[a.id], a, 0) = items[a.id]
  BY <1>1, <1>2, <1>4, NothingPatched
<1>6. items' = [items EXCEPT ![a.id] = items[a.id]]
  BY <1>1 DEF PatchSetsNothing, TypeOK
<1>7. a.due # Nil /\ a.priority # Nil
  BY <1>1, NilIsNoValue DEF SetsNothing
<1> QED
  BY <1>1, <1>3, <1>4, <1>5, <1>6, <1>7 DEF Store!Update

LEMMA WriteUpdates ==
  ASSUME TypeOK, Checked, RowsAreWhole, NEW r \in Req, PatchWrites(r)
  PROVE  Store!Update(r)
<1> DEFINE a == ask[r]
           row == Store!Patched(items[a.id], a, stamp[r])
<1>1. /\ a \in Ask /\ a.id \in DOMAIN items
      /\ Updated(items[a.id], a, stamp[r]) = row
  BY PatchWritesIsStep
<1>2. /\ pc[r] = "write" /\ a.op = "patch" /\ a \in PatchAsk
      /\ Accepts(a) /\ ~Conflicts(a) /\ stamp[r] \in 0..MaxTime
  BY AskKinds DEF PatchWrites, Patching, Checked, TypeOK
<1>3. /\ items' = [items EXCEPT ![a.id] = row]
      /\ Finishes(r, Answer("patched", a.id, row))
  BY <1>1 DEF PatchWrites
<1>4. row \in Row
  <2>1. items[a.id] \in Row /\ Whole(items[a.id])
    BY <1>1 DEF TypeOK, RowsAreWhole, Whole
  <2> QED
    BY <1>2, <2>1, UpdatedWhole
<1> HIDE DEF row
<1>5. a.id \in 0..MaxId /\ "patched" \in Codes /\ "patched" \notin Errors
  BY <1>1 DEF TypeOK, Codes, Errors
<1>6. Store!Answers(r, a, Store!Shown("patched", a.id, row)) /\ a \in Store!Asked(r)
  BY <1>2, <1>3, <1>4, <1>5, FinishAnswers
<1>7. (a.due = Nil => a.priority \in Priority) /\ (a.priority = Nil => a.due \in Due)
  BY <1>2 DEF PatchAsk, Accepts, Conflicts
<1> QED
  BY <1>1, <1>2, <1>3, <1>6, <1>7 DEF Store!Update, row

LEMMA DeleteDeletes ==
  ASSUME TypeOK, NEW r \in Req, Delete(r)
  PROVE  Store!Delete(r)
<1>1. PICK a \in Ask :
         /\ pc[r] = "idle" /\ a.op = "delete" /\ a.id \in DOMAIN items
         /\ items' = [i \in DOMAIN items \ {a.id} |-> items[i]]
         /\ AnswersAtOnce(r, a, Answer("deleted", a.id, Nil))
  BY DEF Delete, Arrives
<1>2. a.id \in 0..MaxId /\ "deleted" \in Codes /\ "deleted" \notin Errors
  BY <1>1 DEF TypeOK, Codes, Errors
<1>3. Store!Answers(r, a, Store!Shown("deleted", a.id, Nil)) /\ a \in Store!Asked(r)
  BY <1>1, <1>2, AtOnceAnswers
<1> QED
  BY <1>1, <1>3 DEF Store!Delete

\* Every step of a handler is a step of TaskStore, or of nothing.
LEMMA StepSimulation ==
  ASSUME TypeOK, Checked, RowsAreWhole, [Next]_vars
  PROVE  [Store!Next]_<<items, ask, replyShown>>
<1>1. CASE Tick \/ UNCHANGED vars
  BY <1>1 DEF Tick, vars, replyShown
<1>2. ASSUME NEW r \in Req, Reject(r) \/ PatchMisses(r) \/ PatchConflicts(r) \/ DeleteMisses(r)
      PROVE  Store!Fail(r)
  BY <1>2, AtOnceFails DEF Reject, PatchMisses, PatchConflicts, DeleteMisses, Arrives
<1>3. ASSUME NEW r \in Req, CreateMisses(r) \/ PatchReads(r) PROVE Store!Receive(r)
  BY <1>3, GoesOnReceives DEF CreateMisses, PatchReads, Arrives
<1>4. ASSUME NEW r \in Req, CreateCollides(r) \/ PatchFindsNoRow(r) \/ WriteFails(r)
      PROVE  Store!Fail(r)
  BY <1>4, TransactionFails DEF CreateCollides, PatchFindsNoRow, Patching, WriteFails, Errors
<1> QED
  BY <1>1, <1>2, <1>3, <1>4, InsertCreates, FindCreatesAgain, NothingUpdates, WriteUpdates,
     DeleteDeletes DEF Next, Handler, Store!Next

\* The initial tables are whole and nobody is answered.
LEMMA InitSimulation == Init => Store!Init
<1> SUFFICES ASSUME Init PROVE Store!Init
  OBVIOUS
<1>1. \A i \in DOMAIN items : Store!Whole(items[i])
  BY TablesAreWhole DEF Init, Check, Store!Whole
<1>2. replyShown = [r \in Req |-> NoReply]
  BY DEF Init, replyShown
<1> QED
  BY <1>1, <1>2 DEF Init, Store!Init

\* Each request acts on the table at one moment, as if it were alone, and its
\* answer shows the row of that moment: whatever is written between the look
\* of a handler and its transaction, and whichever ids are used again.
THEOREM TasksImplementStore == Spec => ImplementsStore
<1>1. Inv /\ [Next]_vars => [Store!Next]_<<items, ask, replyShown>>
  BY StepSimulation DEF Inv
<1> QED
  BY <1>1, InitSimulation, InvHolds, PTL DEF Spec, ImplementsStore, Store!Spec
-----------------------------------------------------------------------------
(* The page.  While nobody writes, what a refresh has read is what its     *)
(* queries give; a view that has no more done tasks than the limit is      *)
(* listed whole; and a done task is in one of the views, being whole.      *)

ReadIsFresh ==
  \A f \in Refresh, v \in View :
     f \in quiet /\ lists[f][v] # NotRead => lists[f][v] = ListItems(v, "done", Limit)

PageTyped ==
  /\ phase \in [Refresh -> {"idle", "reading", "done"}]
  /\ lists \in [Refresh -> [View -> {NotRead} \cup SUBSET (Nat \X Row)]]
  /\ \A f \in Refresh : phase[f] # "reading" => \A v \in View : lists[f][v] = NotRead

PageInv == Inv /\ PageTyped /\ ReadIsFresh /\ PanelShowsCompleted

DoneListed == {x \in Listed : x[2].status = "done"}

DoneIn(v) == {x \in Listed : InView(x, v) /\ x[2].status = "done"}

\* The table lists finitely many rows.
LEMMA ListedIsFinite ==
  ASSUME TableTyped
  PROVE  /\ Listed \in SUBSET (Nat \X Row)
         /\ \A v \in View : IsFiniteSet(DoneIn(v))
<1> DEFINE f == [i \in DOMAIN items |-> <<i, items[i]>>]
<1>1. IsFiniteSet(1..MaxId) /\ DOMAIN items \in SUBSET (1..MaxId)
  <2>1. 1 \in Int /\ MaxId \in Int
    BY TimesAreNaturals
  <2>2. IsFiniteSet(1..MaxId)
    BY <2>1, FS_Interval
  <2> QED
    BY <2>2 DEF TableTyped
<1>2. IsFiniteSet(DOMAIN items)
  BY <1>1, FS_Subset
<1>3. f \in Surjection(DOMAIN items, Listed)
  BY DEF Surjection, Listed
<1>4. IsFiniteSet(Listed)
  <2> HIDE DEF f
  <2> QED
    BY <1>2, <1>3, FS_Surjection
<1>5. \A v \in View : DoneIn(v) \in SUBSET Listed
  BY DEF DoneIn
<1>6. Listed \in SUBSET (Nat \X Row)
  BY <1>1 DEF Listed, TableTyped
<1> QED
  BY <1>4, <1>5, <1>6, FS_Subset

\* A list with no more entries than the LIMIT is not cut.
LEMMA ShortListIsWhole ==
  ASSUME TableTyped, NEW v \in View, Cardinality(DoneIn(v)) <= Limit
  PROVE  ListItems(v, "done", Limit) = DoneIn(v)
<1>1. IsFiniteSet(DoneIn(v)) /\ Cardinality(DoneIn(v)) \in Nat
  BY ListedIsFinite, FS_CardinalityType
<1>2. ASSUME NEW x \in DoneIn(v)
      PROVE  Cardinality({y \in DoneIn(v) : ViewBefore(v, y, x)}) < Limit
  <2>1. ~ViewBefore(v, x, x)
    <3>1. x \in Nat \X Row /\ x \in Listed /\ InView(x, v)
      BY ListedIsFinite DEF DoneIn
    <3>2. x[1] \in Int /\ x[2] \in Row
      BY <3>1
    <3>3. x[2].created \in Int
      BY <3>2, TimesAreNaturals DEF Row
    <3>4. CASE v = "ordered"
      <4>1. x[2].due \in Int
        BY <3>1, <3>2, <3>4, MomentsAreOrdered DEF Row, InView
      <4> QED
        BY <3>2, <3>4, <4>1 DEF ViewBefore
    <3>5. CASE v = "unordered"
      <4>1. x[2].priority \in Int
        BY <3>1, <3>2, <3>5, MomentsAreOrdered DEF Row, InView
      <4> QED
        BY <3>2, <3>3, <3>5, <4>1 DEF ViewBefore
    <3> QED
      BY <3>4, <3>5 DEF View
  <2>2. {y \in DoneIn(v) : ViewBefore(v, y, x)} \in SUBSET (DoneIn(v) \ {x})
    BY <2>1
  <2>3. /\ IsFiniteSet(DoneIn(v) \ {x})
        /\ Cardinality(DoneIn(v) \ {x}) = Cardinality(DoneIn(v)) - 1
    BY <1>1, FS_RemoveElement
  <2>4. /\ IsFiniteSet({y \in DoneIn(v) : ViewBefore(v, y, x)})
        /\ Cardinality({y \in DoneIn(v) : ViewBefore(v, y, x)}) <= Cardinality(DoneIn(v) \ {x})
    BY <2>2, <2>3, FS_Subset
  <2>5. Cardinality({y \in DoneIn(v) : ViewBefore(v, y, x)}) \in Nat
    BY <2>4, FS_CardinalityType
  <2> QED
    BY <1>1, <2>3, <2>4, <2>5, LimitIsPositive
<1>3. ListItems(v, "done", Limit)
        = {x \in DoneIn(v) : Cardinality({y \in DoneIn(v) : ViewBefore(v, y, x)}) < Limit}
  BY DEF ListItems, Leading, DoneIn
<1> QED
  BY <1>2, <1>3

\* A done task is in one of the two views.
LEMMA ViewsCover ==
  ASSUME TableTyped, RowsAreWhole
  PROVE  DoneIn("ordered") \cup DoneIn("unordered") = DoneListed
<1>1. ASSUME NEW x \in DoneListed PROVE InView(x, "ordered") \/ InView(x, "unordered")
  <2>1. PICK i \in DOMAIN items : x = <<i, items[i]>>
    BY DEF DoneListed, Listed
  <2>2. (items[i].due = Nil) # (items[i].priority = Nil) /\ x[2] = items[i]
    BY <2>1 DEF RowsAreWhole, Check
  <2> QED
    BY <2>2 DEF InView
<1> QED
  BY <1>1 DEF DoneIn, DoneListed

\* Two fresh lists that are whole are merged to what the server would give.
LEMMA FreshIsMerged ==
  ASSUME TableTyped, RowsAreWhole, FewDone, NEW f \in Refresh,
         \A v \in View : lists[f][v] = ListItems(v, "done", Limit)
  PROVE  Merged(lists[f]) = ListCompleted(Limit)
<1>1. "ordered" \in View /\ "unordered" \in View
  BY DEF View
<1>2. \A v \in View : Cardinality(DoneIn(v)) <= Limit
  BY DEF FewDone, DoneIn
<1>3. \A v \in View : lists[f][v] = DoneIn(v)
  BY <1>2, ShortListIsWhole
<1>4. lists[f]["ordered"] \cup lists[f]["unordered"] = DoneListed
  BY <1>1, <1>3, ViewsCover
<1>5. /\ Merged(lists[f]) = {x \in DoneListed :
             Cardinality({y \in DoneListed : CompletedBefore(y, x)}) < Limit}
      /\ ListCompleted(Limit) = {x \in DoneListed :
             Cardinality({y \in DoneListed : CompletedBefore(y, x)}) < Limit}
  BY <1>4 DEF Merged, ListCompleted, Leading, DoneListed
<1> QED
  BY <1>5

\* The page's queries read the table alone.
LEMMA QueriesSame ==
  items' = items => /\ ListCompleted(Limit)' = ListCompleted(Limit) /\ FewDone' = FewDone
                    /\ \A v \in View : ListItems(v, "done", Limit)' = ListItems(v, "done", Limit)
  BY DEF ListCompleted, FewDone, ListItems, Leading, Listed, InView, ViewBefore, CompletedBefore

\* The server renders the page, and no list has been read.
LEMMA PageInitInv == PageInit => PageInv
  BY InitInv DEF PageInit, PageInv, PageTyped, ReadIsFresh, PanelShowsCompleted

\* A write ends every quiet, and a step that does not write changes no list.
LEMMA ServerKeepsPage ==
  ASSUME PageInv, Inv', ServerStep
  PROVE  PageInv'
<1>1. UNCHANGED <<lists, phase, shown>> /\ quiet' = IF items' = items THEN quiet ELSE {}
  BY DEF ServerStep
<1>2. PageTyped'
  BY <1>1 DEF PageInv, PageTyped
<1>3. CASE items' = items
  BY <1>1, <1>2, <1>3, QueriesSame DEF PageInv, ReadIsFresh, PanelShowsCompleted
<1>4. CASE items' # items
  BY <1>1, <1>2, <1>4 DEF PageInv, ReadIsFresh, PanelShowsCompleted
<1> QED
  BY <1>3, <1>4

\* A refresh begins with nothing read.
LEMMA BeginKeepsPage ==
  ASSUME PageInv, Inv', NEW f \in Refresh, RefreshBegins(f)
  PROVE  PageInv'
<1>1. /\ items' = items /\ UNCHANGED <<lists, shown>>
      /\ phase[f] = "idle" /\ phase' = [phase EXCEPT ![f] = "reading"]
      /\ quiet' = quiet \cup {f}
  BY DEF RefreshBegins, vars
<1>2. PageTyped'
  BY <1>1 DEF PageInv, PageTyped
<1>3. ReadIsFresh'
  BY <1>1, QueriesSame DEF PageInv, PageTyped, ReadIsFresh
<1>4. PanelShowsCompleted'
  BY <1>1, QueriesSame, PanelIsNoRefresh DEF PageInv, PanelShowsCompleted
<1> QED
  BY <1>2, <1>3, <1>4 DEF PageInv

\* A list that is read is what its query gives now.
LEMMA ReadKeepsPage ==
  ASSUME PageInv, Inv', NEW f \in Refresh, RefreshReads(f)
  PROVE  PageInv'
<1>1. PICK v \in View : /\ lists[f][v] = NotRead
                        /\ lists' = [lists EXCEPT ![f][v] = ListItems(v, "done", Limit)]
  BY DEF RefreshReads
<1>2. /\ items' = items /\ UNCHANGED <<phase, shown, quiet>> /\ phase[f] = "reading"
  BY DEF RefreshReads, vars
<1>3. ListItems(v, "done", Limit) \in SUBSET (Nat \X Row)
  <2>1. Listed \in SUBSET (Nat \X Row)
    BY ListedIsFinite, TypeParts DEF PageInv, Inv
  <2>2. ListItems(v, "done", Limit) \in SUBSET Listed
    BY DEF ListItems, Leading
  <2> QED
    BY <2>1, <2>2
<1>4. PageTyped'
  BY <1>1, <1>2, <1>3 DEF PageInv, PageTyped
<1>5. ReadIsFresh'
  BY <1>1, <1>2, QueriesSame DEF PageInv, PageTyped, ReadIsFresh
<1>6. PanelShowsCompleted'
  BY <1>2, QueriesSame DEF PageInv, PanelShowsCompleted
<1> QED
  BY <1>4, <1>5, <1>6 DEF PageInv

\* A refresh that saw no write paints what the server would render.
LEMMA PaintKeepsPage ==
  ASSUME PageInv, Inv', NEW f \in Refresh, RefreshPaints(f)
  PROVE  PageInv'
<1>1. /\ items' = items
      /\ phase[f] = "reading" /\ \A v \in View : lists[f][v] # NotRead
      /\ phase' = [phase EXCEPT ![f] = "done"]
      /\ lists' = [lists EXCEPT ![f] = [v \in View |-> NotRead]]
      /\ shown' = Merged(lists[f])
      /\ quiet' = IF f \in quiet THEN quiet \cup {"panel"} ELSE quiet \ {"panel"}
  BY DEF RefreshPaints, vars
<1>2. PageTyped'
  BY <1>1 DEF PageInv, PageTyped
<1>3. ReadIsFresh'
  BY <1>1, QueriesSame, PanelIsNoRefresh DEF PageInv, PageTyped, ReadIsFresh
<1>4. PanelShowsCompleted'
  <2> SUFFICES ASSUME f \in quiet, FewDone PROVE shown' = ListCompleted(Limit)
    BY <1>1, QueriesSame DEF PanelShowsCompleted
  <2>1. \A v \in View : lists[f][v] = ListItems(v, "done", Limit)
    BY <1>1 DEF PageInv, ReadIsFresh
  <2>2. TableTyped /\ RowsAreWhole
    BY TypeParts DEF PageInv, Inv
  <2> QED
    BY <1>1, <2>1, <2>2, FreshIsMerged
<1> QED
  BY <1>2, <1>3, <1>4 DEF PageInv

\* The page never shows anything but the most recently completed tasks unless
\* something was written since it asked, or one view has more done tasks than
\* it asks for: for any refreshes that overlap with each other and with the
\* requests, and whichever of the two lists comes first.
THEOREM PanelIsRight == PageSpec => []PanelShowsCompleted
<1>1. PageInv /\ [PageNext]_<<vars, pageVars>> => PageInv'
  <2> SUFFICES ASSUME PageInv, [PageNext]_<<vars, pageVars>> PROVE PageInv'
    OBVIOUS
  <2>1. [Next]_vars
    BY DEF PageNext, ServerStep, RefreshBegins, RefreshReads, RefreshPaints
  <2>2. Inv'
    BY <2>1, NextType, NextChecked, NextWhole, NextCreatedStays, NextCreatedOnce
    DEF Inv, PageInv
  <2>3. CASE UNCHANGED <<vars, pageVars>>
    <3>1. items' = items /\ UNCHANGED <<lists, phase, shown, quiet>>
      BY <2>3 DEF vars, pageVars
    <3> QED
      BY <2>2, <3>1, QueriesSame DEF PageInv, PageTyped, ReadIsFresh, PanelShowsCompleted
  <2> QED
    BY <2>2, <2>3, ServerKeepsPage, BeginKeepsPage, ReadKeepsPage, PaintKeepsPage
    DEF PageNext
<1>2. PageInv => PanelShowsCompleted
  BY DEF PageInv
<1> QED
  BY <1>1, <1>2, PageInitInv, PTL DEF PageSpec
=============================================================================
