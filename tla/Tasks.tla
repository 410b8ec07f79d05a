------------------------------- MODULE Tasks -------------------------------
(***************************************************************************)
(* Creation, update and deletion of tasks.  A handler looks at the table   *)
(* over one connection, decides, and writes over another in one BEGIN      *)
(* IMMEDIATE .. COMMIT, which also reads the row it answers with; others   *)
(* may write in between.  Ids are rowids, used again once the largest is   *)
(* gone.                                                                   *)
(*                                                                         *)
(* Fields no property tells apart (title, notes, category, source) are     *)
(* one Boolean of a patch: whether it sets any of them.                    *)
(***************************************************************************)
EXTENDS Integers, FiniteSets

CONSTANTS
    Req, Uuid, Due, Priority, Nil, Absent, Ask, NoAsk, NoReply,
    Blank,   \* the empty client_uuid
    Tables,  \* the tables a server can start with
    MaxId,   \* bound on ids
    MaxTime  \* bound on the clock

Status == {"open", "done", "cancelled"}

CreateAsk == [op : {"create"}, due : Due \cup {Nil}, priority : Priority \cup {Nil},
              uuid : Uuid \cup {Nil}]
PatchAsk  == [op : {"patch"}, id : 1..MaxId, due : Due \cup {Nil, Absent},
              priority : Priority \cup {Nil, Absent},
              status : Status \cup {Absent}, other : BOOLEAN]
DeleteAsk == [op : {"delete"}, id : 1..MaxId]

Row == [due : Due \cup {Nil}, priority : Priority \cup {Nil}, status : Status,
        completed : 0..MaxTime \cup {Nil}, uuid : Uuid \cup {Nil},
        created : 0..MaxTime]

ASSUME TimesAreNaturals == MaxId \in Nat /\ MaxTime \in Nat
ASSUME NilIsNoValue == Nil \notin Due \cup Priority \cup Uuid \cup Nat \cup {Absent}
ASSUME AbsentIsNoValue == Absent \notin Due \cup Priority /\ Absent \notin Status
ASSUME BlankIsAUuid == Blank \in Uuid
ASSUME AsksAreTyped == Ask \subseteq CreateAsk \cup PatchAsk \cup DeleteAsk
ASSUME NoAskIsNoAsk == NoAsk \notin Ask

Codes == {"created", "existing", "patched", "deleted", "404", "409", "422",
          "taken", "gone", "busy"}
Reply == [code : Codes, id : 0..MaxId, row : Row \cup {Nil}]

ASSUME NoReplyIsNoReply == NoReply \notin Reply

VARIABLES
    items,  \* the table: a row for every id in use
    ask,    \* for every request what the client sent
    pc,     \* "idle", "write" (decided, before the transaction) or "done"
    stamp,  \* for every request the time it took when it decided
    reply,  \* for every request its answer
    now     \* the UTC clock, in the seconds of utc_iso

vars == <<items, ask, pc, stamp, reply, now>>

(* The CHECK of the table.                                                 *)
Check(row) == (row.due = Nil) # (row.priority = Nil)

ASSUME TablesAreWhole ==
    \A t \in Tables :
        /\ DOMAIN t \subseteq 1..MaxId /\ t \in [DOMAIN t -> Row]
        /\ \A i \in DOMAIN t : Check(t[i]) /\ (t[i].completed = Nil) # (t[i].status = "done")
        /\ \A i, j \in DOMAIN t : t[i].uuid = t[j].uuid /\ t[i].uuid # Nil => i = j

-----------------------------------------------------------------------------
(* The validators of ItemCreate and ItemUpdate.                            *)

Accepts(a) ==
    CASE a.op = "create" -> (a.due = Nil) # (a.priority = Nil)
      [] a.op = "patch"  -> /\ ~(a.due \in Due /\ a.priority \in Priority)
                            /\ ~(a.due = Nil /\ a.priority = Nil)
      [] OTHER           -> TRUE

(* The rows.                                                               *)

\* Faulty: the column is only read, never UNIQUE.
TakenNever(uuid) == FALSE

\* The UNIQUE constraint on client_uuid.
Taken(uuid) == uuid # Nil /\ \E i \in DOMAIN items : items[i].uuid = uuid

\* Faulty: the new id is the number of rows plus one.
IsNewIdByCount(id) == id = Cardinality(DOMAIN items) + 1

\* The rowid of a new row: the largest in use plus one.
IsNewId(id) ==
    /\ id \in 1..MaxId
    /\ \A i \in DOMAIN items : i < id
    /\ id = 1 \/ (id - 1) \in DOMAIN items

NewRow(a, t) == [due |-> a.due, priority |-> a.priority, status |-> "open",
                 completed |-> Nil, uuid |-> a.uuid, created |-> t]

\* Faulty: the priority stays.
AfterDueOnly(row, p) ==
    IF p.due = Absent THEN row ELSE [row EXCEPT !.due = p.due]

\* The block `if "due_at" in provided'.
AfterDue(row, p) ==
    IF p.due = Absent THEN row
    ELSE IF p.due = Nil THEN [row EXCEPT !.due = Nil]
    ELSE [row EXCEPT !.due = p.due, !.priority = Nil]

\* The block `if "priority" in provided'.
AfterPriority(row, p) ==
    IF p.priority = Absent THEN row
    ELSE IF p.priority = Nil THEN [row EXCEPT !.priority = Nil]
    ELSE [row EXCEPT !.priority = p.priority, !.due = Nil]

\* The block `if "status" in provided'.
AfterStatus(row, p, t) ==
    IF p.status = Absent THEN row
    ELSE [row EXCEPT !.status = p.status,
                     !.completed = IF p.status = "done" THEN t ELSE Nil]

\* The UPDATE statement: the columns of `values' are assigned, a later
\* assignment of a column replacing an earlier one, the others stay.
Updated(row, p, t) == AfterStatus(AfterPriority(AfterDue(row, p), p), p, t)

SetsNothing(p) == p.due = Absent /\ p.priority = Absent /\ p.status = Absent /\ ~p.other

\* One of the two would be emptied and the other not given.
Conflicts(p) == (p.due = Nil /\ p.priority = Absent) \/ (p.priority = Nil /\ p.due = Absent)

-----------------------------------------------------------------------------
(* The handlers.                                                           *)

Answer(code, id, row) == [code |-> code, id |-> id, row |-> row]

\* The 500s, by their cause.
Errors == {"taken", "gone", "busy"}

Init ==
    /\ items \in Tables
    /\ ask = [r \in Req |-> NoAsk]
    /\ pc = [r \in Req |-> "idle"]
    /\ stamp = [r \in Req |-> 0]
    /\ reply = [r \in Req |-> NoReply]
    /\ now = 0

\* r arrives with a and is answered in its first step.
AnswersAtOnce(r, a, answer) ==
    /\ pc' = [pc EXCEPT ![r] = "done"]
    /\ ask' = [ask EXCEPT ![r] = a]
    /\ reply' = [reply EXCEPT ![r] = answer]
    /\ UNCHANGED <<stamp, now>>

\* r arrives with a, has looked, and goes on to write; the times it will write
\* (created_at, completed_at) it takes now.
GoesOn(r, a) ==
    /\ pc' = [pc EXCEPT ![r] = "write"]
    /\ ask' = [ask EXCEPT ![r] = a]
    /\ stamp' = [stamp EXCEPT ![r] = now]
    /\ UNCHANGED <<items, reply, now>>

Finishes(r, answer) ==
    /\ pc' = [pc EXCEPT ![r] = "done"]
    /\ reply' = [reply EXCEPT ![r] = answer]
    /\ stamp' = [stamp EXCEPT ![r] = 0]
    /\ UNCHANGED <<ask, now>>

Arrives(r, a) == pc[r] = "idle" /\ a \in Ask /\ Accepts(a)

\* 422: the payload does not validate.
Reject(r) ==
    /\ pc[r] = "idle"
    /\ \E a \in Ask : ~Accepts(a) /\ AnswersAtOnce(r, a, Answer("422", 0, Nil))
    /\ UNCHANGED items

\* An empty client_uuid is falsy: it is not looked for.
IsLookedFor(uuid) == uuid \notin {Nil, Blank}

CreateFinds(r) ==
    /\ \E a \in Ask, id \in DOMAIN items :
          /\ Arrives(r, a) /\ a.op = "create"
          /\ IsLookedFor(a.uuid) /\ items[id].uuid = a.uuid
          /\ AnswersAtOnce(r, a, Answer("existing", id, items[id]))
    /\ UNCHANGED items

CreateMisses(r) ==
    \E a \in Ask :
        /\ Arrives(r, a) /\ a.op = "create"
        /\ IsLookedFor(a.uuid) => ~Taken(a.uuid)
        /\ GoesOn(r, a)

\* The INSERT, and the SELECT of the new row in the same transaction.
CreateInserts(r) ==
    /\ pc[r] = "write" /\ ask[r].op = "create" /\ ~Taken(ask[r].uuid)
    /\ \E id \in 1..MaxId :
          /\ IsNewId(id)
          /\ items' = [i \in DOMAIN items \cup {id} |->
                          IF i = id THEN NewRow(ask[r], stamp[r]) ELSE items[i]]
          /\ Finishes(r, Answer("created", id, NewRow(ask[r], stamp[r])))

\* The UNIQUE constraint fails: somebody else inserted the client_uuid since
\* the lookup, or it is the empty one.
CreateCollides(r) ==
    /\ pc[r] = "write" /\ ask[r].op = "create" /\ Taken(ask[r].uuid)
    /\ Finishes(r, Answer("taken", 0, Nil))
    /\ UNCHANGED items

PatchMisses(r) ==
    /\ \E a \in Ask :
          /\ Arrives(r, a) /\ a.op = "patch" /\ a.id \notin DOMAIN items
          /\ AnswersAtOnce(r, a, Answer("404", 0, Nil))
    /\ UNCHANGED items

PatchConflicts(r) ==
    /\ \E a \in Ask :
          /\ Arrives(r, a) /\ a.op = "patch" /\ a.id \in DOMAIN items /\ Conflicts(a)
          /\ AnswersAtOnce(r, a, Answer("409", 0, Nil))
    /\ UNCHANGED items

\* Nothing to set: the row read is the answer.
PatchSetsNothing(r) ==
    /\ \E a \in Ask :
          /\ Arrives(r, a) /\ a.op = "patch" /\ a.id \in DOMAIN items /\ SetsNothing(a)
          /\ AnswersAtOnce(r, a, Answer("patched", a.id, items[a.id]))
    /\ UNCHANGED items

PatchReads(r) ==
    \E a \in Ask :
        /\ Arrives(r, a) /\ a.op = "patch" /\ a.id \in DOMAIN items
        /\ ~Conflicts(a) /\ ~SetsNothing(a)
        /\ GoesOn(r, a)

Patching(r) == pc[r] = "write" /\ ask[r].op = "patch"

\* The UPDATE of whatever row now has the id.  That the CHECK of the table
\* never rolls it back is what RowsAreWhole says.
PatchWrites(r) ==
    /\ Patching(r)
    /\ LET id == ask[r].id IN
          /\ id \in DOMAIN items
          /\ items' = [items EXCEPT ![id] = Updated(@, ask[r], stamp[r])]
          /\ Finishes(r, Answer("patched", id, Updated(items[id], ask[r], stamp[r])))

\* The row is gone: the UPDATE changes none, the SELECT finds none, and
\* ItemOut.from_row(None) raises.
PatchFindsNoRow(r) ==
    /\ Patching(r) /\ ask[r].id \notin DOMAIN items
    /\ Finishes(r, Answer("gone", 0, Nil))
    /\ UNCHANGED items

\* The write lock is not free within busy_timeout.
WriteFails(r) ==
    /\ pc[r] = "write"
    /\ Finishes(r, Answer("busy", 0, Nil))
    /\ UNCHANGED items

Delete(r) ==
    \E a \in Ask :
        /\ Arrives(r, a) /\ a.op = "delete" /\ a.id \in DOMAIN items
        /\ items' = [i \in DOMAIN items \ {a.id} |-> items[i]]
        /\ AnswersAtOnce(r, a, Answer("deleted", a.id, Nil))

DeleteMisses(r) ==
    /\ \E a \in Ask :
          /\ Arrives(r, a) /\ a.op = "delete" /\ a.id \notin DOMAIN items
          /\ AnswersAtOnce(r, a, Answer("404", 0, Nil))
    /\ UNCHANGED items

Tick ==
    /\ now < MaxTime
    /\ now' = now + 1
    /\ UNCHANGED <<items, ask, pc, stamp, reply>>

Handler(r) ==
    \/ Reject(r)
    \/ CreateFinds(r) \/ CreateMisses(r) \/ CreateInserts(r) \/ CreateCollides(r)
    \/ PatchMisses(r) \/ PatchConflicts(r) \/ PatchSetsNothing(r) \/ PatchReads(r)
    \/ PatchWrites(r) \/ PatchFindsNoRow(r)
    \/ Delete(r) \/ DeleteMisses(r) \/ WriteFails(r)

Next == Tick \/ \E r \in Req : Handler(r)

Spec == Init /\ [][Next]_vars

-----------------------------------------------------------------------------
(* Properties.                                                             *)

\* Types.
TypeOK ==
    /\ DOMAIN items \subseteq 1..MaxId /\ items \in [DOMAIN items -> Row]
    /\ ask \in [Req -> Ask \cup {NoAsk}]
    /\ pc \in [Req -> {"idle", "write", "done"}]
    /\ now \in 0..MaxTime
    /\ stamp \in [Req -> 0..MaxTime]
    /\ reply \in [Req -> Reply \cup {NoReply}]
    /\ \A r \in Req : /\ (pc[r] = "idle") = (ask[r] = NoAsk)
                       /\ (pc[r] = "done") = (reply[r] # NoReply)

\* Every row has exactly one of due_at and priority and a completed_at exactly
\* while it is done, whatever updates of it overlap: what update_item read
\* before its transaction decides none of the columns it sets.
RowsAreWhole ==
    \A i \in DOMAIN items : /\ Check(items[i])
                            /\ (items[i].completed = Nil) # (items[i].status = "done")

Answered(r, codes) == pc[r] = "done" /\ reply[r].code \in codes

\* A creation that is sent again creates nothing new: two requests with one
\* client_uuid are both answered 201 only if the first task was deleted.  Both
\* may look before either writes.
CreatedOnce ==
    \A r, q \in Req :
        /\ r # q /\ Answered(r, {"created"}) /\ Answered(q, {"created"})
        /\ ask[r].uuid = ask[q].uuid /\ ask[r].uuid # Nil
        => \E d \in Req : /\ Answered(d, {"deleted"})
                          /\ reply[d].id \in {reply[r].id, reply[q].id}

\* The answers of the 500s, which TaskStore does not tell apart.
replyShown ==
    [r \in Req |-> IF reply[r] = NoReply THEN NoReply
                   ELSE [reply[r] EXCEPT !.code = IF @ \in Errors THEN "500" ELSE @]]

Store == INSTANCE TaskStore WITH reply <- replyShown, Id <- 1..MaxId, Time <- 0..MaxTime

\* Each handler, a sequence of steps other handlers write in between, acts on
\* the table at one moment and answers with what the table held then.
ImplementsStore == Store!Spec
=============================================================================
