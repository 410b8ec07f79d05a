----------------------------- MODULE TaskStore -----------------------------
(***************************************************************************)
(* What docs/api.md and app/schemas.py promise of the tasks: a table of    *)
(* rows on which every request acts at most once, at one moment, and whose *)
(* answer shows the row as it was at that moment.  A request that fails    *)
(* changes nothing.  Tasks implements this specification.                  *)
(***************************************************************************)
EXTENDS Integers, FiniteSets

CONSTANTS
    Req,       \* the requests of a behaviour, each served once
    Uuid,      \* the client_uuids clients choose, the empty string included
    Due,       \* points in time a due_at can name
    Priority,  \* 1..5
    Nil,       \* SQL NULL, JSON null
    Absent,    \* a field the client did not send
    Ask,       \* the requests clients send
    NoAsk,     \* not a request
    NoReply,   \* not answered yet
    Id,        \* ids of tasks
    Time       \* moments

VARIABLES items, ask, reply

Status == {"open", "done", "cancelled"}

(* A task that has exactly one of due_at and priority, and a moment of     *)
(* completion exactly while it is done.                                    *)
Whole(row) ==
    /\ (row.due = Nil) # (row.priority = Nil)
    /\ (row.completed = Nil) # (row.status = "done")

\* "把 due_at 设为非空会自动清空 priority，反之亦然": what is given wins, the
\* other of the two goes, what is not given stays.
Patched(row, p, t) ==
    [due       |-> IF p.due \in Due THEN p.due
                   ELSE IF p.priority \in Priority THEN Nil ELSE row.due,
     priority  |-> IF p.priority \in Priority THEN p.priority
                   ELSE IF p.due \in Due THEN Nil ELSE row.priority,
     status    |-> IF p.status = Absent THEN row.status ELSE p.status,
     completed |-> IF p.status = Absent THEN row.completed
                   ELSE IF p.status = "done" THEN t ELSE Nil,
     uuid      |-> row.uuid,
     created   |-> row.created]

NewRow(a, t) == [due |-> a.due, priority |-> a.priority, status |-> "open",
                 completed |-> Nil, uuid |-> a.uuid, created |-> t]

Shown(code, id, row) == [code |-> code, id |-> id, row |-> row]

Answers(r, a, answer) ==
    /\ reply[r] = NoReply
    /\ ask' = [ask EXCEPT ![r] = a]
    /\ reply' = [reply EXCEPT ![r] = answer]

-----------------------------------------------------------------------------
Init ==
    /\ \A i \in DOMAIN items : Whole(items[i])
    /\ ask = [r \in Req |-> NoAsk]
    /\ reply = [r \in Req |-> NoReply]

\* The request arrives, and waits.
Receive(r) ==
    /\ ask[r] = NoAsk
    /\ \E a \in Ask : ask' = [ask EXCEPT ![r] = a]
    /\ UNCHANGED <<items, reply>>

Asked(r) == IF ask[r] = NoAsk THEN Ask ELSE {ask[r]}

\* No task has this client_uuid yet.
Create(r) ==
    \E a \in Asked(r), t \in Time, id \in Id \ DOMAIN items :
        /\ a.op = "create"
        /\ a.uuid # Nil => \A i \in DOMAIN items : items[i].uuid # a.uuid
        /\ items' = [i \in DOMAIN items \cup {id} |->
                        IF i = id THEN NewRow(a, t) ELSE items[i]]
        /\ Answers(r, a, Shown("created", id, NewRow(a, t)))

\* A repeated creation gets the task that is there.
CreateAgain(r) ==
    \E a \in Asked(r), id \in DOMAIN items :
        /\ a.op = "create" /\ a.uuid # Nil /\ items[id].uuid = a.uuid
        /\ Answers(r, a, Shown("existing", id, items[id]))
        /\ UNCHANGED items

\* Neither field can be emptied without the other being given.
Update(r) ==
    \E a \in Asked(r), t \in Time :
        /\ a.op = "patch" /\ a.id \in DOMAIN items
        /\ a.due = Nil => a.priority \in Priority
        /\ a.priority = Nil => a.due \in Due
        /\ items' = [items EXCEPT ![a.id] = Patched(@, a, t)]
        /\ Answers(r, a, Shown("patched", a.id, Patched(items[a.id], a, t)))

Delete(r) ==
    \E a \in Asked(r) :
        /\ a.op = "delete" /\ a.id \in DOMAIN items
        /\ items' = [i \in DOMAIN items \ {a.id} |-> items[i]]
        /\ Answers(r, a, Shown("deleted", a.id, Nil))

\* A 4xx or 5xx.
Fail(r) ==
    \E a \in Asked(r) :
        /\ \E code \in {"404", "409", "422", "500"} : Answers(r, a, Shown(code, 0, Nil))
        /\ UNCHANGED items

Next == \E r \in Req : \/ Receive(r) \/ Create(r) \/ CreateAgain(r)
                       \/ Update(r) \/ Delete(r) \/ Fail(r)

Spec == Init /\ [][Next]_<<items, ask, reply>>
=============================================================================
