------------------------------ MODULE MCTasks ------------------------------
(* A small instance of TaskPage for TLC.                                   *)
EXTENDS TaskPage, TLC

CONSTANTS u

MCDue == {1, 2}
MCPriority == {1}

MCCreate(due, priority, uuid) == [op |-> "create", due |-> due, priority |-> priority, uuid |-> uuid]
MCPatch(id, due, priority, status) ==
    [op |-> "patch", id |-> id, due |-> due, priority |-> priority, status |-> status,
     other |-> FALSE]

\* Creations that race on one client_uuid, and on the empty one, and one that
\* does not validate; updates of task 1 to a deadline, to a priority, to
\* done and back, that set nothing, that would empty a field, or that do not
\* validate; deletions.
MCAsk ==
    {MCCreate(2, Nil, u), MCCreate(Nil, 1, Blank), MCCreate(1, 1, Nil),
     MCPatch(1, 1, Absent, Absent), MCPatch(1, Absent, 1, Absent), MCPatch(1, Nil, 1, "done"),
     [MCPatch(1, Absent, Absent, "open") EXCEPT !.other = TRUE], MCPatch(1, Absent, Absent, Absent),
     MCPatch(1, Nil, Absent, Absent), MCPatch(1, 2, 1, Absent),
     [op |-> "delete", id |-> 1]}

MCRow(due, priority, completed) ==
    [due |-> due, priority |-> priority, completed |-> completed, uuid |-> Nil, created |-> 0,
     status |-> IF completed = Nil THEN "open" ELSE "done"]

\* A table with an open task, and one with two done tasks.
MCTables == {<<MCRow(1, Nil, Nil)>>, <<MCRow(2, Nil, 0), MCRow(Nil, 1, 0)>>}

Symmetry == Permutations(Req) \cup Permutations(Refresh)
=============================================================================
