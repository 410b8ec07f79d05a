------------------------------ MODULE TaskPage ------------------------------
(***************************************************************************)
(* The list of completed tasks on the tasks page, beside the writes of     *)
(* Tasks.  The server renders it with list_completed; afterwards the page  *)
(* refreshes it itself from two lists of done tasks, one per view, which   *)
(* it requests at once and merges when both are there.  Refreshes overlap. *)
(* A list is the set of its rows: ids and contents give the order.         *)
(***************************************************************************)
EXTENDS Tasks

CONSTANTS
    Refresh,  \* the refreshes of a behaviour
    Limit,    \* COMPLETED_LIMIT
    NotRead   \* a list that has not come back

ASSUME LimitIsPositive == Limit \in Nat \ {0}

\* ORDER BY compares them.
ASSUME MomentsAreOrdered == Due \cup Priority \subseteq Int

\* `quiet' names the panel beside the refreshes.
ASSUME PanelIsNoRefresh == "panel" \notin Refresh

VARIABLES
    lists,   \* for every refresh the lists of the two views
    phase,   \* for every refresh "idle", "reading" or "done"
    shown,   \* the panel: a set of pairs of id and row
    quiet    \* who has seen no write: refreshes, and "panel" for what is shown

pageVars == <<lists, phase, shown, quiet>>

View == {"ordered", "unordered"}

-----------------------------------------------------------------------------
(* The queries.                                                            *)

Listed == {<<i, items[i]>> : i \in DOMAIN items}

InView(entry, view) == IF view = "ordered" THEN entry[2].due # Nil
                       ELSE entry[2].priority # Nil

\* ORDER BY due_at, id and ORDER BY priority, created_at, id.
ViewBefore(view, x, y) ==
    IF view = "ordered"
    THEN \/ x[2].due < y[2].due
         \/ x[2].due = y[2].due /\ x[1] < y[1]
    ELSE \/ x[2].priority < y[2].priority
         \/ x[2].priority = y[2].priority /\ x[2].created < y[2].created
         \/ x[2].priority = y[2].priority /\ x[2].created = y[2].created /\ x[1] < y[1]

\* ORDER BY completed_at DESC, id DESC; byCompletedDesc.
CompletedBefore(x, y) ==
    \/ x[2].completed > y[2].completed
    \/ x[2].completed = y[2].completed /\ x[1] > y[1]

\* LIMIT n of a list in this order.
Leading(S, n, Before(_, _)) == {x \in S : Cardinality({y \in S : Before(y, x)}) < n}

ListItems(view, status, n) ==
    LET Before(x, y) == ViewBefore(view, x, y)
    IN  Leading({x \in Listed : InView(x, view) /\ x[2].status = status}, n, Before)

ListCompleted(n) == Leading({x \in Listed : x[2].status = "done"}, n, CompletedBefore)

\* Faulty: the merged list is cut in the order of ids.
MergedById(done) ==
    LET Before(x, y) == x[1] < y[1]
    IN  Leading(done["ordered"] \cup done["unordered"], Limit, Before)

\* concat, sort and slice of refresh().
Merged(done) == Leading(done["ordered"] \cup done["unordered"], Limit, CompletedBefore)

-----------------------------------------------------------------------------
(* The page.                                                               *)

PageInit ==
    /\ Init
    /\ lists = [f \in Refresh |-> [v \in View |-> NotRead]]
    /\ phase = [f \in Refresh |-> "idle"]
    /\ shown = ListCompleted(Limit)
    /\ quiet = {"panel"}

RefreshBegins(f) ==
    /\ phase[f] = "idle"
    /\ phase' = [phase EXCEPT ![f] = "reading"]
    /\ quiet' = quiet \cup {f}
    /\ UNCHANGED <<vars, lists, shown>>

\* The server answers one of the two requests.
RefreshReads(f) ==
    /\ phase[f] = "reading"
    /\ \E v \in View :
          /\ lists[f][v] = NotRead
          /\ lists' = [lists EXCEPT ![f][v] = ListItems(v, "done", Limit)]
    /\ UNCHANGED <<vars, phase, shown, quiet>>

\* Promise.all resolves, and the panel is painted.
RefreshPaints(f) ==
    /\ phase[f] = "reading" /\ \A v \in View : lists[f][v] # NotRead
    /\ phase' = [phase EXCEPT ![f] = "done"]
    /\ lists' = [lists EXCEPT ![f] = [v \in View |-> NotRead]]
    /\ shown' = Merged(lists[f])
    /\ quiet' = IF f \in quiet THEN quiet \cup {"panel"} ELSE quiet \ {"panel"}
    /\ UNCHANGED vars

\* A step of the server.
ServerStep ==
    /\ Next
    /\ quiet' = IF items' = items THEN quiet ELSE {}
    /\ UNCHANGED <<lists, phase, shown>>

PageNext ==
    \/ ServerStep
    \/ \E f \in Refresh : RefreshBegins(f) \/ RefreshReads(f) \/ RefreshPaints(f)

PageSpec == PageInit /\ [][PageNext]_<<vars, pageVars>>

-----------------------------------------------------------------------------
(* Properties.                                                             *)

\* No view has more done tasks than the panel has room for.
FewDone == \A v \in View : Cardinality({x \in Listed : InView(x, v) /\ x[2].status = "done"}) <= Limit

\* Without a write since it began, a refresh paints what list_completed gives:
\* the most recently completed tasks.  This needs FewDone.  The two lists are
\* cut by due_at and by priority, not by completed_at, so with more done tasks
\* in one view than the limit the most recent one may be missing.
PanelShowsCompleted == "panel" \in quiet /\ FewDone => shown = ListCompleted(Limit)
=============================================================================
