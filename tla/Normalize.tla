----------------------------- MODULE Normalize -----------------------------
(***************************************************************************)
(* normalize_items: what becomes of the items a model returns.             *)
(*                                                                         *)
(* An item is NotAnObject, or has a `title' ("" for what is blank), a      *)
(* `category', a `due' and a `priority'.  The kind of a due_at is "empty", *)
(* "unparsable", "overflows" (in UTC it is no date any more) or "moment",  *)
(* which is `at'.  The kind of a priority is "empty" (missing or null),    *)
(* "unparsable", "infinite" (JSON lets it pass) or "number": `value' is    *)
(* what int() makes of it, and `exact' tells if the two are equal.         *)
(***************************************************************************)
EXTENDS Integers, Sequences, SequencesExt

NotAnObject == [object |-> FALSE]

Categories == {"homework", "practice", "exam", "appointment", "other"}

DefaultPriority == 3
NoPriority == 0
NoDue == 0

\* _coerce_priority: a number is brought into 1..5.
Coerced(p) ==
    IF p.kind # "number" THEN NoPriority
    ELSE IF p.value < 1 THEN 1 ELSE IF p.value > 5 THEN 5 ELSE p.value

\* normalize_due_at.
DueOf(raw) == IF raw.due.kind = "moment" THEN raw.due.at ELSE NoDue

\* Faulty: a priority stays beside a deadline.
PriorityBesideDue(raw) ==
    IF Coerced(raw.priority) = NoPriority THEN DefaultPriority ELSE Coerced(raw.priority)

\* The deadline wins; without either there is a default.
PriorityOf(raw) ==
    IF raw.due.kind = "moment" THEN NoPriority
    ELSE IF Coerced(raw.priority) = NoPriority THEN DefaultPriority
    ELSE Coerced(raw.priority)

CategoryOf(raw) == IF raw.category \in Categories THEN raw.category ELSE "other"

\* The marks that say how an item differs from what the model gave.
Adjustments(raw) ==
    LET n == Coerced(raw.priority)
        marks ==
            [category_downgraded |-> raw.category \notin Categories \cup {""},
             due_unparsable |-> raw.due.kind = "unparsable",
             priority_unparsable |-> raw.priority.kind = "unparsable",
             priority_clamped |-> n # NoPriority /\ ~(raw.priority.exact /\ raw.priority.value = n),
             priority_dropped |-> raw.due.kind = "moment" /\ n # NoPriority,
             priority_defaulted |-> raw.due.kind # "moment" /\ n = NoPriority]
    IN  {m \in DOMAIN marks : marks[m]}

Item(raw) ==
    [category |-> CategoryOf(raw), due |-> DueOf(raw), priority |-> PriorityOf(raw),
     needsPriority |-> raw.due.kind # "moment" /\ Coerced(raw.priority) = NoPriority,
     adjustments |-> Adjustments(raw)]

\* Not an object, or without a title.
Dropped(raw) == ~raw.object \/ raw.title = ""

\* An OverflowError, which neither of the two except clauses catches.
Overflows(raw) == raw.due.kind = "overflows" \/ raw.priority.kind = "infinite"

\* One round of the loop, which is left when `limit' items have been kept.
Round(result, raw, limit) ==
    IF result.failed \/ Len(result.items) >= limit \/ Dropped(raw) THEN result
    ELSE IF Overflows(raw) THEN [result EXCEPT !.failed = TRUE]
    ELSE [result EXCEPT !.items = Append(@, Item(raw))]

NormalizeItems(raws, limit) ==
    LET round(result, raw) == Round(result, raw, limit)
    IN  FoldLeft(round, [failed |-> FALSE, items |-> <<>>], raws)
=============================================================================
