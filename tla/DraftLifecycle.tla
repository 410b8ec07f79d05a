--------------------------- MODULE DraftLifecycle ---------------------------
(***************************************************************************)
(* What docs/api.md promises of a draft, without requests, tables or ids:  *)
(* a draft is created pending or failed; a pending draft is confirmed,     *)
(* which turns it into tasks, or discarded, which does not; those three    *)
(* outcomes are final until the draft is removed, and a draft removed never*)
(* comes back.                                                             *)
(***************************************************************************)
EXTENDS Naturals

CONSTANT Draft

VARIABLES
    state,  \* where each draft is
    turned  \* how many times each draft has been turned into tasks

vars == <<state, turned>>

Init ==
    /\ state = [d \in Draft |-> "new"]
    /\ turned = [d \in Draft |-> 0]

Create(d) ==
    /\ state[d] = "new"
    /\ \E s \in {"pending", "failed"} : state' = [state EXCEPT ![d] = s]
    /\ UNCHANGED turned

Confirm(d) ==
    /\ state[d] = "pending"
    /\ state' = [state EXCEPT ![d] = "confirmed"]
    /\ turned' = [turned EXCEPT ![d] = @ + 1]

Discard(d) ==
    /\ state[d] = "pending"
    /\ state' = [state EXCEPT ![d] = "discarded"]
    /\ UNCHANGED turned

Remove(gone) ==
    /\ \A d \in gone : state[d] \notin {"new", "removed"}
    /\ state' = [d \in Draft |-> IF d \in gone THEN "removed" ELSE state[d]]
    /\ UNCHANGED turned

Next ==
    \/ \E d \in Draft : Create(d) \/ Confirm(d) \/ Discard(d)
    \/ \E gone \in SUBSET Draft : Remove(gone)

Spec == Init /\ [][Next]_vars
=============================================================================
