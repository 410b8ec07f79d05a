----------------------------- MODULE DraftsSolo -----------------------------
(***************************************************************************)
(* Drafts when no request and no sweep runs between the read and the answer*)
(* of a confirm or discard: one client at a time, the way the tests drive  *)
(* the server, and also what the handlers would do if they read, wrote and *)
(* answered from one transaction.  Then the drafts implement DraftLifecycle.*)
(***************************************************************************)
EXTENDS Drafts

\* The requests that have read a draft row and have not answered yet.
Deciding == {r \in Req : req[r].pc \in {"write", "reread"}}

SoloNext ==
    \/ \E r \in Req : Serve(r) /\ Deciding \subseteq {r}
    \/ CleanupExpired /\ Deciding = {}
    \/ Restart
    \/ Tick

SoloSpec == Init /\ [][SoloNext]_vars

-----------------------------------------------------------------------------
(* The drafts of the abstract specification are the ingest requests that   *)
(* created the rows.                                                       *)

RowsOf(u) == {d \in DraftId : drafts[d].origin = u}

StateOf(u) ==
    IF req[u].kind # "ingest" \/ req[u].draft = 0 THEN "new"
    ELSE IF RowsOf(u) = {} THEN "removed"
    ELSE drafts[req[u].draft].status

Lifecycle == INSTANCE DraftLifecycle WITH
    Draft  <- Req,
    state  <- [u \in Req |-> StateOf(u)],
    turned <- [u \in Req |-> Cardinality(ConfirmsOf(u))]

\* Read, decide, write and answer look to a single client like the one step
\* of the documented state machine.
ImplementsLifecycle == Lifecycle!Spec

\* The answer of a confirmation may be lost, or fail after the commit (the
\* second get_draft of confirm_draft_endpoint), and the draft still tells
\* what was done: as long as it is there, it is confirmed exactly if its
\* tasks were inserted, and names these tasks and what was reviewed.  A 200
\* says that they were inserted, and none of the refusals says so of a
\* confirmation that did insert them.
OutcomeIsOnRecord ==
    /\ \A r \in Req : req[r].kind = "confirm" =>
          /\ req[r].ids # {} => req[r].pc = "reread" \/ req[r].reply \in {"200", "500", "lost"}
          /\ req[r].reply = "200" => req[r].ids # {}
    /\ \A d \in LiveDrafts :
          /\ drafts[d].status = "confirmed" <=> ConfirmsOf(drafts[d].origin) # {}
          /\ \A r \in ConfirmsOf(drafts[d].origin) :
                drafts[d].created = req[r].ids /\ drafts[d].batch = req[r].batch
=============================================================================
