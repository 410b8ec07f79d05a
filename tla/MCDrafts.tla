------------------------------ MODULE MCDrafts ------------------------------
(* Small instances of Drafts for TLC.                                      *)
EXTENDS Drafts, TLC

CONSTANTS a, b, bad

\* An empty list (an extraction that finds nothing, a client that deletes
\* every element), two tasks, and a list one element of which breaks the
\* either-or rule of due_at and priority.
MCBatches == {<<>>, <<a, b>>, <<b, bad>>}

Symmetry == Permutations(Req)
=============================================================================
