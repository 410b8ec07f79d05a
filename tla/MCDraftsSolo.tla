---------------------------- MODULE MCDraftsSolo ----------------------------
(* A small instance of DraftsSolo for TLC.                                 *)
EXTENDS DraftsSolo, TLC

CONSTANTS a, b, bad

MCBatches == {<<>>, <<a, b>>, <<b, bad>>}

Symmetry == Permutations(Req)
=============================================================================
