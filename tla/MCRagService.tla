----------------------------- MODULE MCRagService -----------------------------
(***************************************************************************)
(* RagService on a small instance: two documents, a directory with both    *)
(* and one with the second.  The first one shrinks when it is edited; the  *)
(* second has a sentence that is longer than what is kept of one.          *)
(***************************************************************************)
EXTENDS RagService, TLC

CONSTANTS guide, notes, small, large

MCDirs == {<<guide, notes>>, <<notes>>}
MCTexts == (guide :> << <<2, 3>>, <<1>> >>) @@ (notes :> << <<5>> >>)
MCDim == (small :> 1) @@ (large :> 2)
Symmetry == Permutations(Calls)
===============================================================================
