-------------------------- MODULE MC_HarborModelMatrix --------------------------
(***************************************************************************)
(* Small instances of HarborModelMatrix for TLC.                           *)
(***************************************************************************)
EXTENDS HarborModelMatrix, TLC

CONSTANTS frontier, weak, w1, w2

MCModels  == {frontier, weak}
MCOrder   == (frontier :> 1) @@ (weak :> 2)
Two       == {w1, w2}
One       == {w1}
WorkerSymmetry == Permutations(Two)
=============================================================================
