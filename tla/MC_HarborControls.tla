---------------------------- MODULE MC_HarborControls ----------------------------
(***************************************************************************)
(* Small instances of HarborControls for TLC.                              *)
(***************************************************************************)
EXTENDS HarborControls, TLC

CONSTANTS w1, w2

Two == {w1, w2}
One == {w1}
WorkerSymmetry == Permutations(Two)
=============================================================================
