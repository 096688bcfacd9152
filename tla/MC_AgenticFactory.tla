---------------------------- MODULE MC_AgenticFactory ----------------------------
(***************************************************************************)
(* Small instances of AgenticFactory for TLC.                              *)
(***************************************************************************)
EXTENDS AgenticFactory, TLC

CONSTANTS a, b, w1, w2, good, leak

\* Two stages; b depends on a although the plan lists it first
MCStages    == {a, b}
MCPosition  == (a :> 2) @@ (b :> 1)
ChainDeps   == (a :> {}) @@ (b :> {a})
MCAttempts  == (a :> 2) @@ (b :> 1)
MCWorkers   == {w1, w2}
WorkerSymmetry == Permutations(MCWorkers)

GoodOrLeak  == {good, leak}
OneLeak     == {leak}
OnlyGood    == {good}
NoLeak      == {}
OneWorker   == {w1}
AnyOutput   == Contents \cup {Absent, Malformed, Symlink}
BashOutput  == {good, Absent, Symlink}
=============================================================================
