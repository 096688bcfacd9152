--------------------------- MODULE MC_FactoryAutopilot ---------------------------
(***************************************************************************)
(* Small instances of FactoryAutopilot: a, then b behind one barrier.      *)
(***************************************************************************)
EXTENDS FactoryAutopilot, TLC

CONSTANTS a, b, auto, good, baseline

MCStages   == {a, b}
MCPosition == (a :> 1) @@ (b :> 2)
MCDeps     == (a :> {}) @@ (b :> {a})
MCAttempts == (a :> 2) @@ (b :> 1)
MCBarrier  == (a :> None) @@ (b :> baseline)
Alone      == {auto}
MCContents == {good}
MCOutputs  == {good, Absent, Malformed}
NoLeak     == {}
=============================================================================
