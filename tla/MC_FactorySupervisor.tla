------------------------- MODULE MC_FactorySupervisor -------------------------
(***************************************************************************)
(* Small instances of FactorySupervisor for TLC.                           *)
(***************************************************************************)
EXTENDS FactorySupervisor, TLC

\* --builtin-volc with the Harbor CLI, and all stages behind adapters
Unattended == [s \in External |-> IF s = "harbor" THEN "launcher" ELSE "builtin"]
Adapters   == [s \in External |-> "adapter"]
Both       == {Unattended, Adapters}
OnlyUnattended == {Unattended}
=============================================================================
