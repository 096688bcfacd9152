------------------------- MODULE MC_CampaignWorkflow -------------------------
(***************************************************************************)
(* Small instances of CampaignWorkflow: a control campaign, and a paid one *)
(* that shares its host.  The processes are interchangeable.               *)
(***************************************************************************)
EXTENDS CampaignWorkflow, TLC

CONSTANTS ctl, paid, w1, w2

WorkerSymmetry == Permutations({w1, w2})
=============================================================================
