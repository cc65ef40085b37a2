----------------------------- MODULE MCCampaign -----------------------------
(* Two instances of one seed that can both find one more case.  f1 is killed *)
(* and started again twice, and trims; f2 may die once, for good.            *)
EXTENDS Campaign, TLC
CONSTANTS c0, c1, f1, f2
MCSeeds == <<c0>>
MCFinds == (f1 :> {c1}) @@ (f2 :> {c1})
MCStarts == (f1 :> 3) @@ (f2 :> 1)
MCTrims == (f1 :> 1) @@ (f2 :> 0)
=============================================================================
