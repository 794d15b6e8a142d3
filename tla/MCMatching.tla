----------------------------- MODULE MCMatching -----------------------------
(* One investor, an open and a screened project, two funding ranges.        *)
EXTENDS Matching, TLC

CONSTANTS small, large, ivy, demo, beta

MCMinAmount == small :> 1 @@ large :> 3
MCMaxAmount == small :> 3 @@ large :> 5
==============================================================================
