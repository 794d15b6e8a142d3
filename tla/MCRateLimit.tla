----------------------------- MODULE MCRateLimit -----------------------------
(* Two direct callers, who may claim to be each other.                       *)
EXTENDS RateLimit

CONSTANTS h1, h2
==============================================================================
