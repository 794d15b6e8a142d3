----------------------------- MODULE MCCommunity -----------------------------
(* One project of a maker, one person interested in it, one admin.           *)
EXTENDS Community

CONSTANTS demo, ada, mo, ivy, spam

MCOwner == [p \in Projects |-> mo]
MCSeedThreads ==
  {[id |-> 1, project |-> demo, author |-> mo, text |-> {}, status |-> "visible",
    hiddenBy |-> Nobody]}
MCRole == [m \in Members |->
             IF m = ada THEN "admin" ELSE IF m = mo THEN "maker" ELSE "investor"]
==============================================================================
