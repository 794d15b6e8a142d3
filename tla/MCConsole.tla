----------------------------- MODULE MCConsole -----------------------------
EXTENDS Console

Site(i, ok, ms, acc, cat, n, sum) ==
  [id |-> i, verified |-> ok, ms |-> ms, access |-> acc, category |-> cat,
   investors |-> n, matches |-> n, committed |-> sum]
Event(n, p, t, day)   == [n |-> n, project |-> p, type |-> t, day |-> day]
Proposal(n, p, range) == [n |-> n, project |-> p, range |-> range]

MCSites        == {Site(1, TRUE, 300, "open", "ai", 2, 130), Site(2, FALSE, 0, "screened", "web", 0, 0),
                   Site(3, FALSE, 0, "open", "ai", 0, 0)}
MCEntered      == {Proposal(1, 1, "small"), Proposal(2, 1, "large")}
MCHistory      == {Event(1, 1, "match", 20), Event(2, 2, "preview", 27)}
MCNewEvents    == {Event(3, 2, "outbound", 40)}
MCNewProposals == {Proposal(4, 2, "large")}

Config(maker, investor, lead, mr, ir, cr, fr, churn) ==
  [makerFee |-> maker, investorFee |-> investor, leadFee |-> lead, makerRate |-> mr,
   investorRate |-> ir, closeRate |-> cr, feeRate |-> fr, churn |-> churn]
MCDefault     == Config(25, 19, 8, 180, 140, 120, 35, 120)
MCTemplates   == {Config(42, 33, 12, 250, 200, 180, 50, 90)}
MCMultipliers == <<125, 130>>
MCTyped       == {NaN, 110}
=============================================================================
