------------------------------ MODULE MCMarket ------------------------------
EXTENDS Market

Row(i, acc, cat, mk) ==
  [id |-> i, maker |-> mk, title |-> i, created |-> i, access |-> acc, url |-> IF i = 1 THEN "u1" ELSE IF i = 2 THEN "u2" ELSE "u3",
   words |-> IF i = 1 THEN {"w"} ELSE {}, tags |-> IF i = 3 THEN {} ELSE {"t"}, category |-> cat, verified |-> TRUE,
   ms |-> 300, previews |-> 1, outbounds |-> 0, matchEvents |-> i - 1, matches |-> i - 1, age |-> 30, reviewers |-> 0,
   committedMin |-> i - 1, committedMax |-> i - 1, upvotes |-> 0, seen |-> 0]
MCCatalogue == {Row(1, "open", "ai", 1), Row(2, "screened", "web", 1)}
MCLate      == Row(3, "open", "ai", 2)
MCValues    == [category |-> {"ai"}, tag |-> {"t"}, access |-> {"open"}, q |-> {"w"},
                sort |-> {"upvotes"}, minSignal |-> {80}, min |-> {2},
                max |-> {1, 3}, verified |-> {TRUE}, limit |-> {2}]
MCPresets   == {Defaults, [Defaults EXCEPT !.min = 2, !.category = "ai", !.page = 2],
                [Defaults EXCEPT !.access = "open"],
                [Defaults EXCEPT !.q = "w", !.sort = "recent", !.fav = TRUE]}
=============================================================================
