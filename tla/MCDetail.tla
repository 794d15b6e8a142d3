------------------------------ MODULE MCDetail ------------------------------
EXTENDS Detail

MCOwner   == 1 :> "ann" @@ 2 :> "ann"
MCUnread  == "ann" :> 2 @@ "eve" :> 1
MCNotices == {[n |-> 1, user |-> "ann", project |-> 1, read |-> FALSE]}
MCVisits  == {<<"ann", 0>>, <<"eve", 9>>}
MCReviews == {[n |-> 1, project |-> 1, parent |-> 0, text |-> 0],
              [n |-> 2, project |-> 2, parent |-> 0, text |-> 0]}
MCReports == 1 :> {"cid", "dan"} @@ 2 :> {}
=============================================================================
