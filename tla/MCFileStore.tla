---------------------------- MODULE MCFileStore ----------------------------
EXTENDS FileStore

Counters(n) == [t \in DataTables |-> n]
Account(i, e, r) == [id |-> i, email |-> e, role |-> r, name |-> "seeded"]
Demo ==
  [accounts  |-> <<Account(1, "ann", "maker"), Account(2, "bob", "member")>>,
   projects  |-> {[id |-> 1, userId |-> 1, ownerEmail |-> NoText, title |-> "demo", at |-> 7],
                  [id |-> 2, userId |-> 9, ownerEmail |-> NoText, title |-> "nobody's", at |-> 0]},
   proposals |-> {[id |-> 1, projectId |-> 1, fundingRangeId |-> "small", at |-> 7],
                  [id |-> 2, projectId |-> 2, fundingRangeId |-> "small", at |-> 7]},
   events    |-> {[id |-> 1, projectId |-> 1, type |-> "create", at |-> 0]},
   upvotes   |-> {[id |-> 1, projectId |-> 1, email |-> "bob", at |-> 7],
                  [id |-> 0, projectId |-> 1, email |-> "ann", at |-> 7]},
   reviews   |-> {[id |-> 1, projectId |-> 1, authorEmail |-> "bob", type |-> "review", at |-> 0]},
   auditLogs |-> {[id |-> 1, targetId |-> 1, action |-> "review_reported", at |-> 7]},
   challenge |-> [title |-> "week", at |-> 7], next |-> Counters(2)]
Small ==
  [Demo EXCEPT !.accounts = <<Account(0, "cat", "member"), Account(1, "bob", "admin")>>,
               !.projects = {[id |-> 1, userId |-> 0, ownerEmail |-> "cat", title |-> "cats", at |-> 0]},
               !.upvotes = {[id |-> 1, projectId |-> 1, email |-> "cat", at |-> 7],
                            [id |-> 2, projectId |-> 1, email |-> "bob", at |-> 7]},
               !.challenge.title = NoText, !.next = Counters(0)]
MCFixtures == {Demo, Small}
User(i, e, r) == [id |-> i, email |-> e, role |-> r, name |-> "own"]
Used ==
  [rows |-> [t \in Tables |->
     CASE t = "users"      -> {User(1, "dan", "maker"), User(2, "ann", "maker"), User(3, "eve", "investor")}
       [] t = "projects"   -> {[id |-> 1, userId |-> 1, title |-> "dan's", matchCount |-> 0, committed |-> 0, at |-> 5],
                               [id |-> 2, userId |-> 2, title |-> "ann's", matchCount |-> 1, committed |-> 3, at |-> 5]}
       [] t = "proposals"  -> {[id |-> 1, projectId |-> 2, fundingRangeId |-> "large", at |-> 5]}
       [] t = "upvotes"    -> {[id |-> 1, projectId |-> 2, email |-> "dan", at |-> 5], [id |-> 3, projectId |-> 1, email |-> "bob", at |-> 5]}
       [] t = "logEntries" -> {[id |-> 1, projectId |-> 2, at |-> 5]}
       [] OTHER            -> {}],
   next |-> [t \in Tables |-> 4], challenge |-> NoChallenge]
MCFiles    == {NoFile, Damaged, Holds(Used)}
=============================================================================
