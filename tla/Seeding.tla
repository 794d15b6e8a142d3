------------------------------ MODULE Seeding ------------------------------
(* What seed-test-data.mjs and seed-test-accounts.mjs make of a store and a   *)
(* fixture: both read the JSON store, merge the fixture into it and write the *)
(* result.  A store is its tables, their id counters and the challenge.  In a  *)
(* fixture 0 stands for a missing or malformed number, NoText for a missing    *)
(* text.  `at' stands for the dates of a row, 0 when the fixture lacks one of *)
(* them; users have none.                                                     *)
EXTENDS Integers, FiniteSets, Sequences

NoText == ""
NoChallenge == [title |-> NoText, at |-> 0]
Tables == {"users", "projects", "proposals", "events", "upvotes", "reviews",
           "auditLogs", "logEntries", "notifications"}
DataTables    == Tables \ {"logEntries", "notifications"}   \* what seed-test-data knows
AccountTables == {"users", "projects", "proposals", "events"}

Empty == [rows |-> [t \in Tables |-> {}], next |-> [t \in Tables |-> 1],
          challenge |-> NoChallenge]

(* A file may lack tables and counters; whoever reads it fills in the tables  *)
(* it knows, and forgets the others.                                          *)
RowsIn(raw, known) ==
  [t \in known |-> IF t \in DOMAIN raw.rows THEN raw.rows[t] ELSE {}]
NextIn(raw, known) == [t \in known |-> IF t \in DOMAIN raw.next THEN raw.next[t] ELSE 1]

(* deserializeState of the server, and the two scripts' loadStoreState.       *)
Deserialize(raw)  == [rows |-> RowsIn(raw, Tables), next |-> NextIn(raw, Tables),
                      challenge |-> raw.challenge]
LoadData(raw)     == [rows |-> RowsIn(raw, DataTables), next |-> NextIn(raw, DataTables),
                      challenge |-> raw.challenge]
LoadAccounts(raw) == [rows |-> RowsIn(raw, AccountTables), next |-> NextIn(raw, AccountTables),
                      challenge |-> NoChallenge]

(* normalizeAccounts ... normalizeAuditLogs: an entry without a valid id or   *)
(* without what it is about is dropped, an unknown kind drops it or falls     *)
(* back to a default.                                                         *)
Roles == {"maker", "investor", "member", "admin"}
Amount == [small |-> 1, large |-> 3]      \* FUNDING_RANGES, least amounts

Named(raw) ==
  LET kept[n \in 0..Len(raw)] ==
        IF n = 0 THEN <<>>
        ELSE IF raw[n].email = NoText THEN kept[n - 1] ELSE Append(kept[n - 1], raw[n])
  IN kept[Len(raw)]
NormalAccounts(raw, roles) ==
  [i \in DOMAIN Named(raw) |->
     [Named(raw)[i] EXCEPT !.role = IF @ \in roles THEN @ ELSE "maker"]]

Fields(r, names) == [n \in DOMAIN r \cap names |-> r[n]]
NormalProjects(raw) ==
  {IF p.ownerEmail = NoText THEN Fields(p, {"id", "userId", "title", "at"}) ELSE p :
     p \in {q \in raw : q.id > 0 /\ q.title # NoText}}
About(raw) == {r \in raw : r.id > 0 /\ r.projectId > 0}
NormalUpvotes(raw)   == {r \in About(raw) : r.email # NoText}
NormalProposals(raw) == {r \in About(raw) : r.fundingRangeId \in DOMAIN Amount}
NormalEvents(raw)    == {r \in About(raw) : r.type \in {"create", "preview", "outbound",
                                                        "match", "refresh"}}
NormalReviews(raw)   == {r \in About(raw) : /\ r.authorEmail # NoText
                                            /\ r.type \in {"review", "support", "idea"}}
NormalAuditLogs(raw) ==
  {r \in raw : r.id > 0 /\ r.targetId > 0
               /\ r.action \in {"match_compliance_accepted", "review_reported",
                                "review_hidden_auto", "review_moderated"}}

(* safeDateIso: what the fixture does not date gets the time of the run.      *)
Dated(r, now) == IF r.at = 0 THEN [r EXCEPT !.at = now] ELSE r
AllDated(rows, now) == {Dated(r, now) : r \in rows}
NormalChallenge(c, now) == IF c.title = NoText THEN NoChallenge ELSE Dated(c, now)

(* loadFixture: no usable file, or no account in it, ends the script.         *)
Usable(f) == f.accounts # <<>>
LoadFixture(f, now) ==
  [f EXCEPT !.accounts  = NormalAccounts(@, Roles),
            !.projects  = AllDated(NormalProjects(@), now),
            !.proposals = AllDated(NormalProposals(@), now),
            !.events    = AllDated(NormalEvents(@), now),
            !.upvotes   = AllDated(NormalUpvotes(@), now),
            !.reviews   = AllDated(NormalReviews(@), now),
            !.auditLogs = AllDated(NormalAuditLogs(@), now),
            !.challenge = NormalChallenge(@, now)]
-----------------------------------------------------------------------------
Ids(rows)    == {r.id : r \in rows}
Largest(S)   == CHOOSE n \in S : \A m \in S : m <= n
RowOf(rows, i) == CHOOSE r \in rows : r.id = i

\* { ...old, ...new }
Over(new, old) ==
  [n \in DOMAIN new \cup DOMAIN old |-> IF n \in DOMAIN new THEN new[n] ELSE old[n]]

(* upsertById: the fields of a fixture row replace those of the row with its  *)
(* id, the fields it does not have stay.                                      *)
UpsertById(target, incoming) ==
  {r \in target : r.id \notin Ids(incoming)}
    \cup {n \in incoming : n.id \notin Ids(target)}
    \cup {Over(n, RowOf(target, n.id)) : n \in {m \in incoming : m.id \in Ids(target)}}

(* One account of the fixture: the user of its address is updated, otherwise  *)
(* a user is added under the id of the fixture or the next free one.          *)
\* Mutant of SeedUser: nobody looks for the address, a taken id is updated.
SeedUserById(acc, a) ==
  [users |-> {u \in acc.users : u.id # a.id} \cup {[a EXCEPT !.id = IF @ = 0 THEN acc.next ELSE @]},
   next  |-> acc.next + 1]

SeedUser(acc, a) ==
  LET same == {u \in acc.users : u.email = a.email}
      used == Ids(acc.users)
      free == CHOOSE i \in acc.next..(acc.next + Cardinality(used)) :
                i \notin used /\ \A j \in acc.next..(i - 1) : j \in used
      id   == IF a.id = 0 \/ a.id \in used THEN free ELSE a.id
  IN IF same # {}
     THEN [acc EXCEPT !.users = (@ \ same)
             \cup {Over([role |-> a.role, name |-> a.name], u) : u \in same}]
     ELSE [users |-> acc.users \cup {[a EXCEPT !.id = id]},
           next  |-> Largest({acc.next, id + 1})]
SeedUsers(s, accounts) ==
  LET after[n \in 0..Len(accounts)] ==
        IF n = 0 THEN [users |-> s.rows["users"], next |-> s.next["users"]]
        ELSE SeedUser(after[n - 1], accounts[n])
  IN after[Len(accounts)]

(* The owner of a fixture project: its user id if somebody has it, else the   *)
(* user of its owner's address, else the project is left out.                 *)
Owned(p, users) ==
  IF p.userId \in Ids(users) THEN {p}
  ELSE {[p EXCEPT !.userId = u.id] :
          u \in {v \in users : "ownerEmail" \in DOMAIN p /\ v.email = p.ownerEmail}}

\* Mutant of Candidates: rows about unknown projects are taken too.
CandidatesAll(rows, projects) == rows

Candidates(rows, projects) == {r \in rows : r.projectId \in Ids(projects)}
Key(v) == <<v.projectId, v.email>>
\* Mutant of VoteCandidates: only the id keeps votes apart.
VoteCandidatesById(votes, old) == votes

VoteCandidates(votes, old) ==
  {v \in votes : /\ \A o \in old : Key(o) # Key(v)
                 /\ \A w \in votes : Key(w) = Key(v) => v.id <= w.id}

(* reconcileProjectMetrics, and the owner's address taken off again.          *)
ReconcileProject(p, proposals) ==
  LET mine == {q \in proposals : q.projectId = p.id}
      of(range) == Cardinality({q \in mine : q.fundingRangeId = range})
  IN Over([matchCount |-> Cardinality(mine),
           committed  |-> of("small") * Amount.small + of("large") * Amount.large],
          [n \in DOMAIN p \ {"ownerEmail"} |-> p[n]])
Reconcile(projects, proposals) == {ReconcileProject(p, proposals) : p \in projects}

\* Mutant of NextId: the rows themselves are not looked at.
NextIdAsTold(rows, known, wanted) == Largest({known, wanted, 1})

NextId(rows, known, wanted) ==
  Largest({known, wanted, 1} \cup {i + 1 : i \in Ids(rows)})

(* seed() of seed-test-data.mjs.  `changed' says whether it counted anything. *)
SeedData(s, f) ==
  LET acc      == SeedUsers(s, f.accounts)
      projects == UpsertById(s.rows["projects"], UNION {Owned(p, acc.users) : p \in f.projects})
      incoming(t) == IF t = "auditLogs" THEN f[t]
                     ELSE IF t = "upvotes"
                     THEN VoteCandidates(Candidates(f[t], projects), s.rows[t])
                     ELSE Candidates(f[t], projects)
      merged   == [t \in DataTables |->
                     CASE t = "users"    -> acc.users
                       [] t = "projects" -> projects
                       [] OTHER          -> UpsertById(s.rows[t], incoming(t))]
      challenge == IF f.challenge # NoChallenge THEN f.challenge ELSE s.challenge
      rows     == [merged EXCEPT !["projects"] = Reconcile(@, merged["proposals"])]
  IN [changed |-> merged # s.rows \/ challenge # s.challenge,
      state   |-> [rows |-> rows, challenge |-> challenge,
                   next |-> [t \in DataTables |->
                     NextId(rows[t], IF t = "users" THEN acc.next ELSE s.next[t], f.next[t])]]]

(* seedAccounts of seed-test-accounts.mjs: roles only, new users under the    *)
(* counter, the fixture's ids are not looked at.                              *)
SeedAccount(acc, a) ==
  IF \E u \in acc.users : u.email = a.email
  THEN [acc EXCEPT !.users = {IF u.email = a.email THEN [u EXCEPT !.role = a.role] ELSE u : u \in @}]
  ELSE [users |-> acc.users \cup {[id |-> acc.next, email |-> a.email, role |-> a.role]},
        next  |-> acc.next + 1]
SeedAccounts(s, accounts) ==
  LET after[n \in 0..Len(accounts)] ==
        IF n = 0 THEN [users |-> s.rows["users"], next |-> s.next["users"]]
        ELSE SeedAccount(after[n - 1], accounts[n])
      acc == after[Len(accounts)]
  IN [changed |-> acc.users # s.rows["users"],
      state   |-> [s EXCEPT !.rows["users"] = acc.users,
                            !.next["users"] = NextId(acc.users, acc.next, 1)]]
-----------------------------------------------------------------------------
(* What a fixture file may hold: rows of its tables, an id of its own for     *)
(* every row that has one, any counters.                                      *)
FixtureRows ==
  [projects  |-> [id : Nat, userId : Nat, ownerEmail : STRING, title : STRING, at : Nat],
   proposals |-> [id : Nat, projectId : Nat, fundingRangeId : STRING, at : Nat],
   events    |-> [id : Nat, projectId : Nat, type : STRING, at : Nat],
   upvotes   |-> [id : Nat, projectId : Nat, email : STRING, at : Nat],
   reviews   |-> [id : Nat, projectId : Nat, authorEmail : STRING, type : STRING, at : Nat],
   auditLogs |-> [id : Nat, targetId : Nat, action : STRING, at : Nat]]
IsFixture(f) ==
  /\ f = [accounts |-> f.accounts, projects |-> f.projects, proposals |-> f.proposals,
          events |-> f.events, upvotes |-> f.upvotes, reviews |-> f.reviews,
          auditLogs |-> f.auditLogs, challenge |-> f.challenge, next |-> f.next]
  /\ f.accounts \in Seq([id : Nat, email : STRING, role : STRING, name : STRING])
  /\ f.next \in [DataTables -> Nat] /\ f.challenge \in [title : STRING, at : Nat]
  /\ \A t \in DOMAIN FixtureRows :
       /\ f[t] \subseteq FixtureRows[t] /\ IsFiniteSet(f[t])
       /\ \A r, q \in f[t] : r.id = q.id /\ r.id > 0 => r = q

(* The rows of a table that a fixture leaves undated, and rows whose dates are *)
(* struck out.                                                                *)
Undated(f, t) == IF t \in DOMAIN FixtureRows THEN {r.id : r \in {q \in f[t] : q.at = 0}} ELSE {}
Struck(r, ids) == IF r.id \in ids THEN [r EXCEPT !.at = 0] ELSE r
WithoutDates(rows, ids) == {Struck(r, ids) : r \in rows}

(* A store with the tables `known', and what is to hold of its rows: no id is *)
(* given twice or still to be given; owners and projects exist; votes, users  *)
(* and the figures of the projects agree with one another.                    *)
IsStore(s, known) ==
  /\ s = [rows |-> s.rows, next |-> s.next, challenge |-> s.challenge]
  /\ s.rows = [t \in known |-> s.rows[t]] /\ s.next \in [known -> Nat \ {0}]
  /\ \A t \in known :
       /\ IsFiniteSet(s.rows[t])
       /\ \A r \in s.rows[t] : /\ r = [n \in DOMAIN r |-> r[n]] /\ "id" \in DOMAIN r
                               /\ r.id \in Nat \ {0}
  /\ \A u \in s.rows["users"] : "email" \in DOMAIN u
  /\ \A p \in s.rows["projects"] : "userId" \in DOMAIN p
FreshIds(s, known) ==
  \A t \in known : \A r \in s.rows[t] :
    r.id < s.next[t] /\ \A q \in s.rows[t] : q.id = r.id => q = r
References(s, known) ==
  /\ \A p \in s.rows["projects"] : p.userId \in Ids(s.rows["users"])
  /\ \A t \in known \cap {"proposals", "events", "upvotes", "reviews", "logEntries"} :
       \A r \in s.rows[t] : r.projectId \in Ids(s.rows["projects"])
RowsAgree(s, known) ==
  /\ \A u, v \in s.rows["users"] : u.email = v.email => u = v
  /\ "upvotes" \in known => \A v, w \in s.rows["upvotes"] : Key(v) = Key(w) => v = w
  /\ \A p \in s.rows["projects"] : ReconcileProject(p, s.rows["proposals"]) = p
Sound(s, known) ==
  IsStore(s, known) /\ FreshIds(s, known) /\ References(s, known) /\ RowsAgree(s, known)
=============================================================================
