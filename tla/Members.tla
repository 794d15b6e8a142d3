------------------------------- MODULE Members -------------------------------
(***************************************************************************)
(* Accounts and sessions of ProjectsService: password and Google login,    *)
(* JWT session cookies, the lifecycle operations of the admin console      *)
(* (suspend, restore, withdraw), and the one member operation that is      *)
(* suspended at an await between its session check and its effect:         *)
(* createProject, which probes the submitted URL first.                    *)
(*                                                                         *)
(* users is the service's array: users are never removed and ids are given *)
(* out in order, so a user's id is its position.                           *)
(***************************************************************************)
EXTENDS Integers, Sequences, FiniteSets

CONSTANTS
  Emails,        \* normalised e-mail addresses
  SeedUsers,     \* users the store holds at first boot
  MaxSessions,   \* bound: unexpired session tokens
  MaxAudit,      \* bound: audit entries written
  MaxProjects    \* bound: projects registered

Roles == {"maker", "investor", "member", "admin"}
Statuses == {"active", "suspended", "withdrawn"}

\* password, name and notes only matter by being present or not.
User == [email : Emails, role : Roles, status : Statuses,
         password : BOOLEAN, name : BOOLEAN, notes : BOOLEAN]

LifecycleActions == {"suspend", "restore", "withdraw"}
StatusAfter(action) ==
  CASE action = "suspend" -> "suspended"
    [] action = "restore" -> "active"
    [] action = "withdraw" -> "withdrawn"

VARIABLES
  users,      \* accounts, by id
  tokens,     \* session tokens in browsers that have not expired: [id, role]
  probing,    \* e-mails with a createProject waiting for its URL probe
  projects,   \* owner ids of the registered projects
  audit       \* lifecycle entries of the audit log

vars == <<users, tokens, probing, projects, audit>>

ASSUME SeedAssumption ==
  /\ SeedUsers \in Seq(User)
  /\ \A i, j \in 1 .. Len(SeedUsers) :
       SeedUsers[i].email = SeedUsers[j].email => i = j
  /\ \A i \in 1 .. Len(SeedUsers) : SeedUsers[i].status = "active"
  /\ \E i \in 1 .. Len(SeedUsers) : SeedUsers[i].role = "admin"
ASSUME BoundAssumption ==
  MaxSessions \in Nat /\ MaxAudit \in Nat /\ MaxProjects \in Nat

Ids == 1 .. Len(users)
ActiveAdmins == {i \in Ids : users[i].role = "admin" /\ users[i].status = "active"}

Init ==
  /\ users = SeedUsers
  /\ tokens = {}
  /\ probing = {}
  /\ projects = <<>>
  /\ audit = <<>>

------------------------------------------------------------------------------
(* Sessions.                                                               *)

\* assertUserCanAuthenticate
CanAuthenticate(u) == u.status = "active"

\* issueSession: a signed cookie; it expires by itself, nothing records it.
IssueSession(id) ==
  /\ tokens' = tokens \cup {[id |-> id, role |-> users'[id].role]}
  /\ Cardinality(tokens') <= MaxSessions

\* verifySessionToken: the account must still exist with the token's role and
\* be active.
ValidSession(t) ==
  /\ t \in tokens
  /\ t.id \in Ids
  /\ users[t.id].role = t.role
  /\ users[t.id].status = "active"

\* login with e-mail and password.
Login(id) ==
  /\ id \in Ids
  /\ users[id].password
  /\ CanAuthenticate(users[id])
  /\ UNCHANGED <<users, probing, projects, audit>>
  /\ IssueSession(id)

\* Mutant of UpsertGoogleUser: a verified e-mail counts as a fresh registration.
UpsertGoogleUserReactivates(email, named) ==
  IF \E i \in Ids : users[i].email = email
  THEN users' = [i \in Ids |-> IF users[i].email = email
                               THEN [users[i] EXCEPT !.status = "active"] ELSE users[i]]
  ELSE users' = Append(users, [email |-> email, role |-> "member",
                               status |-> "active", password |-> FALSE,
                               name |-> named, notes |-> FALSE])

\* upsertGoogleUser: the account of a verified Google e-mail, created as member
\* when there is none; a missing name is filled from the Google profile.
UpsertGoogleUser(email, named) ==
  IF \E i \in Ids : users[i].email = email
  THEN users' = [i \in Ids |->
                   IF users[i].email = email /\ named
                   THEN [users[i] EXCEPT !.name = TRUE] ELSE users[i]]
  ELSE users' = Append(users, [email |-> email, role |-> "member",
                               status |-> "active", password |-> FALSE,
                               name |-> named, notes |-> FALSE])

\* loginWithGoogle: the account is updated before it is asked whether it may
\* authenticate; a refused login keeps the update.
LoginWithGoogle(email, named) ==
  /\ UpsertGoogleUser(email, named)
  /\ \E i \in 1 .. Len(users') :
       /\ users'[i].email = email
       /\ IF CanAuthenticate(users'[i]) THEN IssueSession(i) ELSE UNCHANGED tokens
  /\ UNCHANGED <<probing, projects, audit>>

\* Twelve hours pass, or the member logs out.
Expire(t) ==
  /\ tokens' = tokens \ {t}
  /\ UNCHANGED <<users, probing, projects, audit>>

------------------------------------------------------------------------------
(* The admin console.                                                      *)

\* assertMemberLifecycleAllowed
LifecycleAllowed(target, action, admin) ==
  \/ action = "restore"
  \/ /\ target # admin
     /\ users[target].role = "admin" => Cardinality(ActiveAdmins) > 1

\* Mutant of TransitionAllowed: a withdrawn account can be restored.
TransitionAllowedAll(target, action) == target \in Ids

\* The status checks of the branches of updateMemberLifecycle: a withdrawn
\* account can only be withdrawn again.
TransitionAllowed(target, action) ==
  users[target].status = "withdrawn" => action = "withdraw"

\* updateMemberLifecycle with the session t of the acting admin.
UpdateMemberLifecycle(t, target, action) ==
  /\ ValidSession(t) /\ t.role = "admin"
  /\ target \in Ids
  /\ LifecycleAllowed(target, action, t.id)
  /\ TransitionAllowed(target, action)
  /\ users' = [users EXCEPT ![target] =
                 IF action = "withdraw"
                 THEN [@ EXCEPT !.status = "withdrawn", !.password = FALSE,
                                !.name = FALSE, !.notes = FALSE]
                 ELSE [@ EXCEPT !.status = StatusAfter(action)]]
  /\ Len(audit) < MaxAudit
  /\ audit' = Append(audit, [action |-> action, target |-> target, actor |-> t.id])
  /\ UNCHANGED <<tokens, probing, projects>>

\* updateMemberNotes
UpdateMemberNotes(t, target, notes) ==
  /\ ValidSession(t) /\ t.role = "admin"
  /\ target \in Ids
  /\ users' = [users EXCEPT ![target].notes = notes]
  /\ UNCHANGED <<tokens, probing, projects, audit>>

------------------------------------------------------------------------------
(* Registering a project.                                                  *)

\* Mutant of CreateProjectBegin: any session will do (requireSession).
CreateProjectBeginAnyRole(t) ==
  /\ ValidSession(t)
  /\ users[t.id].email \notin probing
  /\ Len(projects) < MaxProjects
  /\ probing' = probing \cup {users[t.id].email}
  /\ UNCHANGED <<users, tokens, projects, audit>>

\* The controller checks the session, the service the form; then the URL probe.
CreateProjectBegin(t) ==
  /\ ValidSession(t) /\ t.role = "maker"
  /\ users[t.id].email \notin probing
  /\ Len(projects) < MaxProjects
  /\ probing' = probing \cup {users[t.id].email}
  /\ UNCHANGED <<users, tokens, projects, audit>>

\* upsertMaker: find or create the account of the e-mail and make it a maker.
UpsertMaker(email) ==
  IF \E i \in Ids : users[i].email = email
  THEN users' = [i \in Ids |-> IF users[i].email = email
                               THEN [users[i] EXCEPT !.role = "maker"] ELSE users[i]]
  ELSE users' = Append(users, [email |-> email, role |-> "maker",
                               status |-> "active", password |-> FALSE,
                               name |-> FALSE, notes |-> FALSE])

\* The probe succeeded: the project is registered for the e-mail of the session
\* that was valid when the request came in.
CreateProjectEnd(email) ==
  /\ email \in probing
  /\ Len(projects) < MaxProjects
  /\ probing' = probing \ {email}
  /\ UpsertMaker(email)
  /\ \E i \in 1 .. Len(users') :
       /\ users'[i].email = email
       /\ projects' = Append(projects, i)
  /\ UNCHANGED <<tokens, audit>>

\* The probe failed: the request is refused.
CreateProjectRefused(email) ==
  /\ email \in probing
  /\ probing' = probing \ {email}
  /\ UNCHANGED <<users, tokens, projects, audit>>

Next ==
  \/ \E id \in Ids : Login(id)
  \/ \E email \in Emails, named \in BOOLEAN : LoginWithGoogle(email, named)
  \/ \E t \in tokens : Expire(t)
  \/ \E t \in tokens, target \in Ids, action \in LifecycleActions :
       UpdateMemberLifecycle(t, target, action)
  \/ \E t \in tokens, target \in Ids, notes \in BOOLEAN :
       UpdateMemberNotes(t, target, notes)
  \/ \E t \in tokens : CreateProjectBegin(t)
  \/ \E email \in Emails : CreateProjectEnd(email)
  \/ \E email \in Emails : CreateProjectRefused(email)

Spec == Init /\ [][Next]_vars

------------------------------------------------------------------------------
(* Properties.                                                             *)

Token == [id : Nat, role : Roles]
AuditEntry == [action : LifecycleActions, target : Nat, actor : Nat]

\* Types; tokens, projects and the audit log name existing accounts, although
\* their references are never checked again after they were written.
TypeOK ==
  /\ users \in Seq(User)
  /\ tokens \in SUBSET Token
  /\ \A t \in tokens : t.id \in Ids
  /\ probing \in SUBSET Emails
  /\ projects \in Seq(Nat)
  /\ \A p \in 1 .. Len(projects) : projects[p] \in Ids
  /\ audit \in Seq(AuditEntry)
  /\ \A k \in 1 .. Len(audit) : audit[k].target \in Ids /\ audit[k].actor \in Ids

\* One account per e-mail, although two operations create accounts on demand.
EmailsUnique == \A i, j \in Ids : users[i].email = users[j].email => i = j

\* The console can never lock itself out: some admin is active, however the
\* admins suspend and withdraw each other (the rule "마지막 활성 관리자").
SomeAdminActive == ActiveAdmins # {}

\* status is the one that the last entry about the account id in log put it in,
\* active without one.
Explained(log, id, status) ==
  \/ /\ status = "active"
     /\ \A k \in 1 .. Len(log) : log[k].target # id
  \/ \E k \in 1 .. Len(log) :
       /\ log[k].target = id
       /\ status = StatusAfter(log[k].action)
       /\ \A l \in k + 1 .. Len(log) : log[l].target # id

\* The audit log explains every account: nothing but the lifecycle operations
\* that it records (no login, no registration) moves an account between active,
\* suspended and withdrawn.
AuditExplainsStatus == \A i \in Ids : Explained(audit, i, users[i].status)

\* Withdrawal is final: no login, restore or registration revives the account
\* or gives it a password again.
WithdrawalIsFinal ==
  [][\A i \in Ids : users[i].status = "withdrawn"
       => users'[i].status = "withdrawn" /\ ~users'[i].password]_vars

\* upsertMaker overwrites the role of the account it finds, whatever that is.
\* Still no account ever changes its role (an admin who became a maker would be
\* an admin lost): only makers get as far as the URL probe, and the account is
\* still a maker when the probe returns.
RolesNeverChange == [][\A i \in Ids : users'[i].role = users[i].role]_vars

\* AdminMembersView.tsx:102, "비밀번호와 공개 이름이 제거되고": a withdrawn account
\* shows no name.
WithdrawnHasNoName == \A i \in Ids : users[i].status = "withdrawn" => ~users[i].name

\* projects.controller.ts:184, "정지·탈퇴 계정은 기존 세션도 즉시 무효화됩니다": nothing
\* is registered for an account that is suspended or withdrawn.
RegisteredByActive ==
  [][Len(projects') > Len(projects)
       => users'[projects'[Len(projects')]].status = "active"]_vars
==============================================================================
