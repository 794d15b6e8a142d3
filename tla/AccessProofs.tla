----------------------------- MODULE AccessProofs -----------------------------
(***************************************************************************)
(* Who may come in.  About Members, for any set of e-mails, any seed and   *)
(* any bounds: accounts, their lifecycle and its log.  About RateLimit,    *)
(* for any windows, limits and hosts: type correctness, the bound on what  *)
(* its map keeps, and that cleaning up is invisible, for it implements     *)
(* FixedWindow.                                                            *)
(***************************************************************************)
EXTENDS Members, RateLimit, FiniteSetTheorems, TLAPS


\* The e-mails that wait for a URL probe are those of makers.
ProbingAreMakers ==
  \A e \in probing : \E i \in Ids : users[i].email = e /\ users[i].role = "maker"

\* No password opens a withdrawn account.
WithdrawnLockedOut == \A i \in Ids : users[i].status = "withdrawn" => ~users[i].password

MInv ==
  /\ TypeOK
  /\ EmailsUnique
  /\ SomeAdminActive
  /\ AuditExplainsStatus
  /\ ProbingAreMakers
  /\ WithdrawnLockedOut

------------------------------------------------------------------------------
\* The four ways in which an operation changes the accounts.

\* Accounts that keep their identity, role and status.
Same(us, vs) ==
  /\ Len(vs) = Len(us)
  /\ \A i \in 1 .. Len(us) :
       /\ vs[i].email = us[i].email
       /\ vs[i].role = us[i].role
       /\ vs[i].status = us[i].status
       /\ vs[i].password => us[i].password

\* A fresh active account is added.
Added(us, vs) ==
  \E u \in User : /\ u.status = "active" /\ ~u.password
                  /\ \A i \in 1 .. Len(us) : us[i].email # u.email
                  /\ vs = Append(us, u)

\* Only the account id may change, in its status and its data.
OnlyChanges(us, vs, id, status) ==
  /\ Len(vs) = Len(us)
  /\ \A i \in 1 .. Len(us) : /\ vs[i].email = us[i].email
                             /\ vs[i].role = us[i].role
                             /\ i # id => vs[i] = us[i]
                             /\ vs[i].password => us[i].password
  /\ vs[id].status = status
  /\ vs[id].status = "withdrawn" => ~vs[id].password

LEMMA InitInv == ASSUME Init PROVE MInv
<1>1. TypeOK
  BY SeedAssumption DEF Init, TypeOK, Ids, Token, AuditEntry
<1>2. EmailsUnique
  BY SeedAssumption DEF Init, EmailsUnique, Ids
<1>3. SomeAdminActive
  BY SeedAssumption DEF Init, SomeAdminActive, ActiveAdmins, Ids
<1>4. AuditExplainsStatus
  BY SeedAssumption DEF Init, AuditExplainsStatus, Explained, Ids
<1>5. ProbingAreMakers
  BY DEF Init, ProbingAreMakers
<1>6. WithdrawnLockedOut
  BY SeedAssumption DEF Init, WithdrawnLockedOut, Ids
<1> QED BY <1>1, <1>2, <1>3, <1>4, <1>5, <1>6 DEF MInv

\* An operation that leaves identity, role and status alone keeps what the
\* invariant says of accounts.
LEMMA SameKeeps ==
  ASSUME MInv, users' \in Seq(User), Same(users, users'), audit' = audit
  PROVE  /\ EmailsUnique'
         /\ SomeAdminActive'
         /\ AuditExplainsStatus'
         /\ WithdrawnLockedOut'
         /\ \A e : (\E i \in Ids : users[i].email = e /\ users[i].role = "maker")
              => (\E i \in Ids : users[i].email = e /\ users[i].role = "maker")'
<1>1. Len(users') = Len(users) /\ Len(users) \in Nat
  BY DEF Same, MInv, TypeOK
<1>2. EmailsUnique'
  BY <1>1 DEF MInv, EmailsUnique, Ids, Same
<1>3. SomeAdminActive'
  BY <1>1 DEF MInv, SomeAdminActive, ActiveAdmins, Ids, Same
<1>4. AuditExplainsStatus'
  BY <1>1 DEF MInv, AuditExplainsStatus, Ids, Same
<1>5. \A e : (\E i \in Ids : users[i].email = e /\ users[i].role = "maker")
         => (\E i \in Ids : users[i].email = e /\ users[i].role = "maker")'
  BY <1>1 DEF Ids, Same
<1>6. WithdrawnLockedOut'
  BY <1>1 DEF MInv, WithdrawnLockedOut, Ids, Same
<1> QED BY <1>2, <1>3, <1>4, <1>5, <1>6

\* An operation that appends an active account with a fresh e-mail does, too.
LEMMA NewKeeps ==
  ASSUME MInv, NEW u \in User, u.status = "active",
         \A i \in Ids : users[i].email # u.email,
         users' = Append(users, u), audit' = audit
  PROVE  /\ users' \in Seq(User)
         /\ Len(users') = Len(users) + 1
         /\ \A i \in Ids : users'[i] = users[i]
         /\ EmailsUnique'
         /\ SomeAdminActive'
         /\ AuditExplainsStatus'
         /\ WithdrawnLockedOut'
<1>1. users \in Seq(User) /\ Len(users) \in Nat
  BY DEF MInv, TypeOK
<1>2. users' \in Seq(User) /\ Len(users') = Len(users) + 1
  BY <1>1
<1>3. \A i \in Ids : users'[i] = users[i]
  BY <1>1 DEF Ids
<1>4. users'[Len(users) + 1] = u
  BY <1>1
<1>5. \A i \in Ids' : i \in Ids \/ i = Len(users) + 1
  BY <1>1, <1>2 DEF Ids
<1>6. \A i \in Ids : i \in Ids'
  BY <1>1, <1>2 DEF Ids
<1>7. EmailsUnique'
  BY <1>3, <1>4, <1>5 DEF MInv, EmailsUnique
<1>8. SomeAdminActive'
  BY <1>3, <1>6 DEF MInv, SomeAdminActive, ActiveAdmins
<1>9. AuditExplainsStatus'
  <2>1. \A k \in 1 .. Len(audit) : audit[k].target \in Ids
    BY DEF MInv, TypeOK
  <2>2. Explained(audit, Len(users) + 1, "active")
    BY <1>1, <2>1 DEF Explained, Ids
  <2> QED BY <1>3, <1>4, <1>5, <2>2 DEF MInv, AuditExplainsStatus
<1>10. WithdrawnLockedOut'
  BY <1>3, <1>4, <1>5 DEF MInv, WithdrawnLockedOut
<1> QED BY <1>2, <1>3, <1>7, <1>8, <1>9, <1>10

------------------------------------------------------------------------------
\* What the operations do to the accounts.

LEMMA GoogleUpsert ==
  ASSUME MInv, NEW email \in Emails, NEW named \in BOOLEAN,
         UpsertGoogleUser(email, named)
  PROVE  \/ users' \in Seq(User) /\ Same(users, users')
         \/ Added(users, users')
<1>1. users \in Seq(User) /\ Len(users) \in Nat
  BY DEF MInv, TypeOK
<1>2. CASE \E i \in Ids : users[i].email = email
  <2> DEFINE f(i) == IF users[i].email = email /\ named
                     THEN [users[i] EXCEPT !.name = TRUE] ELSE users[i]
  <2>1. users' = [i \in 1 .. Len(users) |-> f(i)]
    BY <1>2 DEF UpsertGoogleUser, Ids
  <2>2. \A i \in 1 .. Len(users) : users[i] \in User
    BY <1>1
  <2>3. \A i \in 1 .. Len(users) :
          /\ f(i) \in User
          /\ f(i).email = users[i].email
          /\ f(i).role = users[i].role
          /\ f(i).status = users[i].status
          /\ f(i).password = users[i].password
    BY <2>2 DEF User
  <2> HIDE DEF f
  <2>4. users' \in Seq(User) /\ Len(users') = Len(users)
    BY <1>1, <2>1, <2>3
  <2>5. \A i \in 1 .. Len(users) : users'[i] = f(i)
    BY <2>1
  <2> QED BY <2>3, <2>4, <2>5 DEF Same
<1>3. CASE ~\E i \in Ids : users[i].email = email
  <2> DEFINE u == [email |-> email, role |-> "member", status |-> "active",
                   password |-> FALSE, name |-> named, notes |-> FALSE]
  <2>1. u \in User
    BY DEF User, Roles, Statuses
  <2>2. users' = Append(users, u)
    BY <1>3 DEF UpsertGoogleUser
  <2>3. u.status = "active" /\ ~u.password /\ u.email = email
    OBVIOUS
  <2> HIDE DEF u
  <2> QED BY <1>3, <2>1, <2>2, <2>3 DEF Added, Ids
<1> QED BY <1>2, <1>3

\* upsertMaker finds a maker, and so changes nothing.
LEMMA MakerUpsert ==
  ASSUME MInv, NEW email \in probing, UpsertMaker(email)
  PROVE  users' = users
<1>1. users \in Seq(User) /\ Len(users) \in Nat
  BY DEF MInv, TypeOK
<1>2. PICK k \in Ids : users[k].email = email /\ users[k].role = "maker"
  BY DEF MInv, ProbingAreMakers
<1>3. users' = [i \in Ids |-> IF users[i].email = email
                              THEN [users[i] EXCEPT !.role = "maker"] ELSE users[i]]
  BY <1>2 DEF UpsertMaker
<1>4. \A i \in Ids : users[i] \in User
  BY <1>1 DEF Ids
<1>5. \A i \in Ids : users[i].email = email => users[i].role = "maker"
  BY <1>2 DEF MInv, EmailsUnique
<1>6. \A u \in User : u.role = "maker" => [u EXCEPT !.role = "maker"] = u
  BY DEF User
<1>7. users' = [i \in Ids |-> users[i]]
  BY <1>3, <1>4, <1>5, <1>6
<1>8. users = [i \in 1 .. Len(users) |-> users[i]]
  BY <1>1
<1> QED BY <1>7, <1>8 DEF Ids

\* The lifecycle operations change the status of one account only.
LEMMA LifecycleEffect ==
  ASSUME MInv, NEW t \in tokens, NEW target \in Ids, NEW action \in LifecycleActions,
         UpdateMemberLifecycle(t, target, action)
  PROVE  users' \in Seq(User) /\ OnlyChanges(users, users', target, StatusAfter(action))
<1>1. users \in Seq(User) /\ Len(users) \in Nat
  BY DEF MInv, TypeOK
<1> DEFINE u == IF action = "withdraw"
                THEN [users[target] EXCEPT !.status = "withdrawn", !.password = FALSE,
                                           !.name = FALSE, !.notes = FALSE]
                ELSE [users[target] EXCEPT !.status = StatusAfter(action)]
<1>2. users' = [users EXCEPT ![target] = u]
  BY DEF UpdateMemberLifecycle
<1>3. StatusAfter(action) \in Statuses
  BY DEF StatusAfter, LifecycleActions, Statuses
<1>4. users[target] \in User
  BY <1>1 DEF Ids
<1>5. /\ u \in User
      /\ u.email = users[target].email
      /\ u.role = users[target].role
      /\ u.password => users[target].password
      /\ u.status = StatusAfter(action)
      /\ u.status = "withdrawn" => ~u.password
  BY <1>3, <1>4 DEF User, StatusAfter, Statuses, LifecycleActions
<1> HIDE DEF u
<1>6. users' \in Seq(User) /\ Len(users') = Len(users)
  BY <1>1, <1>2, <1>5 DEF Ids
<1>7. users'[target] = u /\ \A i \in Ids : i # target => users'[i] = users[i]
  BY <1>1, <1>2 DEF Ids
<1> QED BY <1>5, <1>6, <1>7 DEF OnlyChanges, Ids

\* A lifecycle entry about target explains its new status and leaves what the
\* log says of the others.
LEMMA EntryExplains ==
  ASSUME NEW log \in Seq(AuditEntry), NEW entry \in AuditEntry, NEW i, NEW status
  PROVE  /\ entry.target # i /\ Explained(log, i, status)
              => Explained(Append(log, entry), i, status)
         /\ Explained(Append(log, entry), entry.target, StatusAfter(entry.action))
<1> DEFINE new == Append(log, entry)
<1>1. /\ Len(new) = Len(log) + 1 /\ Len(log) \in Nat
      /\ \A k \in 1 .. Len(log) : new[k] = log[k]
      /\ new[Len(log) + 1] = entry
  OBVIOUS
<1> HIDE DEF new
<1>2. ASSUME entry.target # i, Explained(log, i, status)
      PROVE  Explained(new, i, status)
  <2>1. CASE status = "active" /\ \A k \in 1 .. Len(log) : log[k].target # i
    BY <1>1, <1>2, <2>1 DEF Explained
  <2>2. CASE \E k \in 1 .. Len(log) :
               /\ log[k].target = i
               /\ status = StatusAfter(log[k].action)
               /\ \A l \in k + 1 .. Len(log) : log[l].target # i
    <3>1. PICK k \in 1 .. Len(log) :
               /\ log[k].target = i
               /\ status = StatusAfter(log[k].action)
               /\ \A l \in k + 1 .. Len(log) : log[l].target # i
      BY <2>2
    <3>2. \A l \in k + 1 .. Len(new) : new[l].target # i
      BY <1>1, <1>2, <3>1
    <3>3. k \in 1 .. Len(new) /\ new[k] = log[k]
      BY <1>1
    <3> QED BY <3>1, <3>2, <3>3 DEF Explained
  <2> QED BY <1>2, <2>1, <2>2 DEF Explained
<1>3. Explained(new, entry.target, StatusAfter(entry.action))
  BY <1>1 DEF Explained
<1> QED BY <1>2, <1>3 DEF new

------------------------------------------------------------------------------
\* One lemma per operation.

\* The sessions in circulation name accounts of the service.
LEMMA IssueSessionType ==
  ASSUME MInv, users' \in Seq(User), Len(users') >= Len(users),
         NEW id \in 1 .. Len(users'), IssueSession(id)
  PROVE  tokens' \in SUBSET Token /\ \A t \in tokens' : t.id \in 1 .. Len(users')
<1>1. users'[id] \in User
  OBVIOUS
<1>2. [id |-> id, role |-> users'[id].role] \in Token
  BY <1>1 DEF Token, User
<1>3. Len(users) \in Nat /\ Len(users') \in Nat
  BY DEF MInv, TypeOK
<1> QED BY <1>2, <1>3 DEF IssueSession, MInv, TypeOK, Ids

LEMMA LoginInv ==
  ASSUME MInv, NEW id \in Ids, Login(id)
  PROVE  MInv'
<1>1. UNCHANGED <<users, probing, projects, audit>>
  BY DEF Login
<1>2. tokens' \in SUBSET Token /\ \A t \in tokens' : t.id \in 1 .. Len(users')
  BY <1>1, IssueSessionType DEF Login, MInv, TypeOK, Ids
<1> QED
  BY <1>1, <1>2 DEF MInv, TypeOK, EmailsUnique, SomeAdminActive, ActiveAdmins,
                    AuditExplainsStatus, ProbingAreMakers, WithdrawnLockedOut, Ids

LEMMA LoginWithGoogleInv ==
  ASSUME MInv, NEW email \in Emails, NEW named \in BOOLEAN, LoginWithGoogle(email, named)
  PROVE  MInv'
<1>1. UpsertGoogleUser(email, named) /\ UNCHANGED <<probing, projects, audit>>
  BY DEF LoginWithGoogle
<1>2. /\ users' \in Seq(User)
      /\ Len(users') >= Len(users)
      /\ EmailsUnique' /\ SomeAdminActive' /\ AuditExplainsStatus' /\ WithdrawnLockedOut'
      /\ ProbingAreMakers'
  <2>0. Len(users) \in Nat
    BY DEF MInv, TypeOK
  <2>1. CASE users' \in Seq(User) /\ Same(users, users')
    <3>1. Len(users') = Len(users)
      BY <2>1 DEF Same
    <3>2. EmailsUnique' /\ SomeAdminActive' /\ AuditExplainsStatus' /\ WithdrawnLockedOut'
      BY <1>1, <2>1, SameKeeps
    <3>3. ProbingAreMakers'
      <4>1. \A e : (\E i \in Ids : users[i].email = e /\ users[i].role = "maker")
              => (\E i \in Ids : users[i].email = e /\ users[i].role = "maker")'
        BY <1>1, <2>1, SameKeeps
      <4> QED BY <1>1, <4>1 DEF MInv, ProbingAreMakers
    <3> QED BY <2>0, <2>1, <3>1, <3>2, <3>3
  <2>2. ASSUME NEW u \in User, u.status = "active",
               \A i \in Ids : users[i].email # u.email, users' = Append(users, u)
        PROVE  /\ users' \in Seq(User)
               /\ Len(users') >= Len(users)
               /\ EmailsUnique' /\ SomeAdminActive' /\ AuditExplainsStatus' /\ WithdrawnLockedOut'
               /\ ProbingAreMakers'
    <3>1. /\ users' \in Seq(User) /\ Len(users') = Len(users) + 1
          /\ \A i \in Ids : users'[i] = users[i]
          /\ EmailsUnique' /\ SomeAdminActive' /\ AuditExplainsStatus' /\ WithdrawnLockedOut'
      BY <1>1, <2>2, NewKeeps
    <3>2. ProbingAreMakers'
      BY <1>1, <2>0, <3>1 DEF MInv, ProbingAreMakers, Ids
    <3> QED BY <2>0, <3>1, <3>2
  <2>3. CASE Added(users, users')
    BY <2>2, <2>3 DEF Added, Ids
  <2> QED BY <1>1, <2>1, <2>3, GoogleUpsert
<1>3. tokens' \in SUBSET Token /\ \A t \in tokens' : t.id \in 1 .. Len(users')
  <2>1. PICK i \in 1 .. Len(users') :
          IF CanAuthenticate(users'[i]) THEN IssueSession(i) ELSE UNCHANGED tokens
    BY DEF LoginWithGoogle
  <2>2. CASE IssueSession(i)
    BY <1>2, <2>2, IssueSessionType
  <2>3. CASE UNCHANGED tokens
    BY <1>2, <2>3 DEF MInv, TypeOK, Ids
  <2> QED BY <2>1, <2>2, <2>3
<1>4. TypeOK'
  BY <1>1, <1>2, <1>3 DEF MInv, TypeOK, Ids
<1> QED BY <1>2, <1>4 DEF MInv

LEMMA LifecycleInv ==
  ASSUME MInv, NEW t \in tokens, NEW target \in Ids, NEW action \in LifecycleActions,
         UpdateMemberLifecycle(t, target, action)
  PROVE  MInv'
<1> DEFINE entry == [action |-> action, target |-> target, actor |-> t.id]
<1>1. users' \in Seq(User) /\ OnlyChanges(users, users', target, StatusAfter(action))
  BY LifecycleEffect
<1>2. /\ Len(users) \in Nat /\ Ids' = Ids
      /\ \A i \in Ids : /\ users'[i].email = users[i].email
                        /\ users'[i].role = users[i].role
                        /\ i # target => users'[i] = users[i]
      /\ users'[target].status = StatusAfter(action)
  BY <1>1 DEF MInv, TypeOK, Ids, OnlyChanges
<1>3. /\ audit' = Append(audit, entry)
      /\ UNCHANGED <<tokens, probing, projects>>
      /\ ValidSession(t) /\ t.role = "admin"
      /\ LifecycleAllowed(target, action, t.id)
  BY DEF UpdateMemberLifecycle
<1>4. t.id \in Ids
  BY <1>3 DEF ValidSession
<1>5. entry \in AuditEntry
  BY <1>4, <1>2 DEF AuditEntry, Ids
<1>6. audit \in Seq(AuditEntry)
  BY DEF MInv, TypeOK
<1>7. TypeOK'
  <2>1. audit' \in Seq(AuditEntry)
    BY <1>3, <1>5, <1>6
  <2>2. \A k \in 1 .. Len(audit') : audit'[k].target \in Ids' /\ audit'[k].actor \in Ids'
    <3>1. Len(audit') = Len(audit) + 1 /\ Len(audit) \in Nat
      BY <1>3, <1>6
    <3>2. \A k \in 1 .. Len(audit) : audit'[k] = audit[k]
      BY <1>3, <1>6
    <3>3. audit'[Len(audit) + 1] = entry
      BY <1>3, <1>6
    <3>4. entry.target = target /\ entry.actor = t.id
      OBVIOUS
    <3> HIDE DEF entry
    <3>5. \A k \in 1 .. Len(audit) : audit[k].target \in Ids /\ audit[k].actor \in Ids
      BY DEF MInv, TypeOK
    <3> QED BY <1>2, <1>4, <3>1, <3>2, <3>3, <3>4, <3>5
  <2> HIDE DEF entry
  <2> QED BY <1>1, <1>2, <1>3, <2>1, <2>2 DEF MInv, TypeOK
<1>8. EmailsUnique'
  BY <1>1, <1>2 DEF MInv, EmailsUnique
<1>9. SomeAdminActive'
  <2>1. CASE action = "restore"
    <3>1. users'[target].status = "active"
      BY <1>2, <2>1 DEF StatusAfter
    <3> QED BY <1>1, <1>2, <3>1 DEF MInv, SomeAdminActive, ActiveAdmins
  <2>2. CASE action # "restore"
    <3>1. target # t.id
      BY <1>3, <2>2 DEF LifecycleAllowed
    <3>2. users[t.id].role = "admin" /\ users[t.id].status = "active"
      BY <1>3 DEF ValidSession
    <3> QED BY <1>1, <1>2, <1>4, <3>1, <3>2 DEF SomeAdminActive, ActiveAdmins
  <2> QED BY <2>1, <2>2
<1>10. AuditExplainsStatus'
  <2>1. entry.target = target /\ entry.action = action
    OBVIOUS
  <2> HIDE DEF entry
  <2>2. Explained(audit', target, StatusAfter(action))
    BY <1>3, <1>5, <1>6, <2>1, EntryExplains
  <2>3. ASSUME NEW i \in Ids, i # target
        PROVE  Explained(audit', i, users[i].status)
    BY <1>3, <1>5, <1>6, <2>1, <2>3, EntryExplains DEF MInv, AuditExplainsStatus
  <2> QED BY <1>1, <1>2, <2>2, <2>3 DEF AuditExplainsStatus
<1>11. ProbingAreMakers'
  BY <1>1, <1>2, <1>3 DEF MInv, ProbingAreMakers
<1>12. WithdrawnLockedOut'
  BY <1>1, <1>2 DEF MInv, WithdrawnLockedOut, OnlyChanges, Ids
<1> QED BY <1>7, <1>8, <1>9, <1>10, <1>11, <1>12 DEF MInv

\* Notes are a field of their own.
LEMMA NotesEffect ==
  ASSUME MInv, NEW t \in tokens, NEW target \in Ids, NEW notes \in BOOLEAN,
         UpdateMemberNotes(t, target, notes)
  PROVE  users' \in Seq(User) /\ Same(users, users')
<1>1. users \in Seq(User) /\ users[target] \in User
  BY DEF MInv, TypeOK, Ids
<1> DEFINE u == [users[target] EXCEPT !.notes = notes]
<1>2. users' = [users EXCEPT ![target] = u]
  BY DEF UpdateMemberNotes
<1>3. /\ u \in User
      /\ u.email = users[target].email
      /\ u.role = users[target].role
      /\ u.status = users[target].status
      /\ u.password = users[target].password
  BY <1>1 DEF User
<1> HIDE DEF u
<1>4. users' \in Seq(User) /\ Len(users') = Len(users)
  BY <1>1, <1>2, <1>3 DEF Ids
<1>5. \A i \in 1 .. Len(users) : users'[i] = IF i = target THEN u ELSE users[i]
  BY <1>1, <1>2 DEF Ids
<1> QED BY <1>3, <1>4, <1>5 DEF Same

LEMMA NotesInv ==
  ASSUME MInv, NEW t \in tokens, NEW target \in Ids, NEW notes \in BOOLEAN,
         UpdateMemberNotes(t, target, notes)
  PROVE  MInv'
<1>1. users' \in Seq(User) /\ Same(users, users')
  BY NotesEffect
<1>2. UNCHANGED <<tokens, probing, projects, audit>>
  BY DEF UpdateMemberNotes
<1>3. Ids' = Ids
  BY <1>1 DEF Same, Ids
<1>4. EmailsUnique' /\ SomeAdminActive' /\ AuditExplainsStatus' /\ WithdrawnLockedOut'
  BY <1>1, <1>2, SameKeeps
<1>5. ProbingAreMakers'
  <2>1. \A e : (\E i \in Ids : users[i].email = e /\ users[i].role = "maker")
          => (\E i \in Ids : users[i].email = e /\ users[i].role = "maker")'
    BY <1>1, <1>2, SameKeeps
  <2> QED BY <1>2, <2>1 DEF MInv, ProbingAreMakers
<1>6. TypeOK'
  BY <1>1, <1>2, <1>3 DEF MInv, TypeOK
<1> QED BY <1>4, <1>5, <1>6 DEF MInv

\* The probe begins for the e-mail of a maker.
LEMMA CreateProjectBeginInv ==
  ASSUME MInv, NEW t \in tokens, CreateProjectBegin(t)
  PROVE  MInv'
<1>1. /\ UNCHANGED <<users, tokens, projects, audit>>
      /\ probing' = probing \cup {users[t.id].email}
      /\ t.id \in Ids /\ users[t.id].role = "maker"
  BY DEF CreateProjectBegin, ValidSession
<1>2. users[t.id].email \in Emails
  <2>1. users[t.id] \in User
    BY <1>1 DEF MInv, TypeOK, Ids
  <2> QED BY <2>1 DEF User
<1>3. TypeOK'
  BY <1>1, <1>2 DEF MInv, TypeOK, Ids
<1>4. ProbingAreMakers'
  BY <1>1 DEF MInv, ProbingAreMakers, Ids
<1> QED
  BY <1>1, <1>3, <1>4 DEF MInv, EmailsUnique, SomeAdminActive, ActiveAdmins,
                          AuditExplainsStatus, WithdrawnLockedOut, Ids

LEMMA CreateProjectEndInv ==
  ASSUME MInv, NEW email \in Emails, CreateProjectEnd(email)
  PROVE  MInv'
<1>1. email \in probing /\ UpsertMaker(email) /\ UNCHANGED <<tokens, audit>>
      /\ probing' = probing \ {email}
  BY DEF CreateProjectEnd
<1>2. users' = users
  BY <1>1, MakerUpsert
<1>3. PICK i \in Ids : projects' = Append(projects, i)
  BY <1>2 DEF CreateProjectEnd, Ids
<1>4. /\ projects' \in Seq(Nat)
      /\ \A p \in 1 .. Len(projects') : projects'[p] \in Ids
  <2>1. i \in Nat /\ projects \in Seq(Nat)
    BY DEF MInv, TypeOK, Ids
  <2> QED BY <1>3, <2>1 DEF MInv, TypeOK
<1>5. TypeOK'
  BY <1>1, <1>2, <1>4 DEF MInv, TypeOK, Ids
<1> QED
  BY <1>1, <1>2, <1>5 DEF MInv, EmailsUnique, SomeAdminActive, ActiveAdmins,
                          AuditExplainsStatus, ProbingAreMakers, WithdrawnLockedOut, Ids

LEMMA NextInv ==
  ASSUME MInv, [Next]_vars
  PROVE  MInv'
<1>1. CASE \E id \in Ids : Login(id)
  BY <1>1, LoginInv
<1>2. CASE \E email \in Emails, named \in BOOLEAN : LoginWithGoogle(email, named)
  BY <1>2, LoginWithGoogleInv
<1>3. CASE \E t \in tokens : Expire(t)
  BY <1>3 DEF Expire, MInv, TypeOK, EmailsUnique, SomeAdminActive, ActiveAdmins,
              AuditExplainsStatus, ProbingAreMakers, WithdrawnLockedOut, Ids
<1>4. CASE \E t \in tokens, target \in Ids, action \in LifecycleActions :
             UpdateMemberLifecycle(t, target, action)
  BY <1>4, LifecycleInv
<1>5. CASE \E t \in tokens, target \in Ids, notes \in BOOLEAN :
             UpdateMemberNotes(t, target, notes)
  BY <1>5, NotesInv
<1>6. CASE \E t \in tokens : CreateProjectBegin(t)
  BY <1>6, CreateProjectBeginInv
<1>7. CASE \E email \in Emails : CreateProjectEnd(email)
  BY <1>7, CreateProjectEndInv
<1>8. CASE \E email \in Emails : CreateProjectRefused(email)
  BY <1>8 DEF CreateProjectRefused, MInv, TypeOK, EmailsUnique, SomeAdminActive,
              ActiveAdmins, AuditExplainsStatus, ProbingAreMakers, WithdrawnLockedOut, Ids
<1>9. CASE UNCHANGED vars
  BY <1>9 DEF vars, MInv, TypeOK, EmailsUnique, SomeAdminActive, ActiveAdmins,
              AuditExplainsStatus, ProbingAreMakers, WithdrawnLockedOut, Ids
<1> QED BY <1>1, <1>2, <1>3, <1>4, <1>5, <1>6, <1>7, <1>8, <1>9 DEF Next

------------------------------------------------------------------------------
\* The invariant is inductive.
THEOREM Invariance == Spec => []MInv
<1>1. Init => MInv
  BY InitInv
<1>2. MInv /\ [Next]_vars => MInv'
  BY NextInv
<1> QED BY <1>1, <1>2, PTL DEF Spec

\* Type correctness; sessions, projects and the audit log name existing accounts.
THEOREM TypeCorrect == Spec => []TypeOK
<1>1. MInv => TypeOK
  BY DEF MInv
<1> QED BY <1>1, Invariance, PTL

\* The two operations that create accounts on demand, loginWithGoogle and
\* createProject, never create a second account for an e-mail.
THEOREM OneAccountPerEmail == Spec => []EmailsUnique
<1>1. MInv => EmailsUnique
  BY DEF MInv
<1> QED BY <1>1, Invariance, PTL

\* assertMemberLifecycleAllowed keeps an active admin, whatever the admins do
\* to each other and however many registrations wait for their probe.
THEOREM AdminRemains == Spec => []SomeAdminActive
<1>1. MInv => SomeAdminActive
  BY DEF MInv
<1> QED BY <1>1, Invariance, PTL

\* Every status is explained by the last entry about the account.
THEOREM AuditIsComplete == Spec => []AuditExplainsStatus
<1>1. MInv => AuditExplainsStatus
  BY DEF MInv
<1> QED BY <1>1, Invariance, PTL

\* What one step may do to an account: its role stays, and a withdrawn account
\* stays withdrawn and gets no password.
LEMMA StepKeeps ==
  ASSUME MInv, [Next]_vars, NEW i \in Ids
  PROVE  /\ users'[i].role = users[i].role
         /\ users[i].status = "withdrawn" => users'[i].status = "withdrawn"
         /\ users'[i].password => users[i].password
<1> DEFINE Goal == /\ users'[i].role = users[i].role
                   /\ users[i].status = "withdrawn" => users'[i].status = "withdrawn"
                   /\ users'[i].password => users[i].password
<1>1. ASSUME Same(users, users') PROVE Goal
  BY <1>1 DEF Same, Ids
<1>2. CASE \E email \in Emails, named \in BOOLEAN : LoginWithGoogle(email, named)
  <2>1. PICK email \in Emails, named \in BOOLEAN : UpsertGoogleUser(email, named)
    BY <1>2 DEF LoginWithGoogle
  <2>2. CASE Added(users, users')
    <3>1. users \in Seq(User)
      BY DEF MInv, TypeOK
    <3>2. users'[i] = users[i]
      BY <2>2, <3>1 DEF Added, Ids
    <3> QED BY <3>2
  <2> QED BY <1>1, <2>1, <2>2, GoogleUpsert
<1>3. CASE \E t \in tokens, target \in Ids, action \in LifecycleActions :
             UpdateMemberLifecycle(t, target, action)
  <2>1. PICK t \in tokens, target \in Ids, action \in LifecycleActions :
          UpdateMemberLifecycle(t, target, action)
    BY <1>3
  <2>2. OnlyChanges(users, users', target, StatusAfter(action))
    BY <2>1, LifecycleEffect
  <2>3. users[target].status = "withdrawn" => action = "withdraw"
    BY <2>1 DEF UpdateMemberLifecycle, TransitionAllowed
  <2> QED BY <2>2, <2>3 DEF OnlyChanges, StatusAfter, Ids
<1>4. CASE \E t \in tokens, target \in Ids, notes \in BOOLEAN :
             UpdateMemberNotes(t, target, notes)
  BY <1>1, <1>4, NotesEffect
<1>5. CASE \E email \in Emails : CreateProjectEnd(email)
  <2>1. PICK email \in probing : UpsertMaker(email)
    BY <1>5 DEF CreateProjectEnd
  <2>2. users' = users
    BY <2>1, MakerUpsert
  <2> QED BY <2>2
<1>6. CASE \E id \in Ids : Login(id)
  BY <1>6 DEF Login
<1>7. CASE \/ \E t \in tokens : Expire(t) \/ CreateProjectBegin(t)
           \/ \E email \in Emails : CreateProjectRefused(email)
           \/ UNCHANGED vars
  BY <1>7 DEF Expire, CreateProjectBegin, CreateProjectRefused, vars
<1> QED BY <1>2, <1>3, <1>4, <1>5, <1>6, <1>7 DEF Next

\* Nothing revives a withdrawn account.
THEOREM WithdrawalFinal == Spec => WithdrawalIsFinal
<1>1. MInv /\ [Next]_vars => [\A i \in Ids : users[i].status = "withdrawn"
        => users'[i].status = "withdrawn" /\ ~users'[i].password]_vars
  BY StepKeeps DEF MInv, WithdrawnLockedOut
<1> QED BY <1>1, Invariance, PTL DEF Spec, WithdrawalIsFinal

\* upsertMaker's overwriting of the role is without effect.
THEOREM RolesFixed == Spec => RolesNeverChange
<1>1. MInv /\ [Next]_vars => [\A i \in Ids : users'[i].role = users[i].role]_vars
  BY StepKeeps
<1> QED BY <1>1, Invariance, PTL DEF Spec, RolesNeverChange

------------------------------------------------------------------------------
(* The rate limiter.                                                       *)


\* What is needed beside the types: cleanups lie in the past.
IInv ==
  /\ LimiterTypeOK
  /\ lastCleanupAt <= now
  /\ BucketsAreRecent

LEMMA ConstantTypes ==
  /\ Window \in Nat /\ Window > 0 /\ Max \in Nat /\ Max > 0
  /\ CleanupInterval \in Nat /\ CleanupInterval > 0 /\ MaxCount \in Nat
  /\ TrustProxy \in BOOLEAN /\ NoHost \notin Hosts
  /\ NoHost \notin Bucket /\ NoHost \notin [key : Hosts, allowed : BOOLEAN]
  BY WindowAssumption, MaxAssumption, CleanupAssumption, TimeAssumption,
     TrustAssumption, HostsAssumption DEF Bucket

\* A key is a host, and its bucket after a request runs for a while yet.
LEMMA ConsumedType ==
  ASSUME LimiterTypeOK, NEW k \in Hosts
  PROVE  /\ Consumed(k) \in Bucket
         /\ Consumed(k).resetAt > now
  <1>. USE ConstantTypes
  <1>1. now \in Nat /\ buckets[k] \in Bucket \cup {NoHost}
    BY DEF LimiterTypeOK
  <1>2. CASE buckets[k] = NoHost \/ buckets[k].resetAt <= now
    BY <1>1, <1>2 DEF Consumed, Bucket
  <1>3. CASE ~(buckets[k] = NoHost \/ buckets[k].resetAt <= now)
    <2>1. buckets[k] \in Bucket /\ buckets[k].resetAt > now
      BY <1>1, <1>3 DEF Bucket
    <2>2. Consumed(k) = [buckets[k] EXCEPT !.count = @ + 1]
      BY <1>3 DEF Consumed
    <2>. QED
      BY <2>1, <2>2 DEF Bucket
  <1>. QED
    BY <1>2, <1>3

\* What a request does, once its key is known.
Counted(k, b, bs) ==
  /\ k \in Hosts /\ b = Consumed(k) /\ bs = [buckets EXCEPT ![k] = b]
  /\ answer' = [key |-> k, allowed |-> b.count <= Max]
  /\ now' = now

Refused(b, bs) == b.count > Max /\ buckets' = bs /\ UNCHANGED <<lastCleanupAt, admitted>>

Admitted(k, ip, b) ==
  /\ ~(b.count > Max)
  /\ ~TrustProxy => k = ip
  /\ admitted' = admitted \cup {[key |-> k, ip |-> ip, at |-> now, nth |-> b.count,
                                 until |-> b.resetAt]}

Cleans(bs) ==
  now >= lastCleanupAt + CleanupInterval /\ lastCleanupAt' = now /\ buckets' = Cleaned(bs)

Keeps(bs) ==
  ~(now >= lastCleanupAt + CleanupInterval) /\ buckets' = bs /\ UNCHANGED lastCleanupAt

LEMMA UseCases ==
  ASSUME NEW ip \in Hosts, NEW forwarded \in Hosts \cup {NoHost}, Use(ip, forwarded)
  PROVE  \E k \in Hosts : \E b, bs :
           /\ Counted(k, b, bs)
           /\ Refused(b, bs) \/ (Admitted(k, ip, b) /\ (Cleans(bs) \/ Keeps(bs)))
  <1>. DEFINE k == ClientKey(ip, forwarded)
              b == Consumed(k)
              bs == [buckets EXCEPT ![k] = b]
  <1>1. k \in Hosts
    BY ConstantTypes DEF ClientKey
  <1>2. Counted(k, b, bs)
    BY <1>1 DEF Use, Counted
  <1>3. Refused(b, bs) \/ (Admitted(k, ip, b) /\ (Cleans(bs) \/ Keeps(bs)))
    BY DEF Use, Refused, Admitted, Cleans, Keeps, ClientKey
  <1>. HIDE DEF k, b, bs
  <1>. QED
    BY <1>1, <1>2, <1>3

LEMMA UseStep ==
  ASSUME IInv, NEW ip \in Hosts, NEW forwarded \in Hosts \cup {NoHost}, Use(ip, forwarded)
  PROVE  IInv'
  <1>0. PICK k \in Hosts : \E b, bs :
          /\ Counted(k, b, bs)
          /\ Refused(b, bs) \/ (Admitted(k, ip, b) /\ (Cleans(bs) \/ Keeps(bs)))
    BY UseCases
  <1>1. PICK b, bs :
          /\ Counted(k, b, bs)
          /\ Refused(b, bs) \/ (Admitted(k, ip, b) /\ (Cleans(bs) \/ Keeps(bs)))
    BY <1>0
  <1>2. b \in Bucket /\ b.resetAt > now /\ b # NoHost
    BY <1>1, ConsumedType, ConstantTypes DEF IInv, Counted
  <1>3. now \in Nat /\ lastCleanupAt \in Nat /\ lastCleanupAt <= now /\ now' = now
    BY <1>1 DEF IInv, LimiterTypeOK, Counted
  <1>4. bs \in [Hosts -> Bucket \cup {NoHost}]
    BY <1>1, <1>2 DEF IInv, LimiterTypeOK, Counted
  <1>5. \A h \in Hosts : bs[h] # NoHost => bs[h].resetAt > lastCleanupAt
    <2>. SUFFICES ASSUME NEW h \in Hosts, bs[h] # NoHost PROVE bs[h].resetAt > lastCleanupAt
      OBVIOUS
    <2>1. CASE h = k
      BY <1>1, <1>2, <1>3, <2>1 DEF IInv, LimiterTypeOK, Counted, Bucket
    <2>2. CASE h # k
      <3>1. bs[h] = buckets[h]
        BY <1>1, <2>2 DEF IInv, LimiterTypeOK, Counted
      <3>. QED
        BY <3>1 DEF IInv, BucketsAreRecent
    <2>. QED
      BY <2>1, <2>2
  <1>6. answer' \in [key : Hosts, allowed : BOOLEAN] /\ answer'.allowed = (b.count <= Max)
    BY <1>1 DEF Counted
  <1>7. CASE Refused(b, bs)
    <2>1. buckets' = bs /\ lastCleanupAt' = lastCleanupAt /\ admitted' = admitted
          /\ ~answer'.allowed
      BY <1>2, <1>6, <1>7, ConstantTypes DEF Refused, Bucket
    <2>2. LimiterTypeOK'
      BY <1>3, <1>4, <1>6, <2>1 DEF LimiterTypeOK, IInv
    <2>3. BucketsAreRecent'
      BY <1>5, <2>1 DEF BucketsAreRecent
    <2>. QED
      BY <1>3, <2>1, <2>2, <2>3 DEF IInv
  <1>8. CASE Admitted(k, ip, b)
    <2>1. admitted' \in SUBSET [key : Hosts, ip : Hosts, at : Nat, nth : Nat,
                                     until : Nat]
      BY <1>1, <1>2, <1>3, <1>8 DEF Admitted, IInv, LimiterTypeOK, Bucket
    <2>2. CASE Cleans(bs)
      <3>1. lastCleanupAt' = now /\ buckets' = Cleaned(bs)
        BY <2>2 DEF Cleans
      <3>2. buckets' \in [Hosts -> Bucket \cup {NoHost}]
        BY <1>4, <3>1 DEF Cleaned
      <3>3. \A h \in Hosts : buckets'[h] # NoHost => buckets'[h].resetAt > now
        <4>. SUFFICES ASSUME NEW h \in Hosts, buckets'[h] # NoHost
                      PROVE  buckets'[h].resetAt > now
          OBVIOUS
        <4>1. buckets'[h] = bs[h] /\ ~(bs[h].resetAt <= now)
          BY <3>1 DEF Cleaned
        <4>2. bs[h] \in Bucket
          BY <1>4, <4>1
        <4>. QED
          BY <1>3, <4>1, <4>2 DEF Bucket
      <3>4. now' < lastCleanupAt' + CleanupInterval
        BY <1>3, <3>1, ConstantTypes
      <3>. QED
        BY <1>3, <1>6, <2>1, <3>1, <3>2, <3>3, <3>4 DEF IInv, LimiterTypeOK, BucketsAreRecent
    <2>3. CASE Keeps(bs)
      <3>1. lastCleanupAt' = lastCleanupAt /\ buckets' = bs
            /\ now < lastCleanupAt + CleanupInterval
        BY <1>3, <2>3, ConstantTypes DEF Keeps
      <3>. QED
        BY <1>3, <1>4, <1>5, <1>6, <2>1, <3>1 DEF IInv, LimiterTypeOK, BucketsAreRecent
    <2>. QED
      BY <1>1, <1>7, <1>8, <2>2, <2>3 DEF Refused, Admitted
  <1>. QED
    BY <1>1, <1>7, <1>8

\* A bucket that no longer runs is still newer than the last cleanup.
LEMMA TickStep ==
  ASSUME IInv, Tick
  PROVE  IInv'
  BY ConstantTypes DEF IInv, Tick, LimiterTypeOK, BucketsAreRecent

LEMMA InitIInv ==
  ASSUME LimiterInit
  PROVE  IInv
  BY ConstantTypes DEF LimiterInit, IInv, LimiterTypeOK, BucketsAreRecent

\* The inductive invariant holds of the limiter.
THEOREM LimiterInvariance == LimiterSpec => []IInv
  <1>1. IInv /\ [LimiterNext]_limiterVars => IInv'
    <2>. SUFFICES ASSUME IInv, [LimiterNext]_limiterVars PROVE IInv'
      OBVIOUS
    <2>1. CASE Tick
      BY <2>1, TickStep
    <2>2. ASSUME NEW ip \in Hosts, NEW forwarded \in Hosts \cup {NoHost}, Use(ip, forwarded)
          PROVE  IInv'
      BY <2>2, UseStep
    <2>3. CASE UNCHANGED limiterVars
      BY <2>3 DEF limiterVars, IInv, LimiterTypeOK, BucketsAreRecent
    <2>. QED
      BY <2>1, <2>2, <2>3 DEF LimiterNext
  <1>. QED
    BY <1>1, InitIInv, PTL DEF LimiterSpec

\* LimiterTypeOK for any hosts, window, limit and cleanup interval: RateLimitMiddleware
\* keeps well-formed buckets.
THEOREM LimiterTypeCorrect == LimiterSpec => []LimiterTypeOK
  BY LimiterInvariance, PTL DEF IInv

\* BucketsAreRecent: use() keeps the map from growing with clients long gone.
THEOREM MapIsCleaned == LimiterSpec => []BucketsAreRecent
  BY LimiterInvariance, PTL DEF IInv

------------------------------------------------------------------------------
\* A request as the open windows see it.
Seen(k, b) ==
  /\ b \in Bucket /\ b.resetAt > now /\ now' = now
  /\ b = IF Open[k] = NoHost THEN [count |-> 1, resetAt |-> now + Window]
                             ELSE [Open[k] EXCEPT !.count = @ + 1]
  /\ Open' = [Open EXCEPT ![k] = b]
  /\ answer' = [key |-> k, allowed |-> b.count <= Max]

\* Whether the map is cleaned makes no difference to them.
LEMMA UseSeen ==
  ASSUME IInv, NEW ip \in Hosts, NEW forwarded \in Hosts \cup {NoHost}, Use(ip, forwarded)
  PROVE  \E k \in Hosts : \E b :
           /\ Seen(k, b)
           /\ \/ ~(b.count <= Max) /\ UNCHANGED admitted
              \/ Admitted(k, ip, b)
  <1>0. PICK k \in Hosts : \E b, bs :
          /\ Counted(k, b, bs)
          /\ Refused(b, bs) \/ (Admitted(k, ip, b) /\ (Cleans(bs) \/ Keeps(bs)))
    BY UseCases
  <1>1. PICK b, bs :
          /\ Counted(k, b, bs)
          /\ Refused(b, bs) \/ (Admitted(k, ip, b) /\ (Cleans(bs) \/ Keeps(bs)))
    BY <1>0
  <1>2. b \in Bucket /\ b.resetAt > now /\ b # NoHost
    BY <1>1, ConsumedType, ConstantTypes DEF IInv, Counted
  <1>3. now \in Nat /\ now' = now
    BY <1>1 DEF IInv, LimiterTypeOK, Counted
  <1>4. bs \in [Hosts -> Bucket \cup {NoHost}] /\ buckets \in [Hosts -> Bucket \cup {NoHost}]
    BY <1>1, <1>2 DEF IInv, LimiterTypeOK, Counted
  <1>5. buckets' = bs \/ buckets' = Cleaned(bs)
    BY <1>1 DEF Refused, Cleans, Keeps
  <1>6. Open' = [Open EXCEPT ![k] = b]
    <2>1. \A h \in Hosts : Open'[h] = IF h = k THEN b ELSE Open[h]
      <3>. SUFFICES ASSUME NEW h \in Hosts PROVE Open'[h] = IF h = k THEN b ELSE Open[h]
        OBVIOUS
      <3>1. bs[h] = IF h = k THEN b ELSE buckets[h]
        BY <1>1, <1>4 DEF Counted
      <3>2. buckets'[h] = bs[h] \/ (buckets'[h] = NoHost /\ bs[h] # NoHost /\ bs[h].resetAt <= now)
        BY <1>5 DEF Cleaned
      <3>3. bs[h] \in Bucket => bs[h].resetAt \in Nat
        BY DEF Bucket
      <3>4. Open'[h] = IF bs[h] # NoHost /\ bs[h].resetAt > now THEN bs[h] ELSE NoHost
        BY <1>3, <1>4, <3>2, <3>3 DEF Open
      <3>. QED
        BY <1>2, <3>1, <3>4 DEF Open
    <2>. QED
      BY <2>1 DEF Open
  <1>7. b = IF Open[k] = NoHost THEN [count |-> 1, resetAt |-> now + Window]
                                ELSE [Open[k] EXCEPT !.count = @ + 1]
    <2>1. buckets[k] \in Bucket => buckets[k].resetAt \in Nat
      BY DEF Bucket
    <2>2. Open[k] = NoHost <=> (buckets[k] = NoHost \/ buckets[k].resetAt <= now)
      BY <1>3, <1>4, <2>1, ConstantTypes DEF Open
    <2>3. Open[k] # NoHost => Open[k] = buckets[k]
      BY DEF Open
    <2>. QED
      BY <1>1, <2>2, <2>3 DEF Counted, Consumed
  <1>8. Seen(k, b)
    BY <1>1, <1>2, <1>3, <1>6, <1>7 DEF Seen, Counted
  <1>9. Refused(b, bs) => ~(b.count <= Max) /\ UNCHANGED admitted
    BY <1>2, ConstantTypes DEF Refused, Bucket
  <1>. QED
    BY <1>1, <1>8, <1>9

\* It is a request of the fixed window.
LEMMA UseImplements ==
  ASSUME IInv, NEW ip \in Hosts, NEW forwarded \in Hosts \cup {NoHost}, Use(ip, forwarded)
  PROVE  \E k \in Hosts : Windows!Request(k)
  <1>0. PICK k \in Hosts : \E b : Seen(k, b)
    BY UseSeen
  <1>1. PICK b : Seen(k, b)
    BY <1>0
  <1>. QED
    BY <1>1 DEF Seen, Windows!Request

LEMMA TickImplements ==
  ASSUME IInv, Tick
  PROVE  Windows!Pass
  <1>1. now \in Nat /\ now' = now + 1 /\ answer' = NoHost /\ buckets' = buckets
        /\ buckets \in [Hosts -> Bucket \cup {NoHost}]
    BY DEF Tick, IInv, LimiterTypeOK
  <1>2. \A h \in Hosts : Open'[h] =
          IF Open[h] # NoHost /\ Open[h].resetAt > now' THEN Open[h] ELSE NoHost
    <2>. SUFFICES ASSUME NEW h \in Hosts
         PROVE  Open'[h] = IF Open[h] # NoHost /\ Open[h].resetAt > now'
                           THEN Open[h] ELSE NoHost
      OBVIOUS
    <2>1. buckets[h] \in Bucket => buckets[h].resetAt \in Nat
      BY DEF Bucket
    <2>2. buckets[h] \in Bucket \/ buckets[h] = NoHost
      BY <1>1
    <2>3. Open'[h] = IF buckets[h] # NoHost /\ buckets[h].resetAt > now'
                     THEN buckets[h] ELSE NoHost
      BY <1>1 DEF Open
    <2>4. Open[h] = IF buckets[h] # NoHost /\ buckets[h].resetAt > now
                    THEN buckets[h] ELSE NoHost
      BY DEF Open
    <2>. QED
      BY <1>1, <2>1, <2>2, <2>3, <2>4
  <1>3. Open' = [h \in Hosts |->
          IF Open[h] # NoHost /\ Open[h].resetAt > now' THEN Open[h] ELSE NoHost]
    BY <1>2 DEF Open
  <1>. QED
    BY <1>1, <1>3 DEF Windows!Pass

\* WindowSpec: the middleware with its cleanup implements the plain fixed window;
\* neither refused requests nor cleanup(), whenever it runs, change what is admitted.
THEOREM ImplementsFixedWindow == LimiterSpec => WindowSpec
  <1>1. LimiterInit => Windows!FWInit
    BY ConstantTypes DEF LimiterInit, Windows!FWInit, Open
  <1>2. IInv /\ [LimiterNext]_limiterVars => [Windows!FWNext]_(Windows!fwVars)
    <2>. SUFFICES ASSUME IInv, [LimiterNext]_limiterVars PROVE [Windows!FWNext]_(Windows!fwVars)
      OBVIOUS
    <2>1. CASE Tick
      BY <2>1, TickImplements DEF Windows!FWNext
    <2>2. ASSUME NEW ip \in Hosts, NEW forwarded \in Hosts \cup {NoHost}, Use(ip, forwarded)
          PROVE  Windows!FWNext
      BY <2>2, UseImplements DEF Windows!FWNext
    <2>3. CASE UNCHANGED limiterVars
      BY <2>3 DEF limiterVars, Windows!fwVars, Open
    <2>. QED
      BY <2>1, <2>2, <2>3 DEF LimiterNext
  <1>. QED
    BY <1>1, <1>2, LimiterInvariance, PTL DEF LimiterSpec, WindowSpec, Windows!FWSpec

------------------------------------------------------------------------------
(* How the requests admitted so far relate to the open windows.            *)

\* Each lies inside its window, within the limit.
Inside ==
  \A r \in admitted :
    /\ 1 <= r.nth /\ r.nth <= Max
    /\ r.until <= r.at + Window /\ r.at < r.until /\ r.at <= now
    /\ ~TrustProxy => r.key = r.ip

\* A window that still runs is the open one.
Current == \A r \in admitted :
  r.until > now => /\ Open[r.key] \in Bucket
                   /\ Open[r.key].resetAt = r.until
                   /\ r.nth <= Open[r.key].count

\* Windows of one key do not overlap, and number their requests.
Apart == \A r, q \in admitted : r.key = q.key =>
  \/ r.until >= q.until + Window
  \/ q.until >= r.until + Window
  \/ r.until = q.until /\ (r.nth = q.nth => r = q)

\* An open window has admitted as many requests as it counts, up to Max.
Filled == \A k \in Hosts : Open[k] \in Bucket => Open[k].count >= 1 /\
  \A i \in 1 .. Max : i <= Open[k].count =>
    \E r \in admitted : r.key = k /\ r.until = Open[k].resetAt /\ r.nth = i

\* A refusal comes from a full window.
Full == answer # NoHost /\ ~answer.allowed =>
  Open[answer.key] \in Bucket /\ Open[answer.key].count > Max

HInv == IsFiniteSet(admitted) /\ Inside /\ Current /\ Apart /\ Filled /\ Full

LEMMA OpenType ==
  ASSUME LimiterTypeOK
  PROVE  /\ Open \in [Hosts -> Bucket \cup {NoHost}]
         /\ \A h \in Hosts : Open[h] \in Bucket => Open[h].resetAt > now /\ Open[h] # NoHost
  BY ConstantTypes DEF LimiterTypeOK, Open

AdmittedRecord == [key : Hosts, ip : Hosts, at : Nat, nth : Nat, until : Nat]

\* The bucket a request is counted in.
LEMMA SeenBucket ==
  ASSUME LimiterTypeOK, NEW k \in Hosts, NEW b, Seen(k, b)
  PROVE  /\ b.count \in Nat /\ b.resetAt \in Nat /\ b.count >= 1
         /\ Open[k] \in Bucket => b.count = Open[k].count + 1 /\ b.resetAt = Open[k].resetAt
         /\ Open[k] \notin Bucket => b.count = 1 /\ b.resetAt = now + Window
         /\ b.resetAt <= now + Window \/ Open[k] \in Bucket
         /\ Open'[k] = b
         /\ \A h \in Hosts : h # k => Open'[h] = Open[h]
  <1>1. Open[k] \in Bucket \cup {NoHost} /\ now \in Nat /\ Open \in [Hosts -> Bucket \cup {NoHost}]
    BY OpenType DEF LimiterTypeOK
  <1>2. CASE Open[k] = NoHost
    BY <1>1, <1>2, ConstantTypes DEF Seen, Bucket
  <1>3. CASE Open[k] \in Bucket
    <2>1. b = [Open[k] EXCEPT !.count = @ + 1]
      BY <1>3, ConstantTypes DEF Seen
    <2>. QED
      BY <1>1, <1>3, <2>1 DEF Seen, Bucket
  <1>. QED
    BY <1>1, <1>2, <1>3

\* A refused request: the window it is counted in was full already.
LEMMA RefusedHistory ==
  ASSUME IInv, HInv, NEW k \in Hosts, NEW b, Seen(k, b), ~(b.count <= Max), UNCHANGED admitted
  PROVE  HInv'
  <1>0. now' = now /\ now \in Nat /\ b \in Bucket
    BY DEF Seen, IInv, LimiterTypeOK
  <1>1. Open[k] \in Bucket /\ b.count = Open[k].count + 1 /\ b.resetAt = Open[k].resetAt
        /\ b.count \in Nat /\ Open'[k] = b /\ \A h \in Hosts : h # k => Open'[h] = Open[h]
    BY SeenBucket, ConstantTypes DEF IInv
  <1>2. Open[k].count \in Nat /\ Open[k].count >= Max
    BY <1>1, ConstantTypes DEF Bucket
  <1>3. IsFiniteSet(admitted)' /\ Inside' /\ Apart'
    BY <1>0 DEF HInv, Inside, Apart
  <1>4. Current'
    <2>. SUFFICES ASSUME NEW r \in admitted, r.until > now
                  PROVE  /\ Open'[r.key] \in Bucket
                         /\ Open'[r.key].resetAt = r.until
                         /\ r.nth <= Open'[r.key].count
      BY <1>0 DEF Current
    <2>1. r.key \in Hosts /\ r.nth \in Nat
      BY DEF IInv, LimiterTypeOK
    <2>2. Open[r.key] \in Bucket /\ Open[r.key].resetAt = r.until /\ r.nth <= Open[r.key].count
      BY DEF HInv, Current
    <2>. QED
      BY <1>0, <1>1, <1>2, <2>1, <2>2
  <1>5. Filled'
    <2>. SUFFICES ASSUME NEW h \in Hosts, Open'[h] \in Bucket
                  PROVE  /\ Open'[h].count >= 1
                         /\ \A i \in 1 .. Max : i <= Open'[h].count =>
                              \E r \in admitted :
                                r.key = h /\ r.until = Open'[h].resetAt /\ r.nth = i
      BY DEF Filled
    <2>1. CASE h = k
      <3>1. Open'[h].count >= 1
        BY <1>1, <1>2, <2>1, ConstantTypes
      <3>. QED
        BY <1>1, <1>2, <2>1, <3>1, ConstantTypes DEF HInv, Filled
    <2>2. CASE h # k
      BY <1>1, <2>2 DEF HInv, Filled
    <2>. QED
      BY <2>1, <2>2
  <1>6. Full'
    <2>1. answer'.key = k /\ Open'[answer'.key] = b /\ b.count > Max
      BY <1>1, ConstantTypes DEF Seen
    <2>. QED
      BY <1>0, <2>1 DEF Full
  <1>. QED
    BY <1>3, <1>4, <1>5, <1>6 DEF HInv

\* An admitted request is the next one of its window.
LEMMA AdmittedHistory ==
  ASSUME IInv, HInv, NEW k \in Hosts, NEW ip \in Hosts, NEW b, Seen(k, b), Admitted(k, ip, b)
  PROVE  HInv'
  <1>. DEFINE new == [key |-> k, ip |-> ip, at |-> now, nth |-> b.count, until |-> b.resetAt]
  <1>0. now' = now /\ now \in Nat /\ b \in Bucket /\ b.resetAt > now
    BY DEF Seen, IInv, LimiterTypeOK
  <1>1. /\ b.count \in Nat /\ b.resetAt \in Nat /\ b.count >= 1
        /\ Open[k] \in Bucket => b.count = Open[k].count + 1 /\ b.resetAt = Open[k].resetAt
        /\ Open[k] \notin Bucket => b.count = 1 /\ b.resetAt = now + Window
        /\ Open'[k] = b
        /\ \A h \in Hosts : h # k => Open'[h] = Open[h]
    BY SeenBucket DEF IInv
  <1>2. admitted' = admitted \cup {new} /\ b.count <= Max /\ (~TrustProxy => k = ip)
    BY <1>1, ConstantTypes DEF Admitted
  <1>3. new.key = k /\ new.ip = ip /\ new.at = now /\ new.nth = b.count /\ new.until = b.resetAt
    OBVIOUS
  <1>. HIDE DEF new
  <1>4. \A r \in admitted : r.key \in Hosts /\ r.at \in Nat /\ r.nth \in Nat /\ r.until \in Nat
    BY DEF IInv, LimiterTypeOK
  <1>5. \A h \in Hosts : Open[h] \in Bucket => Open[h].count \in Nat /\ Open[h].resetAt \in Nat
    BY DEF Bucket
  <1>6. \A r \in admitted : r.key = k =>
          \/ b.resetAt = r.until /\ r.nth < b.count
          \/ b.resetAt >= r.until + Window
    <2>. SUFFICES ASSUME NEW r \in admitted, r.key = k
                  PROVE  \/ b.resetAt = r.until /\ r.nth < b.count
                         \/ b.resetAt >= r.until + Window
      OBVIOUS
    <2>1. CASE r.until > now
      BY <1>1, <1>4, <1>5, <2>1 DEF HInv, Current
    <2>2. CASE ~(r.until > now) /\ Open[k] \notin Bucket
      BY <1>0, <1>1, <1>4, <2>2, ConstantTypes
    <2>3. CASE ~(r.until > now) /\ Open[k] \in Bucket
      <3>1. PICK q \in admitted : q.key = k /\ q.until = b.resetAt
        BY <1>1, <1>5, <2>3, ConstantTypes DEF HInv, Filled
      <3>2. /\ r.until \in Nat /\ q.until \in Nat /\ q.until > r.until /\ Window > 0
        BY <1>0, <1>1, <1>4, <2>3, <3>1, ConstantTypes
      <3>3. \/ r.until >= q.until + Window
            \/ q.until >= r.until + Window
            \/ r.until = q.until
        BY <3>1 DEF HInv, Apart
      <3>. QED
        BY <3>1, <3>2, <3>3, ConstantTypes
    <2>. QED
      BY <2>1, <2>2, <2>3
  <1>7. b.resetAt <= now + Window
    <2>1. CASE Open[k] \in Bucket
      <3>1. PICK q \in admitted : q.key = k /\ q.until = b.resetAt
        BY <1>1, <1>5, <2>1, ConstantTypes DEF HInv, Filled
      <3>2. q.until <= q.at + Window /\ q.at <= now
        BY <3>1 DEF HInv, Inside
      <3>. QED
        BY <1>0, <1>4, <3>1, <3>2, ConstantTypes
    <2>. QED
      BY <1>0, <1>1, <2>1, ConstantTypes
  <1>8. IsFiniteSet(admitted')
    BY <1>2, FS_AddElement DEF HInv
  <1>9. Inside'
    <2>. SUFFICES ASSUME NEW r \in admitted'
         PROVE  /\ 1 <= r.nth /\ r.nth <= Max
                /\ r.until <= r.at + Window /\ r.at < r.until /\ r.at <= now
                /\ ~TrustProxy => r.key = r.ip
      BY <1>0 DEF Inside
    <2>1. CASE r = new
      BY <1>0, <1>1, <1>2, <1>3, <1>7, <2>1
    <2>2. CASE r \in admitted
      BY <2>2 DEF HInv, Inside
    <2>. QED
      BY <1>2, <2>1, <2>2
  <1>10. Current'
    <2>. SUFFICES ASSUME NEW r \in admitted', r.until > now
                  PROVE  /\ Open'[r.key] \in Bucket
                         /\ Open'[r.key].resetAt = r.until
                         /\ r.nth <= Open'[r.key].count
      BY <1>0 DEF Current
    <2>1. CASE r = new
      BY <1>0, <1>1, <1>3, <2>1
    <2>2. CASE r \in admitted /\ r.key # k
      BY <1>1, <1>4, <2>2 DEF HInv, Current
    <2>3. CASE r \in admitted /\ r.key = k
      <3>1. Open[k] \in Bucket /\ Open[k].resetAt = r.until /\ r.nth <= Open[k].count
        BY <2>3 DEF HInv, Current
      <3>. QED
        BY <1>0, <1>1, <1>4, <1>5, <2>3, <3>1
    <2>. QED
      BY <1>2, <2>1, <2>2, <2>3
  <1>11. Apart'
    <2>. SUFFICES ASSUME NEW r \in admitted', NEW q \in admitted', r.key = q.key
                  PROVE  \/ r.until >= q.until + Window
                         \/ q.until >= r.until + Window
                         \/ r.until = q.until /\ (r.nth = q.nth => r = q)
      BY DEF Apart
    <2>1. CASE r \in admitted /\ q \in admitted
      BY <2>1 DEF HInv, Apart
    <2>2. CASE r = new /\ q = new
      BY <2>2
    <2>3. CASE r = new /\ q \in admitted
      BY <1>1, <1>3, <1>4, <1>6, <2>3
    <2>4. CASE r \in admitted /\ q = new
      BY <1>1, <1>3, <1>4, <1>6, <2>4
    <2>. QED
      BY <1>2, <2>1, <2>2, <2>3, <2>4
  <1>12. Filled'
    <2>. SUFFICES ASSUME NEW h \in Hosts, Open'[h] \in Bucket
                  PROVE  /\ Open'[h].count >= 1
                         /\ \A i \in 1 .. Max : i <= Open'[h].count =>
                              \E r \in admitted' :
                                r.key = h /\ r.until = Open'[h].resetAt /\ r.nth = i
      BY DEF Filled
    <2>1. CASE h # k
      BY <1>1, <1>2, <2>1 DEF HInv, Filled
    <2>2. CASE h = k
      <3>. SUFFICES ASSUME NEW i \in 1 .. Max, i <= b.count
                    PROVE  \E r \in admitted' : r.key = k /\ r.until = b.resetAt /\ r.nth = i
        BY <1>1, <2>2
      <3>1. CASE i = b.count
        BY <1>2, <1>3, <3>1
      <3>2. CASE i # b.count
        <4>1. Open[k] \in Bucket /\ i <= Open[k].count
          BY <1>1, <1>5, <3>2
        <4>2. PICK r \in admitted : r.key = k /\ r.until = Open[k].resetAt /\ r.nth = i
          BY <4>1 DEF HInv, Filled
        <4>. QED
          BY <1>1, <1>2, <4>1, <4>2
      <3>. QED
        BY <3>1, <3>2
    <2>. QED
      BY <2>1, <2>2
  <1>13. Full'
    BY <1>2 DEF Full, Seen
  <1>. QED
    BY <1>8, <1>9, <1>10, <1>11, <1>12, <1>13 DEF HInv

LEMMA TickHistory ==
  ASSUME IInv, HInv, Tick
  PROVE  HInv'
  <1>1. now \in Nat /\ now' = now + 1 /\ answer' = NoHost /\ admitted' = admitted
    BY DEF Tick, IInv, LimiterTypeOK
  <1>2. \A h \in Hosts : Open'[h] = IF Open[h] # NoHost /\ Open[h].resetAt > now'
                                    THEN Open[h] ELSE NoHost
    BY TickImplements DEF Windows!Pass, Open
  <1>3. \A r \in admitted : r.key \in Hosts /\ r.at \in Nat /\ r.until \in Nat
    BY DEF IInv, LimiterTypeOK
  <1>4. Inside' /\ Apart' /\ Full' /\ IsFiniteSet(admitted)'
    BY <1>1, <1>3 DEF HInv, Inside, Apart, Full
  <1>5. Current'
    BY <1>1, <1>2, <1>3, ConstantTypes DEF HInv, Current
  <1>6. Filled'
    BY <1>1, <1>2, ConstantTypes DEF HInv, Filled
  <1>. QED
    BY <1>4, <1>5, <1>6 DEF HInv

LEMMA InitHistory ==
  ASSUME LimiterInit
  PROVE  HInv
  <1>1. admitted = {} /\ answer = NoHost /\ \A h \in Hosts : Open[h] = NoHost
    BY DEF LimiterInit, Open
  <1>. QED
    BY <1>1, FS_EmptySet, ConstantTypes DEF HInv, Inside, Current, Apart, Filled, Full

\* The history of admissions fits the windows.
THEOREM HistoryInvariance == LimiterSpec => [](IInv /\ HInv)
  <1>1. IInv /\ HInv /\ [LimiterNext]_limiterVars => HInv'
    <2>. SUFFICES ASSUME IInv, HInv, [LimiterNext]_limiterVars PROVE HInv'
      OBVIOUS
    <2>1. CASE Tick
      BY <2>1, TickHistory
    <2>2. ASSUME NEW ip \in Hosts, NEW forwarded \in Hosts \cup {NoHost}, Use(ip, forwarded)
          PROVE  HInv'
      <3>0. PICK k \in Hosts : \E b : /\ Seen(k, b)
                                      /\ \/ ~(b.count <= Max) /\ UNCHANGED admitted
                                         \/ Admitted(k, ip, b)
        BY <2>2, UseSeen
      <3>1. PICK b : /\ Seen(k, b)
                     /\ \/ ~(b.count <= Max) /\ UNCHANGED admitted
                        \/ Admitted(k, ip, b)
        BY <3>0
      <3>. QED
        BY <3>1, RefusedHistory, AdmittedHistory
    <2>3. CASE UNCHANGED limiterVars
      BY <2>3 DEF limiterVars, HInv, Inside, Current, Apart, Filled, Full, Open
    <2>. QED
      BY <2>1, <2>2, <2>3 DEF LimiterNext
  <1>2. LimiterInit => HInv
    BY InitHistory
  <1>. QED
    BY <1>1, <1>2, LimiterInvariance, PTL DEF LimiterSpec

\* RefusedOnlyWhenExhausted for any limit: use() refuses nobody who was not
\* admitted Max times during the last window.
THEOREM RefusalsAreEarned == LimiterSpec => []RefusedOnlyWhenExhausted
  <1>1. IInv /\ HInv => RefusedOnlyWhenExhausted
    <2>. SUFFICES ASSUME IInv, HInv, answer # NoHost, ~answer.allowed
         PROVE Cardinality({r \in admitted : r.key = answer.key /\ r.at > now - Window}) >= Max
      BY DEF RefusedOnlyWhenExhausted
    <2>. DEFINE k == answer.key
                T == {r \in admitted : r.key = k /\ r.at > now - Window}
                f == [i \in 1 .. Max |-> CHOOSE r \in T : r.nth = i]
    <2>1. k \in Hosts /\ Open[k] \in Bucket /\ Open[k].count > Max /\ now \in Nat
      BY DEF HInv, Full, IInv, LimiterTypeOK
    <2>2. Open[k].resetAt > now /\ Open[k].resetAt \in Nat /\ Open[k].count \in Nat
      BY <2>1, OpenType DEF IInv, Bucket
    <2>3. ASSUME NEW i \in 1 .. Max PROVE \E r \in T : r.nth = i
      <3>1. PICK r \in admitted : r.key = k /\ r.until = Open[k].resetAt /\ r.nth = i
        BY <2>1, <2>2, ConstantTypes DEF HInv, Filled
      <3>2. r.until <= r.at + Window /\ r.at \in Nat
        BY <3>1 DEF HInv, Inside, IInv, LimiterTypeOK
      <3>3. r.at > now - Window
        BY <2>1, <2>2, <3>1, <3>2, ConstantTypes
      <3>. QED
        BY <3>1, <3>3
    <2>4. f \in Injection(1 .. Max, T)
      <3>1. \A i \in 1 .. Max : f[i] \in T /\ f[i].nth = i
        BY <2>3
      <3>. HIDE DEF T
      <3>2. f \in [1 .. Max -> T] /\ DOMAIN f = 1 .. Max
        BY <3>1
      <3>. HIDE DEF f
      <3>. QED
        BY <3>1, <3>2 DEF Injection, IsInjective
    <2>5. IsFiniteSet(T)
      BY FS_Subset DEF HInv
    <2>. HIDE DEF T, f
    <2>6. Cardinality(1 .. Max) <= Cardinality(T)
      BY <2>4, <2>5, FS_Injection
    <2>7. Cardinality(1 .. Max) = Max
      <3>1. 1 \in Int /\ Max \in Int /\ ~(1 > Max) /\ Max - 1 + 1 = Max
        BY ConstantTypes
      <3>2. Cardinality(1 .. Max) = IF 1 > Max THEN 0 ELSE Max - 1 + 1
        BY <3>1, FS_Interval
      <3>. QED
        BY <3>1, <3>2
    <2>8. Cardinality(T) \in Nat
      BY <2>5, FS_CardinalityType
    <2>. QED
      BY <2>6, <2>7, <2>8, ConstantTypes DEF T, k
  <1>. QED
    BY <1>1, HistoryInvariance, PTL

\* A stretch of one window length touches two windows at most.
LEMMA TwoWindows ==
  ASSUME IInv, HInv, NEW h \in Hosts, NEW t \in Nat, NEW S \in SUBSET admitted,
         \A r \in S : r.key = h /\ t <= r.at /\ r.at < t + Window
  PROVE  Cardinality(S) <= 2 * Max
  <1>. DEFINE place(r) == IF r.until <= t + Window THEN r.nth ELSE r.nth + Max
              f == [r \in S |-> place(r)]
  <1>1. \A r \in S : /\ r.nth \in 1 .. Max /\ r.until \in Nat
                     /\ r.until > t /\ r.until < t + 2 * Window
    <2>. SUFFICES ASSUME NEW r \in S
                  PROVE  /\ r.nth \in 1 .. Max /\ r.until \in Nat
                         /\ r.until > t /\ r.until < t + 2 * Window
      OBVIOUS
    <2>1. r.nth \in Nat /\ r.at \in Nat /\ r.until \in Nat
      BY DEF IInv, LimiterTypeOK
    <2>2. 1 <= r.nth /\ r.nth <= Max /\ r.until <= r.at + Window /\ r.at < r.until
      BY DEF HInv, Inside
    <2>. QED
      BY <2>1, <2>2, ConstantTypes
  <1>2. \A r \in S : place(r) \in 1 .. (2 * Max)
    BY <1>1, ConstantTypes
  <1>3. \A r, q \in S : place(r) = place(q) => r = q
    <2>. SUFFICES ASSUME NEW r \in S, NEW q \in S, place(r) = place(q) PROVE r = q
      OBVIOUS
    <2>1. \/ r.until >= q.until + Window
          \/ q.until >= r.until + Window
          \/ r.until = q.until /\ (r.nth = q.nth => r = q)
      BY DEF HInv, Apart
    <2>2. r.nth = q.nth /\ (r.until <= t + Window <=> q.until <= t + Window)
      BY <1>1, ConstantTypes
    <2>. QED
      BY <1>1, <2>1, <2>2, ConstantTypes
  <1>4. f \in Injection(S, 1 .. (2 * Max))
    <2>. HIDE DEF place
    <2>. QED
      BY <1>2, <1>3 DEF Injection, IsInjective
  <1>. HIDE DEF f
  <1>5. IsFiniteSet(1 .. (2 * Max)) /\ Cardinality(1 .. (2 * Max)) = 2 * Max
    BY ConstantTypes, FS_Interval
  <1>. QED
    BY <1>4, <1>5, FS_Injection

\* AtMostTwoWindows for any window and limit: however requests fall, consume()
\* admits at most 2 * Max of them in a stretch of one window length.
THEOREM TwoWindowsBound == LimiterSpec => []AtMostTwoWindows
  <1>1. IInv /\ HInv => AtMostTwoWindows
    <2>. SUFFICES ASSUME IInv, HInv, NEW h \in Hosts, NEW t \in 0 .. now
         PROVE
           /\ Cardinality({r \in admitted : r.key = h /\ t <= r.at /\ r.at < t + Window}) <= 2 * Max
           /\ ~TrustProxy => Cardinality({r \in admitted :
                  r.ip = h /\ t <= r.at /\ r.at < t + Window}) <= 2 * Max
      BY DEF AtMostTwoWindows
    <2>1. t \in Nat
      BY DEF IInv, LimiterTypeOK
    <2>2. Cardinality({r \in admitted : r.key = h /\ t <= r.at /\ r.at < t + Window}) <= 2 * Max
      BY <2>1, TwoWindows
    <2>3. ~TrustProxy =>
            {r \in admitted : r.ip = h /\ t <= r.at /\ r.at < t + Window}
              = {r \in admitted : r.key = h /\ t <= r.at /\ r.at < t + Window}
      BY DEF HInv, Inside
    <2>. QED
      BY <2>2, <2>3
  <1>. QED
    BY <1>1, HistoryInvariance, PTL
==============================================================================
