-------------------------------- MODULE Bell --------------------------------
(* The visitor of the web client: the account the page believes in and the    *)
(* cookie the browser sends, the polls for notices and for unread messages,   *)
(* and the bell that marks the notices read before the server has answered.   *)
(* A request is served as the account whose cookie went with it.              *)
EXTENDS Naturals, FiniteSets

CONSTANTS Users,      \* the accounts
          Nobody,
          Unread,     \* [Users -> Nat]: the messages each has not read
          FirstNotices, \* the notices at the start
          MaxDeeds,   \* bound on what the visitor does
          MaxEvents   \* bound on the timers' polls, on lost answers and on what others do

Notice == [n : Nat, user : Users, project : Nat, read : BOOLEAN]
ASSUME BellAssumption == /\ Nobody \notin Users /\ Unread \in [Users -> Nat]
                         /\ IsFiniteSet(FirstNotices) /\ FirstNotices \subseteq Notice
                         /\ {MaxDeeds, MaxEvents} \subseteq Nat

VARIABLES cookie, session, asked, loginOpen, leaving,   \* who is here
          notices,                                      \* server
          bell, badge, polls, marks,                    \* the header
          mixed,     \* the cookie and the page disagree, or two accounts met without a logout
          deeds, happened                         \* bounded
account  == <<cookie, session, asked, loginOpen, leaving, mixed>>
header   == <<bell, badge, polls, marks>>
bounds   == <<deeds, happened>>
bellVars == <<account, notices, header>>

Visitors  == Users \cup {Nobody}
NotAsked  == "settled"
Kinds     == {"notices", "messages"}
Mine(u)   == {n \in notices : n.user = u}
Deed      == deeds < MaxDeeds /\ deeds' = deeds + 1 /\ UNCHANGED happened
Event     == happened < MaxEvents /\ happened' = happened + 1 /\ UNCHANGED deeds
NoBound   == UNCHANGED bounds

BellInit ==
  /\ session = Nobody /\ asked = cookie
  /\ loginOpen = FALSE /\ leaving = FALSE /\ mixed = FALSE
  /\ notices = FirstNotices /\ bell = {} /\ badge = 0 /\ polls = {} /\ marks = {}
  /\ deeds = 0 /\ happened = 0

(* The two effects on the session: they forget what was asked for the session *)
(* before, empty the header for nobody, and ask at once for somebody.         *)
Enter(u) ==
  /\ session' = u
  /\ mixed' = (mixed \/ u # cookie' \/ (session # Nobody /\ u \notin {session, Nobody}))
  /\ IF u = session /\ u = Nobody
       THEN UNCHANGED <<bell, badge, polls>>
       ELSE /\ polls' = {[q EXCEPT !.live = FALSE] : q \in polls}
                        \cup (IF u = Nobody THEN {}
                                ELSE {[kind |-> k, user |-> cookie', live |-> TRUE] : k \in Kinds})
            /\ bell' = IF u = Nobody THEN {} ELSE bell
            /\ badge' = IF u = Nobody THEN 0 ELSE badge

(* The session is asked for once; a failure counts as nobody.                 *)
SessionArrives ==
  /\ asked # NotAsked /\ asked' = NotAsked
  /\ cookie' = cookie
  /\ \/ Enter(asked) /\ NoBound
     \/ Enter(Nobody) /\ Event
  /\ UNCHANGED <<loginOpen, leaving, notices, marks>>

OpenLogin == /\ session = Nobody /\ ~loginOpen /\ loginOpen' = TRUE
             /\ UNCHANGED <<cookie, session, asked, leaving, mixed, notices, header>>
CloseLogin == loginOpen /\ loginOpen' = FALSE
              /\ UNCHANGED <<cookie, session, asked, leaving, mixed, notices, header>>
(* handleLogin, handleGoogleLogin: a refusal leaves the dialog as it is.       *)
Login == \E u \in Users :
  /\ loginOpen /\ cookie' = u /\ Enter(u) /\ loginOpen' = FALSE
  /\ UNCHANGED <<asked, leaving, notices, marks>>

Logout == /\ session # Nobody /\ ~leaving /\ leaving' = TRUE
          /\ UNCHANGED <<cookie, session, asked, loginOpen, mixed, notices, header>>
(* The page forgets the account whether or not the server has heard of it.    *)
LoggedOut ==
  /\ leaving /\ leaving' = FALSE
  /\ \/ cookie' = Nobody /\ NoBound
     \/ cookie' = cookie /\ Event
  /\ Enter(Nobody) /\ loginOpen' = TRUE
  /\ UNCHANGED <<asked, notices, marks>>

OtherTab == \E u \in Visitors \ {cookie} :
  /\ cookie' = u /\ mixed' = TRUE
  /\ UNCHANGED <<session, asked, loginOpen, leaving, notices, header>>
-----------------------------------------------------------------------------
Tick == \E k \in Kinds :
  /\ session # Nobody
  /\ polls' = polls \cup {[kind |-> k, user |-> cookie, live |-> TRUE]}
  /\ UNCHANGED <<account, notices, bell, badge, marks>>

\* Mutant of PollArrives: an answer asked for an earlier session is shown too.
PollArrivesAnyway(q) ==
  /\ q \in polls /\ polls' = polls \ {q}
  /\ bell'  = IF q.kind = "notices" /\ q.user # Nobody THEN Mine(q.user) ELSE bell
  /\ badge' = IF q.kind = "messages" /\ q.user # Nobody THEN Unread[q.user] ELSE badge
  /\ UNCHANGED <<account, notices, marks>>

(* Nobody's poll is refused; a failure is ignored, so it needs no action: the *)
(* request may as well never be answered.                                     *)
PollArrives(q) ==
  /\ q \in polls /\ polls' = polls \ {q}
  /\ bell'  = IF q.live /\ q.kind = "notices" /\ q.user # Nobody THEN Mine(q.user) ELSE bell
  /\ badge' = IF q.live /\ q.kind = "messages" /\ q.user # Nobody THEN Unread[q.user] ELSE badge
  /\ UNCHANGED <<account, notices, marks>>

(* markAllNotificationsRead: at once on the page, and then at the server.      *)
MarkAllRead ==
  /\ bell' = {[n EXCEPT !.read = TRUE] : n \in bell}
  /\ marks' = marks \cup {cookie}
OpenBell ==
  /\ \E n \in bell : ~n.read
  /\ MarkAllRead
  /\ UNCHANGED <<account, notices, badge, polls>>
MarkServed == \E u \in marks :
  /\ marks' = marks \ {u}
  /\ notices' = {IF n.user = u THEN [n EXCEPT !.read = TRUE] ELSE n : n \in notices}
  /\ UNCHANGED <<account, bell, badge, polls>>

(* notifyMaker: the owner hears of what another account does to a project.    *)
Told(owner, actor, p) ==
  IF owner = actor THEN notices
  ELSE notices \cup {[n |-> Cardinality(notices) + 1, user |-> owner, project |-> p, read |-> FALSE]}

(* The header shows what belongs to the account the page believes in: a poll  *)
(* that was under way at a logout does not fill it again for nobody or for    *)
(* the next account.                                                          *)
NoticesAreMine ==
  ~mixed => /\ \A n \in bell : n.user = session
            /\ badge # 0 => session # Nobody /\ badge = Unread[session]
=============================================================================
