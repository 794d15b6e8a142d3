---------------------------- MODULE DetailProofs ----------------------------
(***************************************************************************)
(* Proofs about Detail and Bell, for any accounts, projects, reviews and   *)
(* bounds.  The three properties rest on disjoint parts of the state, so   *)
(* the invariant has a part for each: the header, the forms, the page.     *)
(***************************************************************************)
EXTENDS Detail, FiniteFacts, TLAPS

\* The header of nobody is empty, and what fills it was asked for the session.
HeaderFits ==
  /\ session = Nobody => bell = {} /\ badge = 0 /\ \A q \in polls : ~q.live
  /\ ~mixed => /\ session # Nobody => cookie = session
               /\ \A q \in polls : q.live => q.user = session

\* A form waits for at most one request, and for none while it may be sent.
Waited(h) == h.at # "orphan"
OneRequestEach ==
  /\ \A h \in posts : Waited(h) => forms[h.form].sending
  /\ \A h, k \in posts : Waited(h) /\ Waited(k) /\ h.form = k.form => h = k

\* A text is new when it is typed, and is in one form and its requests only.
TextsAreNew ==
  /\ \A f \in Forms : forms[f].text <= typed
  /\ \A f, g \in Forms : forms[f].text # 0 /\ forms[f].text = forms[g].text => f = g
  /\ \A h \in posts : h.text <= typed
  /\ \A h \in posts, f \in Forms : forms[f].text = h.text => f = h.form
  /\ \A h, k \in posts : h.text = k.text => h.form = k.form
  /\ \A t \in 1 .. MaxTyped : t > typed => saved[t] = 0

\* Unless an answer was lost, what is to be saved is not saved yet, and what is
\* saved leaves its form when the answer has been dealt with.
Pending(f) == \E h \in posts : h.form = f /\ h.text = forms[f].text /\ h.at \in {"saved", "snapshot"}
SavedTextsLeave ==
  /\ \A h \in posts : h.at = "orphan" => h.text \in lost
  /\ \A h \in posts : h.at = "sent" /\ h.text \notin lost => saved[h.text] = 0
  /\ \A f \in Forms :
       forms[f].text # 0 /\ forms[f].text \notin lost /\ saved[forms[f].text] # 0 => Pending(f)

\* No number is given to two reviews; an answer names a review of its project.
ReviewsNumbered ==
  /\ IsFiniteSet(reviews)
  /\ \A r \in reviews : r.n \in 1 .. Cardinality(reviews)
  /\ \A r, s \in reviews : r.n = s.n => r = s
AnswersNameReviews ==
  \A h \in posts : h.form = "review" =>
    /\ h.project \in Ids
    /\ h.at = "saved" => \E r \in reviews : r.n = h.review /\ r.project = h.project

\* The newest question of a slot is about the page, what goes astray was under
\* way when the page was opened, and the row that was found is that of a project.
NewestIsForThePage ==
  /\ page # 0 => /\ \A w \in waits : w.newest => w.project = page
                 /\ \A s \in Slots : Astray(s, page) => s \in strays
  /\ found = "found" => page \in Ids

\* What is announced is finite and about projects that exist.
NoticesNameProjects ==
  /\ IsFiniteSet(notices)
  /\ \A n \in notices \cup bell : n.project \in Ids

HeaderInv == NoticesNameProjects /\ HeaderFits /\ NoticesAreMine
FormsInv  == OneRequestEach /\ TextsAreNew /\ SavedTextsLeave /\ DraftsSavedOnce
PageInv   == ReviewsNumbered /\ AnswersNameReviews /\ NewestIsForThePage /\ PageShowsItsOwn
DInv == TypeOK /\ HeaderInv /\ FormsInv /\ PageInv

------------------------------------------------------------------------------
(* The parts of the invariant, each on the variables it speaks of.          *)

Poll == [kind : Kinds, user : Visitors, live : BOOLEAN]
Wait == [slot : Slots, project : Pages, newest : BOOLEAN]
Post == [form : Forms, at : Stages, project : Pages, text : 1 .. MaxTyped,
         parent : Nat, user : Visitors, review : Nat]
Request == [kind : ActKinds \cup {"preview", "report"}, project : Ids, review : Nat,
            user : Visitors, at : {"sent", "unanswered", "snapshot", "listed"}]
Panel == [reviews : SUBSET Review, events : Pages, log : Pages]
Form  == [text : Texts, sending : BOOLEAN]

HeaderTypes ==
  /\ session \in Visitors /\ cookie \in Visitors /\ asked \in Visitors \cup {NotAsked}
  /\ notices \in SUBSET Notice /\ bell \in SUBSET Notice /\ polls \in SUBSET Poll
FormsTypes ==
  /\ saved \in [1 .. MaxTyped -> Nat] /\ lost \in SUBSET (1 .. MaxTyped)
  /\ forms \in [Forms -> Form] /\ typed \in Texts /\ posts \in SUBSET Post
PageTypes ==
  /\ page \in Pages /\ been \in SUBSET Pages
  /\ market \in SUBSET Ids /\ listed \in SUBSET Ids
  /\ found \in {"none", "asked", "found", "unavailable"} /\ settled \in [Slots -> BOOLEAN]
  /\ strays \in SUBSET Slots
  /\ waits \in SUBSET Wait /\ shown \in Panel /\ reviews \in SUBSET Review
  /\ replyTo \in Nat /\ preview \in {0} \cup Ids /\ acts \in SUBSET Request
RailTypes == viewed \in Seq(Ids) /\ Len(viewed) <= RailLimit

SlotsShowPage == page # 0 => \A s \in Slots \ strays : settled[s] => ShowsOwn(s)
RailShowsPage == page # 0 /\ Resolved => viewed[1] = page

HeaderPart == HeaderTypes /\ HeaderInv
FormsPart == FormsTypes /\ FormsInv
PagePart == PageTypes /\ ReviewsNumbered /\ AnswersNameReviews /\ NewestIsForThePage /\ SlotsShowPage
RailPart == RailTypes /\ RailShowsPage

headerVars == <<cookie, session, asked, mixed, notices, bell, badge, polls>>
formsVars  == <<forms, typed, posts, lost, saved>>
shownVars  == <<screen, list, reviews, replyTo, preview, acts, posts>>

LEMMA Types == TypeOK <=> HeaderTypes /\ FormsTypes /\ PageTypes /\ RailTypes
BY DEF TypeOK, HeaderTypes, FormsTypes, PageTypes, RailTypes, Poll, Wait, Post, Request, Panel, Form

LEMMA Parts == DInv <=> HeaderPart /\ FormsPart /\ PagePart /\ RailPart
<1>1. PageShowsItsOwn <=> SlotsShowPage /\ RailShowsPage
  BY DEF PageShowsItsOwn, SlotsShowPage, RailShowsPage
<1> QED BY <1>1, Types DEF DInv, PageInv, HeaderPart, FormsPart, PagePart, RailPart

LEMMA HeaderFrame == HeaderPart /\ UNCHANGED headerVars => HeaderPart'
BY DEF HeaderPart, headerVars, HeaderTypes, HeaderInv, NoticesNameProjects, HeaderFits, NoticesAreMine

LEMMA FormsFrame == FormsPart /\ UNCHANGED formsVars => FormsPart'
BY DEF FormsPart, formsVars, FormsTypes, FormsInv, OneRequestEach, TextsAreNew, SavedTextsLeave,
       DraftsSavedOnce, Pending, Waited

LEMMA PageFrame == PagePart /\ UNCHANGED shownVars => PagePart'
BY DEF PagePart, shownVars, screen, list, PageTypes, ReviewsNumbered, AnswersNameReviews,
       NewestIsForThePage, Astray, SlotsShowPage, ShowsOwn

------------------------------------------------------------------------------
(* The header.                                                              *)

LEMMA Accounts == /\ Nobody \notin Users /\ Unread \in [Users -> Nat]
                  /\ \A p \in Ids : p \in Nat /\ p # 0 /\ Owner[p] \in Users
BY BellAssumption, DetailAssumption

\* Whoever enters finds the header empty or their own.
LEMMA EnterKeeps ==
  ASSUME HeaderPart, NEW u \in Visitors, Enter(u), cookie' \in Visitors,
         asked' \in Visitors \cup {NotAsked}, notices' = notices
  PROVE  HeaderPart'
<1> DEFINE old == {[q EXCEPT !.live = FALSE] : q \in polls}
           new == IF u = Nobody THEN {} ELSE {[kind |-> k, user |-> cookie', live |-> TRUE] : k \in Kinds}
<1>1. /\ session' = u
      /\ ~mixed' => ~mixed /\ u = cookie' /\ (session = Nobody \/ u \in {session, Nobody})
  BY DEF Enter
<1>2. CASE u = session /\ u = Nobody
  <2>1. UNCHANGED <<bell, badge, polls>>
    BY <1>2 DEF Enter
  <2> QED
    BY <1>1, <1>2, <2>1 DEF HeaderPart, HeaderTypes, HeaderInv, NoticesNameProjects, HeaderFits, NoticesAreMine
<1>3. CASE ~(u = session /\ u = Nobody)
  <2>1. /\ polls' = old \cup new
        /\ bell' = IF u = Nobody THEN {} ELSE bell
        /\ badge' = IF u = Nobody THEN 0 ELSE badge
    BY <1>3 DEF Enter
  <2>2. \A q \in polls : [q EXCEPT !.live = FALSE] \in Poll /\ [q EXCEPT !.live = FALSE].live = FALSE
    BY DEF HeaderPart, HeaderTypes, Poll
  <2>3. \A q \in old : q \in Poll /\ ~q.live
    BY <2>2
  <2>4. \A q \in new : q \in Poll /\ u # Nobody /\ q.user = cookie'
    <3>1. \A k \in Kinds : LET q == [kind |-> k, user |-> cookie', live |-> TRUE]
                           IN q \in Poll /\ q.user = cookie'
      BY DEF Poll
    <3>2. CASE u = Nobody
      BY <3>2
    <3>3. CASE u # Nobody
      BY <3>1, <3>3
    <3> QED BY <3>2, <3>3
  <2> HIDE DEF old, new
  <2>5. HeaderTypes'
    BY <1>1, <2>1, <2>3, <2>4 DEF HeaderPart, HeaderTypes
  <2>6. NoticesNameProjects'
    BY <2>1 DEF HeaderPart, HeaderInv, NoticesNameProjects
  <2>7. HeaderFits'
    BY <1>1, <2>1, <2>3, <2>4 DEF HeaderFits
  <2>8. NoticesAreMine'
    BY <1>1, <2>1 DEF HeaderPart, HeaderInv, HeaderFits, NoticesAreMine
  <2> QED BY <2>5, <2>6, <2>7, <2>8 DEF HeaderPart, HeaderInv
<1> QED BY <1>2, <1>3

\* A session that arrives, a login and a logout.
LEMMA SessionsKeep == HeaderPart /\ (SessionArrives \/ Login \/ LoggedOut) => HeaderPart'
<1> SUFFICES ASSUME HeaderPart PROVE SessionArrives \/ Login \/ LoggedOut => HeaderPart'
  OBVIOUS
<1>1. /\ cookie \in Visitors /\ asked \in Visitors \cup {NotAsked} /\ Nobody \in Visitors
      /\ Users \subseteq Visitors
  BY DEF HeaderPart, HeaderTypes, Visitors
<1>2. ASSUME SessionArrives PROVE HeaderPart'
  <2>1. cookie' = cookie /\ asked' = NotAsked /\ notices' = notices /\ asked \in Visitors
    BY <1>1, <1>2 DEF SessionArrives
  <2>2. Enter(asked) \/ Enter(Nobody)
    BY <1>2 DEF SessionArrives
  <2> QED BY <1>1, <2>1, <2>2, EnterKeeps
<1>3. ASSUME Login PROVE HeaderPart'
  <2>1. PICK u \in Users : cookie' = u /\ Enter(u) /\ asked' = asked /\ notices' = notices
    BY <1>3 DEF Login
  <2> QED BY <1>1, <2>1, EnterKeeps
<1>4. ASSUME LoggedOut PROVE HeaderPart'
  <2>1. cookie' \in Visitors /\ Enter(Nobody) /\ asked' = asked /\ notices' = notices
    BY <1>1, <1>4 DEF LoggedOut
  <2> QED BY <1>1, <2>1, EnterKeeps
<1> QED BY <1>2, <1>3, <1>4

LEMMA PollsKeep == HeaderPart /\ (OtherTab \/ Tick \/ \E q \in polls : PollArrives(q)) => HeaderPart'
<1> SUFFICES ASSUME HeaderPart PROVE OtherTab \/ Tick \/ (\E q \in polls : PollArrives(q)) => HeaderPart'
  OBVIOUS
<1> USE DEF HeaderPart, HeaderTypes, HeaderInv, NoticesNameProjects, HeaderFits, NoticesAreMine
<1>1. ASSUME OtherTab PROVE HeaderPart'
  BY <1>1 DEF OtherTab, header
<1>2. ASSUME Tick PROVE HeaderPart'
  <2>1. PICK k \in Kinds : polls' = polls \cup {[kind |-> k, user |-> cookie, live |-> TRUE]}
    BY <1>2 DEF Tick
  <2>2. session # Nobody /\ UNCHANGED <<cookie, session, asked, mixed, notices, bell, badge>>
    BY <1>2 DEF Tick, account
  <2>3. [kind |-> k, user |-> cookie, live |-> TRUE] \in Poll
    BY DEF Poll
  <2>4. \A q \in polls' : q \in polls \/ q.user = cookie
    BY <2>1
  <2> QED BY <2>1, <2>2, <2>3, <2>4
<1>3. ASSUME NEW q \in polls, PollArrives(q) PROVE HeaderPart'
  <2>1. /\ UNCHANGED <<cookie, session, asked, mixed, notices>>
        /\ polls' = polls \ {q}
        /\ bell' = bell \/ (q.live /\ bell' = Mine(q.user))
        /\ badge' = badge \/ (q.live /\ q.user # Nobody /\ badge' = Unread[q.user])
    BY <1>3 DEF PollArrives, account
  <2>2. q.live => session # Nobody /\ (~mixed => q.user = session)
    OBVIOUS
  <2> QED BY <2>1, <2>2 DEF Mine
<1> QED BY <1>1, <1>2, <1>3

\* Whoever is told, the notice is about a project.
LEMMA ToldFits ==
  ASSUME HeaderPart, NEW p \in Ids, NEW actor
  PROVE  /\ Told(Owner[p], actor, p) \in SUBSET Notice
         /\ IsFiniteSet(Told(Owner[p], actor, p))
         /\ \A n \in Told(Owner[p], actor, p) : n.project \in Ids
<1> DEFINE m == [n |-> Cardinality(notices) + 1, user |-> Owner[p], project |-> p, read |-> FALSE]
<1>1. IsFiniteSet(notices) /\ notices \subseteq Notice /\ \A n \in notices : n.project \in Ids
  BY DEF HeaderPart, HeaderTypes, HeaderInv, NoticesNameProjects
<1>2. Cardinality(notices) \in Nat /\ IsFiniteSet(notices \cup {m})
  BY <1>1, FS_CardinalityType, FS_AddElement
<1>3. m \in Notice /\ m.project \in Ids
  BY <1>2, Accounts DEF Notice
<1> QED BY <1>1, <1>2, <1>3 DEF Told

LEMMA NoticesKeep ==
  ASSUME HeaderPart, notices' \in SUBSET Notice, IsFiniteSet(notices'),
         \A n \in notices' : n.project \in Ids,
         UNCHANGED <<cookie, session, asked, mixed, bell, badge, polls>>
  PROVE  HeaderPart'
BY DEF HeaderPart, HeaderTypes, HeaderInv, NoticesNameProjects, HeaderFits, NoticesAreMine

LEMMA MarksKeep == HeaderPart /\ (OpenBell \/ MarkServed) => HeaderPart'
<1> SUFFICES ASSUME HeaderPart PROVE OpenBell \/ MarkServed => HeaderPart'
  OBVIOUS
<1>1. /\ notices \in SUBSET Notice /\ bell \in SUBSET Notice /\ IsFiniteSet(notices)
      /\ \A n \in notices \cup bell : n.project \in Ids
  BY DEF HeaderPart, HeaderTypes, HeaderInv, NoticesNameProjects
<1>2. \A n \in Notice : /\ [n EXCEPT !.read = TRUE] \in Notice
                        /\ [n EXCEPT !.read = TRUE].user = n.user
                        /\ [n EXCEPT !.read = TRUE].project = n.project
  BY DEF Notice
<1>3. ASSUME OpenBell PROVE HeaderPart'
  <2>1. UNCHANGED <<cookie, session, asked, mixed, notices, badge, polls>>
    BY <1>3 DEF OpenBell, account
  <2>2. bell' = {[n EXCEPT !.read = TRUE] : n \in bell}
    BY <1>3 DEF OpenBell, MarkAllRead
  <2>3. \A r \in bell' : r \in Notice /\ \E n \in bell : r.user = n.user /\ r.project = n.project
    <3> TAKE r \in bell'
    <3>1. PICK n \in bell : r = [n EXCEPT !.read = TRUE]
      BY <2>2
    <3>2. n \in Notice
      BY <1>1
    <3> QED BY <3>1, <3>2 DEF Notice
  <2>4. bell = {} => bell' = {}
    BY <2>2
  <2> QED
    BY <2>1, <2>3, <2>4 DEF HeaderPart, HeaderTypes, HeaderInv, NoticesNameProjects, HeaderFits, NoticesAreMine
<1>4. ASSUME MarkServed PROVE HeaderPart'
  <2>1. UNCHANGED <<cookie, session, asked, mixed, bell, badge, polls>>
    BY <1>4 DEF MarkServed, account
  <2>2. PICK u \in marks :
          notices' = {IF n.user = u THEN [n EXCEPT !.read = TRUE] ELSE n : n \in notices}
    BY <1>4 DEF MarkServed
  <2>3. IsFiniteSet(notices')
    <3> DEFINE f == [n \in notices |-> IF n.user = u THEN [n EXCEPT !.read = TRUE] ELSE n]
    <3>1. f \in Surjection(notices, notices')
      BY <2>2 DEF Surjection
    <3> QED BY <1>1, <3>1, FS_Surjection
  <2>4. \A r \in notices' :
          \E n \in notices : r = n \/ r = [n EXCEPT !.read = TRUE]
    BY <2>2
  <2>5. \A r \in notices' : r \in Notice /\ r.project \in Ids
    BY <1>1, <1>2, <2>4
  <2> QED BY <2>1, <2>3, <2>5, NoticesKeep
<1> QED BY <1>3, <1>4

(* What is done on the page leaves the header alone, but for what is        *)
(* announced to the owner of a project.                                     *)
LEMMA ClicksKeepHeader == Click => UNCHANGED headerVars
<1> USE DEF headerVars, bellVars, account, header
<1>1. OpenById \/ CloseDetail \/ GoHome \/ Travel => UNCHANGED headerVars
  BY DEF OpenById, CloseDetail, GoHome, Travel
<1>2. ASSUME NEW f \in Forms, Type(f) \/ Submit(f) PROVE UNCHANGED headerVars
  BY <1>2 DEF Type, Submit, Send
<1>3. ReplyTo \/ DetailLogin \/ Create \/ Shortcut \/ CloseSubmit \/ Verify => UNCHANGED headerVars
  BY DEF ReplyTo, DetailLogin, Create, Shortcut, OpenSubmit, CloseSubmit, Verify
<1>4. OpenPreview \/ ClosePreview \/ Report => UNCHANGED headerVars
  BY DEF OpenPreview, ClosePreview, Report
<1>5. ASSUME NEW k \in ActKinds, Act(k) PROVE UNCHANGED headerVars
  BY <1>5 DEF Act
<1> QED BY <1>1, <1>2, <1>3, <1>4, <1>5 DEF Click

LEMMA AnswersKeepHeader == HeaderPart /\ PagePart /\ Answer => HeaderPart'
<1> SUFFICES ASSUME HeaderPart, PagePart, Answer PROVE HeaderPart'
  OBVIOUS
<1> USE DEF headerVars, bellVars, account, header
<1>1. ASSUME NEW w \in waits, SlotArrives(w) \/ SlotFails(w) PROVE HeaderPart'
  BY <1>1, HeaderFrame DEF SlotArrives, SlotFails
<1>2. ASSUME NEW h \in posts, Serve(h) PROVE HeaderPart'
  <2>1. UNCHANGED <<cookie, session, asked, mixed, bell, badge, polls>>
    BY <1>2 DEF Serve
  <2>2. CASE Accepts(h) /\ h.form = "review"
    <3>1. notices' = Told(Owner[h.project], h.user, h.project)
      BY <1>2, <2>2 DEF Serve
    <3>2. h.project \in Ids
      BY <2>2 DEF PagePart, AnswersNameReviews
    <3> QED BY <2>1, <3>1, <3>2, ToldFits, NoticesKeep
  <2>3. CASE ~(Accepts(h) /\ h.form = "review")
    <3>1. notices' = notices
      BY <1>2, <2>3 DEF Serve
    <3> QED BY <2>1, <3>1, HeaderFrame
  <2> QED BY <2>2, <2>3
<1>3. ASSUME NEW h \in posts, Answered(h) \/ Finished(h) \/ Refused(h) PROVE HeaderPart'
  BY <1>3, HeaderFrame DEF Answered, Finished, Refused
<1>4. ASSUME NEW h \in acts, ActAnswered(h) PROVE HeaderPart'
  <2>1. UNCHANGED <<cookie, session, asked, mixed, bell, badge, polls>> /\ notices' \in Announced(h)
    BY <1>4 DEF ActAnswered
  <2>2. h.project \in Ids
    BY DEF PagePart, PageTypes, Request
  <2>3. notices' = notices \/ \E a : notices' = Told(Owner[h.project], a, h.project)
    BY <2>1 DEF Announced
  <2>4. CASE notices' = notices
    BY <2>1, <2>4, HeaderFrame
  <2>5. ASSUME NEW a, notices' = Told(Owner[h.project], a, h.project) PROVE HeaderPart'
    BY <2>1, <2>2, <2>5, ToldFits, NoticesKeep
  <2> QED BY <2>3, <2>4, <2>5
<1>5. ASSUME NEW h \in acts, ActListed(h) \/ ActivityArrives(h) PROVE HeaderPart'
  BY <1>5, HeaderFrame DEF ActListed, ActivityArrives
<1>6. RowArrives \/ ListArrives => HeaderPart'
  BY HeaderFrame DEF RowArrives, ListArrives
<1> QED BY <1>1, <1>2, <1>3, <1>4, <1>5, <1>6 DEF Answer

LEMMA AccidentsKeepHeader == Accident \/ Verified \/ Forget => UNCHANGED headerVars
<1> USE DEF headerVars, bellVars, account, header
<1>1. Accident => UNCHANGED headerVars
  BY DEF Accident, SlotFails, GivenUp, ActFails, RowFails, MarketMoves
<1>2. Verified \/ Forget => UNCHANGED headerVars
  BY DEF Verified, Forget
<1> QED BY <1>1, <1>2

\* Every step keeps the part of the header.
LEMMA HeaderStep == HeaderPart /\ PagePart /\ Next => HeaderPart'
<1> SUFFICES ASSUME HeaderPart, PagePart, Next PROVE HeaderPart'
  OBVIOUS
<1>1. ASSUME Click PROVE HeaderPart'
  BY <1>1, ClicksKeepHeader, HeaderFrame
<1>2. ASSUME Header PROVE HeaderPart'
  <2>1. OpenLogin \/ CloseLogin \/ Logout => UNCHANGED headerVars
    BY DEF OpenLogin, CloseLogin, Logout, headerVars, header
  <2> QED BY <1>2, <2>1, HeaderFrame, SessionsKeep, MarksKeep DEF Header
<1> QED
  BY <1>1, <1>2, AnswersKeepHeader, AccidentsKeepHeader, HeaderFrame, SessionsKeep, PollsKeep,
     MarksKeep DEF Next, Step

------------------------------------------------------------------------------
(* The forms.                                                               *)

LEMMA FormsAlone ==
  ASSUME FormsPart
  PROVE  /\ forms \in [Forms -> Form] /\ posts \in SUBSET Post /\ typed \in Nat
         /\ \A f \in Forms : forms[f].text \in Texts /\ forms[f].sending \in BOOLEAN
         /\ \A h \in posts : h.form \in Forms /\ h.text \in 1 .. MaxTyped /\ h.at \in Stages
         /\ \A t \in 1 .. MaxTyped : saved[t] \in Nat
         /\ MaxTyped \in Nat
BY DetailAssumption DEF FormsPart, FormsTypes, Form, Post, Texts

LEMMA TypeKeeps == ASSUME FormsPart, NEW f \in Forms, Type(f) PROVE FormsPart'
<1>1. /\ typed < MaxTyped /\ typed' = typed + 1
      /\ forms' = [forms EXCEPT ![f].text = typed']
      /\ UNCHANGED <<posts, lost, saved>>
  BY DEF Type, composer, tables
<1>2. \A g \in Forms : /\ forms'[g].text = IF g = f THEN typed + 1 ELSE forms[g].text
                       /\ forms'[g].sending = forms[g].sending
  BY <1>1, FormsAlone DEF Form
<1>3. typed' \in Texts /\ forms' \in [Forms -> Form]
  BY <1>1, FormsAlone DEF Texts, Form
<1>4. FormsTypes'
  BY <1>1, <1>3 DEF FormsPart, FormsTypes
<1>5. OneRequestEach'
  BY <1>1, <1>2, FormsAlone DEF FormsPart, FormsInv, OneRequestEach, Waited
<1>6. TextsAreNew'
  BY <1>1, <1>2, FormsAlone DEF FormsPart, FormsInv, TextsAreNew, Texts
<1>7. saved[typed + 1] = 0 /\ typed + 1 \in 1 .. MaxTyped
  BY <1>1, FormsAlone DEF FormsPart, FormsInv, TextsAreNew
<1>8. SavedTextsLeave'
  <2>1. \A g \in Forms : Pending(g) /\ g # f => Pending(g)'
    BY <1>1, <1>2 DEF Pending
  <2> QED BY <1>1, <1>2, <1>7, <2>1 DEF FormsPart, FormsInv, SavedTextsLeave
<1>9. DraftsSavedOnce'
  BY <1>1 DEF FormsPart, FormsInv, DraftsSavedOnce
<1> QED BY <1>4, <1>5, <1>6, <1>8, <1>9 DEF FormsPart, FormsInv

\* The page's login button empties the review.
LEMMA LoginKeeps == FormsPart /\ DetailLogin => FormsPart'
<1> SUFFICES ASSUME FormsPart, DetailLogin PROVE FormsPart'
  OBVIOUS
<1>1. /\ forms' = [forms EXCEPT !["review"].text = 0]
      /\ UNCHANGED <<typed, posts, lost, saved>>
  BY DEF DetailLogin, tables
<1>2. \A g \in Forms : /\ forms'[g].text = IF g = "review" THEN 0 ELSE forms[g].text
                       /\ forms'[g].sending = forms[g].sending
  BY <1>1, FormsAlone DEF Form
<1>3. forms' \in [Forms -> Form]
  <2>1. "review" \in Forms /\ forms["review"] \in Form /\ 0 \in Texts
    BY FormsAlone DEF Texts, Forms
  <2>2. [forms["review"] EXCEPT !.text = 0] \in Form
    BY <2>1 DEF Form
  <2> QED BY <1>1, <2>1, <2>2, FormsAlone
<1>4. FormsTypes'
  BY <1>1, <1>3 DEF FormsPart, FormsTypes
<1>5. OneRequestEach'
  BY <1>1, <1>2, FormsAlone DEF FormsPart, FormsInv, OneRequestEach, Waited
<1>6. TextsAreNew'
  BY <1>1, <1>2, FormsAlone DEF FormsPart, FormsInv, TextsAreNew, Texts
<1>7. SavedTextsLeave'
  <2>1. \A g \in Forms : Pending(g) /\ g # "review" => Pending(g)'
    BY <1>1, <1>2 DEF Pending
  <2> QED BY <1>1, <1>2, <2>1 DEF FormsPart, FormsInv, SavedTextsLeave
<1>8. DraftsSavedOnce'
  BY <1>1 DEF FormsPart, FormsInv, DraftsSavedOnce
<1> QED BY <1>4, <1>5, <1>6, <1>7, <1>8 DEF FormsPart, FormsInv

LEMMA SubmitKeeps ==
  ASSUME FormsPart, HeaderPart, PagePart, NEW f \in Forms, Submit(f)
  PROVE  FormsPart'
<1> DEFINE h == [form |-> f, at |-> "sent", project |-> page, text |-> forms[f].text,
                 parent |-> IF f = "review" THEN replyTo ELSE 0, user |-> cookie, review |-> 0]
<1>1. /\ forms[f].text # 0 /\ ~forms[f].sending
      /\ forms' = [forms EXCEPT ![f].sending = TRUE]
      /\ posts' = posts \cup {h}
      /\ UNCHANGED <<typed, lost, saved>>
  BY DEF Submit, MaySend, Send, tables
<1>2. \A g \in Forms : /\ forms'[g].text = forms[g].text
                       /\ forms'[g].sending = (g = f \/ forms[g].sending)
  BY <1>1, FormsAlone DEF Form
<1>3. forms' \in [Forms -> Form]
  BY <1>1, FormsAlone DEF Form
<1>4. h \in Post /\ h.form = f /\ h.text = forms[f].text /\ h.at = "sent"
  <2>1. forms[f].text \in 1 .. MaxTyped
    BY <1>1, FormsAlone DEF Texts
  <2>2. page \in Pages /\ replyTo \in Nat /\ cookie \in Visitors
    BY DEF PagePart, PageTypes, HeaderPart, HeaderTypes
  <2> QED BY <2>1, <2>2 DEF Post, Stages
<1> HIDE DEF h
<1>5. \A k \in posts : Waited(k) => k.form # f
  BY <1>1 DEF FormsPart, FormsInv, OneRequestEach
<1>6. FormsTypes'
  BY <1>1, <1>3, <1>4 DEF FormsPart, FormsTypes
<1>7. OneRequestEach'
  <2>1. \A k \in posts' : k \in posts \/ k = h
    BY <1>1
  <2>2. \A k \in posts : Waited(k) => forms'[k.form].sending
    BY <1>2, FormsAlone DEF FormsPart, FormsInv, OneRequestEach
  <2>3. forms'[h.form].sending
    BY <1>2, <1>4
  <2>4. \A k, l \in posts : Waited(k) /\ Waited(l) /\ k.form = l.form => k = l
    BY DEF FormsPart, FormsInv, OneRequestEach
  <2> QED BY <1>4, <1>5, <2>1, <2>2, <2>3, <2>4 DEF OneRequestEach, Waited
<1>8. TextsAreNew'
  <2>1. \A k \in posts' : k \in posts \/ k = h
    BY <1>1
  <2>2. \A k \in posts : k.text = h.text => k.form = f
    BY <1>4 DEF FormsPart, FormsInv, TextsAreNew
  <2> QED BY <1>1, <1>2, <1>4, <2>1, <2>2, FormsAlone DEF FormsPart, FormsInv, TextsAreNew
<1>9. SavedTextsLeave'
  <2>1. \A g \in Forms : Pending(g) => Pending(g)'
    BY <1>1, <1>2 DEF Pending
  <2>2. h.text \notin lost => saved[h.text] = 0
    <3>1. ~Pending(f)
      BY <1>5 DEF Pending, Waited
    <3> QED BY <1>1, <1>4, <3>1 DEF FormsPart, FormsInv, SavedTextsLeave
  <2>3. \A k \in posts' : k \in posts \/ k = h
    BY <1>1
  <2> QED BY <1>1, <1>2, <1>4, <2>1, <2>2, <2>3 DEF FormsPart, FormsInv, SavedTextsLeave
<1>10. DraftsSavedOnce'
  BY <1>1 DEF FormsPart, FormsInv, DraftsSavedOnce
<1> QED BY <1>6, <1>7, <1>8, <1>9, <1>10 DEF FormsPart, FormsInv

\* A request that moves to another stage: only its form may be sent again, and
\* only when nothing is waited for any more.
LEMMA Replaced ==
  ASSUME FormsPart, NEW h \in posts, Waited(h), NEW k \in Post, k.form = h.form, k.text = h.text,
         posts' = (posts \ {h}) \cup {k}, typed' = typed,
         \A g \in Forms :
           /\ forms'[g].text = forms[g].text
           /\ forms'[g].sending = forms[g].sending \/ (g = h.form /\ ~Waited(k)),
         \A t \in 1 .. MaxTyped : t > typed => saved'[t] = 0
  PROVE  OneRequestEach' /\ TextsAreNew'
<1>1. \A x \in posts' : x = k \/ (x \in posts /\ x # h)
  OBVIOUS
<1>2. \A x \in posts : Waited(x) /\ x # h => x.form # h.form /\ forms[x.form].sending
  BY DEF FormsPart, FormsInv, OneRequestEach
<1>3. \A x \in posts : Waited(x) /\ x # h => forms'[x.form].sending
  BY <1>2, FormsAlone
<1>4. Waited(k) => forms'[k.form].sending
  BY FormsAlone DEF FormsPart, FormsInv, OneRequestEach
<1>5. \A x, y \in posts : Waited(x) /\ Waited(y) /\ x.form = y.form => x = y
  BY DEF FormsPart, FormsInv, OneRequestEach
<1>6. OneRequestEach'
  BY <1>1, <1>2, <1>3, <1>4, <1>5 DEF OneRequestEach, Waited
<1>7. \A x \in posts' : \E y \in posts : x.form = y.form /\ x.text = y.text
  BY <1>1
<1>8. TextsAreNew'
  BY <1>7 DEF FormsPart, FormsInv, TextsAreNew
<1> QED BY <1>6, <1>8

\* A request that is over: its form may be emptied.
LEMMA Dropped ==
  ASSUME FormsPart, NEW h \in posts, posts' = posts \ {h}, typed' = typed,
         \A g \in Forms :
           /\ forms'[g].text \in {forms[g].text, 0}
           /\ forms'[g].sending = forms[g].sending \/ (g = h.form /\ Waited(h)),
         \A t \in 1 .. MaxTyped : t > typed => saved'[t] = 0
  PROVE  OneRequestEach' /\ TextsAreNew'
<1>1. \A x \in posts' : x \in posts /\ x # h
  OBVIOUS
<1>2. \A x \in posts : Waited(x) => forms[x.form].sending
  BY DEF FormsPart, FormsInv, OneRequestEach
<1>3. \A x, y \in posts : Waited(x) /\ Waited(y) /\ x.form = y.form => x = y
  BY DEF FormsPart, FormsInv, OneRequestEach
<1>4. \A x \in posts' : Waited(x) => forms'[x.form].sending
  BY <1>1, <1>2, <1>3, FormsAlone
<1>5. OneRequestEach'
  BY <1>1, <1>3, <1>4 DEF OneRequestEach, Waited
<1>6. TextsAreNew'
  <2>1. \A g \in Forms : forms'[g].text <= typed
    BY FormsAlone DEF FormsPart, FormsInv, TextsAreNew
  <2>2. \A f, g \in Forms : forms'[f].text # 0 /\ forms'[f].text = forms'[g].text => f = g
    BY DEF FormsPart, FormsInv, TextsAreNew
  <2>3. \A x \in posts', g \in Forms : forms'[g].text = x.text => g = x.form
    BY FormsAlone DEF FormsPart, FormsInv, TextsAreNew
  <2> QED BY <1>1, <2>1, <2>2, <2>3 DEF FormsPart, FormsInv, TextsAreNew
<1> QED BY <1>5, <1>6

LEMMA KeptPost ==
  ASSUME PagePart, NEW h \in Post
  PROVE  /\ Kept(h) \in Post /\ Kept(h).form = h.form /\ Kept(h).text = h.text
         /\ Kept(h).at = "saved" /\ Kept(h).project = h.project
         /\ h.form = "review" => Kept(h).review = NextReview
<1>1. NextReview \in Nat
  BY FS_CardinalityType DEF PagePart, ReviewsNumbered, NextReview
<1>2. (IF h.form = "review" THEN NextReview ELSE 0) \in Nat
  BY <1>1
<1> QED BY <1>2 DEF Kept, Post, Stages

LEMMA ServeKeeps ==
  ASSUME FormsPart, PagePart, NEW h \in posts, Serve(h)
  PROVE  FormsPart'
<1>1. /\ h \in Post /\ h.form \in Forms /\ h.text \in 1 .. MaxTyped
      /\ h.at \in {"sent", "orphan"} /\ h.text <= typed
      /\ UNCHANGED <<forms, typed, lost>>
  BY FormsAlone DEF Serve, FormsPart, FormsInv, TextsAreNew, FormsTypes
<1>2. saved' = IF Accepts(h) THEN [saved EXCEPT ![h.text] = @ + 1] ELSE saved
  BY DEF Serve
<1>3. /\ saved' \in [1 .. MaxTyped -> Nat]
      /\ \A t \in 1 .. MaxTyped : t # h.text => saved'[t] = saved[t]
      /\ saved'[h.text] \in {saved[h.text], saved[h.text] + 1}
  BY <1>1, <1>2 DEF FormsPart, FormsTypes
<1>4. \A t \in 1 .. MaxTyped : t > typed => saved'[t] = 0
  BY <1>1, <1>3, FormsAlone DEF FormsPart, FormsInv, TextsAreNew
<1>5. CASE h.at = "orphan"
  <2>1. posts' = posts \ {h} /\ h.text \in lost
    BY <1>5 DEF Serve, FormsPart, FormsInv, SavedTextsLeave
  <2>2. OneRequestEach' /\ TextsAreNew'
    BY <1>1, <1>4, <2>1, Dropped
  <2>3. SavedTextsLeave'
    <3>1. \A g \in Forms : Pending(g) => Pending(g)'
      BY <1>1, <1>5, <2>1 DEF Pending
    <3> QED
      BY <1>1, <1>3, <2>1, <3>1, FormsAlone DEF FormsPart, FormsInv, SavedTextsLeave, Texts
  <2>4. DraftsSavedOnce' /\ FormsTypes'
    BY <1>1, <1>3, <2>1 DEF FormsPart, FormsInv, DraftsSavedOnce, FormsTypes
  <2> QED BY <2>2, <2>3, <2>4 DEF FormsPart, FormsInv
<1>6. CASE h.at = "sent"
  <2> DEFINE k == IF Accepts(h) THEN Kept(h) ELSE [h EXCEPT !.at = "refused"]
  <2>1. posts' = (posts \ {h}) \cup {k}
    BY <1>6 DEF Serve, Moved
  <2>2. /\ k \in Post /\ k.form = h.form /\ k.text = h.text
        /\ k.at = IF Accepts(h) THEN "saved" ELSE "refused"
    <3>1. CASE Accepts(h)
      BY <1>1, <3>1, KeptPost
    <3>2. CASE ~Accepts(h)
      BY <1>1, <3>2 DEF Post, Stages
    <3> QED BY <3>1, <3>2
  <2> HIDE DEF k
  <2>3. Waited(h) /\ Waited(k)
    BY <1>6, <2>2 DEF Waited
  <2>4. OneRequestEach' /\ TextsAreNew'
    BY <1>1, <1>4, <2>1, <2>2, <2>3, Replaced
  <2>5. h.text \notin lost => saved[h.text] = 0
    BY <1>6 DEF FormsPart, FormsInv, SavedTextsLeave
  <2>6. SavedTextsLeave'
    <3>1. ASSUME NEW x \in posts', x.at = "orphan" PROVE x.text \in lost'
      BY <1>1, <2>1, <2>2, <3>1 DEF FormsPart, FormsInv, SavedTextsLeave
    <3>2. ASSUME NEW x \in posts', x.at = "sent", x.text \notin lost' PROVE saved'[x.text] = 0
      <4>1. x \in posts /\ x # h
        BY <2>1, <2>2, <3>2
      <4>2. x.text # h.text
        BY <2>3, <3>2, <4>1 DEF FormsPart, FormsInv, TextsAreNew, OneRequestEach, Waited
      <4> QED BY <1>1, <1>3, <3>2, <4>1, <4>2, FormsAlone DEF FormsPart, FormsInv, SavedTextsLeave
    <3>3. ASSUME NEW g \in Forms, forms'[g].text # 0, forms'[g].text \notin lost',
                 saved'[forms'[g].text] # 0
          PROVE  Pending(g)'
      <4>1. forms[g].text \in 1 .. MaxTyped
        BY <1>1, <3>3, FormsAlone DEF Texts
      <4>2. CASE forms[g].text = h.text
        <5>1. g = h.form
          BY <4>2 DEF FormsPart, FormsInv, TextsAreNew
        <5>2. Accepts(h)
          BY <1>1, <1>2, <2>5, <3>3, <4>2
        <5> QED BY <1>1, <2>1, <2>2, <4>2, <5>1, <5>2 DEF Pending
      <4>3. CASE forms[g].text # h.text
        <5>1. Pending(g)
          BY <1>1, <1>3, <3>3, <4>1, <4>3 DEF FormsPart, FormsInv, SavedTextsLeave
        <5> QED BY <1>1, <1>6, <2>1, <5>1 DEF Pending
      <4> QED BY <4>2, <4>3
    <3> QED BY <3>1, <3>2, <3>3 DEF SavedTextsLeave
  <2>7. DraftsSavedOnce'
    BY <1>1, <1>3, <2>5 DEF FormsPart, FormsInv, DraftsSavedOnce
  <2>8. FormsTypes'
    BY <1>1, <1>3, <2>1, <2>2 DEF FormsPart, FormsTypes
  <2> QED BY <2>4, <2>6, <2>7, <2>8 DEF FormsPart, FormsInv
<1> QED BY <1>1, <1>5, <1>6

\* The list is asked for again before the form is emptied.
LEMMA LaterKeeps ==
  ASSUME FormsPart, NEW h \in posts, h.at = "saved", posts' = Moved(posts, h, "snapshot"),
         UNCHANGED <<forms, typed, lost, saved>>
  PROVE  FormsPart'
<1> DEFINE k == [h EXCEPT !.at = "snapshot"]
<1>1. h \in Post
  BY DEF FormsPart, FormsTypes
<1>2. k \in Post /\ k.form = h.form /\ k.text = h.text /\ k.at = "snapshot"
  BY <1>1 DEF Post, Stages
<1>3. posts' = (posts \ {h}) \cup {k}
  BY DEF Moved
<1> HIDE DEF k
<1>4. OneRequestEach' /\ TextsAreNew'
  <2>1. \A t \in 1 .. MaxTyped : t > typed => saved'[t] = 0
    BY DEF FormsPart, FormsInv, TextsAreNew
  <2> QED BY <1>2, <1>3, <2>1, Replaced DEF Waited
<1>5. SavedTextsLeave'
  <2>1. \A g \in Forms : Pending(g) => Pending(g)'
    BY <1>2, <1>3 DEF Pending
  <2> QED BY <1>2, <1>3, <2>1 DEF FormsPart, FormsInv, SavedTextsLeave
<1>6. DraftsSavedOnce' /\ FormsTypes'
  BY <1>2, <1>3 DEF FormsPart, FormsInv, DraftsSavedOnce, FormsTypes
<1> QED BY <1>4, <1>5, <1>6 DEF FormsPart, FormsInv

\* An answer that has been dealt with empties its form.
LEMMA EmptiedKeeps ==
  ASSUME FormsPart, NEW h \in posts, h.at # "orphan", posts' = posts \ {h},
         forms' = [forms EXCEPT ![h.form] = Blank], UNCHANGED <<typed, lost, saved>>
  PROVE  FormsPart'
<1>1. h.form \in Forms
  BY FormsAlone
<1>2. \A g \in Forms : forms'[g] = IF g = h.form THEN Blank ELSE forms[g]
  BY FormsAlone
<1>3. Blank.text = 0 /\ Blank.sending = FALSE /\ Blank \in Form
  BY FormsAlone DEF Blank, Form, Texts
<1>4. \A g \in Forms :
        /\ g = h.form => forms'[g].text = 0 /\ forms'[g].sending = FALSE
        /\ g # h.form => forms'[g] = forms[g]
  <2> TAKE g \in Forms
  <2>1. CASE g = h.form
    <3>1. forms'[g] = Blank
      BY <1>2, <2>1
    <3> QED BY <1>3, <2>1, <3>1
  <2>2. CASE g # h.form
    BY <1>2, <2>2
  <2> QED BY <2>1, <2>2
<1>5. OneRequestEach' /\ TextsAreNew'
  <2>1. \A t \in 1 .. MaxTyped : t > typed => saved'[t] = 0
    BY DEF FormsPart, FormsInv, TextsAreNew
  <2> QED BY <1>4, <2>1, Dropped DEF Waited
<1>6. SavedTextsLeave'
  <2>1. \A g \in Forms : Pending(g) /\ g # h.form => Pending(g)'
    BY <1>4 DEF Pending
  <2>2. \A g \in Forms : forms'[g].text # 0 => g # h.form /\ forms'[g].text = forms[g].text
    BY <1>4
  <2>3. \A x \in posts' : x \in posts
    OBVIOUS
  <2> QED BY <2>1, <2>2, <2>3 DEF FormsPart, FormsInv, SavedTextsLeave
<1>7. DraftsSavedOnce' /\ FormsTypes'
  BY <1>3, FormsAlone DEF FormsPart, FormsInv, DraftsSavedOnce, FormsTypes
<1> QED BY <1>5, <1>6, <1>7 DEF FormsPart, FormsInv

LEMMA RefusedKeeps ==
  ASSUME FormsPart, NEW h \in posts, Refused(h)
  PROVE  FormsPart'
<1>1. /\ h.at = "refused" /\ posts' = posts \ {h}
      /\ forms' = [forms EXCEPT ![h.form].sending = FALSE]
      /\ UNCHANGED <<typed, lost, saved>>
  BY DEF Refused, tables
<1>2. h.form \in Forms /\ forms' \in [Forms -> Form]
  BY <1>1, FormsAlone DEF Form
<1>3. \A g \in Forms :
        /\ forms'[g].text = forms[g].text
        /\ forms'[g].sending = IF g = h.form THEN FALSE ELSE forms[g].sending
  BY <1>1, FormsAlone DEF Form
<1>4. OneRequestEach' /\ TextsAreNew'
  <2>1. \A t \in 1 .. MaxTyped : t > typed => saved'[t] = 0
    BY <1>1 DEF FormsPart, FormsInv, TextsAreNew
  <2> QED BY <1>1, <1>3, <2>1, Dropped DEF Waited
<1>5. SavedTextsLeave'
  <2>1. \A g \in Forms : Pending(g) => Pending(g)'
    BY <1>1, <1>3 DEF Pending
  <2> QED BY <1>1, <1>3, <2>1 DEF FormsPart, FormsInv, SavedTextsLeave
<1>6. DraftsSavedOnce' /\ FormsTypes'
  BY <1>1, <1>2 DEF FormsPart, FormsInv, DraftsSavedOnce, FormsTypes
<1> QED BY <1>4, <1>5, <1>6 DEF FormsPart, FormsInv

LEMMA GivenUpKeeps ==
  ASSUME FormsPart, NEW h \in posts, GivenUp(h)
  PROVE  FormsPart'
<1> DEFINE k == [h EXCEPT !.at = "orphan"]
<1>1. /\ h.at \in {"sent", "saved"} /\ lost' = lost \cup {h.text}
      /\ posts' = IF h.at = "sent" THEN (posts \ {h}) \cup {k} ELSE posts \ {h}
      /\ forms' = [forms EXCEPT ![h.form].sending = FALSE]
      /\ UNCHANGED <<typed, saved>>
  BY DEF GivenUp, tables, Moved
<1>2. k \in Post /\ k.form = h.form /\ k.text = h.text /\ k.at = "orphan"
  <2>1. h \in Post
    BY DEF FormsPart, FormsTypes
  <2> QED BY <2>1 DEF Post, Stages
<1> HIDE DEF k
<1>3. h.form \in Forms /\ forms' \in [Forms -> Form]
  BY <1>1, FormsAlone DEF Form
<1>4. \A g \in Forms :
        /\ forms'[g].text = forms[g].text
        /\ forms'[g].sending = IF g = h.form THEN FALSE ELSE forms[g].sending
  BY <1>1, FormsAlone DEF Form
<1>5. OneRequestEach' /\ TextsAreNew'
  <2>1. \A t \in 1 .. MaxTyped : t > typed => saved'[t] = 0
    BY <1>1 DEF FormsPart, FormsInv, TextsAreNew
  <2>2. CASE h.at = "sent"
    BY <1>1, <1>2, <1>4, <2>1, <2>2, Replaced DEF Waited
  <2>3. CASE h.at = "saved"
    BY <1>1, <1>4, <2>1, <2>3, Dropped DEF Waited
  <2> QED BY <1>1, <2>2, <2>3
<1>6. SavedTextsLeave'
  <2>1. \A x \in posts' : x = k \/ (x \in posts /\ x # h)
    BY <1>1
  <2>2. ASSUME NEW g \in Forms, Pending(g), forms[g].text # h.text PROVE Pending(g)'
    BY <1>1, <1>4, <2>2 DEF Pending
  <2> QED BY <1>1, <1>2, <1>4, <2>1, <2>2 DEF FormsPart, FormsInv, SavedTextsLeave
<1>7. DraftsSavedOnce' /\ FormsTypes'
  BY <1>1, <1>2, <1>3, FormsAlone DEF FormsPart, FormsInv, DraftsSavedOnce, FormsTypes
<1> QED BY <1>5, <1>6, <1>7 DEF FormsPart, FormsInv

LEMMA AnsweredKeeps ==
  ASSUME FormsPart, NEW h \in posts, Answered(h) \/ Finished(h)
  PROVE  FormsPart'
<1>1. ASSUME Answered(h) PROVE FormsPart'
  <2>1. h.at = "saved" /\ UNCHANGED <<typed, lost, saved>>
    BY <1>1 DEF Answered, tables
  <2>2. h.form \in Forms
    BY FormsAlone
  <2>3. CASE h.form = "review"
    <3>1. ReviewSaved(h)
      BY <1>1, <2>3 DEF Answered
    <3> QED BY <2>1, <3>1, LaterKeeps DEF ReviewSaved
  <2>4. CASE h.form = "log"
    <3>1. LogSaved(h)
      BY <1>1, <2>4 DEF Answered
    <3> QED BY <2>1, <2>4, <3>1, EmptiedKeeps DEF LogSaved
  <2>5. CASE h.form = "project"
    <3>1. ProjectSaved(h)
      BY <1>1, <2>5 DEF Answered
    <3> QED BY <2>1, <3>1, LaterKeeps DEF ProjectSaved
  <2> QED BY <2>2, <2>3, <2>4, <2>5 DEF Forms
<1>2. ASSUME Finished(h) PROVE FormsPart'
  BY <1>2, EmptiedKeeps DEF Finished, tables
<1> QED BY <1>1, <1>2

\* Every step keeps the part of the forms.
LEMMA FormsStep == HeaderPart /\ FormsPart /\ PagePart /\ Next => FormsPart'
<1> SUFFICES ASSUME HeaderPart, FormsPart, PagePart, Next PROVE FormsPart'
  OBVIOUS
<1> USE DEF formsVars, composer, tables
<1>1. ASSUME Click PROVE FormsPart'
  <2>1. OpenById \/ CloseDetail \/ GoHome \/ Travel => UNCHANGED formsVars
    BY DEF OpenById, CloseDetail, GoHome, Travel
  <2>2. ReplyTo \/ Create \/ Shortcut \/ CloseSubmit \/ Verify => UNCHANGED formsVars
    BY DEF ReplyTo, Create, Shortcut, OpenSubmit, CloseSubmit, Verify
  <2>3. OpenPreview \/ ClosePreview \/ Report => UNCHANGED formsVars
    BY DEF OpenPreview, ClosePreview, Report
  <2>4. ASSUME NEW k \in ActKinds, Act(k) PROVE UNCHANGED formsVars
    BY <2>4 DEF Act
  <2> QED
    BY <1>1, <2>1, <2>2, <2>3, <2>4, FormsFrame, TypeKeeps, SubmitKeeps, LoginKeeps DEF Click
<1>2. ASSUME Answer PROVE FormsPart'
  <2>1. ASSUME NEW w \in waits, SlotArrives(w) \/ SlotFails(w) PROVE UNCHANGED formsVars
    BY <2>1 DEF SlotArrives, SlotFails
  <2>2. ASSUME NEW h \in acts, ActAnswered(h) \/ ActListed(h) \/ ActivityArrives(h)
        PROVE  UNCHANGED formsVars
    BY <2>2 DEF ActAnswered, ActListed, ActivityArrives
  <2>3. RowArrives \/ ListArrives => UNCHANGED formsVars
    BY DEF RowArrives, ListArrives
  <2> QED
    BY <1>2, <2>1, <2>2, <2>3, FormsFrame, ServeKeeps, AnsweredKeeps, RefusedKeeps DEF Answer
<1>3. ASSUME Accident PROVE FormsPart'
  <2>1. ASSUME NEW w \in waits, SlotFails(w) PROVE UNCHANGED formsVars
    BY <2>1 DEF SlotFails
  <2>2. ASSUME NEW h \in acts, ActFails(h) PROVE UNCHANGED formsVars
    BY <2>2 DEF ActFails
  <2>3. RowFails \/ MarketMoves => UNCHANGED formsVars
    BY DEF RowFails, MarketMoves
  <2> QED BY <1>3, <2>1, <2>2, <2>3, FormsFrame, GivenUpKeeps DEF Accident
<1>4. Verified \/ Forget => UNCHANGED formsVars
  BY DEF Verified, Forget, pageVars
<1>5. UNCHANGED pageVars => UNCHANGED formsVars
  BY DEF pageVars
<1> QED BY <1>1, <1>2, <1>3, <1>4, <1>5, FormsFrame DEF Next, Step

------------------------------------------------------------------------------
(* The page.                                                                *)

LEMMA ResolvedPage == PagePart /\ Resolved => page \in Ids
BY DEF PagePart, PageTypes, NewestIsForThePage, Resolved

\* A request after a step is an old one, or one that goes astray nowhere new.
Arriving(h) == h.at \in {"sent", "saved"}
Follows(h) ==
  \/ h \in posts
  \/ /\ h.form = "review" => h.project \in Ids /\ h.at # "saved"
     /\ \/ h.project = page \/ ~Arriving(h)
        \/ \E k \in posts : k.form = h.form /\ k.project = h.project /\ Arriving(k)

LEMMA AstrayKept ==
  ASSUME NEW s, Astray(s, page)', page' = page, waits' \subseteq waits,
         \A h \in posts' : h.project = page \/ ~Arriving(h)
           \/ \E k \in posts : k.form = h.form /\ k.project = h.project /\ Arriving(k)
  PROVE  Astray(s, page)
<1>1. \/ \E w \in waits' : w.slot = s /\ w.project # page
      \/ \E h \in posts' : SlotOf(h) = s /\ Arriving(h) /\ h.project # page
  BY DEF Astray, Arriving
<1>2. \A h, k : k.form = h.form => SlotOf(k) = SlotOf(h)
  BY DEF SlotOf
<1>3. \A h \in posts' : Arriving(h) /\ h.project # page =>
        \E k \in posts : k.form = h.form /\ k.project = h.project /\ Arriving(k)
  OBVIOUS
<1>4. \/ \E w \in waits : w.slot = s /\ w.project # page
      \/ \E k \in posts : SlotOf(k) = s /\ Arriving(k) /\ k.project # page
  BY <1>1, <1>2, <1>3
<1> QED BY <1>4 DEF Astray, Arriving

LEMMA NewestKept ==
  ASSUME NewestIsForThePage, UNCHANGED <<page, strays>>, waits' \subseteq waits,
         \A h \in posts' : \/ h \in posts \/ h.project = page \/ ~Arriving(h)
                           \/ \E k \in posts : k.form = h.form /\ k.project = h.project /\ Arriving(k),
         found' = "found" => page \in Ids
  PROVE  NewestIsForThePage'
<1>1. \A h \in posts' : h.project = page \/ ~Arriving(h)
        \/ \E k \in posts : k.form = h.form /\ k.project = h.project /\ Arriving(k)
  OBVIOUS
<1>2. \A s \in Slots : Astray(s, page)' => Astray(s, page)
  BY <1>1, AstrayKept
<1> QED BY <1>2 DEF NewestIsForThePage

LEMMA Zero == 0 \in Pages /\ 0 \notin Ids /\ Ids \subseteq Pages
BY DetailAssumption DEF Pages

\* However another page is opened, nothing of the page before passes for its own.
LEMMA TurnKeeps ==
  ASSUME PagePart, NEW p \in Pages, Turn(p), shown' \in Panel, replyTo' \in Nat,
         shown'.reviews \in {shown.reviews, {}}, shown'.events \in {shown.events, 0},
         shown'.log = shown.log, UNCHANGED <<list, reviews, posts, preview, acts>>
  PROVE  PagePart'
<1> DEFINE old == {[w EXCEPT !.newest = FALSE] : w \in waits}
           new == {[slot |-> s, project |-> p, newest |-> TRUE] : s \in Slots}
<1>1. /\ page' = p /\ been' = been \cup {p}
      /\ Fills(p) => waits' = old \cup new /\ settled' = [s \in Slots |-> FALSE]
      /\ ~Fills(p) => waits' = waits /\ settled' = settled
      /\ strays' = IF p = page THEN strays ELSE {s \in Slots : Astray(s, p)}
      /\ found' \in {found, "none", "asked"} /\ (found' = "found" => p = page)
  BY DEF Turn
<1>2. PageTypes
  BY DEF PagePart
<1>3. \A w \in old : w \in Wait /\ ~w.newest
  <2>1. \A w \in waits : [w EXCEPT !.newest = FALSE] \in Wait /\ ~[w EXCEPT !.newest = FALSE].newest
    BY <1>2 DEF PageTypes, Wait
  <2> QED BY <2>1
<1>4. \A w \in new : w \in Wait /\ w.project = p
  <2>1. \A s \in Slots : LET w == [slot |-> s, project |-> p, newest |-> TRUE]
                         IN w \in Wait /\ w.project = p
    BY DEF Wait
  <2> QED BY <2>1
<1>11. \A w \in old : \E v \in waits : v.slot = w.slot /\ v.project = w.project
  <2>1. \A v \in waits : LET w == [v EXCEPT !.newest = FALSE] IN v.slot = w.slot /\ v.project = w.project
    BY <1>2 DEF PageTypes, Wait
  <2> QED BY <2>1
<1> HIDE DEF old, new
<1>5. waits' \in SUBSET Wait
  BY <1>1, <1>2, <1>3, <1>4 DEF PageTypes
<1>6. settled' \in [Slots -> BOOLEAN] /\ strays' \in SUBSET Slots
  BY <1>1, <1>2 DEF PageTypes
<1>7. PageTypes'
  BY <1>1, <1>2, <1>5, <1>6 DEF PageTypes, list
<1>8. ReviewsNumbered' /\ AnswersNameReviews'
  BY DEF PagePart, ReviewsNumbered, AnswersNameReviews
<1>9. NewestIsForThePage'
  <2>1. CASE p = page
    <3>1. UNCHANGED <<page, strays, waits, posts>> /\ NewestIsForThePage
      BY <1>1, <2>1 DEF PagePart, Fills
    <3>2. found' = "found" => page \in Ids
      BY <1>1, <2>1, <3>1 DEF NewestIsForThePage
    <3> QED BY <3>1, <3>2, NewestKept
  <2>2. CASE p # page
    <3>1. ASSUME p # 0, NEW s \in Slots, Astray(s, p)' PROVE Astray(s, p)
      <4>1. waits' = old \cup new
        BY <1>1, <2>2, <3>1 DEF Fills
      <4>2. \A w \in waits' : w.project # p => \E v \in waits : v.slot = w.slot /\ v.project = w.project
        BY <1>4, <4>1, <1>11
      <4> QED BY <3>1, <4>2 DEF Astray
    <3>2. p # 0 => \A w \in waits' : w.newest => w.project = p
      BY <1>1, <1>3, <1>4, <2>2 DEF Fills
    <3>3. strays' = {s \in Slots : Astray(s, p)} /\ found' # "found"
      BY <1>1, <2>2
    <3>4. p # 0 => \A s \in Slots : Astray(s, p)' => s \in strays'
      BY <3>1, <3>3
    <3>5. \A s : Astray(s, page)' <=> Astray(s, p)'
      BY <1>1 DEF Astray
    <3> QED BY <1>1, <3>2, <3>3, <3>4, <3>5 DEF NewestIsForThePage
  <2> QED BY <2>1, <2>2
<1>10. SlotsShowPage'
  <2>1. CASE Fills(p)
    BY <1>1, <2>1 DEF SlotsShowPage
  <2>2. CASE ~Fills(p)
    BY <1>1, <2>2 DEF PagePart, SlotsShowPage, ShowsOwn, Fills, Slots
  <2> QED BY <2>1, <2>2
<1> QED BY <1>7, <1>8, <1>9, <1>10 DEF PagePart

\* What a handler may do to the panel.
LEMMA Emptied ==
  ASSUME PageTypes
  PROVE  /\ LET s == [shown EXCEPT !.reviews = {}, !.events = 0]
            IN s \in Panel /\ s.reviews = {} /\ s.events = 0 /\ s.log = shown.log
         /\ LET s == [shown EXCEPT !.events = 0]
            IN s \in Panel /\ s.reviews = shown.reviews /\ s.events = 0 /\ s.log = shown.log
         /\ LET s == [shown EXCEPT !.reviews = {}]
            IN s \in Panel /\ s.reviews = {} /\ s.events = shown.events /\ s.log = shown.log
BY Zero DEF PageTypes, Panel

LEMMA TurningKeeps == HeaderPart /\ PagePart /\ RailPart /\ (OpenById \/ CloseDetail \/ GoHome \/ Travel) => PagePart'
<1> SUFFICES ASSUME HeaderPart, PagePart, RailPart PROVE OpenById \/ CloseDetail \/ GoHome \/ Travel => PagePart'
  OBVIOUS
<1>1. PageTypes /\ shown \in Panel /\ replyTo \in Nat
  BY DEF PagePart, PageTypes
<1>2. ASSUME OpenById PROVE PagePart'
  <2>1. PICK p \in listed \cup ToSet(viewed) \cup {n.project : n \in bell} :
          Turn(p) /\ shown' = [shown EXCEPT !.reviews = {}, !.events = 0]
    BY <1>2 DEF OpenById
  <2>2. UNCHANGED <<list, reviews, posts, preview, acts, replyTo>>
    BY <1>2 DEF OpenById, tables, composer, dealings
  <2>3. p \in Pages
    <3>1. ToSet(viewed) \subseteq Ids /\ listed \subseteq Ids
      BY <1>1 DEF RailPart, RailTypes, PageTypes, ToSet
    <3>2. \A n \in bell : n.project \in Ids
      BY DEF HeaderPart, HeaderInv, NoticesNameProjects
    <3> QED BY <3>1, <3>2, Zero
  <2> QED BY <1>1, <2>1, <2>2, <2>3, Emptied, TurnKeeps
<1>3. ASSUME CloseDetail PROVE PagePart'
  BY <1>1, <1>3, Emptied, TurnKeeps, Zero DEF CloseDetail, tables, dealings
<1>4. ASSUME GoHome PROVE PagePart'
  BY <1>1, <1>4, Emptied, TurnKeeps, Zero DEF GoHome, tables, composer
<1>5. ASSUME Travel PROVE PagePart'
  <2>1. PICK p \in (been \cup {0}) \ {page} : Turn(p)
    BY <1>5 DEF Travel
  <2>2. UNCHANGED <<list, reviews, posts, preview, acts, replyTo, shown>>
    BY <1>5 DEF Travel, tables, composer, dealings
  <2> QED BY <1>1, <2>1, <2>2, TurnKeeps, Zero DEF PageTypes
<1> QED BY <1>2, <1>3, <1>4, <1>5

\* An answer that is not astray is about the page, whenever it comes.
LEMMA SlotKeeps ==
  ASSUME PagePart, NEW w \in waits, SlotArrives(w) \/ SlotFails(w)
  PROVE  PagePart'
<1>1. /\ PageTypes /\ w \in Wait /\ w.slot \in Slots /\ w.newest \in BOOLEAN
      /\ shown \in Panel /\ settled \in [Slots -> BOOLEAN]
  BY DEF PagePart, PageTypes, Wait
<1>2. /\ UNCHANGED <<list, reviews, posts, preview, acts, replyTo, page, been, found, strays>>
      /\ waits' = waits \ {w}
  BY DEF SlotArrives, SlotFails, tables, composer, dealings
<1>3. /\ settled' \in [Slots -> BOOLEAN]
      /\ \A s \in Slots : settled'[s] => settled[s] \/ (s = w.slot /\ SlotArrives(w))
  BY <1>1 DEF SlotArrives, SlotFails
<1>4. page # 0 /\ w.slot \notin strays => w.project = page
  BY <1>1 DEF PagePart, NewestIsForThePage, Astray
<1>5. Posted(w.project) \in SUBSET Review /\ \A r \in Posted(w.project) : r.project = w.project
  BY <1>1 DEF Posted, PageTypes
<1>7. w.project \in Pages /\ 0 \in Pages
  BY <1>1, Zero DEF Wait
<1>8. shown' \in Panel /\ SlotsShowPage'
  <2> USE DEF PagePart, SlotsShowPage, ShowsOwn, Panel, Slots
  <2>1. CASE w.slot = "reviews"
    <3>1. shown' = [shown EXCEPT !.reviews = Posted(w.project)] \/ (~SlotArrives(w) /\ shown' = shown)
      BY <2>1 DEF SlotArrives, SlotFails
    <3> QED BY <1>1, <1>2, <1>3, <1>4, <1>5, <2>1, <3>1
  <2>2. CASE w.slot = "events"
    <3>1. \/ shown' = [shown EXCEPT !.events = w.project]
          \/ ~SlotArrives(w) /\ shown' = [shown EXCEPT !.events = 0]
      BY <2>2 DEF SlotArrives, SlotFails
    <3> QED BY <1>1, <1>2, <1>3, <1>4, <1>7, <2>2, <3>1
  <2>3. CASE w.slot = "log"
    <3>1. \/ shown' = [shown EXCEPT !.log = w.project]
          \/ ~SlotArrives(w) /\ shown' = [shown EXCEPT !.log = 0]
      BY <2>3 DEF SlotArrives, SlotFails
    <3> QED BY <1>1, <1>2, <1>3, <1>4, <1>7, <2>3, <3>1
  <2> QED BY <1>1, <2>1, <2>2, <2>3
<1>9. PageTypes'
  BY <1>1, <1>2, <1>3, <1>8 DEF PageTypes, list
<1>10. ReviewsNumbered' /\ AnswersNameReviews'
  BY <1>2 DEF PagePart, ReviewsNumbered, AnswersNameReviews
<1>11. NewestIsForThePage'
  <2>1. found' = "found" => page \in Ids
    BY <1>2 DEF PagePart, NewestIsForThePage
  <2>2. NewestIsForThePage
    BY DEF PagePart
  <2> QED BY <1>2, <2>1, <2>2, NewestKept
<1> QED BY <1>8, <1>9, <1>10, <1>11 DEF PagePart

\* What leaves the page, its panel and the reviews as they are.
LEMMA AroundThePage ==
  ASSUME PagePart, UNCHANGED <<screen, reviews>>, replyTo' \in Nat,
         market' \in SUBSET Ids, listed' \in SUBSET Ids,
         preview' \in {0} \cup Ids, acts' \in SUBSET Request, \A h \in posts' : Follows(h)
  PROVE  PagePart'
<1>1. UNCHANGED <<page, been, found, waits, shown, settled, strays, reviews>>
  BY DEF screen
<1>2. NewestIsForThePage'
  <2>1. NewestIsForThePage /\ (found' = "found" => page \in Ids)
    BY <1>1 DEF PagePart, NewestIsForThePage
  <2>2. \A h \in posts' : \/ h \in posts \/ h.project = page \/ ~Arriving(h)
                          \/ \E k \in posts : k.form = h.form /\ k.project = h.project /\ Arriving(k)
    BY DEF Follows
  <2> QED BY <1>1, <2>1, <2>2, NewestKept
<1>3. AnswersNameReviews'
  BY <1>1 DEF PagePart, AnswersNameReviews, Follows
<1> QED BY <1>1, <1>2, <1>3 DEF PagePart, PageTypes, ReviewsNumbered, SlotsShowPage, ShowsOwn

LEMMA BesideThePage ==
  ASSUME PagePart, UNCHANGED <<screen, reviews, posts>>, replyTo' \in Nat,
         market' \in SUBSET Ids, listed' \in SUBSET Ids,
         preview' \in {0} \cup Ids, acts' \in SUBSET Request
  PROVE  PagePart'
<1>1. \A h \in posts' : Follows(h)
  BY DEF Follows
<1> QED BY <1>1, AroundThePage

LEMMA ListsKeep ==
  PagePart /\ (RowArrives \/ RowFails \/ ListArrives \/ MarketMoves \/ ReplyTo \/ DetailLogin) => PagePart'
<1> SUFFICES ASSUME PagePart PROVE RowArrives \/ RowFails \/ ListArrives \/ MarketMoves \/ ReplyTo
                            \/ DetailLogin => PagePart'
  OBVIOUS
<1>1. PageTypes
  BY DEF PagePart
<1>2. ASSUME RowArrives \/ RowFails PROVE PagePart'
  <2>1. /\ UNCHANGED <<list, reviews, posts, replyTo, preview, acts, page, been, waits, shown, settled, strays>>
        /\ found' \in {"found", "unavailable"} /\ (found' = "found" => page \in Ids)
    BY <1>2 DEF RowArrives, RowFails, tables, composer, dealings
  <2> QED
    BY <2>1 DEF PagePart, list, PageTypes, ReviewsNumbered, AnswersNameReviews, NewestIsForThePage,
                Astray, SlotsShowPage, ShowsOwn
<1>3. ListArrives \/ MarketMoves => PagePart'
  BY <1>1, BesideThePage DEF ListArrives, MarketMoves, tables, composer, dealings, PageTypes
<1>4. ASSUME ReplyTo PROVE PagePart'
  <2>1. replyTo' \in Nat
    BY <1>1, <1>4 DEF ReplyTo, PageTypes, Panel, Review
  <2> QED BY <1>1, <1>4, <2>1, BesideThePage DEF ReplyTo, tables, list, dealings, PageTypes
<1>5. ASSUME DetailLogin PROVE PagePart'
  <2>1. /\ UNCHANGED <<list, reviews, posts, preview, acts, page, been, waits, found, settled, strays>>
        /\ shown' = [shown EXCEPT !.reviews = {}] /\ replyTo' = 0
    BY <1>5 DEF DetailLogin, tables, dealings
  <2>2. shown' \in Panel /\ shown'.reviews = {} /\ shown'.events = shown.events /\ shown'.log = shown.log
    BY <1>1, <2>1, Emptied
  <2>3. NewestIsForThePage'
    <3>1. NewestIsForThePage /\ (found' = "found" => page \in Ids)
      BY <2>1 DEF PagePart, NewestIsForThePage
    <3> QED BY <2>1, <3>1, NewestKept
  <2>4. SlotsShowPage'
    BY <2>1, <2>2 DEF PagePart, SlotsShowPage, ShowsOwn, Slots
  <2> QED
    BY <2>1, <2>2, <2>3, <2>4 DEF PagePart, list, PageTypes, ReviewsNumbered, AnswersNameReviews
<1> QED BY <1>2, <1>3, <1>4, <1>5

\* Whatever is sent and answered, a request keeps its form and its project.
LEMMA SendingKeeps ==
  ASSUME PagePart, NEW f \in Forms, Submit(f)
  PROVE  PagePart'
<1>1. /\ UNCHANGED <<screen, list, reviews, replyTo, preview, acts>>
      /\ f = "review" => Resolved
  BY DEF Submit, Send, MaySend, ReviewReady, OnPage, tables, dealings
<1>2. posts' = posts \cup {[form |-> f, at |-> "sent", project |-> page, text |-> forms[f].text,
                            parent |-> IF f = "review" THEN replyTo ELSE 0, user |-> cookie,
                            review |-> 0]}
  BY DEF Submit, Send
<1>3. \A h \in posts' : Follows(h)
  BY <1>1, <1>2, ResolvedPage DEF Follows
<1> QED BY <1>1, <1>3, AroundThePage DEF list, PagePart, PageTypes

LEMMA PostsMove ==
  ASSUME PagePart, NEW h \in posts, h \in Post, NEW at \in Stages \ {"sent", "saved"}, posts' = Moved(posts, h, at)
  PROVE  \A k \in posts' : Follows(k)
<1>1. LET k == [h EXCEPT !.at = at] IN k.form = h.form /\ k.project = h.project /\ k.at = at
  BY DEF Post
<1>2. h.form = "review" => h.project \in Ids
  BY DEF PagePart, AnswersNameReviews
<1>3. \A k \in posts' : k \in posts \/ k = [h EXCEPT !.at = at]
  BY DEF Moved
<1>4. Follows([h EXCEPT !.at = at])
  BY <1>1, <1>2 DEF Follows, Arriving
<1> QED BY <1>3, <1>4 DEF Follows

LEMMA ServingKeeps ==
  ASSUME FormsPart, PagePart, NEW h \in posts, Serve(h)
  PROVE  PagePart'
<1>1. /\ UNCHANGED <<screen, list, replyTo, preview, acts>> /\ h \in Post
      /\ list' = list /\ PageTypes
  BY DEF Serve, FormsPart, FormsTypes, dealings, PagePart
<1>2. CASE ~Accepts(h) \/ h.form # "review"
  <2>1. reviews' = reviews
    BY <1>2 DEF Serve
  <2>2. \A k \in posts' : Follows(k)
    <3>1. CASE h.at = "orphan"
      BY <3>1 DEF Serve, Follows
    <3>2. CASE h.at # "orphan" /\ ~Accepts(h)
      <4>1. posts' = Moved(posts, h, "refused") /\ "refused" \in Stages \ {"sent", "saved"}
        BY <3>2 DEF Serve, Stages
      <4> QED BY <1>1, <4>1, PostsMove
    <3>3. CASE h.at # "orphan" /\ Accepts(h)
      <4>1. posts' = (posts \ {h}) \cup {Kept(h)} /\ h.form # "review" /\ Arriving(h)
        BY <1>2, <3>3 DEF Serve, Arriving
      <4>2. Kept(h).form = h.form /\ Kept(h).project = h.project
        BY <1>1, KeptPost
      <4>3. Follows(Kept(h))
        BY <4>1, <4>2 DEF Follows
      <4> QED BY <4>1, <4>3 DEF Follows
    <3> QED BY <3>1, <3>2, <3>3
  <2> QED BY <1>1, <2>1, <2>2, AroundThePage DEF list, PageTypes
<1>3. CASE Accepts(h) /\ h.form = "review"
  <2> DEFINE m == [n |-> NextReview, project |-> h.project, parent |-> h.parent, text |-> h.text]
  <2>1. reviews' = reviews \cup {m}
    BY <1>3 DEF Serve
  <2>2. posts' = IF h.at = "orphan" THEN posts \ {h} ELSE (posts \ {h}) \cup {Kept(h)}
    BY <1>3 DEF Serve
  <2>3. Cardinality(reviews) \in Nat /\ NextReview = Cardinality(reviews) + 1
    BY FS_CardinalityType DEF PagePart, ReviewsNumbered, NextReview
  <2>4. m \in Review /\ m.n = NextReview /\ m.project = h.project
    <3>1. h.project \in Ids
      BY <1>3 DEF PagePart, AnswersNameReviews
    <3>2. h.text \in Texts /\ h.parent \in Nat
      BY <1>1, FormsAlone DEF Post, Texts
    <3> QED BY <2>3, <3>1, <3>2 DEF Review
  <2> HIDE DEF m
  <2>5. m \notin reviews
    BY <2>3, <2>4 DEF PagePart, ReviewsNumbered
  <2>6. IsFiniteSet(reviews') /\ Cardinality(reviews') = Cardinality(reviews) + 1
    BY <2>1, <2>5, FS_AddElement DEF PagePart, ReviewsNumbered
  <2>7. ReviewsNumbered'
    <3>1. \A r \in reviews' : r = m \/ r \in reviews
      BY <2>1
    <3> QED BY <2>3, <2>4, <2>6, <3>1 DEF PagePart, ReviewsNumbered
  <2>8. AnswersNameReviews'
    <3>1. \A k \in posts' : k \in posts \/ k = Kept(h)
      BY <2>2
    <3>2. ASSUME NEW k \in posts, k.form = "review", k.at = "saved"
          PROVE  \E r \in reviews' : r.n = k.review /\ r.project = k.project
      BY <2>1, <3>2 DEF PagePart, AnswersNameReviews
    <3>3. \E r \in reviews' : r.n = Kept(h).review /\ r.project = Kept(h).project
      BY <1>1, <1>3, <2>1, <2>4, KeptPost
    <3>4. h.project \in Ids /\ Kept(h).project = h.project
      BY <1>1, <1>3, KeptPost DEF PagePart, AnswersNameReviews
    <3> QED BY <3>1, <3>2, <3>3, <3>4 DEF PagePart, AnswersNameReviews
  <2>9. PageTypes'
    BY <1>1, <2>1, <2>4 DEF list, screen, PageTypes
  <2>10. SlotsShowPage'
    BY <1>1 DEF screen, PagePart, SlotsShowPage, ShowsOwn
  <2>11. NewestIsForThePage'
    <3>1. /\ UNCHANGED <<page, strays>> /\ waits' \subseteq waits /\ NewestIsForThePage
          /\ found' = "found" => page \in Ids
      BY <1>1 DEF screen, PagePart, NewestIsForThePage
    <3>2. \A k \in posts' : k \in posts \/ (k.form = h.form /\ k.project = h.project /\ h.at = "sent")
      <4>1. h.at # "orphan" => h.at = "sent"
        BY DEF Serve
      <4>2. Kept(h).form = h.form /\ Kept(h).project = h.project
        BY <1>1, KeptPost
      <4>3. \A k \in posts' : k \in posts \/ (h.at # "orphan" /\ k = Kept(h))
        BY <2>2
      <4> QED BY <4>1, <4>2, <4>3
    <3>3. \A k \in posts' : \/ k \in posts \/ k.project = page \/ ~Arriving(k)
                            \/ \E x \in posts : x.form = k.form /\ x.project = k.project /\ Arriving(x)
      BY <3>2 DEF Arriving
    <3> QED BY <3>1, <3>3, NewestKept
  <2> QED BY <2>7, <2>8, <2>9, <2>10, <2>11 DEF PagePart
<1> QED BY <1>2, <1>3

\* An answer is shown on the page that is open by then: it is about it, or astray.
LEMMA ShowingKeeps ==
  ASSUME FormsPart, PagePart, NEW h \in posts, Answered(h)
  PROVE  PagePart'
<1>1. /\ UNCHANGED <<page, been, found, waits, settled, strays, market, reviews, replyTo, preview, acts>>
      /\ h \in Post /\ h.at = "saved" /\ h.form \in Forms /\ PageTypes
  BY FormsAlone DEF Answered, FormsPart, FormsTypes, tables, dealings, PagePart
<1>2. \A k \in posts' : Follows(k)
  <2>1. posts' = posts \ {h} \/ posts' = Moved(posts, h, "snapshot")
    BY <1>1 DEF Answered, ReviewSaved, LogSaved, ProjectSaved, Forms
  <2>2. "snapshot" \in Stages \ {"sent", "saved"}
    BY DEF Stages
  <2> QED BY <1>1, <2>1, <2>2, PostsMove DEF Follows
<1>3. AnswersNameReviews' /\ ReviewsNumbered' /\ NewestIsForThePage'
  <2>1. AnswersNameReviews' /\ ReviewsNumbered'
    BY <1>1, <1>2 DEF PagePart, AnswersNameReviews, ReviewsNumbered, Follows
  <2>2. NewestIsForThePage /\ (found' = "found" => page \in Ids)
    BY <1>1 DEF PagePart, NewestIsForThePage
  <2>3. \A k \in posts' : \/ k \in posts \/ k.project = page \/ ~Arriving(k)
                          \/ \E x \in posts : x.form = k.form /\ x.project = k.project /\ Arriving(x)
    BY <1>2 DEF Follows
  <2> QED BY <1>1, <2>1, <2>2, <2>3, NewestKept
<1>7. page # 0 /\ SlotOf(h) \in Slots \ strays => h.project = page
  BY <1>1 DEF PagePart, NewestIsForThePage, Astray
<1>4. CASE h.form = "project"
  <2>1. UNCHANGED <<shown, listed>>
    BY <1>1, <1>4 DEF Answered, ProjectSaved
  <2> QED BY <1>1, <1>3, <2>1 DEF PagePart, PageTypes, SlotsShowPage, ShowsOwn
<1>5. CASE h.form = "log"
  <2>1. shown' = [shown EXCEPT !.log = h.project] /\ UNCHANGED listed
    BY <1>1, <1>5 DEF Answered, LogSaved
  <2>2. /\ shown' \in Panel /\ shown'.reviews = shown.reviews
        /\ shown'.events = shown.events /\ shown'.log = h.project
    BY <1>1, <2>1 DEF PageTypes, Panel, Post
  <2>3. page # 0 /\ "log" \notin strays => h.project = page
    BY <1>5, <1>7 DEF SlotOf, Slots
  <2>4. SlotsShowPage'
    BY <1>1, <2>2, <2>3 DEF PagePart, SlotsShowPage, ShowsOwn, Slots
  <2> QED BY <1>1, <1>3, <2>1, <2>2, <2>4 DEF PagePart, PageTypes
<1>6. CASE h.form = "review"
  <2> DEFINE own == {r \in reviews : r.n = h.review}
  <2>1. /\ shown' = [shown EXCEPT !.reviews = shown.reviews \cup own]
        /\ listed' = listed \cup {h.project}
    BY <1>1, <1>6 DEF Answered, ReviewSaved, PageTypes, Panel
  <2>2. h.project \in Ids /\ own \in SUBSET Review /\ \A r \in own : r.project = h.project
    BY <1>1, <1>6 DEF PagePart, AnswersNameReviews, ReviewsNumbered, PageTypes
  <2> HIDE DEF own
  <2>3. /\ shown' \in Panel /\ shown'.reviews = shown.reviews \cup own
        /\ shown'.events = shown.events /\ shown'.log = shown.log
    BY <1>1, <2>1, <2>2 DEF PageTypes, Panel
  <2>4. page # 0 /\ "reviews" \notin strays => h.project = page
    BY <1>6, <1>7 DEF SlotOf, Slots
  <2>5. SlotsShowPage'
    BY <1>1, <2>2, <2>3, <2>4 DEF PagePart, SlotsShowPage, ShowsOwn, Slots
  <2>6. PageTypes'
    BY <1>1, <2>1, <2>2, <2>3 DEF PageTypes
  <2> QED BY <1>3, <2>5, <2>6 DEF PagePart
<1> QED BY <1>1, <1>4, <1>5, <1>6 DEF Forms

LEMMA ClosingKeeps ==
  ASSUME FormsPart, PagePart, NEW h \in posts, Finished(h) \/ Refused(h) \/ GivenUp(h)
  PROVE  PagePart'
<1>1. h \in Post /\ PageTypes
  BY DEF FormsPart, FormsTypes, PagePart
<1>2. \A k \in posts' : Follows(k)
  <2>1. posts' = posts \ {h} \/ posts' = Moved(posts, h, "orphan")
    BY DEF Finished, Refused, GivenUp
  <2>2. "orphan" \in Stages \ {"sent", "saved"}
    BY DEF Stages
  <2> QED BY <1>1, <2>1, <2>2, PostsMove DEF Follows
<1>3. Finished(h) => PagePart'
  BY <1>1, <1>2, AroundThePage DEF Finished, tables, PageTypes
<1>4. Refused(h) \/ GivenUp(h) => PagePart'
  BY <1>1, <1>2, AroundThePage DEF Refused, GivenUp, tables, list, dealings, PageTypes
<1> QED BY <1>3, <1>4

(* What is done to a project.                                               *)

LEMMA ActKeeps ==
  ASSUME HeaderPart, PagePart, OpenPreview \/ ClosePreview \/ Report \/ \E k \in ActKinds : Act(k)
  PROVE  PagePart'
<1>1. PageTypes /\ cookie \in Visitors
  BY DEF PagePart, HeaderPart, HeaderTypes
<1>2. UNCHANGED <<screen, list, reviews, replyTo, posts>>
  BY DEF OpenPreview, ClosePreview, Report, Act, tables, composer
<1>3. ASSUME NEW k \in ActKinds \cup {"preview", "report"}, NEW p \in Ids, NEW n \in Nat
      PROVE  Asking(k, p, n) \in Request
  BY <1>1 DEF Asking, Request
<1>4. preview' \in {0} \cup Ids /\ acts' \in SUBSET Request
  <2>1. ASSUME OpenPreview PROVE preview' \in {0} \cup Ids /\ acts' \in SUBSET Request
    <3>1. page \in Ids
      BY <2>1, ResolvedPage DEF OpenPreview, OnPage
    <3>2. \/ UNCHANGED <<preview, acts>>
          \/ preview' = page /\ acts' = acts \cup {Asking("preview", page, 0)}
      BY <2>1 DEF OpenPreview
    <3> QED BY <1>1, <1>3, <3>1, <3>2 DEF PageTypes
  <2>2. ClosePreview => preview' \in {0} \cup Ids /\ acts' \in SUBSET Request
    BY <1>1 DEF ClosePreview, PageTypes
  <2>3. ASSUME Report PROVE preview' \in {0} \cup Ids /\ acts' \in SUBSET Request
    <3>1. PICK r \in shown.reviews : acts' = acts \cup {Asking("report", page, r.n)}
      BY <2>3 DEF Report
    <3>2. page \in Ids /\ r.n \in Nat /\ preview' = preview
      BY <1>1, <2>3, ResolvedPage DEF Report, OnPage, PageTypes, Panel, Review
    <3>3. Asking("report", page, r.n) \in Request
      BY <1>3, <3>2
    <3> QED BY <1>1, <3>1, <3>2, <3>3 DEF PageTypes
  <2>4. ASSUME NEW k \in ActKinds, Act(k) PROVE preview' \in {0} \cup Ids /\ acts' \in SUBSET Request
    <3> DEFINE p == IF k \in {"reload", "outbound"} THEN preview ELSE page
    <3>1. acts' = acts \cup {Asking(k, p, 0)} /\ preview' = preview
      BY <2>4 DEF Act
    <3>2. k \in {"reload", "outbound", "leave", "recheck", "feature", "upvote"}
      BY DetailAssumption
    <3>3. CASE k \in {"reload", "outbound"}
      <4>1. p \in Ids
        BY <1>1, <2>4, <3>3 DEF Act, PageTypes
      <4> QED BY <1>1, <1>3, <3>1, <4>1 DEF PageTypes
    <3>4. CASE k \notin {"reload", "outbound"}
      <4>1. OnPage
        BY <2>4, <3>2, <3>4 DEF Act, CanRecheck, CanFeature, CanUpvote
      <4>2. p \in Ids
        BY <3>4, <4>1, ResolvedPage DEF OnPage
      <4> QED BY <1>1, <1>3, <3>1, <4>2 DEF PageTypes
    <3> QED BY <3>3, <3>4
  <2> QED BY <2>1, <2>2, <2>3, <2>4
<1> QED BY <1>1, <1>2, <1>4, BesideThePage DEF list, PageTypes

LEMMA RequestMoves ==
  ASSUME PagePart, NEW h \in acts, NEW at \in {"sent", "unanswered", "snapshot", "listed"}
  PROVE  Moved(acts, h, at) \in SUBSET Request /\ acts \ {h} \in SUBSET Request
<1>1. h \in Request /\ acts \in SUBSET Request
  BY DEF PagePart, PageTypes
<1>2. [h EXCEPT !.at = at] \in Request
  BY <1>1 DEF Request
<1> QED BY <1>1, <1>2 DEF Moved

LEMMA ActAnswersKeep ==
  ASSUME PagePart, NEW h \in acts, ActAnswered(h) \/ ActFails(h) \/ ActListed(h) \/ ActivityArrives(h)
  PROVE  PagePart'
<1>1. PageTypes /\ h.project \in Ids
  BY DEF PagePart, PageTypes, Request
<1>2. acts' \in SUBSET Request
  BY RequestMoves DEF ActAnswered, ActFails, ActListed, ActivityArrives
<1>3. ASSUME ActFails(h) \/ ActListed(h) \/ ActivityArrives(h) PROVE PagePart'
  <2>1. UNCHANGED <<screen, reviews, replyTo, posts, market>>
    BY <1>3 DEF ActFails, ActListed, ActivityArrives, tables, composer, list
  <2>2. listed' \in SUBSET Ids /\ preview' \in {0} \cup Ids
    BY <1>1, <1>3 DEF ActFails, ActListed, ActivityArrives, list, PageTypes
  <2> QED BY <1>1, <1>2, <2>1, <2>2, BesideThePage DEF PageTypes
<1>4. ASSUME ActAnswered(h) PROVE PagePart'
  <2>1. /\ UNCHANGED <<reviews, market, page, been, found, waits, settled, strays, posts, replyTo, preview>>
        /\ listed' = listed \cup {h.project}
    BY <1>4 DEF ActAnswered, composer
  <2>2. /\ shown' \in Panel /\ shown'.reviews \subseteq shown.reviews
        /\ shown'.events = shown.events /\ shown'.log = shown.log
    <3>1. \/ shown' = shown
          \/ shown' = [shown EXCEPT !.reviews = {r \in @ : h.review \notin {r.n, r.parent}}]
      BY <1>4 DEF ActAnswered
    <3> QED BY <1>1, <3>1 DEF PageTypes, Panel
  <2>3. PageTypes'
    BY <1>1, <1>2, <2>1, <2>2 DEF PageTypes
  <2>4. NewestIsForThePage'
    <3>1. NewestIsForThePage /\ (found' = "found" => page \in Ids)
      BY <2>1 DEF PagePart, NewestIsForThePage
    <3> QED BY <2>1, <3>1, NewestKept
  <2>5. SlotsShowPage'
    BY <2>1, <2>2 DEF PagePart, SlotsShowPage, ShowsOwn, Slots
  <2> QED BY <2>1, <2>3, <2>4, <2>5 DEF PagePart, ReviewsNumbered, AnswersNameReviews
<1> QED BY <1>3, <1>4

\* Every step keeps the part of the page.
LEMMA PageStep == HeaderPart /\ FormsPart /\ PagePart /\ RailPart /\ Next => PagePart'
<1> SUFFICES ASSUME HeaderPart, FormsPart, PagePart, RailPart, Next PROVE PagePart'
  OBVIOUS
<1> USE DEF shownVars, tables, composer, dealings
<1>1. ASSUME Click PROVE PagePart'
  <2>1. ASSUME NEW f \in Forms, Type(f) PROVE UNCHANGED shownVars
    BY <2>1 DEF Type
  <2>2. Create \/ Shortcut \/ CloseSubmit \/ Verify => UNCHANGED shownVars
    BY DEF Create, Shortcut, OpenSubmit, CloseSubmit, Verify
  <2> QED
    BY <1>1, <2>1, <2>2, PageFrame, TurningKeeps, ListsKeep, SendingKeeps, ActKeeps DEF Click
<1>2. ASSUME Answer PROVE PagePart'
  BY <1>2, SlotKeeps, ServingKeeps, ShowingKeeps, ClosingKeeps, ActAnswersKeep, ListsKeep DEF Answer
<1>3. ASSUME Accident PROVE PagePart'
  BY <1>3, SlotKeeps, ClosingKeeps, ActAnswersKeep, ListsKeep DEF Accident
<1>4. Verified \/ Forget => UNCHANGED shownVars
  BY DEF Verified, Forget, pageVars
<1>5. UNCHANGED pageVars => UNCHANGED shownVars
  BY DEF pageVars
<1> QED BY <1>1, <1>2, <1>3, <1>4, <1>5, PageFrame DEF Next, Step

------------------------------------------------------------------------------
(* The rail.  Without is a recursive function on a sequence; that it yields *)
(* a sequence no longer than the one given follows by induction on the      *)
(* prefixes, stated as a fact about sets of numbers.                        *)

Keeping(g, s, p) ==
  g = [k \in 0 .. Len(s) |->
         IF k = 0 THEN <<>> ELSE IF s[k] = p THEN g[k - 1] ELSE Append(g[k - 1], s[k])]

LEMMA WithoutUnfolded ==
  ASSUME NEW s, NEW p
  PROVE  Without(s, p) = (CHOOSE g : Keeping(g, s, p))[Len(s)]
BY DEF Without, Keeping

Grown(g, s, p, k) ==
  g[k] = IF k = 0 THEN <<>> ELSE IF s[k] = p THEN g[k - 1] ELSE Append(g[k - 1], s[k])

LEMMA KeepingExists ==
  ASSUME NEW S, NEW s \in Seq(S), NEW p
  PROVE  \E g : Keeping(g, s, p)
<1> DEFINE Upto(n) == \E g \in [0 .. n -> Seq(S)] : \A k \in 0 .. n : Grown(g, s, p, k)
           T == {n \in Nat : n <= Len(s) => Upto(n)}
<1>1. 0 \in T
  <2> DEFINE g == [k \in 0 .. 0 |-> <<>>]
  <2>1. g \in [0 .. 0 -> Seq(S)] /\ \A k \in 0 .. 0 : Grown(g, s, p, k)
    BY DEF Grown
  <2> QED BY <2>1
<1>2. ASSUME NEW n \in T PROVE n + 1 \in T
  <2> SUFFICES ASSUME n + 1 <= Len(s) PROVE Upto(n + 1)
    OBVIOUS
  <2>1. n \in Nat /\ Upto(n)
    <3>1. n \in Nat /\ (n <= Len(s) => Upto(n))
      <4> HIDE DEF Upto
      <4> QED OBVIOUS
    <3>2. Len(s) \in Nat
      OBVIOUS
    <3>3. n <= Len(s)
      <4> HIDE DEF T, Upto
      <4> QED BY <3>1, <3>2
    <3> HIDE DEF T, Upto
    <3> QED BY <3>1, <3>3
  <2>2. PICK g \in [0 .. n -> Seq(S)] : \A k \in 0 .. n : Grown(g, s, p, k)
    BY <2>1
  <2> DEFINE h == [k \in 0 .. n + 1 |->
                     IF k <= n THEN g[k] ELSE IF s[k] = p THEN g[n] ELSE Append(g[n], s[k])]
  <2>3. s[n + 1] \in S /\ g[n] \in Seq(S)
    BY <2>1
  <2>4. h \in [0 .. n + 1 -> Seq(S)]
    BY <2>1, <2>3
  <2>5. ASSUME NEW k \in 0 .. n + 1 PROVE Grown(h, s, p, k)
    <3>1. CASE k <= n
      <4>1. k \in 0 .. n /\ h[k] = g[k] /\ (k # 0 => k - 1 \in 0 .. n /\ h[k - 1] = g[k - 1])
        BY <2>1, <3>1
      <4> HIDE DEF h
      <4> QED BY <2>2, <4>1 DEF Grown
    <3>2. CASE k = n + 1
      <4>1. h[k] = (IF s[k] = p THEN g[n] ELSE Append(g[n], s[k])) /\ h[k - 1] = g[n] /\ k # 0
        BY <2>1, <3>2
      <4> HIDE DEF h
      <4> QED BY <4>1 DEF Grown
    <3> QED BY <2>1, <3>1, <3>2
  <2> QED BY <2>4, <2>5
<1>3. Len(s) \in Nat /\ T \in SUBSET Nat
  OBVIOUS
<1> HIDE DEF T
<1>4. Len(s) \in T
  BY <1>1, <1>2, <1>3, NaturalsBySuccessor
<1> USE DEF T
<1>5. PICK g \in [0 .. Len(s) -> Seq(S)] : \A k \in 0 .. Len(s) : Grown(g, s, p, k)
  BY <1>3, <1>4
<1>6. Keeping(g, s, p)
  BY <1>5 DEF Keeping, Grown
<1> QED BY <1>6

LEMMA WithoutFits ==
  ASSUME NEW S, NEW s \in Seq(S), NEW p
  PROVE  Without(s, p) \in Seq(S) /\ Len(Without(s, p)) <= Len(s)
<1> DEFINE g == CHOOSE g : Keeping(g, s, p)
           T == {n \in Nat : n <= Len(s) => g[n] \in Seq(S) /\ Len(g[n]) <= n}
<1>1. Keeping(g, s, p)
  BY KeepingExists
<1> HIDE DEF g
<1>2. \A k \in 0 .. Len(s) : Grown(g, s, p, k)
  BY <1>1 DEF Keeping, Grown
<1>3. 0 \in T
  <2>1. g[0] = <<>>
    BY <1>2 DEF Grown
  <2>2. <<>> \in Seq(S) /\ Len(<<>>) = 0
    OBVIOUS
  <2>3. g[0] \in Seq(S) /\ Len(g[0]) <= 0
    BY <2>1, <2>2
  <2> QED BY <2>3
<1>4. ASSUME NEW n \in T PROVE n + 1 \in T
  <2> SUFFICES ASSUME n + 1 <= Len(s) PROVE g[n + 1] \in Seq(S) /\ Len(g[n + 1]) <= n + 1
    OBVIOUS
  <2>1. n \in Nat /\ g[n] \in Seq(S) /\ Len(g[n]) <= n /\ s[n + 1] \in S
    OBVIOUS
  <2>2. g[n + 1] = IF s[n + 1] = p THEN g[n] ELSE Append(g[n], s[n + 1])
    BY <1>2, <2>1 DEF Grown
  <2> QED BY <2>1, <2>2
<1>5. Len(s) \in Nat /\ T \in SUBSET Nat
  OBVIOUS
<1> HIDE DEF T
<1>6. Len(s) \in T
  BY <1>3, <1>4, <1>5, NaturalsBySuccessor
<1> USE DEF T
<1>7. g[Len(s)] \in Seq(S) /\ Len(g[Len(s)]) <= Len(s)
  BY <1>5, <1>6
<1> QED BY <1>7, WithoutUnfolded DEF g

LEMMA Least ==
  ASSUME NEW a \in Nat, NEW b \in Nat
  PROVE  Min({a, b}) \in {a, b} /\ Min({a, b}) <= a /\ Min({a, b}) <= b
<1>1. \E x \in {a, b} : \A y \in {a, b} : x <= y
  <2>1. CASE a <= b
    BY <2>1
  <2>2. CASE b <= a
    BY <2>2
  <2> QED BY <2>1, <2>2
<1> QED BY <1>1 DEF Min

\* The project that a page comes to show is the first of the rail.
LEMMA Remembered == RailPart /\ PagePart' /\ Remember => RailPart'
<1> SUFFICES ASSUME RailPart, PagePart', Remember PROVE RailPart'
  OBVIOUS
<1>1. CASE Seen' \in {Seen, 0}
  <2>1. viewed' = viewed
    BY <1>1 DEF Remember
  <2>2. ASSUME page' # 0, Resolved' PROVE viewed'[1] = page'
    <3>1. Seen' = page' /\ Seen = page'
      BY <1>1, <2>2 DEF Seen
    <3>2. page = page' /\ Resolved
      BY <2>2, <3>1 DEF Seen
    <3> QED BY <2>1, <2>2, <3>2 DEF RailPart, RailShowsPage
  <2> QED BY <2>1, <2>2 DEF RailPart, RailTypes, RailShowsPage
<1>2. CASE Seen' \notin {Seen, 0}
  <2> DEFINE rail == <<Seen'>> \o Without(viewed, Seen')
             m == Min({RailLimit, Len(rail)})
  <2>1. viewed' = SubSeq(rail, 1, m)
    BY <1>2 DEF Remember
  <2>2. Seen' = page' /\ page' \in Ids
    BY <1>2 DEF Seen, PagePart, PageTypes, NewestIsForThePage, Resolved
  <2>3. Without(viewed, Seen') \in Seq(Ids)
    BY WithoutFits DEF RailPart, RailTypes
  <2>4. rail \in Seq(Ids) /\ Len(rail) \in Nat \ {0} /\ rail[1] = page'
    BY <2>2, <2>3
  <2>5. m \in 1 .. Len(rail) /\ m <= RailLimit
    BY <2>4, Least, DetailAssumption
  <2> HIDE DEF rail, m
  <2>6. viewed' \in Seq(Ids) /\ Len(viewed') = m /\ viewed'[1] = page'
    BY <2>1, <2>4, <2>5
  <2> QED BY <2>5, <2>6 DEF RailPart, RailTypes, RailShowsPage
<1> QED BY <1>1, <1>2

\* Nothing is on the page when the rail is cleared.
LEMMA Forgotten == RailPart /\ Forget => RailPart'
<1> SUFFICES ASSUME RailPart, Forget PROVE RailPart'
  OBVIOUS
<1>1. page = 0 /\ page' = 0 /\ (RemoveView \/ ClearViewed)
  BY DEF Forget, pageVars, screen
<1>2. viewed \in Seq(Ids) /\ Len(viewed) <= RailLimit /\ RailLimit \in Nat
  BY DetailAssumption DEF RailPart, RailTypes
<1>3. viewed' \in Seq(Ids) /\ Len(viewed') <= RailLimit
  <2>1. ASSUME NEW p, viewed' = Without(viewed, p) PROVE viewed' \in Seq(Ids) /\ Len(viewed') <= RailLimit
    <3>1. viewed' \in Seq(Ids) /\ Len(viewed') <= Len(viewed)
      BY <1>2, <2>1, WithoutFits
    <3> QED BY <1>2, <3>1
  <2>2. CASE viewed' = <<>>
    BY <1>2, <2>2
  <2> QED BY <1>1, <2>1, <2>2 DEF RemoveView, ClearViewed
<1> QED BY <1>1, <1>3 DEF RailPart, RailTypes, RailShowsPage

------------------------------------------------------------------------------
(* The invariant.                                                           *)

LEMMA DInit == Init => DInv
<1> SUFFICES ASSUME Init PROVE DInv
  OBVIOUS
<1>1. PICK v \in FirstVisits : cookie = v[1] /\ page = v[2]
  BY DEF Init
<1>2. cookie \in Visitors /\ page \in Pages /\ Nobody \in Visitors
  BY <1>1, StartAssumption DEF Visitors
<1>3. HeaderPart
  <2>1. /\ session = Nobody /\ asked = cookie /\ mixed = FALSE
        /\ notices = FirstNotices /\ bell = {} /\ badge = 0 /\ polls = {}
    BY DEF Init, BellInit
  <2> QED
    BY <1>2, <2>1, BellAssumption, StartAssumption
    DEF HeaderPart, HeaderTypes, HeaderInv, NoticesNameProjects, HeaderFits, NoticesAreMine
<1>4. FormsPart
  <2>1. /\ forms = [f \in Forms |-> Blank] /\ typed = 0 /\ posts = {} /\ lost = {}
        /\ saved = [t \in 1 .. MaxTyped |-> 0]
    BY DEF Init
  <2>2. Blank \in Form /\ Blank.text = 0 /\ 0 \in Texts
    BY DetailAssumption DEF Blank, Form, Texts
  <2>3. forms \in [Forms -> Form] /\ \A f \in Forms : forms[f].text = 0
    BY <2>1, <2>2
  <2>4. FormsTypes
    BY <2>1, <2>2, <2>3 DEF FormsTypes
  <2>5. FormsInv
    BY <2>1, <2>3 DEF FormsInv, OneRequestEach, TextsAreNew, SavedTextsLeave, DraftsSavedOnce
  <2> QED BY <2>4, <2>5 DEF FormsPart
<1>5. /\ been = {page} /\ reviews = FirstReviews
      /\ market \in {{p} : p \in Ids} /\ listed = {}
      /\ found = IF page = 0 THEN "none" ELSE "asked"
      /\ shown = [reviews |-> {}, events |-> 0, log |-> 0] /\ settled = [s \in Slots |-> FALSE]
      /\ strays = {} /\ replyTo = 0 /\ posts = {} /\ preview = 0 /\ acts = {} /\ viewed = <<>>
  BY DEF Init
<1>6. PagePart
  <2>1. waits \in SUBSET Wait /\ \A w \in waits : w.project = page
    <3>1. \A s \in Slots : LET w == [slot |-> s, project |-> page, newest |-> TRUE]
                           IN w \in Wait /\ w.project = page
      BY <1>2 DEF Wait
    <3>2. waits = {} \/ waits = {[slot |-> s, project |-> page, newest |-> TRUE] : s \in Slots}
      BY DEF Init
    <3> QED BY <3>1, <3>2
  <2>2. shown \in Panel
    BY <1>5, Zero DEF Panel
  <2>3. reviews \in SUBSET Review
    BY <1>5, StartAssumption, DetailAssumption DEF Review, Texts
  <2>4. PageTypes
    BY <1>2, <1>5, <2>1, <2>2, <2>3 DEF PageTypes
  <2>5. ReviewsNumbered /\ AnswersNameReviews
    BY <1>5, StartAssumption DEF ReviewsNumbered, AnswersNameReviews
  <2>6. NewestIsForThePage /\ SlotsShowPage
    BY <1>5, <2>1 DEF NewestIsForThePage, Astray, SlotsShowPage
  <2> QED BY <2>4, <2>5, <2>6 DEF PagePart
<1>7. RailPart
  <2>1. ~Resolved
    BY <1>5 DEF Resolved
  <2> QED BY <1>5, <2>1, DetailAssumption DEF RailPart, RailTypes, RailShowsPage
<1> QED BY <1>3, <1>4, <1>6, <1>7, Parts

LEMMA DNext == DInv /\ [Next]_vars => DInv'
<1> SUFFICES ASSUME DInv, [Next]_vars PROVE DInv'
  OBVIOUS
<1>1. HeaderPart /\ FormsPart /\ PagePart /\ RailPart
  BY Parts
<1>2. CASE Next
  <2>1. HeaderPart' /\ FormsPart' /\ PagePart'
    BY <1>1, <1>2, HeaderStep, FormsStep, PageStep
  <2>2. RailPart'
    BY <1>1, <1>2, <2>1, Remembered, Forgotten DEF Next
  <2>3. DInv' <=> HeaderPart' /\ FormsPart' /\ PagePart' /\ RailPart'
    BY Parts, PTL
  <2> QED BY <2>1, <2>2, <2>3
<1>3. CASE UNCHANGED vars
  <2> USE DEF vars, bellVars, account, header, tables, list, screen, composer, dealings
  <2>1. UNCHANGED headerVars /\ UNCHANGED formsVars /\ UNCHANGED shownVars
    BY <1>3 DEF headerVars, formsVars, shownVars
  <2>2. HeaderPart' /\ FormsPart' /\ PagePart'
    BY <1>1, <2>1, HeaderFrame, FormsFrame, PageFrame
  <2>3. UNCHANGED <<page, found, listed, viewed>>
    BY <1>3
  <2>4. RailPart'
    BY <1>1, <2>3 DEF RailPart, RailTypes, RailShowsPage, Resolved
  <2>5. DInv' <=> HeaderPart' /\ FormsPart' /\ PagePart' /\ RailPart'
    BY Parts, PTL
  <2> QED BY <2>2, <2>4, <2>5
<1> QED BY <1>2, <1>3

\* Whatever the visitor clicks and in whatever order answers come, the page,
\* its forms and the header keep to the invariant.
THEOREM Invariance == Spec => []DInv
<1>1. Init => DInv
  BY DInit
<1>2. DInv /\ [Next]_vars => DInv'
  BY DNext
<1> QED BY <1>1, <1>2, PTL DEF Spec

\* Every variable that the properties speak of has its type.
THEOREM TypeCorrect == Spec => []TypeOK
<1>1. DInv => TypeOK
  BY DEF DInv
<1> QED BY <1>1, Invariance, PTL

\* The header shows what belongs to the account the page believes in: a poll
\* that was under way at a logout fills it neither for nobody nor for the next
\* account (the effects on the session, useProtoLiveApp.ts:2614-2665).
THEOREM HeaderIsMine == Spec => []NoticesAreMine
<1>1. DInv => NoticesAreMine
  BY DEF DInv, HeaderInv
<1> QED BY <1>1, Invariance, PTL

\* What is typed once is saved once unless an answer was lost, whatever the
\* visitor opens while it is under way (the handlers of the three forms).
THEOREM SavedOnce == Spec => []DraftsSavedOnce
<1>1. DInv => DraftsSavedOnce
  BY DEF DInv, FormsInv
<1> QED BY <1>1, Invariance, PTL

\* A page shows its own reviews, events and log once it has received them, but
\* where something was under way for another project when it was opened, and is
\* the first of the rail (the effects on detailProjectId and the handlers of the
\* forms, useProtoLiveApp.ts:407-462, 2149, 2187).
THEOREM OwnPageShown == Spec => []PageShowsItsOwn
<1>1. DInv => PageShowsItsOwn
  BY DEF DInv, PageInv
<1> QED BY <1>1, Invariance, PTL
=============================================================================
