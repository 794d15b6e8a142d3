-------------------------- MODULE NavigationProofs --------------------------
(***************************************************************************)
(* What is proved of the router.  An address is written by handlers, by    *)
(* two effects and by the browser, so its invariant relates the current    *)
(* entry to the screen.  A step is one of five kinds: a click that pushes  *)
(* an address (Go), a move through the history (PopState), the dialog, a   *)
(* page left without an address, and a render of the same screen for       *)
(* another session or another filter.  For each kind one lemma shows that  *)
(* the invariant is kept, that the screen keeps to the address, and that   *)
(* the history behind the visitor stays as it was.                         *)
(***************************************************************************)
EXTENDS Navigation, TLAPS

Entry == [path : Routes, admin : BOOLEAN, q : BOOLEAN]

\* The route or the screen names nothing that has an address of its own.
Bare(s) ==
  s.project = None /\ s.maker = None /\ s.discussion = None /\ s.conversation = None

\* /admin is written behind the addresses of the lists only, and so is a query.
Fits(a) ==
  /\ a.path # ViewRoute("admin")
  /\ a.admin => a.path \in {MarketRoute, SubmitRoute}
  /\ a.q => Bare(a.path)
EntriesFit == \A k \in DOMAIN entries : Fits(entries[k])

\* The dashboard and a profile leave the rest of the route empty.
Settled(s) ==
  /\ s.view = "admin" => Bare(s)
  /\ s.maker # None => s.view = "market" /\ s.project = None

\* What the current entry has in common with the screen s, in step or not.
Matches(a, s) ==
  /\ s.view = "admin" => a.path \in {MarketRoute, SubmitRoute}
  /\ a.admin => s.view = "admin"
  /\ Bare(s) => Bare(a.path)

\* While the dialog is open /admin is behind its address on the dashboard only.
DialogFits ==
  screen.submit => /\ Current.path = SubmitRoute
                   /\ OnScreen.view # "admin" => ~Current.admin

NInv ==
  /\ TypeOK /\ EntriesFit
  /\ Settled(screen) /\ Matches(Current, screen) /\ DialogFits

\* The two action properties, for one step.
Follows ==
  /\ InStep /\ ~InStep' => DialogToggled \/ DiscussionLeftOver \/ MarketUnaddressed
  /\ pos' < pos => InStep'
SameEntry(k) ==
  \/ entries'[k] = entries[k]
  \/ Shown(MatchRoute(entries'[k]), role', hydrating')
       = Shown(MatchRoute(entries[k]), role', hydrating')
  \/ k = pos /\ (OnDashboard \/ OnDashboard')
Kept ==
  /\ Len(entries') \in {Len(entries), pos + 1}
  /\ \A k \in DOMAIN entries :
       k <= pos \/ pos' <= pos => k \in DOMAIN entries' /\ SameEntry(k)

------------------------------------------------------------------------------
(* Routes and addresses.                                                   *)

LEMMA Distinct == /\ None \notin Projects /\ None \notin Makers /\ None \notin Threads
                  /\ None \notin Conversations /\ None # "list" /\ None # "new"
BY NoneAssumption

LEMMA MarketFields ==
  /\ MarketRoute \in Route
  /\ MarketRoute.view = "market" /\ MarketRoute.project = None /\ MarketRoute.maker = None
  /\ MarketRoute.submit = FALSE /\ MarketRoute.discussion = None
  /\ MarketRoute.conversation = None
BY DEF MarketRoute, Route, Views

LEMMA SubmitFields ==
  /\ SubmitRoute \in Route
  /\ SubmitRoute.view = "market" /\ SubmitRoute.project = None /\ SubmitRoute.maker = None
  /\ SubmitRoute.submit = TRUE /\ SubmitRoute.discussion = None
  /\ SubmitRoute.conversation = None
BY DEF MarketRoute, SubmitRoute, Route, Views

LEMMA ViewFields ==
  ASSUME NEW v \in Views
  PROVE  /\ ViewRoute(v) \in Route /\ ViewRoute(v) \in Routes
         /\ ViewRoute(v).view = v /\ ViewRoute(v).project = None /\ ViewRoute(v).maker = None
         /\ ViewRoute(v).submit = FALSE /\ ViewRoute(v).discussion = None
         /\ ViewRoute(v).conversation = None
<1>1. ViewRoute(v) \in {ViewRoute(w) : w \in Views}
  OBVIOUS
<1>2. ViewRoute(v) \in Routes
  BY <1>1 DEF Routes
<1> QED BY <1>2 DEF MarketRoute, ViewRoute, Route

LEMMA ProjectFields ==
  ASSUME NEW p \in Projects
  PROVE  /\ ProjectRoute(p) \in Route /\ ProjectRoute(p) \in Routes
         /\ ProjectRoute(p).view = "market" /\ ProjectRoute(p).project = p
         /\ ProjectRoute(p).maker = None /\ ProjectRoute(p).submit = FALSE
         /\ ProjectRoute(p).discussion = None /\ ProjectRoute(p).conversation = None
<1>1. ProjectRoute(p) \in {ProjectRoute(x) : x \in Projects}
  OBVIOUS
<1>2. ProjectRoute(p) \in Routes
  BY <1>1 DEF Routes
<1> QED BY <1>2 DEF MarketRoute, ProjectRoute, Route, Views

LEMMA DiscussionFields ==
  ASSUME NEW p \in Projects, NEW d \in Discussions
  PROVE  /\ DiscussionRoute(p, d) \in Route /\ DiscussionRoute(p, d) \in Routes
         /\ DiscussionRoute(p, d).view = "market" /\ DiscussionRoute(p, d).project = p
         /\ DiscussionRoute(p, d).maker = None /\ DiscussionRoute(p, d).submit = FALSE
         /\ DiscussionRoute(p, d).discussion = d /\ DiscussionRoute(p, d).conversation = None
<1>1. DiscussionRoute(p, d) \in {DiscussionRoute(x, y) : x \in Projects, y \in Discussions}
  OBVIOUS
<1>2. DiscussionRoute(p, d) \in Routes
  BY <1>1 DEF Routes
<1> QED BY <1>2 DEF MarketRoute, ProjectRoute, DiscussionRoute, Route, Views

LEMMA MakerFields ==
  ASSUME NEW m \in Makers
  PROVE  /\ MakerRoute(m) \in Route /\ MakerRoute(m) \in Routes
         /\ MakerRoute(m).view = "market" /\ MakerRoute(m).project = None
         /\ MakerRoute(m).maker = m /\ MakerRoute(m).submit = FALSE
         /\ MakerRoute(m).discussion = None /\ MakerRoute(m).conversation = None
<1>1. MakerRoute(m) \in {MakerRoute(x) : x \in Makers}
  OBVIOUS
<1>2. MakerRoute(m) \in Routes
  BY <1>1 DEF Routes
<1> QED BY <1>2 DEF MarketRoute, MakerRoute, Route, Views

LEMMA ConversationFields ==
  ASSUME NEW c \in Conversations
  PROVE  /\ ConversationRoute(c) \in Route /\ ConversationRoute(c) \in Routes
         /\ ConversationRoute(c).view = "messages" /\ ConversationRoute(c).project = None
         /\ ConversationRoute(c).maker = None /\ ConversationRoute(c).submit = FALSE
         /\ ConversationRoute(c).discussion = None /\ ConversationRoute(c).conversation = c
<1>1. ConversationRoute(c) \in {ConversationRoute(x) : x \in Conversations}
  OBVIOUS
<1>2. ConversationRoute(c) \in Routes
  BY <1>1 DEF Routes
<1> QED BY <1>2 DEF MarketRoute, ViewRoute, ConversationRoute, Route, Views

LEMMA DashboardRoute == "admin" \in Views /\ ViewRoute("admin").view = "admin"
<1>1. "admin" \in Views
  BY DEF Views, AdminViews
<1> QED BY <1>1, ViewFields

LEMMA TwoRoutes == MarketRoute \in Routes /\ SubmitRoute \in Routes
BY DEF Routes

\* What every route has that an address may stand for.
WellFormed(r) ==
  /\ r \in Route /\ Settled(r)
  /\ r.view = "admin" => r = ViewRoute("admin")
  /\ r.submit => r = SubmitRoute

LEMMA RoutesWellFormed == \A r \in Routes : WellFormed(r)
<1> SUFFICES ASSUME NEW r \in Routes PROVE WellFormed(r)
  OBVIOUS
<1> USE Distinct DEF WellFormed, Settled, Bare
<1>1. CASE r \in {MarketRoute, SubmitRoute}
  BY <1>1, MarketFields, SubmitFields
<1>2. ASSUME NEW v \in Views, r = ViewRoute(v) PROVE WellFormed(r)
  BY <1>2, ViewFields
<1>3. ASSUME NEW p \in Projects, r = ProjectRoute(p) PROVE WellFormed(r)
  BY <1>3, ProjectFields
<1>4. ASSUME NEW m \in Makers, r = MakerRoute(m) PROVE WellFormed(r)
  BY <1>4, MakerFields
<1>5. ASSUME NEW p \in Projects, NEW d \in Discussions, r = DiscussionRoute(p, d)
      PROVE  WellFormed(r)
  BY <1>5, DiscussionFields
<1>6. ASSUME NEW c \in Conversations, r = ConversationRoute(c) PROVE WellFormed(r)
  BY <1>6, ConversationFields
<1> QED BY <1>1, <1>2, <1>3, <1>4, <1>5, <1>6 DEF Routes

LEMMA AddressFits ==
  ASSUME NEW r \in Routes
  PROVE  /\ Address(r) \in Entry /\ Fits(Address(r)) /\ ~Address(r).q
         /\ r # ViewRoute("admin") => Address(r).path = r /\ ~Address(r).admin
         /\ r = ViewRoute("admin") => Address(r).path = MarketRoute /\ Address(r).admin
<1>1. "admin" \in Views
  BY DEF Views, AdminViews
<1>2. ViewRoute("admin") \notin {MarketRoute, SubmitRoute}
  BY <1>1, ViewFields, MarketFields, SubmitFields
<1> QED BY <1>2, TwoRoutes DEF Address, Entry, Fits

LEMMA AddressedRoute ==
  ASSUME NEW a \in Entry, Fits(a)
  PROVE  /\ MatchRoute(a) \in Route /\ WellFormed(MatchRoute(a))
         /\ Settled(MatchRoute(a)) /\ Matches(a, MatchRoute(a))
         /\ MatchRoute(a).view = "admin" <=> a.admin
         /\ MatchRoute(a).submit <=> a.path = SubmitRoute /\ ~a.admin
<1>1. /\ WellFormed(a.path) /\ "admin" \in Views /\ a.path \in Routes
  BY RoutesWellFormed DEF Entry, Views, AdminViews
<1>2. CASE a.admin
  BY <1>1, <1>2, ViewFields, MarketFields, SubmitFields
     DEF MatchRoute, WellFormed, Fits, Settled, Matches, Bare, Entry
<1>3. CASE ~a.admin
  BY <1>1, <1>3, ViewFields, MarketFields, SubmitFields
     DEF MatchRoute, WellFormed, Fits, Settled, Matches, Bare, Entry
<1> QED BY <1>2, <1>3

------------------------------------------------------------------------------
(* The page shown.                                                         *)

LEMMA EffectiveCases ==
  ASSUME NEW v, NEW r, NEW h
  PROVE  /\ v # "admin" => EffectiveView(v, r, h) = v
         /\ v = "admin" => EffectiveView(v, r, h) \in {"admin", "market"}
BY DEF EffectiveView

\* Only the dashboard's page depends on who is logged in, and no page on the
\* dialog above it.
LEMMA ShownForAnyone ==
  ASSUME NEW s \in Route, NEW r, NEW h
  PROVE  /\ s.view # "admin" => \A r2, h2 : Shown(s, r, h) = Shown(s, r2, h2)
         /\ \A b \in BOOLEAN : Shown([s EXCEPT !.submit = b], r, h) = Shown(s, r, h)
<1>1. s.view # "admin" => \A r2, h2 : EffectiveView(s.view, r2, h2) = s.view
  BY EffectiveCases
<1>2. s.view # "admin" => \A r2, h2 : Shown(s, r, h) = Shown(s, r2, h2)
  BY <1>1 DEF Shown
<1>3. \A b \in BOOLEAN : Shown([s EXCEPT !.submit = b], r, h) = Shown(s, r, h)
  BY DEF Shown, Route
<1> QED BY <1>2, <1>3

LEMMA DashboardShown ==
  ASSUME NEW s \in Route, s.view = "admin", s.maker = None, s.project = None, NEW r, NEW h
  PROVE  Shown(s, r, h) = IF EffectiveView("admin", r, h) = "admin" THEN ViewRoute("admin")
                                                                  ELSE MarketRoute
BY EffectiveCases DEF Shown

LEMMA ListsShown ==
  ASSUME NEW r, NEW h
  PROVE  /\ Shown(MarketRoute, r, h) = MarketRoute
         /\ Shown(SubmitRoute, r, h) = MarketRoute
         /\ Shown(ViewRoute("admin"), r, h)
              = IF EffectiveView("admin", r, h) = "admin" THEN ViewRoute("admin")
                                                         ELSE MarketRoute
<1>1. "admin" \in Views
  BY DEF Views, AdminViews
<1>2. Shown(ViewRoute("admin"), r, h)
        = IF EffectiveView("admin", r, h) = "admin" THEN ViewRoute("admin") ELSE MarketRoute
  BY <1>1, ViewFields, DashboardShown
<1>3. EffectiveView("market", r, h) = "market"
  BY EffectiveCases
<1> QED BY <1>2, <1>3, MarketFields, SubmitFields DEF Shown

\* On the screen the dashboard is seen under its own name only.
LEMMA ShownAsAdmin ==
  ASSUME NEW s \in Route, Settled(s), NEW r, NEW h
  PROVE  Shown(s, r, h).view = "admin"
           <=> s.view = "admin" /\ EffectiveView("admin", r, h) = "admin"
<1>1. "admin" \in Views /\ "messages" \in Views /\ s.view \in Views
  BY DEF Views, AdminViews, Route
<1>2. CASE s.maker # None
  <2>1. s.maker \in Makers /\ s.view = "market"
    BY <1>2 DEF Route, Settled
  <2>2. Shown(s, r, h) = MakerRoute(s.maker)
    BY <1>2 DEF Shown
  <2> QED BY <2>1, <2>2, MakerFields
<1>3. CASE s.maker = None /\ s.view = "admin"
  <2>1. s.project = None
    BY <1>3 DEF Settled, Bare
  <2>2. Shown(s, r, h) = IF EffectiveView("admin", r, h) = "admin" THEN ViewRoute("admin")
                                                                  ELSE MarketRoute
    BY <1>3, <2>1, DashboardShown
  <2> QED BY <1>1, <1>3, <2>2, ViewFields, MarketFields
<1>4. CASE s.maker = None /\ s.view # "admin"
  <2>1. EffectiveView(s.view, r, h) = s.view
    BY <1>4, EffectiveCases
  <2>2. CASE s.view = "messages"
    <3>1. Shown(s, r, h) = [ViewRoute("messages") EXCEPT !.conversation = s.conversation]
      BY <1>4, <2>1, <2>2 DEF Shown
    <3> QED BY <1>4, <3>1 DEF ViewRoute, MarketRoute
  <2>3. CASE s.view \notin {"messages", "market"}
    <3>1. Shown(s, r, h) = ViewRoute(s.view)
      BY <1>4, <2>1, <2>3 DEF Shown
    <3> QED BY <1>1, <1>4, <3>1, ViewFields
  <2>4. CASE s.view = "market" /\ s.project = None
    <3>1. Shown(s, r, h) = MarketRoute
      BY <1>4, <2>1, <2>4 DEF Shown
    <3> QED BY <1>4, <3>1, MarketFields
  <2>5. CASE s.view = "market" /\ s.project # None
    <3>1. Shown(s, r, h) = DiscussionRoute(s.project, s.discussion)
      BY <1>4, <2>1, <2>5 DEF Shown
    <3> QED BY <1>4, <3>1 DEF DiscussionRoute, ProjectRoute, MarketRoute
  <2> QED BY <2>2, <2>3, <2>4, <2>5
<1> QED BY <1>2, <1>3, <1>4

------------------------------------------------------------------------------
(* History and effects.                                                    *)

SameDependencies(s) ==
  Dependencies(s, role', hydrating', filters') = Dependencies(screen, role, hydrating, filters)

\* The screen s is rendered over the entries e at i: the effect on the filters
\* leaves the entry alone or rewrites what follows its path.
Rendered(s, e, i) ==
  /\ screen' = s /\ pos' = i
  /\ entries' \in Seq(Entry) /\ Len(entries') = Len(e) /\ Len(e) <= MaxHistory
  /\ \A k \in 1 .. Len(e) : k # i => entries'[k] = e[k]
  /\ entries'[i] \in Entry /\ entries'[i].path = e[i].path
  /\ LET v == EffectiveView(s.view, role', hydrating') IN
     \/ entries'[i] = e[i] /\ (SameDependencies(s) \/ OwnsDedicatedPath(s, v))
     \/ /\ Bare(s) /\ ~SameDependencies(s)
        /\ entries'[i].admin = (v = "admin") /\ entries'[i].q = filters'

\* d is e but for the fields of its entry i.
Flags(B) == [path : Routes, admin : B, q : B]
Rewritten(B, d, e, i, admin, q) ==
  /\ d \in Seq(Flags(B)) /\ Len(d) = Len(e)
  /\ \A k \in 1 .. Len(e) : k # i => d[k] = e[k]
  /\ d[i] \in Flags(B) /\ d[i].path = e[i].path /\ d[i].admin = admin /\ d[i].q = q

LEMMA AdminRewritten ==
  ASSUME NEW B, NEW e \in Seq(Flags(B)), NEW i \in 1 .. Len(e), NEW x \in B
  PROVE  Rewritten(B, [e EXCEPT ![i].admin = x], e, i, x, e[i].q)
<1> DEFINE b == [e[i] EXCEPT !.admin = x]
<1>1. e[i] \in Flags(B)
  OBVIOUS
<1>2. b \in Flags(B) /\ b.path = e[i].path /\ b.admin = x /\ b.q = e[i].q
  BY <1>1 DEF Flags
<1>3. [e EXCEPT ![i].admin = x] = [e EXCEPT ![i] = b]
  OBVIOUS
<1> HIDE DEF b
<1>4. /\ [e EXCEPT ![i] = b] \in Seq(Flags(B)) /\ Len([e EXCEPT ![i] = b]) = Len(e)
      /\ [e EXCEPT ![i] = b][i] = b
      /\ \A k \in 1 .. Len(e) : k # i => [e EXCEPT ![i] = b][k] = e[k]
  BY <1>2
<1> QED BY <1>2, <1>3, <1>4 DEF Rewritten

LEMMA QueryRewritten ==
  ASSUME NEW B, NEW e \in Seq(Flags(B)), NEW i \in 1 .. Len(e), NEW y \in B
  PROVE  Rewritten(B, [e EXCEPT ![i].q = y], e, i, e[i].admin, y)
<1> DEFINE b == [e[i] EXCEPT !.q = y]
<1>1. e[i] \in Flags(B)
  OBVIOUS
<1>2. b \in Flags(B) /\ b.path = e[i].path /\ b.admin = e[i].admin /\ b.q = y
  BY <1>1 DEF Flags
<1>3. [e EXCEPT ![i].q = y] = [e EXCEPT ![i] = b]
  OBVIOUS
<1> HIDE DEF b
<1>4. /\ [e EXCEPT ![i] = b] \in Seq(Flags(B)) /\ Len([e EXCEPT ![i] = b]) = Len(e)
      /\ [e EXCEPT ![i] = b][i] = b
      /\ \A k \in 1 .. Len(e) : k # i => [e EXCEPT ![i] = b][k] = e[k]
  BY <1>2
<1> QED BY <1>2, <1>3, <1>4 DEF Rewritten

LEMMA FilterSyncEffect ==
  ASSUME filters' \in BOOLEAN, NEW s, NEW e \in Seq(Entry), NEW i \in 1 .. Len(e),
         NEW h, SubmitSync(s, h) = [at |-> e, pos |-> i], Render(s, h)
  PROVE  Rendered(s, e, i)
<1> DEFINE v == EffectiveView(s.view, role', hydrating')
           g == [at |-> e, pos |-> i]
           c == SameDependencies(s) \/ OwnsDedicatedPath(s, v)
<1>1. e[i] \in Entry
  OBVIOUS
<1>2. /\ screen' = s /\ entries' = FilterSync(s, g).at /\ pos' = FilterSync(s, g).pos
      /\ Len(FilterSync(s, g).at) <= MaxHistory
  BY DEF Render
<1>3. CASE c
  <2>1. FilterSync(s, g) = g
    BY <1>3 DEF FilterSync, SameDependencies
  <2>2. entries' = e /\ pos' = i /\ Len(e) <= MaxHistory
    BY <1>2, <2>1
  <2> QED BY <1>1, <1>2, <1>3, <2>2 DEF Rendered
<1>4. CASE ~c
  <2>1. FilterSync(s, g) = [g EXCEPT !.at[g.pos].admin = (v = "admin"), !.at[g.pos].q = filters']
    BY <1>4 DEF FilterSync, SameDependencies
  <2> DEFINE x == (v = "admin")
  <2>2. x \in BOOLEAN /\ g = [at |-> e, pos |-> i] /\ e \in Seq(Flags(BOOLEAN))
    BY DEF Entry, Flags
  <2>3. FilterSync(s, g) = [g EXCEPT !.at[g.pos].admin = x, !.at[g.pos].q = filters']
    BY <2>1
  <2> HIDE DEF x, g
  <2> DEFINE d == [e EXCEPT ![i].admin = x]
             f == [d EXCEPT ![i].q = filters']
  <2>4. g.at = e /\ g.pos = i /\ g = [at |-> e, pos |-> i]
    BY DEF g
  <2>5. FilterSync(s, g).pos = i /\ FilterSync(s, g).at = f
    BY <2>3, <2>4
  <2>6. Rewritten(BOOLEAN, d, e, i, x, e[i].q)
    BY <2>2, AdminRewritten
  <2> HIDE DEF d
  <2>7. d \in Seq(Flags(BOOLEAN)) /\ i \in 1 .. Len(d)
    BY <2>6 DEF Rewritten
  <2>8. Rewritten(BOOLEAN, f, d, i, d[i].admin, filters')
    BY <2>7, QueryRewritten
  <2> HIDE DEF f
  <2>9. Rewritten(BOOLEAN, f, e, i, x, filters')
    BY <2>6, <2>8 DEF Rewritten
  <2>10. FilterSync(s, g).pos = i /\ Rewritten(BOOLEAN, FilterSync(s, g).at, e, i, x, filters')
    BY <2>5, <2>9
  <2> USE DEF x, g
  <2>11. pos' = i /\ Rewritten(BOOLEAN, entries', e, i, (v = "admin"), filters')
    BY <1>2, <2>10
  <2>12. Len(e) <= MaxHistory
    BY <1>2, <2>11 DEF Rewritten
  <2>13. Bare(s) /\ ~SameDependencies(s)
    BY <1>4 DEF OwnsDedicatedPath, Bare
  <2> QED BY <1>2, <2>11, <2>12, <2>13 DEF Rendered, Rewritten, Entry, Flags
<1> QED BY <1>3, <1>4

\* When the dialog stays as it was, or the address says so already.
LEMMA DialogKept ==
  ASSUME filters' \in BOOLEAN, NEW s, NEW e \in Seq(Entry), NEW i \in 1 .. Len(e),
         Render(s, [at |-> e, pos |-> i]),
         s.submit = screen.submit \/ s.submit = MatchRoute(e[i]).submit
  PROVE  Rendered(s, e, i)
<1>1. SubmitSync(s, [at |-> e, pos |-> i]) = [at |-> e, pos |-> i]
  BY DEF SubmitSync
<1> QED BY <1>1, FilterSyncEffect

\* The entries up to the current one, and another.
Extended(r) == Append(SubSeq(entries, 1, pos), Address(r))

LEMMA EntriesTyped ==
  ASSUME TypeOK
  PROVE  /\ entries \in Seq(Entry) /\ pos \in 1 .. Len(entries)
         /\ Len(entries) \in 1 .. MaxHistory /\ MaxHistory \in Nat \ {0}
         /\ Current \in Entry
<1>1. entries \in Seq(Entry) /\ Len(entries) \in 1 .. MaxHistory /\ pos \in DOMAIN entries
  BY DEF TypeOK, Entry
<1>2. pos \in 1 .. Len(entries)
  BY <1>1
<1> QED BY <1>1, <1>2, BoundAssumption DEF Current

LEMMA PushedEntries ==
  ASSUME TypeOK, NEW r \in Routes
  PROVE  /\ Extended(r) \in Seq(Entry) /\ Len(Extended(r)) = pos + 1
         /\ pos + 1 \in 1 .. Len(Extended(r))
         /\ \A k \in 1 .. pos : Extended(r)[k] = entries[k]
         /\ Extended(r)[pos + 1] = Address(r)
         /\ Pushed(History, r) = [at |-> Extended(r), pos |-> pos + 1]
<1>1. Address(r) \in Entry
  BY AddressFits
<1>2. entries \in Seq(Entry) /\ pos \in 1 .. Len(entries)
  BY EntriesTyped
<1>3. /\ SubSeq(entries, 1, pos) \in Seq(Entry) /\ Len(SubSeq(entries, 1, pos)) = pos
      /\ \A k \in 1 .. pos : SubSeq(entries, 1, pos)[k] = entries[k]
  BY <1>2
<1>4. Pushed(History, r) = [at |-> Extended(r), pos |-> pos + 1]
  BY DEF Pushed, History, Extended
<1>5. /\ Extended(r) \in Seq(Entry) /\ Len(Extended(r)) = pos + 1
      /\ \A k \in 1 .. pos : Extended(r)[k] = entries[k]
      /\ Extended(r)[pos + 1] = Address(r)
  BY <1>1, <1>2, <1>3 DEF Extended
<1> QED BY <1>2, <1>4, <1>5

\* What is left to show when a step renders the screen s over the entries e.
LEMMA RenderedInv ==
  ASSUME NEW s \in Route, NEW e \in Seq(Entry), NEW i \in 1 .. Len(e), Rendered(s, e, i),
         role' \in Roles, hydrating' \in BOOLEAN, pending' \in BOOLEAN,
         typed' \in BOOLEAN, filters' \in BOOLEAN,
         \A k \in 1 .. Len(e) : k # i => Fits(e[k]), Fits(entries'[i]),
         Settled(s), Matches(entries'[i], s), DialogFits'
  PROVE  NInv'
<1>1. /\ screen' = s /\ pos' = i /\ entries' \in Seq(Entry) /\ Len(entries') = Len(e)
      /\ Len(entries') \in 1 .. MaxHistory
      /\ \A k \in 1 .. Len(e) : k # i => entries'[k] = e[k]
  BY BoundAssumption DEF Rendered
<1>2. DOMAIN entries' = 1 .. Len(e)
  BY <1>1
<1>3. TypeOK'
  BY <1>1, <1>2 DEF TypeOK, Entry
<1>4. EntriesFit'
  BY <1>1, <1>2 DEF EntriesFit
<1>5. Settled(screen)' /\ Matches(Current, screen)'
  BY <1>1 DEF Settled, Matches, Current, Bare
<1> QED BY <1>3, <1>4, <1>5 DEF NInv

LEMMA EntriesInv ==
  ASSUME NInv
  PROVE  /\ \A k \in 1 .. Len(entries) : entries[k] \in Entry /\ Fits(entries[k])
         /\ Current \in Entry /\ Fits(Current) /\ screen \in Route
         /\ role \in Roles /\ hydrating \in BOOLEAN /\ pending \in BOOLEAN
         /\ typed \in BOOLEAN /\ filters \in BOOLEAN
<1>1. TypeOK /\ EntriesFit
  BY DEF NInv
<1>2. /\ entries \in Seq(Entry) /\ pos \in 1 .. Len(entries)
  BY <1>1, EntriesTyped
<1>3. \A k \in 1 .. Len(entries) : entries[k] \in Entry /\ Fits(entries[k])
  BY <1>1, <1>2 DEF EntriesFit
<1> QED BY <1>1, <1>2, <1>3 DEF TypeOK, Current

------------------------------------------------------------------------------
(* Clicks that push the address of the route r and leave the screen s.     *)

Addressed(s, r) ==
  /\ s \in Route /\ r \in Routes /\ Settled(s) /\ ~s.submit /\ ~screen.submit /\ ~r.submit
  /\ s.view = "admin" => r = ViewRoute("admin") /\ role = "admin"
  /\ r = ViewRoute("admin") => s.view = "admin"
  /\ Bare(s) => Bare(r)
  /\ \/ Shown(s, role, hydrating) = Shown(r, role, hydrating)
     \/ screen.discussion # None /\ s.discussion # None /\ s.project # None

LEMMA GoKeeps ==
  ASSUME NInv, NEW s, NEW r, Addressed(s, r), Go(s, r)
  PROVE  NInv' /\ Follows /\ Kept
<1> DEFINE e == Extended(r)
           i == pos + 1
           a == entries'[i]
<1>1. TypeOK /\ UnchangedButRoute /\ s \in Route /\ r \in Routes
  BY DEF NInv, Go, Addressed
<1>2. filters' \in BOOLEAN /\ s.submit = screen.submit
  BY <1>1, EntriesInv DEF UnchangedButRoute, Addressed, Route
<1>3. /\ e \in Seq(Entry) /\ Len(e) = i /\ i \in 1 .. Len(e)
      /\ \A k \in 1 .. pos : e[k] = entries[k]
      /\ e[i] = Address(r) /\ Render(s, [at |-> e, pos |-> i])
  BY <1>1, PushedEntries DEF Go
<1> HIDE DEF e
<1>4. Rendered(s, e, i)
  BY <1>2, <1>3, DialogKept
<1>5. /\ Address(r) \in Entry /\ Fits(Address(r)) /\ ~Address(r).q
      /\ r # ViewRoute("admin") => Address(r).path = r /\ ~Address(r).admin
      /\ r = ViewRoute("admin") => Address(r).path = MarketRoute /\ Address(r).admin
  BY <1>1, AddressFits
<1>6. EffectiveView(s.view, role', hydrating') = "admin" <=> r = ViewRoute("admin")
  BY <1>1 DEF Addressed, EffectiveView, UnchangedButRoute
<1>7. a \in Entry /\ a.path = Address(r).path /\ (a.admin <=> r = ViewRoute("admin"))
  BY <1>3, <1>4, <1>5, <1>6 DEF Rendered, Entry
<1>8. a.q => Bare(s)
  BY <1>3, <1>4, <1>5 DEF Rendered
<1>9. Bare(s) => Bare(a.path)
  BY <1>5, <1>7, MarketFields DEF Addressed, Bare
<1>10. Fits(a) /\ Matches(a, s) /\ MatchRoute(a) = r
  BY <1>5, <1>7, <1>8, <1>9 DEF Fits, Matches, MatchRoute, Addressed
<1>11. screen' = s /\ pos' = i /\ Current' = a
  BY <1>4 DEF Rendered, Current
<1>12. NInv'
  <2>1. DialogFits'
    BY <1>11 DEF DialogFits, Addressed
  <2>2. \A k \in 1 .. Len(e) : k # i => Fits(e[k])
    BY <1>1, <1>3, EntriesInv, EntriesTyped
  <2> QED BY <1>1, <1>3, <1>4, <1>10, <2>1, <2>2, RenderedInv, EntriesInv
          DEF UnchangedButRoute, Addressed
<1>13. Follows
  <2>1. InStep' <=> Shown(s, role, hydrating) = Shown(r, role, hydrating)
    BY <1>1, <1>10, <1>11 DEF InStep, OnScreen, PageOf, UnchangedButRoute
  <2>2. ~(pos' < pos)
    BY <1>1, <1>11, EntriesTyped
  <2> QED BY <1>11, <2>1, <2>2 DEF Follows, DiscussionLeftOver, Addressed
<1>14. Kept
  <2>1. Len(entries') = i /\ \A k \in 1 .. pos : entries'[k] = entries[k] /\ k \in DOMAIN entries'
    BY <1>1, <1>3, <1>4, EntriesTyped DEF Rendered
  <2>2. \A k \in DOMAIN entries : k <= pos \/ pos' <= pos => k \in 1 .. pos
    BY <1>1, <1>11, EntriesTyped
  <2> QED BY <2>1, <2>2 DEF Kept, SameEntry
<1> QED BY <1>12, <1>13, <1>14

\* What decides which page is shown.
LEMMA ShownAlike ==
  ASSUME NEW s, NEW t, NEW r, NEW h, s.view = t.view, s.maker = t.maker,
         s.view = "messages" => s.conversation = t.conversation,
         s.view \in {"market", "admin"} =>
           s.project = t.project /\ (s.project # None => s.discussion = t.discussion)
  PROVE  Shown(s, r, h) = Shown(t, r, h)
<1>1. s.view \notin {"market", "admin"} => EffectiveView(s.view, r, h) \notin {"market", "admin"}
  BY DEF EffectiveView
<1>2. EffectiveView(s.view, r, h) = "messages" => s.view = "messages"
  BY DEF EffectiveView
<1> QED BY <1>1, <1>2 DEF Shown

LEMMA ProjectOnScreen ==
  ASSUME NEW s \in Route, Settled(s), NEW r, NEW h, Shown(s, r, h).project # None
  PROVE  s.maker = None /\ s.view = "market"
<1>1. s.view \in Views /\ s.maker \in Makers \cup {None} /\ "messages" \in Views
  BY DEF Route, Views
<1>2. s.maker = None
  <2>1. CASE s.maker # None
    <3>1. Shown(s, r, h) = MakerRoute(s.maker) /\ s.maker \in Makers
      BY <1>1, <2>1 DEF Shown
    <3> QED BY <3>1, MakerFields
  <2> QED BY <2>1
<1>3. s.view # "admin"
  <2>1. CASE s.view = "admin"
    <3>1. Shown(s, r, h) \in {ViewRoute("admin"), MarketRoute}
      BY <1>2, <2>1, DashboardShown DEF Settled, Bare
    <3> QED BY <1>1, <2>1, <3>1, ViewFields, MarketFields
  <2> QED BY <2>1
<1>4. EffectiveView(s.view, r, h) = s.view
  BY <1>3, EffectiveCases
<1>5. s.view # "messages"
  <2>1. CASE s.view = "messages"
    <3>1. Shown(s, r, h) = [ViewRoute("messages") EXCEPT !.conversation = s.conversation]
      BY <1>2, <1>4, <2>1 DEF Shown
    <3> QED BY <3>1 DEF ViewRoute, MarketRoute
  <2> QED BY <2>1
<1>6. CASE s.view # "market"
  <2>1. Shown(s, r, h) = ViewRoute(s.view)
    BY <1>2, <1>4, <1>5, <1>6 DEF Shown
  <2> QED BY <1>1, <2>1, ViewFields
<1> QED BY <1>2, <1>6

LEMMA MessagesOnScreen ==
  ASSUME NEW s \in Route, Settled(s), NEW r, NEW h, Shown(s, r, h).view = "messages"
  PROVE  s.maker = None /\ s.view = "messages"
<1>1. s.view \in Views /\ s.maker \in Makers \cup {None}
  BY DEF Route
<1>2. s.maker = None
  <2>1. CASE s.maker # None
    <3>1. Shown(s, r, h) = MakerRoute(s.maker) /\ s.maker \in Makers
      BY <1>1, <2>1 DEF Shown
    <3> QED BY <3>1, MakerFields
  <2> QED BY <2>1
<1>3. CASE s.view = "admin"
  <2>1. Shown(s, r, h) \in {ViewRoute("admin"), MarketRoute}
    BY <1>2, <1>3, DashboardShown DEF Settled, Bare
  <2> QED BY <1>1, <1>3, <2>1, ViewFields, MarketFields
<1>4. CASE s.view \notin {"admin", "messages"}
  <2>1. EffectiveView(s.view, r, h) = s.view
    BY <1>4, EffectiveCases
  <2>2. CASE s.view # "market"
    <3>1. Shown(s, r, h) = ViewRoute(s.view)
      BY <1>2, <1>4, <2>1, <2>2 DEF Shown
    <3> QED BY <1>1, <1>4, <3>1, ViewFields
  <2>3. CASE s.view = "market" /\ s.project = None
    <3>1. Shown(s, r, h) = MarketRoute
      BY <1>2, <2>1, <2>3 DEF Shown
    <3> QED BY <3>1, MarketFields
  <2>4. CASE s.view = "market" /\ s.project # None
    <3>1. Shown(s, r, h) = DiscussionRoute(s.project, s.discussion)
      BY <1>2, <2>1, <2>4 DEF Shown
    <3> QED BY <3>1 DEF DiscussionRoute, ProjectRoute, MarketRoute
  <2> QED BY <2>2, <2>3, <2>4
<1> QED BY <1>2, <1>3, <1>4

Good == NInv' /\ Follows /\ Kept

LEMMA ScreenFields ==
  ASSUME NInv
  PROVE  /\ screen \in Route /\ Settled(screen)
         /\ screen.view \in Views /\ screen.project \in Projects \cup {None}
         /\ screen.maker \in Makers \cup {None} /\ screen.submit \in BOOLEAN
         /\ screen.discussion \in Discussions \cup {None}
         /\ screen.conversation \in Conversations \cup {None}
BY EntriesInv DEF NInv, Route

\* The screens that the views of the header leave.
LEMMA ViewClick ==
  ASSUME NInv, NEW v \in Views, v = "admin" => role = "admin", ~screen.submit,
         NEW s \in Route, s.view = v, s.project = None, s.maker = None, s.submit = FALSE,
         v \in {"admin", "messages"} => s.discussion = None /\ s.conversation = None,
         Go(s, ViewRoute(v))
  PROVE  Good
<1>1. /\ ViewRoute(v) \in Routes /\ ViewRoute(v).view = v /\ ~ViewRoute(v).submit
      /\ Bare(ViewRoute(v)) /\ ViewRoute(v).maker = None /\ ViewRoute(v).project = None
      /\ ViewRoute(v).conversation = None
  BY ViewFields DEF Bare
<1>2. Shown(s, role, hydrating) = Shown(ViewRoute(v), role, hydrating)
  BY <1>1, ShownAlike
<1>3. "admin" \in Views /\ ViewRoute("admin").view = "admin"
  BY DashboardRoute
<1>4. Addressed(s, ViewRoute(v))
  BY <1>1, <1>2, <1>3 DEF Addressed, Settled, Bare
<1> QED BY <1>4, GoKeeps DEF Good

LEMMA GoHomeGood == NInv /\ GoHome => Good
<1> SUFFICES ASSUME NInv, GoHome PROVE Good
  OBVIOUS
<1> DEFINE s == LeaveOverlays("market")
<1>1. s \in Route /\ s.view = "market" /\ s.maker = None /\ s.project = None /\ s.submit = FALSE
  BY ScreenFields DEF LeaveOverlays, Route, Views, GoHome
<1> HIDE DEF s
<1>2. Shown(s, role, hydrating) = Shown(MarketRoute, role, hydrating)
  BY <1>1, MarketFields, ShownAlike
<1>3. MarketRoute # ViewRoute("admin")
  BY MarketFields, DashboardRoute
<1>4. Addressed(s, MarketRoute)
  BY <1>1, <1>2, <1>3, TwoRoutes, MarketFields DEF Addressed, Settled, Bare, GoHome
<1> QED BY <1>4, GoKeeps DEF Good, GoHome, s

LEMMA OpenViewGood ==
  ASSUME NInv
  PROVE  /\ \A v \in PublicViews : OpenPublic(v) => Good
         /\ \A v \in AdminViews : OpenAdminArea(v) => Good
         /\ OpenSupport => Good
         /\ OpenMessages => Good
<1>1. \A v \in Views : ~screen.submit =>
        /\ LeaveOverlays(v) \in Route /\ LeaveOverlays(v).view = v
        /\ LeaveOverlays(v).project = None /\ LeaveOverlays(v).maker = None
        /\ LeaveOverlays(v).submit = FALSE
        /\ OnlyView(v) \in Route /\ OnlyView(v).view = v
        /\ OnlyView(v).project = None /\ OnlyView(v).maker = None
        /\ OnlyView(v).submit = FALSE
        /\ OnlyView(v).discussion = None /\ OnlyView(v).conversation = None
  BY ScreenFields DEF LeaveOverlays, OnlyView, Route
<1>2. ASSUME NEW v \in PublicViews, OpenPublic(v) PROVE Good
  <2>1. v \in Views /\ v \notin {"admin", "messages"}
    BY PublicAssumption DEF Views
  <2> QED BY <1>1, <1>2, <2>1, ViewClick DEF OpenPublic
<1>3. ASSUME NEW v \in AdminViews, OpenAdminArea(v) PROVE Good
  <2>1. v \in Views
    BY DEF Views
  <2> QED BY <1>1, <1>3, <2>1, ViewClick DEF OpenAdminArea
<1>4. CASE OpenSupport
  BY <1>1, <1>4, ViewClick DEF OpenSupport, Views
<1>5. CASE OpenMessages
  BY <1>1, <1>5, ViewClick DEF OpenMessages, Views
<1> QED BY <1>2, <1>3, <1>4, <1>5

\* A page inside the market or the messages: r is what the screen s is.
LEMMA PageClick ==
  ASSUME NInv, ~screen.submit, NEW s \in Route, NEW r \in Routes, ~s.submit, ~r.submit,
         s.view = r.view, s.view # "admin", s.maker = r.maker, Settled(s),
         Bare(s) => Bare(r), s.view = "messages" => s.conversation = r.conversation,
         s.view = "market" => s.project = r.project,
         \/ s.project # None => s.discussion = r.discussion
         \/ screen.discussion # None /\ s.discussion # None /\ s.project # None,
         Go(s, r)
  PROVE  Good
<1>1. CASE s.project # None => s.discussion = r.discussion
  <2>1. Shown(s, role, hydrating) = Shown(r, role, hydrating)
    BY <1>1, ShownAlike
  <2> QED BY <2>1, DashboardRoute, GoKeeps DEF Addressed, Good
<1>2. CASE screen.discussion # None /\ s.discussion # None /\ s.project # None
  BY <1>2, DashboardRoute, GoKeeps DEF Addressed, Good
<1> QED BY <1>1, <1>2

LEMMA OpenProjectGood == NInv => \A p \in Projects : OpenProject(p) => Good
<1> SUFFICES ASSUME NInv, NEW p \in Projects, OpenProject(p) PROVE Good
  OBVIOUS
<1> DEFINE s == [screen EXCEPT !.maker = None, !.project = p, !.view = "market"]
<1>1. /\ s \in Route /\ s.view = "market" /\ s.maker = None /\ s.project = p /\ ~s.submit
      /\ s.discussion = screen.discussion
  BY ScreenFields DEF Route, Views, OpenProject
<1>2. Go(s, ProjectRoute(p)) /\ ~screen.submit
  BY DEF OpenProject
<1> HIDE DEF s
<1> QED BY <1>1, <1>2, ProjectFields, PageClick, Distinct DEF Settled, Bare

\* A page of a project is open.
LEMMA ProjectPage ==
  ASSUME NInv, screen.project # None, NEW d, Page(DiscussionRoute(screen.project, d))
  PROVE  /\ screen.project \in Projects /\ screen.maker = None /\ screen.view = "market"
         /\ ~screen.submit
<1>1. screen.project \in Projects /\ ~screen.submit
  BY ScreenFields DEF Page
<1>2. DiscussionRoute(screen.project, d).project = screen.project
  BY DEF DiscussionRoute, ProjectRoute, MarketRoute
<1>3. Shown(screen, role, hydrating).project # None
  BY <1>2 DEF Page, OnScreen
<1> QED BY <1>1, <1>3, ScreenFields, ProjectOnScreen

LEMMA ProjectPageAlone ==
  ASSUME NInv, screen.project # None, Page(ProjectRoute(screen.project))
  PROVE  /\ screen.project \in Projects /\ screen.maker = None /\ screen.view = "market"
         /\ ~screen.submit
<1>1. screen.project \in Projects /\ ~screen.submit
  BY ScreenFields DEF Page
<1>2. Shown(screen, role, hydrating).project # None
  BY <1>1, ProjectFields DEF Page, OnScreen
<1> QED BY <1>1, <1>2, ScreenFields, ProjectOnScreen

LEMMA CloseProjectGood == NInv /\ CloseProject => Good
<1> SUFFICES ASSUME NInv, CloseProject PROVE Good
  OBVIOUS
<1> DEFINE s == [screen EXCEPT !.project = None]
<1>1. screen.maker = None /\ screen.view = "market" /\ ~screen.submit
  BY ProjectPageAlone DEF CloseProject
<1>2. s \in Route /\ s.view = "market" /\ s.maker = None /\ s.project = None /\ ~s.submit
  BY <1>1, ScreenFields DEF Route
<1>3. Go(s, MarketRoute)
  BY DEF CloseProject
<1> HIDE DEF s
<1> QED BY <1>1, <1>2, <1>3, TwoRoutes, MarketFields, PageClick DEF Settled, Bare

LEMMA CloseMakerGood == NInv /\ CloseMaker => Good
<1> SUFFICES ASSUME NInv, CloseMaker PROVE Good
  OBVIOUS
<1> DEFINE s == [screen EXCEPT !.maker = None]
<1>1. screen.project = None /\ screen.view = "market" /\ ~screen.submit
  BY ScreenFields DEF CloseMaker, Page, Settled
<1>2. s \in Route /\ s.view = "market" /\ s.maker = None /\ s.project = None /\ ~s.submit
  BY <1>1, ScreenFields DEF Route
<1>3. Go(s, MarketRoute)
  BY DEF CloseMaker
<1> HIDE DEF s
<1> QED BY <1>1, <1>2, <1>3, TwoRoutes, MarketFields, PageClick DEF Settled, Bare

LEMMA OpenMakerGood == NInv => \A m \in Makers : OpenMaker(m) => Good
<1> SUFFICES ASSUME NInv, NEW m \in Makers, OpenMaker(m) PROVE Good
  OBVIOUS
<1> DEFINE s == [screen EXCEPT !.project = None, !.maker = m, !.view = "market"]
<1>1. ~screen.submit /\ Go(s, MakerRoute(m))
  BY DEF OpenMaker, Page
<1>2. s \in Route /\ s.view = "market" /\ s.maker = m /\ s.project = None /\ ~s.submit
  BY <1>1, ScreenFields DEF Route, Views
<1> HIDE DEF s
<1> QED BY <1>1, <1>2, MakerFields, PageClick, Distinct DEF Settled, Bare

LEMMA OpenDiscussionGood == NInv => \A d \in Discussions : OpenDiscussion(d) => Good
<1> SUFFICES ASSUME NInv, NEW d \in Discussions, OpenDiscussion(d) PROVE Good
  OBVIOUS
<1> DEFINE s == [screen EXCEPT !.discussion = d]
           p == screen.project
<1>1. p \in Projects /\ screen.maker = None /\ screen.view = "market" /\ ~screen.submit
  BY ProjectPage DEF OpenDiscussion
<1>2. /\ s \in Route /\ s.view = "market" /\ s.maker = None /\ s.project = p /\ ~s.submit
      /\ s.discussion = d
  BY <1>1, ScreenFields DEF Route
<1>3. Go(s, DiscussionRoute(p, d))
  BY DEF OpenDiscussion
<1> DEFINE t == DiscussionRoute(p, d)
<1>4. /\ t \in Routes /\ t.view = "market" /\ t.maker = None /\ t.project = p /\ ~t.submit
      /\ t.discussion = d
  BY <1>1, DiscussionFields
<1> HIDE DEF s, p, t
<1>5. s.project # None /\ s.view # "admin" /\ s.view # "messages"
  BY <1>1, <1>2, Distinct
<1> QED BY <1>1, <1>2, <1>3, <1>4, <1>5, PageClick DEF Settled, Bare, t

LEMMA CloseDiscussionsGood == NInv /\ CloseDiscussions => Good
<1> SUFFICES ASSUME NInv, CloseDiscussions PROVE Good
  OBVIOUS
<1> DEFINE s == [screen EXCEPT !.discussion = None]
           p == screen.project
<1>1. p \in Projects /\ screen.maker = None /\ screen.view = "market" /\ ~screen.submit
  BY ProjectPage DEF CloseDiscussions
<1>2. /\ s \in Route /\ s.view = "market" /\ s.maker = None /\ s.project = p /\ ~s.submit
      /\ s.discussion = None
  BY <1>1, ScreenFields DEF Route
<1>3. Go(s, ProjectRoute(p))
  BY DEF CloseDiscussions
<1> HIDE DEF s, p
<1> QED BY <1>1, <1>2, <1>3, ProjectFields, PageClick, Distinct DEF Settled, Bare

LEMMA ConversationGood ==
  ASSUME NInv
  PROVE  /\ \A c \in Conversations : OpenConversation(c) => Good
         /\ CloseConversation => Good
<1>1. InMessages => screen.maker = None /\ screen.view = "messages" /\ ~screen.submit
  BY ScreenFields, MessagesOnScreen DEF InMessages, OnScreen
<1>2. ASSUME NEW c \in Conversations, OpenConversation(c) PROVE Good
  <2> DEFINE s == [screen EXCEPT !.conversation = c]
             t == ConversationRoute(c)
  <2>1. screen.maker = None /\ screen.view = "messages" /\ ~screen.submit
    BY <1>1, <1>2 DEF OpenConversation
  <2>2. /\ s \in Route /\ s.view = "messages" /\ s.maker = None /\ ~s.submit
        /\ s.conversation = c
    BY <2>1, ScreenFields DEF Route
  <2>3. Go(s, t)
    BY <1>2 DEF OpenConversation
  <2>4. /\ t \in Routes /\ t.view = "messages" /\ t.maker = None /\ ~t.submit
        /\ t.conversation = c
    BY ConversationFields
  <2> HIDE DEF s, t
  <2>5. Shown(s, role, hydrating) = Shown(t, role, hydrating)
    BY <2>2, <2>4, ShownAlike
  <2>6. ~Bare(s)
    BY <2>2, Distinct DEF Bare
  <2>7. Addressed(s, t)
    BY <2>1, <2>2, <2>4, <2>5, <2>6, DashboardRoute DEF Addressed, Settled
  <2> QED BY <2>3, <2>7, GoKeeps DEF Good
<1>3. CASE CloseConversation
  <2> DEFINE s == [screen EXCEPT !.conversation = None]
             t == ViewRoute("messages")
  <2>1. screen.maker = None /\ screen.view = "messages" /\ ~screen.submit
    BY <1>1, <1>3 DEF CloseConversation
  <2>2. /\ s \in Route /\ s.view = "messages" /\ s.maker = None /\ ~s.submit
        /\ s.conversation = None
    BY <2>1, ScreenFields DEF Route
  <2>3. Go(s, t)
    BY <1>3 DEF CloseConversation
  <2>4. /\ t \in Routes /\ t.view = "messages" /\ t.maker = None /\ ~t.submit /\ Bare(t)
        /\ t.conversation = None
    BY ViewFields DEF Views, Bare
  <2> HIDE DEF s, t
  <2>5. Shown(s, role, hydrating) = Shown(t, role, hydrating)
    BY <2>2, <2>4, ShownAlike
  <2>6. Addressed(s, t)
    BY <2>1, <2>2, <2>4, <2>5, DashboardRoute DEF Addressed, Settled
  <2> QED BY <2>3, <2>6, GoKeeps DEF Good
<1> QED BY <1>2, <1>3

------------------------------------------------------------------------------
(* Moves through the history.                                              *)

\* The effect on the filters leaves the page of the entry it rewrites alone.
LEMMA SamePage ==
  ASSUME NEW a \in Entry, Fits(a), NEW b \in Entry, b.path = a.path, NEW r, NEW h,
         b.admin = a.admin
           \/ (b.admin <=> EffectiveView(MatchRoute(a).view, r, h) = "admin")
  PROVE  Shown(MatchRoute(b), r, h) = Shown(MatchRoute(a), r, h)
<1>1. /\ MatchRoute(a).view = "admin" <=> a.admin
  BY AddressedRoute
<1>2. CASE a.admin <=> b.admin
  BY <1>2 DEF MatchRoute
<1>3. CASE ~(a.admin <=> b.admin)
  <2>1. b.admin <=> EffectiveView(MatchRoute(a).view, r, h) = "admin"
    BY <1>3
  <2>2. a.admin /\ ~b.admin /\ EffectiveView("admin", r, h) # "admin"
    BY <1>1, <1>3, <2>1, EffectiveCases
  <2>3. a.path \in {MarketRoute, SubmitRoute}
    BY <2>2 DEF Fits
  <2> QED BY <2>2, <2>3, ListsShown DEF MatchRoute
<1> QED BY <1>2, <1>3

\* The entries e are those of the history up to the current one, and i is
\* where the visitor goes.
LEMMA PopKeeps ==
  ASSUME NInv, NEW e \in Seq(Entry), NEW i \in 1 .. Len(e), PopState([at |-> e, pos |-> i]),
         \A k \in 1 .. Len(e) : Fits(e[k]), Len(e) \in {Len(entries), pos + 1},
         \A k \in 1 .. Len(entries) : k <= pos \/ i <= pos => k <= Len(e) /\ e[k] = entries[k]
  PROVE  Good
<1> DEFINE s == MatchRoute(e[i])
           a == entries'[i]
           v == EffectiveView(s.view, role', hydrating')
<1>1. /\ role \in Roles /\ hydrating \in BOOLEAN /\ pending \in BOOLEAN
      /\ typed \in BOOLEAN /\ filters \in BOOLEAN /\ UnchangedButRoute
  BY EntriesInv DEF PopState
<1>2. Render(s, [at |-> e, pos |-> i])
  BY DEF PopState
<1>3. Rendered(s, e, i)
  BY <1>1, <1>2, DialogKept DEF UnchangedButRoute
<1>4. /\ e[i] \in Entry /\ Fits(e[i]) /\ s \in Route /\ Settled(s) /\ Matches(e[i], s)
      /\ s.view = "admin" <=> e[i].admin
      /\ s.submit <=> e[i].path = SubmitRoute /\ ~e[i].admin
  BY AddressedRoute
<1>5. a \in Entry /\ a.path = e[i].path /\ screen' = s /\ pos' = i /\ Current' = a
  BY <1>3 DEF Rendered, Current
<1>6. a.admin = e[i].admin \/ (a.admin <=> v = "admin")
  BY <1>3 DEF Rendered
<1>7. a.admin => s.view = "admin"
  <2>1. v = "admin" => s.view = "admin"
    BY EffectiveCases
  <2> QED BY <1>4, <1>6, <2>1
<1>8. a.q => Bare(a.path)
  <2>1. Bare(s) => Bare(a.path)
    BY <1>4, <1>5 DEF Matches
  <2>2. a.q = e[i].q \/ Bare(s)
    BY <1>3 DEF Rendered
  <2>3. a.q \in BOOLEAN /\ e[i].q \in BOOLEAN
    BY <1>4, <1>5 DEF Entry
  <2> QED BY <1>4, <1>5, <2>1, <2>2, <2>3 DEF Fits
<1>9. Fits(a) /\ Matches(a, s)
  BY <1>4, <1>5, <1>7, <1>8 DEF Fits, Matches
<1>10. NInv'
  <2>1. DialogFits'
    <3>1. s.submit => a.path = SubmitRoute /\ s.view # "admin"
      BY <1>4, <1>5
    <3> QED BY <1>5, <1>7, <3>1 DEF DialogFits
  <2> QED BY <1>1, <1>3, <1>4, <1>9, <2>1, RenderedInv DEF UnchangedButRoute
<1>11. Follows
  <2>1. Shown(MatchRoute(a), role', hydrating') = Shown(s, role', hydrating')
    BY <1>4, <1>5, <1>6, SamePage
  <2>2. InStep'
    BY <1>5, <2>1 DEF InStep, OnScreen, PageOf
  <2> QED BY <2>2 DEF Follows
<1>12. Kept
  <2>1. /\ DOMAIN entries' = 1 .. Len(e) /\ Len(entries') = Len(e)
        /\ \A k \in 1 .. Len(e) : k # i => entries'[k] = e[k]
    BY <1>3 DEF Rendered
  <2>2. DOMAIN entries = 1 .. Len(entries)
    BY EntriesTyped DEF NInv
  <2>3. ASSUME NEW k \in DOMAIN entries, k <= pos \/ pos' <= pos
        PROVE  k \in DOMAIN entries' /\ SameEntry(k)
    <3>1. k \in 1 .. Len(e) /\ e[k] = entries[k]
      BY <1>5, <2>2, <2>3
    <3>2. CASE k # i
      BY <2>1, <3>1, <3>2 DEF SameEntry
    <3>3. CASE k = i
      <4>1. Shown(MatchRoute(a), role', hydrating') = Shown(s, role', hydrating')
        BY <1>4, <1>5, <1>6, SamePage
      <4> QED BY <2>1, <3>1, <3>3, <4>1 DEF SameEntry
    <3> QED BY <3>2, <3>3
  <2> QED BY <2>1, <2>3 DEF Kept
<1> QED BY <1>10, <1>11, <1>12 DEF Good

LEMMA BackForwardGood == NInv /\ (Back \/ Forward) => Good
<1> SUFFICES ASSUME NInv, Back \/ Forward PROVE Good
  OBVIOUS
<1>1. /\ entries \in Seq(Entry) /\ pos \in 1 .. Len(entries) /\ Len(entries) \in Nat
      /\ \A k \in 1 .. Len(entries) : Fits(entries[k])
  BY EntriesTyped, EntriesInv DEF NInv
<1>2. CASE Back
  <2>1. pos - 1 \in 1 .. Len(entries) /\ PopState([at |-> entries, pos |-> pos - 1])
    BY <1>1, <1>2 DEF Back
  <2> QED BY <1>1, <2>1, PopKeeps
<1>3. CASE Forward
  <2>1. pos + 1 \in 1 .. Len(entries) /\ PopState([at |-> entries, pos |-> pos + 1])
    BY <1>1, <1>3 DEF Forward
  <2> QED BY <1>1, <2>1, PopKeeps
<1> QED BY <1>2, <1>3

LEMMA GoToHitGood == NInv => \A r \in Hits : GoToHit(r) => Good
<1> SUFFICES ASSUME NInv, NEW r \in Hits, GoToHit(r) PROVE Good
  OBVIOUS
<1> DEFINE e == Extended(r)
<1>1. r \in Routes /\ TypeOK
  BY HitsAssumption DEF NInv
<1>2. /\ pos \in 1 .. Len(entries) /\ Len(entries) \in Nat
      /\ \A k \in 1 .. Len(entries) : Fits(entries[k])
  BY <1>1, EntriesTyped, EntriesInv
<1>3. /\ e \in Seq(Entry) /\ Len(e) = pos + 1 /\ pos + 1 \in 1 .. Len(e)
      /\ \A k \in 1 .. pos : e[k] = entries[k]
      /\ e[pos + 1] = Address(r) /\ PopState([at |-> e, pos |-> pos + 1])
  BY <1>1, PushedEntries DEF GoToHit
<1> HIDE DEF e
<1>4. \A k \in 1 .. Len(e) : Fits(e[k])
  BY <1>1, <1>2, <1>3, AddressFits
<1>5. \A k \in 1 .. Len(entries) : k <= pos \/ pos + 1 <= pos => k <= Len(e) /\ e[k] = entries[k]
  BY <1>2, <1>3
<1> QED BY <1>3, <1>4, <1>5, PopKeeps

------------------------------------------------------------------------------
(* The dialog.                                                             *)

\* What the current entry is when the entries stay and are rendered in place.
LEMMA InPlace ==
  ASSUME NInv
  PROVE  /\ entries \in Seq(Entry) /\ pos \in 1 .. Len(entries) /\ Len(entries) \in Nat
         /\ \A k \in 1 .. Len(entries) : Fits(entries[k])
         /\ Current \in Entry /\ Fits(Current) /\ Current = entries[pos]
         /\ Matches(Current, screen) /\ Settled(screen) /\ screen \in Route
         /\ History = [at |-> entries, pos |-> pos]
BY EntriesTyped, EntriesInv DEF NInv, Current, History

LEMMA KeptInPlace ==
  ASSUME NInv, NEW s, Rendered(s, entries, pos), SameEntry(pos)
  PROVE  Kept
<1>1. /\ entries \in Seq(Entry) /\ pos \in 1 .. Len(entries)
  BY InPlace
<1>2. /\ DOMAIN entries = 1 .. Len(entries) /\ DOMAIN entries' = 1 .. Len(entries)
      /\ Len(entries') = Len(entries)
      /\ \A k \in 1 .. Len(entries) : k # pos => entries'[k] = entries[k]
  BY <1>1 DEF Rendered
<1> QED BY <1>2 DEF Kept, SameEntry

\* The dialog is set to b over whatever is on the screen.
LEMMA DialogKeeps ==
  ASSUME NInv, NEW b \in BOOLEAN, UNCHANGED <<role, hydrating, filters>>, pending' \in BOOLEAN,
         typed' \in BOOLEAN, Render([screen EXCEPT !.submit = b], History)
  PROVE  Good
<1> DEFINE s == [screen EXCEPT !.submit = b]
<1>1. /\ entries \in Seq(Entry) /\ pos \in 1 .. Len(entries) /\ Len(entries) \in Nat
      /\ \A k \in 1 .. Len(entries) : Fits(entries[k])
      /\ Current \in Entry /\ Fits(Current) /\ Current = entries[pos]
      /\ Matches(Current, screen) /\ Settled(screen) /\ screen \in Route
      /\ History = [at |-> entries, pos |-> pos]
  BY InPlace
<1>2. /\ role' \in Roles /\ hydrating' \in BOOLEAN /\ filters' \in BOOLEAN
      /\ role' = role /\ hydrating' = hydrating /\ filters' = filters
  BY EntriesInv
<1>3. /\ s \in Route /\ s.submit = b /\ s.view = screen.view /\ s.project = screen.project
      /\ s.maker = screen.maker /\ s.discussion = screen.discussion
      /\ s.conversation = screen.conversation
      /\ Shown(s, role, hydrating) = Shown(screen, role, hydrating)
  BY <1>1, ShownForAnyone DEF Route
<1>4. Render(s, [at |-> entries, pos |-> pos])
  BY <1>1
<1> HIDE DEF s
<1>5. SameDependencies(s) /\ Settled(s) /\ (Bare(s) <=> Bare(screen))
  BY <1>1, <1>2, <1>3 DEF SameDependencies, Dependencies, Settled, Bare
<1>6. CASE b = screen.submit \/ b = MatchRoute(Current).submit
  <2>1. Rendered(s, entries, pos)
    BY <1>1, <1>2, <1>3, <1>4, <1>6, DialogKept
  <2>2. entries'[pos] = Current /\ screen' = s /\ pos' = pos /\ Current' = Current
    BY <1>1, <1>5, <2>1 DEF Rendered, Current
  <2>3. Matches(Current, s)
    BY <1>1, <1>3, <1>5 DEF Matches
  <2>4. OnScreen' = OnScreen /\ PageOf(Current)' = PageOf(Current)
    BY <1>2, <1>3, <2>2 DEF OnScreen, PageOf
  <2>5. DialogFits'
    <3>1. CASE b = screen.submit
      BY <1>3, <2>2, <2>4, <3>1 DEF DialogFits, NInv
    <3>2. CASE b = MatchRoute(Current).submit
      <4>1. b => Current.path = SubmitRoute /\ ~Current.admin
        BY <1>1, <3>2, AddressedRoute
      <4> QED BY <1>3, <2>2, <4>1 DEF DialogFits
    <3> QED BY <1>6, <3>1, <3>2
  <2>6. NInv'
    BY <1>1, <1>2, <1>3, <1>5, <2>1, <2>2, <2>3, <2>5, RenderedInv
  <2>7. Follows
    BY <1>1, <2>2, <2>4 DEF Follows, InStep
  <2>8. Kept
    BY <1>1, <2>1, <2>2, KeptInPlace DEF SameEntry
  <2> QED BY <2>6, <2>7, <2>8 DEF Good
<1>7. CASE b # screen.submit /\ b # MatchRoute(Current).submit
  <2> DEFINE r == IF b THEN SubmitRoute ELSE MarketRoute
             e == Extended(r)
             i == pos + 1
  <2>1. r \in Routes /\ r # ViewRoute("admin") /\ Bare(r)
    BY TwoRoutes, MarketFields, SubmitFields, DashboardRoute DEF Bare
  <2>2. /\ e \in Seq(Entry) /\ Len(e) = i /\ i \in 1 .. Len(e)
        /\ \A k \in 1 .. pos : e[k] = entries[k]
        /\ e[i] = Address(r) /\ Pushed(History, r) = [at |-> e, pos |-> i]
    BY <2>1, PushedEntries DEF NInv
  <2>3. SubmitSync(s, [at |-> entries, pos |-> pos]) = Pushed(History, r)
    BY <1>1, <1>3, <1>7 DEF SubmitSync
  <2> HIDE DEF e, r
  <2>4. Rendered(s, e, i)
    BY <1>2, <1>4, <2>2, <2>3, FilterSyncEffect
  <2>5. entries'[i] = Address(r) /\ screen' = s /\ pos' = i /\ Current' = Address(r)
    BY <1>5, <2>2, <2>4 DEF Rendered, Current
  <2>6. Fits(Address(r)) /\ Address(r).path = r /\ ~Address(r).admin
    BY <2>1, AddressFits
  <2>7. Matches(Address(r), s)
    BY <2>1, <2>6 DEF Matches, r
  <2>8. DialogFits'
    BY <1>3, <2>5, <2>6 DEF DialogFits, r
  <2>9. \A k \in 1 .. Len(e) : k # i => Fits(e[k])
    BY <1>1, <2>2
  <2>10. NInv'
    BY <1>2, <1>3, <1>5, <2>2, <2>4, <2>5, <2>6, <2>7, <2>8, <2>9, RenderedInv
  <2>11. Follows
    BY <1>1, <1>3, <1>7, <2>5 DEF Follows, DialogToggled
  <2>12. Kept
    <3>1. Len(entries') = i /\ \A k \in 1 .. pos : entries'[k] = entries[k] /\ k \in DOMAIN entries'
      BY <1>1, <2>2, <2>4 DEF Rendered
    <3>2. \A k \in DOMAIN entries : k <= pos \/ pos' <= pos => k \in 1 .. pos
      BY <1>1, <2>5
    <3> QED BY <3>1, <3>2 DEF Kept, SameEntry
  <2> QED BY <2>10, <2>11, <2>12 DEF Good
<1> QED BY <1>6, <1>7

LEMMA DialogGood == NInv /\ (OpenSubmit \/ CloseSubmit \/ FollowDeepLink) => Good
<1> SUFFICES ASSUME NInv, OpenSubmit \/ CloseSubmit \/ FollowDeepLink PROVE Good
  OBVIOUS
<1>1. pending \in BOOLEAN /\ typed \in BOOLEAN /\ screen.submit \in BOOLEAN
  BY EntriesInv, ScreenFields
<1>2. CASE OpenSubmit
  BY <1>1, <1>2, DialogKeeps DEF OpenSubmit, UnchangedButRoute
<1>3. CASE CloseSubmit
  BY <1>1, <1>3, DialogKeeps DEF CloseSubmit, UnchangedButRoute
<1>4. CASE FollowDeepLink
  <2> DEFINE b == screen.submit \/ role = "maker"
  <2>1. b \in BOOLEAN /\ [screen EXCEPT !.submit = @ \/ role = "maker"] = [screen EXCEPT !.submit = b]
    OBVIOUS
  <2>2. Render([screen EXCEPT !.submit = b], History)
    BY <1>4, <2>1 DEF FollowDeepLink
  <2>3. UNCHANGED <<role, hydrating, filters>> /\ pending' \in BOOLEAN /\ typed' \in BOOLEAN
    BY <1>1, <1>4 DEF FollowDeepLink
  <2> HIDE DEF b
  <2> QED BY <2>1, <2>2, <2>3, DialogKeeps
<1> QED BY <1>2, <1>3, <1>4

------------------------------------------------------------------------------
(* The same screen for another session or another filter.                  *)

LEMMA SameScreenKeeps ==
  ASSUME NInv, role' \in Roles, hydrating' \in BOOLEAN, pending' \in BOOLEAN,
         typed' \in BOOLEAN, filters' \in BOOLEAN, Render(screen, History)
  PROVE  Good
<1> DEFINE a == entries'[pos]
           v == EffectiveView(screen.view, role, hydrating)
           w == EffectiveView(screen.view, role', hydrating')
<1>1. /\ entries \in Seq(Entry) /\ pos \in 1 .. Len(entries) /\ Len(entries) \in Nat
      /\ \A k \in 1 .. Len(entries) : Fits(entries[k])
      /\ Current \in Entry /\ Fits(Current) /\ Current = entries[pos]
      /\ Matches(Current, screen) /\ Settled(screen) /\ screen \in Route
      /\ History = [at |-> entries, pos |-> pos]
  BY InPlace
<1>2. Rendered(screen, entries, pos)
  BY <1>1, DialogKept
<1>3. a \in Entry /\ a.path = Current.path /\ screen' = screen /\ pos' = pos /\ Current' = a
  BY <1>1, <1>2 DEF Rendered, Current
<1>4. \/ a = Current /\ (SameDependencies(screen) \/ OwnsDedicatedPath(screen, w))
      \/ Bare(screen) /\ a.admin = (w = "admin") /\ a.q = filters'
  BY <1>1, <1>2 DEF Rendered
<1>5. a.admin \in BOOLEAN /\ Current.admin \in BOOLEAN
  BY <1>1, <1>3 DEF Entry
<1>6. (v = "admin" => screen.view = "admin") /\ (w = "admin" => screen.view = "admin")
  BY EffectiveCases
<1>7. a.admin => screen.view = "admin"
  BY <1>1, <1>4, <1>5, <1>6 DEF Matches
\* The dashboard: either nothing changes for it, or the effect rewrites its address.
<1>8. ASSUME screen.view = "admin"
      PROVE  /\ a.path \in {MarketRoute, SubmitRoute} /\ Bare(screen) /\ screen.maker = None
             /\ screen.project = None
             /\ \/ a = Current /\ v = w
                \/ a.admin <=> w = "admin"
  <2>1. Bare(screen) /\ screen.maker = None /\ screen.project = None
    BY <1>1, <1>8 DEF Settled, Bare
  <2>2. w \in {"admin", "market"}
    BY <1>8, EffectiveCases
  <2>3. ~OwnsDedicatedPath(screen, w)
    BY <2>1, <2>2 DEF OwnsDedicatedPath, Bare
  <2>4. SameDependencies(screen) => v = w
    BY DEF SameDependencies, Dependencies
  <2>5. a.path \in {MarketRoute, SubmitRoute}
    BY <1>1, <1>3, <1>8 DEF Matches
  <2> QED BY <1>4, <1>5, <2>1, <2>3, <2>4, <2>5
<1>9. Fits(a) /\ Matches(a, screen)
  <2>1. a.q => Bare(a.path)
    <3>1. CASE a = Current
      BY <1>1, <3>1 DEF Fits
    <3>2. CASE Bare(screen)
      BY <1>1, <1>3, <3>2 DEF Matches
    <3> QED BY <1>4, <3>1, <3>2
  <2>2. a.admin => a.path \in {MarketRoute, SubmitRoute}
    BY <1>7, <1>8
  <2> QED BY <1>1, <1>3, <1>7, <2>1, <2>2 DEF Fits, Matches
<1>10. OnScreen.view = "admin" <=> v = "admin"
  BY <1>1, <1>6, ShownAsAdmin DEF OnScreen
<1>11. OnScreen' = Shown(screen, role', hydrating')
  BY <1>3 DEF OnScreen
<1>12. OnScreen'.view = "admin" <=> w = "admin"
  BY <1>1, <1>6, <1>11, ShownAsAdmin
<1>13. NInv'
  <2>1. ASSUME screen.submit, w # "admin" PROVE ~a.admin
    <3>1. SUFFICES ASSUME screen.view = "admin", a = Current, v = w PROVE ~a.admin
      BY <1>5, <1>7, <1>8, <2>1
    <3> QED BY <1>10, <2>1, <3>1 DEF NInv, DialogFits
  <2>2. screen.submit => a.path = SubmitRoute
    BY <1>3 DEF NInv, DialogFits
  <2>3. DialogFits'
    BY <1>3, <1>12, <2>1, <2>2 DEF DialogFits
  <2> QED BY <1>1, <1>2, <1>9, <2>3, RenderedInv
<1>14. Follows
  <2>1. SUFFICES ASSUME InStep PROVE InStep'
    BY <1>1, <1>3 DEF Follows
  <2>2. SUFFICES Shown(MatchRoute(a), role', hydrating') = Shown(screen, role', hydrating')
    BY <1>3, <1>11 DEF InStep, PageOf
  <2>3. Shown(MatchRoute(Current), role, hydrating) = Shown(screen, role, hydrating)
    BY <2>1 DEF InStep, OnScreen, PageOf
  <2>4. CASE screen.view # "admin"
    <3>1. ~a.admin /\ ~Current.admin
      BY <1>1, <1>7, <2>4 DEF Matches
    <3>2. MatchRoute(a) = MatchRoute(Current)
      BY <1>3, <3>1 DEF MatchRoute
    <3>3. MatchRoute(Current) \in Route /\ MatchRoute(Current).view # "admin"
      BY <1>1, <3>1, AddressedRoute
    <3> QED BY <1>1, <2>3, <2>4, <3>2, <3>3, ShownForAnyone
  <2>5. CASE screen.view = "admin"
    <3>1. /\ Shown(screen, role, hydrating)
               = IF v = "admin" THEN ViewRoute("admin") ELSE MarketRoute
          /\ Shown(screen, role', hydrating')
               = IF w = "admin" THEN ViewRoute("admin") ELSE MarketRoute
      BY <1>1, <1>8, <2>5, DashboardShown
    <3>2. /\ a.admin => Shown(MatchRoute(a), role', hydrating')
                          = IF w = "admin" THEN ViewRoute("admin") ELSE MarketRoute
          /\ ~a.admin => Shown(MatchRoute(a), role', hydrating') = MarketRoute
          /\ ~Current.admin => Shown(MatchRoute(Current), role, hydrating) = MarketRoute
      BY <1>3, <1>8, <2>5, ListsShown DEF MatchRoute
    <3>3. MarketRoute # ViewRoute("admin")
      BY MarketFields, DashboardRoute
    <3>4. CASE a.admin <=> w = "admin"
      BY <3>1, <3>2, <3>4
    <3>5. CASE a = Current /\ v = w
      BY <2>3, <3>1, <3>2, <3>3, <3>5
    <3> QED BY <1>8, <2>5, <3>4, <3>5
  <2> QED BY <2>4, <2>5
<1>15. Kept
  <2>1. CASE a = Current
    BY <1>1, <1>2, <2>1, KeptInPlace DEF SameEntry
  <2>2. CASE a.admin = Current.admin
    <3>1. MatchRoute(a) = MatchRoute(Current)
      BY <1>3, <2>2 DEF MatchRoute
    <3> QED BY <1>1, <1>2, <3>1, KeptInPlace DEF SameEntry
  <2>3. CASE a.admin /\ a # Current
    <3>1. screen.view = "admin" /\ w = "admin"
      BY <1>7, <1>8, <2>3
    <3>2. Shown(screen, role', hydrating') = ViewRoute("admin")
      BY <1>1, <1>8, <3>1, DashboardShown
    <3>3. OnDashboard'
      BY <1>11, <3>2 DEF OnDashboard
    <3> QED BY <1>1, <1>2, <3>3, KeptInPlace DEF SameEntry
  <2>4. CASE ~a.admin /\ Current.admin
    <3>1. screen.view = "admin" /\ w # "admin" /\ a.path \in {MarketRoute, SubmitRoute}
      BY <1>1, <1>8, <2>4 DEF Matches
    <3>2. /\ Shown(MatchRoute(a), role', hydrating') = MarketRoute
          /\ Shown(MatchRoute(Current), role', hydrating') = MarketRoute
      BY <2>4, <3>1, ListsShown DEF MatchRoute
    <3> QED BY <1>1, <1>2, <3>2, KeptInPlace DEF SameEntry
  <2> QED BY <1>5, <2>1, <2>2, <2>3, <2>4
<1> QED BY <1>13, <1>14, <1>15 DEF Good

LEMMA SessionGood ==
  ASSUME NInv
  PROVE  /\ SettleFilter => Good
         /\ \A r \in Roles : Hydrate(r) \/ Login(r) => Good
         /\ Logout => Good
<1>1. /\ role \in Roles /\ hydrating \in BOOLEAN /\ pending \in BOOLEAN
      /\ typed \in BOOLEAN /\ filters \in BOOLEAN
  BY EntriesInv
<1>2. CASE SettleFilter
  BY <1>1, <1>2, SameScreenKeeps DEF SettleFilter
<1>3. \A r \in Roles, h \in BOOLEAN : SetSession(r, h) => Good
  BY <1>1, SameScreenKeeps DEF SetSession
<1> QED BY <1>1, <1>2, <1>3, RolesAssumption DEF Hydrate, Login, Logout

------------------------------------------------------------------------------
(* Pages left without an address, reloads, the filters' controls.          *)

LEMMA LeaveKeeps ==
  ASSUME NInv, UNCHANGED <<role, hydrating, pending>>, typed' \in BOOLEAN, filters' \in BOOLEAN,
         ~screen.submit, screen.view # "market", role = "admin" \/ OnDashboard,
         NEW s \in Route, s.view = "market", s.maker = None, ~s.submit,
         s.project = screen.project, s.discussion = screen.discussion,
         s.conversation = screen.conversation, Render(s, History)
  PROVE  Good
<1> DEFINE a == entries'[pos]
<1>1. /\ entries \in Seq(Entry) /\ pos \in 1 .. Len(entries) /\ Len(entries) \in Nat
      /\ \A k \in 1 .. Len(entries) : Fits(entries[k])
      /\ Current \in Entry /\ Fits(Current) /\ Current = entries[pos]
      /\ Matches(Current, screen) /\ Settled(screen) /\ screen \in Route
      /\ History = [at |-> entries, pos |-> pos]
  BY InPlace
<1>2. /\ role' \in Roles /\ hydrating' \in BOOLEAN /\ pending' \in BOOLEAN
      /\ role' = role /\ hydrating' = hydrating
  BY EntriesInv
<1>3. s.submit = screen.submit
  BY <1>1 DEF Route
<1>4. Rendered(s, entries, pos)
  BY <1>1, <1>3, DialogKept
<1>5. a \in Entry /\ a.path = Current.path /\ screen' = s /\ pos' = pos /\ Current' = a
  BY <1>1, <1>4 DEF Rendered, Current
<1>6. screen.maker = None /\ (Bare(s) <=> Bare(screen)) /\ Settled(s)
  BY <1>1 DEF Settled, Bare
<1>7. EffectiveView(s.view, role', hydrating') = "market"
  BY EffectiveCases
<1>8. screen.view = "admin" => Bare(screen) /\ EffectiveView("admin", role, hydrating) = "admin"
  <2>1. OnDashboard => EffectiveView("admin", role, hydrating) = "admin"
    BY <1>1, DashboardRoute, ShownAsAdmin DEF OnDashboard, OnScreen
  <2>2. role = "admin" => EffectiveView("admin", role, hydrating) = "admin"
    BY DEF EffectiveView
  <2> QED BY <1>1, <2>1, <2>2 DEF Settled
<1>9. ~a.admin
  <2>1. CASE SameDependencies(s) \/ OwnsDedicatedPath(s, "market")
    <3>1. SUFFICES ASSUME Current.admin PROVE FALSE
      BY <1>1, <1>4, <1>7, <2>1 DEF Rendered
    <3>2. screen.view = "admin" /\ Bare(s)
      BY <1>1, <1>6, <1>8, <3>1 DEF Matches
    <3>3. ~OwnsDedicatedPath(s, "market")
      BY <3>2 DEF OwnsDedicatedPath, Bare
    <3>4. EffectiveView(screen.view, role, hydrating) = "market"
      BY <1>7, <2>1, <3>3 DEF SameDependencies, Dependencies
    <3> QED BY <1>8, <3>2, <3>4
  <2>2. CASE ~(SameDependencies(s) \/ OwnsDedicatedPath(s, "market"))
    BY <1>4, <1>7, <2>2 DEF Rendered
  <2> QED BY <2>1, <2>2
<1>10. a.q => Bare(a.path)
  <2>1. CASE a = Current
    BY <1>1, <2>1 DEF Fits
  <2>2. CASE Bare(s)
    BY <1>1, <1>5, <1>6, <2>2 DEF Matches
  <2> QED BY <1>1, <1>4, <2>1, <2>2 DEF Rendered
<1>11. Fits(a) /\ Matches(a, s)
  BY <1>1, <1>5, <1>6, <1>9, <1>10 DEF Fits, Matches
<1>12. NInv'
  <2>1. DialogFits'
    BY <1>5 DEF DialogFits
  <2> QED BY <1>1, <1>2, <1>4, <1>6, <1>11, <2>1, RenderedInv
<1>13. Follows
  <2>1. ~(pos' < pos)
    BY <1>1, <1>5
  <2>2. CASE role = "admin"
    BY <1>5, <2>1, <2>2 DEF Follows, MarketUnaddressed
  <2>3. CASE OnDashboard
    <3>1. screen.view = "admin"
      BY <1>1, <2>3, DashboardRoute, ShownAsAdmin DEF OnDashboard, OnScreen
    <3>2. a.path \in {MarketRoute, SubmitRoute}
      BY <1>1, <1>5, <3>1 DEF Matches
    <3>3. Shown(MatchRoute(a), role', hydrating') = MarketRoute
      BY <1>9, <3>2, ListsShown DEF MatchRoute
    <3>4. s.project = None
      BY <1>8, <3>1 DEF Bare
    <3>5. Shown(s, role', hydrating') = MarketRoute
      BY <1>7, <3>4 DEF Shown
    <3>6. InStep'
      BY <1>5, <3>3, <3>5 DEF InStep, OnScreen, PageOf
    <3> QED BY <2>1, <3>6 DEF Follows
  <2> QED BY <2>2, <2>3
<1>14. Kept
  <2>1. CASE Current.admin
    <3>1. screen.view = "admin" /\ Bare(screen)
      BY <1>1, <1>8, <2>1 DEF Matches
    <3>2. OnDashboard
      BY <1>1, <1>6, <1>8, <3>1, DashboardShown DEF OnDashboard, OnScreen, Bare
    <3> QED BY <1>1, <1>4, <3>2, KeptInPlace DEF SameEntry
  <2>2. CASE ~Current.admin
    <3>1. MatchRoute(a) = MatchRoute(Current)
      BY <1>5, <1>9, <2>2 DEF MatchRoute
    <3> QED BY <1>1, <1>4, <3>1, KeptInPlace DEF SameEntry
  <2> QED BY <2>1, <2>2
<1> QED BY <1>12, <1>13, <1>14 DEF Good

LEMMA LeaveGood ==
  ASSUME NInv
  PROVE  /\ SwitchView => Good
         /\ \A f \in BOOLEAN : ApplyRecommendation(f) => Good
<1>1. /\ typed \in BOOLEAN /\ filters \in BOOLEAN
  BY EntriesInv
<1>2. CASE SwitchView
  <2> DEFINE s == [screen EXCEPT !.maker = None, !.view = "market"]
  <2>1. /\ s \in Route /\ s.view = "market" /\ s.maker = None /\ s.submit = screen.submit
        /\ s.project = screen.project /\ s.discussion = screen.discussion
        /\ s.conversation = screen.conversation
    BY ScreenFields DEF Route, Views
  <2>2. Render(s, History)
    BY <1>2 DEF SwitchView
  <2> HIDE DEF s
  <2> QED BY <1>1, <1>2, <2>1, <2>2, LeaveKeeps DEF SwitchView, UnchangedButRoute
<1>3. ASSUME NEW f \in BOOLEAN, ApplyRecommendation(f) PROVE Good
  <2> DEFINE s == [screen EXCEPT !.view = "market"]
  <2>1. OnDashboard /\ ~screen.submit
    BY <1>3 DEF ApplyRecommendation, Page, OnDashboard
  <2>2. screen.view = "admin"
    BY <2>1, ScreenFields, DashboardRoute, ShownAsAdmin DEF OnDashboard, OnScreen
  <2>3. screen.maker = None
    BY <2>2, ScreenFields DEF Settled, Bare
  <2>4. /\ s \in Route /\ s.view = "market" /\ s.maker = None /\ s.submit = screen.submit
        /\ s.project = screen.project /\ s.discussion = screen.discussion
        /\ s.conversation = screen.conversation
    BY <2>3, ScreenFields DEF Route, Views
  <2>5. Render(s, History) /\ UNCHANGED <<role, hydrating, pending>> /\ typed' = f /\ filters' = f
    BY <1>3 DEF ApplyRecommendation
  <2> HIDE DEF s
  <2> QED BY <2>1, <2>2, <2>4, <2>5, LeaveKeeps
<1> QED BY <1>2, <1>3

LEMMA ReloadGood == NInv /\ Reload => Good
<1> SUFFICES ASSUME NInv, Reload PROVE Good
  OBVIOUS
<1> DEFINE t == MatchRoute(Current)
           s == [t EXCEPT !.submit = FALSE]
<1>1. /\ Current \in Entry /\ Fits(Current) /\ TypeOK /\ EntriesFit
      /\ typed \in BOOLEAN /\ filters \in BOOLEAN
  BY EntriesInv DEF NInv
<1>2. t \in Route /\ Settled(t) /\ Matches(Current, t)
  BY <1>1, AddressedRoute
<1>3. PICK f \in Preset : Load(Current, f) /\ UNCHANGED <<entries, pos>>
  BY DEF Reload
<1>4. Preset \subseteq BOOLEAN
  BY <1>1 DEF Preset
<1>5. /\ screen' = s /\ role' = "none" /\ hydrating' = TRUE /\ pending' = t.submit
      /\ typed' \in BOOLEAN /\ filters' \in BOOLEAN /\ entries' = entries /\ pos' = pos
      /\ Current' = Current
  BY <1>3, <1>4 DEF Load, Current
<1>6. /\ s \in Route /\ ~s.submit /\ s.view = t.view /\ s.project = t.project
      /\ s.maker = t.maker /\ s.discussion = t.discussion /\ s.conversation = t.conversation
      /\ t.submit \in BOOLEAN
  BY <1>2 DEF Route
<1>7. Shown(s, role', hydrating') = Shown(t, role', hydrating')
  BY <1>2, ShownForAnyone
<1> HIDE DEF s, t
<1>8. NInv'
  <2>1. TypeOK'
    BY <1>1, <1>5, <1>6, RolesAssumption DEF TypeOK
  <2>2. EntriesFit'
    BY <1>1, <1>5 DEF EntriesFit
  <2>3. Settled(s) /\ Matches(Current, s) /\ screen' = s
    BY <1>2, <1>5, <1>6 DEF Settled, Matches, Bare
  <2>4. Settled(screen)' /\ Matches(Current, screen)'
    BY <1>5, <2>3 DEF Settled, Matches
  <2>5. DialogFits'
    BY <1>5, <1>6 DEF DialogFits
  <2> QED BY <2>1, <2>2, <2>4, <2>5 DEF NInv
<1>9. Follows
  BY <1>5, <1>7 DEF Follows, InStep, OnScreen, PageOf, t
<1>10. Kept
  BY <1>5 DEF Kept, SameEntry
<1> QED BY <1>8, <1>9, <1>10 DEF Good

LEMMA TypeFilterGood == NInv /\ TypeFilter => Good
<1> SUFFICES ASSUME NInv, TypeFilter PROVE Good
  OBVIOUS
<1>1. UNCHANGED <<entries, pos, screen, role, hydrating, pending, filters>> /\ typed' \in BOOLEAN
  BY EntriesInv DEF TypeFilter
<1>2. NInv'
  BY <1>1 DEF NInv, TypeOK, EntriesFit, Settled, Matches, DialogFits, Current, OnScreen
<1>3. Follows
  BY <1>1, EntriesTyped DEF Follows, InStep, OnScreen, PageOf, Current, NInv
<1>4. Kept
  BY <1>1 DEF Kept, SameEntry
<1> QED BY <1>2, <1>3, <1>4 DEF Good

------------------------------------------------------------------------------
LEMMA NInit == Init => NInv
<1> SUFFICES ASSUME Init PROVE NInv
  OBVIOUS
<1>1. PICK r \in Routes, f \in BOOLEAN :
        LET a == Address(r) IN
        /\ entries = <<a>> /\ pos = 1
        /\ screen = [MatchRoute(a) EXCEPT !.submit = FALSE]
        /\ pending = r.submit
        /\ role = "none" /\ hydrating = TRUE
        /\ typed = f /\ filters \in {FALSE, f}
  BY DEF Init
<1> DEFINE a == Address(r)
           t == MatchRoute(a)
<1>2. a \in Entry /\ Fits(a)
  BY AddressFits
<1>3. t \in Route /\ Settled(t) /\ Matches(a, t)
  BY <1>2, AddressedRoute
<1>4. /\ entries = <<a>> /\ pos = 1 /\ Current = a /\ screen = [t EXCEPT !.submit = FALSE]
  BY <1>1 DEF Current
<1>5. r.submit \in BOOLEAN
  BY RoutesWellFormed DEF WellFormed, Route
<1> HIDE DEF a, t
<1>6. /\ screen \in Route /\ ~screen.submit /\ screen.view = t.view
      /\ screen.project = t.project /\ screen.maker = t.maker
      /\ screen.discussion = t.discussion /\ screen.conversation = t.conversation
  BY <1>3, <1>4 DEF Route
<1>7. entries \in Seq(Entry) /\ Len(entries) = 1 /\ DOMAIN entries = {1} /\ entries[1] = a
  BY <1>2, <1>4
<1>8. TypeOK
  <2>1. entries \in Seq([path : Routes, admin : BOOLEAN, q : BOOLEAN])
    BY <1>7 DEF Entry
  <2>2. Len(entries) \in 1 .. MaxHistory /\ pos \in DOMAIN entries
    BY <1>4, <1>7, BoundAssumption
  <2>3. /\ role \in Roles /\ hydrating \in BOOLEAN /\ pending \in BOOLEAN
        /\ typed \in BOOLEAN /\ filters \in BOOLEAN
    BY <1>1, <1>5, RolesAssumption
  <2> QED BY <1>6, <2>1, <2>2, <2>3 DEF TypeOK
<1>9. EntriesFit
  BY <1>2, <1>7 DEF EntriesFit
<1>10. Settled(screen) /\ Matches(Current, screen)
  BY <1>3, <1>4, <1>6 DEF Settled, Matches, Bare
<1> QED BY <1>6, <1>8, <1>9, <1>10 DEF NInv, DialogFits

LEMMA NNext == NInv /\ Next => Good
<1> SUFFICES ASSUME NInv, Next PROVE Good
  OBVIOUS
<1>1. CASE GoHome \/ OpenSupport \/ OpenMessages \/ SwitchView
  BY <1>1, GoHomeGood, OpenViewGood, LeaveGood
<1>2. CASE \/ \E v \in PublicViews : OpenPublic(v)
           \/ \E v \in AdminViews : OpenAdminArea(v)
           \/ \E f \in BOOLEAN : ApplyRecommendation(f)
  BY <1>2, OpenViewGood, LeaveGood
<1>3. CASE \/ \E p \in Projects : OpenProject(p)
           \/ CloseProject \/ CloseMaker
           \/ \E m \in Makers : OpenMaker(m)
  BY <1>3, OpenProjectGood, CloseProjectGood, CloseMakerGood, OpenMakerGood
<1>4. CASE \/ \E d \in Discussions : OpenDiscussion(d)
           \/ CloseDiscussions \/ CloseConversation
           \/ \E c \in Conversations : OpenConversation(c)
  BY <1>4, OpenDiscussionGood, CloseDiscussionsGood, ConversationGood
<1>5. CASE OpenSubmit \/ CloseSubmit \/ FollowDeepLink
  BY <1>5, DialogGood
<1>6. CASE TypeFilter \/ SettleFilter \/ (\E r \in Roles : Hydrate(r) \/ Login(r)) \/ Logout
  BY <1>6, TypeFilterGood, SessionGood
<1>7. CASE Back \/ Forward \/ Reload \/ \E r \in Hits : GoToHit(r)
  BY <1>7, BackForwardGood, ReloadGood, GoToHitGood
<1> QED BY <1>1, <1>2, <1>3, <1>4, <1>5, <1>6, <1>7 DEF Next

\* The invariant is inductive.
THEOREM Invariance == Spec => []NInv
<1>1. NInv /\ [Next]_vars => NInv'
  <2>1. NInv /\ UNCHANGED vars => NInv'
    BY DEF vars, NInv, TypeOK, EntriesFit, Settled, Matches, DialogFits, Current, OnScreen
  <2> QED BY <2>1, NNext DEF Good
<1> QED BY <1>1, NInit, PTL DEF Spec

\* Types; the current entry is one of the history's.
THEOREM TypeCorrect == Spec => []TypeOK
<1>1. NInv => TypeOK
  BY DEF NInv
<1> QED BY <1>1, Invariance, PTL

\* Whoever opens the submit dialog, and whatever answers meanwhile, its address
\* is the current one, but on the dashboard.
THEOREM DialogAddressed == Spec => []DialogHasAddress
<1>1. NInv => DialogHasAddress
  BY SubmitFields DEF NInv, DialogFits, DialogHasAddress, MatchRoute
<1> QED BY <1>1, Invariance, PTL

\* No address that names a project, a profile, a discussion or a conversation
\* carries the query of the filters, in the whole history.
THEOREM QueriesStayOnLists == Spec => []FiltersStayOffOwnedPaths
<1>1. NInv => FiltersStayOffOwnedPaths
  BY ViewFields, DashboardRoute
     DEF NInv, EntriesFit, Fits, Bare, FiltersStayOffOwnedPaths, MatchRoute
<1> QED BY <1>1, Invariance, PTL

\* Screen and address part in the three named ways only, and going back always
\* brings them together.
THEOREM ScreenFollows == Spec => ScreenFollowsAddress
<1>1. NInv /\ [Next]_vars =>
        [/\ InStep /\ ~InStep' => DialogToggled \/ DiscussionLeftOver \/ MarketUnaddressed
         /\ pos' < pos => InStep']_vars
  BY NNext DEF Good, Follows
<1> QED BY <1>1, Invariance, PTL DEF Spec, ScreenFollowsAddress

\* Handlers and effects together add at most one entry and leave what is
\* behind the visitor as it was.
THEOREM HistoryIsKept == Spec => HistoryKept
<1>1. NInv /\ [Next]_vars =>
        [/\ Len(entries') \in {Len(entries), pos + 1}
         /\ \A k \in DOMAIN entries :
              k <= pos \/ pos' <= pos
                => /\ k \in DOMAIN entries'
                   /\ \/ entries'[k] = entries[k]
                      \/ Shown(MatchRoute(entries'[k]), role', hydrating')
                           = Shown(MatchRoute(entries[k]), role', hydrating')
                      \/ k = pos /\ (OnDashboard \/ OnDashboard')]_vars
  BY NNext DEF Good, Kept, SameEntry
<1> QED BY <1>1, Invariance, PTL DEF Spec, HistoryKept
=============================================================================
