----------------------------- MODULE Navigation -----------------------------
(***************************************************************************)
(* The web client's hand-written router: the browser's history on one      *)
(* side, the route that the screen keeps in React state on the other.      *)
(* Handlers set some fields of the state and push an address; two effects  *)
(* then run after the render (the submit dialog's address first, the       *)
(* filters' address second); Back, Forward and the search palette set all  *)
(* fields from the address.  A handler and the effects of its render are   *)
(* one step, as in the browser's event loop.                               *)
(*                                                                         *)
(* A route is the record AppRoute of route.ts, its intent a boolean.       *)
(***************************************************************************)
EXTENDS Naturals, Sequences

CONSTANTS
  Projects, Makers, Threads, Conversations,   \* ids, all of them known
  PublicViews,     \* the views openAbout and openPolicy open
  AdminPages,      \* the console's pages beside its dashboard
  Roles,           \* of the people who log in, and "none"
  Hits,            \* the routes the search index holds
  None,            \* null
  MaxHistory       \* bound: entries in the history

ASSUME NoneAssumption ==
  None \notin Projects \cup Makers \cup Threads \cup Conversations \cup {"list", "new"}
ASSUME PublicAssumption == PublicViews \subseteq {"about", "terms", "privacy"}
ASSUME AdminAssumption == AdminPages \subseteq {"adminCommunity", "adminMembers"}
ASSUME RolesAssumption ==
  /\ "none" \in Roles
  /\ Roles \subseteq {"none", "member", "investor", "maker", "admin"}
ASSUME BoundAssumption == MaxHistory \in Nat \ {0}

AdminViews == {"admin"} \cup AdminPages
Views == {"market", "messages", "support"} \cup PublicViews \cup AdminViews
Discussions == {"list", "new"} \cup Threads
Route == [view : Views, project : Projects \cup {None}, maker : Makers \cup {None},
          submit : BOOLEAN, discussion : Discussions \cup {None},
          conversation : Conversations \cup {None}]

VARIABLES
  entries,     \* the history: addresses as records [path, admin, q]
  pos,         \* the current entry
  screen,      \* view, detailProjectId, ..., isSubmitOpen
  role,        \* of the session, "none" without one
  hydrating,   \* the first fetchAuthSession has not answered
  pending,     \* submitDeepLinkPendingRef
  typed,       \* is there a filter in the controls ...
  filters      \* ... and in the query (280 ms later)

vars == <<entries, pos, screen, role, hydrating, pending, typed, filters>>

------------------------------------------------------------------------------
(* Addresses.                                                              *)

MarketRoute == [view |-> "market", project |-> None, maker |-> None, submit |-> FALSE,
                discussion |-> None, conversation |-> None]
ViewRoute(v) == [MarketRoute EXCEPT !.view = v]
SubmitRoute == [MarketRoute EXCEPT !.submit = TRUE]
ProjectRoute(p) == [MarketRoute EXCEPT !.project = p]
DiscussionRoute(p, d) == [ProjectRoute(p) EXCEPT !.discussion = d]
MakerRoute(m) == [MarketRoute EXCEPT !.maker = m]
ConversationRoute(c) == [ViewRoute("messages") EXCEPT !.conversation = c]

Routes ==
  {MarketRoute, SubmitRoute} \cup {ViewRoute(v) : v \in Views}
    \cup {ProjectRoute(p) : p \in Projects} \cup {MakerRoute(m) : m \in Makers}
    \cup {DiscussionRoute(p, d) : p \in Projects, d \in Discussions}
    \cup {ConversationRoute(c) : c \in Conversations}

ASSUME HitsAssumption == Hits \subseteq Routes

\* An address: the path (by the route it stands for), whether /admin follows it
\* and whether it has a filter query.  ?view=admin alone counts as /admin.
Address(r) ==
  IF r = ViewRoute("admin") THEN [path |-> MarketRoute, admin |-> TRUE, q |-> FALSE]
  ELSE [path |-> r, admin |-> FALSE, q |-> FALSE]

\* matchRoute: a last segment admin wins over what stands before it.
MatchRoute(a) == IF a.admin THEN ViewRoute("admin") ELSE a.path

Current == entries[pos]

------------------------------------------------------------------------------
(* What is on the screen.                                                  *)

EffectiveView(v, r, h) == IF v = "admin" /\ ~h /\ r # "admin" THEN "market" ELSE v

\* The order in which App.tsx looks for the page: a maker's profile, the views
\* of their own, the discussions of a project, the dashboard, the market.
Shown(s, r, h) ==
  LET v == EffectiveView(s.view, r, h) IN
  IF s.maker # None THEN MakerRoute(s.maker)
  ELSE IF v = "messages" THEN [ViewRoute(v) EXCEPT !.conversation = s.conversation]
  ELSE IF v # "market" THEN ViewRoute(v)
  ELSE IF s.project # None THEN DiscussionRoute(s.project, s.discussion)
  ELSE MarketRoute

OnScreen == Shown(screen, role, hydrating)

\* The page that an address leads to, for the member who is logged in.
PageOf(a) == Shown(MatchRoute(a), role, hydrating)

\* A dialog is modal: the page behind it takes no clicks.
Page(r) == ~screen.submit /\ OnScreen = r

------------------------------------------------------------------------------
(* History and effects.                                                    *)

\* Mutant of Pushed: a push keeps the entries that lay ahead.
PushedKeepsAhead(h, r) == [at |-> Append(h.at, Address(r)), pos |-> h.pos + 1]

Pushed(h, r) == [at |-> Append(SubSeq(h.at, 1, h.pos), Address(r)), pos |-> h.pos + 1]
History == [at |-> entries, pos |-> pos]

\* Mutant of SubmitSync: the address is left alone when the dialog opens.
SubmitSyncCloseOnly(s, h) ==
  IF s.submit # screen.submit /\ ~s.submit /\ MatchRoute(h.at[h.pos]).submit
  THEN Pushed(h, MarketRoute) ELSE h

\* The effect on isSubmitOpen.
SubmitSync(s, h) ==
  LET onSubmitPath == MatchRoute(h.at[h.pos]).submit IN
  IF s.submit # screen.submit /\ s.submit # onSubmitPath
  THEN Pushed(h, IF s.submit THEN SubmitRoute ELSE MarketRoute)
  ELSE h

OwnsDedicatedPath(s, v) ==
  \/ v \notin {"market", "admin"}
  \/ s.project # None \/ s.maker # None \/ s.conversation # None \/ s.discussion # None

\* The effect on the filters and the fields that own an address: on the lists
\* it sets or strips /admin, keeps what stands before it, and writes the query.
Dependencies(s, r, h, f) ==
  <<EffectiveView(s.view, r, h), s.project, s.maker, s.conversation, s.discussion, f>>

FilterSync(s, h) ==
  LET v == EffectiveView(s.view, role', hydrating') IN
  IF \/ Dependencies(s, role', hydrating', filters')
          = Dependencies(screen, role, hydrating, filters)
     \/ OwnsDedicatedPath(s, v)
  THEN h
  ELSE [h EXCEPT !.at[h.pos].admin = (v = "admin"), !.at[h.pos].q = filters']

\* A handler has left the state s and the history h: render and run the effects.
Render(s, h) ==
  LET synced == FilterSync(s, SubmitSync(s, h)) IN
  /\ screen' = s
  /\ entries' = synced.at
  /\ pos' = synced.pos
  /\ Len(synced.at) <= MaxHistory

UnchangedButRoute == UNCHANGED <<role, hydrating, pending, typed, filters>>

\* A click whose handler leaves the state s and navigates to r.
Go(s, r) == UnchangedButRoute /\ Render(s, Pushed(History, r))

------------------------------------------------------------------------------
(* Clicks.                                                                 *)

LeaveOverlays(v) == [screen EXCEPT !.maker = None, !.project = None, !.view = v]
OnlyView(v) == [LeaveOverlays(v) EXCEPT !.discussion = None, !.conversation = None]

\* goHome: from the logo, and from the pages that offer it.
GoHome == ~screen.submit /\ Go(LeaveOverlays("market"), MarketRoute)

\* openAbout, openPolicy.
OpenPublic(v) ==
  /\ ~screen.submit
  /\ v = "about" => screen.view # "about"
  /\ Go(LeaveOverlays(v), ViewRoute(v))

OpenSupport == ~screen.submit /\ Go(OnlyView("support"), ViewRoute("support"))

OpenMessages ==
  ~screen.submit /\ role # "none" /\ Go(OnlyView("messages"), ViewRoute("messages"))

\* openAdminArea, shown to admins only.
OpenAdminArea(v) == ~screen.submit /\ role = "admin" /\ Go(OnlyView(v), ViewRoute(v))

\* switchView, which the header calls with the market: no address is pushed.
SwitchView ==
  /\ ~screen.submit /\ role = "admin" /\ screen.view # "market"
  /\ UnchangedButRoute
  /\ Render([screen EXCEPT !.maker = None, !.view = "market"], History)

\* applyAdminRecommendation, whose filters (or none) are on at once.
ApplyRecommendation(f) ==
  /\ Page(ViewRoute("admin"))
  /\ typed' = f /\ filters' = f
  /\ UNCHANGED <<role, hydrating, pending>>
  /\ Render([screen EXCEPT !.view = "market"], History)

\* openProjectDetailById: from the list, a profile, or any page's notifications.
OpenProject(p) ==
  /\ ~screen.submit
  /\ role # "none" \/ OnScreen = MarketRoute \/ OnScreen.maker # None
  /\ Go([screen EXCEPT !.maker = None, !.project = p, !.view = "market"], ProjectRoute(p))

CloseProject ==
  /\ screen.project # None /\ Page(ProjectRoute(screen.project))
  /\ Go([screen EXCEPT !.project = None], MarketRoute)

OpenMaker(m) ==
  /\ screen.project # None /\ Page(ProjectRoute(screen.project))
  /\ Go([screen EXCEPT !.project = None, !.maker = m, !.view = "market"], MakerRoute(m))

CloseMaker ==
  /\ screen.maker # None /\ Page(MakerRoute(screen.maker))
  /\ Go([screen EXCEPT !.maker = None], MarketRoute)

\* openDiscussionList, ...New and ...Detail, as App.tsx and DiscussionHub offer
\* them; a new discussion asks for a session.
Leads(from, to) ==
  /\ to = "list" => from # "list"
  /\ to = "new" => from = "list" /\ role # "none"
  /\ to \in Threads => from \in {"list", "new"}

OpenDiscussion(d) ==
  /\ screen.project # None /\ Page(DiscussionRoute(screen.project, screen.discussion))
  /\ Leads(screen.discussion, d)
  /\ Go([screen EXCEPT !.discussion = d], DiscussionRoute(screen.project, d))

CloseDiscussions ==
  /\ screen.project # None /\ screen.discussion # None
  /\ Page(DiscussionRoute(screen.project, screen.discussion))
  /\ Go([screen EXCEPT !.discussion = None], ProjectRoute(screen.project))

InMessages == ~screen.submit /\ OnScreen.view = "messages" /\ role # "none"

OpenConversation(c) ==
  InMessages /\ Go([screen EXCEPT !.conversation = c], ConversationRoute(c))

CloseConversation ==
  /\ InMessages /\ screen.conversation # None
  /\ Go([screen EXCEPT !.conversation = None], ViewRoute("messages"))

\* openSubmitDialog, by a button or by the shortcut that works everywhere.
OpenSubmit ==
  /\ role = "maker" /\ ~screen.submit
  /\ UnchangedButRoute
  /\ Render([screen EXCEPT !.submit = TRUE], History)

\* The dialog's close button, or the end of handleSubmitProject.
CloseSubmit ==
  /\ screen.submit
  /\ UnchangedButRoute
  /\ Render([screen EXCEPT !.submit = FALSE], History)

\* /submit as a deep link: once the session and the configuration are there,
\* openSubmitDialog is called, which does nothing for anybody but makers.
FollowDeepLink ==
  /\ pending /\ ~hydrating
  /\ pending' = FALSE
  /\ UNCHANGED <<role, hydrating, typed, filters>>
  /\ Render([screen EXCEPT !.submit = @ \/ role = "maker"], History)

------------------------------------------------------------------------------
(* Filters and the session.                                                *)

TypeFilter ==
  /\ Page(MarketRoute)
  /\ typed' = ~typed
  /\ UNCHANGED <<entries, pos, screen, role, hydrating, pending, filters>>

\* The debounce is over, whatever is on the screen by now.  A filter without a
\* debounce is a TypeFilter and a SettleFilter.
SettleFilter ==
  /\ filters # typed /\ filters' = typed
  /\ UNCHANGED <<role, hydrating, pending, typed>>
  /\ Render(screen, History)

SetSession(r, h) ==
  /\ role' = r /\ hydrating' = h
  /\ UNCHANGED <<pending, typed, filters>>
  /\ Render(screen, History)

\* fetchAuthSession answers, with what the server knew when it was asked.
Hydrate(r) == hydrating /\ SetSession(r, FALSE)

Login(r) == ~screen.submit /\ role = "none" /\ r # "none" /\ SetSession(r, hydrating)
Logout == ~screen.submit /\ role # "none" /\ SetSession("none", hydrating)

------------------------------------------------------------------------------
(* The browser.                                                            *)

\* Mutant of PopState: the discussion is forgotten.
PopStateKeepsDiscussion(h) ==
  /\ UnchangedButRoute
  /\ Render([MatchRoute(h.at[h.pos]) EXCEPT !.discussion = screen.discussion], h)

\* onPopState.
PopState(h) == UnchangedButRoute /\ Render(MatchRoute(h.at[h.pos]), h)

Back == pos > 1 /\ PopState([at |-> entries, pos |-> pos - 1])
Forward == pos < Len(entries) /\ PopState([at |-> entries, pos |-> pos + 1])

\* goToHit of the search palette: an address is pushed, popstate is synthesised.
GoToHit(r) == PopState(Pushed(History, r))

\* The page is loaded anew: useState reads the address, the filters come from
\* its query or from localStorage; the search text is debounced once more.
Load(r, f) ==
  /\ screen' = [MatchRoute(r) EXCEPT !.submit = FALSE]
  /\ pending' = MatchRoute(r).submit
  /\ role' = "none" /\ hydrating' = TRUE
  /\ typed' = f /\ filters' \in {FALSE, f}

Preset ==
  IF Current.q THEN {TRUE}
  ELSE {typed, filters} \cup (IF Current.admin THEN {FALSE} ELSE {})

Reload == \E f \in Preset : Load(Current, f) /\ UNCHANGED <<entries, pos>>

------------------------------------------------------------------------------
Init ==
  \E r \in Routes, f \in BOOLEAN :
    LET a == Address(r) IN
    /\ entries = <<a>> /\ pos = 1
    /\ screen = [MatchRoute(a) EXCEPT !.submit = FALSE]
    /\ pending = r.submit
    /\ role = "none" /\ hydrating = TRUE
    /\ typed = f /\ filters \in {FALSE, f}

Next ==
  \/ GoHome \/ OpenSupport \/ OpenMessages \/ SwitchView
  \/ \E v \in PublicViews : OpenPublic(v)
  \/ \E v \in AdminViews : OpenAdminArea(v)
  \/ \E f \in BOOLEAN : ApplyRecommendation(f)
  \/ \E p \in Projects : OpenProject(p)
  \/ CloseProject \/ CloseMaker
  \/ \E m \in Makers : OpenMaker(m)
  \/ \E d \in Discussions : OpenDiscussion(d)
  \/ CloseDiscussions \/ CloseConversation
  \/ \E c \in Conversations : OpenConversation(c)
  \/ OpenSubmit \/ CloseSubmit \/ FollowDeepLink
  \/ TypeFilter \/ SettleFilter
  \/ \E r \in Roles : Hydrate(r) \/ Login(r)
  \/ Logout
  \/ Back \/ Forward \/ Reload
  \/ \E r \in Hits : GoToHit(r)

Spec == Init /\ [][Next]_vars

------------------------------------------------------------------------------
(* Properties.                                                             *)

\* Types; the address on the screen is one of the history's.
TypeOK ==
  /\ entries \in Seq([path : Routes, admin : BOOLEAN, q : BOOLEAN])
  /\ Len(entries) \in 1 .. MaxHistory /\ pos \in DOMAIN entries
  /\ screen \in Route
  /\ role \in Roles /\ hydrating \in BOOLEAN /\ pending \in BOOLEAN
  /\ typed \in BOOLEAN /\ filters \in BOOLEAN

\* While the submit dialog is open its address is the current one, however it
\* was opened, so that Back closes it and a reload opens it again; but for one
\* opened over the dashboard before the session is known.
DialogHasAddress ==
  screen.submit /\ OnScreen.view # "admin" => MatchRoute(Current).submit

\* useProtoLiveApp.ts:1211-1213: an address that a project, a profile, a
\* discussion or a conversation owns is never given the query of the filters.
FiltersStayOffOwnedPaths ==
  \A k \in DOMAIN entries :
    LET r == MatchRoute(entries[k]) IN
    entries[k].q => /\ r.project = None /\ r.maker = None
                    /\ r.discussion = None /\ r.conversation = None

InStep == OnScreen = PageOf(Current)

\* The ways in which the code lets go of the address: the dialog is opened or
\* closed over a page (its address is /submit, then /); a project is opened
\* while a discussion is left over; an admin goes to the market by switchView.
DialogToggled == screen'.submit # screen.submit
DiscussionLeftOver ==
  screen.discussion # None /\ screen'.discussion # None /\ screen'.project # None
MarketUnaddressed == role = "admin" /\ screen.view # "market" /\ screen'.view = "market"

\* useProtoLiveApp.ts:143, "URL(popstate)과 동기화된다": whatever the order of
\* clicks, answers and debounces, the page on the screen is the one its address
\* leads to, but for those three; and going back always brings it there again.
ScreenFollowsAddress ==
  [][/\ InStep /\ ~InStep' => DialogToggled \/ DiscussionLeftOver \/ MarketUnaddressed
     /\ pos' < pos => InStep']_vars

OnDashboard == OnScreen = ViewRoute("admin")

\* The two effects and the handlers do not fight over the history: a step adds
\* at most one entry, and no entry behind the current one is lost or leads to
\* another page; of the current one, only the dashboard's address is rewritten.
HistoryKept ==
  [][/\ Len(entries') \in {Len(entries), pos + 1}
     /\ \A k \in DOMAIN entries :
          k <= pos \/ pos' <= pos
            => /\ k \in DOMAIN entries'
               /\ \/ entries'[k] = entries[k]
                  \/ Shown(MatchRoute(entries'[k]), role', hydrating')
                       = Shown(MatchRoute(entries[k]), role', hydrating')
                  \/ k = pos /\ (OnDashboard \/ OnDashboard')]_vars
==============================================================================
