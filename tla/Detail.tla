------------------------------- MODULE Detail -------------------------------
(* The page of a project in the web client and what is done from it: the      *)
(* requests that fill its reviews, its activity and its log, the row it takes *)
(* from the market's list or asks for, the three forms a visitor sends, the   *)
(* preview, and the rail of projects seen lately.  Answers come in any order, *)
(* and every handler goes on after its await whatever the screen shows then.  *)
EXTENDS Bell, SequencesExt

CONSTANTS Owner,        \* [projects -> Users]
          Makers, Admins,
          Screened,     \* the projects shown on request only
          Missing,      \* addresses of projects that do not exist
          FirstReviews, \* the reviews at the start
          FirstReports, \* [reviews' numbers -> who reported them]
          ActKinds,     \* what is done to a project
          RailLimit,    \* RECENTLY_VIEWED_LIMIT
          FirstVisits,  \* whose cookie the browser has, and where the application is opened; 0 is the market
          MaxBusy,      \* bound on the requests under way when the visitor goes on
          MaxTyped      \* bound on the texts typed into the forms

Ids   == DOMAIN Owner
Pages == {0} \cup Ids \cup Missing
Texts == 0 .. MaxTyped    \* 0 is none, and that of the reviews at the start
Review == [n : Nat, project : Ids, parent : Nat, text : Texts]
ASSUME DetailAssumption == /\ Owner \in [Ids -> Makers] /\ Makers \cup Admins \subseteq Users
                           /\ Screened \subseteq Ids /\ Ids \cup Missing \subseteq Nat \ {0}
                           /\ MaxTyped \in Nat /\ RailLimit \in Nat \ {0}
                           /\ ActKinds \subseteq {"reload", "outbound", "leave", "recheck", "feature", "upvote"}
ASSUME StartAssumption ==
  /\ FirstVisits \subseteq Visitors \X Pages
  /\ \A n \in FirstNotices : n.project \in Ids
  /\ IsFiniteSet(FirstReviews) /\ FirstReviews \subseteq [n : Nat, project : Ids, parent : Nat, text : {0}]
  /\ \A r \in FirstReviews : r.n \in 1 .. Cardinality(FirstReviews)
  /\ \A r, s \in FirstReviews : r.n = s.n => r = s

VARIABLES reviews, reports, votes,               \* server
          saved,                                 \* how often the server saved a text
          market, listed,                        \* the first page of the list, there and here
          page, been, found, waits, shown,        \* the page; 0 is none
          settled, strays,                       \* what its slots have received (history)
          forms, typed, replyTo, posts, lost,    \* the forms
          submitOpen, check, checks,             \* the form for a project
          preview, activity, acts, upvoted, rechecking, \* what is done to a project
          viewed
tables   == <<reviews, reports, votes, saved>>
list     == <<market, listed>>
screen   == <<page, been, found, waits, shown, settled, strays>>
composer == <<forms, typed, replyTo, posts, lost>>
project  == <<submitOpen, check, checks>>
dealings == <<preview, activity, acts, upvoted, rechecking>>
vars == <<bellVars, bounds, tables, list, screen, composer, project, dealings, viewed>>

Slots  == {"reviews", "events", "log"}
Forms  == {"review", "log", "project"}
Stages == {"sent", "orphan", "saved", "refused", "snapshot"}
Blank  == [text |-> 0, sending |-> FALSE]
(* getVisibleProjectReviews                                                   *)
Hidden(told, n) == n # 0 /\ Cardinality(told[n]) >= 3
Posted(p) == {r \in reviews : r.project = p /\ ~Hidden(reports, r.n) /\ ~Hidden(reports, r.parent)}

(* detailProject: the row of the list, else the one that was asked for.       *)
Resolved == page \in listed \/ found = "found"
OnPage   == Resolved /\ ~loginOpen /\ ~submitOpen /\ preview = 0
Idle     == ~loginOpen /\ ~submitOpen /\ preview = 0
-----------------------------------------------------------------------------
(* What is under way for another project than p when its page is opened, and  *)
(* ends in a slot: nothing in the client tells it from an answer for p.       *)
SlotOf(h) == CASE h.form = "review" -> "reviews" [] h.form = "log" -> "log" [] OTHER -> "none"
Astray(s, p) == \/ \E w \in waits : w.slot = s /\ w.project # p
                \/ \E h \in posts : SlotOf(h) = s /\ h.at \in {"sent", "saved"} /\ h.project # p

(* The effects on detailProjectId: they run when it changes, and only then.   *)
\* Mutant of Fills: a page is filled only when none was open before.
FillsFromList(p) == p # 0 /\ page = 0

Fills(p) == p \notin {page, 0}

Turn(p) ==
  /\ page' = p /\ been' = been \cup {p}
  /\ waits' = IF Fills(p) THEN {[w EXCEPT !.newest = FALSE] : w \in waits}
                               \cup {[slot |-> s, project |-> p, newest |-> TRUE] : s \in Slots}
                          ELSE waits
  /\ settled' = IF Fills(p) THEN [s \in Slots |-> FALSE] ELSE settled
  /\ strays' = IF p = page THEN strays ELSE {s \in Slots : Astray(s, p)}
  /\ found' = IF p = page THEN found ELSE IF p \in listed \cup {0} THEN "none" ELSE "asked"

(* openProjectDetailById: from a card, the rail or the bell.  It empties the  *)
(* page first, also when it is the page that is open.                         *)
OpenById == \E p \in IF page = 0 THEN listed \cup ToSet(viewed) \cup {n.project : n \in bell}
                                 ELSE {n.project : n \in bell} :
  /\ Idle /\ Turn(p)
  /\ shown' = [shown EXCEPT !.reviews = {}, !.events = 0]
  /\ UNCHANGED <<bellVars, tables, list, composer, project, dealings>>
(* closeProjectDetail                                                         *)
CloseDetail ==
  /\ page # 0 /\ Idle /\ Turn(0)
  /\ shown' = [shown EXCEPT !.reviews = {}, !.events = 0] /\ replyTo' = 0
  /\ UNCHANGED <<bellVars, tables, list, forms, typed, posts, lost, project, dealings>>
(* goHome and closeModalStack.                                                *)
GoHome ==
  /\ page # 0 /\ Idle /\ Turn(0)
  /\ shown' = [shown EXCEPT !.events = 0] /\ activity' = 0
  /\ UNCHANGED <<bellVars, tables, list, composer, project, preview, acts, upvoted, rechecking>>
(* Back and Forward, and openMakerProfile: nothing on the page is emptied.    *)
Travel == \E p \in (been \cup {0}) \ {page} :
  /\ Turn(p) /\ submitOpen' = FALSE
  /\ UNCHANGED <<bellVars, tables, list, shown, composer, check, checks, dealings>>

(* An answer fills its slot whatever page is open by then; what is asked for  *)
(* a project that does not exist is refused.                                  *)
SlotArrives(w) ==
  /\ w \in waits /\ waits' = waits \ {w} /\ w.project \in Ids
  /\ settled' = [settled EXCEPT ![w.slot] = @ \/ w.newest]
  /\ shown' = [shown EXCEPT ![w.slot] = IF w.slot = "reviews" THEN Posted(w.project) ELSE w.project]
  /\ UNCHANGED <<bellVars, tables, list, page, been, found, strays, composer, project, dealings>>
SlotFails(w) ==
  /\ w \in waits /\ waits' = waits \ {w}
  /\ shown' = IF w.slot = "reviews" THEN shown ELSE [shown EXCEPT ![w.slot] = 0]
  /\ UNCHANGED <<bellVars, tables, list, page, been, found, settled, strays, composer, project, dealings>>

(* The request for a project that is not in the list.                         *)
RowArrives ==
  /\ found = "asked"
  /\ found' = IF page \in Ids THEN "found" ELSE "unavailable"
  /\ UNCHANGED <<bellVars, tables, list, page, been, waits, shown, settled, strays, composer, project, dealings>>
RowFails ==
  /\ found = "asked" /\ found' = "unavailable"
  /\ UNCHANGED <<bellVars, tables, list, page, been, waits, shown, settled, strays, composer, project, dealings>>

ListArrives ==
  /\ listed # market \/ rechecking # {}
  /\ listed' = market /\ rechecking' = {}
  /\ UNCHANGED <<bellVars, tables, market, screen, composer, project, preview, activity, acts, upvoted>>
(* Others' activity changes what the first page of the market holds.          *)
MarketMoves == \E m \in SUBSET Ids :
  /\ m # market /\ Cardinality(m) = Cardinality(market) /\ market' = m
  /\ UNCHANGED <<bellVars, tables, listed, screen, composer, project, dealings>>
-----------------------------------------------------------------------------
(* The forms.  Every text is told apart from the others.                      *)
Type(f) ==
  /\ typed < MaxTyped /\ typed' = typed + 1
  /\ CASE f = "review"  -> OnPage
       [] f = "log"     -> OnPage /\ session = Owner[page]
       [] f = "project" -> submitOpen /\ ~loginOpen
  /\ forms' = [forms EXCEPT ![f].text = typed']
  /\ check' = IF f = "project" THEN "idle" ELSE check
  /\ UNCHANGED <<bellVars, tables, list, screen, replyTo, posts, lost, submitOpen, checks, dealings>>
ReplyTo == \E r \in shown.reviews :
  /\ OnPage /\ r.parent = 0 /\ replyTo' = r.n
  /\ UNCHANGED <<bellVars, tables, list, screen, forms, typed, posts, lost, project, dealings>>
(* closeReviewDialog, which the page's own login button calls too.            *)
DetailLogin ==
  /\ OnPage /\ session = Nobody /\ loginOpen' = TRUE
  /\ shown' = [shown EXCEPT !.reviews = {}] /\ replyTo' = 0
  /\ forms' = [forms EXCEPT !["review"].text = 0]
  /\ UNCHANGED <<cookie, session, asked, leaving, mixed, notices, header, tables, list, page, been,
                 found, waits, settled, strays, typed, posts, lost, project, dealings>>

(* openSubmitDialog, from a button or by Ctrl+N above any other dialog.       *)
OpenSubmit ==
  /\ loginOpen' = (loginOpen \/ session = Nobody) /\ submitOpen' = (session \in Makers)
  /\ UNCHANGED <<cookie, session, asked, leaving, mixed, notices, header, tables, list, screen,
                 composer, check, checks, dealings>>
Create   == Idle /\ session \in Makers \cup {Nobody} /\ OpenSubmit
Shortcut == ~Idle /\ ~submitOpen /\ OpenSubmit
CloseSubmit ==
  /\ submitOpen /\ ~loginOpen /\ submitOpen' = FALSE
  /\ UNCHANGED <<bellVars, tables, list, screen, composer, check, checks, dealings>>
(* handleVerifyUrl: the answer is about the address it was asked for, and is  *)
(* shown beside whatever address is there by then.                            *)
Verify ==
  /\ submitOpen /\ ~loginOpen /\ check # "checking" /\ forms["project"].text # 0
  /\ check' = "checking" /\ checks' = checks \cup {forms["project"].text}
  /\ UNCHANGED <<bellVars, tables, list, screen, composer, submitOpen, dealings>>
Verified == \E t \in checks :
  /\ checks' = checks \ {t}
  /\ \/ check' = "success" /\ NoBound
     \/ check' = "error" /\ Event
  /\ UNCHANGED <<bellVars, tables, list, screen, composer, submitOpen, dealings>>

ReviewReady  == OnPage
LogReady     == OnPage /\ session = Owner[page]
ProjectReady == submitOpen /\ session \in Makers /\ check = "success"
MaySend(f) ==
  /\ forms[f].text # 0 /\ session # Nobody /\ ~loginOpen
  /\ CASE f = "review" -> ReviewReady [] f = "log" -> LogReady [] f = "project" -> ProjectReady
Send(f) ==
  /\ forms' = [forms EXCEPT ![f].sending = TRUE]
  /\ posts' = posts \cup {[form |-> f, at |-> "sent", project |-> page, text |-> forms[f].text,
                           parent |-> IF f = "review" THEN replyTo ELSE 0, user |-> cookie,
                           review |-> 0]}
  /\ UNCHANGED <<bellVars, tables, list, screen, typed, replyTo, lost, project, dealings>>

\* Mutant of Submit: the button stays enabled while a request is under way.
SubmitTwice(f) == MaySend(f) /\ Send(f)

(* handleSubmitReview, handleSubmitLog and handleSubmitProject.               *)
Submit(f) == MaySend(f) /\ ~forms[f].sending /\ Send(f)

Moved(set, h, at) == (set \ {h}) \cup {[h EXCEPT !.at = at]}
Accepts(h) ==
  CASE h.form = "review"  -> h.user # Nobody /\ (h.parent # 0 =>
                               \E r \in reviews : r.n = h.parent /\ r.parent = 0
                                                   /\ r.project = h.project)
    [] h.form = "log"     -> h.user = Owner[h.project]
    [] h.form = "project" -> h.user \in Makers
(* createProjectReview, addProjectLogEntry and createProject.  The answer to  *)
(* the first names the review that it saved.                                  *)
NextReview == Cardinality(reviews) + 1
Kept(h) == [h EXCEPT !.at = "saved", !.review = IF h.form = "review" THEN NextReview ELSE 0]
Serve(h) ==
  /\ h \in posts /\ h.at \in {"sent", "orphan"}
  /\ posts' = IF h.at = "orphan" THEN posts \ {h}
              ELSE IF Accepts(h) THEN (posts \ {h}) \cup {Kept(h)} ELSE Moved(posts, h, "refused")
  /\ saved' = IF Accepts(h) THEN [saved EXCEPT ![h.text] = @ + 1] ELSE saved
  /\ IF Accepts(h) /\ h.form = "review"
       THEN /\ reviews' = reviews \cup {[n |-> NextReview, project |-> h.project,
                                         parent |-> h.parent, text |-> h.text]}
            /\ reports' = NextReview :> {} @@ reports
            /\ notices' = Told(Owner[h.project], h.user, h.project)
       ELSE UNCHANGED <<reviews, reports, notices>>
  /\ UNCHANGED <<account, header, votes, list, screen, forms, typed, replyTo, lost, project, dealings>>

(* The answer is shown on the page that is open by then.                      *)
ReviewSaved(h) ==
  /\ shown' = [shown EXCEPT !.reviews = @ \cup {r \in reviews : r.n = h.review}]
  /\ listed' = listed \cup {h.project}
  /\ posts' = Moved(posts, h, "snapshot") /\ UNCHANGED forms
LogSaved(h) ==
  /\ shown' = [shown EXCEPT !.log = h.project]
  /\ forms' = [forms EXCEPT !["log"] = Blank]
  /\ posts' = posts \ {h} /\ UNCHANGED listed
ProjectSaved(h) == posts' = Moved(posts, h, "snapshot") /\ UNCHANGED <<shown, listed, forms>>
Answered(h) ==
  /\ h \in posts /\ h.at = "saved"
  /\ CASE h.form = "review" -> ReviewSaved(h) [] h.form = "log" -> LogSaved(h)
       [] h.form = "project" -> ProjectSaved(h)
  /\ UNCHANGED <<bellVars, tables, market, page, been, found, waits, settled, strays, typed, replyTo,
                 lost, project, dealings>>
(* After the list has been loaded again the form is emptied, whatever was     *)
(* typed into it meanwhile.                                                    *)
Finished(h) ==
  /\ h \in posts /\ h.at = "snapshot" /\ posts' = posts \ {h}
  /\ forms' = [forms EXCEPT ![h.form] = Blank]
  /\ listed' = market /\ rechecking' = {}
  /\ replyTo' = IF h.form = "review" THEN 0 ELSE replyTo
  /\ check' = IF h.form = "project" THEN "idle" ELSE check
  /\ submitOpen' = (submitOpen /\ h.form # "project")
  /\ UNCHANGED <<bellVars, tables, market, screen, typed, lost, checks, preview, activity, acts, upvoted>>
(* A request that was refused, or given up: the server may still handle it.   *)
Refused(h) ==
  /\ h \in posts /\ h.at = "refused" /\ posts' = posts \ {h}
  /\ forms' = [forms EXCEPT ![h.form].sending = FALSE]
  /\ UNCHANGED <<bellVars, tables, list, screen, typed, replyTo, lost, project, dealings>>
GivenUp(h) ==
  /\ h \in posts /\ h.at \in {"sent", "saved"}
  /\ posts' = IF h.at = "sent" THEN Moved(posts, h, "orphan") ELSE posts \ {h}
  /\ lost' = lost \cup {h.text}
  /\ forms' = [forms EXCEPT ![h.form].sending = FALSE]
  /\ UNCHANGED <<bellVars, tables, list, screen, typed, replyTo, project, dealings>>
-----------------------------------------------------------------------------
Asking(kind, p, n) == [kind |-> kind, project |-> p, review |-> n, user |-> cookie, at |-> "sent"]

(* handleOpenPreview: a project shown on request leads an investor to another *)
(* dialog, and anybody else nowhere but the login.                            *)
OpenPreview ==
  /\ OnPage
  /\ IF page \in Screened
       THEN /\ loginOpen' = (session = Nobody) /\ UNCHANGED <<preview, acts>>
       ELSE /\ preview' = page /\ acts' = acts \cup {Asking("preview", page, 0)} /\ UNCHANGED loginOpen
  /\ UNCHANGED <<cookie, session, asked, leaving, mixed, notices, header, tables, list, screen,
                 composer, project, activity, upvoted, rechecking>>
ClosePreview ==
  /\ preview # 0 /\ ~loginOpen /\ ~submitOpen /\ preview' = 0 /\ activity' = 0
  /\ UNCHANGED <<bellVars, tables, list, screen, composer, project, acts, upvoted, rechecking>>
(* Reload and new tab in the preview, a new tab from the page, the recheck,   *)
(* the upvote and the mark of an operator; and the report of a review.        *)
CanRecheck == OnPage /\ session \in Admins \cup {Owner[page]}
CanFeature == OnPage /\ session \in Admins
CanUpvote  == OnPage /\ session # Nobody
Act(kind) ==
  /\ CASE kind \in {"reload", "outbound"} -> preview # 0 /\ ~loginOpen /\ ~submitOpen
       [] kind = "leave"   -> OnPage /\ page \notin Screened
       [] kind = "recheck" -> CanRecheck [] kind = "feature" -> CanFeature [] kind = "upvote" -> CanUpvote
  /\ acts' = acts \cup {Asking(kind, IF kind \in {"reload", "outbound"} THEN preview ELSE page, 0)}
  /\ rechecking' = IF kind = "recheck" THEN rechecking \cup ({page} \cap listed) ELSE rechecking
  /\ UNCHANGED <<bellVars, tables, list, screen, composer, project, preview, activity, upvoted>>
Report == \E r \in shown.reviews :
  /\ OnPage /\ session # Nobody
  /\ acts' = acts \cup {Asking("report", page, r.n)}
  /\ UNCHANGED <<bellVars, tables, list, screen, composer, project, preview, activity, upvoted, rechecking>>

InPreview == {"preview", "reload", "outbound"}
(* What the server refuses: what needs an account or a role, a vote for one's *)
(* own project, and a report twice or of a review that is hidden.             *)
Allowed(h) == CASE h.kind = "recheck" -> h.user \in Admins \cup {Owner[h.project]}
                [] h.kind = "feature" -> h.user \in Admins
                [] h.kind \in {"upvote", "report"} -> h.user # Nobody
                [] OTHER -> TRUE
Grants(h) ==
  /\ Allowed(h)
  /\ h.kind = "upvote" => h.user # Owner[h.project]
  /\ h.kind = "report" => \E r \in Posted(h.project) : r.n = h.review /\ h.user \notin reports[r.n]
Reported(h) == IF h.kind = "report" THEN [reports EXCEPT ![h.review] = @ \cup {h.user}] ELSE reports
(* The server's answer holds the project, which goes back into the list; that *)
(* to a report leaves out what it has hidden.                                 *)
Voted(h) == IF h.kind = "upvote" THEN SymDiff(votes, {<<h.user, h.project>>}) ELSE votes
ApplyUpvote(h) == IF h.kind # "upvote" THEN upvoted
                  ELSE IF <<h.user, h.project>> \in votes' THEN upvoted \cup {h.project}
                       ELSE upvoted \ {h.project}
(* A mark that is new is told to the owner by nobody in particular; which     *)
(* projects carry it is left open.                                            *)
Announced(h) ==
  CASE h.kind = "upvote" /\ <<h.user, h.project>> \in votes' -> {Told(Owner[h.project], h.user, h.project)}
    [] h.kind = "feature" -> {notices, Told(Owner[h.project], Nobody, h.project)}
    [] OTHER -> {notices}
ActAnswered(h) ==
  /\ h \in acts /\ h.at = "sent" /\ Grants(h)
  /\ votes' = Voted(h) /\ upvoted' = ApplyUpvote(h)
  /\ notices' \in Announced(h)
  /\ reports' = Reported(h)
  /\ shown' = IF h.kind = "report" /\ Hidden(reports', h.review)
                THEN [shown EXCEPT !.reviews = {r \in @ : h.review \notin {r.n, r.parent}}] ELSE shown
  /\ listed' = listed \cup {h.project} /\ rechecking' = rechecking \ {h.project}
  /\ acts' = IF h.kind \in {"upvote", "feature"} THEN acts \ {h} ELSE Moved(acts, h, "snapshot")
  /\ UNCHANGED <<account, header, reviews, saved, market, page, been, found, waits, settled, strays,
                 composer, project, preview, activity>>
ActFails(h) ==
  /\ h \in acts /\ h.at = "sent"
  /\ acts' = IF h.kind \in InPreview THEN Moved(acts, h, "unanswered") ELSE acts \ {h}
  /\ UNCHANGED <<bellVars, tables, list, screen, composer, project, preview, activity, upvoted, rechecking>>
ActListed(h) ==
  /\ h \in acts /\ h.at = "snapshot"
  /\ listed' = market /\ rechecking' = {}
  /\ acts' = IF h.kind \in InPreview THEN Moved(acts, h, "listed") ELSE acts \ {h}
  /\ UNCHANGED <<bellVars, tables, market, screen, composer, project, preview, activity, upvoted>>
(* loadProjectEvents, and then the preview is shown again if its own event    *)
(* was recorded, closed or not.                                               *)
ActivityArrives(h) ==
  /\ h \in acts /\ h.at \in {"listed", "unanswered"} /\ acts' = acts \ {h}
  /\ activity' = h.project
  /\ preview' = IF h.kind = "preview" /\ h.at = "listed" THEN h.project ELSE preview
  /\ UNCHANGED <<bellVars, tables, list, screen, composer, project, upvoted, rechecking>>
-----------------------------------------------------------------------------
(* SequencesExt's Remove, as a recursive function the provers can open.       *)
Without(s, p) ==
  LET kept[k \in 0 .. Len(s)] ==
        IF k = 0 THEN <<>> ELSE IF s[k] = p THEN kept[k - 1] ELSE Append(kept[k - 1], s[k])
  IN kept[Len(s)]
(* recordView: the rail follows every project a page has come to show.        *)
Seen == IF page # 0 /\ Resolved THEN page ELSE 0
Remember == viewed' = IF Seen' \in {Seen, 0} THEN viewed
                      ELSE LET rail == <<Seen'>> \o Without(viewed, Seen')
                           IN SubSeq(rail, 1, Min({RailLimit, Len(rail)}))
RemoveView == \E p \in ToSet(viewed) : viewed' = Without(viewed, p)
ClearViewed == viewed' = <<>>

pageVars == <<tables, list, screen, composer, project, dealings>>
Init ==
  /\ (\E v \in FirstVisits : cookie = v[1] /\ page = v[2]) /\ been = {page} /\ BellInit
  /\ reviews = FirstReviews /\ saved = [t \in 1..MaxTyped |-> 0] /\ votes = {}
  /\ reports = FirstReports
  /\ market \in {{p} : p \in Ids} /\ listed = {}
  /\ found = IF page = 0 THEN "none" ELSE "asked"
  /\ waits = IF page = 0 THEN {} ELSE {[slot |-> s, project |-> page, newest |-> TRUE] : s \in Slots}
  /\ shown = [reviews |-> {}, events |-> 0, log |-> 0] /\ settled = [s \in Slots |-> FALSE]
  /\ strays = {}
  /\ forms = [f \in Forms |-> Blank] /\ typed = 0 /\ replyTo = 0 /\ posts = {} /\ lost = {}
  /\ submitOpen = FALSE /\ check = "idle" /\ checks = {}
  /\ preview = 0 /\ activity = 0 /\ acts = {} /\ upvoted = {} /\ rechecking = {} /\ viewed = <<>>

Click == OpenById \/ CloseDetail \/ GoHome \/ Travel \/ (\E f \in Forms : Type(f) \/ Submit(f))
         \/ ReplyTo \/ DetailLogin \/ Create \/ Shortcut \/ CloseSubmit \/ Verify
         \/ OpenPreview \/ ClosePreview \/ (\E k \in ActKinds : Act(k)) \/ Report
Header == OpenLogin \/ CloseLogin \/ Login \/ Logout \/ OpenBell
Answer == \/ \E w \in waits : SlotArrives(w) \/ (w.project \notin Ids /\ SlotFails(w))
          \/ \E h \in posts : Serve(h) \/ Answered(h) \/ Finished(h) \/ Refused(h)
          \/ \E h \in acts : ActAnswered(h) \/ ActListed(h) \/ ActivityArrives(h)
          \/ RowArrives \/ ListArrives
Accident == \/ \E w \in waits : SlotFails(w)
            \/ \E h \in posts : GivenUp(h)
            \/ \E h \in acts : ActFails(h)
            \/ RowFails \/ MarketMoves
Busy == Cardinality(waits) + Cardinality(polls) + Cardinality(posts) + Cardinality(acts)
Step == \/ Busy <= MaxBusy /\ (Click \/ (Header /\ UNCHANGED pageVars)) /\ Deed
        \/ Answer /\ NoBound
        \/ Accident /\ Event
        \/ Verified
        \/ (SessionArrives \/ LoggedOut) /\ UNCHANGED pageVars
        \/ ((\E q \in polls : PollArrives(q)) \/ MarkServed) /\ NoBound /\ UNCHANGED pageVars
        \/ (OtherTab \/ Tick) /\ Event /\ UNCHANGED pageVars
Forget == page = 0 /\ Idle /\ (RemoveView \/ ClearViewed) /\ Deed /\ UNCHANGED <<bellVars, pageVars>>
Next == (Step /\ Remember) \/ Forget
Spec == Init /\ [][Next]_vars
-----------------------------------------------------------------------------
TypeOK ==
  /\ {session, cookie} \subseteq Visitors /\ asked \in Visitors \cup {NotAsked}
  /\ {notices, bell} \subseteq SUBSET Notice
  /\ polls \subseteq [kind : Kinds, user : Visitors, live : BOOLEAN]
  /\ reviews \subseteq Review /\ saved \in [1..MaxTyped -> Nat] /\ lost \subseteq 1..MaxTyped
  /\ page \in Pages /\ been \subseteq Pages /\ {market, listed} \subseteq SUBSET Ids
  /\ found \in {"none", "asked", "found", "unavailable"} /\ settled \in [Slots -> BOOLEAN]
  /\ strays \subseteq Slots
  /\ waits \subseteq [slot : Slots, project : Pages, newest : BOOLEAN]
  /\ shown \in [reviews : SUBSET Review, events : Pages, log : Pages]
  /\ forms \in [Forms -> [text : Texts, sending : BOOLEAN]] /\ typed \in Texts
  /\ posts \subseteq [form : Forms, at : Stages, project : Pages, text : 1..MaxTyped,
                      parent : Nat, user : Visitors, review : Nat]
  /\ replyTo \in Nat /\ preview \in {0} \cup Ids
  /\ acts \subseteq [kind : ActKinds \cup {"preview", "report"}, project : Ids, review : Nat,
                     user : Visitors, at : {"sent", "unanswered", "snapshot", "listed"}]
  /\ viewed \in Seq(Ids) /\ Len(viewed) <= RailLimit

(* A page shows its own project: once the answer to the newest question of a  *)
(* slot is there, what the slot shows is of the project of the page, however  *)
(* the visitor came to it and whatever is done on it since; and the project   *)
(* is the first of the rail.  Only a slot for which something was under way   *)
(* for another project when the page was opened may go wrong, and it does:    *)
(* the effects do not look at the page again, so that an answer that is late  *)
(* takes the place of what the page had received (useProtoLiveApp.ts:412-433  *)
(* and the handlers of the forms).                                            *)
ShowsOwn(s) == IF s = "reviews" THEN \A r \in shown.reviews : r.project = page
                                ELSE shown[s] \in {page, 0}
PageShowsItsOwn ==
  page # 0 => /\ \A s \in Slots \ strays : settled[s] => ShowsOwn(s)
              /\ Resolved => viewed[1] = page

(* What is typed once is saved once, as a review, a log entry or a project,   *)
(* unless the answer was lost and the visitor sent it again.                  *)
DraftsSavedOnce == \A t \in 1..MaxTyped : saved[t] <= 1 \/ t \in lost
=============================================================================
