------------------------------ MODULE Matching ------------------------------
(***************************************************************************)
(* Expressions of interest ("match proposals"): the dialog of the web      *)
(* client (MatchModal, handleSubmitMatch), the network, and the handler    *)
(* createMatchProposal with its consent guards and hooks.                  *)
(*                                                                         *)
(* The consent terms have a version; it changes when a new build of the    *)
(* API is deployed, while pages that show the old terms stay open.  A page *)
(* polls the configuration, terms included, whatever dialog is open.  A    *)
(* request outlives the 12 s the client waits for its answer.              *)
(*                                                                         *)
(* Versions are 1, 2, ...; 0 is "none": no configuration loaded, no        *)
(* version sent.  The hash of the terms changes with the version.          *)
(***************************************************************************)
EXTENDS Integers, Sequences, FiniteSets, FiniteSetsExt

CONSTANTS
  Investors,    \* investors, each with one open page
  Projects,
  Screened,     \* the projects with accessMode "screened"
  Ranges,       \* funding ranges
  MinAmount,    \* [Ranges -> Nat]
  MaxAmount,
  NoProject,
  MaxTerms,     \* bound: versions of the terms
  MaxSubmits,   \* bound: requests sent
  MaxEvents     \* bound: project events recorded

ASSUME ProjectsAssumption == Screened \subseteq Projects /\ NoProject \notin Projects
ASSUME RangesAssumption == MinAmount \in [Ranges -> Nat] /\ MaxAmount \in [Ranges -> Nat]
ASSUME BoundsAssumption == MaxTerms \in Nat \ {0} /\ MaxSubmits \in Nat /\ MaxEvents \in Nat

VARIABLES
  terms,      \* server: CONSENT_TERMS_VERSION of the running build
  proposals,
  totals,     \* server: the counters kept on each project
  events,     \* server: project events
  audit,      \* server: match_compliance_accepted entries
  notices,    \* server: match notifications to the maker, per project
  page,       \* client state of each investor
  wire,       \* requests the server has not handled
  answers,    \* answers a page still waits for
  submits     \* requests sent so far

serverVars == <<terms, proposals, totals, events, audit, notices>>
vars == <<terms, proposals, totals, events, audit, notices, page, wire, answers, submits>>

\* The event types but "create", which is recorded before the first match.
EventTypes == {"match", "preview", "outbound", "refresh"}

Init ==
  /\ terms = 1
  /\ proposals = <<>>
  /\ totals = [p \in Projects |-> [investors |-> 0, matches |-> 0, min |-> 0, max |-> 0]]
  /\ events = <<>>
  /\ audit = <<>>
  /\ notices = [p \in Projects |-> 0]
  /\ page = [i \in Investors |-> [config |-> 0, dialog |-> NoProject, ticked |-> FALSE,
                                  read |-> 0, waiting |-> 0]]
  /\ wire = {}
  /\ answers = {}
  /\ submits = 0

------------------------------------------------------------------------------
(* The page.  ticked stands for the three check-boxes together; read is    *)
(* the version that was on the screen when they were ticked (history).     *)

\* The config query: first load, poll, refetch.
Poll(i) ==
  /\ page' = [page EXCEPT ![i].config = terms]
  /\ UNCHANGED <<serverVars, wire, answers, submits>>

\* handleOpenMatchDialog
OpenDialog(i, p) ==
  /\ page[i].dialog = NoProject
  /\ page' = [page EXCEPT ![i].dialog = p, ![i].ticked = FALSE, ![i].read = 0]
  /\ UNCHANGED <<serverVars, wire, answers, submits>>

\* onClose of the dialog, also while a request is under way.
CloseDialog(i) ==
  /\ page[i].dialog # NoProject
  /\ page' = [page EXCEPT ![i].dialog = NoProject, ![i].ticked = FALSE, ![i].read = 0]
  /\ UNCHANGED <<serverVars, wire, answers, submits>>

\* The check-boxes of MatchModal.
Tick(i) ==
  /\ page[i].dialog # NoProject
  /\ page' = [page EXCEPT ![i].ticked = ~@,
                          ![i].read = IF page[i].ticked THEN 0 ELSE page[i].config]
  /\ UNCHANGED <<serverVars, wire, answers, submits>>

\* handleSubmitMatch up to its await; the button is disabled while it waits.
\* The funding ranges come with the configuration: without it none is active.
Submit(i, range) ==
  /\ page[i].dialog # NoProject
  /\ page[i].config # 0
  /\ page[i].ticked
  /\ page[i].waiting = 0
  /\ submits < MaxSubmits
  /\ submits' = submits + 1
  /\ wire' = wire \cup {[id |-> submits + 1, investor |-> i, project |-> page[i].dialog,
                         range |-> range, sent |-> page[i].config, read |-> page[i].read]}
  /\ page' = [page EXCEPT ![i].waiting = submits + 1]
  /\ UNCHANGED <<serverVars, answers>>

\* handleSubmitMatch after its await.  The snapshot is loaded again in both
\* cases, which may fail by itself; an error that is not about the terms leaves
\* the dialog as it is.
Loaded(i) == {page[i].config, terms}

Accepted(i) ==
  \E c \in Loaded(i) :
    page' = [page EXCEPT ![i] = [config |-> c, dialog |-> NoProject, ticked |-> FALSE,
                                 read |-> 0, waiting |-> 0]]

RejectedStale(i) ==
  \E c \in Loaded(i) :
    page' = [page EXCEPT ![i] = [config |-> c, dialog |-> page[i].dialog, ticked |-> FALSE,
                                 read |-> 0, waiting |-> 0]]

Answer(i) ==
  \E a \in answers :
    /\ a.id = page[i].waiting
    /\ answers' = answers \ {a}
    /\ IF a.ok THEN Accepted(i) ELSE RejectedStale(i)
    /\ UNCHANGED <<serverVars, wire, submits>>

\* The client gives up after 12 s, or the connection breaks.  The request may
\* have been handled, and if not may still be.
TimeOut(i) ==
  /\ page[i].waiting # 0
  /\ page' = [page EXCEPT ![i].waiting = 0]
  /\ answers' = {a \in answers : a.id # page[i].waiting}
  /\ UNCHANGED <<serverVars, wire, submits>>

\* A request that never reaches the server.
Lose(req) ==
  /\ wire' = wire \ {req}
  /\ UNCHANGED <<serverVars, page, answers, submits>>

------------------------------------------------------------------------------
(* The server.                                                             *)

\* A new build with new terms (a restart; the state is loaded again).
Deploy ==
  /\ terms < MaxTerms
  /\ terms' = terms + 1
  /\ UNCHANGED <<proposals, totals, events, audit, notices, page, wire, answers, submits>>

\* The second of beforeConsentGuards: a version that is sent and is not the
\* current one is stale.  (The first, the three consents, is also the page's.)
Stale(req) == req.sent # 0 /\ req.sent # terms

\* Mutant of Record: hooks and counters only for an investor's first proposal.
RecordFirstOnly(req) ==
  LET first == \A k \in 1 .. Len(proposals) :
                 \/ proposals[k].investor # req.investor
                 \/ proposals[k].project # req.project
      one == IF first THEN 1 ELSE 0
      hooks(log, entry) == IF first THEN Append(log, entry) ELSE log
  IN /\ proposals' = Append(proposals, [investor |-> req.investor, project |-> req.project,
                                        range |-> req.range, consent |-> terms,
                                        sent |-> req.sent, read |-> req.read])
     /\ totals' = [totals EXCEPT ![req.project] =
                     [investors |-> @.investors + one, matches |-> @.matches + 1,
                      min |-> @.min + MinAmount[req.range],
                      max |-> @.max + MaxAmount[req.range]]]
     /\ events' = Append(events, [project |-> req.project, type |-> "match"])
     /\ audit' = hooks(audit, [investor |-> req.investor, project |-> req.project,
                               consent |-> terms])
     /\ notices' = [notices EXCEPT ![req.project] = @ + 1]

\* createMatchProposal with afterConsentHooks, in one synchronous step.
Record(req) ==
  /\ proposals' = Append(proposals, [investor |-> req.investor, project |-> req.project,
                                     range |-> req.range, consent |-> terms,
                                     sent |-> req.sent, read |-> req.read])
  /\ totals' = [totals EXCEPT ![req.project] =
                  [investors |-> @.investors + 1, matches |-> @.matches + 1,
                   min |-> @.min + MinAmount[req.range],
                   max |-> @.max + MaxAmount[req.range]]]
  /\ events' = Append(events, [project |-> req.project, type |-> "match"])
  /\ audit' = Append(audit, [investor |-> req.investor, project |-> req.project,
                             consent |-> terms])
  /\ notices' = [notices EXCEPT ![req.project] = @ + 1]

Handle(req) ==
  /\ wire' = wire \ {req}
  /\ IF Stale(req)
     THEN UNCHANGED <<proposals, totals, events, audit, notices>>
     ELSE Record(req)
  /\ answers' = IF page[req.investor].waiting = req.id
                THEN answers \cup {[id |-> req.id, ok |-> ~Stale(req)]}
                ELSE answers
  /\ UNCHANGED <<terms, page, submits>>

\* Mutant of ApprovedAccess: a match with any project opens them all.
ApprovedAccessAny(p) == p \notin Screened \/ \E q \in Projects : totals[q].matches > 0

\* hasApprovedAccess of recordProjectEvent
ApprovedAccess(p) == p \notin Screened \/ totals[p].matches > 0

\* recordProjectEvent, open to everybody; "match" is refused here.
RecordProjectEvent(p, type) ==
  /\ type # "match"
  /\ type \in {"preview", "outbound"} => ApprovedAccess(p)
  /\ Len(events) < MaxEvents
  /\ events' = Append(events, [project |-> p, type |-> type])
  /\ UNCHANGED <<terms, proposals, totals, audit, notices, page, wire, answers, submits>>

------------------------------------------------------------------------------
Next ==
  \/ \E i \in Investors : Poll(i)
  \/ \E i \in Investors, p \in Projects : OpenDialog(i, p)
  \/ \E i \in Investors : CloseDialog(i)
  \/ \E i \in Investors : Tick(i)
  \/ \E i \in Investors, range \in Ranges : Submit(i, range)
  \/ \E i \in Investors : Answer(i)
  \/ \E i \in Investors : TimeOut(i)
  \/ \E req \in wire : Lose(req)
  \/ \E req \in wire : Handle(req)
  \/ Deploy
  \/ \E p \in Projects, type \in EventTypes : RecordProjectEvent(p, type)

Spec == Init /\ [][Next]_vars

------------------------------------------------------------------------------
(* Properties.                                                             *)

Versions == 0 .. MaxTerms

\* Types of the records that the dialog, the wire and the server exchange.
TypeOK ==
  /\ terms \in 1 .. MaxTerms
  /\ proposals \in Seq([investor : Investors, project : Projects, range : Ranges,
                        consent : Versions, sent : Versions, read : Versions])
  /\ totals \in [Projects -> [investors : Nat, matches : Nat, min : Nat, max : Nat]]
  /\ events \in Seq([project : Projects, type : EventTypes])
  /\ audit \in Seq([investor : Investors, project : Projects, consent : Versions])
  /\ notices \in [Projects -> Nat]
  /\ page \in [Investors -> [config : Versions, dialog : Projects \cup {NoProject},
                             ticked : BOOLEAN, read : Versions, waiting : Nat]]
  /\ wire \subseteq [id : Nat, investor : Investors, project : Projects, range : Ranges,
                     sent : Versions, read : Versions]
  /\ answers \subseteq [id : Nat, ok : BOOLEAN]
  /\ submits \in Nat

\* The sum of the values of f.
SumOf(f) == MapThenSumSet(LAMBDA k : f[k], DOMAIN f)
Mine(p) == {k \in 1 .. Len(proposals) : proposals[k].project = p}

\* Whatever is lost, late or sent again: the counters on a project, the sums
\* of its ranges, its match events and the maker's notices tell the same story
\* as its proposals.
TotalsMatchProposals ==
  \A p \in Projects :
    /\ totals[p].investors = Cardinality(Mine(p))
    /\ totals[p].matches = Cardinality(Mine(p))
    /\ totals[p].min = SumOf([k \in Mine(p) |-> MinAmount[proposals[k].range]])
    /\ totals[p].max = SumOf([k \in Mine(p) |-> MaxAmount[proposals[k].range]])
    /\ Cardinality({k \in 1 .. Len(events) : events[k] = [project |-> p, type |-> "match"]})
         = Cardinality(Mine(p))
    /\ notices[p] = Cardinality(Mine(p))

\* The audit log proves each proposal: who, about what, under which terms.
ConsentIsAudited ==
  /\ Len(audit) = Len(proposals)
  /\ \A k \in 1 .. Len(audit) :
       audit[k] = [investor |-> proposals[k].investor, project |-> proposals[k].project,
                   consent |-> proposals[k].consent]

\* A proposal is recorded under the version that its page sent, even when the
\* terms change while the request is on its way.
RecordedAsSent ==
  \A k \in 1 .. Len(proposals) :
    proposals[k].sent # 0 => proposals[k].consent = proposals[k].sent

\* The link of a screened project is shared only after a match: every preview
\* or outbound click comes after a match of the same project.
ScreenedAfterMatch ==
  \A k \in 1 .. Len(events) :
    events[k].project \in Screened /\ events[k].type \in {"preview", "outbound"}
      => \E l \in 1 .. k - 1 : events[l] = [project |-> events[k].project, type |-> "match"]

\* consent-terms.ts:13, "기존 세션의 동의는 stale 처리되어 재동의가 강제된다": a proposal is
\* recorded under the version that its investor had on the screen when ticking.
ConsentIsToWhatWasRead ==
  \A k \in 1 .. Len(proposals) :
    proposals[k].read # 0 => proposals[k].consent = proposals[k].read
==============================================================================
