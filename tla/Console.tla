------------------------------ MODULE Console ------------------------------
(* The operators' console of the web client: the revenue inputs with their    *)
(* timer and their place in the browser's storage, the bundle of requests     *)
(* that is polled for the inputs in effect, the dashboard and the queue of    *)
(* reported reviews that show it, the recommendations that change the inputs  *)
(* or the market's filters, and the moderation of a review.                   *)
EXTENDS Panels

CONSTANTS Sites,       \* the projects at the start
          Entered,     \* the proposals at the start
          History,     \* the events at the start
          NewEvents,   \* visits and checks that may still be recorded
          NewProposals,\* proposals that may still be sent
          Today,       \* the day
          Unsteady,    \* ids of projects whose probe result changes
          Reported,    \* reviews in the queue at the start
          DefaultConfig, Templates,   \* DEFAULT_REVENUE_CONFIG, REVENUE_PRESETS
          DefaultTarget, DefaultMultipliers,
          Edited,      \* the inputs that are edited
          Typed,       \* numbers that are typed into them, NaN for none
          MaxDeeds,    \* bound on what the operator does
          MaxChanges   \* bound on what visitors, probes and the network do meanwhile

ASSUME ConsoleAssumption ==
  /\ {MaxDeeds, MaxChanges} \subseteq Nat
  /\ IsSnapshot([projects |-> Sites, proposals |-> Entered, events |-> History \cup NewEvents,
                 today |-> Today])
  /\ \A x \in NewProposals : x.range \in DOMAIN Ranges /\ \E p \in Sites : p.id = x.project
ASSUME InputsAssumption ==
  /\ Typed \subseteq Nat \cup {NaN}
  /\ {DefaultConfig} \cup Templates \subseteq [RateFields \cup FeeFields \cup {"churn"} -> Nat]
  /\ \A k \in RateFields : DefaultConfig[k] \in 0..1000
  /\ DefaultConfig["feeRate"] \in 1..300 /\ DefaultConfig["churn"] \in 1..999
  /\ DefaultMultipliers \in Seq(5..500) \ {<<>>} /\ DefaultTarget \in Nat

VARIABLES projects, proposals, events, reported,      \* server
          inputs, applied, open, filters,             \* the hook
          cache, fetch, dep, shown, queue,            \* the bundle
          moderating, handlers, strayed,              \* moderations under way
          deeds, changes                              \* bounded
server == <<projects, proposals, events, reported>>
bundle == <<cache, fetch, dep, shown, queue>>
work   == <<moderating, handlers, strayed>>
consoleVars == <<server, inputs, applied, open, filters, bundle, work, deeds, changes>>

Server    == [projects |-> projects, proposals |-> proposals, events |-> events, today |-> Today]
NoFetch   == [key |-> <<>>, parts |-> <<>>]
NoBundle  == <<>>
Parts     == {"dashboard", "revenue", "queue"}
NoFilters == [q |-> "", verified |-> FALSE, sort |-> "signal"]

\* Mutant of Key: the target is left out of the query's key.
KeyWithoutTarget(q) == [q EXCEPT !.target = 0]

(* snapshotKeys.adminSnapshot: all the inputs in effect.                      *)
Key(q) == q

Started(q) == [key |-> <<q>>, parts |-> <<>>]
DataOf(k, c, mounted) == IF mounted /\ k \in DOMAIN c THEN <<k, c[k]>> ELSE NoBundle

(* The effect that shows the bundle of the query in effect.                   *)
Sync(d) ==
  /\ dep' = d
  /\ IF d # dep /\ d # NoBundle THEN shown' = <<d[2]>> /\ queue' = d[2].queue
                                ELSE UNCHANGED <<shown, queue>>

(* A render with other inputs in effect or another view: another query is     *)
(* fetched when it is mounted.  A request for a query that was left only       *)
(* fills the cache, and the model forgets it.                                 *)
Render(q, mounted) ==
  /\ applied' = q /\ open' = mounted
  /\ fetch' = IF mounted /\ (Key(q) # Key(applied) \/ ~open) THEN Started(q) ELSE fetch
  /\ cache' = Restrict(cache, {Key(q), Key(applied)} \cap DOMAIN cache)
  /\ Sync(DataOf(Key(q), cache', mounted))
  /\ strayed' = (strayed \/ (handlers # {} /\ <<q, mounted>> # <<applied, open>>))

ConsoleInit ==
  /\ projects = Sites /\ proposals = Entered /\ events = History /\ reported = [r \in Reported |-> "reported"]
  /\ inputs = [config |-> DefaultConfig, multipliers |-> DefaultMultipliers, target |-> DefaultTarget]
  /\ applied = inputs /\ open = TRUE /\ filters = NoFilters
  /\ cache = <<>> /\ fetch = Started(inputs) /\ dep = NoBundle
  /\ shown = <<>> /\ queue = <<>>
  /\ handlers = {} /\ moderating = {} /\ strayed = FALSE
  /\ deeds = 0 /\ changes = 0
-----------------------------------------------------------------------------
(* The inputs.  The code checks a percentage it cannot parse as if it were    *)
(* zero, and then keeps what it could not parse.                              *)
Edit(next) == open /\ inputs' = next
              /\ UNCHANGED <<server, applied, open, filters, bundle, moderating, handlers, strayed>>

EditRate == \E k \in Edited \cap (RateFields \cup {"churn"}), v \in Typed :
  /\ v = NaN \/ v \in 0..1000
  /\ Edit([inputs EXCEPT !.config[k] = v])
EditFee == \E k \in Edited \cap FeeFields, v \in Typed :
  Edit([inputs EXCEPT !.config[k] = Max({0, v})])
EditTarget == \E v \in Typed \ {NaN} : Edit([inputs EXCEPT !.target = v])
EditMultiplier == \E i \in DOMAIN inputs.multipliers, v \in Typed \ {NaN} :
  Edit([inputs EXCEPT !.multipliers[i] = Clamp(v, 5, 500)])
ResetMultipliers == Edit([inputs EXCEPT !.multipliers = DefaultMultipliers])
ChooseTemplate   == \E t \in Templates : Edit([inputs EXCEPT !.config = t])

Debounce ==
  /\ inputs # applied
  /\ Render(inputs, open)
  /\ UNCHANGED <<server, inputs, filters, moderating, handlers>>

(* readAdminRevenueConfig, readAdminScenarioMultipliers and                   *)
(* readAdminRevenueTarget: what a reload makes of the inputs it finds.        *)
\* Mutant of Repair: an unusable rate of leavers is kept.
RepairKeepsChurn(q) ==
  LET Rate0(k) == IF q.config[k] = NaN THEN DefaultConfig[k] ELSE Clamp(q.config[k], 0, 1000)
  IN [config |-> [k \in DOMAIN q.config |->
                   IF k \in RateFields THEN Rate0(k) ELSE q.config[k]],
      multipliers |-> q.multipliers, target |-> q.target]

Repair(q) ==
  LET Rate0(k, lo, hi) == IF q.config[k] = NaN THEN DefaultConfig[k] ELSE Clamp(q.config[k], lo, hi)
  IN [config |-> [k \in DOMAIN q.config |->
                   CASE k = "churn"                    -> Rate0(k, 1, 999)
                     [] k = "feeRate"                  -> Rate0(k, 1, 300)
                     [] k \in RateFields \ {"feeRate"} -> Rate0(k, 0, 1000)
                     [] OTHER                          -> q.config[k]],
      multipliers |-> InOrder(ToSet(q.multipliers), LAMBDA x, y : x < y),
      target |-> q.target]

Reload ==
  /\ inputs' = Repair(inputs) /\ applied' = inputs'
  /\ fetch' = IF open THEN Started(inputs') ELSE NoFetch
  /\ cache' = <<>> /\ dep' = NoBundle /\ shown' = <<>> /\ queue' = <<>>
  /\ handlers' = {[h EXCEPT !.at = "orphan"] : h \in {g \in handlers : g.at \in {"sent", "orphan"}}}
  /\ strayed' = (handlers # {}) /\ moderating' = {}
  /\ UNCHANGED <<server, open, filters>>
-----------------------------------------------------------------------------
(* applyObservedConversionRates: it also reads the market's figures, polled   *)
(* apart from the bundle, which may be newer than the dashboard.  And          *)
(* applyAdminRecommendation.                                                  *)
Observed(q, market) ==
  LET funnel == Funnel(shown[1].dashboard)
  IN [q EXCEPT !.config = [k \in DOMAIN @ |->
       CASE k = "makerRate" /\ market.projects # {} ->
              RoundDiv(1000 * Cardinality(Verified(market)), Cardinality(market.projects))
         [] k = "investorRate" /\ funnel.perProject > 0 -> funnel.perProject
         [] k = "closeRate" /\ funnel.preview > 0 -> funnel.preview
         [] OTHER -> @[k]]]
MarketFigures == {Server, shown[1].dashboard}

ApplyObserved == shown # <<>> /\ \E market \in MarketFigures : Edit(Observed(inputs, market))

FiltersFor(area) ==
  LET risk == RiskProjects(shown[1].dashboard)
  IN CASE area = "risk" /\ risk # <<>>   -> [NoFilters EXCEPT !.q = risk[1].id, !.sort = "recent"]
       [] area = "funnel"                -> [NoFilters EXCEPT !.verified = TRUE, !.sort = "funding"]
       [] area \in {"activity", "infrastructure"} -> [NoFilters EXCEPT !.sort = "recent"]
       [] OTHER                          -> NoFilters

(* A list of recommendations is applied one after the other: what each does   *)
(* to the market's filters begins with a reset of what the one before did.    *)
Apply(areas) ==
  LET moves == SelectSeq(areas, LAMBDA a : a # "revenueModel")
  IN /\ open /\ shown # <<>> /\ areas # <<>>
     /\ \E market \in MarketFigures :
          inputs' = IF moves # areas THEN Observed(inputs, market) ELSE inputs
     /\ filters' = IF moves = <<>> THEN filters ELSE FiltersFor(Last(moves))
     /\ Render(applied, moves = <<>>)
     /\ UNCHANGED <<server, moderating, handlers>>

Advice == Recommendations(shown[1].dashboard)
ApplyRecommendation == shown # <<>> /\ \E i \in DOMAIN Advice : Apply(<<Advice[i]>>)
ApplyAll == shown # <<>> /\ Apply(Advice)

SwitchView == Render(applied, ~open) /\ UNCHANGED <<server, inputs, filters, moderating, handlers>>
-----------------------------------------------------------------------------
(* The bundle: four requests at once, each served at its own moment, of which *)
(* one that fails fails them all.                                             *)
Poll == /\ open /\ fetch = NoFetch /\ fetch' = Started(applied)
        /\ strayed' = (strayed /\ handlers # {})
        /\ UNCHANGED <<server, inputs, applied, open, filters, cache, dep, shown, queue,
                       moderating, handlers>>

Served == \E part \in Parts \ DOMAIN fetch.parts :
  /\ fetch # NoFetch
  /\ part = "revenue" => AcceptedQuery(fetch.key[1])
  /\ LET answer == CASE part = "dashboard" -> Server
                     [] part = "revenue"   -> [server |-> Server, query |-> fetch.key[1]]
                     [] part = "queue"     -> reported
     IN fetch' = [fetch EXCEPT !.parts = [x \in DOMAIN @ \cup {part} |->
                                            IF x = part THEN answer ELSE @[x]]]
  /\ UNCHANGED <<server, inputs, applied, open, filters, cache, dep, shown, queue, work>>

Arrive ==
  /\ fetch # NoFetch /\ DOMAIN fetch.parts = Parts
  /\ cache' = [k \in DOMAIN cache \cup {Key(fetch.key[1])} |->
                 IF k = Key(fetch.key[1]) THEN fetch.parts ELSE cache[k]]
  /\ fetch' = NoFetch
  /\ Sync(DataOf(Key(applied), cache', open))
  /\ UNCHANGED <<server, inputs, applied, open, filters, work>>

Fails ==
  /\ fetch # NoFetch /\ fetch' = NoFetch
  /\ UNCHANGED <<server, inputs, applied, open, filters, cache, dep, shown, queue, work>>

(* Away from the console the market's list empties the dashboard.             *)
MarketShown ==
  /\ ~open /\ shown # <<>> /\ shown' = <<>>
  /\ UNCHANGED <<server, inputs, applied, open, filters, cache, fetch, dep, queue, work>>
-----------------------------------------------------------------------------
(* handleModerateReview: the answer patches the queue, the audit trail is     *)
(* fetched, and then the bundle of the query at the click is fetched anew,    *)
(* which cancels the request for it that is under way.  Only the buttons of    *)
(* the review clicked last are locked, until any handler ends.                *)
Moderate == \E r \in DOMAIN queue, action \in {"keep", "hide", "restore"} :
  /\ open /\ r \notin moderating
  /\ action = "restore" => queue[r] = "hidden"
  /\ moderating' = {r}
  /\ handlers' = handlers \cup {[n |-> deeds, review |-> r, action |-> action, key |-> applied,
                                 at |-> "sent"]}
  /\ UNCHANGED <<server, inputs, applied, open, filters, bundle, strayed>>

After(q, r, action) == IF action = "hide" THEN [q EXCEPT ![r] = "hidden"]
                                          ELSE Restrict(q, DOMAIN q \ {r})
Proceed(h, to) == handlers' = (handlers \ {h}) \cup {[h EXCEPT !.at = to]}

ModerationServed == \E h \in handlers :
  /\ \/ h.at = "sent" /\ Proceed(h, "served")
     \/ h.at = "orphan" /\ handlers' = handlers \ {h}
  /\ reported' = IF h.review \in DOMAIN reported THEN After(reported, h.review, h.action) ELSE reported
  /\ UNCHANGED <<projects, proposals, events, inputs, applied, open, filters, bundle, moderating,
                 strayed>>

ModerationArrives == \E h \in handlers :
  /\ h.at = "served" /\ Proceed(h, "auditing")
  /\ queue' = IF h.review \in DOMAIN queue THEN After(queue, h.review, h.action) ELSE queue
  /\ UNCHANGED <<server, inputs, applied, open, filters, cache, fetch, dep, shown,
                 moderating, strayed>>

\* Mutant of AuditArrives: the request that is under way is trusted.
AuditArrivesTrusts == \E h \in handlers :
  /\ h.at = "auditing" /\ Proceed(h, "loading")
  /\ fetch' = IF h.key = applied /\ open /\ fetch = NoFetch THEN Started(applied) ELSE fetch
  /\ UNCHANGED <<server, inputs, applied, open, filters, cache, dep, shown, queue,
                 moderating, strayed>>

AuditArrives == \E h \in handlers :
  /\ h.at = "auditing" /\ Proceed(h, "loading")
  /\ fetch' = IF h.key = applied /\ open THEN Started(applied) ELSE fetch
  /\ UNCHANGED <<server, inputs, applied, open, filters, cache, dep, shown, queue,
                 moderating, strayed>>

ModerationEnds == \E h \in handlers :
  /\ h.at = "loading" /\ (h.key = applied /\ open => fetch = NoFetch)
  /\ handlers' = handlers \ {h} /\ moderating' = {}
  /\ UNCHANGED <<server, inputs, applied, open, filters, bundle, strayed>>

ModerationFails == \E h \in handlers :
  /\ h.at \notin {"orphan", "loading"} /\ handlers' = handlers \ {h} /\ moderating' = {}
  /\ strayed' = TRUE
  /\ UNCHANGED <<server, inputs, applied, open, filters, bundle>>
-----------------------------------------------------------------------------
(* Visitors, investors and probes.  A proposal is stored, counted and told as *)
(* an event in one step (createMatchProposal with its hooks).                 *)
Record == \E e \in NewEvents \ events :
  /\ events' = events \cup {e}
  /\ UNCHANGED <<projects, proposals, reported, inputs, applied, open, filters, bundle, work>>

\* Mutant of Contacted: the lower end of the range is added to the upper sum.
ContactedAtLeast(p, x) ==
  [p EXCEPT !.investors = @ + 1, !.matches = @ + 1, !.committed = @ + Ranges[x.range].min]

Contacted(p, x) ==
  [p EXCEPT !.investors = @ + 1, !.matches = @ + 1, !.committed = @ + Ranges[x.range].max]
MatchEvent(x) == [n |-> x.n, project |-> x.project, type |-> "match", day |-> Today]

Propose == \E x \in NewProposals \ proposals, p \in projects :
  /\ x.project = p.id
  /\ proposals' = proposals \cup {x}
  /\ projects' = (projects \ {p}) \cup {Contacted(p, x)}
  /\ events' = events \cup {MatchEvent(x)}
  /\ UNCHANGED <<reported, inputs, applied, open, filters, bundle, work>>

Probe == \E p \in projects :
  /\ p.id \in Unsteady /\ p.verified
  /\ projects' = (projects \ {p}) \cup {[p EXCEPT !.verified = FALSE, !.ms = 3000]}
  /\ UNCHANGED <<proposals, events, reported, inputs, applied, open, filters, bundle, work>>

Operator == /\ deeds < MaxDeeds /\ deeds' = deeds + 1 /\ UNCHANGED changes
            /\ \/ EditRate \/ EditFee \/ EditTarget \/ EditMultiplier \/ ResetMultipliers
               \/ ChooseTemplate \/ Reload \/ ApplyObserved \/ ApplyRecommendation \/ ApplyAll
               \/ SwitchView \/ Moderate
World == /\ changes < MaxChanges /\ changes' = changes + 1 /\ UNCHANGED deeds
         /\ Record \/ Propose \/ Probe \/ Fails \/ ModerationFails
Client == /\ UNCHANGED <<deeds, changes>>
          /\ \/ Debounce \/ Poll \/ Served \/ Arrive \/ MarketShown
             \/ ModerationServed \/ ModerationArrives \/ AuditArrives \/ ModerationEnds
ConsoleNext == Operator \/ World \/ Client

ConsoleSpec == ConsoleInit /\ [][ConsoleNext]_consoleVars
-----------------------------------------------------------------------------
ConsoleTypeOK ==
  /\ DOMAIN reported \subseteq Reported /\ DOMAIN queue \subseteq Reported
  /\ open \in BOOLEAN /\ strayed \in BOOLEAN /\ deeds \in 0..MaxDeeds
  /\ filters.sort \in {"signal", "recent", "funding"} /\ filters.verified \in BOOLEAN
  /\ DOMAIN fetch.parts \subseteq Parts /\ Len(fetch.key) <= 1
  /\ \A h \in handlers : h.at \in {"sent", "served", "auditing", "loading", "orphan"}

(* Answers that come up again and again, so that they are judged only once.   *)
Probed(X) == {IF p.id \in X THEN [p EXCEPT !.verified = FALSE, !.ms = 3000] ELSE p : p \in Sites}
Grown(P, x) == {IF p.id = x.project THEN Contacted(p, x) ELSE p : p \in P}
Snapshots ==
  {[projects |-> Probed(X), proposals |-> Entered, events |-> History \cup E, today |-> Today] :
     X \in SUBSET Unsteady, E \in SUBSET NewEvents}
  \cup
  {[projects |-> Grown(Probed(X), x), proposals |-> Entered \cup {x},
    events |-> History \cup E \cup {MatchEvent(x)}, today |-> Today] :
     X \in SUBSET Unsteady, E \in SUBSET NewEvents, x \in NewProposals}
FrequentAnswers ==
  {[server |-> s, query |-> [config |-> c, multipliers |-> m, target |-> t]] :
     s \in Snapshots,
     c \in {[d EXCEPT !.leadFee = f] : d \in {DefaultConfig} \cup Templates,
                                       f \in {DefaultConfig.leadFee} \cup (Typed \cap Nat)},
     m \in {DefaultMultipliers} \cup {[DefaultMultipliers EXCEPT ![i] = Max(Typed)] :
                                        i \in DOMAIN DefaultMultipliers},
     t \in {DefaultTarget} \cup (Typed \cap Nat)}
AgreeingSnapshots   == {s \in Snapshots : DashboardAgrees(s)}
AgreeingProjections == {r \in FrequentAnswers : ProjectionAgrees(r)}

(* Whatever the console comes to show, its panels do not contradict one        *)
(* another: distributions, totals, lists, counters, the progress bar, the     *)
(* benchmarks and the scenarios (the parts are named in Panels).              *)
ConsoleAgrees ==
  [][(shown' # shown /\ shown' # <<>>) =>
       LET d == shown'[1].dashboard
           r == shown'[1].revenue
       IN /\ d \in AgreeingSnapshots \/ DashboardAgrees(d)
          /\ r \in AgreeingProjections \/ ProjectionAgrees(r)]_consoleVars

(* What the report puts side by side: once the timer has fired and the answer *)
(* has come, the projection is that of the assumptions, the target and the    *)
(* multipliers that stand in the inputs.                                      *)
Report == [assumptions |-> inputs.config, multipliers |-> inputs.multipliers, query |-> applied,
           projection |-> shown[1].revenue.query]
ReportIsConsistent ==
  (open /\ shown # <<>> /\ fetch = NoFetch /\ inputs = applied /\ Key(applied) \in DOMAIN cache)
    => /\ Report.projection = Report.query
       /\ Report.projection.config = Report.assumptions
       /\ Report.projection.multipliers = Report.multipliers

(* A reload leads out of every state in which the server refuses the inputs.  *)
ReloadRepairsTheQuery == [][Reload => AcceptedQuery(applied')]_consoleVars

(* An answer to a poll that was asked before a moderation does not bring the  *)
(* moderated review back to the queue once the moderation is finished, unless *)
(* the operator left the query in between or the answer was lost.             *)
QueueCatchesUp ==
  [][(Arrive /\ open /\ ~strayed /\ \A h \in handlers : h.at = "loading") => queue' = reported]_consoleVars
=============================================================================
