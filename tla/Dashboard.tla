----------------------------- MODULE Dashboard -----------------------------
(* What the server computes for the operators: the figures of the dashboard,  *)
(* the advice that follows from them, and the revenue projection.  Everything *)
(* is a function of a snapshot s == [projects, proposals, events, today] of   *)
(* the service.  What became of contacts is kept three times: as proposals, as *)
(* counters of the projects and as match events, and each figure reads one of *)
(* them.  Times are days, amounts are whole numbers of a unit, a rate is in   *)
(* tenths of a percent.                                                       *)
EXTENDS Listing

RoundDiv(a, b) == (2 * a + b) \div (2 * b)
CeilDiv(a, b)  == (a + b - 1) \div b
Clamp(x, lo, hi) == Max({lo, Min({hi, x})})
First(n, seq)  == SubSeq(seq, 1, Min({n, Len(seq)}))
Total(v)       == MapThenSumSet(LAMBDA x : v[x], DOMAIN v)

Ranges == [small |-> [min |-> 10, max |-> 30], large |-> [min |-> 50, max |-> 100]]
NoRange == "none"
EventTypes == {"create", "preview", "outbound", "match", "refresh"}

(* A snapshot, as far as the figures read it: proposals and events are about  *)
(* the projects, no two of which have the same id, and no event lies in the   *)
(* future.  The counters of a project are those of its proposals, which        *)
(* createMatchProposal and the seeding script see to; the match events need   *)
(* not be as many, as fixtures bring proposals without them.                  *)
IsSite(p) ==
  /\ p = [n \in {"id", "verified", "ms", "access", "category",
                 "investors", "matches", "committed"} |-> p[n]]
  /\ {p.id, p.ms} \subseteq Int /\ p.verified \in BOOLEAN /\ p.access \in {"open", "screened"}
IsEvent(e) == e.type \in EventTypes /\ e.day \in Int

ProposalsOf(s, p) == {x \in s.proposals : x.project = p.id}
CountersFit(s, p) ==
  /\ p.investors = Cardinality(ProposalsOf(s, p)) /\ p.matches = p.investors
  /\ p.committed = Total([x \in ProposalsOf(s, p) |-> Ranges[x.range].max])

IsSnapshot(s) ==
  /\ IsFiniteSet(s.projects) /\ IsFiniteSet(s.proposals) /\ IsFiniteSet(s.events) /\ s.today \in Int
  /\ \A p \in s.projects : IsSite(p) /\ \A r \in s.projects : p.id = r.id => p = r
  /\ \A x \in s.proposals : x.range \in DOMAIN Ranges /\ \E p \in s.projects : p.id = x.project
  /\ \A e \in s.events : /\ IsEvent(e) /\ e.day <= s.today
                         /\ \E p \in s.projects : p.id = e.project
  /\ \A p \in s.projects : CountersFit(s, p)

EventsOf(s, p)  == {e \in s.events : e.project = p.id}
OfType(es, t)   == {e \in es : e.type = t}
Investors(s)    == Total([p \in s.projects |-> p.investors])
Matched(s)      == Total([p \in s.projects |-> p.matches])
Verified(s)     == {p \in s.projects : p.verified}

DaysSince(s, p) ==
  LET own == EventsOf(s, p)
  IN IF own = {} THEN 9999 ELSE s.today - Max({e.day : e \in own})

Score(s, p) ==
  LET own == EventsOf(s, p)
      Count(t) == Cardinality(OfType(own, t))
  IN SignalScore([verified |-> p.verified, ms |-> p.ms, previews |-> Count("preview"),
                  outbounds |-> Count("outbound"), matchEvents |-> Count("match"),
                  matches |-> p.matches, age |-> IF own = {} THEN Unset ELSE 24 * DaysSince(s, p)])

(* calculateProjectRiskScore, and the projects at risk: the worst first.      *)
RiskScore(s, p) ==
  Min({100, (IF p.verified THEN 0 ELSE 30)
            + (IF EventsOf(s, p) = {} THEN 28
               ELSE IF DaysSince(s, p) >= 30 THEN 26
               ELSE IF DaysSince(s, p) >= 14 THEN 16 ELSE 0)
            + (IF p.matches = 0 /\ p.investors = 0 THEN 20 ELSE 0)
            + (IF Score(s, p) < 45 THEN 12 ELSE 0)
            + (IF p.ms > 2500 THEN 8 ELSE 0)})

SortedBy(key, tie) ==
  InOrder(DOMAIN key, LAMBDA p, r : \/ key[p] > key[r]
                                    \/ key[p] = key[r] /\ tie[p] > tie[r]
                                    \/ key[p] = key[r] /\ tie[p] = tie[r] /\ p.id < r.id)

RiskProjects(s) ==
  LET atRisk == {p \in s.projects : RiskScore(s, p) >= 45}
  IN First(10, SortedBy([p \in atRisk |-> RiskScore(s, p)], [p \in atRisk |-> -DaysSince(s, p)]))
ByMatches(s) ==
  SortedBy([p \in s.projects |-> p.matches], [p \in s.projects |-> p.investors])
BySignal(s) ==
  SortedBy([p \in s.projects |-> Score(s, p)], [p \in s.projects |-> 0])
TopMatchProjects(s)  == First(8, ByMatches(s))
TopSignalProjects(s) == First(6, BySignal(s))

(* The distributions.                                                         *)
AccessModes(s) ==
  [m \in {"open", "screened"} |->
     LET P == {p \in s.projects : p.access = m}
     IN [projects |-> Cardinality(P), verified |-> Cardinality({p \in P : p.verified})]]
CategoryPerformance(s) ==
  [c \in {p.category : p \in s.projects} |->
     LET P == {p \in s.projects : p.category = c}
     IN [projects |-> Cardinality(P), matches |-> Total([p \in P |-> p.matches]),
         committed |-> Total([p \in P |-> p.committed])]]
RangeDistribution(s) ==
  LET Of(r) == {x \in s.proposals : x.range = r}
  IN [r \in {r \in DOMAIN Ranges : Of(r) # {}} |->
        LET n == Cardinality(Of(r))
        IN [proposals |-> n, min |-> n * Ranges[r].min, max |-> n * Ranges[r].max,
            average |-> RoundDiv(n * Ranges[r].min + n * Ranges[r].max, 2 * n)]]
EventTotals(s) ==
  [t \in EventTypes |-> Cardinality(OfType(s.events, t))]

Trend(s) == [i \in 1..14 |-> Cardinality({e \in s.events : e.day = s.today - 14 + i})]

(* calculateRate, the funnel and the health of the platform.                  *)
Rate(n, d) == IF d <= 0 THEN 0 ELSE Clamp(RoundDiv(1000 * n, d), 0, 1000)

Funnel(s) ==
  LET n == EventTotals(s)
  IN [preview |-> Rate(n["match"], n["preview"]), outbound |-> Rate(n["match"], n["outbound"]),
      perProject |-> Rate(Matched(s), Max({1, Cardinality(s.projects)}))]

AverageMs(s) ==
  LET checked == {p \in s.projects : p.ms > 0}
  IN IF checked = {} THEN Unset
     ELSE RoundDiv(Total([p \in checked |-> p.ms]), Cardinality(checked))

Health(s) ==
  LET count      == Max({1, Cardinality(s.projects)})
      n          == EventTotals(s)
      risk       == Len(RiskProjects(s))
      verified   == Rate(Cardinality(Verified(s)), count)
      conversion == IF n["preview"] > 0 \/ n["outbound"] > 0
                      THEN 10 * RoundDiv(65 * Funnel(s).preview + 35 * Funnel(s).outbound, 1000)
                      ELSE Funnel(s).perProject
      engagement == 10 * Min({100, RoundDiv(18 * Cardinality(s.events), count)})
      response   == IF AverageMs(s) = Unset THEN 700
                      ELSE 10 * Clamp(RoundDiv(4000 - Max({0, AverageMs(s) - 250}), 40), 0, 100)
      Warn(b)    == IF b THEN 1 ELSE 0
  IN [score |-> RoundDiv(35 * verified + 30 * conversion + 20 * engagement + 15 * response, 1000),
      verified |-> verified, conversion |-> conversion, engagement |-> engagement,
      response |-> response, risk |-> risk,
      warnings |-> Warn(verified < 800) + Warn(conversion < 500) + Warn(engagement < 350)
                   + Warn(response < 500) + Warn(risk > 0)]

(* buildAdminRecommendations, in the order in which they are sorted.          *)
Areas == <<"verification", "risk", "funnel", "infrastructure", "activity",
           "revenueModel", "revenueStability">>
Advised(s, area) ==
  LET h == Health(s)
  IN CASE area = "verification"     -> Verified(s) = {} /\ s.projects # {}
       [] area = "risk"             -> h.risk >= 3
       [] area = "funnel"           -> h.conversion < 350
       [] area = "infrastructure"   -> h.response < 500
       [] area = "activity"         -> h.engagement < 350
       [] area = "revenueModel"     -> h.conversion >= 400 /\ h.engagement >= 400 /\ s.projects # {}
       [] area = "revenueStability" -> s.events = {}
Recommendations(s) ==
  LET advised == InOrder({i \in DOMAIN Areas : Advised(s, Areas[i])}, LAMBDA i, j : i < j)
  IN [i \in DOMAIN advised |-> Areas[advised[i]]]
Priority(area) ==
  CASE area \in {"verification", "risk", "funnel"} -> "high"
    [] area \in {"infrastructure", "activity"}     -> "medium"
    [] OTHER                                        -> "low"

(* getMarketStats.                                                            *)
Stats(s) ==
  [projects |-> Cardinality(s.projects), verified |-> Cardinality(Verified(s)),
   rate |-> RoundDiv(100 * Cardinality(Verified(s)), Max({1, Cardinality(s.projects)})),
   investors |-> Investors(s), ms |-> AverageMs(s), signals |-> Cardinality(s.events),
   top |-> First(3, BySignal(s))]
-----------------------------------------------------------------------------
(* The revenue projection.  Percentages that are not numbers arrive as NaN.   *)
NaN        == -1
RateFields == {"makerRate", "investorRate", "closeRate", "feeRate"}
FeeFields  == {"makerFee", "investorFee", "leadFee"}

(* AdminRevenueProjectionQueryDto: anything else is refused with a 400.       *)
AcceptedQuery(q) ==
  /\ \A k \in RateFields : q.config[k] \in 0..1000
  /\ q.config.churn \in 1..999
  /\ q.target >= 0 /\ q.multipliers # <<>>
  /\ \A i \in DOMAIN q.multipliers : q.multipliers[i] \in 5..500

(* normalizeRevenueAssumptions.                                               *)
Assumed(a) ==
  [k \in DOMAIN a |-> IF k \in RateFields THEN Clamp(a[k], 0, 1000)
                      ELSE IF k \in FeeFields THEN Max({0, a[k]}) ELSE a[k]]

Revenue(s, input) ==
  LET a        == Assumed(input)
      maker    == RoundDiv(Cardinality(Verified(s)) * a.makerFee * a.makerRate, 1000)
      investor == RoundDiv(Investors(s) * a.investorFee * a.investorRate, 1000)
      lead     == Cardinality(s.events) * a.leadFee
  IN [maker |-> maker, investor |-> investor, lead |-> lead, transaction |-> 0,
      total |-> maker + investor + lead]

(* resolveScenarioMultipliers and buildRevenueScenarios; multipliers are in   *)
(* hundredths, and answered in tenths: two of them may look the same.         *)
ResolveMultipliers(asked) == InOrder({Max({5, m}) : m \in ToSet(asked)}, LAMBDA x, y : x < y)
Scenarios(total, multipliers) ==
  LET ms == ResolveMultipliers(multipliers)
  IN [i \in DOMAIN ms |-> [multiplier |-> RoundDiv(ms[i], 10), monthly |-> (total * ms[i]) \div 100]]

(* buildRevenueTargetDrivers: what one more unit of each lever would earn (in  *)
(* hundred-thousandths), and how much more of it the target asks for.         *)
Required(shortfall, impact) ==
  IF impact <= 0 \/ shortfall <= 0 THEN 0 ELSE CeilDiv(shortfall * 100000, impact)

Levers(s, a) ==
  LET makers    == Cardinality(Verified(s)) * a.makerRate
      investors == Max({1, Investors(s)}) * a.investorRate
      committed == Total([p \in s.projects |-> p.committed])
  IN <<[key |-> "makerFee",     impact |-> makers * 100],
       [key |-> "investorFee",  impact |-> investors * 100],
       [key |-> "leadFee",      impact |-> Max({1, Cardinality(s.events)}) * 100000],
       [key |-> "makerRate",    impact |-> makers * a.makerFee],
       [key |-> "investorRate", impact |-> investors * a.investorFee],
       [key |-> "closeRate",    impact |-> IF Investors(s) > 0 THEN committed * a.feeRate ELSE 0],
       [key |-> "feeRate",      impact |-> IF Investors(s) > 0 THEN committed * a.closeRate ELSE 0]>>

Drivers(s, input, target) ==
  LET a         == Assumed(input)
      all       == Levers(s, a)
      shortfall == Max({0, target - Revenue(s, input).total})
      Tenths(i) == RoundDiv(all[i].impact, 10000)
      order == InOrder(DOMAIN all, LAMBDA i, j : \/ Tenths(i) > Tenths(j)
                                                 \/ Tenths(i) = Tenths(j) /\ i < j)
      Driver(d) == LET delta == Required(shortfall, d.impact)
                   IN [key |-> d.key, impact |-> d.impact, delta |-> delta,
                       required |-> IF d.key \in RateFields THEN Min({1000, a[d.key] + 10 * delta})
                                    ELSE a[d.key] + delta]
  IN First(3, [i \in DOMAIN order |-> Driver(all[order[i]])])

TargetGap(s, q) ==
  LET total == Revenue(s, q.config).total
  IN [shortfall |-> Max({0, q.target - total}),
      achieved |-> IF q.target = 0 THEN 1000 ELSE Min({1000, RoundDiv(1000 * total, q.target)}),
      drivers |-> Drivers(s, q.config, q.target)]

(* The benchmarks, and the client's average of their verdicts.                *)
Verdict(actual, target) ==
  IF target > 0 /\ actual >= target THEN "good"
  ELSE IF target > 0 /\ 10 * actual >= 8 * target THEN "warning" ELSE "critical"

Benchmarks(s, q) ==
  LET total == Revenue(s, q.config).total
      count == Max({1, Cardinality(s.projects)})
  IN <<Verdict(RoundDiv(1000 * Cardinality(Verified(s)), count), 680), Verdict(Funnel(s).preview, 120),
       Verdict(Funnel(s).outbound, 180), Verdict(Funnel(s).perProject, 300),
       Verdict(total, q.target), Verdict(total, 50 * count)>>

RevenueHealth(b) ==
  LET Points(v) == CASE v = "good" -> 100 [] v = "warning" -> 65 [] OTHER -> 30
  IN RoundDiv(Total([i \in DOMAIN b |-> Points(b[i])]), Len(b))

Projection(s, q) ==
  [config |-> q.config, revenue |-> Revenue(s, q.config),
   scenarios |-> Scenarios(Revenue(s, q.config).total, q.multipliers),
   gap |-> TargetGap(s, q), benchmarks |-> Benchmarks(s, q)]
=============================================================================
