------------------------------- MODULE Panels -------------------------------
(* What the operators' console draws: the panels, as functions of the answers *)
(* the console holds.  d is the snapshot the dashboard was computed from, r    *)
(* the snapshot and the query of the revenue projection.                      *)
EXTENDS Dashboard

Share(n, all) == RoundDiv(1000 * n, Max({1, all}))

HealthPanel(d) == Health(d)
RiskPanel(d)   == First(5, [i \in DOMAIN RiskProjects(d) |->
                              [id |-> RiskProjects(d)[i].id, score |-> RiskScore(d, RiskProjects(d)[i]),
                               days |-> DaysSince(d, RiskProjects(d)[i])]])

(* The advice with the counter per priority over it.                          *)
AdvicePanel(d) ==
  LET list == Recommendations(d)
  IN [list |-> list,
      summary |-> [p \in {"high", "medium", "low"} |->
                                      Cardinality({i \in DOMAIN list : Priority(list[i]) = p})]]

(* The target: what is earned, what is missing, and the three best levers; p   *)
(* is the projection as it was answered, target what was asked for.           *)
TargetPanel(p, target) ==
  [earned |-> p.revenue.total, target |-> target, achieved |-> Clamp(p.gap.achieved, 0, 1000),
   shortfall |-> p.gap.shortfall, drivers |-> p.gap.drivers]

RevenuePanel(p) ==
  LET health == RevenueHealth(p.benchmarks)
  IN [parts |-> p.revenue, health |-> health,
      tone |-> IF health >= 80 THEN "sound" ELSE IF health >= 60 THEN "caution" ELSE "danger"]
BenchmarkPanel(p) == p.benchmarks
ScenarioPanel(p)  == p.scenarios

FunnelPanel(d) == [rates |-> Funnel(d), matches |-> EventTotals(d)["match"],
                   previews |-> EventTotals(d)["preview"], outbounds |-> EventTotals(d)["outbound"],
                   events |-> Cardinality(d.events)]

(* adminTrendMetrics: the last seven days against the seven before.           *)
TrendPanel(d) ==
  LET trend == Trend(d)
      recent   == Total([i \in 8..14 |-> trend[i]])
      previous == Total([i \in 1..7 |-> trend[i]])
  IN [trend |-> trend, recent |-> recent, previous |-> previous,
      delta |-> IF previous <= 0 THEN 0 ELSE RoundDiv(1000 * (recent - previous), previous),
      widest |-> Max({1} \cup {trend[i] : i \in 1..14})]
EventPanel(d) == EventTotals(d)

TopMatchPanel(d)  == [i \in DOMAIN TopMatchProjects(d) |->
                        [id |-> TopMatchProjects(d)[i].id, matches |-> TopMatchProjects(d)[i].matches,
                         committed |-> TopMatchProjects(d)[i].committed]]
TopSignalPanel(d) == [i \in DOMAIN TopSignalProjects(d) |->
                        [id |-> TopSignalProjects(d)[i].id, signal |-> Score(d, TopSignalProjects(d)[i])]]

CategoryPanel(d) ==
  LET cats == CategoryPerformance(d)
      all  == Total([c \in DOMAIN cats |-> cats[c].projects])
  IN [c \in DOMAIN cats |-> [row |-> cats[c], share |-> Share(cats[c].projects, all)]]
RangePanel(d) ==
  LET ranges == RangeDistribution(d)
      all    == Total([x \in DOMAIN ranges |-> ranges[x].proposals])
  IN [x \in DOMAIN ranges |-> [row |-> ranges[x], share |-> Share(ranges[x].proposals, all)]]
-----------------------------------------------------------------------------
(* The panels on one dashboard tell one story: distributions, totals, lists   *)
(* and counters of the same snapshot never contradict one another, nor the    *)
(* figures that the market shows to everybody (getMarketStats).  What is read *)
(* from the counters of the projects (categories, the market's investors) is  *)
(* what is read from the proposals (the ranges); the funnel and the totals by *)
(* kind of event tell of match events, which are not compared with either.    *)
DashboardAgrees(d) ==
  LET cats   == CategoryPanel(d)
      ranges == RangePanel(d)
      funnel == FunnelPanel(d)
      trend  == TrendPanel(d)
      top    == TopMatchPanel(d)
      signal == TopSignalPanel(d)
      modes  == AccessModes(d)
      stats  == Stats(d)
      advice == AdvicePanel(d)
  IN /\ Total([c \in DOMAIN cats |-> cats[c].row.matches])
          = Total([x \in DOMAIN ranges |-> ranges[x].row.proposals])
     /\ stats.investors = Total([x \in DOMAIN ranges |-> ranges[x].row.proposals])
     /\ Total([x \in DOMAIN ranges |-> ranges[x].row.max]) = Total([c \in DOMAIN cats |-> cats[c].row.committed])
     /\ trend.recent + trend.previous = Cardinality({e \in d.events : d.today - e.day < 14})
     /\ Total(EventPanel(d)) = funnel.events
     /\ \A i \in DOMAIN top : i > 1 => top[i - 1].matches >= top[i].matches
     /\ \A i \in DOMAIN signal : i > 1 => signal[i - 1].signal >= signal[i].signal
     /\ \A i \in DOMAIN stats.top : stats.top[i].id = signal[i].id
     /\ Total([m \in DOMAIN modes |-> modes[m].projects]) = stats.projects
     /\ Total([m \in DOMAIN modes |-> modes[m].verified]) = stats.verified
     /\ \A c \in DOMAIN cats : cats[c].share \in 0..1000
     /\ Len(RiskPanel(d)) = Min({5, HealthPanel(d).risk})
     /\ RiskPanel(d) # <<>> => HealthPanel(d).warnings > 0
     /\ advice.summary["high"] + advice.summary["medium"] + advice.summary["low"] = Len(advice.list)
     /\ \A i, j \in DOMAIN advice.list :
          Priority(advice.list[i]) = "high" /\ Priority(advice.list[j]) # "high" => i < j

(* The panels of one projection tell one story, too: the target is reached on *)
(* the progress bar when the benchmark of the month's revenue is good (a      *)
(* target of zero is never good), and a higher multiplier never earns less.   *)
ProjectionAgrees(r) ==
  LET p         == Projection(r.server, r.query)
      target    == TargetPanel(p, r.query.target)
      parts     == RevenuePanel(p).parts
      scenarios == ScenarioPanel(p)
  IN /\ parts.total = parts.maker + parts.investor + parts.lead + parts.transaction
     /\ target.target > 0 => (target.shortfall = 0 <=> BenchmarkPanel(p)[5] = "good")
     /\ target.shortfall = 0 => target.achieved = 1000
     /\ \A i, j \in DOMAIN scenarios : i < j => /\ scenarios[i].multiplier <= scenarios[j].multiplier
                                                /\ scenarios[i].monthly <= scenarios[j].monthly

=============================================================================
