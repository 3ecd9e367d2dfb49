------------------------- MODULE PortfolioIntelligence -------------------------
(***************************************************************************)
(* packages/portfolio-intelligence: the served decisions and their plans   *)
(* read as one book.  in is [items, state, permission, kill]; an item is   *)
(* [decision, plan, dq].  Dollars are whole, percentages are counted in    *)
(* hundredths, scores out of 100 too.  Sections that the code sorts for    *)
(* display are sets or functions here.                                     *)
(***************************************************************************)
EXTENDS TradePlan

\* The finite values only, of a figure given for each position.
sumFinite(V) == SumFunction([p \in DOMAIN V |-> IF Has(V[p]) THEN V[p][1] ELSE 0])

Older(age) == Has(age) /\ age[1] > StaleAfter

\* Mutant: the age of the features is not looked at.
isStale_SignalOnly(item) == Older(item.decision.signalAge)

isStale(item) == Older(item.decision.signalAge) \/ Older(item.decision.featureAge)

isHardBlocked(item, kill) ==
  kill \/ "BLOCKED" \in {item.decision.control, item.decision.risk, item.decision.overall}

classify(item, kill) ==
  LET d == item.decision
  IN IF d.direction = "FLAT" \/ d.overall = "NO_TRADE" THEN "FLAT"
     ELSE IF isHardBlocked(item, kill) THEN "BLOCKED"
     ELSE IF item.plan.summary.canTrade /\ d.overall = "ACTIONABLE" /\ ~isStale(item) THEN "OPEN"
     ELSE "WAITING"

toPosition(item, kill) ==
  LET d == item.decision
  IN [id |-> d.id, symbol |-> d.symbol, direction |-> d.direction, state |-> classify(item, kill),
      action |-> item.plan.summary.action, confidence |-> d.confidence,
      notional |-> d.sizing.notional, maxLoss |-> item.plan.risk.maximumLoss,
      riskPct |-> d.sizing.capitalRisk, rr |-> d.levels.rr,
      readiness |-> item.plan.readiness.score, band |-> item.plan.readiness.band, regime |-> d.regime]

DefaultEquity == 100

derivePortfolioFacts(in) ==
  LET positions == {toPosition(i, in.kill) : i \in in.items}
      In(s) == {p \in positions : p.state = s}
      open == In("OPEN")
      equity == IF in.items = {} THEN DefaultEquity ELSE Max({i.decision.equity : i \in in.items})
      Exposure(side) == sumFinite([p \in {p \in open : p.direction = side} |-> p.notional])
      gross == Exposure("LONG") + Exposure("SHORT")
      used == sumFinite([p \in open |-> p.maxLoss])
      budget == equity * 100
  IN [kill |-> in.kill,
      controlAllowed |-> Tri(Has(in.permission), in.permission = <<"ALLOWED">>),
      runtimeHealthy |-> Tri(Has(in.state), in.state = <<"HEALTHY">>),
      positions |-> positions, open |-> open,
      directional |-> {p \in positions : p.direction # "FLAT"},
      waiting |-> In("WAITING"), blocked |-> In("BLOCKED"), flat |-> In("FLAT"),
      stale |-> {i \in in.items : i.decision.direction # "FLAT" /\ isStale(i)},
      lowDq |-> {i \in in.items : Has(i.dq) /\ i.dq[1] < MinDq},
      equity |-> equity, long |-> Exposure("LONG"), short |-> Exposure("SHORT"),
      gross |-> gross, net |-> Exposure("LONG") - Exposure("SHORT"),
      available |-> Max({0, equity * 1000 - gross}), capitalPct |-> RoundDiv(10 * gross, equity),
      riskUsed |-> used, riskBudget |-> budget, riskRemaining |-> Max({0, budget - used}),
      riskPct |-> RoundDiv(10 * used, equity)]

-----------------------------------------------------------------------------
(* Heat. *)

NotionalOf(S, symbol) == sumFinite([p \in {p \in S : p.symbol = symbol} |-> p.notional])
SymbolsOf(S) == {p.symbol : p \in S}

\* The sum of squared shares of the gross exposure, each share to a tenth of a percent.
concentrationScore(facts) ==
  LET Share(s) == RoundDiv(1000 * NotionalOf(facts.open, s), facts.gross)
  IN IF facts.gross <= 0 THEN 0
     ELSE Min({10000, RoundDiv(SumFunction([s \in SymbolsOf(facts.open) |-> Share(s) * Share(s)]), 100)})

heatBand(score) ==
  IF score >= 8500 THEN "EXTREME" ELSE IF score >= 6000 THEN "HOT"
  ELSE IF score >= 3500 THEN "WARM" ELSE "COOL"

buildRiskHeat(facts) ==
  LET Earned(weight, q) == RoundDiv(100 * weight * q[1], q[2])
      concentration == concentrationScore(facts)
      stressed == Cardinality(facts.blocked) + Cardinality(facts.stale)
      sum == Earned(25, clamp01(facts.capitalPct, 10000))
             + Earned(30, clamp01(facts.riskUsed, facts.riskBudget))
             + Earned(20, clamp01(concentration, 10000))
             + Earned(15, clamp01(Distance(facts.net, 0), facts.gross))
             + Earned(10, clamp01(stressed, Cardinality(facts.directional)))
      score == 10 * RoundDiv(Min({sum, 10000}), 10)
  IN [score |-> score, band |-> heatBand(score), concentration |-> concentration,
      diversification |-> 10000 - concentration, stability |-> 10000 - score,
      portfolioRisk |-> LET q == clamp01(facts.riskUsed, facts.riskBudget) IN RoundDiv(10000 * q[1], q[2])]

-----------------------------------------------------------------------------
(* Exposure. *)

\* Only open positions add notional; all are counted.
group(key) ==
  LET positions == DOMAIN key
      Of(k) == {p \in positions : key[p] = k}
      Live(k) == {p \in Of(k) : p.state = "OPEN"}
      Sum(S) == sumFinite([p \in S |-> p.notional])
      total == Sum({p \in positions : p.state = "OPEN"})
  IN [k \in {key[p] : p \in positions} |->
        [notional |-> Sum(Live(k)), count |-> Cardinality(Of(k)),
         share |-> IF total > 0 THEN RoundDiv(1000 * Sum(Live(k)), total) ELSE 0,
         estimated |-> \E p \in Live(k) : ~Has(p.notional)]]

confidenceBand(p) == IF p.confidence >= 7500 THEN "HIGH" ELSE IF p.confidence >= 5000 THEN "MEDIUM" ELSE "LOW"
riskBand(p) ==
  IF ~Has(p.riskPct) THEN "UNKNOWN" ELSE IF p.riskPct[1] < 50 THEN "LOW"
  ELSE IF p.riskPct[1] < 150 THEN "MODERATE" ELSE "HIGH"
regimeOf(p) == IF Has(p.regime) THEN p.regime[1] ELSE "UNKNOWN"

buildPortfolioExposure(facts) ==
  [byState |-> group([p \in facts.positions |-> p.state]),
   byConfidence |-> group([p \in facts.open |-> confidenceBand(p)]),
   byRisk |-> group([p \in facts.open |-> riskBand(p)]),
   bySymbol |-> group([p \in facts.open |-> p.symbol]),
   bySide |-> group([p \in facts.open |-> p.direction]),
   byRegime |-> group([p \in facts.open |-> regimeOf(p)]), gross |-> facts.gross, net |-> facts.net]

-----------------------------------------------------------------------------
(* Allocation. *)

aggregateBySymbol(facts) ==
  [s \in SymbolsOf(facts.open) |->
     LET Of == {p \in facts.open : p.symbol = s}
     IN [gross |-> NotionalOf(Of, s), risk |-> sumFinite([p \in Of |-> p.maxLoss]),
         net |-> NotionalOf({p \in Of : p.direction # "SHORT"}, s) - NotionalOf({p \in Of : p.direction = "SHORT"}, s),
         sized |-> \E p \in Of : Has(p.notional), risked |-> \E p \in Of : Has(p.maxLoss)]]

\* The symbol with the largest figure that has a source, the first of equals.
Largest(agg, sourced, figure) ==
  LET S == {s \in DOMAIN agg : agg[s][sourced]}
  IN IF S = {} THEN Null
     ELSE LET top == CHOOSE s \in S : \A t \in S \ {s} :
                       agg[s][figure] > agg[t][figure] \/ (agg[s][figure] = agg[t][figure] /\ s < t)
          IN <<[symbol |-> top, value |-> agg[top][figure]]>>

\* By readiness, then confidence, then symbol; sign -1 asks for the worst.
pickByReadiness(sample, sign) ==
  LET Better(p, q) == \/ sign * p.readiness > sign * q.readiness
                      \/ p.readiness = q.readiness /\ sign * p.confidence > sign * q.confidence
                      \/ p.readiness = q.readiness /\ p.confidence = q.confidence /\ p.symbol < q.symbol
  IN IF sample = {} THEN Null
     ELSE <<CHOOSE p \in sample : \A q \in sample \ {p} : Better(p, q)>>

buildCapitalAllocation(facts) ==
  LET agg == aggregateBySymbol(facts)
      Pct(x) == RoundDiv(10 * x, facts.equity)
      Source(V(_)) == IF \E p \in facts.open : ~Has(V(p)) THEN "estimated" ELSE "derived"
  IN [capitalPct |-> Pct(facts.gross), riskPct |-> Pct(facts.riskUsed),
      exposurePct |-> IF facts.net < 0 THEN -Pct(-facts.net) ELSE Pct(facts.net),
      notionalSource |-> Source(LAMBDA p : p.notional), riskSource |-> Source(LAMBDA p : p.maxLoss),
      perSymbol |-> [s \in DOMAIN agg |->
        [capitalPct |-> Pct(agg[s].gross), riskPct |-> Pct(agg[s].risk),
         exposurePct |-> IF facts.gross > 0 THEN RoundDiv(1000 * agg[s].gross, facts.gross) ELSE 0]],
      largestPosition |-> Largest(agg, "sized", "gross"),
      largestRisk |-> Largest(agg, "risked", "risk"),
      largestOpportunity |-> pickByReadiness(facts.directional, 1),
      concentration |-> concentrationScore(facts)]

-----------------------------------------------------------------------------
(* Statistics of the directional candidates. *)

avg(V) ==
  LET known == {p \in DOMAIN V : Has(V[p])}
  IN IF known = {} THEN Null ELSE <<RoundDiv(sumFinite(V), Cardinality(known))>>

\* Each value as often as the sample holds it: position k of the sorted values.
Rank(S, k) == CHOOSE c \in {p.confidence : p \in S} :
                /\ Cardinality({p \in S : p.confidence < c}) < k
                /\ Cardinality({p \in S : p.confidence <= c}) >= k

median(S) ==
  LET n == Cardinality(S)
  IN IF n = 0 THEN Null
     ELSE IF n % 2 = 1 THEN <<Rank(S, (n + 1) \div 2)>>
     ELSE <<RoundDiv(Rank(S, n \div 2) + Rank(S, n \div 2 + 1), 2)>>

confidenceBuckets(S) ==
  [k \in 1..4 |-> Cardinality({p \in S : p.confidence >= 2500 * (k - 1)
                                         /\ p.confidence < (IF k = 4 THEN 10001 ELSE 2500 * k)})]

\* Shares here are shares of the count.
regimeGroups(S) ==
  LET g == group([p \in S |-> regimeOf(p)])
  IN [k \in DOMAIN g |-> [g[k] EXCEPT !.share = RoundDiv(1000 * g[k].count, Cardinality(S))]]

Actions == Trades \union {"WATCH", "WAIT", "NO_TRADE"}
Bands == {"READY", "NEAR", "FORMING", "NOT_READY"}

buildPortfolioStatistics(facts) ==
  LET S == facts.directional
      confidences == {p.confidence : p \in S}
  IN [sampleSize |-> Cardinality(S),
      averageConfidence |-> avg([p \in S |-> <<p.confidence>>]), medianConfidence |-> median(S),
      highest |-> IF S = {} THEN Null ELSE <<Max(confidences)>>,
      lowest |-> IF S = {} THEN Null ELSE <<Min(confidences)>>,
      averageRiskReward |-> avg([p \in S |-> p.rr]), averageReadiness |-> avg([p \in S |-> <<p.readiness>>]),
      averageRisk |-> avg([p \in S |-> p.riskPct]),
      best |-> pickByReadiness(S, 1), worst |-> pickByReadiness(S, -1),
      byAction |-> [a \in Actions |-> Cardinality({p \in facts.positions : p.action = a})],
      byBand |-> [b \in Bands |-> Cardinality({p \in S : p.band = b})],
      byRegime |-> regimeGroups(S), buckets |-> confidenceBuckets(S)]

-----------------------------------------------------------------------------
(* Warnings and health. *)

topSymbolSharePct(facts) ==
  IF facts.gross <= 0 THEN 0
  ELSE RoundDiv(1000 * Max({NotionalOf(facts.open, s) : s \in SymbolsOf(facts.open)}), facts.gross)

buildPortfolioWarnings(facts) ==
  LET Warn(c, id, severity) == IF c THEN {[id |-> id, severity |-> severity]} ELSE {}
      opened == facts.open # {}
      Share(x) == RoundDiv(1000 * x, facts.gross)
      longSkew == facts.gross > 0 /\ Share(facts.long) >= 800
  IN Warn(facts.kill, "kill-engaged", "CRITICAL")
     \union Warn(facts.controlAllowed = "no", "control-blocked", "CRITICAL")
     \union Warn(facts.runtimeHealthy = "no", "runtime-unhealthy", "HIGH")
     \union Warn(facts.runtimeHealthy = "unknown", "runtime-unknown", "LOW")
     \union Warn(facts.riskBudget > 0 /\ facts.riskUsed > facts.riskBudget, "risk-over-budget", "CRITICAL")
     \union Warn(opened /\ facts.available <= 0, "no-capital", "HIGH")
     \union Warn(opened /\ facts.available > 0 /\ facts.capitalPct >= 9000, "low-capital", "MEDIUM")
     \union Warn(topSymbolSharePct(facts) >= 600, "over-concentrated", "MEDIUM")
     \union Warn(longSkew, "long-skew", "MEDIUM")
     \union Warn(facts.gross > 0 /\ ~longSkew /\ Share(facts.short) >= 800, "short-skew", "MEDIUM")
     \union Warn(facts.positions # {} /\ ~opened, "no-actionable", "LOW")
     \union Warn(facts.stale # {}, "stale-decisions", "MEDIUM")
     \union Warn(facts.lowDq # {}, "low-dq", "MEDIUM")

buildPortfolioHealth(facts) ==
  LET heat == buildRiskHeat(facts)
      severities == {w.severity : w \in buildPortfolioWarnings(facts)}
  IN IF facts.kill \/ facts.controlAllowed = "no" \/ facts.runtimeHealthy = "no" THEN "BLOCKED"
     ELSE IF \/ heat.band = "EXTREME" \/ "CRITICAL" \in severities
             \/ facts.riskBudget > 0 /\ facts.riskUsed > facts.riskBudget THEN "RISK"
     ELSE IF heat.band = "HOT" \/ severities \intersect {"HIGH", "MEDIUM"} # {} THEN "CAUTION"
     ELSE "HEALTHY"

buildPortfolioSummary(facts) ==
  [exposure |-> facts.gross, long |-> facts.long, short |-> facts.short, net |-> facts.net,
   open |-> Cardinality(facts.open), blocked |-> Cardinality(facts.blocked),
   waiting |-> Cardinality(facts.waiting), flat |-> Cardinality(facts.flat),
   ready |-> Cardinality({p \in facts.open : p.band = "READY"}),
   used |-> facts.gross, available |-> facts.available, riskUsed |-> facts.riskUsed,
   riskRemaining |-> facts.riskRemaining, status |-> buildPortfolioHealth(facts)]

buildPortfolioState(in) ==
  LET facts == derivePortfolioFacts(in)
  IN [summary |-> buildPortfolioSummary(facts), exposure |-> buildPortfolioExposure(facts),
      allocation |-> buildCapitalAllocation(facts), heat |-> buildRiskHeat(facts),
      warnings |-> buildPortfolioWarnings(facts), statistics |-> buildPortfolioStatistics(facts),
      positions |-> facts.positions]
=============================================================================
