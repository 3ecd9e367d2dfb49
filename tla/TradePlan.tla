------------------------------ MODULE TradePlan ------------------------------
(***************************************************************************)
(* packages/trading-plan: one decision reshaped into a plan a trader reads: *)
(* what to do, what is checked, what it risks, what would invalidate it    *)
(* and how ready it is.  Three-valued facts are "yes", "no" or "unknown".  *)
(* Units as in TradingDecision; readiness is counted in hundredths.        *)
(***************************************************************************)
EXTENDS TradingDecision

Tri(known, ok) == IF ~known THEN "unknown" ELSE IF ok THEN "yes" ELSE "no"
triStatus(t) == [yes |-> "PASS", no |-> "FAIL", unknown |-> "UNKNOWN"][t]

StaleAfter == 180
StrongConfidence == 7500
ReadyRR == 200
MinDq == 90

AtLeast(m, bound) == Tri(Has(m), IF Has(m) THEN m[1] >= bound ELSE FALSE)
AtMost(m, bound)  == Tri(Has(m), IF Has(m) THEN m[1] <= bound ELSE FALSE)

\* in is [decision, dq (nullable), state (nullable), kill].
deriveFacts(in) ==
  LET d == in.decision
      entry == d.levels.entry
      stop == d.levels.stop
      levelled == Has(entry) /\ Has(stop)
      distance == Distance(entry[1], stop[1])
      signalFresh == AtMost(d.signalAge, StaleAfter)
      featureFresh == AtMost(d.featureAge, StaleAfter)
      hardBlocked == in.kill \/ "BLOCKED" \in {d.control, d.risk, d.overall}
      actionable == d.overall = "ACTIONABLE" /\ ~in.kill
      sure == d.confidence >= StrongConfidence
      pays == Has(d.levels.rr) /\ d.levels.rr[1] >= ReadyRR
  IN [directional |-> d.direction # "FLAT",
      controlAllowed |-> Tri(d.control # "UNKNOWN", d.control = "ALLOWED"),
      runtimeHealthy |-> Tri(Has(in.state), in.state = <<"HEALTHY">>),
      riskApproved |-> Tri(d.risk \in {"APPROVED", "BLOCKED"}, d.risk = "APPROVED"),
      dqOk |-> AtLeast(in.dq, MinDq),
      signalFresh |-> signalFresh, featureFresh |-> featureFresh,
      trendAligned |-> AtLeast(d.trend, 600), momentumAligned |-> AtLeast(d.momentum, 550),
      volOk |-> AtMost(d.volatility, 500), liqOk |-> AtLeast(d.liquidity, 500),
      hardBlocked |-> hardBlocked, stale |-> signalFresh = "no" \/ featureFresh = "no",
      noTrade |-> d.direction = "FLAT" \/ d.overall = "NO_TRADE",
      actionable |-> actionable, canTrade |-> actionable /\ ~hardBlocked,
      strong |-> sure /\ pays, good |-> ~(sure /\ pays) /\ (sure \/ pays),
      atr |-> IF levelled THEN <<RoundDiv(2 * distance, 3)>> ELSE Null,
      atrPct |-> IF levelled /\ entry[1] > 0 THEN <<RoundDiv(20000 * distance, 3 * entry[1])>> ELSE Null,
      maxLoss |-> IF levelled /\ Has(d.sizing.size)
                  THEN <<RoundDiv(d.sizing.size[1][1] * distance, 100 * d.sizing.size[1][2])>> ELSE Null,
      rewardPct |-> IF Has(d.levels.tp1) /\ entry[1] > 0
                    THEN <<RoundDiv(10000 * Distance(d.levels.tp1[1], entry[1]), entry[1])>> ELSE Null]

-----------------------------------------------------------------------------
(* What to do. *)

Trades == {"STRONG_BUY", "BUY", "STRONG_SELL", "SELL"}

actionFor(f, direction) ==
  IF f.noTrade \/ f.hardBlocked THEN "NO_TRADE"
  ELSE IF ~f.actionable \/ f.stale THEN "WAIT"
  ELSE IF f.strong THEN IF direction = "LONG" THEN "STRONG_BUY" ELSE "STRONG_SELL"
  ELSE IF f.good THEN IF direction = "LONG" THEN "BUY" ELSE "SELL"
  ELSE "WATCH"

headlineFor(action, f) ==
  CASE action \in Trades  -> "execute"
    [] action = "WATCH"    -> "monitor"
    [] action = "WAIT"     -> IF f.stale THEN "stale" ELSE "wait for gates"
    [] action = "NO_TRADE" -> IF f.noTrade /\ ~f.hardBlocked THEN "stand aside" ELSE "blocked"

\* The reasons listed under the headline.
reasons(f, in) ==
  LET d == in.decision
      When(c, r) == IF c THEN {r} ELSE {}
  IN {IF f.directional THEN "direction" ELSE "flat"}
     \union When(f.directional /\ Has(d.levels.rr), "reward:risk")
     \union When(in.kill, "kill engaged")
     \union When(d.control = "BLOCKED", "control blocked")
     \union When(f.controlAllowed = "unknown", "control unknown")
     \union When(d.risk = "BLOCKED", "risk blocked")
     \union When(d.overall \in {"WAITING", "INCOMPLETE"}, "not yet actionable")
     \union When(f.stale, "stale")
     \union When(f.directional /\ f.trendAligned # "unknown", "trend")
     \union When(f.directional /\ f.momentumAligned # "unknown", "momentum")
     \union When(f.directional /\ f.volOk = "no", "volatility elevated")

buildDecisionSummary(f, in) ==
  LET action == actionFor(f, in.decision.direction)
  IN [action |-> action, headline |-> headlineFor(action, f), canTrade |-> f.canTrade,
      shouldTrade |-> action \in Trades, why |-> reasons(f, in)]

-----------------------------------------------------------------------------
(* How ready it is: earned weights out of 100. *)

gate(t, weight) == IF t = "yes" THEN weight * 100 ELSE 0

readinessBand(score) ==
  IF score >= 7500 THEN "READY" ELSE IF score >= 5500 THEN "NEAR"
  ELSE IF score >= 3500 THEN "FORMING" ELSE "NOT_READY"

buildTradeReadiness(f, in) ==
  LET d == in.decision
      rr == IF Has(d.levels.rr) THEN clamp01(d.levels.rr[1] - 100, ReadyRR - 100) ELSE <<0, 1>>
      earned == [directional |-> IF f.directional THEN 1000 ELSE 0,
                 confidence |-> RoundDiv(2000 * d.confidence, 10000),
                 riskReward |-> RoundDiv(1500 * rr[1], rr[2]),
                 control |-> gate(f.controlAllowed, 10), runtime |-> gate(f.runtimeHealthy, 10),
                 risk |-> gate(f.riskApproved, 10),
                 dataQuality |-> IF Has(in.dq) THEN 10 * in.dq[1] ELSE 0,
                 freshness |-> (gate(f.signalFresh, 15) + gate(f.featureFresh, 15)) \div 2]
      score == earned.directional + earned.confidence + earned.riskReward + earned.control
               + earned.runtime + earned.risk + earned.dataQuality + earned.freshness
  IN [score |-> 10 * RoundDiv(score, 10), band |-> readinessBand(10 * RoundDiv(score, 10)), earned |-> earned]

-----------------------------------------------------------------------------
(* What is checked. *)

freshness(f) ==
  IF f.stale THEN "no" ELSE IF f.signalFresh = "yes" /\ f.featureFresh = "yes" THEN "yes" ELSE "unknown"

buildExecutionChecklist(f) ==
  LET status == [directional |-> triStatus(IF f.directional THEN "yes" ELSE "no"),
                 trend |-> triStatus(f.trendAligned), momentum |-> triStatus(f.momentumAligned),
                 volatility |-> triStatus(f.volOk), liquidity |-> triStatus(f.liqOk),
                 risk |-> triStatus(f.riskApproved), control |-> triStatus(f.controlAllowed),
                 runtime |-> triStatus(f.runtimeHealthy), dataQuality |-> triStatus(f.dqOk),
                 freshness |-> triStatus(freshness(f))]
      Count(s) == Cardinality({i \in DOMAIN status : status[i] = s})
  IN [status |-> status, passed |-> Count("PASS"), failed |-> Count("FAIL"), unknown |-> Count("UNKNOWN"),
      allPass |-> Count("FAIL") = 0 /\ Count("UNKNOWN") = 0]

\* The stop's distance in percent of the entry: below 1.5, 4 and 8.
categorize(pct) ==
  IF pct = Null THEN "UNKNOWN"
  ELSE IF pct[1] < 150 THEN "TIGHT" ELSE IF pct[1] < 400 THEN "NORMAL"
  ELSE IF pct[1] < 800 THEN "WIDE" ELSE "VERY_WIDE"

\* A figure that is null is tagged UNAVAILABLE whatever its source claims.
buildRiskChecklist(f, in) ==
  LET d == in.decision
  IN [maximumLoss |-> f.maxLoss, capitalAtRisk |-> d.sizing.capitalRisk, rMultiple |-> d.levels.rr,
      distancePct |-> d.levels.stopPct, atrPct |-> f.atrPct, rewardPct |-> f.rewardPct,
      hold |-> d.hold, category |-> categorize(d.levels.stopPct)]

-----------------------------------------------------------------------------
(* What would invalidate it. *)

stopState(d) ==
  IF d.levels.stop = Null THEN "NOT_APPLICABLE"
  ELSE IF d.current = Null THEN "ARMED"
  ELSE IF d.direction = "LONG" /\ d.current[1] <= d.levels.stop[1] THEN "TRIGGERED"
  ELSE IF d.direction = "SHORT" /\ d.current[1] >= d.levels.stop[1] THEN "TRIGGERED" ELSE "ARMED"

buildInvalidation(f, in) ==
  LET d == in.decision
      Trigger(c) == IF c THEN "TRIGGERED" ELSE "ARMED"
      Below(m, bound) == IF Has(m) THEN m[1] < bound ELSE FALSE
      raw == [stop_hit |-> stopState(d),
              signal_expired |-> Trigger(f.signalFresh = "no"),
              feature_stale |-> Trigger(f.featureFresh = "no"),
              control_blocked |-> Trigger(d.control = "BLOCKED"),
              risk_disabled |-> Trigger(d.risk = "BLOCKED"),
              dq_degraded |-> Trigger(f.dqOk = "no"),
              momentum_reversal |-> Trigger(Below(d.momentum, 150)),
              trend_lost |-> Trigger(Below(d.trend, 300)),
              vol_expansion |-> Trigger(f.volOk = "no")]
      state == [i \in DOMAIN raw |-> IF f.directional THEN raw[i] ELSE "NOT_APPLICABLE"]
      Count(s) == Cardinality({i \in DOMAIN state : state[i] = s})
  IN [state |-> state, armed |-> Count("ARMED"), triggered |-> Count("TRIGGERED")]

-----------------------------------------------------------------------------
buildTradePlan(in) ==
  LET f == deriveFacts(in)
  IN [id |-> in.decision.id, symbol |-> in.decision.symbol, direction |-> in.decision.direction,
      summary |-> buildDecisionSummary(f, in), execution |-> buildExecutionChecklist(f),
      risk |-> buildRiskChecklist(f, in), invalidation |-> buildInvalidation(f, in),
      readiness |-> buildTradeReadiness(f, in)]
=============================================================================
