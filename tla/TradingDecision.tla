--------------------------- MODULE TradingDecision ---------------------------
(***************************************************************************)
(* packages/trading-decision: the pure engine that turns an admitted       *)
(* signal, its features, a mark and the risk and control contexts into an  *)
(* actionable decision, an explanation and a rank.                         *)
(*                                                                         *)
(* A nullable number is <<>> or <<v>>.  Prices and ATR arrive in tenths of *)
(* a cent and are served in cents; scores are tenths of a percent,         *)
(* ratios hundredths, confidence is counted in units of 0.0001, volatility *)
(* in hundredths, equity in thousands of dollars, risk fraction in tenths  *)
(* of a percent, notional in dollars.  The quotient n / d is <<n, d>>.     *)
(***************************************************************************)
EXTENDS Integers, Sequences, FiniteSetsExt, Functions

Null   == <<>>
Has(m) == m # Null

\* toFixed, of a quotient with a positive denominator.
RoundDiv(n, d) == (2 * n + d) \div (2 * d)
Distance(a, b) == IF a < b THEN b - a ELSE a - b

\* clamp01 sends every quotient that is no finite number to zero.
clamp01(n, d) ==
  IF d <= 0 \/ n < 0 THEN <<0, 1>> ELSE IF n > d THEN <<1, 1>> ELSE <<n, d>>

\* Half of each of two quotients.
Blend(a, b) == <<a[1] * b[2] + b[1] * a[2], 2 * a[2] * b[2]>>

\* round(q * 100, 1)
Percent(q) == RoundDiv(1000 * q[1], q[2])

readFeature(features, key) == IF key \in DOMAIN features THEN <<features[key]>> ELSE Null
Complete(features, keys) == keys \subseteq DOMAIN features

ageSeconds(now, then) == IF then = Null THEN Null
                         ELSE <<IF now > then[1] THEN now - then[1] ELSE 0>>

DefaultParams == [rsiLongMin |-> 55, rsiShortMax |-> 45, maxRealizedVol |-> 2]

\* The stored parameters, with the default for every key that holds no number.
resolveSignalParams(raw) ==
  [k \in DOMAIN DefaultParams |-> IF k \in DOMAIN raw THEN raw[k] ELSE DefaultParams[k]]

Stack == {"ema_20", "ema_50", "ema_200"}
RuleKeys == Stack \union {"rsi_14", "realized_vol_30"}
Uptrend(f)   == f.ema_20 > f.ema_50 /\ f.ema_50 > f.ema_200
Downtrend(f) == f.ema_20 < f.ema_50 /\ f.ema_50 < f.ema_200

-----------------------------------------------------------------------------
deriveRegime(features, params) ==
  LET rv     == features["realized_vol_30"]
      maxVol == IF params.maxRealizedVol > 0 THEN params.maxRealizedVol ELSE 2
  IN IF ~Complete(features, Stack \union {"realized_vol_30"}) THEN Null
     ELSE <<CASE rv > 2 * maxVol     -> "HIGH_VOL"
              [] rv <= 2 * maxVol /\ Uptrend(features)   -> "TRENDING_BULL"
              [] rv <= 2 * maxVol /\ Downtrend(features) -> "TRENDING_BEAR"
              [] OTHER -> IF 4 * rv < maxVol THEN "LOW_VOL" ELSE "RANGE_BOUND">>

\* Mutant: the mirror wants the RSI strictly beyond its band.
ruleDirection_Strict(f, params) ==
  CASE Uptrend(f) /\ f.rsi_14 > params.rsiLongMin    -> "LONG"
    [] Downtrend(f) /\ f.rsi_14 < params.rsiShortMax -> "SHORT"
    [] OTHER                                         -> "FLAT"

ruleDirection(f, params) ==
  CASE Uptrend(f) /\ f.rsi_14 >= params.rsiLongMin    -> "LONG"
    [] Downtrend(f) /\ f.rsi_14 <= params.rsiShortMax -> "SHORT"
    [] OTHER                                          -> "FLAT"

\* The mirror of the sealed rule, or nothing where a feature is missing.
applyRule(f, params) ==
  IF ~Complete(f, RuleKeys) THEN Null
  ELSE LET volFiltered == f.realized_vol_30 > params.maxRealizedVol
           decision    == IF volFiltered THEN "FLAT" ELSE ruleDirection(f, params)
           trend       == clamp01(Distance(f.ema_20, f.ema_200), Distance(f.ema_200, 0))
           conviction  == clamp01(Distance(f.rsi_14, 50), 50)
       IN <<[side |-> IF Uptrend(f) THEN "LONG" ELSE IF Downtrend(f) THEN "SHORT" ELSE "FLAT",
             decision |-> decision,
             confidence |->
               IF decision # "FLAT" THEN Blend(trend, conviction)
               ELSE IF volFiltered
                    THEN clamp01(f.realized_vol_30 - params.maxRealizedVol, params.maxRealizedVol)
                    ELSE <<0, 1>>,
             volFiltered |-> volFiltered, trend |-> trend, conviction |-> conviction]>>

-----------------------------------------------------------------------------
(* Consensus of the timeframes that have a snapshot. *)

\* One timeframe: in is [timeframe, features (nullable), ts, params].
tfMetrics(in, now) ==
  LET rule == IF in.features = Null THEN Null ELSE applyRule(in.features[1], in.params)
  IN [timeframe |-> in.timeframe, available |-> Has(rule),
      direction |-> IF Has(rule) THEN <<rule[1].decision>> ELSE Null,
      age |-> IF in.features = Null THEN Null ELSE ageSeconds(now, in.ts),
      strength |-> IF ~Has(rule) THEN Null
                   ELSE IF rule[1].decision = "FLAT" THEN <<0>>
                   ELSE <<Percent(Blend(rule[1].trend, rule[1].conviction))>>]

\* Ties go to LONG, then SHORT.
VoteOrder == [LONG |-> 1, SHORT |-> 2, FLAT |-> 3]

computeConsensus(inputs, now) ==
  LET timeframes == {tfMetrics(in, now) : in \in inputs}
      available  == {t \in timeframes : t.available}
      counts     == [d \in DOMAIN VoteOrder |-> Cardinality({t \in available : t.direction = <<d>>})]
      overall    == CHOOSE d \in DOMAIN VoteOrder : \A e \in DOMAIN VoteOrder \ {d} :
                      counts[d] > counts[e] \/ (counts[d] = counts[e] /\ VoteOrder[d] < VoteOrder[e])
      agreeing   == {t \in available : t.direction = <<overall>>}
  IN [timeframes |-> timeframes,
      overall |-> IF available = {} THEN Null ELSE <<overall>>,
      alignment |-> IF available = {} THEN Null
                    ELSE <<Percent(<<Cardinality(agreeing), Cardinality(available)>>)>>,
      agreement |-> {t.timeframe : t \in agreeing},
      conflict |-> {t.timeframe : t \in available \ agreeing}]

-----------------------------------------------------------------------------
(* Factor scores. *)

trendScore(f) ==
  IF ~Complete(f, {"ema_20", "ema_200"}) THEN Null
  ELSE IF f.ema_200 = 0 THEN Null
  ELSE <<Percent(clamp01(Distance(f.ema_20, f.ema_200), Distance(f.ema_200, 0)))>>

momentumScore(f) ==
  IF ~Complete(f, {"rsi_14"}) THEN Null ELSE <<Percent(clamp01(Distance(f.rsi_14, 50), 50))>>

volatilityScore(f, params) ==
  IF ~Complete(f, {"realized_vol_30"}) THEN Null
  ELSE <<Percent(clamp01(f.realized_vol_30, IF params.maxRealizedVol > 0 THEN 2 * params.maxRealizedVol ELSE 4))>>

\* Spread in basis points against 10, depth in thousands of dollars against 1000.
liquidityScore(liq) ==
  LET spread == clamp01(10 - liq[1].spread[1], 10)
      depth  == clamp01(liq[1].depth[1], 1000)
  IN IF liq = Null THEN Null
     ELSE IF ~Has(liq[1].spread) /\ ~Has(liq[1].depth) THEN Null
     ELSE <<Percent(IF ~Has(liq[1].depth) THEN spread
                    ELSE IF ~Has(liq[1].spread) THEN depth ELSE Blend(spread, depth))>>

-----------------------------------------------------------------------------
(* Levels, size and status. *)

BarSeconds == [M1 |-> 60, M5 |-> 300, M15 |-> 900, H1 |-> 3600, H4 |-> 14400, D1 |-> 86400]
estimateHoldingTime(timeframe) == BarSeconds[timeframe] * 20

allUnavailable ==
  [entry |-> Null, stop |-> Null, tp1 |-> Null, tp2 |-> Null, tp3 |-> Null, rr |-> Null, stopPct |-> Null]

\* Mutant: a short's stop stays below its entry.
computeLevels_ShortStop(direction, price, atr) ==
  LET entry == price[1]
      Away(halves) == (IF direction = "LONG" THEN 1 ELSE -1) * ((halves * atr[1]) \div 2)
      Cents(x) == <<RoundDiv(x, 10)>>
      risk == Distance(Away(3), 0)
  IN IF direction = "FLAT" \/ price = Null THEN allUnavailable
     ELSE IF atr = Null THEN [allUnavailable EXCEPT !.entry = Cents(entry)]
     ELSE IF atr[1] <= 0 THEN [allUnavailable EXCEPT !.entry = Cents(entry)]
     ELSE [entry |-> Cents(entry), stop |-> Cents(entry - risk),
           tp1 |-> Cents(entry + Away(3)), tp2 |-> Cents(entry + Away(6)), tp3 |-> Cents(entry + Away(9)),
           rr |-> <<IF risk > 0 THEN RoundDiv(100 * Distance(Away(3), 0), risk) ELSE 0>>,
           stopPct |-> <<IF entry > 0 THEN RoundDiv(10000 * risk, entry) ELSE 0>>]

\* Stop 1.5 ATR against the direction, targets 1.5, 3 and 4.5 ATR along it.
computeLevels(direction, price, atr) ==
  LET entry == price[1]
      Away(halves) == (IF direction = "LONG" THEN 1 ELSE -1) * ((halves * atr[1]) \div 2)
      Cents(x) == <<RoundDiv(x, 10)>>
      risk == Distance(Away(3), 0)
  IN IF direction = "FLAT" \/ price = Null THEN allUnavailable
     ELSE IF atr = Null THEN [allUnavailable EXCEPT !.entry = Cents(entry)]
     ELSE IF atr[1] <= 0 THEN [allUnavailable EXCEPT !.entry = Cents(entry)]
     ELSE [entry |-> Cents(entry), stop |-> Cents(entry - Away(3)),
           tp1 |-> Cents(entry + Away(3)), tp2 |-> Cents(entry + Away(6)), tp3 |-> Cents(entry + Away(9)),
           rr |-> <<IF risk > 0 THEN RoundDiv(100 * Distance(Away(3), 0), risk) ELSE 0>>,
           stopPct |-> <<IF entry > 0 THEN RoundDiv(10000 * risk, entry) ELSE 0>>]

RiskAmount(risk) == risk.equity * risk.fraction

\* The size that loses the configured fraction of the equity at the served stop.
computeSizing(direction, entry, stop, risk) ==
  LET distance == Distance(entry[1], stop[1])
      none == [size |-> Null, notional |-> Null, capitalRisk |-> Null]
  IN IF direction = "FLAT" \/ entry = Null \/ stop = Null THEN none
     ELSE IF distance = 0 \/ RiskAmount(risk) <= 0 THEN none
     ELSE [size |-> <<<<RiskAmount(risk) * 100, distance>>>>,
           notional |-> <<RoundDiv(RiskAmount(risk) * entry[1], distance)>>,
           capitalRisk |-> <<risk.fraction * 10>>]

deriveControlStatus(control) ==
  CASE control.kill -> "BLOCKED"
    [] ~control.kill /\ control.permission = Null -> "UNKNOWN"
    [] OTHER -> IF control.permission = <<"ALLOWED">> THEN "ALLOWED" ELSE "BLOCKED"

deriveExecutionStatus(control, controlStatus) ==
  IF controlStatus # "ALLOWED" THEN controlStatus
  ELSE IF control.state = <<"HEALTHY">> THEN "READY"
  ELSE IF control.state \in {<<s>> : s \in {"STOPPED", "FAILED", "PROTECTED"}} THEN "BLOCKED"
  ELSE "WAITING"

\* Mutant: a frozen system is checked against the caps like any other.
evaluateStaticRisk_Frozen(direction, notional, risk) ==
  CASE risk.mode = <<"RISK_OFF">> -> "BLOCKED"
    [] OTHER -> IF direction = "FLAT" THEN "NOT_APPLICABLE"
                ELSE IF notional = Null THEN "UNKNOWN"
                ELSE IF notional[1] > risk.maxNotional THEN "BLOCKED" ELSE "APPROVED"

evaluateStaticRisk(direction, notional, risk) ==
  CASE risk.mode \in {<<"RISK_OFF">>, <<"FROZEN">>} -> "BLOCKED"
    [] OTHER -> IF direction = "FLAT" THEN "NOT_APPLICABLE"
                ELSE IF notional = Null THEN "UNKNOWN"
                ELSE IF notional[1] > risk.maxNotional THEN "BLOCKED" ELSE "APPROVED"

deriveOverallStatus(direction, control, risk, execution, complete) ==
  IF direction = "FLAT" THEN "NO_TRADE"
  ELSE IF control = "BLOCKED" \/ risk = "BLOCKED" THEN "BLOCKED"
  ELSE IF execution \in {"WAITING", "UNKNOWN"} THEN "WAITING"
  ELSE IF complete THEN "ACTIONABLE" ELSE "INCOMPLETE"

-----------------------------------------------------------------------------
(* Why: the factors a reader is shown, by their label, and the breakdown. *)

StackFactor(f) ==
  IF ~Complete(f, Stack) THEN [of |-> "neutral", label |-> "Trend structure unavailable"]
  ELSE IF Uptrend(f) THEN [of |-> "bullish", label |-> "Uptrend structure"]
  ELSE IF Downtrend(f) THEN [of |-> "bearish", label |-> "Downtrend structure"]
  ELSE [of |-> "neutral", label |-> "No EMA alignment"]

\* Mutant: the long band is tested strictly.
RsiFactor_Strict(f, params) ==
  IF f.rsi_14 > params.rsiLongMin THEN [of |-> "bullish", label |-> "Momentum confirms long"]
  ELSE IF f.rsi_14 <= params.rsiShortMax THEN [of |-> "bearish", label |-> "Momentum confirms short"]
  ELSE [of |-> "neutral", label |-> "Momentum neutral"]

RsiFactor(f, params) ==
  IF f.rsi_14 >= params.rsiLongMin THEN [of |-> "bullish", label |-> "Momentum confirms long"]
  ELSE IF f.rsi_14 <= params.rsiShortMax THEN [of |-> "bearish", label |-> "Momentum confirms short"]
  ELSE [of |-> "neutral", label |-> "Momentum neutral"]

VolFactor(f, params) ==
  IF f.realized_vol_30 > params.maxRealizedVol THEN [of |-> "risk", label |-> "Volatility filter active"]
  ELSE [of |-> "neutral", label |-> "Volatility within bounds"]

\* Where the mark stands in the channel: the top or the bottom fifth.
ChannelFactor(price, upper, lower) ==
  LET above == 5 * (price - lower)
  IN IF above >= 4 * (upper - lower) THEN [of |-> "bullish", label |-> "Near range high"]
     ELSE IF above <= upper - lower THEN [of |-> "bearish", label |-> "Near range low"]
     ELSE [of |-> "neutral", label |-> "Mid-range"]

Breakdown(signal, rule) ==
  IF Has(rule) /\ signal.decision # "FLAT"
  THEN [trend |-> <<RoundDiv(5000 * rule[1].trend[1], rule[1].trend[2])>>,
        momentum |-> <<RoundDiv(5000 * rule[1].conviction[1], rule[1].conviction[2])>>,
        total |-> signal.confidence]
  ELSE [trend |-> Null, momentum |-> Null, total |-> signal.confidence]

buildExplainability(f, params, signal, rule, price, dq) ==
  LET channel == {"donchian_upper_20", "donchian_lower_20"}
      factors ==
        {StackFactor(f)}
        \union (IF Complete(f, {"rsi_14"}) THEN {RsiFactor(f, params)} ELSE {})
        \union (IF Complete(f, {"realized_vol_30"}) THEN {VolFactor(f, params)} ELSE {})
        \union (IF Has(price) /\ Complete(f, channel)
                THEN IF f.donchian_upper_20 > f.donchian_lower_20
                     THEN {ChannelFactor(price[1], f.donchian_upper_20, f.donchian_lower_20)} ELSE {}
                ELSE {})
        \union (IF dq < 100 THEN {[of |-> IF dq < 95 THEN "risk" ELSE "neutral", label |-> "Data quality"]} ELSE {})
  IN [factors |-> factors, breakdown |-> Breakdown(signal, rule)]

-----------------------------------------------------------------------------
\* signal is a row of EngineSignal with its snapshot; price and liq come from the
\* market view, risk and control from the contexts the caller read.
buildTradingDecision(now, signal, price, liq, risk, control) ==
  LET f       == signal.features
      params  == resolveSignalParams(signal.params)
      levels  == computeLevels(signal.decision, price, readFeature(f, "atr_14"))
      sizing  == computeSizing(signal.decision, levels.entry, levels.stop, risk)
      ctl     == deriveControlStatus(control)
      exec    == deriveExecutionStatus(control, ctl)
      verdict == evaluateStaticRisk(signal.decision, sizing.notional, risk)
  IN [id |-> signal.id, symbol |-> signal.symbol, timeframe |-> signal.timeframe,
      direction |-> signal.decision, confidence |-> signal.confidence,
      signalAge |-> ageSeconds(now, <<signal.createdAt>>), featureAge |-> ageSeconds(now, <<signal.featureTs>>),
      current |-> IF Has(price) THEN <<RoundDiv(price[1], 10)>> ELSE Null,
      levels |-> levels, sizing |-> sizing, equity |-> risk.equity,
      hold |-> estimateHoldingTime(signal.timeframe),
      trend |-> trendScore(f), momentum |-> momentumScore(f),
      volatility |-> volatilityScore(f, params), liquidity |-> liquidityScore(liq),
      regime |-> deriveRegime(f, params),
      control |-> ctl, execution |-> exec, risk |-> verdict,
      overall |-> deriveOverallStatus(signal.decision, ctl, verdict, exec, Has(levels.stop)),
      explain |-> buildExplainability(f, params, signal, applyRule(f, params), price, signal.dq)]

-----------------------------------------------------------------------------
(* The opportunity board. *)

\* The rank score times 600000: weights 0.30, 0.20, 0.15, 0.10 of the confidence,
\* the reward-risk ratio against 3, the liquidity and the data quality, and
\* 0.10, 0.075, 0.075 for the three approvals.
rankScore(d, dq) ==
  LET Least3(x) == IF x > 300 THEN 300 ELSE x
  IN RoundDiv(18 * d.confidence
              + (IF Has(d.levels.rr) THEN 400 * Least3(d.levels.rr[1]) ELSE 0)
              + (IF Has(d.liquidity) THEN 90 * d.liquidity[1] ELSE 0)
              + 600 * dq
              + (IF d.execution = "READY" THEN 60000 ELSE 0)
              + (IF d.risk = "APPROVED" THEN 45000 ELSE 0)
              + (IF d.control = "ALLOWED" THEN 45000 ELSE 0), 60)

toRanked(item) == [symbol |-> item.decision.symbol, timeframe |-> item.decision.timeframe,
                   direction |-> item.decision.direction, overall |-> item.decision.overall,
                   score |-> rankScore(item.decision, item.dq)]

byScore(a, b) == a.score > b.score \/ (a.score = b.score /\ a.symbol < b.symbol)

isTop(r) == r.overall = "ACTIONABLE" /\ r.direction \in {"LONG", "SHORT"}

\* Mutant: whatever is not blocked or waiting is watched.
Watched_All(r) == r.overall \notin {"BLOCKED", "WAITING"}

Watched(r) == r.overall \notin {"BLOCKED", "WAITING"} /\ ~isTop(r)

\* The entries by score: each stands behind those that come before it.
Sorted(ranked) ==
  [i \in 1 .. Cardinality(ranked) |->
     CHOOSE r \in ranked : Cardinality({q \in ranked : byScore(q, r)}) = i - 1]

rankOpportunities(items) ==
  LET ranked == {toRanked(i) : i \in items}
      Bucket(T(_)) == Sorted({r \in ranked : T(r)})
  IN [topLong  |-> Bucket(LAMBDA r : isTop(r) /\ r.direction = "LONG"),
      topShort |-> Bucket(LAMBDA r : isTop(r) /\ r.direction = "SHORT"),
      watchlist |-> Bucket(LAMBDA r : Watched(r)),
      blocked  |-> Bucket(LAMBDA r : r.overall = "BLOCKED"),
      waiting  |-> Bucket(LAMBDA r : r.overall = "WAITING")]
=============================================================================
