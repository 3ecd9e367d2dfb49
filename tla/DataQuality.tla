----------------------------- MODULE DataQuality -----------------------------
(* The data quality gateway of services/ingestion/src/dq and the two         *)
(* endpoints of the quant service it leans on.  A candle is its open time    *)
(* and its five numbers; `finite` is false when one of the decimal strings   *)
(* does not parse.  Times are counted in a unit of which `grid` is the       *)
(* timeframe, so a time may fall off the grid.                               *)
EXTENDS Integers, Sequences, FiniteSets, SequencesExt

MIN_DATA_QUALITY_SCORE == 90
\* Mutant: an unavailable stage B costs no more than the margin.
STAGE_B_UNAVAILABLE_DEDUCTION_Margin == 10
STAGE_B_UNAVAILABLE_DEDUCTION == 15
CHECK_WEIGHTS == [schema_conformance |-> 40, duplicates |-> 20,
                  timestamp_monotonic |-> 15, gaps |-> 25]
STAGE_B_WEIGHTS == [price_outliers |-> 6, volume_anomaly |-> 4,
                    distribution_drift |-> 3, cross_exchange_divergence |-> 2]
PER_OUTLIER_DEDUCTION == 2

AtMost(a, b)  == IF a < b THEN a ELSE b
AtLeast(a, b) == IF a > b THEN a ELSE b
Ceil(a, b)    == -((-a) \div b)

Check(name, passed, deduction) ==
  [check |-> name, passed |-> passed, deduction |-> IF passed THEN 0 ELSE deduction]

-----------------------------------------------------------------------------
(* Stage A: checks on the batch as it was fetched, in their pinned order.    *)
Conforms(c) ==
  /\ c.finite
  /\ c.open >= 0 /\ c.high >= 0 /\ c.low >= 0 /\ c.close >= 0 /\ c.volume >= 0
  /\ c.low <= c.high
  /\ c.low <= c.open /\ c.open <= c.high
  /\ c.low <= c.close /\ c.close <= c.high

checkSchemaConformance(candles) ==
  Check("schema_conformance", \A i \in DOMAIN candles : Conforms(candles[i]),
        CHECK_WEIGHTS.schema_conformance)

checkDuplicates(candles) ==
  Check("duplicates",
        \A i, j \in DOMAIN candles : candles[i].ts = candles[j].ts => i = j,
        CHECK_WEIGHTS.duplicates)

\* Equal neighbours are sorted: they are the duplicates check's business.
checkTimestampMonotonic(candles, grid) ==
  Check("timestamp_monotonic",
        /\ \A i \in 2..Len(candles) : candles[i - 1].ts <= candles[i].ts
        /\ \A i \in DOMAIN candles : candles[i].ts % grid = 0,
        CHECK_WEIGHTS.timestamp_monotonic)

FirstAligned(from, grid) == Ceil(from, grid) * grid
ExpectedBars(grid, from, to) == AtLeast(0, Ceil(to - FirstAligned(from, grid), grid))
ExpectedSlots(grid, from, to) ==
  [k \in 1..ExpectedBars(grid, from, to) |-> FirstAligned(from, grid) + (k - 1) * grid]

\* One pass over the expected bars, closing a run of missing ones whenever a
\* present bar, or the end of the window, is met.
NoRun == [gaps |-> <<>>, start |-> 0, bars |-> 0]
CloseRun(run, grid) ==
  IF run.bars = 0 THEN run
  ELSE [NoRun EXCEPT !.gaps = Append(run.gaps,
          [from |-> run.start, to |-> run.start + run.bars * grid, missingBars |-> run.bars])]
detectCandleGaps(times, grid, from, to) ==
  LET visit(run, slot) ==
        IF slot \in times THEN CloseRun(run, grid)
        ELSE [run EXCEPT !.start = IF run.bars = 0 THEN slot ELSE @, !.bars = @ + 1]
  IN CloseRun(FoldLeft(visit, NoRun, ExpectedSlots(grid, from, to)), grid).gaps

TimesOf(candles) == {candles[i].ts : i \in DOMAIN candles}
MissingBars(gaps) == FoldLeft(LAMBDA n, g : n + g.missingBars, 0, gaps)

\* ceil(missingPct * 2.5): one point for any hole, the cap from ten percent on.
checkGaps(candles, grid, from, to) ==
  LET expected == ExpectedBars(grid, from, to)
      missing  == MissingBars(detectCandleGaps(TimesOf(candles), grid, from, to))
  IN IF expected = 0 THEN Check("gaps", TRUE, 0)
     ELSE Check("gaps", missing = 0,
                AtMost(CHECK_WEIGHTS.gaps, Ceil(missing * 250, expected)))

checkCandleBatch(candles, grid, from, to) ==
  << checkSchemaConformance(candles), checkDuplicates(candles),
     checkTimestampMonotonic(candles, grid), checkGaps(candles, grid, from, to) >>

-----------------------------------------------------------------------------
(* Stage B: the quant service's statistical checks.  What the estimators     *)
(* find is an input (how many returns and volumes are outliers, whether the  *)
(* halves of the window differ); the caller never sends reference closes.    *)
OutlierCheck(name, outliers) ==
  Check(name, outliers = 0,
        AtMost(STAGE_B_WEIGHTS[name], outliers * PER_OUTLIER_DEDUCTION))
run_statistical_checks(found) ==
  << OutlierCheck("price_outliers", found.outliers),
     OutlierCheck("volume_anomaly", found.anomalies),
     Check("distribution_drift", ~found.drift, STAGE_B_WEIGHTS.distribution_drift),
     Check("cross_exchange_divergence", TRUE, 0) >>

\* An answer is what came back: the checks, a refused secret, or anything else
\* (no service configured, a timeout, a status, a body that does not parse).
StageBFindings == [outliers : 0..3, anomalies : 0..2, drift : BOOLEAN]
StageBAnswers  == [kind : {"checks"}, found : StageBFindings]
                    \cup [kind : {"auth", "unavailable"}]

fetchStageBChecks(answer) ==
  IF answer.kind = "checks" THEN run_statistical_checks(answer.found)
  ELSE << Check("stage_b_unavailable", FALSE, STAGE_B_UNAVAILABLE_DEDUCTION) >>

-----------------------------------------------------------------------------
scoreChecks(checks) ==
  LET score == AtLeast(0, 100 - FoldLeft(LAMBDA n, c : n + c.deduction, 0, checks))
  IN [score |-> score,
      status |-> IF score >= MIN_DATA_QUALITY_SCORE THEN "PASSED" ELSE "FAILED"]

\* A refused secret is a misconfiguration: it throws and leaves no report.
Throws(answer) == answer.kind = "auth"
Verdict(candles, grid, from, to, answer) ==
  scoreChecks(checkCandleBatch(candles, grid, from, to) \o fetchStageBChecks(answer))

-----------------------------------------------------------------------------
(* POST /features/compute over an admitted window: either a snapshot as of   *)
(* the last candle, or a structured refusal.                                 *)
ValidForFeatures(c) ==
  c.finite /\ c.close > 0 /\ c.high > 0 /\ c.low > 0 /\ c.volume >= 0

compute_core_technical(candles, minCandles) ==
  IF Len(candles) < minCandles THEN "INSUFFICIENT_DATA"
  ELSE IF \E i \in DOMAIN candles : ~ValidForFeatures(candles[i]) THEN "INVALID_MARKET_DATA"
  ELSE "OK"

compute(candles, dqScore, scopeTs, minCandles) ==
  IF dqScore < MIN_DATA_QUALITY_SCORE THEN "DQ_BELOW_MINIMUM"
  ELSE IF candles = <<>> THEN "INSUFFICIENT_DATA"
  ELSE IF scopeTs # candles[Len(candles)].ts THEN "SCOPE_TS_MISMATCH"
  ELSE compute_core_technical(candles, minCandles)
=============================================================================
