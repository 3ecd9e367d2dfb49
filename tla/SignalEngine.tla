---------------------------- MODULE SignalEngine ----------------------------
(***************************************************************************)
(* services/workers/src/signal and the pure half of the decision layer:    *)
(* from a persisted feature snapshot, its data quality report and the      *)
(* active strategy version to a signal and a trading decision, and back    *)
(* again by replay.  Confidence is counted in units of 0.0001, volatility  *)
(* in hundredths.  A hash of a value stands for the value.                 *)
(***************************************************************************)
EXTENDS Integers

Sides == {"LONG", "SHORT", "FLAT"}

\* A feature vector with a missing or non-finite entry, and JSON columns that hold no
\* object (a strategy's parameters, a snapshot's features).
Corrupt   == [corrupt |-> TRUE]
NotObject == [array |-> TRUE]

DEFAULT_SIGNAL_PARAMS == [rsiLongMin |-> 55, rsiShortMax |-> 45, maxRealizedVol |-> 2]

resolveSignalParams(parameters) ==
  [k \in {"rsiLongMin", "rsiShortMax", "maxRealizedVol"} |->
     IF k \in DOMAIN parameters THEN parameters[k] ELSE DEFAULT_SIGNAL_PARAMS[k]]

-----------------------------------------------------------------------------
\* Non-negative quotients n / d of doubles: 0 / 0 is NaN, n / 0 is infinite.
Ratio(n, d) == [num |-> n, den |-> d]
isNaN(r)    == r.num = 0 /\ r.den = 0
Abs(x)      == IF x < 0 THEN -x ELSE x

clamp01(r) ==
  CASE isNaN(r)      -> r
    [] r.num < 0     -> Ratio(0, 1)
    [] r.num > r.den -> Ratio(1, 1)
    [] OTHER         -> r

\* 0.5 * a + 0.5 * b
Mean(a, b) == IF isNaN(a) \/ isNaN(b) THEN Ratio(0, 0)
              ELSE Ratio(a.num * b.den + b.num * a.den, 2 * a.den * b.den)

\* toFixed(4); NaN prints as text that no later parser takes for a confidence.
Unparsable == -1
quantizeConfidence(r) ==
  LET c == clamp01(r)
  IN IF isNaN(c) THEN Unparsable
     ELSE (2 * 10000 * c.num + c.den) \div (2 * c.den)

Bull(f) == f.ema20 > f.ema50 /\ f.ema50 > f.ema200
Bear(f) == f.ema20 < f.ema50 /\ f.ema50 < f.ema200
VolFiltered(f, p) == f.vol > p.maxRealizedVol

SideOf(f) == IF Bull(f) THEN "LONG" ELSE IF Bear(f) THEN "SHORT" ELSE "FLAT"

\* The trend must be confirmed by the RSI.
Directional(f, p) ==
  CASE Bull(f) /\ f.rsi >= p.rsiLongMin  -> "LONG"
    [] Bear(f) /\ f.rsi <= p.rsiShortMax -> "SHORT"
    [] OTHER                             -> "FLAT"

DecisionOf(f, p) == IF VolFiltered(f, p) THEN "FLAT" ELSE Directional(f, p)

\* A negative limit makes a negative quotient, which clamps to zero.
ConfidenceOf(f, p) ==
  IF DecisionOf(f, p) \in {"LONG", "SHORT"}
  THEN Mean(clamp01(Ratio(Abs(f.ema20 - f.ema200), Abs(f.ema200))),
            clamp01(Ratio(Abs(f.rsi - 50), 50)))
  ELSE IF VolFiltered(f, p)
       THEN IF p.maxRealizedVol < 0 THEN Ratio(0, 1)
            ELSE clamp01(Ratio(f.vol - p.maxRealizedVol, p.maxRealizedVol))
       ELSE Ratio(0, 1)

decideSignal(f, p) ==
  [side |-> SideOf(f), decision |-> DecisionOf(f, p),
   confidence |-> quantizeConfidence(ConfidenceOf(f, p))]

-----------------------------------------------------------------------------
\* A snapshot row as the tick reads it: its id, symbol, feature vector and report.
\* A sound report has a status; the floor of 90 decides the status with the score.
Admitted(dq) == dq.passed

Refused == [refused |-> TRUE]

\* Verbatim lineage: what the signal cites is what produced it.
generateSignal(snap, sv) ==
  IF ~Admitted(snap.dq) \/ snap.features = Corrupt THEN Refused
  ELSE LET p == resolveSignalParams(sv.parameters)
           d == decideSignal(snap.features, p)
       IN [symbol |-> snap.id.symbol, side |-> d.side, decision |-> d.decision,
           confidence |-> d.confidence, strategy |-> sv.id, params |-> p,
           snapshot |-> snap.id, dqReport |-> snap.dq.id, datasetHash |-> snap.dq.dataset,
           featureHash |-> snap.features]

\* The wire contract of a signal, without its context.
SoundSignal(g) == /\ g.side \in Sides /\ g.decision \in Sides
                  /\ g.confidence \in 0 .. 10000

\* The contract gate before publication.
malformedSignal(g, snap, sv) ==
  \/ ~SoundSignal(g)
  \/ g.symbol # snap.id.symbol \/ g.snapshot # snap.id
  \/ g.dqReport # snap.dq.id \/ g.datasetHash # snap.dq.dataset
  \/ g.strategy # sv.id \/ g.featureHash # snap.features

verifySignalLineage(g, snap, sv) ==
  /\ g.snapshot = snap.id /\ g.featureHash = snap.features /\ g.symbol = snap.id.symbol
  /\ g.dqReport = snap.dq.id /\ g.datasetHash = snap.dq.dataset
  /\ g.strategy = sv.id /\ g.params = resolveSignalParams(sv.parameters)

\* Replay runs the same rule over the snapshot's persisted values and the parameters
\* recorded with the signal.
replayEngineSignal(g, snap, sv) ==
  IF ~verifySignalLineage(g, snap, sv) THEN "ABORTED_LINEAGE"
  ELSE IF ~Admitted(snap.dq) THEN "REFUSED_DQ"
  ELSE IF snap.features = Corrupt THEN "ABORTED_FEATURE_VECTOR"
  ELSE LET d == decideSignal(snap.features, resolveSignalParams(g.params))
       IN IF d.decision = g.decision /\ d.confidence = g.confidence /\ d.side = g.side
          THEN "MATCH" ELSE "DECISION_MISMATCH"

-----------------------------------------------------------------------------
\* StrategyV1 acts on a conviction of 0.1; it is what an unregistered id resolves to.
STRATEGY_V1_CONFIDENCE_FLOOR == 1000
STRATEGY_V2_CONFIDENCE_FLOOR == 2500

FloorOf(strategy) == IF strategy = "V2" THEN STRATEGY_V2_CONFIDENCE_FLOOR
                     ELSE STRATEGY_V1_CONFIDENCE_FLOOR

ActionOf(g, floor) ==
  IF g.decision = "FLAT" THEN "STAND_ASIDE"
  ELSE IF g.confidence >= floor THEN "ENTER" ELSE "HOLD"

\* The intent carries the observation's side and confidence, not its decision.
deriveFloorIntent(g, floor) ==
  [action |-> ActionOf(g, floor), side |-> g.side, confidence |-> g.confidence]

\* registry.resolve: the strategy registered under the key, or the default.
resolveStrategy(id) == IF id = "core-technical@v2" THEN "V2" ELSE "V1"

deriveDecisionEvent(g) ==
  [signal |-> g, decision |-> deriveFloorIntent(g, FloorOf(resolveStrategy(g.strategy))),
   lineage |-> [strategy |-> g.strategy, snapshot |-> g.snapshot, dqReport |-> g.dqReport,
                datasetHash |-> g.datasetHash, featureHash |-> g.featureHash],
   executionPending |-> ActionOf(g, FloorOf(resolveStrategy(g.strategy))) = "ENTER"]

\* Mutant: the lineage is checked, the signal is not.
admitDecisionEvent_TrustSignal(e) ==
  /\ e.decision.action \in {"ENTER", "HOLD", "STAND_ASIDE"}
  /\ e.decision.side \in Sides /\ e.decision.confidence \in 0 .. 10000
  /\ \A field \in DOMAIN e.lineage : e.lineage[field] = e.signal[field]

\* The one conversion of bus data into a decision event.
admitDecisionEvent(e) ==
  /\ SoundSignal(e.signal)
  /\ e.decision.action \in {"ENTER", "HOLD", "STAND_ASIDE"}
  /\ e.decision.side \in Sides /\ e.decision.confidence \in 0 .. 10000
  /\ \A field \in DOMAIN e.lineage : e.lineage[field] = e.signal[field]

=============================================================================
