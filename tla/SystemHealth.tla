---------------------------- MODULE SystemHealth ----------------------------
(***************************************************************************)
(* The read models of the operations console: component health             *)
(* (lib/system-health.ts), data flow freshness and pipeline stages         *)
(* (lib/ops.ts over lib/ops-freshness.ts) and the alert rules              *)
(* (lib/ops-alerts.ts), as functions of the world they observe:            *)
(*   db     "fast", "slow" (over 500 ms) or "down"                         *)
(*   redis  "unset", "pong" or "refused";  quant the same with "error"     *)
(*   lag    seconds since the newest row of each stream, Never if none;    *)
(*          execution: the newest JobRun with "exec" in its name, if it also *)
(*          looks like execution                                           *)
(*   exec   age of the newest job that looks like execution among the last *)
(*          500 of the day, by another pattern: an order job counts here   *)
(*   job    [age, failed] of the newest JobRun;  dq  age of the newest     *)
(*          data quality report                                           *)
(*   failed stages with a failed job or report in the last day             *)
(*   risk   [open, mode, seen] of the risk tables                          *)
(* A view that rejects is <<>>, one that answers v is <<v>>.  Texts,        *)
(* latencies and throughputs are left out; ages are in seconds.            *)
(***************************************************************************)
EXTENDS Integers, Sequences, FiniteSets

Never == 0 - 1
Ages == Nat \cup {Never}
Minute == 60
Hour == 3600
Day == 24 * Hour

Least(S) == CHOOSE x \in S : \A y \in S : x <= y
MarketStreams == {"marketTick", "orderbookSnapshot", "marketCandle"}
Newest(ages) == IF ages \ {Never} = {} THEN Never ELSE Least(ages \ {Never})

-----------------------------------------------------------------------------
(* getSystemHealth *)

statusFromAge(age, healthyWithin, degradedWithin) ==
  CASE age = Never            -> "unknown"
    [] age \in 0..healthyWithin -> "healthy"
    [] age \in healthyWithin + 1..degradedWithin -> "degraded"
    [] OTHER                  -> "failing"

probeDatabase(w) == CASE w.db = "fast" -> "healthy" [] w.db = "slow" -> "degraded" [] OTHER -> "failing"
probeRedis(w) == CASE w.redis = "unset" -> "unknown" [] w.redis = "pong" -> "healthy" [] OTHER -> "failing"
probeQuant(w) == CASE w.quant = "unset" -> "unknown" [] w.quant = "pong" -> "healthy"
                   [] w.quant = "error" -> "degraded" [] OTHER -> "failing"

MarketAge(w) == Newest({w.lag[s] : s \in MarketStreams})

\* The freshest of the three market data tables; unreadable is unknown.
probeIngestion(w) ==
  IF w.db = "down" THEN "unknown"
  ELSE statusFromAge(MarketAge(w),
                     2 * Minute, Hour)

\* A heartbeat or a signal; a failed newest job degrades what is recent.
probeWorkers(w) ==
  LET status == statusFromAge(Newest({w.job.age, w.lag["engineSignal"]}), 5 * Minute, Hour) IN
  IF w.db = "down" THEN "unknown"
  ELSE IF w.job.age # Never /\ w.job.failed /\ status = "healthy" THEN "degraded" ELSE status

components(w) ==
  [web |-> "healthy", database |-> probeDatabase(w), redis |-> probeRedis(w),
   quant |-> probeQuant(w), ingestion |-> probeIngestion(w), workers |-> probeWorkers(w)]

\* Required: this process, the database, and Redis once it is configured.
required(w) == {"web", "database"} \cup (IF w.redis = "unset" THEN {} ELSE {"redis"})

\* Mutant: only required components count.
reduceOverall_Required(c, need) ==
  IF "failing" \in {c["database"], c["redis"]} THEN "critical"
  ELSE IF \E k \in need : c[k] # "healthy" THEN "degraded" ELSE "healthy"

reduceOverall(c, need) ==
  IF "failing" \in {c["database"], c["redis"]} THEN "critical"
  ELSE IF (\E k \in DOMAIN c : c[k] \in {"failing", "degraded"}) \/ (\E k \in need : c[k] = "unknown")
  THEN "degraded" ELSE "healthy"

getSystemHealth(w) == reduceOverall(components(w), required(w))

-----------------------------------------------------------------------------
(* getDataFlowMonitor *)

STREAM_THRESHOLDS ==
  [marketTick |-> [warning |-> 30, stale |-> 60], orderbookSnapshot |-> [warning |-> 30, stale |-> 120],
   marketCandle |-> [warning |-> 120, stale |-> 600], featureSnapshot |-> [warning |-> 60, stale |-> 180],
   engineSignal |-> [warning |-> 60, stale |-> 120], execution |-> [warning |-> 120, stale |-> 300]]
StreamKeys == DOMAIN STREAM_THRESHOLDS

\* What there is to observe.
Observable ==
  [db : {"fast", "slow", "down"}, redis : {"unset", "pong", "refused"},
   quant : {"unset", "pong", "error", "refused"}, lag : [StreamKeys -> Ages],
   job : [age : Ages, failed : BOOLEAN], exec : Ages, dq : Ages, failed : SUBSET STRING,
   risk : [open : BOOLEAN, mode : STRING, seen : BOOLEAN]]

freshnessFromLag(lag, warningSec, staleSec) ==
  IF lag = Never THEN "unknown" ELSE IF lag <= warningSec THEN "fresh"
  ELSE IF lag <= staleSec THEN "warning" ELSE "stale"

\* An execution stream without rows is unknown; so is any other, since its
\* lag is null.
freshnessOf(lag) ==
  [s \in StreamKeys |-> freshnessFromLag(lag[s], STREAM_THRESHOLDS[s].warning, STREAM_THRESHOLDS[s].stale)]

Rejected == <<>>

\* Mutant: a table that cannot be read counts as one without rows.
getDataFlowMonitor_Total(w) ==
  <<freshnessOf(IF w.db = "down" THEN [s \in StreamKeys |-> Never] ELSE w.lag)>>

\* Only the execution stream catches its error: one unreadable table rejects
\* the whole.
getDataFlowMonitor(w) == IF w.db = "down" THEN Rejected ELSE <<freshnessOf(w.lag)>>

Worst(order, S) ==
  LET rank(v) == CHOOSE k \in DOMAIN order : order[k] = v IN
  CHOOSE v \in S : \A u \in S : rank(u) <= rank(v)

worstFreshness(f) == Worst(<<"fresh", "unknown", "warning", "stale">>, {"fresh"} \cup {f[s] : s \in DOMAIN f})

-----------------------------------------------------------------------------
(* getOpsPipeline *)

\* count24h = 0 means that the newest row, if there is one, is over a day old.
deriveStageState(age, errors, freshSec, staleSec) ==
  CASE age = Never -> "empty"
    [] age # Never /\ errors -> IF age > staleSec THEN "failing" ELSE "degraded"
    [] age # Never /\ ~errors -> IF age <= freshSec THEN "active" ELSE IF age <= staleSec THEN "idle" ELSE "failing"

\* Open risk events fail the stage, a mode other than NORMAL degrades it.
riskStage(w) ==
  IF w.risk.open THEN "failing" ELSE IF w.risk.mode \notin {"none", "NORMAL"} THEN "degraded"
  ELSE IF w.risk.seen THEN "active" ELSE "idle"

\* The execution stage sees the JobRun rows of the last day; without one that
\* matches it is unknown.
executionStage(w) ==
  IF w.exec \notin 0..Day THEN "unknown"
  ELSE deriveStageState(w.exec, "execution" \in w.failed, 120, 600)

persistenceStage(w) ==
  IF w.db = "down" THEN "failing"
  ELSE IF /\ \A s \in StreamKeys \ {"execution"} : w.lag[s] = Never
          /\ w.dq = Never /\ w.job.age \notin 0..Day
  THEN "empty" ELSE "active"

stages(w) ==
  LET market == MarketAge(w)
      failing(stage) == stage \in w.failed
  IN [exchange |-> deriveStageState(market, failing("exchange"), 60, 600),
      ingestion |-> deriveStageState(market, failing("ingestion"), 60, 600),
      dataQuality |-> deriveStageState(w.dq, failing("dataQuality"), 300, 3600),
      featureGeneration |-> deriveStageState(w.lag["featureSnapshot"], failing("featureGeneration"), 120, 1800),
      signalEngine |-> deriveStageState(w.lag["engineSignal"], failing("signalEngine"), 60, 600),
      riskEngine |-> riskStage(w), execution |-> executionStage(w), persistence |-> persistenceStage(w)]

worstStageState(st) ==
  Worst(<<"active", "idle", "empty", "unknown", "degraded", "failing">>, {"active"} \cup {st[k] : k \in DOMAIN st})

\* Every query but the SELECT 1 of the persistence stage rejects the whole.
getOpsPipeline(w) == IF w.db = "down" THEN Rejected ELSE <<worstStageState(stages(w))>>

-----------------------------------------------------------------------------
(* evaluateAlertRules *)

\* Mutant: the feature rule waits longer than its stale band.
STALE_RULES_Late ==
  [marketTick |-> 60, featureSnapshot |-> 300, engineSignal |-> 120, execution |-> 300]

STALE_RULES == [marketTick |-> 60, featureSnapshot |-> 60, engineSignal |-> 120, execution |-> 300]

\* Rules are named by the component or the stream they watch.
staleRule(flow, lag, s) == flow[s] # "unknown" /\ (lag[s] = Never \/ lag[s] > STALE_RULES[s])

\* c: component statuses, lag and flow: the data flow snapshot.
fires(c, lag, flow, rule) ==
  IF rule \in DOMAIN STALE_RULES THEN staleRule(flow, lag, rule) ELSE c[rule] = "failing"

evaluateAlertRules(c, lag, flow) ==
  LET push(rule) == IF fires(c, lag, flow, rule) THEN <<rule>> ELSE <<>>
  IN push("database") \o push("redis") \o push("quant")
     \o push("marketTick") \o push("featureSnapshot") \o push("engineSignal") \o push("execution")

severity(rule) == IF rule \in DOMAIN STALE_RULES THEN "WARNING" ELSE "CRITICAL"

Members(s) == {s[k] : k \in DOMAIN s}

\* The rules of one world: they are evaluated over the data flow snapshot, so
\* that without a database none is, the one that watches it included.
firingIn(w) ==
  LET flow == getDataFlowMonitor(w) IN
  IF flow = Rejected THEN Rejected ELSE <<Members(evaluateAlertRules(components(w), w.lag, flow[1]))>>
=============================================================================
