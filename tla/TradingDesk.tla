----------------------------- MODULE TradingDesk -----------------------------
(***************************************************************************)
(* One GET of the decisions, the plans, the board and the book (web lib/   *)
(* trading-decision.ts, trade-plan.ts, portfolio.ts) while the worker, the *)
(* operator and the feed go on writing what it reads.                      *)
(*                                                                         *)
(* The reads of one Promise.all overlap: each returns the value its row    *)
(* had at some instant between the request's start and the moment all are  *)
(* in, or fails on its own.  gateLog[g]: what gate g has been in that time.  *)
(***************************************************************************)
EXTENDS PortfolioIntelligence

CONSTANTS Symbols,      \* numbers: they are ordered
          ScanLimit,    \* SCAN_LIMIT, the signals looked at
          MaxChanges,   \* bound on the writes of the others
          MaxClock

ASSUME DeskAssumption == Symbols \subseteq Nat /\ ScanLimit \in Nat

VARIABLES gates,      \* kill, state, risk (risk.disabled active), infra, mode
          signals,    \* EngineSignal with its snapshot, in the order of creation
          marks,      \* per symbol the newest book, tick, candle and liquidity rows
          limit,      \* the MAX_RISK_PER_TRADE row, if any
          snaps,      \* per symbol and timeframe the snapshots in the order of their ts
          deskClock, changes,
          desk,       \* the request
          gateLog        \* history: the values of the gates since it began

deskVars == <<gates, signals, marks, limit, snaps, deskClock, changes, desk, gateLog>>
worldVars == <<gates, signals, marks, limit, snaps, deskClock, changes>>

SE == INSTANCE SignalEngine

\* An admitted signal carries what the sealed rule decided on its snapshot.
SealedFeatures(f) ==
  [ema20 |-> f.ema_20, ema50 |-> f.ema_50, ema200 |-> f.ema_200, rsi |-> f.rsi_14, vol |-> f.realized_vol_30]
Sealed(f, params) == SE!decideSignal(SealedFeatures(f), SE!resolveSignalParams(params))

Row(id, symbol, f, params, created, ts, dq) ==
  [id |-> id, symbol |-> symbol, features |-> f, params |-> params, decision |-> Sealed(f, params).decision,
   confidence |-> Sealed(f, params).confidence, createdAt |-> created, featureTs |-> ts,
   timeframe |-> "H1", dq |-> dq]

Nullable(S) == {m \in Seq(S) : Len(m) <= 1}

\* Averages of prices are positive.
FeatureKeys == RuleKeys \union {"atr_14", "donchian_upper_20", "donchian_lower_20"}
FeatureVectors ==
  {f \in UNION {[K -> Int] : K \in SUBSET FeatureKeys} : \A k \in Stack \intersect DOMAIN f : f[k] > 0}

SignalRows ==
  {r \in [id : Nat, symbol : Symbols, features : FeatureVectors,
          params : UNION {[K -> Int] : K \in SUBSET DOMAIN DefaultParams},
          decision : {"LONG", "SHORT", "FLAT"}, confidence : Int, createdAt : Int, featureTs : Int,
          timeframe : DOMAIN BarSeconds, dq : Int] :
     /\ RuleKeys \subseteq DOMAIN r.features
     /\ r.decision = Sealed(r.features, r.params).decision
     /\ r.confidence = Sealed(r.features, r.params).confidence}

MarkRows ==
  [book : Nullable([mark : Nullable(Int), bid : Nullable(Int), ask : Nullable(Int), size : Nullable(Int),
                    spread : Nullable(Int), ts : Int]),
   tick : Nullable([price : Int, ts : Int]), candle : Nullable([close : Int, ts : Int]),
   liq : Nullable([spread : Nullable(Int), depth : Nullable(Int), ts : Int])]

SnapRows == UNION {[T -> Seq([features : FeatureVectors, dq : Int, ts : Int])] : T \in SUBSET DOMAIN BarSeconds}

NoRequest == [pc |-> "idle"]
GateNames == {"kill", "state", "risk", "infra", "stream", "mode"}

\* Whatever the tables hold when the first request comes.
DeskStart ==
  /\ gates \in [kill : BOOLEAN, state : Nullable(STRING), risk : BOOLEAN, infra : BOOLEAN, mode : Nullable(STRING)]
  /\ signals \in Seq(SignalRows) /\ \A i \in DOMAIN signals : signals[i].id = i
  /\ marks \in [Symbols -> MarkRows]
  /\ limit \in Nullable([value : Int, pct : BOOLEAN])
  /\ snaps \in [Symbols -> SnapRows]
  /\ deskClock \in Int /\ changes = 0 /\ desk = NoRequest /\ gateLog = [g \in GateNames |-> {}]

-----------------------------------------------------------------------------
(* What is read. *)

StreamFresh == signals # <<>> /\ deskClock - signals[Len(signals)].createdAt <= 120
GateNow == [kill |-> gates.kill, state |-> gates.state, risk |-> gates.risk, infra |-> gates.infra,
            stream |-> StreamFresh, mode |-> gates.mode]

getKillSwitch(kill) == kill

\* No transition recorded yet reads as BOOTING.
asState(state) == IF Has(state) THEN state[1] ELSE "BOOTING"
getRuntimeStateView(state) == asState(state)

\* The live view needs every condition; the state machine's own state is one of them.
getTradingPermissionView(kill, state, risk, infra, stream) ==
  IF infra /\ stream /\ ~risk /\ ~kill /\ asState(state) = "HEALTHY" THEN "ALLOWED" ELSE "BLOCKED"

\* The limit's value is counted in thousandths of its unit.
RiskFraction ==
  IF limit = Null THEN 10
  ELSE IF limit[1].value <= 0 THEN 10
  ELSE LET v == IF limit[1].pct THEN RoundDiv(limit[1].value, 100) ELSE limit[1].value
       IN IF v > 500 THEN 500 ELSE v

buildRiskContext(mode) ==
  [equity |-> DefaultEquity, fraction |-> RiskFraction, maxNotional |-> 3 * DefaultEquity * 1000, mode |-> mode]

ControlUnknown == [permission |-> Null, state |-> Null, kill |-> FALSE]

buildControlContext(permission, state, kill) ==
  [permission |-> <<permission>>, state |-> <<asState(state)>>, kill |-> getKillSwitch(kill)]

\* Newest first, among the last ScanLimit.
latest(rows) ==
  LET scanned == {i \in DOMAIN rows : i > Len(rows) - ScanLimit}
      Newest(s) == CHOOSE i \in scanned : rows[i].symbol = s /\ \A j \in scanned : rows[j].symbol = s => j <= i
  IN {rows[Newest(s)] : s \in {rows[i].symbol : i \in scanned}}

Fresh(row, now) == Has(row) /\ now - row[1].ts <= 60
Positive(m) == Has(m) /\ m[1] > 0
Mid(book) == IF Has(book.bid) /\ Has(book.ask) THEN <<(book.bid[1] + book.ask[1]) \div 2>> ELSE Null

\* Mark, mid, tick, then the candle's close: the first that is fresh and positive.
MarkOf(m, now) ==
  IF Fresh(m.book, now) /\ Positive(m.book[1].mark) THEN m.book[1].mark
  ELSE IF Fresh(m.book, now) /\ Positive(Mid(m.book[1])) THEN Mid(m.book[1])
  ELSE IF Fresh(m.tick, now) /\ m.tick[1].price > 0 THEN <<m.tick[1].price>>
  ELSE IF Fresh(m.candle, now) /\ m.candle[1].close > 0 THEN <<m.candle[1].close>> ELSE Null

\* Depth in thousands of dollars; the top of the book where no snapshot is fresh.
LiquidityOf(m, now) ==
  LET book == m.book[1]
      ref  == IF Has(Mid(book)) THEN Mid(book) ELSE book.mark
  IN IF Fresh(m.liq, now) THEN <<[spread |-> m.liq[1].spread, depth |-> m.liq[1].depth]>>
     ELSE IF Fresh(m.book, now)
     THEN <<[spread |-> book.spread,
             depth |-> IF Has(book.size) /\ Has(ref) THEN <<RoundDiv(book.size[1] * ref[1], 1000000)>> ELSE Null]>>
     ELSE Null

getMarketView(m, now) == [price |-> MarkOf(m, now), liquidity |-> LiquidityOf(m, now)]
NoView == [price |-> Null, liquidity |-> Null]

-----------------------------------------------------------------------------
(* The others. *)

\* Every step of the others is seen by the request that is under way.
Write == /\ changes < MaxChanges
         /\ changes' = changes + 1
         /\ gateLog' = [g \in GateNames |-> gateLog[g] \union {GateNow'[g]}]
         /\ UNCHANGED <<limit, snaps, desk>>

GateMoves(g, v) ==
  /\ gates[g] # v
  /\ gates' = [gates EXCEPT ![g] = v]
  /\ UNCHANGED <<signals, marks, deskClock>>
  /\ Write

NewSignal(row) ==
  /\ row.id = Len(signals) + 1 /\ row.createdAt = deskClock
  /\ signals' = Append(signals, row)
  /\ UNCHANGED <<gates, marks, deskClock>>
  /\ Write

MarkMoves(s, m) ==
  /\ marks[s] # m
  /\ marks' = [marks EXCEPT ![s] = m]
  /\ UNCHANGED <<gates, signals, deskClock>>
  /\ Write

TimePasses ==
  /\ deskClock < MaxClock
  /\ deskClock' = deskClock + 100
  /\ UNCHANGED <<gates, signals, marks>>
  /\ Write

-----------------------------------------------------------------------------
(* The request. *)

BeginGet ==
  /\ desk.pc = "idle"
  /\ desk' = [pc |-> "contexts", now |-> deskClock]
  /\ gateLog' = [g \in GateNames |-> {GateNow[g]}]
  /\ UNCHANGED worldVars

\* A reading of the permission view: each of its queries has an instant of its own.
Permissions ==
  {getTradingPermissionView(k, s, r, i, f) :
     k \in gateLog.kill, s \in gateLog.state, r \in gateLog.risk, i \in gateLog.infra, f \in gateLog.stream}

\* The control context's two queries fail as one; a failing risk context fails the request.
Contexts ==
  {ControlUnknown}
  \union {buildControlContext(getTradingPermissionView(k, s, r, i, f), s, kill) :
            k \in gateLog.kill, s \in gateLog.state, r \in gateLog.risk, i \in gateLog.infra, f \in gateLog.stream,
            kill \in gateLog.kill}

EndContexts ==
  /\ desk.pc = "contexts"
  /\ \E mode \in gateLog.mode, control \in Contexts :
       desk' = [pc |-> "rows", now |-> desk.now, risk |-> buildRiskContext(mode), control |-> control]
  /\ UNCHANGED <<worldVars, gateLog>>

ReadRows ==
  /\ desk.pc = "rows"
  /\ desk' = [pc |-> "market", now |-> desk.now, risk |-> desk.risk, control |-> desk.control,
              rows |-> latest(signals)]
  /\ UNCHANGED <<worldVars, gateLog>>

\* A failing view of one symbol leaves that symbol without a price.
ReadMarket ==
  /\ desk.pc = "market"
  /\ \E failed \in SUBSET {r.symbol : r \in desk.rows} :
       desk' = [pc |-> "outer", now |-> desk.now,
                items |-> {LET view == IF row.symbol \in failed THEN NoView
                                       ELSE getMarketView(marks[row.symbol], desk.now)
                           IN [decision |-> buildTradingDecision(desk.now, row, view.price, view.liquidity,
                                                                 desk.risk, desk.control),
                               dq |-> row.dq] : row \in desk.rows}]
  /\ UNCHANGED <<worldVars, gateLog>>

\* The items of a view with their plans.
Planned(items, state, kill) ==
  {[decision |-> i.decision, dq |-> <<i.dq>>,
    plan |-> buildTradePlan([decision |-> i.decision, dq |-> <<i.dq>>, state |-> state, kill |-> kill])] : i \in items}

getOpportunityBoard(items) == rankOpportunities(items)

assemble(items, state, permission, kill) ==
  LET planned == Planned(items, state, kill)
  IN [pc |-> "done", items |-> planned, board |-> getOpportunityBoard(items),
      book |-> buildPortfolioState([items |-> planned, state |-> state, permission |-> permission, kill |-> kill])]

\* The plan's and the book's own reads: a failed state or permission is unknown, a
\* failed kill switch counts as engaged.
EndGet ==
  /\ desk.pc = "outer"
  /\ \E state \in {Null} \union {<<getRuntimeStateView(s)>> : s \in gateLog.state},
        permission \in {Null} \union {<<p>> : p \in Permissions},
        kill \in {TRUE} \union {getKillSwitch(k) : k \in gateLog.kill} :
       desk' = assemble(desk.items, state, permission, kill)
  /\ UNCHANGED <<worldVars, gateLog>>

\* buildRiskContext and the query for the rows have no handler: the answer is an error.
GetFails ==
  /\ desk.pc \in {"contexts", "rows"}
  /\ desk' = [pc |-> "failed"]
  /\ UNCHANGED <<worldVars, gateLog>>

GetSteps == BeginGet \/ EndContexts \/ ReadRows \/ ReadMarket \/ EndGet \/ GetFails

DeskNext ==
  \/ \E g \in {"kill", "risk", "infra"}, v \in BOOLEAN : GateMoves(g, v)
  \/ \E g \in {"state", "mode"}, v \in Nullable(STRING) : GateMoves(g, v)
  \/ \E row \in SignalRows : NewSignal(row)
  \/ \E s \in Symbols, m \in MarkRows : MarkMoves(s, m)
  \/ TimePasses \/ GetSteps

DeskSpec == DeskStart /\ [][DeskNext]_deskVars

-----------------------------------------------------------------------------
Answered == desk.pc = "done"

\* The newest of the snapshots whose report passes the quality floor, if any does.
newestAdmitted(history) ==
  LET passing == {i \in 1 .. Len(history) : history[i].dq >= MinDq}
  IN IF passing = {} THEN Null ELSE <<history[Max(passing)]>>
\* Mutant: whatever is newest, the floor not asked for.
newestAdmitted_Any(history) == IF history = <<>> THEN Null ELSE <<history[Len(history)]>>

\* Each timeframe's newest admitted snapshot, under the parameters of the newest signal.
getConsensus(symbol) ==
  LET rows == SelectSeq(signals, LAMBDA r : r.symbol = symbol)
      params == IF rows = <<>> THEN resolveSignalParams(<<>>) ELSE resolveSignalParams(rows[Len(rows)].params)
      Found(t) == newestAdmitted(snaps[symbol][t])
  IN computeConsensus({[timeframe |-> t, params |-> params,
                        features |-> IF Has(Found(t)) THEN <<Found(t)[1].features>> ELSE Null,
                        ts |-> IF Has(Found(t)) THEN <<Found(t)[1].ts>> ELSE Null]
                       : t \in DOMAIN snaps[symbol]}, deskClock)

-----------------------------------------------------------------------------
(* Properties. *)

Opens(g, v) ==
  CASE g \in {"kill", "risk"}    -> ~v
    [] g = "state"               -> v = <<"HEALTHY">>
    [] g \in {"infra", "stream"} -> v
    [] g = "mode"                -> v \notin {<<"RISK_OFF">>, <<"FROZEN">>}

\* A gate that is closed from the start of a request to its end (the kill switch, a
\* runtime that is not HEALTHY, a disabled risk engine, an unhealthy dependency, a
\* stale signal stream, a risk mode that forbids new risk) is not missed whatever the
\* timing and the failures of its reads: no decision of the answer is actionable, no
\* plan can trade, the board has no top entry and the book no open position.
ClosedGateDenies ==
  Answered /\ (\E g \in GateNames : \A v \in gateLog[g] : ~Opens(g, v)) =>
    /\ \A i \in desk.items : i.decision.overall # "ACTIONABLE" /\ ~i.plan.summary.canTrade /\ ~i.plan.summary.shouldTrade
    /\ desk.board.topLong = <<>> /\ desk.board.topShort = <<>>
    /\ desk.book.summary.open = 0

\* The plan, its checklist, its invalidation triggers and the book each decide for
\* themselves what is blocked and what is stale, and they agree: a plan that says trade
\* is an open position, an open position can be traded and is neither blocked nor stale
\* in any of the four, and a position that is shown blocked or expired is not open.
SectionsAgree ==
  Answered => \A i \in desk.items, p \in desk.book.positions : p.id = i.decision.id =>
    LET status == i.plan.execution.status
        trigger == i.plan.invalidation.state
    IN /\ i.plan.summary.shouldTrade => p.state = "OPEN"
       /\ p.state = "OPEN" => /\ i.plan.summary.canTrade
                              /\ status.control = "PASS" /\ status.risk # "FAIL" /\ status.freshness # "FAIL"
       /\ i.plan.summary.canTrade => p.state \in {"OPEN", "WAITING"}
       /\ p.state = "OPEN" =>
            \A t \in {"signal_expired", "feature_stale", "control_blocked", "risk_disabled"} : trigger[t] = "ARMED"

\* The entries of the board, and the positions of the book by state.
BoardCount(board) ==
  Len(board.topLong) + Len(board.topShort) + Len(board.watchlist) + Len(board.blocked) + Len(board.waiting)
BookCount(summary) == summary.open + summary.waiting + summary.blocked + summary.flat

\* What the groups of a grouping hold together.
TotalOf(e) == SumFunction([k \in DOMAIN e |-> e[k].notional])
GroupsHold(of, gross) ==
  /\ TotalOf(of.byState) = gross /\ TotalOf(of.byConfidence) = gross /\ TotalOf(of.byRisk) = gross
  /\ TotalOf(of.bySymbol) = gross /\ TotalOf(of.bySide) = gross /\ TotalOf(of.byRegime) = gross

\* No concentration is below that of an even spread over n symbols (but for rounding,
\* a tenth of a percent of each share) or above that of a single symbol.
SpreadHolds(conc, n, gross) ==
  conc \in Nat /\ conc <= 10000 /\ (gross > 0 => conc * n >= 10000 - 11 * n)
HeatHolds(heat, n, gross) ==
  SpreadHolds(heat.concentration, n, gross) /\ heat.score \in Nat /\ heat.score <= 10000

RiskHeld(summary) == summary.riskUsed + summary.riskRemaining >= 100 * DefaultEquity

AddsUp(items, board, book) ==
  /\ BoardCount(board) = Cardinality(items) /\ BookCount(book.summary) = Cardinality(items)
  /\ GroupsHold(book.exposure, book.summary.exposure)
  /\ HeatHolds(book.heat, Cardinality(DOMAIN book.exposure.bySymbol), book.summary.exposure)
  /\ RiskHeld(book.summary)

\* The board and the book lose no decision and count none twice: the board's buckets
\* and the book's states partition the decisions, every grouping of the exposure adds
\* up to the gross, no symbol's share exceeds the concentration's bounds, and risk used
\* and remaining make the budget unless it is overspent.
BookAddsUp == Answered => AddsUp(desk.items, desk.board, desk.book)

\* The console's mirror of the sealed rule decides what the sealed rule decides, to
\* the last digit of the confidence, wherever the long average and the volatility limit
\* are positive.
RowsMirrored ==
  \A i \in DOMAIN signals :
    LET f == signals[i].features
        p == resolveSignalParams(signals[i].params)
        rule == applyRule(f, p)[1]
        sealed == Sealed(f, signals[i].params)
    IN f.ema_200 > 0 /\ p.maxRealizedVol > 0 =>
         /\ rule.decision = sealed.decision /\ rule.side = sealed.side
         /\ RoundDiv(10000 * rule.confidence[1], rule.confidence[2]) = sealed.confidence
\* Every timeframe of the consensus shows what the engine would decide on a snapshot
\* above the quality floor that no later one above it replaces, and the overall
\* direction is never outvoted.
VotesMirrored ==
  \A symbol \in Symbols :
    LET c == getConsensus(symbol)
        params == SelectSeq(signals, LAMBDA r : r.symbol = symbol)
        Votes(d) == Cardinality({t \in c.timeframes : t.direction = <<d>>})
    IN /\ Has(c.overall) => \A d \in {"LONG", "SHORT", "FLAT"} : Votes(d) <= Votes(c.overall[1])
       /\ \A t \in c.timeframes : t.available =>
            LET history == snaps[symbol][t.timeframe]
            IN \E i \in 1 .. Len(history) :
                 /\ history[i].dq >= MinDq /\ \A j \in i + 1 .. Len(history) : history[j].dq < MinDq
                 /\ t.direction[1] = Sealed(history[i].features,
                                           IF params = <<>> THEN <<>> ELSE params[Len(params)].params).decision
MirrorsSealedRule == RowsMirrored /\ VotesMirrored

\* The reader is told why: the factors listed for a signal make the decision the
\* engine took.  Both the trend and the momentum point its way and the volatility
\* filter is silent exactly when the signal has a direction (a short one, as long as
\* the two RSI bands of its parameters do not overlap: in the overlap the momentum is
\* listed as confirming a long), and the two components of its confidence add up to it
\* within rounding.
ExplanationMatches ==
  Answered => \A i \in desk.items :
    LET e == i.decision.explain
        p == resolveSignalParams(signals[i.decision.id].params)
        Says(kind, label) == [of |-> kind, label |-> label] \in e.factors
        calm == ~Says("risk", "Volatility filter active")
    IN /\ i.decision.direction = "LONG" <=>
            Says("bullish", "Uptrend structure") /\ Says("bullish", "Momentum confirms long") /\ calm
       /\ p.rsiShortMax < p.rsiLongMin =>
            (i.decision.direction = "SHORT" <=>
               Says("bearish", "Downtrend structure") /\ Says("bearish", "Momentum confirms short") /\ calm)
       /\ Has(e.breakdown.trend) =>
            Distance(e.breakdown.trend[1] + e.breakdown.momentum[1], e.breakdown.total) <= 1

\* The loss a plan shows is the configured fraction of the equity at the stop it
\* shows: the stop is on the losing side and the targets in order on the winning side,
\* size times distance is the risk amount, the size is within the buying power once
\* approved, and the book's risk used is one risk amount per sized open position.
RiskAsConfigured ==
  Answered =>
    /\ \A i \in desk.items :
         LET l == i.decision.levels
             sign == IF i.decision.direction = "LONG" THEN 1 ELSE -1
         IN /\ Has(l.stop) => /\ sign * l.stop[1] <= sign * l.entry[1] /\ sign * l.entry[1] <= sign * l.tp1[1]
                              /\ sign * l.tp1[1] <= sign * l.tp2[1] /\ sign * l.tp2[1] <= sign * l.tp3[1]
            /\ Has(i.decision.sizing.size) =>
                 i.plan.risk.maximumLoss = <<DefaultEquity * RiskFraction>>
            /\ i.decision.risk = "APPROVED" => i.decision.sizing.notional[1] <= 3000 * DefaultEquity
    /\ desk.book.summary.riskUsed =
         DefaultEquity * RiskFraction * Cardinality({p \in desk.book.positions : p.state = "OPEN" /\ Has(p.notional)})

\* An answer of the desk, put together from reads at different moments, some of which
\* failed, shows no trade past a closed gate, and its sections agree on a symbol; its own
\* arithmetic shows what the engines decided: their direction and confidence, their
\* reasons, and the risk they were configured to take.
DeskHonest ==
  /\ ClosedGateDenies /\ SectionsAgree /\ BookAddsUp
  /\ MirrorsSealedRule /\ ExplanationMatches /\ RiskAsConfigured

=============================================================================
