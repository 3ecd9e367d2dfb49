---------------------------- MODULE MarketAdapter ----------------------------
(***************************************************************************)
(* The broker-backed execution path of the worker: runExecutionStage hands *)
(* one risk-approved intent at a time to MarketExecutionAdapter.execute    *)
(* (market/stage.ts), which orders the difference to the target position   *)
(* from a broker, reconciles the fills with its portfolio mirror, journals *)
(* them and only then commits.  A restart rebuilds the state from the      *)
(* journal (market/recovery.ts).                                           *)
(*                                                                         *)
(* The real broker is the Deribit transport.  Its venue is external: an    *)
(* order request can be refused, executed, executed with the answer lost,  *)
(* lost, or delayed until after the transport gave up on it.               *)
(*                                                                         *)
(* A path that rejects the intent before it reaches the broker (no quote,  *)
(* risk limits, less than one lot) changes nothing and is no step here.    *)
(* Profit and cash are left out, nothing on this path reads them.          *)
(***************************************************************************)
EXTENDS OrderStream, JournalFile, FiniteSetsExt

CONSTANTS
  Symbols, Strategies,
  Brokers,       \* subset of {"paper", "simulated", "real"}: the broker is fixed
  Prices,        \* quotes and fill prices
  Notionals,     \* target notionals of the portfolio's proposals
  MaxPosition, MaxStrategy, MaxPortfolio,    \* RiskLimits
  Lot, MinTrade, \* the venue's contract size and minimum amount
  MaxOverfill,   \* by how much the venue may exceed an order
  Rests,         \* subset of BOOLEAN: may the venue report an order still open?
  Delays,        \* subset of BOOLEAN: may a request arrive late?
  FailedParts, TornParts,   \* what a rejected or interrupted append leaves
  MaxIntents, MaxLines, MaxVenueOrders       \* bounds

ASSUME MarketAssumption ==
  /\ IsFiniteSet(Symbols)
  /\ Brokers \subseteq {"paper", "simulated", "real"}
  /\ Prices \subseteq Nat \ {0} /\ Notionals \subseteq Nat
  /\ \A n \in Notionals, p \in Prices : n % p = 0
  /\ {MaxPosition, MaxStrategy, MaxPortfolio, MinTrade, MaxOverfill} \subseteq Nat
  /\ Lot \in Nat \ {0}
  /\ Rests \subseteq BOOLEAN /\ Delays \subseteq BOOLEAN
  /\ FailedParts \subseteq Parts \ {"line"} /\ TornParts \subseteq Parts
  /\ {MaxIntents, MaxLines, MaxVenueOrders} \subseteq Nat

VARIABLES
  pc,         \* where the process is; see Locations
  broker,
  file,       \* the market journal
  nextSeq,    \* the store's cached sequence number
  positions,  \* MarketState: net quantity and mark per symbol
  mirror,     \* the adapter's portfolio mirror
  portfolio,  \* PortfolioState of the execution stage
  intent,     \* the latest decision, numbered
  order,      \* the order being executed
  answer,     \* what the transport knows of it
  events,     \* the stream place() returned
  venue,      \* the orders the venue has executed
  late,       \* requests still in the network after the transport gave up
  mine,       \* history: the venue order of the running request, 0 for none
  committed,  \* history: the executions committed, as recovered or appended
  lost,       \* history: committed executions a restart did not recover
  suspect     \* history: something happened that may part venue and process

adapter  == <<positions, mirror, portfolio>>
journal  == <<file, nextSeq>>
network  == <<venue, late>>
attempt  == <<order, answer, events, mine>>
history  == <<committed, lost>>
vars == <<pc, broker, journal, adapter, intent, attempt, network, history, suspect>>

\* "placing", "lookup" and "trades" are the transport's calls to the venue, "append"
\* is the journal write.
Locations == {"down", "unarmed", "idle", "placing", "lookup", "trades", "answered",
              "placed", "append"}

-----------------------------------------------------------------------------
Magnitude(n) == IF n < 0 THEN -n ELSE n

flatPosition == [qty |-> 0, mark |-> 0]
NoExposure   == [side |-> "FLAT", notional |-> 0, strategy |-> "none"]
emptyMarketState    == [s \in Symbols |-> flatPosition]
emptyPortfolioState == [s \in Symbols |-> NoExposure]

positionSide(p) ==
  IF p.qty > 0 THEN "LONG" ELSE IF p.qty < 0 THEN "SHORT" ELSE "FLAT"
positionNotional(p) == Magnitude(p.qty) * p.mark

\* applyFill: the fill moves the net quantity and its price becomes the mark.
applyFill(p, side, fill) ==
  [qty |-> IF side = "BUY" THEN p.qty + fill.qty ELSE p.qty - fill.qty,
   mark |-> fill.price]

applyFills(ps, symbol, side, fills) ==
  [ps EXCEPT ![symbol] = FoldLeft(LAMBDA p, f : applyFill(p, side, f), @, fills)]

\* applyResult: a FILLED result replaces the symbol's exposure.
applyResult(state, r) ==
  [state EXCEPT ![r.symbol] =
     [side |-> r.side, notional |-> r.notional, strategy |-> r.strategy]]

\* The result execute() reports for a net position; a flat one keeps the side the
\* intent asked for.
ResultFor(p) ==
  [symbol   |-> intent.symbol,
   side     |-> IF positionSide(p) = "FLAT" THEN intent.side ELSE positionSide(p),
   notional |-> positionNotional(p),
   strategy |-> intent.strategy]

\* reconcile: notional and side agree for every symbol.
reconcile(ps, state) ==
  \A s \in Symbols :
    /\ positionNotional(ps[s]) = state[s].notional
    /\ state[s].notional # 0 => positionSide(ps[s]) = state[s].side

-----------------------------------------------------------------------------
\* deriveAggregates: gross exposure of the portfolio and of one strategy.
grossExposure(state) == MapThenSumSet(LAMBDA s : state[s].notional, Symbols)
byStrategy(state, strategy) ==
  MapThenSumSet(LAMBDA s : state[s].notional,
                {s \in Symbols : state[s].strategy = strategy})

\* Mutant: the symbol's prior exposure is taken off whichever bucket it moves to.
projectExposure_AnyBucket(state, i) ==
  [gross    |-> grossExposure(state) - state[i.symbol].notional + i.notional,
   strategy |-> byStrategy(state, i.strategy) - state[i.symbol].notional
                + i.notional]

\* projectExposure: the target replaces the symbol's exposure; its prior notional
\* leaves the strategy's bucket only if it was in it.
projectExposure(state, i) ==
  [gross    |-> grossExposure(state) - state[i.symbol].notional + i.notional,
   strategy |-> byStrategy(state, i.strategy) + i.notional
                - (IF state[i.symbol].strategy = i.strategy
                   THEN state[i.symbol].notional ELSE 0)]

\* evaluateRisk, with the kill switch the worker never engages.
evaluateRisk(state, i) ==
  /\ i.notional > 0
  /\ i.notional <= MaxPosition
  /\ projectExposure(state, i).strategy <= MaxStrategy
  /\ projectExposure(state, i).gross <= MaxPortfolio

-----------------------------------------------------------------------------
\* The target in units at this price.
targetQty(i, price) ==
  IF i.side = "LONG" THEN i.notional \div price ELSE -(i.notional \div price)

delta(price) == targetQty(intent, price) - positions[intent.symbol].qty

\* Mutants: the quantity keeps its sign; the order takes the intent's side.
deriveOrder_Signed(price) ==
  [intent |-> intent.no, symbol |-> intent.symbol,
   side  |-> IF delta(price) >= 0 THEN "BUY" ELSE "SELL",
   qty   |-> delta(price),
   price |-> price]

deriveOrder_IntentSide(price) ==
  [intent |-> intent.no, symbol |-> intent.symbol,
   side  |-> IF intent.side = "LONG" THEN "BUY" ELSE "SELL",
   qty   |-> Magnitude(delta(price)),
   price |-> price]

\* The order that moves the net position to the target.  Its id, and its label at
\* the venue, is the hash of everything in it.
deriveOrder(price) ==
  [intent |-> intent.no, symbol |-> intent.symbol,
   side  |-> IF delta(price) >= 0 THEN "BUY" ELSE "SELL",
   qty   |-> Magnitude(delta(price)),
   price |-> price]

NoIntent == [no |-> 0, symbol |-> "none", side |-> "LONG", notional |-> 0,
             strategy |-> "none"]
NoOrder  == [intent |-> 0, symbol |-> "none", side |-> "BUY", qty |-> 0, price |-> 0]
NoAnswer == [state |-> "none", trades |-> <<>>, at |-> 0]

Init ==
  /\ pc = "down"
  /\ broker \in Brokers
  /\ file = <<>> /\ nextSeq = 0
  /\ positions = emptyMarketState
  /\ mirror = emptyPortfolioState /\ portfolio = emptyPortfolioState
  /\ intent = NoIntent /\ order = NoOrder /\ answer = NoAnswer /\ events = <<>>
  /\ venue = <<>> /\ late = {} /\ mine = 0
  /\ committed = <<>> /\ lost = 0 /\ suspect = FALSE

-----------------------------------------------------------------------------
reconstructMarketState(records) ==
  FoldLeft(LAMBDA ps, r : applyFills(ps, r.symbol, r.side, fillsFrom(r.events)),
           emptyMarketState, records)

reconstructPortfolioState(records) ==
  FoldLeft(LAMBDA state, r : applyResult(state, r.result),
           emptyPortfolioState, records)

\* The last record of a symbol holds the position the fills must add up to.
verifyAgainstSnapshots(records, ps) ==
  \A i \in DOMAIN records :
    (\A j \in DOMAIN records : j > i => records[j].symbol # records[i].symbol)
      => ps[records[i].symbol] = records[i].position

recoverable ==
  /\ readAllSucceeds(file)
  /\ verifyAgainstSnapshots(readAll(file), reconstructMarketState(readAll(file)))
  /\ reconcile(reconstructMarketState(readAll(file)),
               reconstructPortfolioState(readAll(file)))

\* Mutant: the stage does not get the recovered portfolio.
Recover_StageEmpty ==
  /\ pc = "down" /\ recoverable
  /\ pc' = "idle"
  /\ nextSeq' = Len(readAll(file))
  /\ positions' = reconstructMarketState(readAll(file))
  /\ mirror' = reconstructPortfolioState(readAll(file))
  /\ portfolio' = emptyPortfolioState
  /\ committed' = readAll(file)
  /\ lost' = lost + Max({0, Len(committed) - Len(readAll(file))})
  /\ suspect' = (suspect \/ Len(readAll(file)) < Len(committed))
  /\ UNCHANGED <<broker, file, intent, attempt, network>>

\* buildExecution with a readable, consistent journal: adapter and stage start from
\* the recovered state.
Recover ==
  /\ pc = "down" /\ recoverable
  /\ pc' = "idle"
  /\ nextSeq' = Len(readAll(file))
  /\ positions' = reconstructMarketState(readAll(file))
  /\ mirror' = reconstructPortfolioState(readAll(file))
  /\ portfolio' = reconstructPortfolioState(readAll(file))
  /\ committed' = readAll(file)
  /\ lost' = lost + Max({0, Len(committed) - Len(readAll(file))})
  /\ suspect' = (suspect \/ Len(readAll(file)) < Len(committed))
  /\ UNCHANGED <<broker, file, intent, attempt, network>>

\* A journal that cannot be read or does not add up leaves execution unarmed.
RecoverUnarmed ==
  /\ pc = "down" /\ ~recoverable
  /\ pc' = "unarmed"
  /\ UNCHANGED <<broker, journal, adapter, intent, attempt, network, history,
                 suspect>>

\* The pipeline decides anew; until then every tick repeats the latest intent.
Decide ==
  /\ pc = "idle" /\ intent.no < MaxIntents
  /\ \E s \in Symbols, side \in {"LONG", "SHORT"}, n \in Notionals,
        strategy \in Strategies :
       intent' = [no |-> intent.no + 1, symbol |-> s, side |-> side, notional |-> n,
                  strategy |-> strategy]
  /\ UNCHANGED <<pc, broker, journal, adapter, attempt, network, history, suspect>>

\* The stage's gate, then the quote and the delta of execute().
Approved == pc = "idle" /\ intent.no > 0 /\ evaluateRisk(portfolio, intent)
Room     == nextSeq < MaxLines /\ Len(file) < MaxLines /\ Len(venue) < MaxVenueOrders

\* Already at the target: FILLED with the position as it is.  Nothing is journaled.
NoOp(price) ==
  /\ Approved /\ delta(price) = 0
  /\ LET r == ResultFor(positions[intent.symbol])
     IN mirror' = applyResult(mirror, r) /\ portfolio' = applyResult(portfolio, r)
  /\ UNCHANGED <<pc, broker, journal, positions, intent, attempt, network,
                 history, suspect>>

PlacePaper(price) ==
  /\ Approved /\ Room /\ delta(price) # 0 /\ broker = "paper"
  /\ pc' = "placed"
  /\ order' = deriveOrder(price)
  /\ events' = PaperEvents(deriveOrder(price))
  /\ UNCHANGED <<broker, journal, adapter, intent, answer, mine, network, history,
                 suspect>>

PlaceSimulated(price) ==
  /\ Approved /\ Room /\ delta(price) # 0 /\ broker = "simulated"
  /\ pc' = "placed"
  /\ order' = deriveOrder(price)
  /\ events' \in SimulatedStreams(deriveOrder(price), Prices)
  /\ UNCHANGED <<broker, journal, adapter, intent, answer, mine, network, history,
                 suspect>>

\* The transport sends the order, rounded down to lots, if the venue would take it.
PlaceReal(price) ==
  /\ Approved /\ Room /\ delta(price) # 0 /\ broker = "real"
  /\ LET amount == venueAmount(deriveOrder(price), Lot)
     IN amount > 0 /\ amount >= MinTrade
  /\ pc' = "placing"
  /\ order' = deriveOrder(price)
  /\ UNCHANGED <<broker, journal, adapter, intent, answer, events, mine, network,
                 history, suspect>>

-----------------------------------------------------------------------------
\* What the venue may do with a request: reject it, or execute part or all of it
\* in at most two trades.
Executions(o) ==
  LET amount == venueAmount(o, Lot)
      top == amount + MaxOverfill
      trades(n) == [qty : 1 .. n, price : Prices]
      fills == {<<>>} \cup {<<t>> : t \in trades(top)}
               \cup UNION {{<<t, u>> : u \in trades(top - t.qty)} : t \in trades(top)}
  IN {[order |-> o, state |-> "rejected", trades |-> <<>>]}
     \cup [order : {o}, state : {"done"}, trades : fills]
     \cup {x \in [order : {o}, state : {"open"}, trades : fills] :
             TRUE \in Rests /\ TotalQty(x.trades) < amount}

AnswerOf(x, i) == [state |-> x.state, trades |-> x.trades, at |-> i]

\* execute() returns REJECTED and leaves its state alone.
Reject ==
  /\ pc' = "idle"
  /\ order' = NoOrder /\ answer' = NoAnswer /\ events' = <<>> /\ mine' = 0

\* private/buy or private/sell returns the order, or an error envelope.
VenueAnswers ==
  /\ pc = "placing"
  /\ \E x \in Executions(order) :
       /\ venue' = Append(venue, x)
       /\ answer' = AnswerOf(x, Len(venue) + 1)
  /\ mine' = Len(venue) + 1
  /\ pc' = "answered"
  /\ UNCHANGED <<broker, journal, adapter, intent, order, events, late, history,
                 suspect>>

VenueRefuses ==
  /\ pc = "placing"
  /\ Reject
  /\ UNCHANGED <<broker, journal, adapter, intent, network, history, suspect>>

\* The call fails without an answer (timeout, reset, unreadable body): the request
\* was executed, was lost, or is still on its way.
AmbiguousExecuted ==
  /\ pc = "placing"
  /\ \E x \in Executions(order) : venue' = Append(venue, x)
  /\ mine' = Len(venue) + 1
  /\ pc' = "lookup"
  /\ UNCHANGED <<broker, journal, adapter, intent, order, answer, events, late,
                 history, suspect>>

AmbiguousLost ==
  /\ pc = "placing"
  /\ pc' = "lookup"
  /\ UNCHANGED <<broker, journal, adapter, intent, attempt, network, history,
                 suspect>>

AmbiguousDelayed ==
  /\ pc = "placing" /\ TRUE \in Delays /\ late = {}
  /\ pc' = "lookup"
  /\ late' = {order}
  /\ UNCHANGED <<broker, journal, adapter, intent, attempt, venue, history, suspect>>

\* A delayed request arrives.  Only a lookup of the same order that finds no other
\* one can still report it.
LateArrives ==
  /\ Len(venue) < MaxVenueOrders
  /\ \E o \in late :
       /\ \E x \in Executions(o) : venue' = Append(venue, x)
       /\ late' = late \ {o}
       /\ LET awaited == /\ pc = "lookup" /\ order = o /\ mine = 0
                         /\ \A i \in DOMAIN venue : venue[i].order # o
          IN /\ mine' = IF awaited THEN Len(venue) + 1 ELSE mine
             /\ suspect' = (suspect \/ ~awaited)
  /\ UNCHANGED <<pc, broker, journal, adapter, intent, order, answer, events,
                 history>>

\* An order that rests at the venue goes on trading.
VenueFillsOpen ==
  /\ \E i \in DOMAIN venue : \E p \in Prices :
       /\ venue[i].state = "open" /\ Len(venue[i].trades) < 2
       /\ LET full == TotalQty(venue[i].trades) + 1 = venueAmount(venue[i].order, Lot)
          IN venue' = [venue EXCEPT ![i].trades = Append(@, [qty |-> 1, price |-> p]),
                                    ![i].state = IF full THEN "done" ELSE "open"]
       /\ suspect' = (suspect \/ ~(pc \in {"lookup", "trades"} /\ mine = i))
  /\ UNCHANGED <<pc, broker, journal, adapter, intent, attempt, late, history>>

\* Mutant: an ambiguous failure rejects at once.
LookupEmpty_Always ==
  /\ pc = "lookup"
  /\ Reject
  /\ UNCHANGED <<broker, journal, adapter, intent, network, history, suspect>>

\* recoverByLabel asks for the order under the label, then for its trades: there is
\* none, the state of one that carries it is read, or one of the two calls fails,
\* logged as UNKNOWN for manual reconciliation.
LookupEmpty ==
  /\ pc = "lookup" /\ \A i \in DOMAIN venue : venue[i].order # order
  /\ Reject
  /\ UNCHANGED <<broker, journal, adapter, intent, network, history, suspect>>

LookupFinds ==
  /\ pc = "lookup"
  /\ \E i \in DOMAIN venue :
       /\ venue[i].order = order
       /\ answer' = [state |-> venue[i].state, trades |-> <<>>, at |-> i]
       /\ suspect' = (suspect \/ i # mine)
  /\ pc' = "trades"
  /\ UNCHANGED <<broker, journal, adapter, intent, order, events, mine, network,
                 history>>

\* The trades are read after the state and may have grown since.
LookupTrades ==
  /\ pc = "trades"
  /\ answer' = [answer EXCEPT !.trades = venue[answer.at].trades]
  /\ pc' = "answered"
  /\ UNCHANGED <<broker, journal, adapter, intent, order, events, mine, network,
                 history, suspect>>

\* parseTrades: a result that is no list counts as no trades.
LookupUnread ==
  /\ pc = "trades"
  /\ pc' = "answered"
  /\ suspect' = (suspect \/ venue[answer.at].trades # <<>>)
  /\ UNCHANGED <<broker, journal, adapter, intent, attempt, network, history>>

LookupFails ==
  /\ pc \in {"lookup", "trades"}
  /\ Reject
  /\ suspect' = TRUE
  /\ UNCHANGED <<broker, journal, adapter, intent, network, history>>

\* An order reported open is cancelled before its trades are used; one that has
\* filled since cannot be.
CancelOpen ==
  /\ pc = "answered" /\ answer.state = "open" /\ venue[answer.at].state = "open"
  /\ venue' = [venue EXCEPT ![answer.at].state = "done"]
  /\ answer' = [answer EXCEPT !.state = "done"]
  /\ UNCHANGED <<pc, broker, journal, adapter, intent, order, events, mine, late,
                 history, suspect>>

CancelFails ==
  /\ pc = "answered" /\ answer.state = "open"
  /\ Reject
  /\ suspect' = TRUE
  /\ UNCHANGED <<broker, journal, adapter, intent, network, history>>

PlaceReturns ==
  /\ pc = "answered" /\ answer.state # "open" /\ ~Overfilled(order, answer.trades)
  /\ pc' = "placed"
  /\ events' = buildEvents(order, answer)
  /\ UNCHANGED <<broker, journal, adapter, intent, order, answer, mine, network,
                 history, suspect>>

\* Overfilled: place() throws for manual reconciliation.
PlaceThrows ==
  /\ pc = "answered" /\ answer.state # "open" /\ Overfilled(order, answer.trades)
  /\ Reject
  /\ suspect' = TRUE
  /\ UNCHANGED <<broker, journal, adapter, intent, network, history>>

-----------------------------------------------------------------------------
candidate == applyFills(positions, order.symbol, order.side, fillsFrom(events))
result    == ResultFor(candidate[order.symbol])

\* reduceOrder, the candidate state and reconcile: the fills are journaled next, or
\* the intent is rejected.
Settle ==
  /\ pc = "placed"
  /\ IF /\ reduceOrder(order.qty, events).sound
        /\ fillsFrom(events) # <<>>
        /\ reconcile(candidate, applyResult(mirror, result))
     THEN pc' = "append" /\ UNCHANGED attempt
     ELSE Reject
  /\ UNCHANGED <<broker, journal, adapter, intent, network, history, suspect>>

NextRecord ==
  [seq |-> nextSeq, symbol |-> order.symbol, side |-> order.side, events |-> events,
   result |-> result, position |-> candidate[order.symbol]]

\* Journal, then commit; the stage folds the returned result into its own state.
AppendCommits ==
  /\ pc = "append"
  /\ file' = appendFile(file, NextRecord, "line")
  /\ nextSeq' = nextSeq + 1
  /\ positions' = candidate
  /\ mirror' = applyResult(mirror, result)
  /\ portfolio' = applyResult(portfolio, result)
  /\ committed' = Append(committed, NextRecord)
  /\ Reject
  /\ UNCHANGED <<broker, intent, network, lost, suspect>>

\* Mutant: a fill that could not be journaled is committed all the same.
AppendRejected_Commits ==
  /\ pc = "append"
  /\ \E part \in FailedParts : file' = appendFile(file, NextRecord, part)
  /\ positions' = candidate
  /\ mirror' = applyResult(mirror, result)
  /\ portfolio' = applyResult(portfolio, result)
  /\ committed' = Append(committed, NextRecord)
  /\ nextSeq' = nextSeq + 1
  /\ Reject
  /\ UNCHANGED <<broker, intent, network, lost, suspect>>

\* The write fails: REJECTED although the broker has filled the order.
AppendRejected ==
  /\ pc = "append"
  /\ \E part \in FailedParts : file' = appendFile(file, NextRecord, part)
  /\ Reject
  /\ suspect' = TRUE
  /\ UNCHANGED <<broker, nextSeq, adapter, intent, network, history>>

\* The journal would return the record being appended.
Written == readAllSucceeds(file') /\ Len(readAll(file')) = nextSeq + 1

\* The process dies; a request it has sent may still arrive.
Crash ==
  /\ pc # "down"
  /\ \/ UNCHANGED file
     \/ /\ pc = "append"
        /\ \E part \in TornParts : file' = appendFile(file, NextRecord, part)
  /\ \/ UNCHANGED late
     \/ pc = "placing" /\ TRUE \in Delays /\ late = {} /\ late' = {order}
  /\ pc' = "down"
  /\ nextSeq' = 0
  /\ positions' = emptyMarketState
  /\ mirror' = emptyPortfolioState /\ portfolio' = emptyPortfolioState
  /\ order' = NoOrder /\ answer' = NoAnswer /\ events' = <<>> /\ mine' = 0
  /\ suspect' = \/ suspect
                \/ pc \notin {"idle", "unarmed"} /\ ~(pc = "append" /\ Written)
  /\ UNCHANGED <<broker, intent, venue, history>>

Next ==
  \/ Recover \/ RecoverUnarmed \/ Decide
  \/ \E price \in Prices :
       NoOp(price) \/ PlacePaper(price) \/ PlaceSimulated(price) \/ PlaceReal(price)
  \/ VenueAnswers \/ VenueRefuses
  \/ AmbiguousExecuted \/ AmbiguousLost \/ AmbiguousDelayed
  \/ LateArrives \/ VenueFillsOpen
  \/ LookupEmpty \/ LookupFinds \/ LookupTrades \/ LookupUnread \/ LookupFails
  \/ CancelOpen \/ CancelFails \/ PlaceReturns \/ PlaceThrows
  \/ Settle \/ AppendCommits \/ AppendRejected
  \/ Crash

Spec == Init /\ [][Next]_vars

-----------------------------------------------------------------------------
Position == [qty : Int, mark : Nat]
Exposure == [side : {"LONG", "SHORT", "FLAT"}, notional : Nat,
             strategy : Strategies \cup {"none"}]
Intents  == [no : 1 .. MaxIntents, symbol : Symbols, side : {"LONG", "SHORT"},
             notional : Notionals, strategy : Strategies]
Order    == [intent : 1 .. MaxIntents, symbol : Symbols, side : Sides,
             qty : Nat \ {0}, price : Prices]

TypeOK ==
  /\ pc \in Locations
  /\ broker \in Brokers
  /\ nextSeq \in Nat /\ lost \in Nat
  /\ positions \in [Symbols -> Position]
  /\ mirror \in [Symbols -> Exposure] /\ portfolio \in [Symbols -> Exposure]
  /\ intent \in Intents \cup {NoIntent}
  /\ order \in Order \cup {NoOrder}
  /\ late \in SUBSET Order
  /\ mine \in 0 .. Len(venue)
  /\ suspect \in BOOLEAN

\* The broker-side positions, the adapter's mirror and the portfolio state of the
\* execution stage agree on the exposure of every symbol whenever execution is
\* armed, also after a restart (reconcile: "the two always agree by construction").
MirrorReconciles ==
  pc \notin {"down", "unarmed"} => reconcile(positions, mirror) /\ portfolio = mirror

\* No stream a broker returns is refused by the order state machine and no fill by
\* the reconciliation ("a failure here is a genuine integrity breach").
SettleNeverBreaks ==
  pc = "placed" =>
    /\ reduceOrder(order.qty, events).sound
    /\ fillsFrom(events) # <<>> => reconcile(candidate, applyResult(mirror, result))

Signed(o, trades) == IF o.side = "BUY" THEN TotalQty(trades) ELSE -TotalQty(trades)

\* The net quantity the venue holds for the account.
VenueQty(s) ==
  MapThenSumSet(LAMBDA i : Signed(venue[i].order, venue[i].trades),
                {i \in DOMAIN venue : venue[i].order.symbol = s})

\* The adapter's positions are the venue's, through every ambiguous failure the
\* label lookup resolves, every refusal, partial fill, cancelled order and clean
\* restart.  The actions that set `suspect` are the complete list of exceptions:
\* a second failed call, a request that arrives late, an order found under the
\* label of another, a list of trades that cannot be read, a fill that races a cancel
\* or a cancel that fails, an overfill,
\* a failed journal write, a crash in the middle of an execution, a record lost to
\* a torn line.
VenueAgrees ==
  broker = "real" /\ pc = "idle" /\ ~suspect =>
    \A s \in Symbols : positions[s].qty = VenueQty(s)

\* However appends are torn, the journal returns the committed executions but for
\* the last ones, or the committed ones and the one being written.  At most two
\* are lost over all restarts: the record before a missing newline and the one
\* glued to it.  After that the journal is unreadable and execution stays unarmed.
LosesAtMostTwo ==
  readAllSucceeds(file) =>
    LET records == readAll(file)
    IN \/ /\ IsPrefix(records, committed)
          /\ lost + Len(committed) - Len(records) <= 2
       \/ /\ IsPrefix(committed, records)
          /\ Len(records) = Len(committed) + 1 /\ lost = 0

Commits == pc = "append" /\ committed' # committed

Between(a, x, b) == (a <= x /\ x <= b) \/ (b <= x /\ x <= a)

\* A commit moves the position towards the risk-approved target and never past it
\* ("never ask the venue for more than the risk-approved quantity").
NeverOvershoots ==
  [][Commits => Between(positions[order.symbol].qty, positions'[order.symbol].qty,
                        targetQty(intent, order.price))]_vars

\* An order that fills in full at the quoted price leaves the portfolio within the
\* limits the gate checked beforehand, whichever strategy held the symbol.
FullFillWithinLimits ==
  [][Commits /\ reduceOrder(order.qty, events).state = "FILLED"
             /\ positions'[order.symbol].mark = order.price
     => /\ grossExposure(portfolio') <= MaxPortfolio
        /\ \A strategy \in Strategies :
             byStrategy(portfolio', strategy) <=
               Max({MaxStrategy, byStrategy(portfolio, strategy)})]_vars

\* The three books of an armed process agree, after every restart too, and nothing a
\* broker answers breaks them.
BooksReconcile == TypeOK /\ MirrorReconciles /\ SettleNeverBreaks

\* What is committed stays within what was approved: never past the target, and after
\* a full fill within the limits the gate checked.
WithinApproval == NeverOvershoots /\ FullFillWithinLimits

=============================================================================
