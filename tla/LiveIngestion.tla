---------------------------- MODULE LiveIngestion ----------------------------
(* runLiveIngestion of services/ingestion/src/pipeline/live.ts on the socket *)
(* of a connector (streamLive of connectors/deribit.ts and binance.ts).      *)
(* Everything runs on one event loop: a step goes from one await to the      *)
(* next, and any other handler may run in between.  Trades, quotes, funding  *)
(* updates and versions of a bar are numbered in the order they arrive.      *)
EXTENDS Integers, Sequences, FiniteSets, SequencesExt

CONSTANTS
  LiveSymbols,    \* subscribed symbols, in the order their first trade came
  TickRuns,       \* runs of flushTicks that may overlap, the final one included
  QuoteRuns,      \* runs of flushQuotes that may overlap, the final one included
  FlowPolls,      \* runs of pollFlow that may overlap
  MaxDelay,       \* doublings of the reconnect delay from 1 s to 60 s
  MaxTrades, MaxQuotes, MaxVersions, MaxBar,     \* bounds on what arrives
  WarmBars,       \* MIN_FEATURE_CANDLES
  MaxSlots, MaxOi \* bounds on the open interest history

Final == "final"
Syms == Range(LiveSymbols)
ASSUME LiveAssumption ==
  /\ LiveSymbols \in Seq(Syms)
  /\ Final \in TickRuns /\ Final \in QuoteRuns /\ WarmBars \in Nat \ {0}
  /\ MaxDelay \in Nat /\ MaxBar \in Nat

VARIABLES
  venue,                              \* "DERIBIT" or "BINANCE"
  phase,                              \* of the daemon
  ws, closed, delay, timers,          \* streamLive's closure
  trades, buf, tickRun, ticks, lostTicks, atStop,
  quotes, latestQuote, overtaken, quoteRun, quoteRows, lostQuotes,
  funding, latestFunding, storedFunding, lostFunding,
  newest, saving, row, raced, recompute, read, snap, dropped, faulty,
  oiTrue, oiRows, oiPoll, oiBehind, oiRaced

socketVars == <<ws, closed, delay, timers>>
tickVars   == <<trades, buf, tickRun, ticks, lostTicks, atStop>>
quoteVars  == <<quotes, latestQuote, overtaken, quoteRun, quoteRows, lostQuotes,
                funding, latestFunding, storedFunding, lostFunding>>
candleVars == <<newest, saving, row, raced, recompute, read, snap, dropped, faulty>>
oiVars     == <<oiTrue, oiRows, oiPoll, oiBehind, oiRaced>>
liveVars   == <<venue, phase, socketVars, tickVars, quoteVars, candleVars, oiVars>>

\* What a step of one part leaves to the others.
OnlySocket  == UNCHANGED <<venue, tickVars, quoteVars, candleVars, oiVars>>
OnlyTicks   == UNCHANGED <<venue, phase, socketVars, quoteVars, candleVars, oiVars>>
OnlyQuotes  == UNCHANGED <<venue, socketVars, tickVars, candleVars, oiVars>>
OnlyCandles == UNCHANGED <<venue, phase, socketVars, tickVars, quoteVars, oiVars>>
OnlyOi      == UNCHANGED <<venue, phase, socketVars, tickVars, quoteVars, candleVars>>

Zero == [s \in Syms |-> 0]
None == [s \in Syms |-> {}]
IdleTicks  == [pc |-> "idle", at |-> 1, sym |-> "", batch |-> {}]
IdleQuotes == [pc |-> "idle", seen |-> {}, sym |-> "", q |-> 0, batch |-> {}]
IdlePoll   == [pc |-> "idle", got |-> <<>>, prior |-> {}]
Bars == 1..MaxBar

LiveInit ==
  /\ venue \in {"DERIBIT", "BINANCE"} /\ phase = "opening"
  /\ ws = "connecting" /\ closed = FALSE /\ delay = 0 /\ timers = 0
  /\ trades = Zero /\ buf = None /\ ticks = None /\ lostTicks = None /\ atStop = Zero
  /\ tickRun = [r \in TickRuns |-> IdleTicks]
  /\ quotes = Zero /\ latestQuote = Zero /\ overtaken = Zero /\ quoteRows = None /\ lostQuotes = None
  /\ funding = Zero /\ latestFunding = Zero /\ storedFunding = None /\ lostFunding = None
  /\ quoteRun = [r \in QuoteRuns |-> IdleQuotes]
  /\ newest = [s \in Syms |-> [b \in Bars |-> 0]]
  /\ row = newest /\ raced = [s \in Syms |-> [b \in Bars |-> FALSE]]
  /\ saving = {} /\ recompute = [s \in Syms |-> "none"]
  /\ read = newest /\ snap = newest
  /\ dropped = [s \in Syms |-> FALSE] /\ faulty = [s \in Syms |-> FALSE]
  /\ oiTrue = <<1>> /\ oiRows = [t \in {} |-> [value |-> 0, delta |-> {}]]
  /\ oiPoll = [p \in FlowPolls |-> IdlePoll] /\ oiBehind = {} /\ oiRaced = FALSE

-----------------------------------------------------------------------------
(* The socket.  Only its close event schedules a reconnect, and close() of   *)
(* the subscription drops that listener; messages keep being delivered until *)
(* the closing handshake is over.                                            *)
Receiving == ws \in {"open", "closing"}

SocketOpen ==
  /\ ws = "connecting"
  /\ ws' = "open" /\ delay' = 0                      \* resubscribed on open
  /\ phase' = IF phase = "opening" THEN "live" ELSE phase
  /\ OnlySocket /\ UNCHANGED <<closed, timers>>

\* Mutant: the delay doubles without a cap.
scheduleReconnect_Uncapped ==
  IF closed THEN UNCHANGED <<delay, timers>> ELSE timers' = timers + 1 /\ delay' = delay + 1

scheduleReconnect ==
  IF closed THEN UNCHANGED <<delay, timers>>
  ELSE /\ timers' = timers + 1
       /\ delay' = IF delay < MaxDelay THEN delay + 1 ELSE delay

SocketClosed ==
  /\ ws \in {"connecting", "open"}
  /\ ws' = "none"
  /\ scheduleReconnect
  /\ OnlySocket /\ UNCHANGED <<phase, closed>>

Reconnect ==
  /\ timers > 0
  /\ timers' = timers - 1
  /\ ws' = IF closed THEN ws ELSE "connecting"
  /\ OnlySocket /\ UNCHANGED <<phase, closed, delay>>

HandshakeDone ==
  /\ ws = "closing" /\ ws' = "none"
  /\ OnlySocket /\ UNCHANGED <<phase, closed, delay, timers>>

-----------------------------------------------------------------------------
(* Trades: pushed into a buffer per symbol, spliced out of it by flushTicks  *)
(* before the insert is awaited.                                             *)
OnTrade(s) ==
  /\ Receiving /\ trades[s] < MaxTrades
  /\ trades' = [trades EXCEPT ![s] = @ + 1]
  /\ buf' = [buf EXCEPT ![s] = @ \cup {trades[s] + 1}]
  /\ OnlyTicks /\ UNCHANGED <<tickRun, ticks, lostTicks, atStop>>

TickTimer(r) ==
  /\ phase = "live" /\ r # Final /\ tickRun[r].pc = "idle"
  /\ tickRun' = [tickRun EXCEPT ![r] = [IdleTicks EXCEPT !.pc = "loop"]]
  /\ OnlyTicks /\ UNCHANGED <<trades, buf, ticks, lostTicks, atStop>>

\* The next symbol of the map whose buffer is not empty, emptied at once.
Ahead(r) == {i \in tickRun[r].at..Len(LiveSymbols) : buf[LiveSymbols[i]] # {}}
SpliceBuffer(r) ==
  /\ tickRun[r].pc = "loop" /\ Ahead(r) # {}
  /\ LET i == CHOOSE i \in Ahead(r) : \A j \in Ahead(r) : i <= j
         s == LiveSymbols[i]
     IN /\ tickRun' = [tickRun EXCEPT ![r] =
                         [pc |-> "insert", at |-> i + 1, sym |-> s, batch |-> buf[s]]]
        /\ buf' = [buf EXCEPT ![s] = {}]
  /\ OnlyTicks /\ UNCHANGED <<trades, ticks, lostTicks, atStop>>

\* Mutant: the buffer is emptied again when the insert returns.
InsertTicks_ClearsBuffer(r, k) ==
  /\ tickRun[r].pc = "insert"
  /\ LET s == tickRun[r].sym IN
       ticks' = [ticks EXCEPT ![s] = @ \cup tickRun[r].batch] /\ buf' = [buf EXCEPT ![s] = {}]
  /\ tickRun' = [tickRun EXCEPT ![r].pc = "loop", ![r].batch = {}]
  /\ OnlyTicks /\ UNCHANGED <<trades, lostTicks, atStop>>
\* Mutant: a failing insert is not caught and ends the run.
InsertTicks_Uncaught(r, k) ==
  /\ tickRun[r].pc = "insert"
  /\ LET kept == {t \in tickRun[r].batch : t <= k} IN
       tickRun' = [tickRun EXCEPT ![r].batch = {},
                     ![r].pc = IF kept = tickRun[r].batch THEN "loop" ELSE "dead"]
  /\ OnlyTicks /\ UNCHANGED <<trades, buf, ticks, lostTicks, atStop>>

\* upsertTicks inserts in chunks and skips rows already there; a failing chunk
\* loses the rest of the batch, which is in no buffer any more.
InsertTicks(r, k) ==
  /\ tickRun[r].pc = "insert"
  /\ LET s == tickRun[r].sym
         kept == {t \in tickRun[r].batch : t <= k}
     IN /\ ticks' = [ticks EXCEPT ![s] = @ \cup kept]
        /\ lostTicks' = [lostTicks EXCEPT ![s] = @ \cup (tickRun[r].batch \ kept)]
  /\ tickRun' = [tickRun EXCEPT ![r].pc = "loop", ![r].batch = {}]
  /\ OnlyTicks /\ UNCHANGED <<trades, buf, atStop>>

TickRunDone(r) ==
  /\ tickRun[r].pc = "loop" /\ Ahead(r) = {}
  /\ tickRun' = [tickRun EXCEPT ![r] = [IdleTicks EXCEPT !.pc = IF r = Final THEN "done" ELSE "idle"]]
  /\ OnlyTicks /\ UNCHANGED <<trades, buf, ticks, lostTicks, atStop>>

-----------------------------------------------------------------------------
(* Quotes and funding: the latest per symbol.  flushQuotes awaits a write    *)
(* per symbol of the live map and clears the map after the last one.         *)
OnQuote(s) ==
  /\ Receiving /\ quotes[s] < MaxQuotes
  /\ quotes' = [quotes EXCEPT ![s] = @ + 1]
  /\ latestQuote' = [latestQuote EXCEPT ![s] = quotes[s] + 1]
  /\ overtaken' = IF \E r \in QuoteRuns : s \in quoteRun[r].seen
                  THEN [overtaken EXCEPT ![s] = quotes[s] + 1] ELSE overtaken
  /\ OnlyQuotes /\ UNCHANGED <<phase, quoteRun, quoteRows, lostQuotes,
                               funding, latestFunding, storedFunding, lostFunding>>

OnFunding(s) ==
  /\ Receiving /\ funding[s] < MaxQuotes
  /\ funding' = [funding EXCEPT ![s] = @ + 1]
  /\ latestFunding' = [latestFunding EXCEPT ![s] = funding[s] + 1]
  /\ OnlyQuotes /\ UNCHANGED <<phase, quotes, latestQuote, overtaken, quoteRun, quoteRows,
                               lostQuotes, storedFunding, lostFunding>>

StartQuoteRun(r) == quoteRun' = [quoteRun EXCEPT ![r] = [IdleQuotes EXCEPT !.pc = "loop"]]
QuoteTimer(r) ==
  /\ phase = "live" /\ r # Final /\ quoteRun[r].pc = "idle"
  /\ StartQuoteRun(r)
  /\ OnlyQuotes /\ UNCHANGED <<phase, quotes, latestQuote, overtaken, quoteRows, lostQuotes,
                               funding, latestFunding, storedFunding, lostFunding>>

\* The final flush starts when the final tick flush is over.
DrainQuotes ==
  /\ phase = "draining" /\ tickRun[Final].pc = "done" /\ quoteRun[Final].pc = "idle"
  /\ StartQuoteRun(Final)
  /\ OnlyQuotes /\ UNCHANGED <<phase, quotes, latestQuote, overtaken, quoteRows, lostQuotes,
                               funding, latestFunding, storedFunding, lostFunding>>

Unseen(r) == {s \in Syms : latestQuote[s] # 0 /\ s \notin quoteRun[r].seen}
VisitQuote(r, s) ==
  /\ quoteRun[r].pc = "loop" /\ s \in Unseen(r)
  /\ quoteRun' = [quoteRun EXCEPT ![r] =
       [quoteRun[r] EXCEPT !.pc = "upsert", !.seen = @ \cup {s}, !.sym = s, !.q = latestQuote[s]]]
  /\ OnlyQuotes /\ UNCHANGED <<phase, quotes, latestQuote, overtaken, quoteRows, lostQuotes,
                               funding, latestFunding, storedFunding, lostFunding>>

UpsertQuote(r, ok) ==
  /\ quoteRun[r].pc = "upsert"
  /\ LET s == quoteRun[r].sym  q == {quoteRun[r].q}
     IN /\ quoteRows'     = IF ok THEN [quoteRows EXCEPT ![s] = @ \cup q] ELSE quoteRows
        /\ lostQuotes' = IF ok THEN lostQuotes ELSE [lostQuotes EXCEPT ![s] = @ \cup q]
  /\ quoteRun' = [quoteRun EXCEPT ![r].pc = "loop"]
  /\ OnlyQuotes /\ UNCHANGED <<phase, quotes, latestQuote, overtaken,
                               funding, latestFunding, storedFunding, lostFunding>>

\* Mutant: the map is cleared before every symbol was visited.
ClearQuotes_Early(r) ==
  /\ quoteRun[r].pc = "loop"
  /\ latestQuote' = Zero /\ latestFunding' = Zero
  /\ quoteRun' = [x \in QuoteRuns |->
       IF x = r THEN [IdleQuotes EXCEPT !.pc = "funding"] ELSE [quoteRun[x] EXCEPT !.seen = {}]]
  /\ OnlyQuotes /\ UNCHANGED <<phase, quotes, overtaken, quoteRows, lostQuotes,
                               funding, storedFunding, lostFunding>>

\* Clearing the map restarts the iteration of every other run over it.
ClearQuotes(r) ==
  /\ quoteRun[r].pc = "loop" /\ Unseen(r) = {}
  /\ latestQuote' = Zero /\ latestFunding' = Zero
  /\ quoteRun' = [x \in QuoteRuns |->
       IF x = r THEN [IdleQuotes EXCEPT !.pc = "funding",
                        !.batch = {<<s, latestFunding[s]>> : s \in {s \in Syms : latestFunding[s] # 0}}]
       ELSE [quoteRun[x] EXCEPT !.seen = {}]]
  /\ OnlyQuotes /\ UNCHANGED <<phase, quotes, overtaken, quoteRows, lostQuotes,
                               funding, storedFunding, lostFunding>>

Taken(r, s) == {p[2] : p \in {p \in quoteRun[r].batch : p[1] = s}}
UpsertFunding(r, ok) ==
  /\ quoteRun[r].pc = "funding"
  /\ storedFunding' = [s \in Syms |-> storedFunding[s] \cup IF ok THEN Taken(r, s) ELSE {}]
  /\ lostFunding'   = [s \in Syms |-> lostFunding[s] \cup IF ok THEN {} ELSE Taken(r, s)]
  /\ quoteRun' = [quoteRun EXCEPT ![r] = IdleQuotes]
  /\ phase' = IF r = Final THEN "stopped" ELSE phase       \* heartbeat OK
  /\ OnlyQuotes /\ UNCHANGED <<quotes, latestQuote, overtaken, quoteRows, lostQuotes,
                               funding, latestFunding>>

-----------------------------------------------------------------------------
(* Candles: every push is upserted by a promise of its own, and a recompute  *)
(* is asked for once it is stored.  Deribit pushes a bar while it forms,     *)
(* Binance only when it closes.                                              *)
OnCandle(s, b) ==
  /\ Receiving
  /\ \A c \in Bars : c > b => newest[s][c] = 0
  /\ newest[s][b] < IF venue = "BINANCE" THEN 1 ELSE MaxVersions
  /\ newest' = [newest EXCEPT ![s][b] = @ + 1]
  /\ saving' = saving \cup {[sym |-> s, bar |-> b, version |-> newest[s][b] + 1, pc |-> "upsert"]}
  /\ raced' = IF (\E x \in saving : x.sym = s /\ x.bar = b /\ x.pc = "upsert") \/ recompute[s] = "warmUpsert"
              THEN [raced EXCEPT ![s][b] = TRUE] ELSE raced
  /\ OnlyCandles /\ UNCHANGED <<row, recompute, read, snap, dropped, faulty>>

\* Mutant: an existing row is kept.
UpsertCandle_CreateOnly(x) ==
  /\ x \in saving /\ x.pc = "upsert"
  /\ row' = [row EXCEPT ![x.sym][x.bar] = IF @ = 0 THEN x.version ELSE @]
  /\ saving' = (saving \ {x}) \cup {[x EXCEPT !.pc = "published"]}
  /\ OnlyCandles /\ UNCHANGED <<newest, raced, recompute, read, snap, dropped, faulty>>
\* Mutant: no features are asked for after the write.
UpsertCandle_NoRecompute(x) ==
  /\ x \in saving /\ x.pc = "upsert"
  /\ row' = [row EXCEPT ![x.sym][x.bar] = x.version]
  /\ saving' = saving \ {x}
  /\ OnlyCandles /\ UNCHANGED <<newest, raced, recompute, read, snap, dropped, faulty>>

UpsertCandle(x) ==
  /\ x \in saving /\ x.pc = "upsert"
  /\ row' = [row EXCEPT ![x.sym][x.bar] = x.version]
  /\ saving' = (saving \ {x}) \cup {[x EXCEPT !.pc = "published"]}
  /\ OnlyCandles /\ UNCHANGED <<newest, raced, recompute, read, snap, dropped, faulty>>

CandleThrows(x) ==
  /\ x \in saving /\ x.pc = "upsert"
  /\ saving' = saving \ {x}
  /\ faulty' = [faulty EXCEPT ![x.sym] = TRUE]
  /\ OnlyCandles /\ UNCHANGED <<newest, row, raced, recompute, read, snap, dropped>>

\* A request that comes while one runs is dropped, not queued.
recomputeFeatures(x) ==
  /\ x \in saving /\ x.pc = "published"
  /\ saving' = saving \ {x}
  /\ recompute' = [recompute EXCEPT ![x.sym] = IF @ = "none" THEN "warm" ELSE @]
  /\ dropped' = [dropped EXCEPT ![x.sym] = recompute[x.sym] = "compute"]
  /\ OnlyCandles /\ UNCHANGED <<newest, row, raced, read, snap, faulty>>

Held(s) == {b \in Bars : row[s][b] # 0}

\* ensureWarmupHistory: nothing to do once warm; else the venue's bars are
\* fetched, then upserted, and a failure of either is only logged.
WarmFetch(s, ok) ==
  /\ recompute[s] = "warm"
  /\ LET fetch == ok /\ Cardinality(Held(s)) < WarmBars
     IN /\ read' = IF fetch THEN [read EXCEPT ![s] = newest[s]] ELSE read
        /\ recompute' = [recompute EXCEPT ![s] = IF fetch THEN "warmUpsert" ELSE "read"]
  /\ OnlyCandles /\ UNCHANGED <<newest, saving, row, raced, snap, dropped, faulty>>

WarmUpsert(s, ok) ==
  /\ recompute[s] = "warmUpsert"
  /\ row' = IF ok THEN [row EXCEPT ![s] = [b \in Bars |-> IF read[s][b] # 0 THEN read[s][b] ELSE @[b]]]
            ELSE row
  /\ recompute' = [recompute EXCEPT ![s] = "read"]
  /\ OnlyCandles /\ UNCHANGED <<newest, saving, raced, read, snap, dropped, faulty>>

\* materializeFeaturesFromDb: the window is read here, and everything after
\* is about these rows.
ReadWindow(s) ==
  /\ recompute[s] = "read"
  /\ read' = [read EXCEPT ![s] = row[s]]
  /\ recompute' = [recompute EXCEPT ![s] =
       IF Cardinality(Held(s)) < WarmBars THEN "none" ELSE "compute"]
  /\ OnlyCandles /\ UNCHANGED <<newest, saving, row, raced, snap, dropped, faulty>>

LastBar(window) == CHOOSE b \in Bars : window[b] # 0 /\ \A c \in Bars : c > b => window[c] = 0
PersistSnapshot(s) ==
  /\ recompute[s] = "compute"
  /\ snap' = [snap EXCEPT ![s][LastBar(read[s])] = read[s][LastBar(read[s])]]
  /\ recompute' = [recompute EXCEPT ![s] = "none"]
  /\ OnlyCandles /\ UNCHANGED <<newest, saving, row, raced, read, dropped, faulty>>

\* Mutant: only a success releases the symbol.
RecomputeEnds_NotReleased(s) ==
  /\ recompute[s] # "none"
  /\ recompute' = [recompute EXCEPT ![s] = "failed"]
  /\ faulty' = [faulty EXCEPT ![s] = TRUE]
  /\ OnlyCandles /\ UNCHANGED <<newest, saving, row, raced, read, snap, dropped>>

\* A read that throws, a FAILED report, a refused or unreachable computation, a
\* snapshot that is not written: the symbol is released in every case.
RecomputeEnds(s) ==
  /\ recompute[s] # "none"
  /\ recompute' = [recompute EXCEPT ![s] = "none"]
  /\ faulty' = [faulty EXCEPT ![s] = TRUE]
  /\ OnlyCandles /\ UNCHANGED <<newest, saving, row, raced, read, snap, dropped>>

-----------------------------------------------------------------------------
(* The flow poll's open interest.  Deribit offers the current value, floored *)
(* to a slot; Binance the slots of a window ending now.  Deltas are taken    *)
(* against the row before the first one fetched, then from row to row.  The  *)
(* timer does not wait for the last poll: polls overlap.                     *)
OiMoves(v, next) ==
  /\ phase = "live" /\ (next => Len(oiTrue) < MaxSlots)
  /\ oiTrue' = IF next THEN Append(oiTrue, v) ELSE [oiTrue EXCEPT ![Len(oiTrue)] = v]
  /\ OnlyOi /\ UNCHANGED <<oiRows, oiPoll, oiBehind, oiRaced>>

Before(S, t) == {u \in S : u < t}
Latest(S) == CHOOSE t \in S : \A u \in S : u <= t
First(S) == CHOOSE u \in S : \A v \in S : u <= v

\* A window reaches one slot back here.
offered == IF venue = "DERIBIT" THEN {Len(oiTrue)} ELSE {t \in DOMAIN oiTrue : t >= Len(oiTrue) - 1}

pollFlow(p) ==
  /\ phase = "live" /\ oiPoll[p].pc = "idle"
  /\ oiPoll' = [oiPoll EXCEPT ![p] = [pc |-> "find", got |-> [t \in offered |-> oiTrue[t]], prior |-> {}]]
  /\ oiBehind' = oiBehind \ {p}
  /\ OnlyOi /\ UNCHANGED <<oiTrue, oiRows, oiRaced>>

\* Mutant: the prior row may be the row itself.
priorOf_Self(slots) ==
  LET rows == {u \in DOMAIN oiRows : u <= First(slots)}
  IN IF rows = {} THEN {} ELSE {oiRows[Latest(rows)].value}

priorOf(slots) ==
  LET rows == Before(DOMAIN oiRows, First(slots))
  IN IF rows = {} THEN {} ELSE {oiRows[Latest(rows)].value}

FindPrior(p) ==
  /\ oiPoll[p].pc = "find"
  /\ oiPoll' = [oiPoll EXCEPT ![p].pc = "write", ![p].prior = priorOf(DOMAIN oiPoll[p].got)]
  /\ OnlyOi /\ UNCHANGED <<oiTrue, oiRows, oiBehind, oiRaced>>

DeltaOf(poll, t) ==
  LET earlier == Before(DOMAIN poll.got, t)
  IN IF earlier = {} THEN {poll.got[t] - v : v \in poll.prior}
     ELSE {poll.got[t] - poll.got[Latest(earlier)]}

\* The one transaction; oiBehind: polls that fetched before it and are not done.
upsertOpenInterest(p) ==
  LET poll == oiPoll[p] IN
  /\ poll.pc = "write"
  /\ oiRows' = [t \in DOMAIN oiRows \cup DOMAIN poll.got |->
                  IF t \in DOMAIN poll.got THEN [value |-> poll.got[t], delta |-> DeltaOf(poll, t)] ELSE oiRows[t]]
  /\ oiPoll' = [oiPoll EXCEPT ![p] = IdlePoll]
  /\ oiBehind' = {q \in FlowPolls : q # p /\ oiPoll[q].pc # "idle"}
  /\ oiRaced' = (oiRaced \/ p \in oiBehind)
  /\ OnlyOi /\ UNCHANGED oiTrue

\* A request, a query or the transaction fails: nothing is written.
PollFails(p) ==
  /\ oiPoll[p].pc # "idle"
  /\ oiPoll' = [oiPoll EXCEPT ![p] = IdlePoll]
  /\ OnlyOi /\ UNCHANGED <<oiTrue, oiRows, oiBehind, oiRaced>>

-----------------------------------------------------------------------------
\* Mutant: the reconnect timer survives.
Stop_TimerLeft ==
  /\ phase = "live"
  /\ phase' = "draining" /\ closed' = TRUE
  /\ ws' = IF ws = "open" THEN "closing" ELSE "none"
  /\ tickRun' = [tickRun EXCEPT ![Final] = [IdleTicks EXCEPT !.pc = "loop"]]
  /\ atStop' = trades
  /\ UNCHANGED <<venue, delay, timers, trades, buf, ticks, lostTicks, quoteVars, candleVars, oiVars>>
\* Mutant: no final flush of the trades.
Stop_NoDrain ==
  /\ phase = "live"
  /\ phase' = "draining" /\ closed' = TRUE /\ timers' = 0
  /\ ws' = IF ws = "open" THEN "closing" ELSE "none"
  /\ tickRun' = [tickRun EXCEPT ![Final] = [IdleTicks EXCEPT !.pc = "done"]]
  /\ atStop' = trades
  /\ UNCHANGED <<venue, delay, trades, buf, ticks, lostTicks, quoteVars, candleVars, oiVars>>

\* stop(): the timers are cleared, the subscription closed, the buffers drained.
Stop ==
  /\ phase = "live"
  /\ phase' = "draining" /\ closed' = TRUE /\ timers' = 0
  /\ ws' = IF ws = "open" THEN "closing" ELSE "none"
  /\ tickRun' = [tickRun EXCEPT ![Final] = [IdleTicks EXCEPT !.pc = "loop"]]
  /\ atStop' = trades
  /\ UNCHANGED <<venue, delay, trades, buf, ticks, lostTicks, quoteVars, candleVars, oiVars>>

SocketSteps == SocketOpen \/ SocketClosed \/ Reconnect \/ HandshakeDone \/ Stop
TickSteps == \/ \E s \in Syms : OnTrade(s)
             \/ \E r \in TickRuns : TickTimer(r) \/ SpliceBuffer(r) \/ TickRunDone(r)
                                      \/ \E k \in 0..MaxTrades : InsertTicks(r, k)
QuoteSteps == \/ \E s \in Syms : OnQuote(s) \/ OnFunding(s)
              \/ DrainQuotes
              \/ \E r \in QuoteRuns :
                   \/ QuoteTimer(r) \/ ClearQuotes(r) \/ \E s \in Syms : VisitQuote(r, s)
                   \/ \E ok \in BOOLEAN : UpsertQuote(r, ok) \/ UpsertFunding(r, ok)
RecomputeStep(s) == \/ ReadWindow(s) \/ PersistSnapshot(s) \/ RecomputeEnds(s)
                    \/ \E ok \in BOOLEAN : WarmFetch(s, ok) \/ WarmUpsert(s, ok)
CandleSteps == \/ \E s \in Syms : RecomputeStep(s) \/ \E b \in Bars : OnCandle(s, b)
               \/ \E x \in saving : UpsertCandle(x) \/ CandleThrows(x) \/ recomputeFeatures(x)
OiSteps == \/ \E v \in 1..MaxOi, next \in BOOLEAN : OiMoves(v, next)
           \/ \E p \in FlowPolls : pollFlow(p) \/ FindPrior(p) \/ upsertOpenInterest(p) \/ PollFails(p)

LiveNext == SocketSteps \/ TickSteps \/ QuoteSteps \/ CandleSteps \/ OiSteps

-----------------------------------------------------------------------------
LiveTypeOK ==
  /\ phase \in {"opening", "live", "draining", "stopped"}
  /\ ws \in {"connecting", "open", "closing", "none"} /\ delay \in 0..MaxDelay /\ timers \in Nat
  /\ \A s \in Syms : buf[s] \subseteq 1..trades[s] /\ latestQuote[s] \in 0..quotes[s]
  /\ recompute \in [Syms -> {"none", "warm", "warmUpsert", "read", "compute"}]

\* However the socket fails, there is never a second connection nor a second
\* reconnect timer, never neither of them before the subscription is closed,
\* and nothing comes back afterwards.
OneConnection ==
  timers + (IF ws \in {"connecting", "open"} THEN 1 ELSE 0) = IF closed THEN 0 ELSE 1

Inserting(s) == UNION {tickRun[r].batch : r \in {r \in TickRuns : tickRun[r].pc = "insert"
                                                              /\ tickRun[r].sym = s}}

\* A trade is in the buffer, in exactly one running insert, or settled: trades
\* that arrive during an insert are neither dropped with the batch nor written
\* twice, however many flushes overlap.
TradesConserved ==
  \A s \in Syms :
    /\ 1..trades[s] = buf[s] \cup Inserting(s) \cup ticks[s] \cup lostTicks[s]
    /\ buf[s] \cap (Inserting(s) \cup ticks[s] \cup lostTicks[s]) = {}
    /\ \A r, q \in TickRuns : r # q => tickRun[r].batch \cap tickRun[q].batch = {}
                                        \/ tickRun[r].sym # tickRun[q].sym

\* When stop() resolves, every trade received before it was called has left
\* the buffer: what can still be lost is an insert that another flush has in
\* flight, which nobody waits for.
DrainSettlesTrades ==
  phase = "stopped" =>
    \A s \in Syms : 1..atStop[s] \subseteq ticks[s] \cup lostTicks[s] \cup Inserting(s)

\* The newest quote of a symbol is forgotten only if it arrived while a flush
\* that had already visited the symbol was running; a funding update never is,
\* its map is read and cleared in one step.
LatestIsKept ==
  \A s \in Syms :
    /\ quotes[s] # 0 =>
         \/ quotes[s] \in {latestQuote[s], overtaken[s]} \cup quoteRows[s] \cup lostQuotes[s]
         \/ \E r \in QuoteRuns : quoteRun[r].pc = "upsert" /\ quoteRun[r].sym = s /\ quoteRun[r].q = quotes[s]
    /\ funding[s] # 0 =>
         \/ funding[s] \in {latestFunding[s]} \cup storedFunding[s] \cup lostFunding[s]
         \/ \E r \in QuoteRuns : funding[s] \in Taken(r, s)

Quiet(s) == /\ \A x \in saving : x.sym # s
            /\ recompute[s] = "none" /\ ~faulty[s]

\* Once the writes of a symbol are over, each bar holds the version pushed
\* last, unless two writes of that bar were in flight together: nothing orders
\* those.
NewestBarWins ==
  \A s \in Syms : Quiet(s) => \A b \in Bars : row[s][b] = newest[s][b] \/ raced[s][b]

\* The features of the last bar were computed from the row that is stored,
\* unless the request for it was dropped because a computation was under way
\* that had already read its window.
SnapshotMatchesRow ==
  \A s \in Syms :
    Quiet(s) /\ ~dropped[s] /\ Held(s) # {} /\ Cardinality(Held(s)) >= WarmBars =>
      snap[s][LastBar(row[s])] = row[s][LastBar(row[s])]

\* Every stored open interest row is the difference to the row stored before
\* it, polled again within a slot or not, until a poll writes what it had
\* fetched before a faster one wrote.
OiDeltasChain ==
  oiRaced \/ \A t \in DOMAIN oiRows :
    LET before == Before(DOMAIN oiRows, t) IN
    oiRows[t].delta =
      IF before = {} THEN {} ELSE {oiRows[t].value - oiRows[Latest(before)].value}

\* No failure leaves a symbol marked as recomputing, which would silence its
\* features for good; and stop() resolves.
RecomputeIsReleased == \A s \in Syms : recompute[s] # "none" ~> recompute[s] = "none"
StopResolves == phase = "draining" ~> phase = "stopped"

\* What the socket delivered is not lost quietly, through overlapping flushes and a
\* shutdown in the middle of them: every trade is buffered, being written or settled,
\* stop() leaves none in a buffer, and the newest quote and funding rate are kept.
NothingLostQuietly == LiveTypeOK /\ TradesConserved /\ DrainSettlesTrades /\ LatestIsKept

\* Rows written without awaiting one another settle on the truth: the last version of
\* a bar, the features of that version, open interest deltas against the row before.
RowsConverge == NewestBarWins /\ SnapshotMatchesRow /\ OiDeltasChain

\* Every recompute lets go of its symbol and every stop() comes to its end, whichever
\* request or write fails.
LiveSettles == RecomputeIsReleased /\ StopResolves

=============================================================================
