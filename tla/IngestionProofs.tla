--------------------------- MODULE IngestionProofs ---------------------------
(* Proofs about the ingestion daemon: how often its venue is asked, how many *)
(* connections it sees, what becomes of everything it has delivered, what a  *)
(* backfill can lose, and what the data quality gateway lets through.        *)
EXTENDS Backfill, IngestionDaemon, CommonProofs, FiniteSetTheorems, WellFoundedInduction, TLAPS

-----------------------------------------------------------------------------
(* The rate.  A slot is handed out by throttle() and used by one request.    *)
(* Slots handed out so far, used or not, lie an interval apart up to         *)
(* lastRequestAt; those due by a time x that is not past are the requests    *)
(* made and the sleeping callers that wake by x, and they are never more     *)
(* than x has room for.  A request uses up its slot and changes no count.    *)

Sleeping == {c \in Callers : call[c].pc = "throttled"}
Due(x) == {c \in Sleeping : call[c].wake <= x}

RestTypeOK ==
  /\ clock \in Nat /\ lastRequestAt \in Int /\ requests \in Nat
  /\ call \in [Callers -> [pc : {"idle", "throttled", "inflight", "backoff"},
                           attempt : Nat, wake : Int]]

RestInv ==
  /\ RestTypeOK
  /\ (requests + Cardinality(Sleeping) - 1) * RateInterval <= lastRequestAt
  /\ \A x \in Int : x >= clock => (requests + Cardinality(Due(x)) - 1) * RateInterval <= x

LEMMA FewCallers ==
  ASSUME NEW x
  PROVE  /\ IsFiniteSet(Sleeping) /\ IsFiniteSet(Due(x))
         /\ Cardinality(Sleeping) \in Nat /\ Cardinality(Due(x)) \in Nat
         /\ Cardinality(Due(x)) <= Cardinality(Sleeping)
<1>1. IsFiniteSet(Sleeping)
  BY RestAssumption, FS_Subset DEF Sleeping
<1>2. Due(x) \in SUBSET Sleeping
  BY DEF Due
<1>3. QED
  BY <1>1, <1>2, FS_Subset, FS_CardinalityType

\* A caller that is given the slot an interval after the last one.
LEMMA ThrottleKeeps ==
  ASSUME RestInv, NEW c \in Callers, call[c].pc # "throttled",
         NEW attempt \in Nat, Throttle(c, attempt), UNCHANGED <<clock, requests>>
  PROVE  RestInv'
<1> DEFINE w == lastRequestAt + RateInterval
           n == requests + Cardinality(Sleeping)
<1>0. /\ RateInterval \in Nat \ {0} /\ clock \in Nat /\ lastRequestAt \in Int /\ requests \in Nat
      /\ Cardinality(Sleeping) \in Nat /\ w \in Int /\ n \in Nat
      /\ (n - 1) * RateInterval <= lastRequestAt
  BY RestAssumption, FewCallers DEF RestInv, RestTypeOK
<1>1. /\ lastRequestAt' = Later(clock, w)
      /\ call' = [call EXCEPT ![c] = [pc |-> "throttled", attempt |-> attempt, wake |-> w]]
  BY DEF Throttle
<1>2. RestTypeOK'
  BY <1>0, <1>1 DEF RestInv, RestTypeOK, Later
<1>3. lastRequestAt' >= w
  BY <1>0, <1>1 DEF Later
<1>4. Sleeping' = Sleeping \cup {c} /\ c \notin Sleeping
  BY <1>1 DEF Sleeping, RestInv, RestTypeOK
<1>5. Cardinality(Sleeping') = Cardinality(Sleeping) + 1
  BY <1>4, FewCallers, FS_AddElement
<1>6. n * RateInterval <= w
  BY <1>0
<1>7. (requests' + Cardinality(Sleeping') - 1) * RateInterval <= lastRequestAt'
  <2>1. requests' + Cardinality(Sleeping') - 1 = n
    BY <1>0, <1>5
  <2>2. lastRequestAt' \in Int /\ n * RateInterval \in Int
    BY <1>0, <1>2 DEF RestTypeOK
  <2>3. QED
    BY <1>0, <1>3, <1>6, <2>1, <2>2
<1>8. ASSUME NEW x \in Int, x >= clock'
      PROVE  (requests' + Cardinality(Due(x)') - 1) * RateInterval <= x
  <2>0. Cardinality(Due(x)) \in Nat /\ Cardinality(Due(x)) <= Cardinality(Sleeping) /\ IsFiniteSet(Due(x))
    BY FewCallers
  <2>1. CASE x < w
    <3>1. Due(x)' = Due(x)
      BY <1>0, <1>1, <1>4, <2>1 DEF Due, Sleeping, RestInv, RestTypeOK
    <3>2. QED
      BY <1>8, <3>1 DEF RestInv
  <2>2. CASE x >= w
    <3>1. Due(x)' = Due(x) \cup {c} /\ c \notin Due(x)
      BY <1>0, <1>1, <1>4, <2>2 DEF Due, Sleeping, RestInv, RestTypeOK
    <3>2. Cardinality(Due(x)') = Cardinality(Due(x)) + 1
      BY <2>0, <3>1, FS_AddElement
    <3> DEFINE k == requests + Cardinality(Due(x))
    <3>3. k \in Nat /\ k <= n /\ requests' + Cardinality(Due(x)') - 1 = k
      BY <1>0, <2>0, <3>2
    <3> HIDE DEF k, n, w
    <3>4. k * RateInterval <= n * RateInterval
      BY <1>0, <3>3
    <3>5. k * RateInterval \in Int /\ n * RateInterval \in Int
      BY <1>0, <3>3
    <3>6. QED
      BY <1>0, <1>6, <2>2, <3>3, <3>4, <3>5
  <2>3. QED
    BY <1>0, <2>1, <2>2
<1>9. QED
  BY <1>2, <1>7, <1>8 DEF RestInv

LEMMA RestStart == RestInit => RestInv
<1> SUFFICES ASSUME RestInit PROVE RestInv
  OBVIOUS
<1>1. Sleeping = {} /\ \A x : Due(x) = {}
  BY DEF RestInit, Sleeping, Due, Resting
<1>2. RestTypeOK
  BY RestAssumption DEF RestInit, RestTypeOK, Resting
<1>3. Cardinality({}) = 0
  BY FS_EmptySet
<1>4. clock = 0 /\ requests = 0 /\ lastRequestAt = -RateInterval /\ RateInterval \in Nat \ {0}
  BY RestAssumption DEF RestInit
<1>5. QED
  BY <1>1, <1>2, <1>3, <1>4 DEF RestInv

LEMMA RestStep == RestInv /\ [RestNext]_restVars => RestInv'
<1> SUFFICES ASSUME RestInv, [RestNext]_restVars PROVE RestInv'
  OBVIOUS
<1> USE RestAssumption
<1>1. CASE UNCHANGED restVars
  <2>1. Sleeping' = Sleeping /\ \A x : Due(x)' = Due(x)
    BY <1>1 DEF restVars, Sleeping, Due
  <2>2. QED
    BY <1>1, <2>1 DEF restVars, RestInv, RestTypeOK
<1>2. CASE ClockTick
  <2>1. Sleeping' = Sleeping /\ \A x : Due(x)' = Due(x)
    BY <1>2 DEF ClockTick, Sleeping, Due
  <2>2. QED
    BY <1>2, <2>1 DEF ClockTick, RestInv, RestTypeOK
<1>3. ASSUME NEW c \in Callers, RestGet(c) PROVE RestInv'
  BY <1>3, ThrottleKeeps DEF RestGet
<1>4. ASSUME NEW c \in Callers, Retry(c) PROVE RestInv'
  <2>1. call[c].attempt + 1 \in Nat
    BY DEF RestInv, RestTypeOK
  <2>2. QED
    BY <1>4, <2>1, ThrottleKeeps DEF Retry
<1>5. ASSUME NEW c \in Callers, Fetch(c) PROVE RestInv'
  <2>1. /\ call[c].pc = "throttled" /\ clock >= call[c].wake /\ clock' = clock
        /\ lastRequestAt' = lastRequestAt /\ requests' = requests + 1
        /\ call' = [call EXCEPT ![c].pc = "inflight"]
    BY <1>5 DEF Fetch
  <2>2. RestTypeOK'
    BY <2>1 DEF RestInv, RestTypeOK
  <2>3. Sleeping' = Sleeping \ {c} /\ c \in Sleeping
    BY <2>1 DEF Sleeping, RestInv, RestTypeOK
  <2>4. Cardinality(Sleeping') = Cardinality(Sleeping) - 1 /\ Cardinality(Sleeping) \in Nat
    BY <2>3, FewCallers, FS_RemoveElement
  <2>5. ASSUME NEW x \in Int, x >= clock'
        PROVE  (requests' + Cardinality(Due(x)') - 1) * RateInterval <= x
    <3>1. Due(x)' = Due(x) \ {c} /\ c \in Due(x)
      BY <2>1, <2>3, <2>5 DEF Due, Sleeping, RestInv, RestTypeOK
    <3>2. Cardinality(Due(x)') = Cardinality(Due(x)) - 1 /\ Cardinality(Due(x)) \in Nat
      BY <3>1, FewCallers, FS_RemoveElement
    <3>3. requests' + Cardinality(Due(x)') - 1 = requests + Cardinality(Due(x)) - 1
      BY <2>1, <3>2 DEF RestInv, RestTypeOK
    <3>4. QED
      BY <2>1, <2>5, <3>3 DEF RestInv
  <2>6. requests' + Cardinality(Sleeping') - 1 = requests + Cardinality(Sleeping) - 1
    BY <2>1, <2>4 DEF RestInv, RestTypeOK
  <2>7. QED
    BY <2>1, <2>2, <2>5, <2>6 DEF RestInv
<1>6. ASSUME NEW c \in Callers, NEW o \in Outcomes, Answered(c, o) PROVE RestInv'
  <2>1. /\ call[c].pc = "inflight" /\ UNCHANGED <<clock, lastRequestAt, requests>>
        /\ call' = [call EXCEPT ![c] = call'[c]]
        /\ call'[c] = IF o \in Transient /\ call[c].attempt < MaxRetries
             THEN [call[c] EXCEPT !.pc = "backoff", !.wake = clock + RetryBase * 2 ^ call[c].attempt]
             ELSE Resting
    BY <1>6 DEF Answered, RestInv, RestTypeOK
  <2>2. /\ clock + RetryBase * 2 ^ call[c].attempt \in Int
        /\ call[c] \in [pc : {"idle", "throttled", "inflight", "backoff"}, attempt : Nat, wake : Int]
    BY DEF RestInv, RestTypeOK
  <2> DEFINE w == clock + RetryBase * 2 ^ call[c].attempt
  <2>a. w \in Int /\ (call'[c] = [call[c] EXCEPT !.pc = "backoff", !.wake = w] \/ call'[c] = Resting)
    BY <2>1, <2>2
  <2> HIDE DEF w
  <2>3. call'[c] \in [pc : {"idle", "throttled", "inflight", "backoff"}, attempt : Nat, wake : Int]
        /\ call'[c].pc # "throttled"
    <3>1. CASE call'[c] = Resting
      BY <3>1 DEF Resting
    <3>2. CASE call'[c] = [call[c] EXCEPT !.pc = "backoff", !.wake = w]
      BY <2>2, <2>a, <3>2
    <3>3. QED
      BY <2>a, <3>1, <3>2
  <2>4. RestTypeOK'
    BY <2>1, <2>3 DEF RestInv, RestTypeOK
  <2>5. Sleeping' = Sleeping /\ \A x : Due(x)' = Due(x)
    BY <2>1, <2>3 DEF Sleeping, Due, RestInv, RestTypeOK
  <2>6. QED
    BY <2>1, <2>4, <2>5 DEF RestInv
<1>7. QED
  BY <1>1, <1>2, <1>3, <1>4, <1>5, <1>6 DEF RestNext

LEMMA RestKeepsRate == RestInv => VenueRateRespected
<1> SUFFICES ASSUME RestInv PROVE requests <= 1 + clock \div RateInterval
  BY DEF VenueRateRespected
<1> DEFINE q == clock \div RateInterval
           m == requests - 1
<1>1. RateInterval \in Nat \ {0} /\ clock \in Nat /\ requests \in Nat
  BY RestAssumption DEF RestInv, RestTypeOK
<1>2. (requests + Cardinality(Due(clock)) - 1) * RateInterval <= clock
  BY <1>1 DEF RestInv
<1>3. Cardinality(Due(clock)) \in Nat
  BY FewCallers
<1>4. m * RateInterval <= clock
  <2> DEFINE d == Cardinality(Due(clock))
  <2>1. d \in Nat /\ m \in Int /\ (m + d) * RateInterval <= clock
    BY <1>1, <1>2, <1>3
  <2> HIDE DEF d, m
  <2>2. (m + d) * RateInterval = m * RateInterval + d * RateInterval /\ d * RateInterval >= 0
        /\ m * RateInterval \in Int /\ d * RateInterval \in Int
    BY <1>1, <2>1
  <2>3. QED
    BY <1>1, <2>1, <2>2
<1>5. q \in Int /\ m \in Int /\ clock < (q + 1) * RateInterval
  BY <1>1
<1> HIDE DEF q, m
<1>6. m < q + 1
  <2> SUFFICES ASSUME m >= q + 1 PROVE FALSE
    BY <1>5
  <2>1. m * RateInterval >= (q + 1) * RateInterval
    BY <1>1, <1>5
  <2>2. m * RateInterval \in Int /\ (q + 1) * RateInterval \in Int
    BY <1>1, <1>5
  <2>3. QED
    BY <1>1, <1>4, <1>5, <2>1, <2>2
<1>7. QED
  BY <1>1, <1>5, <1>6 DEF m, q

-----------------------------------------------------------------------------
(* The feed.  Its invariant has one part for each thing it keeps.            *)

SocketInv ==
  /\ phase \in {"opening", "live", "draining", "stopped"}
  /\ ws \in {"connecting", "open", "closing", "none"}
  /\ closed \in BOOLEAN /\ delay \in 0..MaxDelay /\ timers \in Nat
  /\ OneConnection

\* How far the final flush of stop() has come: the symbols it has passed hold
\* no trade older than stop(), and the quotes wait for it.
DrainInv ==
  /\ phase \in {"opening", "live"} => tickRun[Final].pc = "idle"
  /\ phase = "stopped" => tickRun[Final].pc = "done"
  /\ quoteRun[Final].pc # "idle" => tickRun[Final].pc = "done"
  /\ \A s \in Syms : \A t \in buf[s] : t <= atStop[s] =>
       /\ tickRun[Final].pc # "done"
       /\ tickRun[Final].pc \in {"loop", "insert"} =>
            \A i \in 1..Len(LiveSymbols) : LiveSymbols[i] = s => i >= tickRun[Final].at

TickRunOf == [pc : {"idle", "loop", "insert", "done"}, at : Nat \ {0},
              sym : Syms \cup {""}, batch : SUBSET Nat]
TickTypeOK ==
  /\ trades \in [Syms -> Nat] /\ atStop \in [Syms -> Nat]
  /\ buf \in [Syms -> SUBSET Nat] /\ ticks \in [Syms -> SUBSET Nat]
  /\ lostTicks \in [Syms -> SUBSET Nat]
  /\ tickRun \in [TickRuns -> TickRunOf]

TickInv ==
  /\ TickTypeOK
  /\ \A s \in Syms : atStop[s] <= trades[s] /\ buf[s] \subseteq 1..trades[s]
  /\ \A r \in TickRuns : IF tickRun[r].pc = "insert" THEN tickRun[r].sym \in Syms
                         ELSE tickRun[r].batch = {}
  /\ TradesConserved

QuoteRunOf == [pc : {"idle", "loop", "upsert", "funding"}, seen : SUBSET Syms,
               sym : Syms \cup {""}, q : Nat, batch : SUBSET (Syms \X Nat)]
QuoteTypeOK ==
  /\ quotes \in [Syms -> Nat] /\ latestQuote \in [Syms -> Nat] /\ overtaken \in [Syms -> Nat]
  /\ quoteRows \in [Syms -> SUBSET Nat] /\ lostQuotes \in [Syms -> SUBSET Nat]
  /\ funding \in [Syms -> Nat] /\ latestFunding \in [Syms -> Nat]
  /\ storedFunding \in [Syms -> SUBSET Nat] /\ lostFunding \in [Syms -> SUBSET Nat]
  /\ quoteRun \in [QuoteRuns -> QuoteRunOf]

\* The newest quote of a symbol is written, given up, or being written.
Written(s) == \E r \in QuoteRuns :
  quoteRun[r].pc = "upsert" /\ quoteRun[r].sym = s /\ quoteRun[r].q = quotes[s]
Settled(s) == quotes[s] \in {overtaken[s]} \cup quoteRows[s] \cup lostQuotes[s] \/ Written(s)

QuoteInv ==
  /\ QuoteTypeOK
  /\ \A r \in QuoteRuns : /\ quoteRun[r].pc = "upsert" => quoteRun[r].sym \in Syms
                          /\ quoteRun[r].pc # "funding" => quoteRun[r].batch = {}
                          /\ \A s \in quoteRun[r].seen : Settled(s)
  /\ \A s \in Syms :
       /\ latestQuote[s] \in {0, quotes[s]} /\ latestFunding[s] \in {0, funding[s]}
       /\ quotes[s] # 0 => latestQuote[s] = quotes[s] \/ Settled(s)
       /\ funding[s] # 0 =>
            \/ funding[s] \in {latestFunding[s]} \cup storedFunding[s] \cup lostFunding[s]
            \/ \E r \in QuoteRuns : funding[s] \in Taken(r, s)

BarRows == [Syms -> [Bars -> Nat]]
Saves == [sym : Syms, bar : Bars, version : Nat, pc : {"upsert", "published"}]
CandleTypeOK ==
  /\ newest \in BarRows /\ row \in BarRows /\ read \in BarRows /\ snap \in BarRows
  /\ raced \in [Syms -> [Bars -> BOOLEAN]] /\ saving \in SUBSET Saves
  /\ recompute \in [Syms -> {"none", "warm", "warmUpsert", "read", "compute"}]
  /\ dropped \in [Syms -> BOOLEAN] /\ faulty \in [Syms -> BOOLEAN]

Pending(s, b) == \E x \in saving : x.sym = s /\ x.bar = b /\ x.pc = "upsert"

\* Only the newest version of a bar that never raced is on its way to the table.
WritesInv ==
  /\ \A s \in Syms, b \in Bars : ~raced[s][b] =>
       /\ faulty[s] \/ row[s][b] = newest[s][b] \/ Pending(s, b)
       /\ recompute[s] = "warmUpsert" => read[s][b] = newest[s][b]
  /\ \A x \in saving : x.pc = "upsert" /\ ~raced[x.sym][x.bar] =>
       x.version = newest[x.sym][x.bar]

Warm(s) == Held(s) # {} /\ Cardinality(Held(s)) >= WarmBars
SnapIsCurrent(s) == Warm(s) => snap[s][LastBar(row[s])] = row[s][LastBar(row[s])]
\* A stored row is in a snapshot or a recompute that has yet to read it will run.
SnapInv ==
  \A s \in Syms :
    ~faulty[s] /\ ~dropped[s] /\ (\A x \in saving : x.sym = s => x.pc # "published") =>
      \/ recompute[s] \in {"warm", "warmUpsert", "read"}
      \/ recompute[s] = "compute" /\ read[s] = row[s]
      \/ recompute[s] = "none" /\ SnapIsCurrent(s)

\* A poll under way has fetched the slots up to n; while no other has written
\* since, no row is newer, and the prior row it found is still the one there is.
PollSound(poll, behind, n) ==
  /\ DOMAIN poll.got = {n} \/ (n >= 2 /\ DOMAIN poll.got = {n - 1, n})
  /\ ~behind => /\ DOMAIN oiRows \subseteq 1..n
                /\ poll.pc = "write" => poll.prior = priorOf(DOMAIN poll.got)

OiInv ==
  /\ oiTrue \in Seq(Int) /\ Len(oiTrue) >= 1
  /\ DOMAIN oiRows \subseteq 1..Len(oiTrue)
  /\ DOMAIN oiPoll = FlowPolls
  /\ \A p \in FlowPolls : oiPoll[p].pc # "idle" =>
       \E n \in 1..Len(oiTrue) : PollSound(oiPoll[p], p \in oiBehind, n)
  /\ OiDeltasChain

LiveInv == SocketInv /\ DrainInv /\ TickInv /\ QuoteInv /\ CandleTypeOK /\ WritesInv /\ SnapInv /\ OiInv

-----------------------------------------------------------------------------
(* What a step of one part leaves alone.                                     *)
LEMMA SocketFrame == SocketSteps => UNCHANGED <<venue, trades, buf, ticks, lostTicks, quoteVars, candleVars, oiVars>>
BY DEF SocketSteps, SocketOpen, SocketClosed, Reconnect, HandshakeDone, Stop, OnlySocket, tickVars

LEMMA TickFrame == TickSteps => OnlyTicks
BY DEF TickSteps, OnTrade, TickTimer, SpliceBuffer, TickRunDone, InsertTicks

LEMMA QuoteFrame == QuoteSteps => OnlyQuotes
BY DEF QuoteSteps, OnQuote, OnFunding, DrainQuotes, QuoteTimer, ClearQuotes, VisitQuote,
       UpsertQuote, UpsertFunding

LEMMA CandleFrame == CandleSteps => OnlyCandles
BY DEF CandleSteps, RecomputeStep, ReadWindow, PersistSnapshot, RecomputeEnds, WarmFetch,
       WarmUpsert, OnCandle, UpsertCandle, CandleThrows, recomputeFeatures

LEMMA OiFrame == OiSteps => OnlyOi
BY DEF OiSteps, pollFlow, FindPrior, upsertOpenInterest, PollFails, OiMoves

\* A flush of quotes never reopens the daemon, and ends it only after its own run.
LEMMA QuotePhase == QuoteSteps => phase' \in {phase, "stopped"}
BY DEF QuoteSteps, OnQuote, OnFunding, DrainQuotes, QuoteTimer, ClearQuotes, VisitQuote,
       UpsertQuote, UpsertFunding

-----------------------------------------------------------------------------
(* The socket.                                                               *)
LEMMA SocketStart == LiveInit => SocketInv
<1> SUFFICES ASSUME LiveInit PROVE SocketInv
  OBVIOUS
<1>1. phase = "opening" /\ ws = "connecting" /\ closed = FALSE /\ delay = 0 /\ timers = 0
  BY Zenon DEF LiveInit
<1>2. closed \in BOOLEAN /\ ~closed
  BY <1>1, Zenon
<1>3. OneConnection
  <2>1. (IF closed THEN 0 ELSE 1) = 1
    BY <1>2
  <2>2. QED
    BY <1>1, <2>1 DEF OneConnection
<1>4. delay \in 0..MaxDelay /\ timers \in Nat
  BY <1>1, LiveAssumption
<1>5. QED
  BY <1>1, <1>2, <1>3, <1>4, Zenon DEF SocketInv

LEMMA SocketStep == SocketInv /\ [LiveNext]_liveVars => SocketInv'
<1> SUFFICES ASSUME SocketInv, [LiveNext]_liveVars PROVE SocketInv'
  OBVIOUS
<1> USE LiveAssumption
<1>1. CASE UNCHANGED socketVars /\ phase' \in {phase, "stopped"}
  BY <1>1 DEF SocketInv, OneConnection, socketVars
<1>2. CASE SocketOpen
  BY <1>2 DEF SocketOpen, SocketInv, OneConnection
<1>3. CASE SocketClosed
  <2>1. CASE closed
    BY <1>3, <2>1 DEF SocketClosed, scheduleReconnect, SocketInv, OneConnection
  <2>2. CASE ~closed
    BY <1>3, <2>2 DEF SocketClosed, scheduleReconnect, SocketInv, OneConnection
  <2>3. QED
    BY <2>1, <2>2
<1>4. CASE Reconnect
  BY <1>4 DEF Reconnect, SocketInv, OneConnection
<1>5. CASE HandshakeDone
  BY <1>5 DEF HandshakeDone, SocketInv, OneConnection
<1>6. CASE Stop
  BY <1>6 DEF Stop, SocketInv, OneConnection
<1>7. CASE TickSteps
  BY <1>1, <1>7, TickFrame DEF OnlyTicks
<1>8. CASE QuoteSteps
  BY <1>1, <1>8, QuoteFrame, QuotePhase DEF OnlyQuotes
<1>9. CASE CandleSteps
  BY <1>1, <1>9, CandleFrame DEF OnlyCandles
<1>10. CASE OiSteps
  BY <1>1, <1>10, OiFrame DEF OnlyOi
<1>11. CASE UNCHANGED liveVars
  BY <1>1, <1>11 DEF liveVars
<1>12. QED
  BY <1>2, <1>3, <1>4, <1>5, <1>6, <1>7, <1>8, <1>9, <1>10, <1>11 DEF LiveNext, SocketSteps

\* The venue meets one well-behaved client, for any number of callers of the REST
\* client, any rate and any backoff: throttle() reserves a slot before it sleeps, and
\* only the close event of the one socket schedules a reconnect.
THEOREM OneClient == DaemonSpec => []VenueSeesOneClient
<1>1. DaemonInit => RestInv /\ SocketInv
  BY RestStart, SocketStart DEF DaemonInit
<1>2. RestInv /\ SocketInv /\ [DaemonNext]_daemonVars => RestInv' /\ SocketInv'
  <2>1. [DaemonNext]_daemonVars => [RestNext]_restVars /\ [LiveNext]_liveVars
    BY DEF DaemonNext, daemonVars
  <2>2. QED
    BY <2>1, RestStep, SocketStep
<1>3. RestInv /\ SocketInv => VenueSeesOneClient
  BY RestKeepsRate DEF VenueSeesOneClient, SocketInv
<1>4. QED
  BY <1>1, <1>2, <1>3, PTL DEF DaemonSpec

-----------------------------------------------------------------------------
(* Trades.                                                                   *)
LEMMA TickStart == LiveInit => TickInv /\ DrainInv
<1> SUFFICES ASSUME LiveInit PROVE TickInv /\ DrainInv
  OBVIOUS
<1>1. /\ phase = "opening" /\ trades = Zero /\ buf = None /\ ticks = None /\ lostTicks = None
      /\ atStop = Zero /\ tickRun = [r \in TickRuns |-> IdleTicks]
      /\ quoteRun = [r \in QuoteRuns |-> IdleQuotes]
  BY Zenon DEF LiveInit
<1>2. tickRun[Final].pc = "idle" /\ quoteRun[Final].pc = "idle"
  BY <1>1, LiveAssumption DEF IdleTicks, IdleQuotes
<1>3. \A s \in Syms : trades[s] = 0 /\ buf[s] = {} /\ ticks[s] = {} /\ lostTicks[s] = {} /\ atStop[s] = 0
  BY <1>1 DEF Zero, None
<1>4. \A r \in TickRuns : tickRun[r].pc = "idle" /\ tickRun[r].batch = {}
  BY <1>1 DEF IdleTicks
<1>5. \A s \in Syms : Inserting(s) = {}
  BY <1>4 DEF Inserting
<1>6. TickTypeOK
  <2>1. IdleTicks \in TickRunOf
    BY DEF IdleTicks, TickRunOf
  <2>2. Zero \in [Syms -> Nat] /\ None \in [Syms -> SUBSET Nat]
    BY DEF Zero, None
  <2> HIDE DEF IdleTicks, Zero, None
  <2>3. QED
    BY <1>1, <2>1, <2>2, Zenon DEF TickTypeOK
<1>7. TradesConserved
  <2> SUFFICES ASSUME NEW s \in Syms
               PROVE  /\ 1..trades[s] = buf[s] \cup Inserting(s) \cup ticks[s] \cup lostTicks[s]
                      /\ buf[s] \cap (Inserting(s) \cup ticks[s] \cup lostTicks[s]) = {}
                      /\ \A r, q \in TickRuns : r # q => tickRun[r].batch \cap tickRun[q].batch = {}
                                        \/ tickRun[r].sym # tickRun[q].sym
    BY DEF TradesConserved
  <2>1. 1..trades[s] = {}
    BY <1>3
  <2>2. QED
    BY <1>3, <1>4, <1>5, <2>1
<1>8. DrainInv
  BY <1>1, <1>2, <1>3 DEF DrainInv
<1>9. QED
  BY <1>3, <1>4, <1>6, <1>7, <1>8 DEF TickInv

\* A buffered, running or settled trade, element by element.
Conserved(s) ==
  /\ \A t \in 1..trades[s] : t \in buf[s] \/ t \in Inserting(s) \/ t \in ticks[s] \/ t \in lostTicks[s]
  /\ buf[s] \cup Inserting(s) \cup ticks[s] \cup lostTicks[s] \subseteq 1..trades[s]
  /\ buf[s] \cap (Inserting(s) \cup ticks[s] \cup lostTicks[s]) = {}
BatchesApart ==
  \A r, q \in TickRuns : r # q => tickRun[r].batch \cap tickRun[q].batch = {}
                                    \/ tickRun[r].sym # tickRun[q].sym

LEMMA Conservation == TradesConserved <=> \A s \in Syms : Conserved(s) /\ BatchesApart
BY DEF TradesConserved, Conserved, BatchesApart

LEMMA InInsert ==
  ASSUME NEW s, NEW t
  PROVE  t \in Inserting(s) <=>
           \E r \in TickRuns : tickRun[r].pc = "insert" /\ tickRun[r].sym = s /\ t \in tickRun[r].batch
BY DEF Inserting

LEMMA IdleWith ==
  ASSUME NEW p \in {"idle", "loop", "done"}
  PROVE  LET n == [IdleTicks EXCEPT !.pc = p]
         IN n.pc = p /\ n.batch = {} /\ n \in TickRunOf /\ n.pc # "insert" /\ n.at = 1
<1> DEFINE n == [IdleTicks EXCEPT !.pc = p]
<1>1. IdleTicks \in TickRunOf
  BY DEF IdleTicks, TickRunOf
<1>2. n.pc = p /\ n.batch = {} /\ n.pc # "insert" /\ n.at = 1
  BY DEF IdleTicks
<1>3. n \in TickRunOf
  BY <1>1 DEF TickRunOf
<1>4. QED
  BY <1>2, <1>3

\* A run that is not inserting starts, ends or is started by stop().
LEMMA RestartKeeps ==
  ASSUME TickInv, NEW r \in TickRuns, tickRun[r].pc # "insert", NEW p \in {"idle", "loop", "done"},
         tickRun' = [tickRun EXCEPT ![r] = [IdleTicks EXCEPT !.pc = p]],
         UNCHANGED <<trades, buf, ticks, lostTicks>>, atStop' = atStop \/ atStop' = trades
  PROVE  TickInv'
<1> DEFINE n == [IdleTicks EXCEPT !.pc = p]
<1>1. n.pc = p /\ n.batch = {} /\ n \in TickRunOf /\ n.pc # "insert"
  BY IdleWith
<1> HIDE DEF n
<1>2. /\ tickRun \in [TickRuns -> TickRunOf] /\ TickTypeOK
      /\ \A q \in TickRuns : tickRun'[q] = IF q = r THEN n ELSE tickRun[q]
  BY DEF TickInv, TickTypeOK, n
<1>3. TickTypeOK'
  <2>1. tickRun' \in [TickRuns -> TickRunOf]
    BY <1>1, <1>2 DEF n
  <2>2. atStop' \in [Syms -> Nat]
    BY <1>2 DEF TickTypeOK
  <2>3. QED
    BY <1>2, <2>1, <2>2 DEF TickTypeOK
<1>4. tickRun[r].batch = {}
  BY DEF TickInv
<1>5. \A s : Inserting(s)' = Inserting(s)
  BY <1>1, <1>2 DEF Inserting
<1>6. BatchesApart' \/ Syms = {}
  BY <1>1, <1>2, Conservation DEF TickInv, BatchesApart
<1>7. \A s \in Syms : Conserved(s)'
  <2> TAKE s \in Syms
  <2>1. Conserved(s) /\ Inserting(s)' = Inserting(s)
    BY <1>5, Conservation DEF TickInv
  <2>2. QED
    BY <2>1 DEF Conserved
<1>8. TradesConserved'
  BY <1>6, <1>7, Conservation DEF TradesConserved, Conserved, BatchesApart
<1>9. \A s \in Syms : atStop'[s] <= trades'[s] /\ buf'[s] \subseteq 1..trades'[s]
  <2> TAKE s \in Syms
  <2>1. trades[s] \in Nat /\ atStop[s] \in Nat /\ atStop[s] <= trades[s] /\ buf[s] \subseteq 1..trades[s]
    BY <1>2 DEF TickInv, TickTypeOK
  <2>2. trades'[s] = trades[s] /\ buf'[s] = buf[s] /\ (atStop'[s] = atStop[s] \/ atStop'[s] = trades[s])
    OBVIOUS
  <2>3. QED
    BY <2>1, <2>2
<1>10. \A q \in TickRuns : IF tickRun'[q].pc = "insert" THEN tickRun'[q].sym \in Syms
                           ELSE tickRun'[q].batch = {}
  BY <1>1, <1>2 DEF TickInv
<1>11. QED
  BY <1>3, <1>8, <1>9, <1>10 DEF TickInv

LEMMA TradeKeeps == ASSUME TickInv, NEW s \in Syms, OnTrade(s) PROVE TickInv'
<1>1. /\ trades' = [trades EXCEPT ![s] = @ + 1] /\ buf' = [buf EXCEPT ![s] = @ \cup {trades[s] + 1}]
      /\ UNCHANGED <<tickRun, ticks, lostTicks, atStop>> /\ TickTypeOK
  BY DEF OnTrade, TickInv
<1>2. TickTypeOK'
  <2>1. trades[s] + 1 \in Nat
    BY <1>1 DEF TickTypeOK
  <2>2. trades' \in [Syms -> Nat] /\ buf' \in [Syms -> SUBSET Nat]
    BY <1>1, <2>1 DEF TickTypeOK
  <2>3. QED
    BY <1>1, <2>2 DEF TickTypeOK
<1>3. \A z : Inserting(z)' = Inserting(z)
  BY <1>1 DEF Inserting
<1>4. \A z \in Syms : Conserved(z)'
  <2> TAKE z \in Syms
  <2>1. Conserved(z) /\ Inserting(z)' = Inserting(z) /\ trades[z] \in Nat
    BY <1>1, <1>3, Conservation DEF TickInv, TickTypeOK
  <2>2. CASE z # s
    <3>1. trades'[z] = trades[z] /\ buf'[z] = buf[z]
      BY <1>1, <2>2 DEF TickTypeOK
    <3>2. QED
      BY <1>1, <2>1, <3>1 DEF Conserved
  <2>3. CASE z = s
    <3>1. trades'[z] = trades[z] + 1 /\ buf'[z] = buf[z] \cup {trades[z] + 1}
      BY <1>1, <2>3 DEF TickTypeOK
    <3>2. /\ 1..(trades[z] + 1) = (1..trades[z]) \cup {trades[z] + 1}
          /\ trades[z] + 1 \notin 1..trades[z]
      BY <2>1
    <3>3. QED
      BY <1>1, <2>1, <3>1, <3>2 DEF Conserved
  <2>4. QED
    BY <2>2, <2>3
<1>5. BatchesApart'
  BY <1>1, Conservation DEF TickInv, BatchesApart
<1>6. TradesConserved'
  BY <1>4, <1>5 DEF TradesConserved, Conserved, BatchesApart
<1>7. \A z \in Syms : atStop'[z] <= trades'[z] /\ buf'[z] \subseteq 1..trades'[z]
  <2> TAKE z \in Syms
  <2>1. /\ trades[z] \in Nat /\ atStop[z] \in Nat /\ atStop[z] <= trades[z] /\ atStop'[z] = atStop[z]
        /\ trades'[z] \in Nat /\ trades'[z] >= trades[z]
    BY <1>1 DEF TickInv, TickTypeOK
  <2>2. buf'[z] \subseteq 1..trades'[z]
    BY <1>4 DEF Conserved
  <2>3. QED
    BY <2>1, <2>2
<1>8. QED
  BY <1>1, <1>2, <1>6, <1>7 DEF TickInv

\* The least index of a symbol with trades, at or after the run's place.
LEMMA Least ==
  ASSUME NEW S \in SUBSET Nat, S # {}
  PROVE  \E m \in S : \A k \in S : m <= k
<1>1. IsWellFoundedOn(OpToRel(<, Nat), Nat)
  BY NatLessThanWellFounded
<1>2. PICK m \in S : \A k \in S : ~(<<k, m>> \in OpToRel(<, Nat))
  BY <1>1, WFMin
<1>3. \A k \in S : ~(k < m)
  BY <1>2 DEF OpToRel
<1>4. QED
  BY <1>3

LEMMA AheadIsPlace ==
  ASSUME TickInv, NEW r \in TickRuns, NEW i \in Ahead(r)
  PROVE  i \in Nat /\ i \in 1..Len(LiveSymbols) /\ LiveSymbols[i] \in Syms
<1>1. tickRun[r].at \in Nat \ {0}
  <2>1. tickRun[r] \in TickRunOf
    BY DEF TickInv, TickTypeOK
  <2>2. QED
    BY <2>1 DEF TickRunOf
<1>2. Len(LiveSymbols) \in Nat /\ DOMAIN LiveSymbols = 1..Len(LiveSymbols)
  BY LiveAssumption
<1>3. i \in 1..Len(LiveSymbols)
  BY <1>1, <1>2 DEF Ahead
<1>4. LiveSymbols[i] \in Syms
  BY <1>2, <1>3 DEF Syms, Range
<1>5. QED
  BY <1>2, <1>3, <1>4

LEMMA NextBuffer ==
  ASSUME TickInv, NEW r \in TickRuns, Ahead(r) # {}
  PROVE  LET i == CHOOSE i \in Ahead(r) : \A j \in Ahead(r) : i <= j
         IN i \in Ahead(r) /\ \A j \in Ahead(r) : i <= j
<1>1. Ahead(r) \in SUBSET Nat
  BY AheadIsPlace
<1>2. \E i \in Ahead(r) : \A j \in Ahead(r) : i <= j
  BY <1>1, Least
<1>3. QED
  BY <1>2

LEMMA SpliceKeeps == ASSUME TickInv, NEW r \in TickRuns, SpliceBuffer(r) PROVE TickInv'
<1> DEFINE i == CHOOSE i \in Ahead(r) : \A j \in Ahead(r) : i <= j
           s == LiveSymbols[i]
           n == [pc |-> "insert", at |-> i + 1, sym |-> s, batch |-> buf[s]]
<1>1. i \in Ahead(r) /\ tickRun[r].pc = "loop"
  BY NextBuffer DEF SpliceBuffer
<1>2. /\ tickRun' = [tickRun EXCEPT ![r] = n] /\ buf' = [buf EXCEPT ![s] = {}]
      /\ UNCHANGED <<trades, ticks, lostTicks, atStop>>
  BY DEF SpliceBuffer
<1> HIDE DEF i
<1>3. i \in Nat /\ s \in Syms
  BY <1>1, AheadIsPlace
<1> HIDE DEF s
<1>4. n.pc = "insert" /\ n.sym = s /\ n.batch = buf[s] /\ n \in TickRunOf
  <2>0. buf[s] \in SUBSET Nat
    BY <1>3 DEF TickInv, TickTypeOK
  <2>a. i + 1 \in Nat \ {0}
    BY <1>3
  <2>b. s \in Syms \cup {""}
    BY <1>3, Zenon
  <2>1. buf[s] \in SUBSET Nat /\ i + 1 \in Nat \ {0} /\ s \in Syms \cup {""}
    BY <2>0, <2>a, <2>b, Zenon
  <2>2. n.pc = "insert" /\ n.sym = s /\ n.batch = buf[s]
    OBVIOUS
  <2>3. n \in TickRunOf
    BY <2>1 DEF TickRunOf
  <2>4. QED
    BY <2>2, <2>3
<1> HIDE DEF n
<1>5. /\ tickRun \in [TickRuns -> TickRunOf] /\ TickTypeOK
      /\ \A q \in TickRuns : tickRun'[q] = IF q = r THEN n ELSE tickRun[q]
      /\ \A z \in Syms : buf'[z] = IF z = s THEN {} ELSE buf[z]
      /\ tickRun[r].batch = {}
  BY <1>1, <1>2 DEF TickInv, TickTypeOK
<1>6. TickTypeOK'
  <2>1. tickRun' \in [TickRuns -> TickRunOf] /\ buf' \in [Syms -> SUBSET Nat]
    BY <1>2, <1>4, <1>5 DEF TickTypeOK
  <2>2. QED
    BY <1>2, <1>5, <2>1 DEF TickTypeOK
<1>7. \A z : Inserting(z)' = IF z = s THEN Inserting(z) \cup buf[s] ELSE Inserting(z)
  BY <1>1, <1>4, <1>5 DEF Inserting
<1>8. \A z \in Syms : Conserved(z)'
  <2> TAKE z \in Syms
  <2>1. Conserved(z) /\ Inserting(z)' = (IF z = s THEN Inserting(z) \cup buf[s] ELSE Inserting(z))
        /\ buf'[z] = (IF z = s THEN {} ELSE buf[z])
    BY <1>5, <1>7, Conservation DEF TickInv
  <2>2. QED
    BY <1>2, <2>1 DEF Conserved
<1>9. BatchesApart'
  <2> SUFFICES ASSUME NEW p \in TickRuns, NEW q \in TickRuns, p # q
               PROVE  tickRun'[p].batch \cap tickRun'[q].batch = {} \/ tickRun'[p].sym # tickRun'[q].sym
    BY DEF BatchesApart
  <2>1. \A x \in TickRuns : tickRun[x].batch \cap buf[s] = {} \/ tickRun[x].sym # s
    <3> TAKE x \in TickRuns
    <3>1. CASE tickRun[x].pc # "insert"
      BY <3>1 DEF TickInv
    <3>2. CASE tickRun[x].pc = "insert" /\ tickRun[x].sym = s
      <4>1. tickRun[x].batch \subseteq Inserting(s)
        BY <3>2 DEF Inserting
      <4>2. QED
        BY <1>3, <4>1, Conservation DEF TickInv, Conserved
    <3>3. QED
      BY <3>1, <3>2
  <2>2. CASE p # r /\ q # r
    <3>1. tickRun'[p] = tickRun[p] /\ tickRun'[q] = tickRun[q] /\ BatchesApart
      BY <1>3, <1>5, <2>2, Conservation DEF TickInv
    <3>2. QED
      BY <3>1 DEF BatchesApart
  <2>3. CASE p = r
    BY <1>4, <1>5, <2>1, <2>3
  <2>4. CASE q = r
    BY <1>4, <1>5, <2>1, <2>4
  <2>5. QED
    BY <2>2, <2>3, <2>4
<1>10. TradesConserved'
  BY <1>8, <1>9 DEF TradesConserved, Conserved, BatchesApart
<1>11. \A z \in Syms : atStop'[z] <= trades'[z] /\ buf'[z] \subseteq 1..trades'[z]
  BY <1>2, <1>5 DEF TickInv
<1>12. \A q \in TickRuns : IF tickRun'[q].pc = "insert" THEN tickRun'[q].sym \in Syms
                           ELSE tickRun'[q].batch = {}
  BY <1>3, <1>4, <1>5 DEF TickInv
<1>13. QED
  BY <1>6, <1>10, <1>11, <1>12 DEF TickInv

LEMMA InsertKeeps ==
  ASSUME TickInv, NEW r \in TickRuns, NEW k \in 0..MaxTrades, InsertTicks(r, k) PROVE TickInv'
<1>0. tickRun[r].pc = "insert" /\ tickRun[r].sym \in Syms
  BY DEF InsertTicks, TickInv
<1>s. PICK s \in Syms : s = tickRun[r].sym
  BY <1>0
<1> DEFINE b == tickRun[r].batch
           kept == {t \in b : t <= k}
           n == tickRun'[r]
<1>1. /\ tickRun[r].pc = "insert" /\ UNCHANGED <<trades, buf, atStop>>
      /\ ticks' = [ticks EXCEPT ![s] = @ \cup kept]
      /\ lostTicks' = [lostTicks EXCEPT ![s] = @ \cup (b \ kept)]
      /\ tickRun' = [tickRun EXCEPT ![r].pc = "loop", ![r].batch = {}]
  BY <1>s DEF InsertTicks
<1>2. tickRun[r] \in TickRunOf /\ s \in Syms /\ TickTypeOK
  BY <1>1 DEF TickInv, TickTypeOK
<1>3. /\ tickRun' = [tickRun EXCEPT ![r] = n]
      /\ n = [tickRun[r] EXCEPT !.pc = "loop", !.batch = {}]
  BY <1>1, <1>2 DEF TickTypeOK
<1>4. n.pc = "loop" /\ n.batch = {} /\ n \in TickRunOf
  BY <1>2, <1>3 DEF TickRunOf
<1>5. b \in SUBSET Nat
  BY <1>2 DEF TickRunOf
<1> HIDE DEF n
<1>6. /\ \A q \in TickRuns : tickRun'[q] = IF q = r THEN n ELSE tickRun[q]
      /\ \A z \in Syms : ticks'[z] = IF z = s THEN ticks[z] \cup kept ELSE ticks[z]
      /\ \A z \in Syms : lostTicks'[z] = IF z = s THEN lostTicks[z] \cup (b \ kept) ELSE lostTicks[z]
  BY <1>1, <1>2, <1>3 DEF TickTypeOK
<1>7. TickTypeOK'
  <2>1. tickRun' \in [TickRuns -> TickRunOf]
    BY <1>2, <1>3, <1>4 DEF TickTypeOK
  <2>2. ticks' \in [Syms -> SUBSET Nat] /\ lostTicks' \in [Syms -> SUBSET Nat]
    BY <1>1, <1>2, <1>5 DEF TickTypeOK
  <2>3. QED
    BY <1>1, <1>2, <2>1, <2>2 DEF TickTypeOK
<1>8. /\ \A z : z # s => Inserting(z)' = Inserting(z)
      /\ Inserting(s) = Inserting(s)' \cup b
  <2>1. \A z : Inserting(z)' = UNION {tickRun[q].batch : q \in {q \in TickRuns \ {r} :
                                        tickRun[q].pc = "insert" /\ tickRun[q].sym = z}}
    BY <1>4, <1>6 DEF Inserting
  <2>2. \A z : Inserting(z) = UNION {tickRun[q].batch : q \in {q \in TickRuns :
                                       tickRun[q].pc = "insert" /\ tickRun[q].sym = z}}
    BY DEF Inserting
  <2>3. ASSUME NEW z, z # s PROVE Inserting(z)' = Inserting(z)
    BY <1>s, <2>1, <2>2, <2>3
  <2>4. Inserting(s) = Inserting(s)' \cup b
    BY <1>0, <1>s, <2>1, <2>2
  <2>5. QED
    BY <2>3, <2>4
<1>9. \A z \in Syms : Conserved(z)'
  <2> TAKE z \in Syms
  <2>1. Conserved(z)
    BY Conservation DEF TickInv
  <2>2. CASE z # s
    <3>1. ticks'[z] = ticks[z] /\ lostTicks'[z] = lostTicks[z] /\ Inserting(z)' = Inserting(z)
      BY <1>6, <1>8, <2>2
    <3>2. QED
      BY <1>1, <2>1, <3>1 DEF Conserved
  <2>3. CASE z = s
    <3>1. ticks'[z] = ticks[z] \cup kept /\ lostTicks'[z] = lostTicks[z] \cup (b \ kept)
          /\ Inserting(z) = Inserting(z)' \cup b
      BY <1>6, <1>8, <2>3
    <3>2. ticks'[z] \cup lostTicks'[z] = ticks[z] \cup lostTicks[z] \cup b
      BY <3>1
    <3>3. buf[z] \cup Inserting(z) \cup ticks[z] \cup lostTicks[z]
            = buf[z] \cup Inserting(z)' \cup ticks'[z] \cup lostTicks'[z]
          /\ Inserting(z) \cup ticks[z] \cup lostTicks[z]
            = Inserting(z)' \cup ticks'[z] \cup lostTicks'[z]
      BY <3>1, <3>2
    <3>4. 1..trades[z] = buf[z] \cup Inserting(z) \cup ticks[z] \cup lostTicks[z]
          /\ buf[z] \cap (Inserting(z) \cup ticks[z] \cup lostTicks[z]) = {}
      BY DEF TickInv, TradesConserved
    <3>5. 1..trades'[z] = buf'[z] \cup Inserting(z)' \cup ticks'[z] \cup lostTicks'[z]
          /\ buf'[z] \cap (Inserting(z)' \cup ticks'[z] \cup lostTicks'[z]) = {}
      BY <1>1, <3>3, <3>4
    <3>6. QED
      BY <3>5 DEF Conserved
  <2>4. QED
    BY <2>2, <2>3
<1>10. BatchesApart'
  <2>1. BatchesApart
    BY <1>2, Conservation DEF TickInv
  <2>2. QED
    BY <1>4, <1>6, <2>1 DEF BatchesApart
<1>11. TradesConserved'
  BY <1>9, <1>10 DEF TradesConserved, Conserved, BatchesApart
<1>12. \A z \in Syms : atStop'[z] <= trades'[z] /\ buf'[z] \subseteq 1..trades'[z]
  BY <1>1 DEF TickInv
<1>13. \A q \in TickRuns : IF tickRun'[q].pc = "insert" THEN tickRun'[q].sym \in Syms
                           ELSE tickRun'[q].batch = {}
  BY <1>4, <1>6 DEF TickInv
<1>14. QED
  BY <1>7, <1>11, <1>12, <1>13 DEF TickInv

LEMMA TicksUntouched == TickInv /\ UNCHANGED tickVars => TickInv'
<1> SUFFICES ASSUME TickInv, UNCHANGED tickVars PROVE TickInv'
  OBVIOUS
<1>1. UNCHANGED <<trades, buf, tickRun, ticks, lostTicks, atStop>>
  BY DEF tickVars
<1>2. \A s : Inserting(s)' = Inserting(s)
  BY <1>1 DEF Inserting
<1>3. TradesConserved'
  BY <1>1, <1>2 DEF TickInv, TradesConserved
<1>4. QED
  BY <1>1, <1>3 DEF TickInv, TickTypeOK

LEMMA TickStep == TickInv /\ DrainInv /\ [LiveNext]_liveVars => TickInv'
<1> SUFFICES ASSUME TickInv, DrainInv, [LiveNext]_liveVars PROVE TickInv'
  OBVIOUS
<1>1. CASE TickSteps
  <2>1. ASSUME NEW r \in TickRuns, TickTimer(r) PROVE TickInv'
    BY <2>1, RestartKeeps DEF TickTimer
  <2>2. ASSUME NEW r \in TickRuns, TickRunDone(r) PROVE TickInv'
    <3>1. CASE r = Final
      BY <2>2, <3>1, RestartKeeps DEF TickRunDone
    <3>2. CASE r # Final
      BY <2>2, <3>2, RestartKeeps DEF TickRunDone
    <3>3. QED
      BY <3>1, <3>2
  <2>3. QED
    BY <1>1, <2>1, <2>2, TradeKeeps, SpliceKeeps, InsertKeeps DEF TickSteps
<1>2. CASE Stop
  <2>1. tickRun[Final].pc # "insert" /\ Final \in TickRuns
    BY <1>2, LiveAssumption DEF Stop, DrainInv
  <2>2. QED
    BY <1>2, <2>1, RestartKeeps DEF Stop
<1>3. CASE SocketOpen \/ SocketClosed \/ Reconnect \/ HandshakeDone
  BY <1>3, TicksUntouched DEF SocketOpen, SocketClosed, Reconnect, HandshakeDone, OnlySocket
<1>4. CASE QuoteSteps
  BY <1>4, QuoteFrame, TicksUntouched DEF OnlyQuotes
<1>5. CASE CandleSteps
  BY <1>5, CandleFrame, TicksUntouched DEF OnlyCandles
<1>6. CASE OiSteps
  BY <1>6, OiFrame, TicksUntouched DEF OnlyOi
<1>7. CASE UNCHANGED liveVars
  BY <1>7, TicksUntouched DEF liveVars
<1>8. QED
  BY <1>1, <1>2, <1>3, <1>4, <1>5, <1>6, <1>7 DEF LiveNext, SocketSteps

-----------------------------------------------------------------------------
(* The final flush.                                                          *)
Swept(s) ==
  \A t \in buf[s] : t <= atStop[s] =>
     /\ tickRun[Final].pc # "done"
     /\ tickRun[Final].pc \in {"loop", "insert"} =>
          \A i \in 1..Len(LiveSymbols) : LiveSymbols[i] = s => i >= tickRun[Final].at
DrainPhases ==
  /\ phase \in {"opening", "live"} => tickRun[Final].pc = "idle"
  /\ phase = "stopped" => tickRun[Final].pc = "done"
  /\ quoteRun[Final].pc # "idle" => tickRun[Final].pc = "done"

LEMMA DrainParts == DrainInv <=> DrainPhases /\ \A s \in Syms : Swept(s)
BY DEF DrainInv, DrainPhases, Swept

LEMMA PlaceOf == \A s \in Syms : \E i \in 1..Len(LiveSymbols) : LiveSymbols[i] = s
<1>1. DOMAIN LiveSymbols = 1..Len(LiveSymbols)
  BY LiveAssumption
<1>2. QED
  BY <1>1 DEF Syms, Range

LEMMA TickDrain == ASSUME TickInv, DrainInv, TickSteps PROVE DrainInv'
<1> USE LiveAssumption
<1>0. UNCHANGED <<phase, quoteRun>> /\ DrainPhases /\ \A s \in Syms : Swept(s)
  BY TickFrame, DrainParts DEF OnlyTicks, quoteVars
<1>t. TickTypeOK /\ tickRun[Final] \in TickRunOf
  BY DEF TickInv, TickTypeOK
<1>p. Len(LiveSymbols) \in Nat /\ tickRun[Final].at \in Nat \ {0}
  <2>1. Len(LiveSymbols) \in Nat
    OBVIOUS
  <2>2. tickRun[Final].at \in Nat \ {0}
    BY <1>t, Zenon DEF TickRunOf
  <2>3. QED
    BY <2>1, <2>2
<1>1. ASSUME NEW z \in Syms, OnTrade(z) PROVE DrainInv'
  <2>1. /\ UNCHANGED <<tickRun, atStop>> /\ buf' = [buf EXCEPT ![z] = @ \cup {trades[z] + 1}]
    BY <1>1 DEF OnTrade
  <2>2. \A s \in Syms : Swept(s)'
    <3> TAKE s \in Syms
    <3>1. \A t \in buf'[s] : t <= atStop[s] => t \in buf[s]
      <4>1. CASE s # z
        BY <1>t, <2>1, <4>1 DEF TickTypeOK
      <4>2. CASE s = z
        <5>1. buf'[s] = buf[s] \cup {trades[s] + 1}
          BY <1>t, <2>1, <4>2 DEF TickTypeOK
        <5>2. trades[s] \in Nat /\ atStop[s] \in Nat /\ atStop[s] <= trades[s]
          BY <1>t DEF TickTypeOK, TickInv
        <5>3. ~(trades[s] + 1 <= atStop[s])
          BY <5>2
        <5>4. QED
          BY <5>1, <5>3
      <4>3. QED
        BY <4>1, <4>2
    <3>2. Swept(s)
      BY <1>0
    <3>3. QED
      BY <2>1, <3>1, <3>2 DEF Swept
  <2>3. DrainPhases'
    BY <1>0, <2>1 DEF DrainPhases
  <2>4. QED
    BY <2>2, <2>3, DrainParts DEF DrainInv, DrainPhases, Swept
<1>2. ASSUME NEW r \in TickRuns, TickTimer(r) \/ (r # Final /\ TickRunDone(r)) PROVE DrainInv'
  <2>1. UNCHANGED <<buf, atStop>> /\ tickRun'[Final] = tickRun[Final]
    BY <1>2, <1>t DEF TickTimer, TickRunDone, TickTypeOK
  <2>2. QED
    BY <1>0, <2>1 DEF DrainInv, DrainPhases, Swept
<1>3. ASSUME NEW r \in TickRuns, SpliceBuffer(r) PROVE DrainInv'
  <2> DEFINE i == CHOOSE i \in Ahead(r) : \A j \in Ahead(r) : i <= j
  <2>1. tickRun[r].pc = "loop" /\ i \in Ahead(r) /\ \A j \in Ahead(r) : i <= j
    BY <1>3, NextBuffer DEF SpliceBuffer
  <2>2. /\ tickRun' = [tickRun EXCEPT ![r] = [pc |-> "insert", at |-> i + 1,
                                 sym |-> LiveSymbols[i], batch |-> buf[LiveSymbols[i]]]]
        /\ buf' = [buf EXCEPT ![LiveSymbols[i]] = {}] /\ atStop' = atStop
    BY <1>3 DEF SpliceBuffer
  <2>a. i \in Nat /\ LiveSymbols[i] \in Syms
    BY <2>1, AheadIsPlace
  <2> HIDE DEF i
  <2>3. \A s \in Syms : buf'[s] = IF s = LiveSymbols[i] THEN {} ELSE buf[s]
    BY <1>t, <2>2 DEF TickTypeOK
  <2>4. CASE r # Final
    <3>1. tickRun'[Final] = tickRun[Final]
      BY <1>t, <2>2, <2>4 DEF TickTypeOK
    <3>2. QED
      BY <1>0, <2>2, <2>3, <3>1 DEF DrainInv, DrainPhases, Swept
  <2>5. CASE r = Final
    <3>1. tickRun'[Final].pc = "insert" /\ tickRun'[Final].at = i + 1
      BY <1>t, <2>2, <2>5 DEF TickTypeOK
    <3>2. DrainPhases'
      BY <1>0, <2>1, <2>5, <3>1 DEF DrainPhases
    <3>3. ASSUME NEW s \in Syms, NEW t \in buf'[s], t <= atStop'[s],
                 NEW j \in 1..Len(LiveSymbols), LiveSymbols[j] = s
          PROVE  j >= i + 1
      <4>1. s # LiveSymbols[i] /\ t \in buf[s]
        BY <2>3, <3>3
      <4>2. j >= tickRun[Final].at
        BY <1>0, <2>1, <2>2, <2>5, <3>3, <4>1 DEF Swept
      <4>3. j \in Ahead(r)
        BY <1>p, <2>5, <3>3, <4>1, <4>2 DEF Ahead
      <4>4. i <= j /\ i # j
        BY <2>1, <3>3, <4>1, <4>3
      <4>5. QED
        BY <2>a, <4>4
    <3>4. QED
      BY <3>1, <3>2, <3>3 DEF DrainInv, DrainPhases
  <2>6. QED
    BY <2>4, <2>5
<1>4. ASSUME NEW r \in TickRuns, NEW k \in 0..MaxTrades, InsertTicks(r, k) PROVE DrainInv'
  <2>1. UNCHANGED <<buf, atStop>> /\ tickRun[r].pc = "insert"
        /\ tickRun' = [tickRun EXCEPT ![r].pc = "loop", ![r].batch = {}]
    BY <1>4 DEF InsertTicks
  <2>2. CASE r # Final
    <3>1. tickRun'[Final] = tickRun[Final]
      BY <1>t, <2>1, <2>2 DEF TickTypeOK
    <3>2. QED
      BY <1>0, <2>1, <3>1 DEF DrainInv, DrainPhases, Swept
  <2>3. CASE r = Final
    <3>1. tickRun'[Final] = [tickRun[Final] EXCEPT !.pc = "loop", !.batch = {}]
      BY <1>t, <2>1, <2>3 DEF TickTypeOK
    <3>2. tickRun'[Final].pc = "loop" /\ tickRun'[Final].at = tickRun[Final].at
      BY <1>t, <3>1 DEF TickRunOf
    <3>3. QED
      BY <1>0, <2>1, <2>3, <3>2 DEF DrainInv, DrainPhases, Swept
  <2>4. QED
    BY <2>2, <2>3
<1>5. CASE TickRunDone(Final)
  <2>1. UNCHANGED <<buf, atStop>> /\ tickRun[Final].pc = "loop" /\ Ahead(Final) = {}
        /\ tickRun'[Final] = [IdleTicks EXCEPT !.pc = "done"]
    BY <1>5, <1>t DEF TickRunDone, TickTypeOK
  <2>2. tickRun'[Final].pc = "done"
    BY <2>1, IdleWith
  <2>3. ASSUME NEW s \in Syms, NEW t \in buf[s], t <= atStop[s] PROVE FALSE
    <3>1. PICK j \in 1..Len(LiveSymbols) : LiveSymbols[j] = s
      BY PlaceOf
    <3>2. j >= tickRun[Final].at
      BY <1>0, <2>1, <2>3, <3>1 DEF Swept
    <3>3. j \in Ahead(Final)
      BY <1>p, <2>3, <3>1, <3>2 DEF Ahead
    <3>4. QED
      BY <2>1, <3>3
  <2>4. QED
    BY <1>0, <2>1, <2>2, <2>3 DEF DrainInv, DrainPhases
<1>6. QED
  BY <1>1, <1>2, <1>3, <1>4, <1>5 DEF TickSteps

\* A flush of the quotes belongs to stop() only once the trades are out.
LEMMA QuoteDrain == ASSUME QuoteTypeOK, DrainInv, QuoteSteps PROVE DrainInv'
<1> USE LiveAssumption
<1>0. UNCHANGED <<buf, tickRun, atStop>>
  BY QuoteFrame DEF OnlyQuotes, tickVars
<1>t. quoteRun \in [QuoteRuns -> QuoteRunOf] /\ quoteRun[Final] \in QuoteRunOf
  BY DEF QuoteTypeOK
<1>1. /\ quoteRun'[Final].pc # "idle" => quoteRun[Final].pc # "idle" \/ tickRun[Final].pc = "done"
      /\ phase' # phase => phase' = "stopped" /\ quoteRun[Final].pc # "idle"
  <2>1. ASSUME NEW s \in Syms, OnQuote(s) \/ OnFunding(s) PROVE UNCHANGED <<phase, quoteRun>>
    BY <2>1 DEF OnQuote, OnFunding
  <2>2. CASE DrainQuotes
    BY <2>2 DEF DrainQuotes
  <2>3. ASSUME NEW r \in QuoteRuns, QuoteTimer(r)
        PROVE  phase' = phase /\ quoteRun'[Final] = quoteRun[Final]
    BY <1>t, <2>3 DEF QuoteTimer, StartQuoteRun
  <2>4. ASSUME NEW r \in QuoteRuns, NEW s \in Syms, VisitQuote(r, s)
        PROVE  phase' = phase /\ (r # Final => quoteRun'[Final] = quoteRun[Final])
               /\ quoteRun[r].pc # "idle"
    BY <1>t, <2>4 DEF VisitQuote
  <2>5. ASSUME NEW r \in QuoteRuns, NEW ok \in BOOLEAN, UpsertQuote(r, ok)
        PROVE  phase' = phase /\ (r # Final => quoteRun'[Final] = quoteRun[Final])
               /\ quoteRun[r].pc # "idle"
    BY <1>t, <2>5 DEF UpsertQuote
  <2>6. ASSUME NEW r \in QuoteRuns, ClearQuotes(r)
        PROVE  phase' = phase /\ (r # Final => quoteRun'[Final].pc = quoteRun[Final].pc)
               /\ quoteRun[r].pc # "idle"
    <3>1. phase' = phase /\ quoteRun[r].pc # "idle"
      BY <2>6 DEF ClearQuotes
    <3>2. r # Final => quoteRun'[Final] = [quoteRun[Final] EXCEPT !.seen = {}]
      BY <2>6 DEF ClearQuotes
    <3>3. [quoteRun[Final] EXCEPT !.seen = {}].pc = quoteRun[Final].pc
      BY <1>t DEF QuoteRunOf
    <3>4. QED
      BY <3>1, <3>2, <3>3
  <2>7. ASSUME NEW r \in QuoteRuns, NEW ok \in BOOLEAN, UpsertFunding(r, ok)
        PROVE  /\ r # Final => quoteRun'[Final] = quoteRun[Final] /\ phase' = phase
               /\ quoteRun[r].pc # "idle" /\ phase' \in {phase, "stopped"}
    BY <1>t, <2>7 DEF UpsertFunding
  <2>8. QED
    BY <2>1, <2>2, <2>3, <2>4, <2>5, <2>6, <2>7 DEF QuoteSteps
<1>2. DrainPhases'
  BY <1>0, <1>1, DrainParts DEF DrainPhases
<1>3. QED
  BY <1>0, <1>2 DEF DrainInv, DrainPhases

LEMMA DrainStep ==
  TickInv /\ QuoteTypeOK /\ DrainInv /\ [LiveNext]_liveVars => DrainInv'
<1> SUFFICES ASSUME TickInv, QuoteTypeOK, DrainInv, [LiveNext]_liveVars PROVE DrainInv'
  OBVIOUS
<1>1. CASE UNCHANGED <<phase, buf, tickRun, atStop, quoteRun>>
  BY <1>1 DEF DrainInv
<1>2. CASE Stop
  <2>1. phase = "live" /\ phase' = "draining" /\ UNCHANGED <<buf, quoteRun>>
    BY <1>2 DEF Stop, quoteVars
  <2>2. tickRun'[Final] = [IdleTicks EXCEPT !.pc = "loop"]
    BY <1>2, LiveAssumption DEF Stop, TickInv, TickTypeOK
  <2>3. tickRun'[Final].pc = "loop" /\ tickRun'[Final].at = 1
    BY <2>2, IdleWith
  <2>4. quoteRun[Final].pc = "idle"
    BY <2>1 DEF DrainInv
  <2>5. QED
    BY <2>1, <2>3, <2>4, LiveAssumption DEF DrainInv
<1>3. CASE SocketOpen
  BY <1>3 DEF SocketOpen, OnlySocket, DrainInv, tickVars, quoteVars
<1>4. CASE SocketClosed \/ Reconnect \/ HandshakeDone
  BY <1>1, <1>4 DEF SocketClosed, Reconnect, HandshakeDone, OnlySocket, tickVars, quoteVars
<1>5. CASE CandleSteps
  BY <1>1, <1>5, CandleFrame DEF OnlyCandles, tickVars, quoteVars
<1>6. CASE OiSteps
  BY <1>1, <1>6, OiFrame DEF OnlyOi, tickVars, quoteVars
<1>7. CASE UNCHANGED liveVars
  BY <1>1, <1>7 DEF liveVars, tickVars, quoteVars
<1>8. QED
  BY <1>2, <1>3, <1>4, <1>5, <1>6, <1>7, TickDrain, QuoteDrain DEF LiveNext, SocketSteps

-----------------------------------------------------------------------------
(* Quotes and funding rates.                                                 *)
LEMMA IdleQuotesFields ==
  /\ IdleQuotes \in QuoteRunOf /\ IdleQuotes.pc = "idle" /\ IdleQuotes.seen = {} /\ IdleQuotes.batch = {}
  /\ LET n == [IdleQuotes EXCEPT !.pc = "loop"]
     IN n \in QuoteRunOf /\ n.pc = "loop" /\ n.seen = {} /\ n.batch = {}
<1>1. IdleQuotes \in QuoteRunOf
  BY DEF IdleQuotes, QuoteRunOf
<1>2. IdleQuotes.pc = "idle" /\ IdleQuotes.seen = {} /\ IdleQuotes.batch = {}
  BY DEF IdleQuotes
<1> DEFINE n == [IdleQuotes EXCEPT !.pc = "loop"]
<1>3. n \in QuoteRunOf
  BY <1>1 DEF QuoteRunOf
<1>4. n.pc = "loop" /\ n.seen = {} /\ n.batch = {}
  BY DEF IdleQuotes
<1>5. QED
  BY <1>1, <1>2, <1>3, <1>4

LEMMA QuoteStart == LiveInit => QuoteInv
<1> SUFFICES ASSUME LiveInit PROVE QuoteInv
  OBVIOUS
<1>1. /\ quotes = Zero /\ latestQuote = Zero /\ overtaken = Zero /\ quoteRows = None /\ lostQuotes = None
      /\ funding = Zero /\ latestFunding = Zero /\ storedFunding = None /\ lostFunding = None
      /\ quoteRun = [r \in QuoteRuns |-> IdleQuotes]
  BY Zenon DEF LiveInit
<1>2. Zero \in [Syms -> Nat] /\ None \in [Syms -> SUBSET Nat] /\ \A s \in Syms : Zero[s] = 0
  BY DEF Zero, None
<1>3. QuoteTypeOK
  <2>1. IdleQuotes \in QuoteRunOf
    BY IdleQuotesFields
  <2>2. QED
    BY <1>1, <1>2, <2>1 DEF QuoteTypeOK
<1>4. \A r \in QuoteRuns : quoteRun[r].pc = "idle" /\ quoteRun[r].seen = {} /\ quoteRun[r].batch = {}
  BY <1>1, IdleQuotesFields
<1>5. \A s \in Syms : quotes[s] = 0 /\ latestQuote[s] = 0 /\ funding[s] = 0 /\ latestFunding[s] = 0
  BY <1>1, <1>2
<1>6. QED
  BY <1>3, <1>4, <1>5 DEF QuoteInv

\* The parts of QuoteInv.
RunsSound == \A r \in QuoteRuns :
  /\ quoteRun[r].pc = "upsert" => quoteRun[r].sym \in Syms
  /\ quoteRun[r].pc # "funding" => quoteRun[r].batch = {}
SeenSettled == \A r \in QuoteRuns : \A s \in quoteRun[r].seen : Settled(s)
QuoteKept(s) == /\ latestQuote[s] \in {0, quotes[s]}
                /\ quotes[s] # 0 => latestQuote[s] = quotes[s] \/ Settled(s)
Offered(s) == \E r \in QuoteRuns : funding[s] \in Taken(r, s)
FundingKept(s) ==
  /\ latestFunding[s] \in {0, funding[s]}
  /\ funding[s] # 0 => \/ funding[s] \in {latestFunding[s]} \cup storedFunding[s] \cup lostFunding[s]
                       \/ Offered(s)

LEMMA QuoteParts ==
  QuoteInv <=> QuoteTypeOK /\ RunsSound /\ SeenSettled /\ \A s \in Syms : QuoteKept(s) /\ FundingKept(s)
BY DEF QuoteInv, RunsSound, SeenSettled, QuoteKept, FundingKept, Offered

fundingVars == <<funding, latestFunding, storedFunding, lostFunding>>
\* The batches of the runs decide what is offered.
LEMMA FundingUntouched ==
  ASSUME UNCHANGED fundingVars, \A r \in QuoteRuns : quoteRun'[r].batch = quoteRun[r].batch,
         NEW s \in Syms, FundingKept(s)
  PROVE  FundingKept(s)'
<1>1. \A r \in QuoteRuns : Taken(r, s)' = Taken(r, s)
  BY DEF Taken
<1>2. Offered(s)' = Offered(s)
  BY <1>1 DEF Offered, fundingVars
<1>3. QED
  BY <1>2 DEF FundingKept, fundingVars

\* A run that was idle starts with nothing seen and nothing taken.
LEMMA StartKeeps ==
  ASSUME QuoteInv, NEW r \in QuoteRuns, quoteRun[r].pc = "idle", StartQuoteRun(r),
         UNCHANGED <<quotes, latestQuote, overtaken, quoteRows, lostQuotes, fundingVars>>
  PROVE  QuoteInv'
<1> DEFINE n == [IdleQuotes EXCEPT !.pc = "loop"]
<1>1. n \in QuoteRunOf /\ n.pc = "loop" /\ n.seen = {} /\ n.batch = {}
  BY IdleQuotesFields
<1> HIDE DEF n
<1>2. QuoteTypeOK /\ RunsSound /\ SeenSettled /\ \A s \in Syms : QuoteKept(s) /\ FundingKept(s)
  BY QuoteParts
<1>3. quoteRun' = [quoteRun EXCEPT ![r] = n] /\ quoteRun \in [QuoteRuns -> QuoteRunOf]
  BY <1>2 DEF StartQuoteRun, n, QuoteTypeOK
<1>4. \A x \in QuoteRuns : quoteRun'[x] = IF x = r THEN n ELSE quoteRun[x]
  BY <1>3
<1>5. QuoteTypeOK'
  BY <1>1, <1>2, <1>3 DEF QuoteTypeOK, fundingVars
<1>6. \A s : Settled(s)' = Settled(s)
  <2>1. \A s : Written(s)' = Written(s)
    BY <1>1, <1>4 DEF Written
  <2>2. QED
    BY <2>1 DEF Settled
<1>7. RunsSound' /\ SeenSettled'
  BY <1>1, <1>2, <1>4, <1>6 DEF RunsSound, SeenSettled
<1>8. \A s \in Syms : QuoteKept(s)'
  BY <1>2, <1>6 DEF QuoteKept
<1>9. \A x \in QuoteRuns : quoteRun'[x].batch = quoteRun[x].batch
  BY <1>1, <1>2, <1>4 DEF RunsSound
<1>10. \A s \in Syms : FundingKept(s)'
  BY <1>2, <1>9, FundingUntouched
<1>11. QED
  BY <1>5, <1>7, <1>8, <1>10 DEF QuoteInv, RunsSound, SeenSettled, QuoteKept, FundingKept, Offered

LEMMA OnQuoteKeeps == ASSUME QuoteInv, NEW s \in Syms, OnQuote(s) PROVE QuoteInv'
<1>1. /\ quotes' = [quotes EXCEPT ![s] = @ + 1]
      /\ latestQuote' = [latestQuote EXCEPT ![s] = quotes[s] + 1]
      /\ overtaken' = IF \E r \in QuoteRuns : s \in quoteRun[r].seen
                      THEN [overtaken EXCEPT ![s] = quotes[s] + 1] ELSE overtaken
      /\ UNCHANGED <<quoteRun, quoteRows, lostQuotes, fundingVars>>
  BY DEF OnQuote, fundingVars
<1>2. QuoteTypeOK /\ RunsSound /\ SeenSettled /\ \A z \in Syms : QuoteKept(z) /\ FundingKept(z)
  BY QuoteParts
<1>3. quotes[s] + 1 \in Nat
  BY <1>2 DEF QuoteTypeOK
<1>4. QuoteTypeOK'
  <2>1. quotes' \in [Syms -> Nat] /\ latestQuote' \in [Syms -> Nat]
    BY <1>1, <1>2, <1>3 DEF QuoteTypeOK
  <2>2. overtaken' \in [Syms -> Nat]
    BY <1>1, <1>2, <1>3 DEF QuoteTypeOK
  <2>3. QED
    BY <1>1, <1>2, <2>1, <2>2 DEF QuoteTypeOK, fundingVars
<1>5. /\ quotes'[s] = quotes[s] + 1 /\ latestQuote'[s] = quotes[s] + 1
      /\ \A z \in Syms : z # s => quotes'[z] = quotes[z] /\ latestQuote'[z] = latestQuote[z]
                                  /\ overtaken'[z] = overtaken[z]
      /\ (\E r \in QuoteRuns : s \in quoteRun[r].seen) => overtaken'[s] = quotes[s] + 1
  BY <1>1, <1>2 DEF QuoteTypeOK
<1>6. \A z \in Syms : z # s => Settled(z)' = Settled(z)
  <2>1. \A z \in Syms : z # s => Written(z)' = Written(z)
    BY <1>1, <1>5 DEF Written
  <2>2. QED
    BY <1>1, <1>5, <2>1 DEF Settled
<1>7. SeenSettled'
  <2> SUFFICES ASSUME NEW r \in QuoteRuns, NEW z \in quoteRun[r].seen PROVE Settled(z)'
    BY <1>1 DEF SeenSettled
  <2>1. z \in Syms
    <3>1. quoteRun[r] \in QuoteRunOf
      BY <1>2 DEF QuoteTypeOK
    <3>2. QED
      BY <3>1 DEF QuoteRunOf
  <2>2. CASE z = s
    BY <1>5, <2>2 DEF Settled
  <2>3. CASE z # s
    BY <1>2, <1>6, <2>1, <2>3 DEF SeenSettled
  <2>4. QED
    BY <2>2, <2>3
<1>8. \A z \in Syms : QuoteKept(z)'
  BY <1>2, <1>5, <1>6 DEF QuoteKept
<1>9. RunsSound'
  BY <1>1, <1>2 DEF RunsSound
<1>10. \A z \in Syms : FundingKept(z)'
  BY <1>1, <1>2, FundingUntouched
<1>11. QED
  BY <1>4, <1>7, <1>8, <1>9, <1>10 DEF QuoteInv, RunsSound, SeenSettled, QuoteKept, FundingKept, Offered

LEMMA OnFundingKeeps == ASSUME QuoteInv, NEW s \in Syms, OnFunding(s) PROVE QuoteInv'
<1>1. /\ funding' = [funding EXCEPT ![s] = @ + 1]
      /\ latestFunding' = [latestFunding EXCEPT ![s] = funding[s] + 1]
      /\ UNCHANGED <<quotes, latestQuote, overtaken, quoteRun, quoteRows, lostQuotes,
                     storedFunding, lostFunding>>
  BY DEF OnFunding
<1>2. QuoteTypeOK /\ RunsSound /\ SeenSettled /\ \A z \in Syms : QuoteKept(z) /\ FundingKept(z)
  BY QuoteParts
<1>3. QuoteTypeOK'
  <2>1. funding[s] + 1 \in Nat
    BY <1>2 DEF QuoteTypeOK
  <2>2. funding' \in [Syms -> Nat] /\ latestFunding' \in [Syms -> Nat]
    BY <1>1, <1>2, <2>1 DEF QuoteTypeOK
  <2>3. QED
    BY <1>1, <1>2, <2>2 DEF QuoteTypeOK
<1>4. \A z : Settled(z)' = Settled(z)
  BY <1>1 DEF Settled, Written
<1>5. RunsSound' /\ SeenSettled' /\ \A z \in Syms : QuoteKept(z)'
  BY <1>1, <1>2, <1>4 DEF RunsSound, SeenSettled, QuoteKept
<1>6. \A z \in Syms : FundingKept(z)'
  <2> TAKE z \in Syms
  <2>1. CASE z = s
    BY <1>1, <1>2, <2>1 DEF FundingKept, QuoteTypeOK
  <2>2. CASE z # s
    <3>1. funding'[z] = funding[z] /\ latestFunding'[z] = latestFunding[z]
      BY <1>1, <1>2, <2>2 DEF QuoteTypeOK
    <3>2. Offered(z)' = Offered(z)
      BY <1>1, <3>1 DEF Offered, Taken
    <3>3. QED
      BY <1>1, <1>2, <3>1, <3>2 DEF FundingKept
  <2>3. QED
    BY <2>1, <2>2
<1>7. QED
  BY <1>3, <1>5, <1>6 DEF QuoteInv, RunsSound, SeenSettled, QuoteKept, FundingKept, Offered

LEMMA VisitKeeps ==
  ASSUME QuoteInv, NEW r \in QuoteRuns, NEW s \in Syms, VisitQuote(r, s) PROVE QuoteInv'
<1> DEFINE n == quoteRun'[r]
<1>1. /\ quoteRun[r].pc = "loop" /\ latestQuote[s] # 0
      /\ quoteRun' = [quoteRun EXCEPT ![r] =
           [quoteRun[r] EXCEPT !.pc = "upsert", !.seen = @ \cup {s}, !.sym = s, !.q = latestQuote[s]]]
      /\ UNCHANGED <<quotes, latestQuote, overtaken, quoteRows, lostQuotes, fundingVars>>
  BY DEF VisitQuote, Unseen, fundingVars
<1>2. QuoteTypeOK /\ RunsSound /\ SeenSettled /\ \A z \in Syms : QuoteKept(z) /\ FundingKept(z)
  BY QuoteParts
<1>3. /\ quoteRun \in [QuoteRuns -> QuoteRunOf] /\ quoteRun[r] \in QuoteRunOf
      /\ latestQuote[s] \in Nat
  BY <1>2 DEF QuoteTypeOK
<1>4. n = [quoteRun[r] EXCEPT !.pc = "upsert", !.seen = quoteRun[r].seen \cup {s},
                              !.sym = s, !.q = latestQuote[s]]
      /\ quoteRun' = [quoteRun EXCEPT ![r] = n]
  BY <1>1, <1>3
<1>5. n.pc = "upsert" /\ n.seen = quoteRun[r].seen \cup {s} /\ n.sym = s /\ n.q = latestQuote[s]
      /\ n.batch = quoteRun[r].batch
  BY <1>3, <1>4 DEF QuoteRunOf
<1>6. n \in QuoteRunOf
  <2>1. quoteRun[r].seen \cup {s} \in SUBSET Syms /\ s \in Syms \cup {""}
    BY <1>3, Zenon DEF QuoteRunOf
  <2> DEFINE e == quoteRun[r].seen \cup {s}
             m == quoteRun[r]
             l == latestQuote[s]
  <2>2. e \in SUBSET Syms /\ m \in QuoteRunOf /\ l \in Nat
        /\ n = [m EXCEPT !.pc = "upsert", !.seen = e, !.sym = s, !.q = l]
    BY <1>3, <1>4, <2>1
  <2> HIDE DEF n, e, m, l
  <2>3. QED
    BY <2>1, <2>2 DEF QuoteRunOf
<1> HIDE DEF n
<1>7. \A x \in QuoteRuns : quoteRun'[x] = IF x = r THEN n ELSE quoteRun[x]
  BY <1>3, <1>4
<1>8. QuoteTypeOK'
  <2>1. quoteRun' \in [QuoteRuns -> QuoteRunOf]
    BY <1>3, <1>4, <1>6
  <2>2. QED
    BY <1>1, <1>2, <2>1 DEF QuoteTypeOK, fundingVars
<1>9. \A z : Settled(z) => Settled(z)'
  <2>1. \A z : Written(z) => Written(z)'
    BY <1>1, <1>7 DEF Written
  <2>2. QED
    BY <1>1, <2>1 DEF Settled
<1>10. Settled(s)'
  <2>1. latestQuote[s] = quotes[s]
    BY <1>1, <1>2 DEF QuoteKept
  <2>2. Written(s)'
    BY <1>1, <1>5, <1>7, <2>1 DEF Written
  <2>3. QED
    BY <2>2 DEF Settled
<1>11. SeenSettled'
  BY <1>2, <1>5, <1>7, <1>9, <1>10 DEF SeenSettled
<1>12. RunsSound'
  BY <1>1, <1>2, <1>5, <1>7 DEF RunsSound
<1>13. \A z \in Syms : QuoteKept(z)'
  BY <1>1, <1>2, <1>9 DEF QuoteKept
<1>14. \A x \in QuoteRuns : quoteRun'[x].batch = quoteRun[x].batch
  BY <1>5, <1>7
<1>15. \A z \in Syms : FundingKept(z)'
  BY <1>1, <1>2, <1>14, FundingUntouched
<1>16. QED
  BY <1>8, <1>11, <1>12, <1>13, <1>15 DEF QuoteInv, RunsSound, SeenSettled, QuoteKept, FundingKept, Offered

LEMMA UpsertQuoteKeeps ==
  ASSUME QuoteInv, NEW r \in QuoteRuns, NEW ok \in BOOLEAN, UpsertQuote(r, ok) PROVE QuoteInv'
<1>2. QuoteTypeOK /\ RunsSound /\ SeenSettled /\ \A z \in Syms : QuoteKept(z) /\ FundingKept(z)
  BY QuoteParts
<1>0. quoteRun[r].pc = "upsert" /\ quoteRun[r].sym \in Syms
  BY <1>2 DEF UpsertQuote, RunsSound
<1>s. PICK s \in Syms : s = quoteRun[r].sym
  BY <1>0
<1> DEFINE n == quoteRun'[r]
           v == quoteRun[r].q
<1>1. /\ quoteRows'  = IF ok THEN [quoteRows EXCEPT ![s] = @ \cup {v}] ELSE quoteRows
      /\ lostQuotes' = IF ok THEN lostQuotes ELSE [lostQuotes EXCEPT ![s] = @ \cup {v}]
      /\ quoteRun' = [quoteRun EXCEPT ![r].pc = "loop"]
      /\ UNCHANGED <<quotes, latestQuote, overtaken, fundingVars>>
  BY <1>s DEF UpsertQuote, fundingVars
<1>3. quoteRun \in [QuoteRuns -> QuoteRunOf] /\ quoteRun[r] \in QuoteRunOf
  BY <1>2 DEF QuoteTypeOK
<1>4. n = [quoteRun[r] EXCEPT !.pc = "loop"] /\ quoteRun' = [quoteRun EXCEPT ![r] = n]
  BY <1>1, <1>3
<1>5. n.pc = "loop" /\ n.seen = quoteRun[r].seen /\ n.batch = quoteRun[r].batch
  BY <1>3, <1>4 DEF QuoteRunOf
<1>6. n \in QuoteRunOf
  BY <1>3, <1>4 DEF QuoteRunOf
<1>v. v \in Nat
  BY <1>3 DEF QuoteRunOf
<1> HIDE DEF n, v
<1>7. \A x \in QuoteRuns : quoteRun'[x] = IF x = r THEN n ELSE quoteRun[x]
  BY <1>3, <1>4
<1>8. /\ \A z \in Syms : quoteRows[z] \subseteq quoteRows'[z] /\ lostQuotes[z] \subseteq lostQuotes'[z]
      /\ v \in quoteRows'[s] \cup lostQuotes'[s]
  <2>1. CASE ok
    BY <1>1, <1>2, <2>1 DEF QuoteTypeOK
  <2>2. CASE ~ok
    BY <1>1, <1>2, <2>2 DEF QuoteTypeOK
  <2>3. QED
    BY <2>1, <2>2
<1>9. QuoteTypeOK'
  <2>1. quoteRun' \in [QuoteRuns -> QuoteRunOf]
    BY <1>3, <1>4, <1>6
  <2>2. quoteRows' \in [Syms -> SUBSET Nat] /\ lostQuotes' \in [Syms -> SUBSET Nat]
    <3>1. CASE ok
      BY <1>1, <1>2, <1>v, <3>1 DEF QuoteTypeOK
    <3>2. CASE ~ok
      BY <1>1, <1>2, <1>v, <3>2 DEF QuoteTypeOK
    <3>3. QED
      BY <3>1, <3>2
  <2>3. QED
    BY <1>1, <1>2, <2>1, <2>2 DEF QuoteTypeOK, fundingVars
<1>10. \A z \in Syms : Settled(z) => Settled(z)'
  <2> TAKE z \in Syms
  <2> HAVE Settled(z)
  <2>1. CASE quotes[z] \in {overtaken[z]} \cup quoteRows[z] \cup lostQuotes[z]
    BY <1>1, <1>8, <2>1 DEF Settled
  <2>2. CASE \E x \in QuoteRuns : x # r /\ quoteRun[x].pc = "upsert" /\ quoteRun[x].sym = z
                                        /\ quoteRun[x].q = quotes[z]
    <3>1. Written(z)'
      BY <1>1, <1>7, <2>2 DEF Written
    <3>2. QED
      BY <3>1 DEF Settled
  <2>3. CASE z = s /\ v = quotes[z]
    BY <1>1, <1>8, <2>3 DEF Settled
  <2>4. QED
    BY <1>s, <2>1, <2>2, <2>3 DEF Settled, Written, v
<1>11. SeenSettled'
  <2> SUFFICES ASSUME NEW x \in QuoteRuns, NEW z \in quoteRun'[x].seen PROVE Settled(z)'
    BY DEF SeenSettled
  <2>1. z \in quoteRun[x].seen
    BY <1>5, <1>7
  <2>2. z \in Syms
    <3>1. quoteRun[x] \in QuoteRunOf
      BY <1>3
    <3>2. QED
      BY <2>1, <3>1 DEF QuoteRunOf
  <2>3. QED
    BY <1>2, <1>10, <2>1, <2>2 DEF SeenSettled
<1>12. RunsSound'
  BY <1>0, <1>2, <1>5, <1>7 DEF RunsSound
<1>13. \A z \in Syms : QuoteKept(z)'
  BY <1>1, <1>2, <1>10 DEF QuoteKept
<1>14. \A x \in QuoteRuns : quoteRun'[x].batch = quoteRun[x].batch
  BY <1>5, <1>7
<1>15. \A z \in Syms : FundingKept(z)'
  BY <1>1, <1>2, <1>14, FundingUntouched
<1>16. QED
  BY <1>9, <1>11, <1>12, <1>13, <1>15 DEF QuoteInv, RunsSound, SeenSettled, QuoteKept, FundingKept, Offered

LEMMA ClearKeeps == ASSUME QuoteInv, NEW r \in QuoteRuns, ClearQuotes(r) PROVE QuoteInv'
<1> DEFINE b == {<<s, latestFunding[s]>> : s \in {s \in Syms : latestFunding[s] # 0}}
           n == [IdleQuotes EXCEPT !.pc = "funding", !.batch = b]
<1>1. /\ quoteRun[r].pc = "loop" /\ Unseen(r) = {}
      /\ latestQuote' = Zero /\ latestFunding' = Zero
      /\ quoteRun' = [x \in QuoteRuns |-> IF x = r THEN n ELSE [quoteRun[x] EXCEPT !.seen = {}]]
      /\ UNCHANGED <<quotes, overtaken, quoteRows, lostQuotes, funding, storedFunding, lostFunding>>
  BY DEF ClearQuotes
<1>2. QuoteTypeOK /\ RunsSound /\ SeenSettled /\ \A z \in Syms : QuoteKept(z) /\ FundingKept(z)
  BY QuoteParts
<1>3. Zero \in [Syms -> Nat] /\ \A z \in Syms : Zero[z] = 0
  BY DEF Zero
<1>4. b \in SUBSET (Syms \X Nat)
  BY <1>2 DEF QuoteTypeOK
<1> HIDE DEF b
<1>5. n.pc = "funding" /\ n.seen = {} /\ n.batch = b
  BY DEF IdleQuotes
<1>6. n \in QuoteRunOf
  BY <1>4, IdleQuotesFields DEF QuoteRunOf
<1> HIDE DEF n
<1>7. \A x \in QuoteRuns : x # r =>
        /\ quoteRun'[x] \in QuoteRunOf /\ quoteRun'[x].seen = {}
        /\ quoteRun'[x].pc = quoteRun[x].pc /\ quoteRun'[x].sym = quoteRun[x].sym
        /\ quoteRun'[x].q = quoteRun[x].q /\ quoteRun'[x].batch = quoteRun[x].batch
  <2> SUFFICES ASSUME NEW x \in QuoteRuns, x # r
               PROVE /\ quoteRun'[x] \in QuoteRunOf /\ quoteRun'[x].seen = {}
                     /\ quoteRun'[x].pc = quoteRun[x].pc /\ quoteRun'[x].sym = quoteRun[x].sym
                     /\ quoteRun'[x].q = quoteRun[x].q /\ quoteRun'[x].batch = quoteRun[x].batch
    OBVIOUS
  <2> DEFINE m == quoteRun[x]
             e == quoteRun'[x]
  <2>1. m \in QuoteRunOf /\ e = [m EXCEPT !.seen = {}]
    BY <1>1, <1>2 DEF QuoteTypeOK
  <2> HIDE DEF m, e
  <2>2. e.seen = {} /\ e.pc = m.pc /\ e.sym = m.sym /\ e.q = m.q /\ e.batch = m.batch
    BY <2>1 DEF QuoteRunOf
  <2>3. e \in QuoteRunOf
    BY <2>1 DEF QuoteRunOf
  <2>4. QED
    BY <2>2, <2>3 DEF m, e
<1>8. quoteRun'[r] = n
  BY <1>1
<1>9. QuoteTypeOK'
  <2>1. \A x \in QuoteRuns : quoteRun'[x] \in QuoteRunOf
    BY <1>6, <1>7, <1>8
  <2>2. quoteRun' \in [QuoteRuns -> QuoteRunOf]
    BY <1>1, <2>1
  <2>3. QED
    BY <1>1, <1>2, <1>3, <2>2 DEF QuoteTypeOK
<1>10. \A z : Settled(z) => Settled(z)'
  <2>1. \A z : Written(z) => Written(z)'
    BY <1>1, <1>7 DEF Written
  <2>2. QED
    BY <1>1, <2>1 DEF Settled
<1>11. \A z \in Syms : QuoteKept(z)'
  <2> TAKE z \in Syms
  <2>1. quotes[z] # 0 => Settled(z)
    <3>1. CASE latestQuote[z] # 0
      <4>1. z \in quoteRun[r].seen
        BY <1>1, <3>1 DEF Unseen
      <4>2. QED
        BY <1>2, <4>1 DEF SeenSettled
    <3>2. CASE latestQuote[z] = 0
      BY <1>2, <3>2 DEF QuoteKept
    <3>3. QED
      BY <3>1, <3>2
  <2>2. QED
    BY <1>1, <1>3, <1>10, <2>1 DEF QuoteKept
<1>12. SeenSettled'
  BY <1>5, <1>7, <1>8 DEF SeenSettled
<1>13. RunsSound'
  BY <1>2, <1>5, <1>7, <1>8 DEF RunsSound
<1>14. \A z \in Syms : FundingKept(z)'
  <2> SUFFICES ASSUME NEW z \in Syms, funding[z] # 0
               PROVE  funding[z] \in storedFunding[z] \cup lostFunding[z] \/ Offered(z)'
    BY <1>1, <1>3 DEF FundingKept
  <2>1. CASE funding[z] = latestFunding[z]
    <3>1. <<z, funding[z]>> \in b
      BY <2>1 DEF b
    <3>2. funding'[z] \in Taken(r, z)'
      BY <1>1, <1>5, <1>8, <3>1 DEF Taken
    <3>3. QED
      BY <3>2 DEF Offered
  <2>2. CASE funding[z] \in storedFunding[z] \cup lostFunding[z]
    BY <2>2
  <2>3. CASE Offered(z)
    <3>1. PICK x \in QuoteRuns : funding[z] \in Taken(x, z)
      BY <2>3 DEF Offered
    <3>2. x # r
      BY <1>1, <1>2, <3>1 DEF RunsSound, Taken
    <3>3. Taken(x, z)' = Taken(x, z)
      BY <1>7, <3>2 DEF Taken
    <3>4. QED
      BY <1>1, <3>1, <3>3 DEF Offered
  <2>4. QED
    BY <1>2, <2>1, <2>2, <2>3 DEF FundingKept
<1>15. QED
  BY <1>9, <1>11, <1>12, <1>13, <1>14 DEF QuoteInv, RunsSound, SeenSettled, QuoteKept, FundingKept, Offered

LEMMA UpsertFundingKeeps ==
  ASSUME QuoteInv, NEW r \in QuoteRuns, NEW ok \in BOOLEAN, UpsertFunding(r, ok) PROVE QuoteInv'
<1>1. /\ quoteRun[r].pc = "funding"
      /\ storedFunding' = [s \in Syms |-> storedFunding[s] \cup IF ok THEN Taken(r, s) ELSE {}]
      /\ lostFunding'   = [s \in Syms |-> lostFunding[s] \cup IF ok THEN {} ELSE Taken(r, s)]
      /\ quoteRun' = [quoteRun EXCEPT ![r] = IdleQuotes]
      /\ UNCHANGED <<quotes, latestQuote, overtaken, quoteRows, lostQuotes, funding, latestFunding>>
  BY DEF UpsertFunding
<1>2. QuoteTypeOK /\ RunsSound /\ SeenSettled /\ \A z \in Syms : QuoteKept(z) /\ FundingKept(z)
  BY QuoteParts
<1>3. quoteRun \in [QuoteRuns -> QuoteRunOf] /\ quoteRun[r] \in QuoteRunOf
  BY <1>2 DEF QuoteTypeOK
<1>4. /\ IdleQuotes \in QuoteRunOf
      /\ \A x \in QuoteRuns : quoteRun'[x] = IF x = r THEN IdleQuotes ELSE quoteRun[x]
  BY <1>1, <1>3, IdleQuotesFields
<1>5. \A z \in Syms : Taken(r, z) \in SUBSET Nat
  <2>1. quoteRun[r].batch \in SUBSET (Syms \X Nat)
    BY <1>3 DEF QuoteRunOf
  <2>2. QED
    BY <2>1 DEF Taken
<1>6. QuoteTypeOK'
  <2>1. quoteRun' \in [QuoteRuns -> QuoteRunOf]
    BY <1>1, <1>3, <1>4
  <2>2. storedFunding' \in [Syms -> SUBSET Nat] /\ lostFunding' \in [Syms -> SUBSET Nat]
    BY <1>1, <1>2, <1>5 DEF QuoteTypeOK
  <2>3. QED
    BY <1>1, <1>2, <2>1, <2>2 DEF QuoteTypeOK
<1>7. \A z : Settled(z) => Settled(z)'
  <2>1. \A z : Written(z) => Written(z)'
    BY <1>1, <1>4 DEF Written
  <2>2. QED
    BY <1>1, <2>1 DEF Settled
<1>8. SeenSettled' /\ \A z \in Syms : QuoteKept(z)'
  BY <1>1, <1>2, <1>4, <1>7, IdleQuotesFields DEF SeenSettled, QuoteKept
<1>9. RunsSound'
  BY <1>2, <1>4, IdleQuotesFields DEF RunsSound
<1>10. \A z \in Syms : FundingKept(z)'
  <2> TAKE z \in Syms
  <2>1. /\ storedFunding[z] \subseteq storedFunding'[z] /\ lostFunding[z] \subseteq lostFunding'[z]
        /\ Taken(r, z) \subseteq storedFunding'[z] \cup lostFunding'[z]
    BY <1>1
  <2>2. \A x \in QuoteRuns : x # r => Taken(x, z)' = Taken(x, z)
    BY <1>4 DEF Taken
  <2>3. ASSUME funding[z] # 0
        PROVE  funding[z] \in {latestFunding[z]} \cup storedFunding'[z] \cup lostFunding'[z] \/ Offered(z)'
    <3>1. CASE funding[z] \in {latestFunding[z]} \cup storedFunding[z] \cup lostFunding[z]
      BY <2>1, <3>1
    <3>2. CASE Offered(z)
      <4>1. PICK x \in QuoteRuns : funding[z] \in Taken(x, z)
        BY <3>2 DEF Offered
      <4>2. CASE x = r
        BY <2>1, <4>1, <4>2
      <4>3. CASE x # r
        BY <1>1, <2>2, <4>1, <4>3 DEF Offered
      <4>4. QED
        BY <4>2, <4>3
    <3>3. QED
      BY <1>2, <2>3, <3>1, <3>2 DEF FundingKept
  <2>4. QED
    BY <1>1, <1>2, <2>3 DEF FundingKept
<1>11. QED
  BY <1>6, <1>8, <1>9, <1>10 DEF QuoteInv, RunsSound, SeenSettled, QuoteKept, FundingKept, Offered

LEMMA QuotesUntouched == QuoteInv /\ UNCHANGED quoteVars => QuoteInv'
<1> SUFFICES ASSUME QuoteInv, UNCHANGED quoteVars PROVE QuoteInv'
  OBVIOUS
<1>1. UNCHANGED <<quotes, latestQuote, overtaken, quoteRun, quoteRows, lostQuotes, fundingVars>>
  BY DEF quoteVars, fundingVars
<1>2. \A z : Settled(z)' = Settled(z)
  BY <1>1 DEF Settled, Written
<1>3. QuoteTypeOK /\ RunsSound /\ SeenSettled /\ \A z \in Syms : QuoteKept(z) /\ FundingKept(z)
  BY QuoteParts
<1>4. \A z \in Syms : FundingKept(z)'
  BY <1>1, <1>3, FundingUntouched
<1>5. QuoteTypeOK' /\ RunsSound' /\ SeenSettled' /\ \A z \in Syms : QuoteKept(z)'
  BY <1>1, <1>2, <1>3 DEF QuoteTypeOK, RunsSound, SeenSettled, QuoteKept, fundingVars
<1>6. QED
  BY <1>4, <1>5 DEF QuoteInv, RunsSound, SeenSettled, QuoteKept, FundingKept, Offered

LEMMA QuoteStep == QuoteInv /\ [LiveNext]_liveVars => QuoteInv'
<1> SUFFICES ASSUME QuoteInv, [LiveNext]_liveVars PROVE QuoteInv'
  OBVIOUS
<1>1. CASE QuoteSteps
  <2>1. CASE DrainQuotes
    BY <2>1, StartKeeps, LiveAssumption DEF DrainQuotes, fundingVars
  <2>2. ASSUME NEW r \in QuoteRuns, QuoteTimer(r) PROVE QuoteInv'
    BY <2>2, StartKeeps DEF QuoteTimer, fundingVars
  <2>3. QED
    BY <1>1, <2>1, <2>2, OnQuoteKeeps, OnFundingKeeps, VisitKeeps, UpsertQuoteKeeps, ClearKeeps,
       UpsertFundingKeeps DEF QuoteSteps
<1>2. CASE SocketSteps
  BY <1>2, SocketFrame, QuotesUntouched
<1>3. CASE TickSteps
  BY <1>3, TickFrame, QuotesUntouched DEF OnlyTicks
<1>4. CASE CandleSteps
  BY <1>4, CandleFrame, QuotesUntouched DEF OnlyCandles
<1>5. CASE OiSteps
  BY <1>5, OiFrame, QuotesUntouched DEF OnlyOi
<1>6. CASE UNCHANGED liveVars
  BY <1>6, QuotesUntouched DEF liveVars
<1>7. QED
  BY <1>1, <1>2, <1>3, <1>4, <1>5, <1>6 DEF LiveNext

-----------------------------------------------------------------------------
(* Bars.                                                                     *)
LEMMA CandleStart == LiveInit => CandleTypeOK /\ WritesInv /\ SnapInv
<1> SUFFICES ASSUME LiveInit PROVE CandleTypeOK /\ WritesInv /\ SnapInv
  OBVIOUS
<1>1. /\ newest = [s \in Syms |-> [b \in Bars |-> 0]] /\ row = newest /\ read = newest /\ snap = newest
      /\ raced = [s \in Syms |-> [b \in Bars |-> FALSE]] /\ saving = {}
      /\ recompute = [s \in Syms |-> "none"]
      /\ dropped = [s \in Syms |-> FALSE] /\ faulty = [s \in Syms |-> FALSE]
  BY Zenon DEF LiveInit
<1>2. CandleTypeOK
  BY <1>1 DEF CandleTypeOK, BarRows
<1>3. WritesInv
  BY <1>1 DEF WritesInv
<1>4. SnapInv
  BY <1>1 DEF SnapInv, SnapIsCurrent
<1>5. QED
  BY <1>2, <1>3, <1>4

LEMMA CandleTypeStep == CandleTypeOK /\ CandleSteps => CandleTypeOK'
<1> SUFFICES ASSUME CandleTypeOK, CandleSteps PROVE CandleTypeOK'
  OBVIOUS
<1>1. ASSUME NEW s \in Syms, NEW b \in Bars, OnCandle(s, b) PROVE CandleTypeOK'
  <2>1. /\ newest' = [newest EXCEPT ![s][b] = @ + 1]
        /\ saving' = saving \cup {[sym |-> s, bar |-> b, version |-> newest[s][b] + 1, pc |-> "upsert"]}
        /\ raced' = [raced EXCEPT ![s][b] = TRUE] \/ raced' = raced
        /\ UNCHANGED <<row, recompute, read, snap, dropped, faulty>>
    BY <1>1 DEF OnCandle
  <2>2. newest[s][b] \in Nat /\ newest[s] \in [Bars -> Nat] /\ raced[s] \in [Bars -> BOOLEAN]
    BY DEF CandleTypeOK, BarRows
  <2>3. newest' \in BarRows
    BY <2>1, <2>2 DEF CandleTypeOK, BarRows
  <2>4. raced' \in [Syms -> [Bars -> BOOLEAN]]
    <3> DEFINE e == [raced[s] EXCEPT ![b] = TRUE]
    <3>1. e \in [Bars -> BOOLEAN]
      BY <2>2
    <3>2. raced' = [raced EXCEPT ![s] = e] \/ raced' = raced
      BY <2>1
    <3> HIDE DEF e
    <3>3. QED
      BY <3>1, <3>2 DEF CandleTypeOK
  <2>5. saving' \in SUBSET Saves
    <3>1. [sym |-> s, bar |-> b, version |-> newest[s][b] + 1, pc |-> "upsert"] \in Saves
      BY <2>2 DEF Saves
    <3>2. QED
      BY <2>1, <3>1 DEF CandleTypeOK
  <2>6. QED
    BY <2>1, <2>3, <2>4, <2>5 DEF CandleTypeOK
<1>2. ASSUME NEW x \in saving, UpsertCandle(x) PROVE CandleTypeOK'
  <2>1. /\ row' = [row EXCEPT ![x.sym][x.bar] = x.version]
        /\ saving' = (saving \ {x}) \cup {[x EXCEPT !.pc = "published"]}
        /\ UNCHANGED <<newest, raced, recompute, read, snap, dropped, faulty>>
    BY <1>2 DEF UpsertCandle
  <2>2. x \in Saves
    BY DEF CandleTypeOK
  <2>3. x.sym \in Syms /\ x.bar \in Bars /\ x.version \in Nat
    BY <2>2 DEF Saves
  <2>4. [x EXCEPT !.pc = "published"] \in Saves
    BY <2>2 DEF Saves
  <2>5. row' \in BarRows
    BY <2>1, <2>3 DEF CandleTypeOK, BarRows
  <2>6. saving' \in SUBSET Saves
    BY <2>1, <2>4 DEF CandleTypeOK
  <2>7. QED
    BY <2>1, <2>5, <2>6 DEF CandleTypeOK
<1>3. ASSUME NEW x \in saving, CandleThrows(x) PROVE CandleTypeOK'
  BY <1>3 DEF CandleThrows, CandleTypeOK
<1>4. ASSUME NEW x \in saving, recomputeFeatures(x) PROVE CandleTypeOK'
  <2>1. /\ recompute' \in [Syms -> {"none", "warm", "warmUpsert", "read", "compute"}]
        /\ dropped' \in [Syms -> BOOLEAN]
    BY <1>4 DEF recomputeFeatures, CandleTypeOK
  <2>2. QED
    BY <1>4, <2>1 DEF recomputeFeatures, CandleTypeOK
<1>5. ASSUME NEW s \in Syms, NEW ok \in BOOLEAN, WarmFetch(s, ok) PROVE CandleTypeOK'
  <2>1. read' \in BarRows
    BY <1>5 DEF WarmFetch, CandleTypeOK, BarRows
  <2>2. recompute' \in [Syms -> {"none", "warm", "warmUpsert", "read", "compute"}]
    BY <1>5 DEF WarmFetch, CandleTypeOK
  <2>3. QED
    BY <1>5, <2>1, <2>2 DEF WarmFetch, CandleTypeOK
<1>6. ASSUME NEW s \in Syms, NEW ok \in BOOLEAN, WarmUpsert(s, ok) PROVE CandleTypeOK'
  <2>1. row' \in BarRows
    BY <1>6 DEF WarmUpsert, CandleTypeOK, BarRows
  <2>2. recompute' \in [Syms -> {"none", "warm", "warmUpsert", "read", "compute"}]
    BY <1>6 DEF WarmUpsert, CandleTypeOK
  <2>3. QED
    BY <1>6, <2>1, <2>2 DEF WarmUpsert, CandleTypeOK
<1>7. ASSUME NEW s \in Syms, ReadWindow(s) PROVE CandleTypeOK'
  <2>1. read' \in BarRows
    BY <1>7 DEF ReadWindow, CandleTypeOK, BarRows
  <2>2. recompute' \in [Syms -> {"none", "warm", "warmUpsert", "read", "compute"}]
    BY <1>7 DEF ReadWindow, CandleTypeOK
  <2>3. QED
    BY <1>7, <2>1, <2>2 DEF ReadWindow, CandleTypeOK
<1>8. ASSUME NEW s \in Syms, PersistSnapshot(s) PROVE CandleTypeOK'
  <2> DEFINE l == LastBar(read[s])
  <2>0. snap' = [snap EXCEPT ![s][l] = read[s][l]]
        /\ UNCHANGED <<newest, saving, row, raced, read, dropped, faulty>>
        /\ recompute' = [recompute EXCEPT ![s] = "none"]
    BY <1>8 DEF PersistSnapshot
  <2> HIDE DEF l
  <2>1. snap' \in BarRows
    <3>1. CASE l \in Bars
      BY <2>0, <3>1 DEF CandleTypeOK, BarRows
    <3>2. CASE l \notin Bars
      <4>1. [snap[s] EXCEPT ![l] = read[s][l]] = snap[s]
        BY <3>2 DEF CandleTypeOK, BarRows
      <4>2. snap' = snap
        BY <2>0, <4>1 DEF CandleTypeOK, BarRows
      <4>3. QED
        BY <4>2 DEF CandleTypeOK
    <3>3. QED
      BY <3>1, <3>2
  <2>2. QED
    BY <2>0, <2>1 DEF CandleTypeOK
<1>9. ASSUME NEW s \in Syms, RecomputeEnds(s) PROVE CandleTypeOK'
  BY <1>9 DEF RecomputeEnds, CandleTypeOK
<1>10. QED
  BY <1>1, <1>2, <1>3, <1>4, <1>5, <1>6, <1>7, <1>8, <1>9 DEF CandleSteps, RecomputeStep

\* The parts of WritesInv.
RowKept(s, b) == ~raced[s][b] => faulty[s] \/ row[s][b] = newest[s][b] \/ Pending(s, b)
FetchKept(s, b) == ~raced[s][b] /\ recompute[s] = "warmUpsert" => read[s][b] = newest[s][b]
SaveIsNewest(x) == x.pc = "upsert" /\ ~raced[x.sym][x.bar] => x.version = newest[x.sym][x.bar]
LEMMA WritesParts ==
  WritesInv <=> /\ \A s \in Syms, b \in Bars : RowKept(s, b) /\ FetchKept(s, b)
                /\ \A x \in saving : SaveIsNewest(x)
BY DEF WritesInv, RowKept, FetchKept, SaveIsNewest

LEMMA WritesStep == CandleTypeOK /\ WritesInv /\ CandleSteps => WritesInv'
<1> SUFFICES ASSUME CandleTypeOK, WritesInv, CandleSteps PROVE WritesInv'
  OBVIOUS
<1>0. /\ \A s \in Syms, b \in Bars : RowKept(s, b) /\ FetchKept(s, b)
      /\ \A x \in saving : SaveIsNewest(x)
  BY WritesParts
<1>q. ASSUME \A s \in Syms, b \in Bars : RowKept(s, b)' /\ FetchKept(s, b)',
             \A x \in saving' : SaveIsNewest(x)'
      PROVE  WritesInv'
  BY <1>q DEF WritesInv, RowKept, FetchKept, SaveIsNewest
<1>1. ASSUME NEW s \in Syms, NEW b \in Bars, OnCandle(s, b) PROVE WritesInv'
  <2> DEFINE n == [sym |-> s, bar |-> b, version |-> newest[s][b] + 1, pc |-> "upsert"]
             clash == (\E x \in saving : x.sym = s /\ x.bar = b /\ x.pc = "upsert")
                        \/ recompute[s] = "warmUpsert"
  <2>1. /\ newest' = [newest EXCEPT ![s][b] = @ + 1] /\ saving' = saving \cup {n}
        /\ raced' = (IF clash THEN [raced EXCEPT ![s][b] = TRUE] ELSE raced)
        /\ UNCHANGED <<row, recompute, read, snap, dropped, faulty>>
    BY <1>1 DEF OnCandle
  <2>2. n.sym = s /\ n.bar = b /\ n.version = newest[s][b] + 1 /\ n.pc = "upsert"
    OBVIOUS
  <2> HIDE DEF n
  <2>3. /\ newest'[s][b] = newest[s][b] + 1
        /\ \A z \in Syms, c \in Bars : z # s \/ c # b =>
             newest'[z][c] = newest[z][c] /\ raced'[z][c] = raced[z][c]
        /\ clash => raced'[s][b] = TRUE
        /\ ~clash => raced' = raced
    <3>1. /\ newest'[s][b] = newest[s][b] + 1
          /\ \A z \in Syms, c \in Bars : z # s \/ c # b => newest'[z][c] = newest[z][c]
      BY <2>1 DEF CandleTypeOK, BarRows
    <3>2. CASE clash
      <4>1. raced' = [raced EXCEPT ![s][b] = TRUE]
        BY <2>1, <3>2
      <4>2. /\ raced'[s][b] = TRUE
            /\ \A z \in Syms, c \in Bars : z # s \/ c # b => raced'[z][c] = raced[z][c]
        BY <4>1 DEF CandleTypeOK
      <4>3. QED
        BY <3>1, <3>2, <4>2
    <3>3. CASE ~clash
      BY <2>1, <3>1, <3>3
    <3>4. QED
      BY <3>2, <3>3
  <2>4. \A z \in Syms, c \in Bars : Pending(z, c) => Pending(z, c)'
    BY <2>1 DEF Pending
  <2>5. Pending(s, b)'
    BY <2>1, <2>2 DEF Pending
  <2>6. ASSUME NEW z \in Syms, NEW c \in Bars PROVE RowKept(z, c)' /\ FetchKept(z, c)'
    <3>1. CASE z # s \/ c # b
      <4>1. newest'[z][c] = newest[z][c] /\ raced'[z][c] = raced[z][c]
        BY <2>3, <3>1
      <4>2. QED
        BY <1>0, <2>1, <2>4, <4>1 DEF RowKept, FetchKept
    <3>2. CASE z = s /\ c = b
      BY <2>1, <2>3, <2>5, <3>2 DEF RowKept, FetchKept
    <3>3. QED
      BY <3>1, <3>2
  <2>7. ASSUME NEW x \in saving' PROVE SaveIsNewest(x)'
    <3>1. CASE x = n
      BY <2>2, <2>3, <3>1 DEF SaveIsNewest
    <3>2. CASE x \in saving
      <4>1. x \in Saves /\ SaveIsNewest(x)
        BY <1>0, <3>2 DEF CandleTypeOK
      <4>2. x.sym \in Syms /\ x.bar \in Bars
        BY <4>1 DEF Saves
      <4>3. CASE x.sym = s /\ x.bar = b
        BY <2>3, <3>2, <4>3 DEF SaveIsNewest
      <4>4. CASE x.sym # s \/ x.bar # b
        BY <2>3, <4>1, <4>2, <4>4 DEF SaveIsNewest
      <4>5. QED
        BY <4>3, <4>4
    <3>3. QED
      BY <2>1, <3>1, <3>2
  <2>8. QED
    BY <1>q, <2>6, <2>7
<1>2. ASSUME NEW x \in saving, UpsertCandle(x) PROVE WritesInv'
  <2> DEFINE n == [x EXCEPT !.pc = "published"]
  <2>1. /\ row' = [row EXCEPT ![x.sym][x.bar] = x.version] /\ x.pc = "upsert"
        /\ saving' = (saving \ {x}) \cup {n}
        /\ UNCHANGED <<newest, raced, recompute, read, snap, dropped, faulty>>
    BY <1>2 DEF UpsertCandle
  <2>2. x \in Saves
    BY DEF CandleTypeOK
  <2>3. n.pc = "published" /\ x.sym \in Syms /\ x.bar \in Bars
    BY <2>2 DEF Saves
  <2> HIDE DEF n
  <2>4. /\ row'[x.sym][x.bar] = x.version
        /\ \A z \in Syms, c \in Bars : z # x.sym \/ c # x.bar => row'[z][c] = row[z][c]
    BY <2>1, <2>3 DEF CandleTypeOK, BarRows
  <2>5. ASSUME NEW z \in Syms, NEW c \in Bars PROVE RowKept(z, c)' /\ FetchKept(z, c)'
    <3>1. FetchKept(z, c)'
      BY <1>0, <2>1 DEF FetchKept
    <3>2. CASE z = x.sym /\ c = x.bar
      BY <1>0, <2>1, <2>4, <3>1, <3>2 DEF RowKept, SaveIsNewest
    <3>3. CASE z # x.sym \/ c # x.bar
      <4>1. Pending(z, c) => Pending(z, c)'
        BY <2>1, <3>3 DEF Pending
      <4>2. row'[z][c] = row[z][c]
        BY <2>4, <3>3
      <4>3. QED
        BY <1>0, <2>1, <3>1, <4>1, <4>2 DEF RowKept
    <3>4. QED
      BY <3>2, <3>3
  <2>6. ASSUME NEW y \in saving' PROVE SaveIsNewest(y)'
    BY <1>0, <2>1, <2>3 DEF SaveIsNewest
  <2>7. QED
    BY <1>q, <2>5, <2>6
<1>3. ASSUME NEW x \in saving, CandleThrows(x) PROVE WritesInv'
  <2>1. /\ saving' = saving \ {x} /\ faulty' = [faulty EXCEPT ![x.sym] = TRUE]
        /\ UNCHANGED <<newest, row, raced, recompute, read, snap, dropped>>
    BY <1>3 DEF CandleThrows
  <2>2. x.sym \in Syms
    BY DEF CandleTypeOK, Saves
  <2>3. faulty'[x.sym] /\ \A z \in Syms : z # x.sym => faulty'[z] = faulty[z]
    BY <2>1, <2>2 DEF CandleTypeOK
  <2>4. ASSUME NEW z \in Syms, NEW c \in Bars PROVE RowKept(z, c)' /\ FetchKept(z, c)'
    <3>1. FetchKept(z, c)'
      BY <1>0, <2>1 DEF FetchKept
    <3>2. CASE z = x.sym
      BY <2>3, <3>1, <3>2 DEF RowKept
    <3>3. CASE z # x.sym
      <4>1. (Pending(z, c) => Pending(z, c)') /\ faulty'[z] = faulty[z]
        BY <2>1, <2>3, <3>3 DEF Pending
      <4>2. QED
        BY <1>0, <2>1, <3>1, <4>1 DEF RowKept
    <3>4. QED
      BY <3>2, <3>3
  <2>5. ASSUME NEW y \in saving' PROVE SaveIsNewest(y)'
    BY <1>0, <2>1 DEF SaveIsNewest
  <2>6. QED
    BY <1>q, <2>4, <2>5
<1>4. ASSUME NEW x \in saving, recomputeFeatures(x) PROVE WritesInv'
  <2>1. /\ saving' = saving \ {x} /\ x.pc = "published"
        /\ recompute' = [recompute EXCEPT ![x.sym] = IF @ = "none" THEN "warm" ELSE @]
        /\ UNCHANGED <<newest, row, raced, read, snap, faulty>>
    BY <1>4 DEF recomputeFeatures
  <2>2. \A z \in Syms : recompute'[z] = "warmUpsert" => recompute[z] = "warmUpsert"
    BY <2>1 DEF CandleTypeOK
  <2>3. ASSUME NEW z \in Syms, NEW c \in Bars PROVE RowKept(z, c)' /\ FetchKept(z, c)'
    <3>1. Pending(z, c) => Pending(z, c)'
      BY <2>1 DEF Pending
    <3>2. QED
      BY <1>0, <2>1, <2>2, <3>1 DEF RowKept, FetchKept
  <2>4. ASSUME NEW y \in saving' PROVE SaveIsNewest(y)'
    BY <1>0, <2>1 DEF SaveIsNewest
  <2>5. QED
    BY <1>q, <2>3, <2>4
<1>5. ASSUME NEW s \in Syms, NEW ok \in BOOLEAN, WarmFetch(s, ok) PROVE WritesInv'
  <2>1. /\ UNCHANGED <<newest, saving, row, raced, snap, dropped, faulty>>
        /\ \/ read' = [read EXCEPT ![s] = newest[s]] /\ recompute' = [recompute EXCEPT ![s] = "warmUpsert"]
           \/ read' = read /\ recompute' = [recompute EXCEPT ![s] = "read"]
    BY <1>5 DEF WarmFetch
  <2>2. \A z \in Syms : recompute'[z] = "warmUpsert" =>
          (z = s /\ read'[z] = newest[z]) \/ (recompute[z] = "warmUpsert" /\ read'[z] = read[z])
    BY <2>1 DEF CandleTypeOK, BarRows
  <2>3. ASSUME NEW z \in Syms, NEW c \in Bars PROVE RowKept(z, c)' /\ FetchKept(z, c)'
    BY <1>0, <2>1, <2>2 DEF RowKept, FetchKept, Pending
  <2>4. ASSUME NEW y \in saving' PROVE SaveIsNewest(y)'
    BY <1>0, <2>1 DEF SaveIsNewest
  <2>5. QED
    BY <1>q, <2>3, <2>4
<1>6. ASSUME NEW s \in Syms, NEW ok \in BOOLEAN, WarmUpsert(s, ok) PROVE WritesInv'
  <2>1. /\ recompute[s] = "warmUpsert" /\ recompute' = [recompute EXCEPT ![s] = "read"]
        /\ UNCHANGED <<newest, saving, raced, read, snap, dropped, faulty>>
        /\ row' = IF ok THEN [row EXCEPT ![s] = [b \in Bars |-> IF read[s][b] # 0 THEN read[s][b] ELSE @[b]]]
                  ELSE row
    BY <1>6 DEF WarmUpsert
  <2>2. \A z \in Syms : recompute'[z] = "warmUpsert" => recompute[z] = "warmUpsert"
    BY <2>1 DEF CandleTypeOK
  <2>3. \A z \in Syms, c \in Bars : row'[z][c] = row[z][c] \/ (z = s /\ row'[z][c] = read[z][c])
    BY <2>1 DEF CandleTypeOK, BarRows
  <2>4. ASSUME NEW z \in Syms, NEW c \in Bars PROVE RowKept(z, c)' /\ FetchKept(z, c)'
    <3>1. Pending(z, c)' = Pending(z, c) /\ RowKept(z, c) /\ FetchKept(z, c)
      BY <1>0, <2>1 DEF Pending
    <3>2. QED
      BY <2>1, <2>2, <2>3, <3>1 DEF RowKept, FetchKept
  <2>5. ASSUME NEW y \in saving' PROVE SaveIsNewest(y)'
    BY <1>0, <2>1 DEF SaveIsNewest
  <2>6. QED
    BY <1>q, <2>4, <2>5
<1>7. ASSUME NEW s \in Syms, ReadWindow(s) \/ PersistSnapshot(s) \/ RecomputeEnds(s) PROVE WritesInv'
  <2>1. /\ recompute[s] # "warmUpsert" \/ recompute'[s] = "none"
        /\ recompute'[s] # "warmUpsert"
        /\ \A z \in Syms : z # s => recompute'[z] = recompute[z] /\ read'[z] = read[z]
        /\ \A z \in Syms : faulty[z] => faulty'[z]
        /\ UNCHANGED <<newest, saving, row, raced>>
    <3>1. CASE ReadWindow(s)
      BY <3>1 DEF ReadWindow, CandleTypeOK, BarRows
    <3>2. CASE PersistSnapshot(s)
      BY <3>2 DEF PersistSnapshot, CandleTypeOK, BarRows
    <3>3. CASE RecomputeEnds(s)
      BY <3>3 DEF RecomputeEnds, CandleTypeOK, BarRows
    <3>4. QED
      BY <1>7, <3>1, <3>2, <3>3
  <2>2. ASSUME NEW z \in Syms, NEW c \in Bars PROVE RowKept(z, c)' /\ FetchKept(z, c)'
    <3>1. Pending(z, c)' = Pending(z, c)
      BY <2>1 DEF Pending
    <3>2. RowKept(z, c)'
      BY <1>0, <2>1, <3>1 DEF RowKept
    <3>3. FetchKept(z, c)'
      BY <1>0, <2>1 DEF FetchKept
    <3>4. QED
      BY <3>2, <3>3
  <2>3. ASSUME NEW y \in saving' PROVE SaveIsNewest(y)'
    BY <1>0, <2>1 DEF SaveIsNewest
  <2>4. QED
    BY <1>q, <2>2, <2>3
<1>8. QED
  BY <1>1, <1>2, <1>3, <1>4, <1>5, <1>6, <1>7 DEF CandleSteps, RecomputeStep

\* A nonempty set of naturals below a bound has a greatest element.
LEMMA Greatest ==
  ASSUME NEW n \in Nat, NEW S \in SUBSET (1..n), S # {}
  PROVE  \E m \in S : \A k \in S : k <= m
<1> DEFINE T == {d \in Nat : n - d \in S}
<1>1. \A k \in S : k \in Nat /\ n - k \in Nat /\ n - (n - k) = k
  OBVIOUS
<1>2. PICK k \in S : TRUE
  OBVIOUS
<1>3. n - k \in T
  BY <1>1, <1>2
<1>4. PICK d \in T : \A e \in T : d <= e
  BY <1>3, Least
<1>5. n - d \in S /\ d \in Nat
  BY <1>4
<1>6. ASSUME NEW j \in S PROVE j <= n - d
  <2>1. n - j \in T
    BY <1>1
  <2>2. d <= n - j /\ j \in Nat
    BY <1>1, <1>4, <2>1
  <2>3. QED
    BY <1>5, <2>2
<1>7. QED
  BY <1>5, <1>6

LEMMA LastBarExists ==
  ASSUME NEW w \in [Bars -> Nat], \E b \in Bars : w[b] # 0
  PROVE  LastBar(w) \in Bars
<1> DEFINE S == {b \in Bars : w[b] # 0}
<1>1. S \in SUBSET (1..MaxBar) /\ S # {} /\ MaxBar \in Nat
  BY LiveAssumption DEF Bars
<1>2. PICK m \in S : \A k \in S : k <= m
  BY <1>1, Greatest
<1>3. m \in Bars /\ w[m] # 0 /\ \A c \in Bars : c > m => w[c] = 0
  <2>1. m \in Bars /\ w[m] # 0
    BY <1>2
  <2>2. ASSUME NEW c \in Bars, c > m PROVE w[c] = 0
    <3> SUFFICES ASSUME w[c] # 0 PROVE FALSE
      OBVIOUS
    <3>1. c <= m
      BY <1>2
    <3>2. c \in Int /\ m \in Int
      BY <1>1, <2>1 DEF Bars
    <3>3. QED
      BY <2>2, <3>1, <3>2
  <2>3. QED
    BY <2>1, <2>2
<1>4. QED
  BY <1>3 DEF LastBar

\* The part of SnapInv about one symbol.
Published(s) == \E x \in saving : x.sym = s /\ x.pc = "published"
SnapKept(s) ==
  faulty[s] \/ dropped[s] \/ Published(s)
    \/ recompute[s] \in {"warm", "warmUpsert", "read"}
    \/ (recompute[s] = "compute" /\ read[s] = row[s])
    \/ (recompute[s] = "none" /\ SnapIsCurrent(s))
LEMMA SnapParts == CandleTypeOK => (SnapInv <=> \A s \in Syms : SnapKept(s))
BY DEF SnapInv, SnapKept, Published, CandleTypeOK

LEMMA SnapStep == CandleTypeOK /\ SnapInv /\ CandleSteps => SnapInv'
<1> SUFFICES ASSUME CandleTypeOK, SnapInv, CandleSteps PROVE SnapInv'
  OBVIOUS
<1>0. /\ \A s \in Syms : SnapKept(s)
      /\ CandleTypeOK'
  BY SnapParts, CandleTypeStep
<1>q. ASSUME \A s \in Syms : SnapKept(s)' PROVE SnapInv'
  BY <1>0, <1>q DEF SnapInv, SnapKept, Published, CandleTypeOK
\* A symbol the step does not touch.
<1>f. ASSUME NEW z \in Syms, Published(z) => Published(z)', faulty'[z] = faulty[z],
             dropped'[z] = dropped[z], recompute'[z] = recompute[z], read'[z] = read[z],
             row'[z] = row[z], snap'[z] = snap[z]
      PROVE  SnapKept(z)'
  <2>1. Held(z)' = Held(z)
    BY <1>f DEF Held
  <2>2. SnapIsCurrent(z)' = SnapIsCurrent(z)
    BY <1>f, <2>1 DEF SnapIsCurrent, Warm
  <2>3. QED
    BY <1>0, <1>f, <2>2 DEF SnapKept
<1>1. ASSUME NEW s \in Syms, NEW b \in Bars, OnCandle(s, b) PROVE SnapInv'
  <2>1. saving \subseteq saving' /\ UNCHANGED <<row, recompute, read, snap, dropped, faulty>>
    BY <1>1 DEF OnCandle
  <2>2. \A z \in Syms : Published(z) => Published(z)'
    BY <2>1 DEF Published
  <2>3. QED
    BY <1>f, <1>q, <2>1, <2>2
<1>2. ASSUME NEW x \in saving, UpsertCandle(x) PROVE SnapInv'
  <2> DEFINE n == [x EXCEPT !.pc = "published"]
  <2>1. /\ row' = [row EXCEPT ![x.sym][x.bar] = x.version] /\ x.pc = "upsert"
        /\ saving' = (saving \ {x}) \cup {n}
        /\ UNCHANGED <<newest, raced, recompute, read, snap, dropped, faulty>>
    BY <1>2 DEF UpsertCandle
  <2>2. x \in Saves
    BY DEF CandleTypeOK
  <2>3. n.pc = "published" /\ n.sym = x.sym /\ x.sym \in Syms
    BY <2>2 DEF Saves
  <2> HIDE DEF n
  <2>4. ASSUME NEW z \in Syms PROVE SnapKept(z)'
    <3>1. CASE z = x.sym
      <4>1. Published(z)'
        BY <2>1, <2>3, <3>1 DEF Published
      <4>2. QED
        BY <4>1 DEF SnapKept
    <3>2. CASE z # x.sym
      <4>1. row'[z] = row[z]
        BY <2>1, <3>2 DEF CandleTypeOK, BarRows
      <4>2. Published(z) => Published(z)'
        BY <2>1 DEF Published
      <4>3. QED
        BY <1>f, <2>1, <4>1, <4>2
    <3>3. QED
      BY <3>1, <3>2
  <2>5. QED
    BY <1>q, <2>4
<1>3. ASSUME NEW x \in saving, CandleThrows(x) PROVE SnapInv'
  <2>1. /\ saving' = saving \ {x} /\ x.pc = "upsert" /\ faulty' = [faulty EXCEPT ![x.sym] = TRUE]
        /\ UNCHANGED <<newest, row, raced, recompute, read, snap, dropped>>
    BY <1>3 DEF CandleThrows
  <2>2. ASSUME NEW z \in Syms PROVE SnapKept(z)'
    <3>1. CASE z = x.sym
      BY <2>1, <3>1 DEF SnapKept, CandleTypeOK
    <3>2. CASE z # x.sym
      <4>1. (Published(z) => Published(z)') /\ faulty'[z] = faulty[z]
        BY <2>1, <3>2 DEF Published, CandleTypeOK
      <4>2. QED
        BY <1>f, <2>1, <4>1
    <3>3. QED
      BY <3>1, <3>2
  <2>3. QED
    BY <1>q, <2>2
<1>4. ASSUME NEW x \in saving, recomputeFeatures(x) PROVE SnapInv'
  <2>1. /\ saving' = saving \ {x} /\ x.pc = "published"
        /\ recompute' = [recompute EXCEPT ![x.sym] = IF @ = "none" THEN "warm" ELSE @]
        /\ dropped' = [dropped EXCEPT ![x.sym] = recompute[x.sym] = "compute"]
        /\ UNCHANGED <<newest, row, raced, read, snap, faulty>>
    BY <1>4 DEF recomputeFeatures
  <2>2. ASSUME NEW z \in Syms PROVE SnapKept(z)'
    <3>1. CASE z = x.sym
      <4>1. recompute'[z] = (IF recompute[z] = "none" THEN "warm" ELSE recompute[z])
            /\ (recompute[z] = "compute" => dropped'[z])
        BY <2>1, <3>1 DEF CandleTypeOK
      <4>2. recompute[z] \in {"none", "warm", "warmUpsert", "read", "compute"}
        BY DEF CandleTypeOK
      <4>3. QED
        BY <4>1, <4>2 DEF SnapKept
    <3>2. CASE z # x.sym
      <4>1. (Published(z) => Published(z)') /\ recompute'[z] = recompute[z] /\ dropped'[z] = dropped[z]
        BY <2>1, <3>2 DEF Published, CandleTypeOK
      <4>2. QED
        BY <1>f, <2>1, <4>1
    <3>3. QED
      BY <3>1, <3>2
  <2>3. QED
    BY <1>q, <2>2
<1>5. ASSUME NEW s \in Syms, NEW ok \in BOOLEAN, WarmFetch(s, ok) \/ WarmUpsert(s, ok) PROVE SnapInv'
  <2>1. /\ recompute'[s] \in {"warmUpsert", "read"} /\ UNCHANGED <<saving, snap, dropped, faulty>>
        /\ \A z \in Syms : z # s => /\ recompute'[z] = recompute[z] /\ read'[z] = read[z]
                                    /\ row'[z] = row[z]
    <3>1. CASE WarmFetch(s, ok)
      BY <3>1 DEF WarmFetch, CandleTypeOK, BarRows
    <3>2. CASE WarmUpsert(s, ok)
      BY <3>2 DEF WarmUpsert, CandleTypeOK, BarRows
    <3>3. QED
      BY <1>5, <3>1, <3>2
  <2>2. ASSUME NEW z \in Syms PROVE SnapKept(z)'
    <3>1. CASE z = s
      BY <2>1, <3>1 DEF SnapKept
    <3>2. CASE z # s
      <4>1. Published(z) => Published(z)'
        BY <2>1 DEF Published
      <4>2. QED
        BY <1>f, <2>1, <3>2, <4>1
    <3>3. QED
      BY <3>1, <3>2
  <2>3. QED
    BY <1>q, <2>2
<1>6. ASSUME NEW s \in Syms, ReadWindow(s) PROVE SnapInv'
  <2>1. /\ read' = [read EXCEPT ![s] = row[s]] /\ UNCHANGED <<saving, row, snap, dropped, faulty>>
        /\ recompute' = [recompute EXCEPT ![s] =
              IF Cardinality(Held(s)) < WarmBars THEN "none" ELSE "compute"]
    BY <1>6 DEF ReadWindow
  <2>2. ASSUME NEW z \in Syms PROVE SnapKept(z)'
    <3>1. CASE z = s
      <4>1. read'[s] = row'[s]
        BY <2>1 DEF CandleTypeOK, BarRows
      <4>2. CASE Cardinality(Held(s)) < WarmBars
        <5>1. IsFiniteSet(Held(s))
          <6>1. IsFiniteSet(Bars)
            BY LiveAssumption, FS_Interval DEF Bars
          <6>2. QED
            BY <6>1, FS_Subset DEF Held
        <5>2. Cardinality(Held(s)) \in Nat
          BY <5>1, FS_CardinalityType
        <5>3. Held(s)' = Held(s)
          BY <2>1 DEF Held
        <5>4. ~Warm(s)'
          BY <4>2, <5>2, <5>3, LiveAssumption DEF Warm
        <5>5. recompute'[s] = "none"
          BY <2>1, <4>2 DEF CandleTypeOK
        <5>6. QED
          BY <3>1, <5>4, <5>5 DEF SnapKept, SnapIsCurrent
      <4>3. CASE ~(Cardinality(Held(s)) < WarmBars)
        <5>1. recompute'[s] = "compute"
          BY <2>1, <4>3 DEF CandleTypeOK
        <5>2. QED
          BY <3>1, <4>1, <5>1 DEF SnapKept
      <4>4. QED
        BY <4>2, <4>3
    <3>2. CASE z # s
      <4>1. (Published(z) => Published(z)') /\ recompute'[z] = recompute[z] /\ read'[z] = read[z]
        BY <2>1, <3>2 DEF Published, CandleTypeOK, BarRows
      <4>2. QED
        BY <1>f, <2>1, <4>1
    <3>3. QED
      BY <3>1, <3>2
  <2>3. QED
    BY <1>q, <2>2
<1>7. ASSUME NEW s \in Syms, PersistSnapshot(s) PROVE SnapInv'
  <2> DEFINE l == LastBar(read[s])
  <2>1. /\ snap' = [snap EXCEPT ![s][l] = read[s][l]] /\ recompute[s] = "compute"
        /\ UNCHANGED <<saving, row, read, dropped, faulty>>
        /\ recompute' = [recompute EXCEPT ![s] = "none"]
    BY <1>7 DEF PersistSnapshot
  <2>2. ASSUME NEW z \in Syms PROVE SnapKept(z)'
    <3>1. CASE z = s
      <4>1. recompute'[s] = "none" /\ row[s] \in [Bars -> Nat] /\ snap[s] \in [Bars -> Nat]
        BY <2>1 DEF CandleTypeOK, BarRows
      <4>2. CASE faulty[s] \/ dropped[s] \/ Published(s)
        BY <2>1, <3>1, <4>2 DEF SnapKept, Published
      <4>3. CASE read[s] = row[s]
        <5>1. ASSUME Warm(s)' PROVE snap'[s][LastBar(row'[s])] = row'[s][LastBar(row'[s])]
          <6>1. \E b \in Bars : row[s][b] # 0
            BY <2>1, <5>1 DEF Warm, Held
          <6>2. l \in Bars /\ l = LastBar(row[s])
            BY <4>1, <4>3, <6>1, LastBarExists
          <6> HIDE DEF l
          <6>3. snap'[s][l] = read[s][l]
            BY <2>1, <4>1, <6>2 DEF CandleTypeOK, BarRows
          <6>4. QED
            BY <2>1, <4>3, <6>2, <6>3
        <5>2. SnapIsCurrent(s)'
          BY <5>1 DEF SnapIsCurrent
        <5>3. QED
          BY <3>1, <4>1, <5>2 DEF SnapKept
      <4>4. QED
        BY <1>0, <2>1, <4>2, <4>3 DEF SnapKept
    <3>2. CASE z # s
      <4>1. (Published(z) => Published(z)') /\ recompute'[z] = recompute[z]
        BY <2>1, <3>2 DEF Published, CandleTypeOK
      <4>2. snap'[z] = snap[z]
        BY <2>1, <3>2 DEF CandleTypeOK, BarRows
      <4>3. QED
        BY <1>f, <2>1, <4>1, <4>2
    <3>3. QED
      BY <3>1, <3>2
  <2>3. QED
    BY <1>q, <2>2
<1>8. ASSUME NEW s \in Syms, RecomputeEnds(s) PROVE SnapInv'
  <2>1. /\ UNCHANGED <<saving, row, read, snap, dropped>> /\ faulty' = [faulty EXCEPT ![s] = TRUE]
        /\ recompute' = [recompute EXCEPT ![s] = "none"]
    BY <1>8 DEF RecomputeEnds
  <2>2. ASSUME NEW z \in Syms PROVE SnapKept(z)'
    <3>1. CASE z = s
      BY <2>1, <3>1 DEF SnapKept, CandleTypeOK
    <3>2. CASE z # s
      <4>1. (Published(z) => Published(z)') /\ recompute'[z] = recompute[z] /\ faulty'[z] = faulty[z]
        BY <2>1, <3>2 DEF Published, CandleTypeOK
      <4>2. QED
        BY <1>f, <2>1, <4>1
    <3>3. QED
      BY <3>1, <3>2
  <2>3. QED
    BY <1>q, <2>2
<1>9. QED
  BY <1>1, <1>2, <1>3, <1>4, <1>5, <1>6, <1>7, <1>8 DEF CandleSteps, RecomputeStep

-----------------------------------------------------------------------------
(* Open interest.                                                            *)
LEMMA LatestOf ==
  ASSUME NEW n \in Nat, NEW B \in SUBSET (1..n), B # {}
  PROVE  Latest(B) \in B /\ \A u \in B : u <= Latest(B)
<1>1. \E m \in B : \A u \in B : u <= m
  BY Greatest
<1>2. QED
  BY <1>1 DEF Latest

LEMMA OiStart == LiveInit => OiInv
<1> SUFFICES ASSUME LiveInit PROVE OiInv
  OBVIOUS
<1>1. /\ oiTrue = <<1>> /\ oiRows = [t \in {} |-> [value |-> 0, delta |-> {}]]
      /\ oiPoll = [p \in FlowPolls |-> IdlePoll]
  BY Zenon DEF LiveInit
<1>2. DOMAIN oiRows = {}
  BY <1>1
<1>3. oiTrue \in Seq(Int) /\ Len(oiTrue) >= 1
  BY <1>1
<1>4. DOMAIN oiPoll = FlowPolls /\ \A p \in FlowPolls : oiPoll[p].pc = "idle"
  BY <1>1 DEF IdlePoll
<1>5. QED
  BY <1>2, <1>3, <1>4 DEF OiInv, OiDeltasChain

\* What a poll writes, whichever venue it asked, if none has written since: the
\* last slot, or the last two.
LEMMA PollKeeps ==
  ASSUME NEW p \in FlowPolls, upsertOpenInterest(p), NEW n \in Nat, n >= 1,
         PollSound(oiPoll[p], FALSE, n), OiDeltasChain, ~oiRaced
  PROVE  OiDeltasChain'
<1> DEFINE poll == oiPoll[p]
           S == DOMAIN poll.got
           D == DOMAIN oiRows
           E == D \cup S
<1>1. /\ S = {n} \/ (n >= 2 /\ S = {n - 1, n})
      /\ D \in SUBSET (1..n) /\ E \in SUBSET (1..n)
      /\ poll.pc = "write" /\ poll.prior = priorOf(S)
  BY DEF PollSound, upsertOpenInterest
<1>2. oiRows' = [t \in E |-> IF t \in S THEN [value |-> poll.got[t], delta |-> DeltaOf(poll, t)] ELSE oiRows[t]]
  BY DEF upsertOpenInterest
<1> HIDE DEF poll
<1>3. DOMAIN oiRows' = E
  BY <1>2
<1>4. /\ \A t \in S : oiRows'[t].value = poll.got[t] /\ oiRows'[t].delta = DeltaOf(poll, t)
      /\ \A t \in E \ S : oiRows'[t] = oiRows[t] /\ t \in D
  BY <1>2
<1>5. PICK f \in S : (\A v \in S : f <= v) /\ f = First(S)
  <2>1. S \in SUBSET Nat /\ S # {}
    BY <1>1
  <2>2. \E m \in S : \A k \in S : m <= k
    BY <2>1, Least
  <2>3. QED
    BY <2>2 DEF First
<1>6. f \in 1..n /\ \A t \in E : t \notin S => t < f
  BY <1>1, <1>5
<1>7. ASSUME NEW t \in E, t \notin S \/ t = f
      PROVE  /\ Before(E, t) = Before(D, t)
             /\ Before(D, t) # {} =>
                  oiRows'[Latest(Before(D, t))] = oiRows[Latest(Before(D, t))]
  <2>1. t <= f /\ t \in 1..n
    BY <1>1, <1>6, <1>7
  <2>2. \A u \in S : ~(u < t)
    BY <1>1, <1>5, <2>1
  <2>3. Before(E, t) = Before(D, t)
    BY <2>2 DEF Before
  <2>4. ASSUME Before(D, t) # {} PROVE Latest(Before(D, t)) \in E \ S
    <3>1. Before(D, t) \in SUBSET (1..n)
      BY <1>1 DEF Before
    <3>2. Latest(Before(D, t)) \in Before(D, t)
      BY <1>1, <2>4, <3>1, LatestOf
    <3>3. QED
      BY <2>2, <3>2 DEF Before
  <2>5. QED
    BY <1>4, <2>3, <2>4
<1> DEFINE Chain(t) == oiRows'[t].delta =
             IF Before(E, t) = {} THEN {} ELSE {oiRows'[t].value - oiRows'[Latest(Before(E, t))].value}
<1>8. ASSUME NEW t \in E PROVE Chain(t)
  <2>1. CASE t \notin S
    <3>1. oiRows'[t] = oiRows[t] /\ t \in D
      BY <1>4, <2>1
    <3>2. oiRows[t].delta = IF Before(D, t) = {} THEN {}
                            ELSE {oiRows[t].value - oiRows[Latest(Before(D, t))].value}
      BY <3>1 DEF OiDeltasChain
    <3>3. QED
      BY <1>7, <2>1, <3>1, <3>2
  <2>2. CASE t = f
    <3>1. oiRows'[t].value = poll.got[t] /\ oiRows'[t].delta = DeltaOf(poll, t)
      BY <1>4, <2>2
    <3>2. DeltaOf(poll, t) = IF Before(D, t) = {} THEN {}
                             ELSE {poll.got[t] - oiRows[Latest(Before(D, t))].value}
      <4>1. Before(S, t) = {}
        BY <1>1, <1>5, <2>2 DEF Before
      <4>2. DeltaOf(poll, t) = {poll.got[t] - v : v \in poll.prior}
        BY <4>1 DEF DeltaOf
      <4>3. poll.prior = IF Before(D, t) = {} THEN {} ELSE {oiRows[Latest(Before(D, t))].value}
        BY <1>1, <1>5, <2>2 DEF priorOf
      <4>4. QED
        BY <4>2, <4>3
    <3>3. QED
      BY <1>7, <2>2, <3>1, <3>2
  <2>3. CASE t \in S /\ t # f
    <3>1. n >= 2 /\ S = {n - 1, n}
      BY <1>1, <1>5, <2>3
    <3>2. f = n - 1 /\ t = n
      BY <1>1, <1>5, <2>3, <3>1
    <3>3. Before(S, t) = {n - 1}
      BY <1>1, <3>1, <3>2 DEF Before
    <3>4. Latest({n - 1}) = n - 1
      BY <1>1, <3>1 DEF Latest
    <3>5. /\ n - 1 \in Before(E, t) /\ Before(E, t) \in SUBSET (1..n)
          /\ \A u \in Before(E, t) : u <= n - 1
      BY <1>1, <3>1, <3>2 DEF Before
    <3>6. Latest(Before(E, t)) = n - 1
      <4>1. Latest(Before(E, t)) \in Before(E, t) /\ \A u \in Before(E, t) : u <= Latest(Before(E, t))
        BY <1>1, <3>5, LatestOf
      <4> DEFINE m == Latest(Before(E, t))
                 B == Before(E, t)
      <4>2. /\ m \in B /\ (\A u \in B : u <= m) /\ n - 1 \in B /\ B \in SUBSET (1..n)
            /\ \A u \in B : u <= n - 1
        BY <3>5, <4>1
      <4> HIDE DEF m, B
      <4>3. m = n - 1
        <5>1. m <= n - 1 /\ n - 1 <= m
          BY <4>2
        <5>2. m \in 1..n
          BY <4>2
        <5>3. QED
          BY <1>1, <5>1, <5>2
      <4>4. QED
        BY <4>3 DEF m
    <3>7. DeltaOf(poll, t) = {poll.got[t] - poll.got[n - 1]}
      BY <3>3, <3>4 DEF DeltaOf
    <3>8. oiRows'[t].value = poll.got[t] /\ oiRows'[t].delta = DeltaOf(poll, t) /\ oiRows'[n - 1].value = poll.got[n - 1]
      BY <1>4, <2>3, <3>1
    <3>9. QED
      BY <3>5, <3>6, <3>7, <3>8
  <2>4. QED
    BY <2>1, <2>2, <2>3
<1>9. QED
  BY <1>3, <1>8 DEF OiDeltasChain

LEMMA OiStep == OiInv /\ [LiveNext]_liveVars => OiInv'
<1> SUFFICES ASSUME OiInv, [LiveNext]_liveVars PROVE OiInv'
  OBVIOUS
<1>1. CASE UNCHANGED oiVars
  <2>1. UNCHANGED <<oiTrue, oiRows, oiPoll, oiBehind, oiRaced>>
    BY <1>1 DEF oiVars
  <2>2. QED
    BY <2>1 DEF OiInv, OiDeltasChain, PollSound, priorOf
<1>2. ASSUME NEW p \in FlowPolls, pollFlow(p) PROVE OiInv'
  <2> DEFINE n == Len(oiTrue)
             got == [t \in offered |-> oiTrue[t]]
  <2>1. n \in Nat /\ n >= 1 /\ DOMAIN oiTrue = 1..n /\ n \in 1..n
    BY DEF OiInv
  <2>2. /\ UNCHANGED <<oiTrue, oiRows, oiRaced>> /\ oiBehind' = oiBehind \ {p}
        /\ oiPoll' = [oiPoll EXCEPT ![p] = [pc |-> "find", got |-> got, prior |-> {}]]
    BY <1>2 DEF pollFlow
  <2>3. offered = {n} \/ (n >= 2 /\ offered = {n - 1, n})
    <3>1. CASE venue = "DERIBIT"
      BY <3>1 DEF offered
    <3>2. CASE venue # "DERIBIT"
      <4>1. offered = {t \in 1..n : t >= n - 1}
        BY <2>1, <3>2 DEF offered
      <4>2. CASE n = 1
        BY <4>1, <4>2
      <4>3. CASE n >= 2
        BY <2>1, <4>1, <4>3
      <4>4. QED
        BY <2>1, <4>2, <4>3
    <3>3. QED
      BY <3>1, <3>2
  <2> HIDE DEF n
  <2>4. /\ DOMAIN oiPoll' = FlowPolls
        /\ oiPoll'[p].pc = "find" /\ DOMAIN oiPoll'[p].got = offered
        /\ \A q \in FlowPolls : q # p => oiPoll'[q] = oiPoll[q] /\ (q \in oiBehind' <=> q \in oiBehind)
    BY <2>2 DEF OiInv
  <2>5. PollSound(oiPoll[p], p \in oiBehind, n)'
    BY <2>1, <2>2, <2>3, <2>4 DEF PollSound, OiInv, n
  <2>6. ASSUME NEW q \in FlowPolls, q # p, oiPoll'[q].pc # "idle"
        PROVE  \E k \in 1..n : PollSound(oiPoll[q], q \in oiBehind, k)'
    <3>1. PICK k \in 1..n : PollSound(oiPoll[q], q \in oiBehind, k)
      BY <2>4, <2>6 DEF OiInv, n
    <3>2. PollSound(oiPoll[q], q \in oiBehind, k)'
      BY <2>2, <2>4, <2>6, <3>1 DEF PollSound, priorOf
    <3>3. QED
      BY <3>2
  <2>7. OiDeltasChain'
    BY <2>2 DEF OiInv, OiDeltasChain
  <2>8. QED
    BY <2>1, <2>2, <2>4, <2>5, <2>6, <2>7 DEF OiInv, n
<1>3. ASSUME NEW p \in FlowPolls, FindPrior(p) PROVE OiInv'
  <2>1. /\ UNCHANGED <<oiTrue, oiRows, oiRaced, oiBehind>> /\ oiPoll[p].pc = "find"
        /\ oiPoll' = [oiPoll EXCEPT ![p].pc = "write", ![p].prior = priorOf(DOMAIN oiPoll[p].got)]
    BY <1>3 DEF FindPrior
  <2>2. /\ DOMAIN oiPoll' = FlowPolls /\ \A q \in FlowPolls : q # p => oiPoll'[q] = oiPoll[q]
        /\ oiPoll'[p].got = oiPoll[p].got /\ oiPoll'[p].prior = priorOf(DOMAIN oiPoll[p].got)
    BY <2>1 DEF OiInv
  <2>3. ASSUME NEW q \in FlowPolls, oiPoll'[q].pc # "idle"
        PROVE  \E k \in 1..Len(oiTrue) : PollSound(oiPoll[q], q \in oiBehind, k)'
    <3>1. oiPoll[q].pc # "idle"
      BY <2>1, <2>2, <2>3
    <3>2. PICK k \in 1..Len(oiTrue) : PollSound(oiPoll[q], q \in oiBehind, k)
      BY <3>1 DEF OiInv
    <3>3. PollSound(oiPoll[q], q \in oiBehind, k)'
      BY <2>1, <2>2, <3>2 DEF PollSound, priorOf
    <3>4. QED
      BY <3>3
  <2>4. OiDeltasChain'
    BY <2>1 DEF OiInv, OiDeltasChain
  <2>5. QED
    BY <2>1, <2>2, <2>3, <2>4 DEF OiInv
<1>4. ASSUME NEW p \in FlowPolls, upsertOpenInterest(p) PROVE OiInv'
  <2>1. /\ oiTrue' = oiTrue /\ oiPoll' = [oiPoll EXCEPT ![p] = IdlePoll] /\ oiPoll[p].pc = "write"
        /\ oiBehind' = {q \in FlowPolls : q # p /\ oiPoll[q].pc # "idle"}
        /\ oiRaced' = (oiRaced \/ p \in oiBehind)
        /\ DOMAIN oiRows' = DOMAIN oiRows \cup DOMAIN oiPoll[p].got
    BY <1>4 DEF upsertOpenInterest
  <2>2. PICK n \in 1..Len(oiTrue) : PollSound(oiPoll[p], p \in oiBehind, n)
    BY <2>1 DEF OiInv
  <2>3. DOMAIN oiRows' \subseteq 1..Len(oiTrue)
    BY <2>1, <2>2 DEF OiInv, PollSound
  <2>4. /\ DOMAIN oiPoll' = FlowPolls /\ oiPoll'[p].pc = "idle"
        /\ \A q \in FlowPolls : q # p => oiPoll'[q] = oiPoll[q]
    BY <2>1 DEF OiInv, IdlePoll
  <2>5. ASSUME NEW q \in FlowPolls, oiPoll'[q].pc # "idle"
        PROVE  \E k \in 1..Len(oiTrue) : PollSound(oiPoll[q], q \in oiBehind, k)'
    <3>1. q # p /\ oiPoll[q].pc # "idle" /\ oiPoll'[q] = oiPoll[q]
      BY <2>4, <2>5
    <3>2. q \in oiBehind'
      BY <2>1, <3>1
    <3>3. PICK k \in 1..Len(oiTrue) : PollSound(oiPoll[q], q \in oiBehind, k)
      BY <3>1 DEF OiInv
    <3>4. PollSound(oiPoll[q], q \in oiBehind, k)'
      BY <3>1, <3>2, <3>3 DEF PollSound
    <3>5. QED
      BY <3>4
  <2>6. OiDeltasChain'
    <3>1. CASE oiRaced \/ p \in oiBehind
      BY <2>1, <3>1 DEF OiDeltasChain
    <3>2. CASE ~oiRaced /\ p \notin oiBehind
      <4>1. PollSound(oiPoll[p], FALSE, n) /\ OiDeltasChain /\ n \in Nat /\ n >= 1
        BY <2>2, <3>2 DEF PollSound, OiInv
      <4>2. QED
        BY <1>4, <3>2, <4>1, PollKeeps
    <3>3. QED
      BY <3>1, <3>2
  <2>7. QED
    BY <2>1, <2>3, <2>4, <2>5, <2>6 DEF OiInv
<1>10. ASSUME NEW p \in FlowPolls, PollFails(p) PROVE OiInv'
  <2>1. UNCHANGED <<oiTrue, oiRows, oiRaced, oiBehind>> /\ oiPoll' = [oiPoll EXCEPT ![p] = IdlePoll]
    BY <1>10 DEF PollFails
  <2>2. /\ DOMAIN oiPoll' = FlowPolls /\ oiPoll'[p].pc = "idle"
        /\ \A q \in FlowPolls : q # p => oiPoll'[q] = oiPoll[q]
    BY <2>1 DEF OiInv, IdlePoll
  <2>3. ASSUME NEW q \in FlowPolls, oiPoll'[q].pc # "idle"
        PROVE  \E k \in 1..Len(oiTrue) : PollSound(oiPoll[q], q \in oiBehind, k)'
    <3>1. q # p /\ oiPoll[q].pc # "idle" /\ oiPoll'[q] = oiPoll[q]
      BY <2>2, <2>3
    <3>2. PICK k \in 1..Len(oiTrue) : PollSound(oiPoll[q], q \in oiBehind, k)
      BY <3>1 DEF OiInv
    <3>3. PollSound(oiPoll[q], q \in oiBehind, k)'
      BY <2>1, <3>1, <3>2 DEF PollSound, priorOf
    <3>4. QED
      BY <3>3
  <2>4. OiDeltasChain'
    BY <2>1 DEF OiInv, OiDeltasChain
  <2>5. QED
    BY <2>1, <2>2, <2>3, <2>4 DEF OiInv
<1>11. ASSUME NEW v \in 1..MaxOi, NEW next \in BOOLEAN, OiMoves(v, next) PROVE OiInv'
  <2>1. UNCHANGED <<oiRows, oiPoll, oiBehind, oiRaced>> /\ v \in Int
        /\ oiTrue' = IF next THEN Append(oiTrue, v) ELSE [oiTrue EXCEPT ![Len(oiTrue)] = v]
    BY <1>11 DEF OiMoves
  <2>2. oiTrue' \in Seq(Int) /\ Len(oiTrue') >= Len(oiTrue) /\ Len(oiTrue') \in Nat /\ Len(oiTrue) \in Nat
    BY <2>1 DEF OiInv
  <2>3. OiDeltasChain'
    BY <2>1 DEF OiInv, OiDeltasChain
  <2>4. ASSUME NEW q \in FlowPolls, oiPoll'[q].pc # "idle"
        PROVE  \E k \in 1..Len(oiTrue') : PollSound(oiPoll[q], q \in oiBehind, k)'
    <3>1. PICK k \in 1..Len(oiTrue) : PollSound(oiPoll[q], q \in oiBehind, k)
      BY <2>1, <2>4 DEF OiInv
    <3>2. PollSound(oiPoll[q], q \in oiBehind, k)'
      BY <2>1, <3>1 DEF PollSound, priorOf
    <3>3. QED
      BY <2>2, <3>2
  <2>5. QED
    BY <2>1, <2>2, <2>3, <2>4 DEF OiInv
<1>5. CASE SocketSteps
  BY <1>1, <1>5, SocketFrame
<1>6. CASE TickSteps
  BY <1>1, <1>6, TickFrame DEF OnlyTicks
<1>7. CASE QuoteSteps
  BY <1>1, <1>7, QuoteFrame DEF OnlyQuotes
<1>8. CASE CandleSteps
  BY <1>1, <1>8, CandleFrame DEF OnlyCandles
<1>9. CASE UNCHANGED liveVars
  BY <1>1, <1>9 DEF liveVars
<1>12. QED
  BY <1>2, <1>3, <1>4, <1>5, <1>6, <1>7, <1>8, <1>9, <1>10, <1>11 DEF LiveNext, OiSteps

-----------------------------------------------------------------------------
(* The feed as a whole.                                                      *)
LEMMA CandleStep ==
  CandleTypeOK /\ WritesInv /\ SnapInv /\ [LiveNext]_liveVars => CandleTypeOK' /\ WritesInv' /\ SnapInv'
<1> SUFFICES ASSUME CandleTypeOK, WritesInv, SnapInv, [LiveNext]_liveVars
             PROVE  CandleTypeOK' /\ WritesInv' /\ SnapInv'
  OBVIOUS
<1>1. CASE UNCHANGED candleVars
  <2>1. UNCHANGED <<newest, saving, row, raced, recompute, read, snap, dropped, faulty>>
    BY <1>1 DEF candleVars
  <2>2. CandleTypeOK'
    BY <2>1 DEF CandleTypeOK
  <2>3. WritesInv'
    BY <2>1 DEF WritesInv, Pending
  <2>4. SnapInv'
    BY <2>1 DEF SnapInv, SnapIsCurrent, Warm, Held
  <2>5. QED
    BY <2>2, <2>3, <2>4
<1>2. CASE CandleSteps
  BY <1>2, CandleTypeStep, WritesStep, SnapStep
<1>3. CASE SocketSteps
  BY <1>1, <1>3, SocketFrame
<1>4. CASE TickSteps
  BY <1>1, <1>4, TickFrame DEF OnlyTicks
<1>5. CASE QuoteSteps
  BY <1>1, <1>5, QuoteFrame DEF OnlyQuotes
<1>6. CASE OiSteps
  BY <1>1, <1>6, OiFrame DEF OnlyOi
<1>7. CASE UNCHANGED liveVars
  BY <1>1, <1>7 DEF liveVars
<1>8. QED
  BY <1>2, <1>3, <1>4, <1>5, <1>6, <1>7 DEF LiveNext

\* LiveInv holds in every state of the daemon.
THEOREM FeedIsSound == DaemonSpec => []LiveInv
<1>1. DaemonInit => LiveInv
  BY SocketStart, TickStart, QuoteStart, CandleStart, OiStart DEF DaemonInit, LiveInv
<1>2. LiveInv /\ [DaemonNext]_daemonVars => LiveInv'
  <2>1. [DaemonNext]_daemonVars => [LiveNext]_liveVars
    BY DEF DaemonNext, daemonVars
  <2>2. LiveInv => QuoteTypeOK
    BY DEF LiveInv, QuoteInv
  <2>3. QED
    BY <2>1, <2>2, SocketStep, DrainStep, TickStep, QuoteStep, CandleStep, OiStep DEF LiveInv
<1>3. QED
  BY <1>1, <1>2, PTL DEF DaemonSpec

\* What the socket delivered is not lost quietly, for any set of symbols and any number
\* of overlapping flushes: every trade is buffered, in one running insert or settled;
\* stop() leaves no earlier trade in a buffer; the newest quote and funding rate are
\* kept, written or given up, a quote only when it came behind a running flush.
THEOREM NothingIsLost == DaemonSpec => []NothingLostQuietly
<1>1. LiveInv => NothingLostQuietly
  <2> SUFFICES ASSUME LiveInv PROVE NothingLostQuietly
    OBVIOUS
  <2>1. SocketInv /\ DrainInv /\ TickInv /\ QuoteInv /\ CandleTypeOK
    BY DEF LiveInv
  <2>2. LiveTypeOK
    <3>1. \A s \in Syms : buf[s] \subseteq 1..trades[s]
      BY <2>1 DEF TickInv
    <3>2. \A s \in Syms : latestQuote[s] \in 0..quotes[s]
      <4> TAKE s \in Syms
      <4>1. quotes[s] \in Nat /\ latestQuote[s] \in {0, quotes[s]}
        BY <2>1 DEF QuoteInv, QuoteTypeOK
      <4>2. QED
        BY <4>1
    <3>3. QED
      BY <2>1, <3>1, <3>2 DEF LiveTypeOK, SocketInv, CandleTypeOK
  <2>3. DrainSettlesTrades
    <3> SUFFICES ASSUME phase = "stopped", NEW s \in Syms, NEW t \in 1..atStop[s]
                 PROVE  t \in ticks[s] \cup lostTicks[s] \cup Inserting(s)
      BY DEF DrainSettlesTrades
    <3>1. trades[s] \in Nat /\ atStop[s] \in Nat /\ atStop[s] <= trades[s]
      BY <2>1 DEF TickInv, TickTypeOK
    <3>2. t \in 1..trades[s] /\ t <= atStop[s]
      BY <3>1
    <3>3. t \notin buf[s]
      BY <2>1, <3>2 DEF DrainInv
    <3>4. QED
      BY <2>1, <3>2, <3>3 DEF TickInv, TradesConserved
  <2>4. LatestIsKept
    <3>1. \A s \in Syms : QuoteKept(s) /\ FundingKept(s)
      BY <2>1, QuoteParts
    <3>2. QED
      BY <3>1 DEF LatestIsKept, QuoteKept, FundingKept, Offered, Settled, Written
  <2>5. QED
    BY <2>1, <2>2, <2>3, <2>4 DEF NothingLostQuietly, TickInv
<1>2. QED
  BY <1>1, FeedIsSound, PTL

\* Rows written without awaiting one another settle on the truth: once the writes of a
\* symbol are over and none failed, a bar that never raced holds its last version and
\* the features are those of the stored bar; open interest deltas chain until a poll
\* writes what it had fetched before a faster one wrote.
THEOREM RowsSettle == DaemonSpec => []RowsConverge
<1>1. LiveInv => RowsConverge
  <2> SUFFICES ASSUME LiveInv PROVE RowsConverge
    OBVIOUS
  <2>1. CandleTypeOK /\ WritesInv /\ SnapInv /\ OiInv
    BY DEF LiveInv
  <2>2. NewestBarWins
    <3> SUFFICES ASSUME NEW s \in Syms, Quiet(s), NEW b \in Bars
                 PROVE  row[s][b] = newest[s][b] \/ raced[s][b]
      BY DEF NewestBarWins
    <3>1. ~faulty[s] /\ ~Pending(s, b)
      BY DEF Quiet, Pending
    <3>2. QED
      BY <2>1, <3>1 DEF WritesInv
  <2>3. SnapshotMatchesRow
    <3> SUFFICES ASSUME NEW s \in Syms, Quiet(s), ~dropped[s], Warm(s)
                 PROVE  snap[s][LastBar(row[s])] = row[s][LastBar(row[s])]
      BY DEF SnapshotMatchesRow, Warm
    <3>1. recompute[s] = "none" /\ ~faulty[s] /\ \A x \in saving : x.sym # s
      BY DEF Quiet
    <3>2. SnapIsCurrent(s)
      BY <2>1, <3>1 DEF SnapInv
    <3>3. QED
      BY <3>2 DEF SnapIsCurrent
  <2>4. QED
    BY <2>1, <2>2, <2>3 DEF RowsConverge, OiInv
<1>2. QED
  BY <1>1, FeedIsSound, PTL

-----------------------------------------------------------------------------
(* Where the pages of a fetch can lose a bar.                                *)

\* A multiple of the grid that is closer to zero than the grid is zero.
LEMMA SmallMultiple ==
  ASSUME NEW g \in Nat \ {0}, NEW j \in Int, -g < g * j, g * j < g
  PROVE  j = 0
<1>1. CASE j >= 1
  <2>1. g * j = g + g * (j - 1)
    OBVIOUS
  <2>2. g * (j - 1) >= 0
    BY <1>1
  <2> QED
    BY <2>1, <2>2
<1>2. CASE j <= -1
  <2>1. g * j = -g + g * (j + 1)
    OBVIOUS
  <2>2. g * (-(j + 1)) >= 0
    BY <1>2
  <2>3. g * (j + 1) = - (g * (-(j + 1)))
    OBVIOUS
  <2> QED
    BY <2>1, <2>2, <2>3
<1> QED
  BY <1>1, <1>2

\* Quotient and remainder.
LEMMA Division ==
  ASSUME NEW x \in Nat, NEW g \in Nat \ {0}
  PROVE  /\ x \div g \in Nat /\ x % g \in Nat /\ x % g < g
         /\ x = g * (x \div g) + (x % g)
<1>1. x % g \in 0 .. (g - 1)
  OBVIOUS
<1>2. x \div g \in Nat
  OBVIOUS
<1>3. x = g * (x \div g) + (x % g)
  OBVIOUS
<1> QED
  BY <1>1, <1>2, <1>3

PageLength == PageBars * Grid
Offset == window.from % Grid
Base == window.from - Offset
Seam(n) == Base + n * PageLength

\* A window, its pages and the grid.
WindowTyped == window \in Windows /\ history \in Histories /\ startBar \in BOOLEAN

LEMMA WindowFacts ==
  ASSUME WindowTyped
  PROVE  /\ Grid \in Nat \ {0} /\ PageBars \in Nat \ {0} /\ PageLength \in Nat \ {0} /\ PageLength >= Grid
         /\ window.from \in Nat /\ window.to \in Nat /\ window.from <= window.to
         /\ Offset \in Nat /\ Offset < Grid /\ Base \in Nat /\ Base <= window.from
         /\ \E b \in Nat : Base = Grid * b
         /\ IsFiniteSet(history) /\ history \subseteq Candles
         /\ \A c \in history : c.ts \in Nat /\ \E q \in Nat : c.ts = Grid * q
         /\ \A c, d \in history : c.ts = d.ts => c = d
<1>1. /\ Grid \in Nat \ {0} /\ PageBars \in Nat \ {0}
      /\ window.from \in Nat /\ window.to \in Nat /\ window.from <= window.to
      /\ IsFiniteSet(history) /\ history \subseteq Candles
      /\ \A c \in history : c.ts % Grid = 0
      /\ \A c, d \in history : c.ts = d.ts => c = d
  BY BackfillAssumption DEF WindowTyped
<1>2. PageLength \in Nat \ {0} /\ PageLength >= Grid
  <2>1. PageLength = Grid + (PageBars - 1) * Grid
    BY <1>1 DEF PageLength
  <2>2. PageBars - 1 \in Nat
    BY <1>1
  <2>3. (PageBars - 1) * Grid \in Nat
    BY <1>1, <2>2
  <2> QED
    BY <1>1, <2>1, <2>3
<1>3. \A x \in Nat : /\ x % Grid \in Nat /\ x % Grid < Grid /\ x \div Grid \in Nat
                     /\ x = Grid * (x \div Grid) + (x % Grid)
  BY <1>1, Division
<1>4. \A c \in history : c.ts \in Nat
  BY <1>1 DEF Candles
<1>5. \A c \in history : \E q \in Nat : c.ts = Grid * q
  <2> TAKE c \in history
  <2>1. c.ts = Grid * (c.ts \div Grid) + 0 /\ c.ts \div Grid \in Nat
    BY <1>1, <1>3, <1>4
  <2>2. Grid * (c.ts \div Grid) \in Int
    BY <1>1, <2>1
  <2> QED
    BY <2>1, <2>2
<1>6. /\ Offset \in Nat /\ Offset < Grid
      /\ Base = Grid * (window.from \div Grid) /\ window.from \div Grid \in Nat
      /\ Base \in Nat /\ Base <= window.from
  <2>1. /\ Offset \in Nat /\ Offset < Grid /\ window.from \div Grid \in Nat
        /\ window.from = Grid * (window.from \div Grid) + Offset
    BY <1>1, <1>3 DEF Offset
  <2>2. Grid * (window.from \div Grid) \in Nat
    BY <1>1, <2>1
  <2> QED
    BY <1>1, <2>1, <2>2 DEF Base
<1> QED
  BY <1>1, <1>2, <1>4, <1>5, <1>6

\* Where the n-th page starts, as far as the grid is concerned.
LEMMA PageStart ==
  ASSUME WindowTyped, NEW n \in Nat
  PROVE  /\ Seam(n) \in Nat /\ window.from + n * PageLength = Seam(n) + Offset
         /\ \E s \in Nat : Seam(n) = Grid * s
         /\ Seam(n + 1) = Seam(n) + PageLength
         /\ (window.from + n * PageLength) % Grid = Offset
<1>1. PICK b \in Nat : Base = Grid * b
  BY WindowFacts
<1>2. /\ Grid \in Nat \ {0} /\ PageBars \in Nat \ {0} /\ PageLength \in Nat \ {0}
      /\ window.from \in Nat /\ Offset \in Nat /\ Offset < Grid /\ Base \in Nat
  BY WindowFacts
<1>3. n * PageLength \in Nat /\ (n + 1) * PageLength = n * PageLength + PageLength
  BY <1>2
<1>4. n * PageLength = Grid * (n * PageBars) /\ n * PageBars \in Nat
  BY <1>2 DEF PageLength
<1>5. Seam(n) = Grid * (b + n * PageBars) /\ b + n * PageBars \in Nat
  <2>1. Grid * (b + n * PageBars) = Grid * b + Grid * (n * PageBars)
    BY <1>2, <1>4
  <2> QED
    BY <1>1, <1>2, <1>4, <2>1 DEF Seam
<1>6. Seam(n) \in Nat /\ window.from + n * PageLength = Seam(n) + Offset
  BY <1>2, <1>3 DEF Seam, Base
<1>7. (Grid * (b + n * PageBars) + Offset) % Grid = Offset
  <2> DEFINE m == b + n * PageBars
  <2>1. m \in Nat
    BY <1>5
  <2> HIDE DEF m
  <2> DEFINE x == Grid * m + Offset
             q == x \div Grid
             r == x % Grid
  <2>2. Grid * m \in Nat /\ x \in Nat
    BY <1>2, <2>1
  <2>3. x = Grid * q + r /\ r \in 0 .. (Grid - 1) /\ q \in Int
    <3> HIDE DEF x
    <3> QED
      BY <1>2, <2>2
  <2> HIDE DEF q, r
  <2>4. Grid * (m - q) = r - Offset
    <3>1. Grid * (m - q) = Grid * m - Grid * q
      BY <1>2, <2>1, <2>3
    <3>2. Grid * q \in Int
      BY <1>2, <2>3
    <3> QED
      BY <1>2, <2>2, <2>3, <3>1, <3>2
  <2>5. -Grid < r - Offset /\ r - Offset < Grid
    BY <1>2, <2>3
  <2>6. m - q \in Int
    BY <2>1, <2>3
  <2>7. m - q = 0
    BY <1>2, <2>4, <2>5, <2>6, SmallMultiple
  <2>8. r = Offset
    <3>1. Grid * (m - q) = 0
      BY <1>2, <2>7
    <3> QED
      BY <1>2, <2>3, <2>4, <3>1
  <2> QED
    BY <2>8 DEF m, q, r
<1>8. Seam(n + 1) = Seam(n) + PageLength
  BY <1>2, <1>3 DEF Seam
<1>9. (window.from + n * PageLength) % Grid = Offset
  BY <1>5, <1>6, <1>7
<1> QED
  BY <1>5, <1>6, <1>8, <1>9

\* A bar between the end of a page and the next page lies on the seam.
LEMMA BetweenPages ==
  ASSUME WindowTyped, NEW n \in Nat, NEW c \in history,
         c.ts > window.from + n * PageLength + PageLength - Grid,
         c.ts < window.from + n * PageLength + PageLength
  PROVE  Offset # 0 /\ c.ts = Seam(n + 1)
<1>1. PICK q \in Nat : c.ts = Grid * q
  BY WindowFacts
<1>2. n + 1 \in Nat
  OBVIOUS
<1>3. PICK s \in Nat : Seam(n + 1) = Grid * s
  BY <1>2, PageStart
<1>4. /\ Grid \in Nat \ {0} /\ PageLength \in Nat \ {0} /\ Offset \in Nat /\ Offset < Grid /\ c.ts \in Nat
  BY WindowFacts
<1>5. /\ Seam(n) \in Nat /\ Seam(n + 1) \in Nat /\ window.from + n * PageLength = Seam(n) + Offset
      /\ Seam(n + 1) = Seam(n) + PageLength
  BY <1>2, PageStart
<1>6. c.ts - Seam(n + 1) > Offset - Grid /\ c.ts - Seam(n + 1) < Offset
  BY <1>4, <1>5
<1>7. Grid * (q - s) = c.ts - Seam(n + 1)
  <2>1. Grid * (q - s) = Grid * q - Grid * s
    BY <1>4
  <2> QED
    BY <1>1, <1>3, <2>1
<1>8. q - s = 0
  <2>1. q - s \in Int
    OBVIOUS
  <2>2. -Grid < Grid * (q - s) /\ Grid * (q - s) < Grid
    BY <1>4, <1>5, <1>6, <1>7
  <2> QED
    BY <1>4, <2>1, <2>2, SmallMultiple
<1>9. c.ts - Seam(n + 1) = 0
  <2>1. Grid * (q - s) = 0
    BY <1>4, <1>8
  <2> QED
    BY <1>7, <2>1
<1> QED
  BY <1>4, <1>5, <1>6, <1>9

-----------------------------------------------------------------------------
(* Lists of finite sets: of scopes, and of candles by their times.           *)

\* An injection between sets of one size reaches every element.
LEMMA InjectionIsOnto ==
  ASSUME NEW S, NEW T, NEW f \in [S -> T], \A x, y \in S : f[x] = f[y] => x = y,
         IsFiniteSet(T), Cardinality(S) = Cardinality(T)
  PROVE  \A t \in T : \E x \in S : f[x] = t
<1>1. f \in Injection(S, T)
  BY DEF Injection, IsInjective
<1>2. f \in Surjection(S, T)
  BY <1>1, FS_Injection
<1> QED
  BY <1>2 DEF Surjection

\* An injection into a finite set bounds the size of its domain.
LEMMA InjectionBounds ==
  ASSUME NEW S, NEW T, NEW f \in [S -> T], \A x, y \in S : f[x] = f[y] => x = y,
         IsFiniteSet(T)
  PROVE  IsFiniteSet(S) /\ Cardinality(S) <= Cardinality(T)
<1>1. f \in Injection(S, T)
  BY DEF Injection, IsInjective
<1> QED
  BY <1>1, FS_Injection

\* SetToSeq lists every element of a finite set.
LEMMA Listing ==
  ASSUME NEW S, IsFiniteSet(S)
  PROVE  /\ Cardinality(S) \in Nat
         /\ SetToSeq(S) \in [1 .. Cardinality(S) -> S]
         /\ \A x \in S : \E i \in 1 .. Cardinality(S) : SetToSeq(S)[i] = x
<1>1. Cardinality(S) \in Nat /\ ExistsBijection(1 .. Cardinality(S), S)
  BY FS_CardinalityType
<1>2. \E f \in [1 .. Cardinality(S) -> S] : IsInjective(f)
  BY <1>1 DEF ExistsBijection, Bijection, Injection
<1>3. SetToSeq(S) \in [1 .. Cardinality(S) -> S] /\ IsInjective(SetToSeq(S))
  BY <1>2 DEF SetToSeq
<1>4. \A i, j \in 1 .. Cardinality(S) : SetToSeq(S)[i] = SetToSeq(S)[j] => i = j
  BY <1>3 DEF IsInjective
<1>5. Cardinality(1 .. Cardinality(S)) = Cardinality(S)
  BY <1>1, FS_Interval
<1> QED
  BY <1>1, <1>3, <1>4, <1>5, InjectionIsOnto

\* Candles of which no two have one time.
Distinct(S) == IsFiniteSet(S) /\ \A c \in S : c.ts \in Nat /\ \A d \in S : c.ts = d.ts => c = d

\* Sorted lists such candles, all of them, in the order of their times.
LEMMA SortedIs ==
  ASSUME NEW S, Distinct(S)
  PROVE  /\ Cardinality(S) \in Nat
         /\ Sorted(S) \in [1 .. Cardinality(S) -> S]
         /\ \A c \in S : \E i \in 1 .. Cardinality(S) : Sorted(S)[i] = c
         /\ \A i, j \in 1 .. Cardinality(S) : i < j => Sorted(S)[i].ts < Sorted(S)[j].ts
<1> DEFINE n == Cardinality(S)
           rank == [c \in S |-> Cardinality(Earlier(S, c))]
<1>1. n \in Nat
  BY FS_CardinalityType DEF Distinct
<1>2. \A c \in S : /\ IsFiniteSet(Earlier(S, c)) /\ Cardinality(Earlier(S, c)) \in Nat
                   /\ Cardinality(Earlier(S, c)) <= n - 1
  <2> TAKE c \in S
  <2>1. IsFiniteSet(S \ {c}) /\ Cardinality(S \ {c}) = n - 1
    BY FS_RemoveElement DEF Distinct
  <2>2. Earlier(S, c) \in SUBSET (S \ {c})
    BY DEF Earlier, Distinct
  <2> HIDE DEF n
  <2>3. IsFiniteSet(Earlier(S, c)) /\ Cardinality(Earlier(S, c)) <= n - 1
    BY <2>1, <2>2, FS_Subset
  <2> QED
    BY <2>3, FS_CardinalityType
<1>3. \A c, d \in S : c.ts < d.ts => rank[c] < rank[d]
  <2> SUFFICES ASSUME NEW c \in S, NEW d \in S, c.ts < d.ts
               PROVE  rank[c] < rank[d]
    OBVIOUS
  <2>1. Earlier(S, c) \in SUBSET Earlier(S, d) /\ c \in Earlier(S, d) /\ c \notin Earlier(S, c)
    BY DEF Earlier, Distinct
  <2>2. /\ Cardinality(Earlier(S, c)) <= Cardinality(Earlier(S, d))
        /\ Cardinality(Earlier(S, d)) # Cardinality(Earlier(S, c))
    BY <1>2, <2>1, FS_Subset
  <2> QED
    BY <1>2, <2>2
<1>4. \A c, d \in S : rank[c] = rank[d] => c = d
  <2> SUFFICES ASSUME NEW c \in S, NEW d \in S, c # d
               PROVE  rank[c] # rank[d]
    OBVIOUS
  <2>1. c.ts < d.ts \/ d.ts < c.ts
    BY DEF Distinct
  <2>2. rank[c] \in Nat /\ rank[d] \in Nat
    BY <1>2
  <2> HIDE DEF rank
  <2> QED
    BY <1>3, <2>1, <2>2
<1>5. rank \in [S -> 0 .. (n - 1)]
  <2> HIDE DEF n
  <2> QED
    BY <1>1, <1>2
<1>6. IsFiniteSet(0 .. (n - 1)) /\ Cardinality(0 .. (n - 1)) = n
  <2> HIDE DEF n
  <2>1. n - 1 \in Int
    BY <1>1
  <2> QED
    BY <1>1, <2>1, FS_Interval
<1>7. \A k \in 0 .. (n - 1) : \E c \in S : rank[c] = k
  <2> DEFINE T == 0 .. (n - 1)
  <2> HIDE DEF rank
  <2>1. rank \in [S -> T] /\ IsFiniteSet(T) /\ Cardinality(S) = Cardinality(T)
    BY <1>5, <1>6
  <2> HIDE DEF n, T
  <2>2. \A k \in T : \E c \in S : rank[c] = k
    BY <1>4, <2>1, InjectionIsOnto
  <2> QED
    BY <2>2 DEF T
<1>8. ASSUME NEW i \in 1 .. n
      PROVE  Sorted(S)[i] \in S /\ rank[Sorted(S)[i]] = i - 1
  <2>1. i - 1 \in 0 .. (n - 1)
    BY <1>1
  <2>2. \E c \in S : Cardinality(Earlier(S, c)) = i - 1
    BY <1>7, <2>1
  <2>3. Sorted(S)[i] = CHOOSE c \in S : Cardinality(Earlier(S, c)) = i - 1
    BY DEF Sorted
  <2> QED
    BY <2>2, <2>3
<1>9. Sorted(S) \in [1 .. n -> S]
  <2>1. Sorted(S) = [i \in 1 .. n |-> Sorted(S)[i]]
    BY DEF Sorted
  <2> HIDE DEF n
  <2> QED
    BY <1>8, <2>1
<1>10. ASSUME NEW c \in S PROVE \E i \in 1 .. n : Sorted(S)[i] = c
  <2>1. rank[c] \in 0 .. (n - 1)
    BY <1>5
  <2> HIDE DEF n, rank
  <2>2. rank[c] + 1 \in 1 .. n /\ (rank[c] + 1) - 1 = rank[c]
    BY <1>1, <2>1
  <2> QED
    BY <1>4, <1>8, <2>2
<1>11. ASSUME NEW i \in 1 .. n, NEW j \in 1 .. n, i < j
       PROVE  Sorted(S)[i].ts < Sorted(S)[j].ts
  <2> DEFINE a == Sorted(S)[i]
             b == Sorted(S)[j]
  <2>1. a \in S /\ b \in S /\ rank[a] = i - 1 /\ rank[b] = j - 1
    BY <1>8
  <2> HIDE DEF rank, a, b
  <2>2. a.ts \in Nat /\ b.ts \in Nat /\ (a.ts = b.ts => a = b)
    BY <2>1 DEF Distinct
  <2>3. i - 1 < j - 1
    BY <1>1, <1>11
  <2>4. ~(b.ts < a.ts)
    <3> HIDE DEF n
    <3> SUFFICES ASSUME b.ts < a.ts PROVE FALSE
      OBVIOUS
    <3>1. j - 1 < i - 1
      BY <1>3, <2>1
    <3> QED
      BY <1>1, <1>11, <3>1
  <2>5. a # b
    BY <1>1, <1>11, <2>1, <2>3
  <2>6. a.ts < b.ts
    BY <2>2, <2>4, <2>5
  <2> QED
    BY <2>6 DEF a, b
<1> HIDE DEF rank
<1> QED
  BY <1>1, <1>9, <1>10, <1>11

-----------------------------------------------------------------------------
(* The scopes of a backfill.                                                 *)
ScopeSet ==
  [kind : {"candles"}, of : Symbols]
    \cup [kind : {"funding", "oi", "lsr", "liquidity", "options"}, of : Symbols \cup Underlyings]
Awaits(scope) == \E i \in 1 .. Len(todo) : todo[i] = scope

\* Every symbol has its candle scope among the scopes a backfill starts with.
LEMMA ScopesListed ==
  /\ AllScopes \in Seq(ScopeSet)
  /\ \A s \in Symbols : \E i \in 1 .. Len(AllScopes) : AllScopes[i] = Scope("candles", s)
<1> DEFINE m == Cardinality(Symbols)
           u == Cardinality(Underlyings)
           A == Each(Symbols, "candles")
           B == FlowScopes
           C == Each(Underlyings, "options")
<1>1. /\ m \in Nat /\ SetToSeq(Symbols) \in [1 .. m -> Symbols]
      /\ \A x \in Symbols : \E i \in 1 .. m : SetToSeq(Symbols)[i] = x
      /\ u \in Nat /\ SetToSeq(Underlyings) \in [1 .. u -> Underlyings]
  BY Listing, BackfillAssumption
<1>2. A \in Seq(ScopeSet) /\ Len(A) = m /\ \A i \in 1 .. m : A[i] = Scope("candles", SetToSeq(Symbols)[i])
  <2>1. A = [i \in 1 .. m |-> Scope("candles", SetToSeq(Symbols)[i])]
    BY DEF Each
  <2>2. \A i \in 1 .. m : Scope("candles", SetToSeq(Symbols)[i]) \in ScopeSet
    BY <1>1 DEF Scope, ScopeSet
  <2> HIDE DEF A, m
  <2> QED
    BY <1>1, <2>1, <2>2
<1>3. B \in Seq(ScopeSet)
  <2>1. B = [i \in 1 .. (4 * m) |-> Scope(FlowKinds[((i - 1) % 4) + 1],
                                          SetToSeq(Symbols)[((i - 1) \div 4) + 1])]
    BY DEF FlowScopes
  <2>2. ASSUME NEW i \in 1 .. (4 * m)
        PROVE  Scope(FlowKinds[((i - 1) % 4) + 1], SetToSeq(Symbols)[((i - 1) \div 4) + 1]) \in ScopeSet
    <3> DEFINE k == ((i - 1) % 4) + 1
               l == ((i - 1) \div 4) + 1
    <3> HIDE DEF m
    <3>1. k \in 1 .. 4 /\ l \in 1 .. m
      BY <1>1
    <3> HIDE DEF k, l
    <3>2. FlowKinds[k] \in {"funding", "oi", "lsr", "liquidity"}
      <4>1. k = 1 \/ k = 2 \/ k = 3 \/ k = 4
        BY <3>1
      <4> QED
        BY <4>1 DEF FlowKinds
    <3>3. SetToSeq(Symbols)[l] \in Symbols
      BY <1>1, <3>1
    <3>4. Scope(FlowKinds[k], SetToSeq(Symbols)[l]) \in ScopeSet
      BY <3>2, <3>3 DEF Scope, ScopeSet
    <3> QED
      BY <3>4 DEF k, l
  <2>3. 4 * m \in Nat
    BY <1>1
  <2> HIDE DEF B, m
  <2> QED
    BY <2>1, <2>2, <2>3
<1>4. C \in Seq(ScopeSet)
  <2>1. C = [i \in 1 .. u |-> Scope("options", SetToSeq(Underlyings)[i])]
    BY DEF Each
  <2>2. \A i \in 1 .. u : Scope("options", SetToSeq(Underlyings)[i]) \in ScopeSet
    BY <1>1 DEF Scope, ScopeSet
  <2> HIDE DEF C, u
  <2> QED
    BY <1>1, <2>1, <2>2
<1>5. AllScopes = (A \o B) \o C
  BY DEF AllScopes
<1> HIDE DEF A, B, C
<1>6. AllScopes \in Seq(ScopeSet)
  BY <1>2, <1>3, <1>4, <1>5
<1>7. \A i \in 1 .. m : i \in 1 .. Len(AllScopes) /\ AllScopes[i] = A[i]
  <2>1. A \o B \in Seq(ScopeSet) /\ Len(A \o B) = Len(A) + Len(B) /\ Len(B) \in Nat /\ Len(C) \in Nat
    BY <1>2, <1>3, <1>4
  <2>2. \A i \in 1 .. Len(A) : (A \o B)[i] = A[i]
    BY <1>2, <1>3
  <2>3. /\ Len((A \o B) \o C) = Len(A \o B) + Len(C)
        /\ \A i \in 1 .. Len(A \o B) : ((A \o B) \o C)[i] = (A \o B)[i]
    BY <1>4, <2>1
  <2> HIDE DEF m
  <2> QED
    BY <1>1, <1>2, <1>5, <2>1, <2>2, <2>3
<1> HIDE DEF m
<1> QED
  BY <1>1, <1>2, <1>6, <1>7

\* Leaving a scope behind leaves all the others ahead.
LEMMA ScopeLeft ==
  ASSUME todo \in Seq(ScopeSet), todo # <<>>
  PROVE  /\ Head(todo) \in ScopeSet /\ Tail(todo) \in Seq(ScopeSet)
         /\ \A x : Awaits(x) => x = Head(todo) \/ \E i \in 1 .. Len(Tail(todo)) : Tail(todo)[i] = x
<1>1. /\ Head(todo) \in ScopeSet /\ Tail(todo) \in Seq(ScopeSet) /\ Head(todo) = todo[1]
      /\ Len(todo) \in Nat /\ Len(Tail(todo)) = Len(todo) - 1
      /\ \A i \in 1 .. (Len(todo) - 1) : Tail(todo)[i] = todo[i + 1]
  OBVIOUS
<1>2. ASSUME NEW i \in 1 .. Len(todo), i # 1
      PROVE  i - 1 \in 1 .. (Len(todo) - 1) /\ todo[i] = Tail(todo)[i - 1]
  <2>1. i - 1 \in 1 .. (Len(todo) - 1) /\ (i - 1) + 1 = i
    BY <1>1, <1>2
  <2> QED
    BY <1>1, <2>1
<1> QED
  BY <1>1, <1>2 DEF Awaits

\* The candle scope under way is one of a symbol.
LEMMA CandleScope ==
  ASSUME NEW x \in ScopeSet, x.kind = "candles"
  PROVE  x.of \in Symbols /\ x = Scope("candles", x.of)
BY DEF ScopeSet, Scope

-----------------------------------------------------------------------------
(* The inductive invariant.                                                  *)

BackfillTyped ==
  /\ WindowTyped /\ todo \in Seq(ScopeSet)
  /\ step \in {"fetch", "upsert", "validate", "bridge"}
  /\ fetched \in SUBSET history /\ stored \in [Symbols -> SUBSET history]
  /\ IsSequence(reports)

\* After n pages every bar of the venue before the cursor was fetched, but for
\* bars on the seams; a venue that returns the bar containing a page's start
\* returns those of the seams before the last one too.
PagesDone(n) ==
  /\ cursor = window.from + n * PageLength
  /\ \A c \in history :
       InWindow(c.ts) /\ c.ts < cursor /\ c \notin fetched =>
         Offset # 0 /\ \E k \in 1 .. n : c.ts = Seam(k) /\ (startBar => k = n)
PagesInv ==
  /\ step = "fetch" => \E n \in Nat : PagesDone(n)
  /\ step = "upsert" => \E n \in Nat : PagesDone(n) /\ cursor > window.to

Reported(s) == \E i \in 1 .. Len(reports) : reports[i].of = s
FailuresInv ==
  /\ errors = failed
  /\ beat # "RUNNING" => todo = <<>> /\ (beat = "OK") = (errors = {})
  /\ \A s \in Symbols : Awaits(Scope("candles", s)) \/ Reported(s) \/ Scope("candles", s) \in failed
  /\ At("bridge") => Reported(Current.of)

BackfillInv == BackfillTyped /\ PagesInv /\ FailuresInv

\* One page more.
LEMMA OnePageMore ==
  ASSUME WindowTyped, fetched \in SUBSET history, NEW n \in Nat, PagesDone(n), FetchPage
  PROVE  PagesDone(n + 1)' /\ fetched' \in SUBSET history
<1>1. /\ Grid \in Nat \ {0} /\ PageLength \in Nat \ {0} /\ PageLength >= Grid
      /\ window.from \in Nat /\ window.to \in Nat /\ Offset \in Nat /\ Offset < Grid
      /\ \A c \in history : c.ts \in Nat
  BY WindowFacts
<1>2. /\ Seam(n) \in Nat /\ window.from + n * PageLength = Seam(n) + Offset
      /\ (window.from + n * PageLength) % Grid = Offset
      /\ Seam(n + 1) = Seam(n) + PageLength
  BY PageStart
<1>3. cursor = Seam(n) + Offset /\ cursor \in Nat /\ cursor % Grid = Offset
  BY <1>1, <1>2 DEF PagesDone
<1>4. /\ cursor <= window.to /\ cursor' = cursor + PageLength
      /\ fetched' = fetched \cup {c \in PageRows : InWindow(c.ts)}
      /\ window' = window /\ history' = history /\ startBar' = startBar
  BY DEF FetchPage, config, PageLength
<1>5. PageRows \subseteq history /\ fetched' \in SUBSET history
  BY <1>4 DEF PageRows
<1>6. /\ PageEnd \in Int /\ PageEnd >= cursor
      /\ PageEnd = cursor + PageLength - Grid \/ PageEnd = window.to
  BY <1>1, <1>3, <1>4 DEF PageEnd, AtMost, PageLength
<1>7. ASSUME NEW c \in history, InWindow(c.ts), c.ts < cursor + PageLength, c \notin fetched'
      PROVE  Offset # 0 /\ \E k \in 1 .. (n + 1) : c.ts = Seam(k) /\ (startBar => k = n + 1)
  <2>1. c \notin fetched /\ c \notin PageRows
    BY <1>4, <1>7
  <2>2. c.ts <= window.to /\ c.ts \in Nat
    BY <1>1, <1>7 DEF InWindow
  <2>3. CASE c.ts < cursor
    <3>1. Offset # 0 /\ \E k \in 1 .. n : c.ts = Seam(k) /\ (startBar => k = n)
      BY <1>7, <2>1, <2>3 DEF PagesDone
    <3>2. CASE startBar
      <4>1. c.ts = Seam(n)
        BY <3>1, <3>2
      <4>2. c.ts >= cursor - (cursor % Grid) /\ c.ts <= PageEnd
        BY <1>1, <1>2, <1>3, <1>6, <2>3, <4>1
      <4> QED
        BY <2>1, <3>2, <4>2 DEF PageRows
    <3>3. CASE ~startBar
      <4>1. \A k \in 1 .. n : k \in 1 .. (n + 1)
        OBVIOUS
      <4> QED
        BY <3>1, <3>3, <4>1
    <3> QED
      BY <3>2, <3>3
  <2>4. CASE c.ts >= cursor
    <3>1. c.ts >= (IF startBar THEN cursor - (cursor % Grid) ELSE cursor)
      BY <1>1, <1>3, <2>2, <2>4
    <3>2. ~(c.ts <= PageEnd)
      BY <2>1, <3>1 DEF PageRows
    <3>3. c.ts > cursor + PageLength - Grid
      BY <1>1, <1>3, <1>6, <2>2, <3>2
    <3>4. Offset # 0 /\ c.ts = Seam(n + 1)
      <4>1. /\ c.ts > window.from + n * PageLength + PageLength - Grid
            /\ c.ts < window.from + n * PageLength + PageLength
        BY <1>7, <3>3 DEF PagesDone
      <4> QED
        BY <4>1, BetweenPages
    <3> QED
      BY <3>4
  <2> QED
    BY <1>3, <2>2, <2>3, <2>4
<1>8. Offset' = Offset /\ Base' = Base /\ PageLength' = PageLength /\ (\A k : Seam(k)' = Seam(k))
  BY <1>4 DEF Offset, Base, PageLength, Seam
<1>9. cursor' = (window.from + (n + 1) * PageLength)'
  <2>1. (n + 1) * PageLength = n * PageLength + PageLength /\ n * PageLength \in Nat
    BY <1>1
  <2> QED
    BY <1>1, <1>4, <1>8, <2>1 DEF PagesDone
<1>10. \A t : InWindow(t)' = InWindow(t)
  BY <1>4 DEF InWindow
<1> QED
  BY <1>4, <1>5, <1>7, <1>8, <1>9, <1>10 DEF PagesDone

\* Before the first page nothing was missed.
LEMMA NoPageYet ==
  ASSUME WindowTyped, cursor = window.from
  PROVE  PagesDone(0)
<1>1. 0 * PageLength = 0 /\ window.from \in Nat
  BY WindowFacts
<1>2. \A c \in history : ~(InWindow(c.ts) /\ c.ts < cursor)
  BY WindowFacts DEF InWindow
<1> QED
  BY <1>1, <1>2 DEF PagesDone

\* The missed bars lie on seams, no two on one.
LEMMA FewMissed ==
  ASSUME WindowTyped, NEW n \in Nat, PagesDone(n), cursor > window.to
  PROVE  LET missed == {c \in history : InWindow(c.ts)} \ fetched IN
         /\ IsFiniteSet(missed) /\ Cardinality(missed) \in Nat
         /\ Offset = 0 => missed = {}
         /\ startBar => Cardinality(missed) <= 1
         /\ Cardinality(missed) <= (window.to - window.from + Offset) \div PageLength
<1> DEFINE missed == {c \in history : InWindow(c.ts)} \ fetched
           room == (window.to - window.from + Offset) \div PageLength
<1>1. /\ Grid \in Nat \ {0} /\ PageLength \in Nat \ {0} /\ Base \in Nat
      /\ window.from \in Nat /\ window.to \in Nat /\ window.from <= window.to /\ Offset \in Nat
      /\ IsFiniteSet(history)
      /\ \A c \in history : c.ts \in Nat
      /\ \A c, d \in history : c.ts = d.ts => c = d
  BY WindowFacts
<1>2. IsFiniteSet(missed) /\ Cardinality(missed) \in Nat
  <2>1. missed \in SUBSET history
    OBVIOUS
  <2>2. IsFiniteSet(missed)
    BY <1>1, <2>1, FS_Subset
  <2> QED
    BY <2>2, FS_CardinalityType
<1>3. \A c \in missed : Offset # 0 /\ \E k \in 1 .. n : c.ts = Seam(k) /\ (startBar => k = n)
  <2> TAKE c \in missed
  <2>1. window.from + n * PageLength \in Nat
    BY <1>1
  <2>2. c \in history /\ InWindow(c.ts) /\ c \notin fetched /\ c.ts < cursor
    BY <1>1, <2>1 DEF InWindow, PagesDone
  <2> QED
    BY <2>2 DEF PagesDone
<1>4. startBar => Cardinality(missed) <= 1
  <2> SUFFICES ASSUME startBar, Cardinality(missed) > 1 PROVE FALSE
    BY <1>2
  <2>1. \A c, d \in missed : c = d
    <3> TAKE c, d \in missed
    <3>1. c.ts = Seam(n) /\ d.ts = Seam(n)
      BY <1>3
    <3> QED
      BY <1>1, <3>1
  <2>2. PICK c : c \in missed
    BY <1>2, FS_EmptySet
  <2>3. missed = {c}
    BY <2>1, <2>2
  <2> QED
    BY <1>2, <2>3, FS_Singleton
<1>5. Cardinality(missed) <= room
  <2> DEFINE seamOf == [c \in missed |-> CHOOSE k \in 1 .. n : c.ts = Seam(k)]
  <2>1. \A c \in missed : seamOf[c] \in 1 .. n /\ c.ts = Seam(seamOf[c])
    BY <1>3
  <2>2. room \in Nat /\ PageLength * room <= window.to - Base /\ window.to - Base < PageLength * (room + 1)
    <3> DEFINE x == window.to - Base
    <3>1. x \in Nat /\ x = window.to - window.from + Offset
      <4>1. Base = window.from - Offset /\ Base <= window.from
        BY WindowFacts DEF Base
      <4> QED
        BY <1>1, <4>1
    <3>2. room = x \div PageLength
      BY <3>1
    <3> HIDE DEF x, room
    <3>3. /\ room \in Nat /\ x = PageLength * room + (x % PageLength)
          /\ x % PageLength \in Nat /\ x % PageLength < PageLength
      BY <1>1, <3>1, <3>2, Division
    <3>4. PageLength * room \in Nat /\ PageLength * (room + 1) = PageLength * room + PageLength
      BY <1>1, <3>3
    <3> QED
      BY <1>1, <3>3, <3>4 DEF x
  <2> HIDE DEF seamOf, room, missed
  <2>3. ASSUME NEW c \in missed PROVE seamOf[c] \in 1 .. room
    <3> DEFINE k == seamOf[c]
    <3>1. k \in 1 .. n /\ c.ts = Base + k * PageLength
      BY <2>1 DEF Seam
    <3>2. c.ts <= window.to
      BY DEF missed, InWindow
    <3> HIDE DEF k
    <3>3. k * PageLength <= window.to - Base /\ k * PageLength \in Nat
      BY <1>1, <3>1, <3>2
    <3>4. ASSUME k > room PROVE FALSE
      <4>1. k - (room + 1) \in Nat
        BY <2>2, <3>1, <3>4
      <4>2. k * PageLength = PageLength * (room + 1) + (k - (room + 1)) * PageLength
        BY <1>1, <2>2, <3>1
      <4>3. (k - (room + 1)) * PageLength \in Nat /\ PageLength * (room + 1) \in Nat
        BY <1>1, <2>2, <4>1
      <4> QED
        BY <1>1, <2>2, <3>3, <4>2, <4>3
    <3>5. k \in 1 .. room
      BY <2>2, <3>1, <3>4
    <3> QED
      BY <3>5 DEF k
  <2>4. seamOf \in [missed -> 1 .. room]
    BY <2>3 DEF seamOf
  <2>5. \A c, d \in missed : seamOf[c] = seamOf[d] => c = d
    BY <1>1, <2>1 DEF missed
  <2>6. IsFiniteSet(1 .. room) /\ Cardinality(1 .. room) = room
    BY <2>2, FS_Interval
  <2>7. Cardinality(missed) <= Cardinality(1 .. room)
    <3> DEFINE T == 1 .. room
    <3>1. seamOf \in [missed -> T] /\ IsFiniteSet(T)
      BY <2>4, <2>6
    <3> HIDE DEF T
    <3>2. Cardinality(missed) <= Cardinality(T)
      BY <2>5, <3>1, InjectionBounds
    <3> QED
      BY <3>2 DEF T
  <2> QED
    BY <2>6, <2>7
<1> QED
  BY <1>2, <1>3, <1>4, <1>5

\* A backfill starts with all its scopes ahead and no page fetched.
LEMMA InitSound == BackfillInit => BackfillInv
<1> SUFFICES ASSUME BackfillInit PROVE BackfillInv
  OBVIOUS
<1>1. BackfillTyped
  <2>1. todo \in Seq(ScopeSet)
    BY ScopesListed DEF BackfillInit
  <2>2. IsSequence(reports)
    BY DEF BackfillInit, IsSequence, Entries
  <2>3. stored \in [Symbols -> SUBSET history]
    BY DEF BackfillInit
  <2> QED
    BY <2>1, <2>2, <2>3 DEF BackfillInit, BackfillTyped, WindowTyped
<1>2. PagesInv
  <2>1. PagesDone(0)
    BY <1>1, NoPageYet DEF BackfillInit, BackfillTyped
  <2> QED
    BY <2>1 DEF BackfillInit, PagesInv
<1>3. FailuresInv
  <2>1. \A s \in Symbols : Awaits(Scope("candles", s))
    BY ScopesListed DEF BackfillInit, Awaits
  <2> QED
    BY <2>1 DEF BackfillInit, FailuresInv, At
<1> QED
  BY <1>1, <1>2, <1>3 DEF BackfillInv

\* The next scope starts afresh; the one left behind must be accounted for.
LEMMA NextScopeSound ==
  ASSUME BackfillInv, todo # <<>>, NextScope, config' = config,
         stored' \in [Symbols -> SUBSET history], reports' = reports, beat' = beat,
         errors' = failed', failed \subseteq failed',
         Current.kind = "candles" => Reported(Current.of) \/ Current \in failed'
  PROVE  BackfillInv'
<1>1. /\ window' = window /\ history' = history /\ startBar' = startBar
      /\ todo' = Tail(todo) /\ step' = "fetch" /\ cursor' = window.from /\ fetched' = {}
  BY DEF NextScope, config
<1>2. /\ Current \in ScopeSet /\ todo' \in Seq(ScopeSet)
      /\ \A x : Awaits(x) => x = Current \/ Awaits(x)'
  BY <1>1, ScopeLeft DEF BackfillInv, BackfillTyped, Awaits, Current
<1>3. BackfillTyped'
  BY <1>1, <1>2 DEF BackfillInv, BackfillTyped, WindowTyped
<1>4. PagesInv'
  <2>1. WindowTyped' /\ cursor' = window'.from
    BY <1>1, <1>3 DEF BackfillTyped
  <2>2. PagesDone(0)'
    <3>1. 0 * PageLength' = 0 /\ window'.from \in Nat
      BY <1>1, WindowFacts DEF BackfillInv, BackfillTyped, PageLength
    <3>2. \A c \in history' : ~(InWindow(c.ts)' /\ c.ts < cursor')
      BY <1>1, WindowFacts DEF InWindow, BackfillInv, BackfillTyped
    <3> QED
      BY <2>1, <3>1, <3>2 DEF PagesDone
  <2> QED
    BY <1>1, <2>2 DEF PagesInv
<1>5. FailuresInv'
  <2>1. beat' = "RUNNING"
    BY DEF BackfillInv, FailuresInv
  <2>2. ASSUME NEW s \in Symbols
        PROVE  Awaits(Scope("candles", s))' \/ Reported(s)' \/ Scope("candles", s) \in failed'
    <3>1. CASE Scope("candles", s) = Current
      BY <3>1 DEF Scope, Reported
    <3>2. CASE Scope("candles", s) # Current
      BY <1>2, <3>2 DEF BackfillInv, FailuresInv, Reported
    <3> QED
      BY <3>1, <3>2
  <2>3. ~At("bridge")'
    BY <1>1 DEF At
  <2> QED
    BY <2>1, <2>2, <2>3 DEF FailuresInv
<1> QED
  BY <1>3, <1>4, <1>5 DEF BackfillInv

\* A step within a candle scope.
LEMMA InScopeSound ==
  ASSUME BackfillInv, todo # <<>>, config' = config, todo' = todo,
         step' \in {"fetch", "upsert", "validate", "bridge"},
         fetched' \in SUBSET history, stored' \in [Symbols -> SUBSET history],
         IsSequence(reports'), \A s : Reported(s) => Reported(s)',
         errors' = errors, failed' = failed, beat' = beat,
         PagesInv', step' = "bridge" => Reported(Current.of)'
  PROVE  BackfillInv'
<1>1. window' = window /\ history' = history /\ startBar' = startBar /\ Current' = Current
  BY DEF config, Current
<1>2. BackfillTyped'
  BY <1>1 DEF BackfillInv, BackfillTyped, WindowTyped
<1>3. FailuresInv'
  <2>1. beat' = "RUNNING" /\ errors' = failed'
    BY DEF BackfillInv, FailuresInv
  <2>2. \A x : Awaits(x)' = Awaits(x)
    BY DEF Awaits
  <2>3. \A s \in Symbols : Awaits(Scope("candles", s))' \/ Reported(s)' \/ Scope("candles", s) \in failed'
    BY <2>2 DEF BackfillInv, FailuresInv
  <2>4. At("bridge")' => Reported(Current.of)'
    BY DEF At
  <2> QED
    BY <2>1, <2>3, <2>4 DEF FailuresInv
<1> QED
  BY <1>2, <1>3 DEF BackfillInv

\* Upserting bars of the venue adds them: a bar is the only one of its time.
LEMMA UpsertedIsUnion ==
  ASSUME WindowTyped, NEW rows \in SUBSET history, NEW new \in SUBSET history
  PROVE  Upserted(rows, new) = rows \cup new
<1>1. \A c, d \in history : c.ts = d.ts => c = d
  BY WindowFacts
<1> QED
  BY <1>1 DEF Upserted

\* What a failing upsert leaves is a part of the batch.
LEMMA ChunkIsPart ==
  ASSUME WindowTyped, NEW S \in SUBSET history, NEW n \in 0 .. Cardinality(S)
  PROVE  ToSet(SubSeq(Sorted(S), 1, n)) \in SUBSET S
<1>1. Distinct(S)
  <2>1. IsFiniteSet(S)
    BY WindowFacts, FS_Subset
  <2> QED
    BY <2>1, WindowFacts DEF Distinct
<1>2. Cardinality(S) \in Nat /\ Sorted(S) \in [1 .. Cardinality(S) -> S]
  BY <1>1, SortedIs
<1>3. Sorted(S) \in Seq(S) /\ Len(Sorted(S)) = Cardinality(S)
  BY <1>2
<1>4. SubSeq(Sorted(S), 1, n) \in Seq(S)
  BY <1>2, <1>3
<1> QED
  BY <1>4 DEF ToSet

\* Every step of a backfill keeps the invariant.
LEMMA StepSound == BackfillInv /\ [BackfillNext]_backfillVars => BackfillInv'
<1> SUFFICES ASSUME BackfillInv, [BackfillNext]_backfillVars PROVE BackfillInv'
  OBVIOUS
<1> USE DEF At, InScope
<1>1. /\ WindowTyped /\ todo \in Seq(ScopeSet) /\ fetched \in SUBSET history
      /\ stored \in [Symbols -> SUBSET history] /\ IsSequence(reports)
      /\ step \in {"fetch", "upsert", "validate", "bridge"}
      /\ errors = failed
  BY DEF BackfillInv, BackfillTyped, FailuresInv
<1>2. todo # <<>> => Current \in ScopeSet
  BY <1>1, ScopeLeft DEF Current
<1>3. InScope("candles") => Current.of \in Symbols
  BY <1>2, CandleScope
<1>4. ASSUME NEW new \in SUBSET history, InScope("candles"),
             stored' = [stored EXCEPT ![Current.of] = Upserted(@, new)]
      PROVE  stored' \in [Symbols -> SUBSET history]
  <2>1. Upserted(stored[Current.of], new) \in SUBSET history
    BY <1>1, <1>3, <1>4, UpsertedIsUnion
  <2> QED
    BY <1>1, <1>4, <2>1
<1>5. ASSUME todo # <<>>, Fail, stored' \in [Symbols -> SUBSET history] PROVE BackfillInv'
  BY <1>1, <1>5, NextScopeSound DEF Fail
<1>6. (reports' = reports) => (IsSequence(reports') /\ (\A s : Reported(s) => Reported(s)'))
  BY <1>1 DEF Reported
<1>7. CASE FetchPage
  <2>1. PICK n \in Nat : PagesDone(n)
    BY <1>7 DEF BackfillInv, PagesInv, FetchPage
  <2>2. PagesDone(n + 1)' /\ fetched' \in SUBSET history
    BY <1>1, <1>7, <2>1, OnePageMore
  <2>3. PagesInv' /\ step' = "fetch"
    <3>1. n + 1 \in Nat /\ step' = "fetch"
      BY <1>7 DEF FetchPage
    <3> QED
      BY <2>2, <3>1 DEF PagesInv
  <2> QED
    BY <1>1, <1>6, <1>7, <2>2, <2>3, InScopeSound DEF FetchPage
<1>8. CASE FetchDone
  <2>1. PICK n \in Nat : PagesDone(n)
    BY <1>8 DEF BackfillInv, PagesInv, FetchDone
  <2>2. PagesDone(n)' /\ cursor' > window'.to /\ step' = "upsert"
    BY <1>8, <2>1 DEF PagesDone, FetchDone, config, Offset, Seam, Base, PageLength, InWindow
  <2>3. PagesInv'
    BY <2>2 DEF PagesInv
  <2> QED
    BY <1>1, <1>6, <1>8, <2>2, <2>3, InScopeSound DEF FetchDone
<1>9. CASE FetchThrows
  BY <1>1, <1>5, <1>9 DEF FetchThrows
<1>10. CASE UpsertCandles
  <2>1. stored' \in [Symbols -> SUBSET history] /\ step' = "validate"
    BY <1>1, <1>4, <1>10 DEF UpsertCandles
  <2>2. PagesInv'
    BY <2>1 DEF PagesInv
  <2> QED
    BY <1>1, <1>6, <1>10, <2>1, <2>2, InScopeSound DEF UpsertCandles
<1>11. CASE UpsertThrows
  <2>1. PICK n \in 0 .. Cardinality(fetched) :
          stored' = [stored EXCEPT ![Current.of] = Upserted(@, ToSet(SubSeq(Sorted(fetched), 1, n)))]
    BY <1>11 DEF UpsertThrows
  <2>2. ToSet(SubSeq(Sorted(fetched), 1, n)) \in SUBSET history
    BY <1>1, ChunkIsPart
  <2>3. InScope("candles")
    BY <1>11 DEF UpsertThrows
  <2>4. stored' \in [Symbols -> SUBSET history]
    BY <1>4, <2>1, <2>2, <2>3
  <2> QED
    BY <1>5, <1>11, <2>4 DEF UpsertThrows
<1>12. CASE ReportThrows
  BY <1>1, <1>5, <1>12 DEF ReportThrows
<1>13. ASSUME NEW a \in Answers, ValidateAndReport(a) PROVE BackfillInv'
  <2>1. reports' = Append(reports, ReportOf(a)) /\ step' = "bridge"
    BY <1>13 DEF ValidateAndReport
  <2>2. ReportOf(a).of = Current.of
    BY DEF ReportOf
  <2>3. /\ IsSequence(reports') /\ Len(reports) \in Nat /\ Len(reports') = Len(reports) + 1
        /\ \A i \in 1 .. Len(reports) : reports'[i] = reports[i]
        /\ reports'[Len(reports) + 1] = ReportOf(a)
    BY <1>1, <2>1, AppendEntry
  <2>4. Len(reports) + 1 \in 1 .. Len(reports') /\ \A i \in 1 .. Len(reports) : i \in 1 .. Len(reports')
    BY <2>3
  <2>5. (\A s : Reported(s) => Reported(s)') /\ Reported(Current.of)'
    <3>1. \A s : Reported(s) => Reported(s)'
      BY <2>3, <2>4 DEF Reported
    <3>2. Current' = Current
      BY <1>13 DEF ValidateAndReport, Current
    <3> QED
      BY <2>2, <2>3, <2>4, <3>1, <3>2 DEF Reported
  <2>6. PagesInv'
    BY <2>1 DEF PagesInv
  <2> QED
    BY <1>1, <1>13, <2>1, <2>3, <2>5, <2>6, InScopeSound DEF ValidateAndReport
<1>14. ASSUME NEW a \in Answers, StageBAuth(a) PROVE BackfillInv'
  BY <1>1, <1>5, <1>14 DEF StageBAuth
<1>15. step = "bridge" /\ InScope("candles") => Reported(Current.of)
  BY DEF BackfillInv, FailuresInv
<1>16. CASE Bridge
  BY <1>1, <1>15, <1>16, NextScopeSound DEF Bridge
<1>17. CASE BridgeThrows
  BY <1>1, <1>15, <1>17, NextScopeSound DEF BridgeThrows
<1>18. CASE NoBridge
  BY <1>1, <1>15, <1>18, NextScopeSound DEF NoBridge
<1>19. CASE FlowScope
  BY <1>1, <1>19, NextScopeSound DEF FlowScope
<1>20. CASE FlowThrows
  BY <1>1, <1>5, <1>20 DEF FlowThrows
<1>21. CASE Finish
  <2>1. /\ window' = window /\ history' = history /\ startBar' = startBar /\ todo' = todo
        /\ step' = step /\ cursor' = cursor /\ fetched' = fetched /\ stored' = stored
        /\ reports' = reports /\ errors' = errors /\ failed' = failed /\ todo = <<>>
        /\ beat' = IF errors = {} THEN "OK" ELSE "FAILED"
    BY <1>21 DEF Finish, config
  <2>2. BackfillTyped'
    BY <2>1 DEF BackfillInv, BackfillTyped, WindowTyped
  <2>3. PagesInv'
    BY <2>1 DEF BackfillInv, PagesInv, PagesDone, Offset, Seam, Base, PageLength, InWindow
  <2>4. FailuresInv'
    BY <2>1 DEF BackfillInv, FailuresInv, Awaits, Reported, Current
  <2> QED
    BY <2>2, <2>3, <2>4 DEF BackfillInv
<1>22. CASE UNCHANGED backfillVars
  <2>1. BackfillTyped'
    BY <1>22 DEF BackfillInv, BackfillTyped, WindowTyped, backfillVars
  <2>2. PagesInv'
    BY <1>22 DEF BackfillInv, PagesInv, PagesDone, Offset, Seam, Base, PageLength, InWindow, backfillVars
  <2>3. FailuresInv'
    BY <1>22 DEF BackfillInv, FailuresInv, Awaits, Reported, Current, backfillVars
  <2> QED
    BY <2>1, <2>2, <2>3 DEF BackfillInv
<1> QED
  BY <1>7, <1>8, <1>9, <1>10, <1>11, <1>12, <1>13, <1>14, <1>16, <1>17, <1>18, <1>19, <1>20,
     <1>21, <1>22 DEF BackfillNext

\* What the invariant says of a finished fetch and of a finished backfill.
LEMMA InvIsSound == BackfillInv => BackfillIsSound
<1> SUFFICES ASSUME BackfillInv PROVE BackfillIsSound
  OBVIOUS
<1>1. BackfillIsComplete
  <2> SUFFICES ASSUME At("upsert") PROVE BackfillIsComplete
    BY DEF BackfillIsComplete
  <2> DEFINE missed == {c \in history : InWindow(c.ts)} \ fetched
  <2>1. PICK n \in Nat : PagesDone(n) /\ cursor > window.to
    BY DEF BackfillInv, PagesInv, At
  <2>2. WindowTyped
    BY DEF BackfillInv, BackfillTyped
  <2>3. /\ IsFiniteSet(missed) /\ Cardinality(missed) \in Nat
        /\ Offset = 0 => missed = {}
        /\ startBar => Cardinality(missed) <= 1
        /\ Cardinality(missed) <= (window.to - window.from + Offset) \div PageLength
    BY <2>1, <2>2, FewMissed
  <2>4. missed = {} => Cardinality(missed) <= 0
    BY FS_EmptySet
  <2> QED
    BY <2>3, <2>4 DEF BackfillIsComplete, Offset, PageLength
<1>2. FailuresAreIsolated
  <2> SUFFICES ASSUME beat # "RUNNING" PROVE FailuresAreIsolated
    BY DEF FailuresAreIsolated
  <2>1. todo = <<>> /\ (beat = "OK") = (failed = {})
    BY DEF BackfillInv, FailuresInv
  <2>2. \A x : ~Awaits(x)
    BY <2>1 DEF Awaits
  <2>3. DOMAIN reports = 1 .. Len(reports)
    BY DEF BackfillInv, BackfillTyped, IsSequence
  <2>4. \A s \in Symbols : (\E i \in DOMAIN reports : reports[i].of = s) \/ Scope("candles", s) \in failed
    BY <2>2, <2>3 DEF BackfillInv, FailuresInv, Reported
  <2> QED
    BY <2>1, <2>4 DEF FailuresAreIsolated
<1> QED
  BY <1>1, <1>2 DEF BackfillIsSound

\* Whatever the venue holds, whatever the window, the timeframe and the page
\* size are and whatever throws: fetchCandles drops no bar of a window that
\* starts on the grid and otherwise at most one per page, and runBackfill goes
\* through every scope, records exactly those that threw and ends with the
\* heartbeat they call for.
THEOREM BackfillLosesNothing == BackfillSpec => []BackfillIsSound
<1>1. BackfillInit => BackfillInv
  BY InitSound
<1>2. BackfillInv /\ [BackfillNext]_backfillVars => BackfillInv'
  BY StepSound
<1>3. BackfillInv => BackfillIsSound
  BY InvIsSound
<1> QED
  BY <1>1, <1>2, <1>3, PTL DEF BackfillSpec

-----------------------------------------------------------------------------
(* What the data quality gateway adds up: deductions, and missing bars.      *)

DeductionSteps(s) == [p \in (1 .. Len(s)) \X Nat |-> p[2] + s[p[1]].deduction]
DeductionsUp(g, s) == g = [t \in SUBSET (DOMAIN s) |->
                             IF t = {} THEN 0 ELSE g[t \ {Max(t)}] + s[Max(t)].deduction]
Deductions(s) == FoldLeft(LAMBDA n, c : n + c.deduction, 0, s)

\* The deductions are added up one check after the other.
LEMMA DeductionRun ==
  ASSUME NEW s, IsSequence(s), \A i \in 1 .. Len(s) : s[i].deduction \in Nat
  PROVE  \E c : IsRun(c, Len(s), Nat, 0, DeductionSteps(s)) /\ Deductions(s) = c[Len(s)]
<1> DEFINE n == Len(s)
           T == DeductionSteps(s)
<1>1. n \in Nat /\ DOMAIN s = 1 .. n /\ \A i \in 1 .. n : s[i].deduction \in Nat
  BY DEF IsSequence
<1>2. T \in [(1 .. n) \X Nat -> Nat] /\ \A i \in 1 .. n, a \in Nat : T[<<i, a>>] = a + s[i].deduction
  BY <1>1 DEF DeductionSteps
<1> HIDE DEF n, T
<1>3. PICK it \in [SUBSET (1 .. n) -> Nat] : Folded(it, n, 0, T)
  BY <1>1, <1>2, FoldExists
<1>4. \A t \in SUBSET (1 .. n) : t # {} => Max(t) \in 1 .. n /\ t \ {Max(t)} \in SUBSET (1 .. n)
  BY <1>1, MaxOfPositions
<1>5. DeductionsUp(it, s)
  <2>1. \A t \in SUBSET (1 .. n) :
          it[t] = IF t = {} THEN 0 ELSE it[t \ {Max(t)}] + s[Max(t)].deduction
    BY <1>1, <1>2, <1>3, <1>4 DEF Folded
  <2> QED
    BY <1>1, <1>3, <2>1 DEF DeductionsUp
<1>6. PICK g : DeductionsUp(g, s) /\ Deductions(s) = g[DOMAIN s]
  BY <1>5, Zenon DEF Deductions, FoldLeft, MapThenFoldSet, DeductionsUp
<1>7. /\ g[{}] = 0
      /\ \A t \in SUBSET (1 .. n) : t # {} => g[t] = g[t \ {Max(t)}] + s[Max(t)].deduction
  BY <1>1, <1>6 DEF DeductionsUp
<1>8. Recurses(g, n, Nat, 0, T) /\ StepsIn(Nat, n, 0, T)
  BY <1>1, <1>2, <1>4, <1>7 DEF Recurses, StepsIn
<1>9. \E c : IsRun(c, n, Nat, 0, T) /\ c[n] = g[1 .. n]
  BY <1>8, FoldRuns
<1> QED
  BY <1>1, <1>6, <1>9 DEF n, T

\* The deductions together are no less than any of them.
LEMMA EachDeduction ==
  ASSUME NEW s, IsSequence(s), \A i \in 1 .. Len(s) : s[i].deduction \in Nat
  PROVE  Deductions(s) \in Nat /\ \A i \in 1 .. Len(s) : s[i].deduction <= Deductions(s)
<1>1. PICK c : IsRun(c, Len(s), Nat, 0, DeductionSteps(s)) /\ Deductions(s) = c[Len(s)]
  BY DeductionRun
<1> DEFINE n == Len(s)
<1>2. n \in Nat
  BY DEF IsSequence
<1>3. c \in [0 .. n -> Nat] /\ \A i \in 1 .. n : c[i] = c[i - 1] + s[i].deduction
  <2>1. \A i \in 1 .. n : i - 1 \in 0 .. n
    BY <1>2
  <2> QED
    BY <1>1, <2>1 DEF IsRun, DeductionSteps
<1> HIDE DEF n
<1>4. ASSUME NEW i \in 1 .. n PROVE s[i].deduction <= c[n]
  <2> DEFINE Bad == {k \in Nat : i <= k /\ k <= n /\ ~(s[i].deduction <= c[k])}
  <2> SUFFICES ASSUME Bad # {} PROVE FALSE
    <3>1. n \notin Bad
      OBVIOUS
    <3> QED
      BY <1>2, <3>1
  <2>1. PICK m \in Bad : \A k \in Bad : m <= k
    <3>1. Bad \in SUBSET Nat
      OBVIOUS
    <3> HIDE DEF Bad
    <3> QED
      BY <3>1, LeastNumber
  <2>2. m \in 1 .. n /\ m - 1 \in 0 .. n
    BY <1>2
  <2>3. c[m] = c[m - 1] + s[m].deduction /\ c[m - 1] \in Nat /\ s[m].deduction \in Nat /\ s[i].deduction \in Nat
    BY <1>3, <2>2 DEF n
  <2>4. m # i
    BY <2>3
  <2>5. m - 1 \notin Bad
    BY <2>1, <2>2
  <2>6. s[i].deduction <= c[m - 1]
    BY <1>2, <2>2, <2>4, <2>5
  <2> QED
    BY <2>1, <2>3, <2>6
<1>5. c[n] \in Nat
  BY <1>2, <1>3
<1> QED
  BY <1>1, <1>4, <1>5 DEF n

-----------------------------------------------------------------------------
Gap == [from : Int, to : Int, missingBars : Nat]
GapSteps(s) == [p \in (1 .. Len(s)) \X Nat |-> p[2] + s[p[1]].missingBars]
GapsUp(g, s) == g = [t \in SUBSET (DOMAIN s) |->
                       IF t = {} THEN 0 ELSE g[t \ {Max(t)}] + s[Max(t)].missingBars]

\* The missing bars are added up one gap after the other.
LEMMA GapRun ==
  ASSUME NEW s \in Seq(Gap)
  PROVE  \E c : IsRun(c, Len(s), Nat, 0, GapSteps(s)) /\ MissingBars(s) = c[Len(s)]
<1> DEFINE n == Len(s)
           T == GapSteps(s)
<1>1. n \in Nat /\ DOMAIN s = 1 .. n /\ \A i \in 1 .. n : s[i].missingBars \in Nat
  <2>1. n \in Nat /\ DOMAIN s = 1 .. n /\ \A i \in 1 .. n : s[i] \in Gap
    OBVIOUS
  <2>2. \A x \in Gap : x.missingBars \in Nat
    BY DEF Gap
  <2> QED
    BY <2>1, <2>2
<1>2. T \in [(1 .. n) \X Nat -> Nat] /\ \A i \in 1 .. n, a \in Nat : T[<<i, a>>] = a + s[i].missingBars
  BY <1>1 DEF GapSteps
<1> HIDE DEF n, T
<1>3. PICK it \in [SUBSET (1 .. n) -> Nat] : Folded(it, n, 0, T)
  BY <1>1, <1>2, FoldExists
<1>4. \A t \in SUBSET (1 .. n) : t # {} => Max(t) \in 1 .. n /\ t \ {Max(t)} \in SUBSET (1 .. n)
  BY <1>1, MaxOfPositions
<1>5. GapsUp(it, s)
  <2>1. \A t \in SUBSET (1 .. n) :
          it[t] = IF t = {} THEN 0 ELSE it[t \ {Max(t)}] + s[Max(t)].missingBars
    BY <1>1, <1>2, <1>3, <1>4 DEF Folded
  <2> QED
    BY <1>1, <1>3, <2>1 DEF GapsUp
<1>6. PICK g : GapsUp(g, s) /\ MissingBars(s) = g[DOMAIN s]
  BY <1>5, Zenon DEF MissingBars, FoldLeft, MapThenFoldSet, GapsUp
<1>7. /\ g[{}] = 0
      /\ \A t \in SUBSET (1 .. n) : t # {} => g[t] = g[t \ {Max(t)}] + s[Max(t)].missingBars
  BY <1>1, <1>6 DEF GapsUp
<1>8. Recurses(g, n, Nat, 0, T) /\ StepsIn(Nat, n, 0, T)
  BY <1>1, <1>2, <1>4, <1>7 DEF Recurses, StepsIn
<1>9. \E c : IsRun(c, n, Nat, 0, T) /\ c[n] = g[1 .. n]
  BY <1>8, FoldRuns
<1> QED
  BY <1>1, <1>6, <1>9 DEF n, T

\* One gap more.
LEMMA MissingAppended ==
  /\ MissingBars(<<>>) = 0
  /\ \A s \in Seq(Gap) : MissingBars(s) \in Nat
  /\ \A s \in Seq(Gap), e \in Gap : MissingBars(Append(s, e)) = MissingBars(s) + e.missingBars
<1>1. MissingBars(<<>>) = 0
  <2>1. <<>> \in Seq(Gap) /\ Len(<<>>) = 0
    OBVIOUS
  <2>2. PICK c : IsRun(c, Len(<<>>), Nat, 0, GapSteps(<<>>)) /\ MissingBars(<<>>) = c[Len(<<>>)]
    BY <2>1, GapRun
  <2> QED
    BY <2>1, <2>2 DEF IsRun
<1>2. ASSUME NEW s \in Seq(Gap) PROVE MissingBars(s) \in Nat
  <2>1. PICK c : IsRun(c, Len(s), Nat, 0, GapSteps(s)) /\ MissingBars(s) = c[Len(s)]
    BY GapRun
  <2>2. Len(s) \in 0 .. Len(s)
    OBVIOUS
  <2> QED
    BY <2>1, <2>2 DEF IsRun
<1>3. ASSUME NEW s \in Seq(Gap), NEW e \in Gap
      PROVE  MissingBars(Append(s, e)) = MissingBars(s) + e.missingBars
  <2> DEFINE r == Append(s, e)
             n == Len(s)
  <2>1. /\ r \in Seq(Gap) /\ n \in Nat /\ Len(r) = n + 1 /\ r[n + 1] = e
        /\ \A i \in 1 .. n : r[i] = s[i]
    OBVIOUS
  <2> HIDE DEF r
  <2>2. PICK c : IsRun(c, n, Nat, 0, GapSteps(s)) /\ MissingBars(s) = c[n]
    BY GapRun
  <2>3. PICK d : IsRun(d, n + 1, Nat, 0, GapSteps(r)) /\ MissingBars(r) = d[n + 1]
    BY <2>1, GapRun
  <2>4. SameSteps(GapSteps(s), GapSteps(r), Nat, n, n + 1)
    <3>1. \A i \in 1 .. n : i \in 1 .. (n + 1)
      BY <2>1
    <3>2. \A i \in 1 .. n : \A a \in Nat : GapSteps(s)[<<i, a>>] = GapSteps(r)[<<i, a>>]
      BY <2>1, <3>1 DEF GapSteps
    <3> QED
      BY <2>1, <3>2 DEF SameSteps
  <2>5. d[n] = c[n]
    <3> HIDE DEF n
    <3>1. \A i \in 0 .. n : c[i] = d[i]
      BY <2>2, <2>3, <2>4, RunIsUnique
    <3> QED
      BY <2>1, <3>1
  <2>6. d[n + 1] = d[n] + e.missingBars
    <3>1. n + 1 \in 1 .. (n + 1) /\ (n + 1) - 1 = n /\ n \in 0 .. (n + 1)
      BY <2>1
    <3>2. d[n] \in Nat /\ d[n + 1] = GapSteps(r)[<<n + 1, d[n]>>]
      BY <2>3, <3>1 DEF IsRun
    <3> QED
      BY <2>1, <3>1, <3>2 DEF GapSteps
  <2> QED
    BY <2>2, <2>3, <2>5, <2>6 DEF r
<1> QED
  BY <1>1, <1>2, <1>3

\* The pass over the expected bars.
Run == [gaps : Seq(Gap), start : Int, bars : Nat]
Visit(times, grid, run, slot) ==
  IF slot \in times THEN CloseRun(run, grid)
  ELSE [run EXCEPT !.start = IF run.bars = 0 THEN slot ELSE @, !.bars = @ + 1]
VisitSteps(times, grid, s) == [p \in (1 .. Len(s)) \X Run |-> Visit(times, grid, p[2], s[p[1]])]
VisitsUp(g, times, grid, s) ==
  g = [t \in SUBSET (DOMAIN s) |->
         IF t = {} THEN NoRun ELSE Visit(times, grid, g[t \ {Max(t)}], s[Max(t)])]
\* Missing bars found so far.
Found(run) == MissingBars(run.gaps) + run.bars

\* Closing a run loses none of its bars; visiting a bar that is absent adds one.
LEMMA VisitCounts ==
  ASSUME NEW run \in Run, NEW grid \in Nat, NEW times, NEW slot \in Int
  PROVE  /\ CloseRun(run, grid) \in Run /\ CloseRun(run, grid).bars = 0
         /\ Found(CloseRun(run, grid)) = Found(run)
         /\ Visit(times, grid, run, slot) \in Run
         /\ Found(Visit(times, grid, run, slot)) = Found(run) + IF slot \in times THEN 0 ELSE 1
         /\ Found(run) \in Nat
<1>1. run.gaps \in Seq(Gap) /\ run.start \in Int /\ run.bars \in Nat
  BY DEF Run
<1>2. MissingBars(run.gaps) \in Nat /\ Found(run) \in Nat
  BY <1>1, MissingAppended DEF Found
<1>3. CloseRun(run, grid) \in Run /\ CloseRun(run, grid).bars = 0 /\ Found(CloseRun(run, grid)) = Found(run)
  <2>1. CASE run.bars = 0
    BY <2>1 DEF CloseRun
  <2>2. CASE run.bars # 0
    <3> DEFINE e == [from |-> run.start, to |-> run.start + run.bars * grid, missingBars |-> run.bars]
    <3>1. e \in Gap /\ e.missingBars = run.bars
      <4>1. run.bars * grid \in Int
        BY <1>1
      <4>2. run.start + run.bars * grid \in Int
        BY <1>1, <4>1
      <4> QED
        BY <1>1, <4>2 DEF Gap
    <3>2. CloseRun(run, grid) = [gaps |-> Append(run.gaps, e), start |-> 0, bars |-> 0]
      BY <2>2 DEF CloseRun, NoRun
    <3> HIDE DEF e
    <3>3. Append(run.gaps, e) \in Seq(Gap)
      BY <1>1, <3>1
    <3>4. MissingBars(Append(run.gaps, e)) = MissingBars(run.gaps) + run.bars
      BY <1>1, <3>1, MissingAppended
    <3> QED
      BY <1>1, <1>2, <3>2, <3>3, <3>4 DEF Run, Found
  <2> QED
    BY <2>1, <2>2
<1>4. /\ Visit(times, grid, run, slot) \in Run
      /\ Found(Visit(times, grid, run, slot)) = Found(run) + IF slot \in times THEN 0 ELSE 1
  <2>1. CASE slot \in times
    BY <1>2, <1>3, <2>1 DEF Visit
  <2>2. CASE slot \notin times
    <3> DEFINE v == Visit(times, grid, run, slot)
    <3>1. v = [run EXCEPT !.start = IF run.bars = 0 THEN slot ELSE @, !.bars = @ + 1]
      BY <2>2 DEF Visit
    <3> DEFINE b == IF run.bars = 0 THEN slot ELSE run.start
    <3>2. v \in Run /\ v.gaps = run.gaps /\ v.bars = run.bars + 1
      <4>1. v = [gaps |-> run.gaps, start |-> b, bars |-> run.bars + 1]
        BY <3>1 DEF Run
      <4>2. b \in Int /\ run.bars + 1 \in Nat
        BY <1>1
      <4> HIDE DEF b, v
      <4> QED
        BY <1>1, <4>1, <4>2 DEF Run
    <3> HIDE DEF v
    <3>3. Found(v) = Found(run) + 1
      BY <1>1, <1>2, <3>2 DEF Found
    <3> QED
      BY <2>2, <3>2, <3>3 DEF v
  <2> QED
    BY <2>1, <2>2
<1> QED
  BY <1>2, <1>3, <1>4

\* detectCandleGaps visits one expected bar after the other.
LEMMA VisitRun ==
  ASSUME NEW times, NEW grid \in Nat, NEW from, NEW to,
         ExpectedSlots(grid, from, to) \in Seq(Int)
  PROVE  LET s == ExpectedSlots(grid, from, to) IN
         \E c : /\ IsRun(c, Len(s), Run, NoRun, VisitSteps(times, grid, s))
                /\ detectCandleGaps(times, grid, from, to) = CloseRun(c[Len(s)], grid).gaps
<1> DEFINE s == ExpectedSlots(grid, from, to)
           n == Len(s)
           T == VisitSteps(times, grid, s)
<1>1. n \in Nat /\ DOMAIN s = 1 .. n /\ \A i \in 1 .. n : s[i] \in Int
  <2> HIDE DEF s
  <2> QED
    BY DEF s
<1>2. NoRun \in Run
  BY DEF NoRun, Run
<1> HIDE DEF s
<1>3. T \in [(1 .. n) \X Run -> Run] /\ \A i \in 1 .. n, a \in Run : T[<<i, a>>] = Visit(times, grid, a, s[i])
  <2>1. \A i \in 1 .. n, a \in Run : Visit(times, grid, a, s[i]) \in Run
    BY <1>1, VisitCounts
  <2> QED
    BY <1>1, <2>1 DEF VisitSteps
<1> HIDE DEF n, T
<1>4. PICK it \in [SUBSET (1 .. n) -> Run] : Folded(it, n, NoRun, T)
  BY <1>1, <1>2, <1>3, FoldExists
<1>5. \A t \in SUBSET (1 .. n) : t # {} => Max(t) \in 1 .. n /\ t \ {Max(t)} \in SUBSET (1 .. n)
  BY <1>1, MaxOfPositions
<1>6. VisitsUp(it, times, grid, s)
  <2>1. \A t \in SUBSET (1 .. n) :
          it[t] = IF t = {} THEN NoRun ELSE Visit(times, grid, it[t \ {Max(t)}], s[Max(t)])
    BY <1>1, <1>3, <1>4, <1>5 DEF Folded
  <2> QED
    BY <1>1, <1>4, <2>1 DEF VisitsUp
<1>7. PICK g : VisitsUp(g, times, grid, s) /\ detectCandleGaps(times, grid, from, to) = CloseRun(g[DOMAIN s], grid).gaps
  BY <1>6, Zenon DEF detectCandleGaps, FoldLeft, MapThenFoldSet, VisitsUp, Visit, s
<1>8. /\ g[{}] = NoRun
      /\ \A t \in SUBSET (1 .. n) : t # {} => g[t] = Visit(times, grid, g[t \ {Max(t)}], s[Max(t)])
  BY <1>1, <1>7 DEF VisitsUp
<1>9. Recurses(g, n, Run, NoRun, T) /\ StepsIn(Run, n, NoRun, T)
  BY <1>1, <1>2, <1>3, <1>5, <1>8 DEF Recurses, StepsIn
<1>10. \E c : IsRun(c, n, Run, NoRun, T) /\ c[n] = g[1 .. n]
  BY <1>9, FoldRuns
<1> QED
  BY <1>1, <1>7, <1>10 DEF n, T, s

\* The gaps are as many bars as the expected bars without a candle.
Absent(times, s, i) == {k \in 1 .. i : s[k] \notin times}

LEMMA GapsCount ==
  ASSUME NEW times, NEW grid \in Nat, NEW from, NEW to,
         ExpectedSlots(grid, from, to) \in Seq(Int)
  PROVE  LET s == ExpectedSlots(grid, from, to) IN
         MissingBars(detectCandleGaps(times, grid, from, to)) = Cardinality(Absent(times, s, Len(s)))
<1> DEFINE s == ExpectedSlots(grid, from, to)
           n == Len(s)
<1>1. PICK c : /\ IsRun(c, n, Run, NoRun, VisitSteps(times, grid, s))
               /\ detectCandleGaps(times, grid, from, to) = CloseRun(c[n], grid).gaps
  BY VisitRun
<1>2. n \in Nat /\ DOMAIN s = 1 .. n /\ \A i \in 1 .. n : s[i] \in Int
  <2> HIDE DEF s
  <2> QED
    BY DEF s
<1> HIDE DEF s, n
<1>3. c \in [0 .. n -> Run] /\ c[0] = NoRun /\ \A i \in 1 .. n : c[i] = Visit(times, grid, c[i - 1], s[i])
  <2>1. \A i \in 1 .. n : i - 1 \in 0 .. n
    BY <1>2
  <2> QED
    BY <1>1, <2>1 DEF IsRun, VisitSteps, n
<1>4. \A i \in 0 .. n : IsFiniteSet(Absent(times, s, i)) /\ Cardinality(Absent(times, s, i)) \in Nat
  <2> TAKE i \in 0 .. n
  <2>1. IsFiniteSet(1 .. i)
    BY <1>2, FS_Interval
  <2>2. Absent(times, s, i) \in SUBSET (1 .. i)
    BY DEF Absent
  <2>3. IsFiniteSet(Absent(times, s, i))
    BY <2>1, <2>2, FS_Subset
  <2> QED
    BY <2>3, FS_CardinalityType
<1>5. Found(c[0]) = Cardinality(Absent(times, s, 0))
  <2>1. Absent(times, s, 0) = {}
    BY DEF Absent
  <2>2. Found(c[0]) = 0
    BY <1>3, MissingAppended DEF Found, NoRun
  <2> QED
    BY <2>1, <2>2, FS_EmptySet
<1>6. ASSUME NEW i \in 1 .. n, Found(c[i - 1]) = Cardinality(Absent(times, s, i - 1))
      PROVE  Found(c[i]) = Cardinality(Absent(times, s, i))
  <2>1. i - 1 \in 0 .. n
    BY <1>2
  <2>2. Found(c[i]) = Found(c[i - 1]) + IF s[i] \in times THEN 0 ELSE 1
    <3> DEFINE r == c[i - 1]
               x == s[i]
    <3>1. r \in Run /\ x \in Int /\ c[i] = Visit(times, grid, r, x)
      BY <1>2, <1>3, <2>1
    <3> HIDE DEF r, x
    <3>2. Found(c[i]) = Found(r) + IF x \in times THEN 0 ELSE 1
      BY <3>1, VisitCounts
    <3> QED
      BY <3>2 DEF r, x
  <2>3. Absent(times, s, i) = Absent(times, s, i - 1) \cup IF s[i] \in times THEN {} ELSE {i}
    <3>1. 1 .. i = (1 .. (i - 1)) \cup {i}
      BY <1>2
    <3> QED
      BY <3>1 DEF Absent
  <2>4. i \notin Absent(times, s, i - 1)
    BY <1>2 DEF Absent
  <2>5. CASE s[i] \in times
    BY <1>4, <1>6, <2>1, <2>2, <2>3, <2>5
  <2>6. CASE s[i] \notin times
    <3>1. Absent(times, s, i) = Absent(times, s, i - 1) \cup {i}
      BY <2>3, <2>6
    <3>2. Cardinality(Absent(times, s, i)) = Cardinality(Absent(times, s, i - 1)) + 1
      BY <1>4, <2>1, <2>4, <3>1, FS_AddElement
    <3> QED
      BY <1>6, <2>2, <2>6, <3>2
  <2> QED
    BY <2>5, <2>6
<1>7. Found(c[n]) = Cardinality(Absent(times, s, n))
  <2> DEFINE Bad == {k \in Nat : k <= n /\ Found(c[k]) # Cardinality(Absent(times, s, k))}
  <2> SUFFICES ASSUME Bad # {} PROVE FALSE
    <3>1. n \notin Bad
      OBVIOUS
    <3> QED
      BY <1>2, <3>1
  <2>1. PICK m \in Bad : \A k \in Bad : m <= k
    <3>1. Bad \in SUBSET Nat
      OBVIOUS
    <3> HIDE DEF Bad
    <3> QED
      BY <3>1, LeastNumber
  <2>2. m # 0
    BY <1>5
  <2>3. m \in 1 .. n /\ m - 1 \in Nat /\ m - 1 <= n
    BY <1>2, <2>2
  <2>4. m - 1 \notin Bad
    BY <2>1, <2>3
  <2>5. Found(c[m - 1]) = Cardinality(Absent(times, s, m - 1))
    BY <2>3, <2>4
  <2> QED
    BY <1>6, <2>3, <2>5
<1>8. MissingBars(CloseRun(c[n], grid).gaps) = Found(c[n])
  <2> DEFINE z == CloseRun(c[n], grid)
  <2>1. c[n] \in Run
    BY <1>2, <1>3
  <2>2. z \in Run /\ z.bars = 0 /\ Found(z) = Found(c[n])
    <3>1. 0 \in Int
      OBVIOUS
    <3> QED
      BY <2>1, <3>1, VisitCounts
  <2> HIDE DEF z
  <2>3. MissingBars(z.gaps) \in Nat
    BY <2>2, MissingAppended DEF Run
  <2>4. MissingBars(z.gaps) = Found(c[n])
    BY <2>2, <2>3 DEF Found
  <2> QED
    BY <2>4 DEF z
<1> QED
  BY <1>1, <1>7, <1>8 DEF s, n

\* Ceil rounds a quotient up.
LEMMA CeilIs ==
  ASSUME NEW a \in Int, NEW b \in Nat \ {0}
  PROVE  Ceil(a, b) \in Int /\ a <= b * Ceil(a, b) /\ b * (Ceil(a, b) - 1) < a
<1> DEFINE q == (-a) \div b
           r == (-a) % b
<1>1. q \in Int /\ r \in 0 .. (b - 1) /\ -a = b * q + r
  OBVIOUS
<1>2. Ceil(a, b) = -q
  BY DEF Ceil
<1> HIDE DEF q, r
<1>3. b * q \in Int /\ b * (-q) = -(b * q) /\ b * ((-q) - 1) = -(b * q) - b
  BY <1>1
<1> QED
  BY <1>1, <1>2, <1>3

\* A product is no less than a factor allows.
LEMMA Ordered ==
  ASSUME NEW g \in Nat \ {0}, NEW a \in Int, NEW b \in Int
  PROVE  /\ a <= b => g * a <= g * b
         /\ g * a < g * b => a < b
         /\ g * a = g * b => a = b
         /\ g * a \in Int /\ g * (a + b) = g * a + g * b /\ g * (a - b) = g * a - g * b
<1>1. \A d \in Int : d >= 0 => g * d >= 0
  OBVIOUS
<1>2. g * a \in Int /\ g * b \in Int /\ g * (a + b) = g * a + g * b /\ g * (a - b) = g * a - g * b
      /\ g * (b - a) = g * b - g * a
  OBVIOUS
<1>3. a <= b => g * a <= g * b
  <2>1. b - a \in Int
    OBVIOUS
  <2> QED
    BY <1>1, <1>2, <2>1
<1>4. b <= a => g * b <= g * a
  <2>1. a - b \in Int
    OBVIOUS
  <2> QED
    BY <1>1, <1>2, <2>1
<1>5. g * a = g * b => a = b
  <2> SUFFICES ASSUME g * a = g * b PROVE a - b = 0
    OBVIOUS
  <2>1. g * (a - b) = 0 /\ a - b \in Int
    BY <1>2
  <2> QED
    BY <2>1, SmallMultiple
<1> QED
  BY <1>2, <1>3, <1>4, <1>5

Slots == {t \in window.from .. (window.to - 1) : t % Grid = 0}
Expected == ExpectedSlots(Grid, window.from, window.to)

\* The bars expected are the bars of the window, each once.
LEMMA ExpectedIs ==
  ASSUME WindowTyped
  PROVE  /\ Expected \in Seq(Int) /\ Len(Expected) = ExpectedBars(Grid, window.from, window.to)
         /\ Len(Expected) \in Nat
         /\ \A k \in 1 .. Len(Expected) : Expected[k] \in Slots
         /\ \A j, k \in 1 .. Len(Expected) : Expected[j] = Expected[k] => j = k
         /\ \A t \in Slots : \E k \in 1 .. Len(Expected) : Expected[k] = t
<1> DEFINE G == Grid
           a == window.from
           z == window.to
           f == Ceil(a, G)
           first == FirstAligned(a, G)
           e == Ceil(z - first, G)
           n == ExpectedBars(G, a, z)
<1>1. G \in Nat \ {0} /\ a \in Nat /\ z \in Nat /\ a <= z
  BY WindowFacts
<1>2. f \in Int /\ a <= G * f /\ G * (f - 1) < a
  <2>1. a \in Int
    BY <1>1
  <2> HIDE DEF G, a
  <2> QED
    BY <1>1, <2>1, CeilIs
<1>3. first = G * f /\ first \in Int
  <2> HIDE DEF f
  <2>1. first = f * G
    BY DEF FirstAligned, f
  <2> HIDE DEF first, G
  <2> QED
    BY <1>1, <1>2, <2>1
<1>4. e \in Int /\ z - first <= G * e /\ G * (e - 1) < z - first
  <2>1. z - first \in Int
    BY <1>1, <1>3
  <2> DEFINE w == z - first
  <2> HIDE DEF G, w
  <2>2. Ceil(w, G) \in Int /\ w <= G * Ceil(w, G) /\ G * (Ceil(w, G) - 1) < w
    BY <1>1, <2>1, CeilIs DEF w
  <2> QED
    BY <2>2 DEF w
<1>5. n = AtLeast(0, e)
  BY DEF ExpectedBars
<1> HIDE DEF e, n, f, first
<1>6. n \in Nat /\ (n > 0 => n = e) /\ e <= n
  BY <1>4, <1>5 DEF AtLeast
<1>7. Expected = [k \in 1 .. n |-> first + (k - 1) * G]
  BY DEF Expected, ExpectedSlots, n, first
<1> HIDE DEF G, a, z
<1>8. \A k \in 1 .. n : k - 1 \in Int /\ first + (k - 1) * G = G * (f + (k - 1)) /\ f + (k - 1) \in Int
  <2> TAKE k \in 1 .. n
  <2>1. k - 1 \in Int
    BY <1>6
  <2> DEFINE l == k - 1
  <2> HIDE DEF l
  <2>2. l \in Int
    BY <2>1 DEF l
  <2>3. first + l * G = G * (f + l)
    BY <1>1, <1>2, <1>3, <2>2
  <2> QED
    BY <1>2, <2>2, <2>3 DEF l
<1>9. /\ Expected \in Seq(Int) /\ Len(Expected) = n
      /\ \A k \in 1 .. n : Expected[k] = G * (f + (k - 1))
  <2>1. \A k \in 1 .. n : first + (k - 1) * G \in Int
    BY <1>1, <1>2, <1>8
  <2> HIDE DEF Expected
  <2> QED
    BY <1>6, <1>7, <1>8, <2>1
<1>10. ASSUME NEW k \in 1 .. n PROVE Expected[k] \in Slots
  <2> DEFINE m == f + (k - 1)
             t == G * m
  <2>1. m \in Int /\ m >= f /\ m - f <= e - 1 /\ m - f \in Int /\ e - 1 \in Int
    BY <1>2, <1>4, <1>6
  <2> HIDE DEF m
  <2>2. t \in Int /\ G * f <= t /\ G * (m - f) <= G * (e - 1) /\ G * (m - f) = t - G * f
    BY <1>1, <1>2, <2>1, Ordered
  <2> HIDE DEF t
  <2>3. a <= t /\ t <= z - 1
    <3>1. G * f \in Int /\ G * (e - 1) \in Int
      BY <1>1, <1>2, <2>1, Ordered
    <3> QED
      BY <1>1, <1>2, <1>3, <1>4, <2>2, <3>1
  <2>4. t % G = 0
    <3>1. t \in Nat
      BY <1>1, <2>2, <2>3
    <3>2. t \div G \in Nat /\ t % G \in Nat /\ t % G < G /\ t = G * (t \div G) + (t % G)
      BY <1>1, <3>1, Division
    <3> DEFINE q == t \div G
               r == t % G
    <3> HIDE DEF q, r
    <3>3. q \in Nat /\ r \in Nat /\ r < G /\ t = G * q + r
      BY <3>2 DEF q, r
    <3>4. m - q \in Int /\ G * (m - q) = r
      <4>1. q \in Int
        BY <3>3
      <4>2. G * (m - q) = G * m - G * q /\ G * q \in Int
        BY <1>1, <2>1, <4>1, Ordered
      <4> QED
        BY <2>1, <3>3, <4>1, <4>2 DEF t
    <3>5. m - q = 0
      BY <1>1, <3>3, <3>4, SmallMultiple
    <3>6. r = 0
      BY <1>1, <3>4, <3>5
    <3> QED
      BY <3>6 DEF r
  <2> QED
    BY <1>1, <1>9, <2>2, <2>3, <2>4 DEF Slots, t, m, G, a, z
<1>11. ASSUME NEW j \in 1 .. n, NEW k \in 1 .. n, Expected[j] = Expected[k] PROVE j = k
  <2>1. G * (f + (j - 1)) = G * (f + (k - 1)) /\ f + (j - 1) \in Int /\ f + (k - 1) \in Int
    BY <1>8, <1>9, <1>11
  <2>2. f + (j - 1) = f + (k - 1)
    BY <1>1, <2>1, Ordered
  <2> QED
    BY <1>2, <1>6, <2>2
<1>12. ASSUME NEW t \in Slots PROVE \E k \in 1 .. n : Expected[k] = t
  <2>1. t \in Nat /\ a <= t /\ t <= z - 1 /\ t % G = 0
    BY <1>1 DEF Slots, a, z, G
  <2> DEFINE m == t \div G
  <2>2. m \in Int /\ t = G * m
    <3>1. m \in Nat /\ t = G * m + 0
      BY <1>1, <2>1, Division
    <3> HIDE DEF m
    <3>2. G * m \in Int
      BY <1>1, <3>1
    <3> QED
      BY <3>1, <3>2
  <2> HIDE DEF m
  <2>3. f - 1 < m
    <3>1. f - 1 \in Int /\ G * (f - 1) \in Int
      BY <1>1, <1>2
    <3>2. G * (f - 1) < G * m
      BY <1>1, <1>2, <2>1, <2>2, <3>1
    <3> QED
      BY <1>1, <2>2, <3>1, <3>2, Ordered
  <2>4. m - f < e
    <3>1. m - f \in Int /\ G * (m - f) = G * m - G * f /\ G * f \in Int /\ G * e \in Int /\ G * m \in Int
      BY <1>1, <1>2, <1>4, <2>2, Ordered
    <3>2. G * (m - f) < G * e
      BY <1>1, <1>3, <1>4, <2>1, <2>2, <3>1
    <3> QED
      BY <1>1, <1>4, <3>1, <3>2, Ordered
  <2> DEFINE k == (m - f) + 1
  <2>5. k \in 1 .. n /\ f + (k - 1) = m
    BY <1>2, <1>4, <1>6, <2>2, <2>3, <2>4
  <2> HIDE DEF k
  <2>6. Expected[k] = t
    BY <1>9, <2>2, <2>5
  <2> QED
    BY <2>5, <2>6
<1> QED
  BY <1>6, <1>9, <1>10, <1>11, <1>12 DEF n, G, a, z

\* Sets in bijection are of one size.
LEMMA SameSize ==
  ASSUME NEW S, NEW T, NEW f \in [S -> T], \A x, y \in S : f[x] = f[y] => x = y,
         \A t \in T : \E x \in S : f[x] = t, IsFiniteSet(S)
  PROVE  IsFiniteSet(T) /\ Cardinality(T) = Cardinality(S)
<1>1. f \in Bijection(S, T)
  BY DEF Bijection, Injection, Surjection, IsInjective
<1> QED
  BY <1>1, FS_Bijection DEF ExistsBijection

\* The gaps found are the bars of the window without a candle.
LEMMA GapsAreAbsences ==
  ASSUME WindowTyped, NEW times
  PROVE  /\ IsFiniteSet(Slots) /\ Cardinality(Slots) \in Nat
         /\ Cardinality(Slots) = ExpectedBars(Grid, window.from, window.to)
         /\ Cardinality(Slots \ times) \in Nat
         /\ MissingBars(detectCandleGaps(times, Grid, window.from, window.to)) = Cardinality(Slots \ times)
<1> DEFINE s == Expected
           n == Len(Expected)
           A == Absent(times, s, n)
           f == [k \in 1 .. n |-> s[k]]
           g == [k \in A |-> s[k]]
<1>1. /\ s \in Seq(Int) /\ n = ExpectedBars(Grid, window.from, window.to) /\ n \in Nat
      /\ \A k \in 1 .. n : s[k] \in Slots
      /\ \A j, k \in 1 .. n : s[j] = s[k] => j = k
      /\ \A t \in Slots : \E k \in 1 .. n : s[k] = t
  BY ExpectedIs
<1>2. Grid \in Nat
  BY WindowFacts
<1>3. MissingBars(detectCandleGaps(times, Grid, window.from, window.to)) = Cardinality(A)
  BY <1>1, <1>2, GapsCount DEF Expected
<1> HIDE DEF s, n
<1>4. IsFiniteSet(1 .. n) /\ Cardinality(1 .. n) = n
  BY <1>1, FS_Interval
<1>5. IsFiniteSet(Slots) /\ Cardinality(Slots) = n
  <2> DEFINE D == 1 .. n
  <2>1. /\ f \in [D -> Slots] /\ (\A x, y \in D : f[x] = f[y] => x = y)
        /\ (\A t \in Slots : \E x \in D : f[x] = t)
    BY <1>1
  <2>2. IsFiniteSet(D) /\ Cardinality(D) = n
    BY <1>4
  <2> HIDE DEF D, f
  <2> QED
    BY <2>1, <2>2, SameSize
<1>6. Cardinality(Slots \ times) = Cardinality(A)
  <2>1. A \in SUBSET (1 .. n) /\ \A k \in 1 .. n : k \in A <=> s[k] \notin times
    BY DEF Absent
  <2>2. IsFiniteSet(A)
    <3> HIDE DEF A
    <3> QED
      BY <1>4, <2>1, FS_Subset
  <2> HIDE DEF A
  <2>3. /\ g \in [A -> Slots \ times] /\ (\A x, y \in A : g[x] = g[y] => x = y)
        /\ (\A t \in Slots \ times : \E x \in A : g[x] = t)
    BY <1>1, <2>1
  <2> HIDE DEF g
  <2> QED
    BY <2>2, <2>3, SameSize
<1>7. Cardinality(Slots \ times) \in Nat
  <2>1. IsFiniteSet(Slots \ times)
    BY <1>5, FS_Difference
  <2> QED
    BY <2>1, FS_CardinalityType
<1> QED
  BY <1>1, <1>3, <1>5, <1>6, <1>7 DEF n

-----------------------------------------------------------------------------
\* The deductions of stage A, of which the first and the last matter here.
LEMMA StageA ==
  ASSUME WindowTyped, NEW cs
  PROVE  LET b == checkCandleBatch(cs, Grid, window.from, window.to)
             missing == Cardinality(Slots \ TimesOf(cs))
         IN /\ IsSequence(b) /\ Len(b) = 4
            /\ \A i \in 1 .. 4 : b[i].deduction \in Nat
            /\ b[1].deduction <= 10 => \A k \in DOMAIN cs : Conforms(cs[k])
            /\ b[4].deduction <= 10 => missing * 25 <= Cardinality(Slots)
<1> DEFINE b == checkCandleBatch(cs, Grid, window.from, window.to)
           missing == Cardinality(Slots \ TimesOf(cs))
           expected == Cardinality(Slots)
           points == Ceil(missing * 250, expected)
<1>1. /\ b = << checkSchemaConformance(cs), checkDuplicates(cs),
                checkTimestampMonotonic(cs, Grid), checkGaps(cs, Grid, window.from, window.to) >>
  BY DEF checkCandleBatch
<1>2. /\ expected \in Nat /\ missing \in Nat
      /\ expected = ExpectedBars(Grid, window.from, window.to)
      /\ missing = MissingBars(detectCandleGaps(TimesOf(cs), Grid, window.from, window.to))
  BY GapsAreAbsences
<1> HIDE DEF missing, expected
<1>3. b[4].deduction = IF expected = 0 \/ missing = 0 THEN 0 ELSE AtMost(25, points)
  <2>1. b[4] = checkGaps(cs, Grid, window.from, window.to)
    BY <1>1
  <2> HIDE DEF b
  <2> QED
    BY <1>2, <2>1 DEF checkGaps, Check, CHECK_WEIGHTS
<1>4. expected # 0 => points \in Int /\ missing * 250 <= expected * points /\ points >= 0
  <2> SUFFICES ASSUME expected # 0
               PROVE  points \in Int /\ missing * 250 <= expected * points /\ points >= 0
    OBVIOUS
  <2>1. expected \in Nat \ {0} /\ missing * 250 \in Int /\ missing * 250 >= 0
    BY <1>2
  <2>2. points \in Int /\ missing * 250 <= expected * points /\ expected * (points - 1) < missing * 250
    BY <2>1, CeilIs
  <2> HIDE DEF points
  <2>3. ASSUME points < 0 PROVE FALSE
    <3>1. -points - 1 \in Nat
      BY <2>2, <2>3
    <3>2. expected * points = -expected - expected * (-points - 1) /\ expected * (-points - 1) \in Nat
      BY <2>1, <2>2, <3>1
    <3> QED
      BY <2>1, <2>2, <3>2
  <2> QED
    BY <2>2, <2>3
<1>5. b[4].deduction \in Nat
  <2> HIDE DEF points, b
  <2> QED
    BY <1>3, <1>4 DEF AtMost
<1>6. b[4].deduction <= 10 => missing * 25 <= expected
  <2> SUFFICES ASSUME b[4].deduction <= 10 PROVE missing * 25 <= expected
    OBVIOUS
  <2> HIDE DEF b, points
  <2>1. CASE missing = 0
    BY <1>2, <2>1
  <2>2. CASE expected = 0
    <3>1. missing = 0
      <4>1. IsFiniteSet(Slots)
        BY GapsAreAbsences
      <4>2. Slots = {}
        BY <2>2, <4>1, FS_EmptySet DEF expected
      <4>3. Slots \ TimesOf(cs) = {}
        BY <4>2
      <4> QED
        BY <4>3, FS_EmptySet DEF missing
    <3> QED
      BY <1>2, <3>1
  <2>3. CASE missing # 0 /\ expected # 0
    <3>1. points \in Int /\ points <= 10 /\ points >= 0 /\ missing * 250 <= expected * points
      BY <1>3, <1>4, <2>3 DEF AtMost
    <3>2. expected * points <= expected * 10
      <4>1. expected \in Nat \ {0} /\ 10 \in Int
        BY <1>2, <2>3
      <4> QED
        BY <3>1, <4>1, Ordered
    <3>3. expected * points \in Int
      BY <1>2, <3>1
    <3> QED
      BY <1>2, <3>1, <3>2, <3>3
  <2> QED
    BY <2>1, <2>2, <2>3
<1>7. /\ b[1].deduction = IF \A k \in DOMAIN cs : Conforms(cs[k]) THEN 0 ELSE 40
      /\ b[2].deduction \in {0, 20} /\ b[3].deduction \in {0, 15}
  <2>1. /\ b[1] = checkSchemaConformance(cs) /\ b[2] = checkDuplicates(cs)
        /\ b[3] = checkTimestampMonotonic(cs, Grid)
    BY <1>1
  <2> HIDE DEF b
  <2> QED
    BY <2>1 DEF checkSchemaConformance, checkDuplicates, checkTimestampMonotonic, Check, CHECK_WEIGHTS
<1>8. IsSequence(b) /\ Len(b) = 4
  BY <1>1 DEF IsSequence, Entries
<1>9. \A i \in 1 .. 4 : b[i].deduction \in Nat
  <2> HIDE DEF b
  <2>1. \A i \in 1 .. 4 : i = 1 \/ i = 2 \/ i = 3 \/ i = 4
    OBVIOUS
  <2> QED
    BY <1>5, <1>7, <2>1
<1> HIDE DEF b
<1> QED
  BY <1>6, <1>7, <1>8, <1>9 DEF b, missing, expected

\* The deductions of stage B; without its checks there is one that fails the batch.
LEMMA StageB ==
  ASSUME NEW a \in Answers
  PROVE  LET b == fetchStageBChecks(a)
         IN /\ IsSequence(b) /\ Len(b) \in Nat \ {0}
            /\ \A i \in 1 .. Len(b) : b[i].deduction \in Nat
            /\ a.kind # "checks" => b[1].deduction = 15
<1>1. CASE a.kind = "checks"
  <2> DEFINE f == a.found
             b == run_statistical_checks(f)
  <2>1. f.outliers \in Nat /\ f.anomalies \in Nat /\ f.drift \in BOOLEAN
    BY <1>1, BackfillAssumption DEF Answers
  <2> HIDE DEF f
  <2>2. b = << OutlierCheck("price_outliers", f.outliers), OutlierCheck("volume_anomaly", f.anomalies),
               Check("distribution_drift", ~f.drift, STAGE_B_WEIGHTS.distribution_drift),
               Check("cross_exchange_divergence", TRUE, 0) >>
    BY DEF run_statistical_checks
  <2>3. /\ OutlierCheck("price_outliers", f.outliers).deduction \in Nat
        /\ OutlierCheck("volume_anomaly", f.anomalies).deduction \in Nat
    BY <2>1 DEF OutlierCheck, Check, AtMost, STAGE_B_WEIGHTS, PER_OUTLIER_DEDUCTION
  <2>4. /\ Check("distribution_drift", ~f.drift, STAGE_B_WEIGHTS.distribution_drift).deduction \in Nat
        /\ Check("cross_exchange_divergence", TRUE, 0).deduction \in Nat
    BY DEF Check, STAGE_B_WEIGHTS
  <2> DEFINE c1 == OutlierCheck("price_outliers", f.outliers)
             c2 == OutlierCheck("volume_anomaly", f.anomalies)
             c3 == Check("distribution_drift", ~f.drift, STAGE_B_WEIGHTS.distribution_drift)
             c4 == Check("cross_exchange_divergence", TRUE, 0)
  <2>8. b = <<c1, c2, c3, c4>>
    BY <2>2
  <2> HIDE DEF c1, c2, c3, c4, b
  <2>5. IsSequence(b) /\ Len(b) = 4
    BY <2>8 DEF IsSequence, Entries
  <2>6. b[1].deduction \in Nat /\ b[2].deduction \in Nat /\ b[3].deduction \in Nat /\ b[4].deduction \in Nat
    <3>1. b[1] = c1 /\ b[2] = c2 /\ b[3] = c3 /\ b[4] = c4
      BY <2>8
    <3> QED
      BY <2>3, <2>4, <3>1 DEF c1, c2, c3, c4
  <2> HIDE DEF b
  <2>7. \A i \in 1 .. 4 : b[i].deduction \in Nat
    <3>1. \A i \in 1 .. 4 : i = 1 \/ i = 2 \/ i = 3 \/ i = 4
      OBVIOUS
    <3> QED
      BY <2>6, <3>1
  <2> QED
    BY <1>1, <2>5, <2>7 DEF fetchStageBChecks, b, f
<1>2. CASE a.kind # "checks"
  <2> DEFINE b == << Check("stage_b_unavailable", FALSE, STAGE_B_UNAVAILABLE_DEDUCTION) >>
  <2>1. fetchStageBChecks(a) = b
    BY <1>2 DEF fetchStageBChecks
  <2>2. IsSequence(b) /\ Len(b) = 1 /\ b[1].deduction = 15
    <3> DEFINE c1 == Check("stage_b_unavailable", FALSE, STAGE_B_UNAVAILABLE_DEDUCTION)
    <3>1. c1.deduction = 15
      BY DEF Check, STAGE_B_UNAVAILABLE_DEDUCTION
    <3>2. b = <<c1>>
      OBVIOUS
    <3> HIDE DEF c1, b
    <3> QED
      BY <3>1, <3>2 DEF IsSequence, Entries
  <2> HIDE DEF b
  <2>3. \A i \in 1 .. Len(b) : b[i].deduction \in Nat
    <3>1. \A i \in 1 .. 1 : i = 1
      OBVIOUS
    <3> QED
      BY <2>2, <3>1
  <2> QED
    BY <2>1, <2>2, <2>3
<1> QED
  BY <1>1, <1>2

\* A batch that passes has earned it.
LEMMA PassingIsEarned ==
  ASSUME WindowTyped, NEW cs, NEW a \in Answers,
         Verdict(cs, Grid, window.from, window.to, a).status = "PASSED"
  PROVE  /\ a.kind = "checks"
         /\ \A k \in DOMAIN cs : Conforms(cs[k])
         /\ Cardinality(Slots \ TimesOf(cs)) * 25 <= Cardinality(Slots)
<1> DEFINE A == checkCandleBatch(cs, Grid, window.from, window.to)
           B == fetchStageBChecks(a)
           s == A \o B
<1>1. /\ IsSequence(A) /\ Len(A) = 4 /\ \A i \in 1 .. 4 : A[i].deduction \in Nat
      /\ A[1].deduction <= 10 => \A k \in DOMAIN cs : Conforms(cs[k])
      /\ A[4].deduction <= 10 => Cardinality(Slots \ TimesOf(cs)) * 25 <= Cardinality(Slots)
  BY StageA
<1>2. /\ IsSequence(B) /\ Len(B) \in Nat \ {0} /\ \A i \in 1 .. Len(B) : B[i].deduction \in Nat
      /\ a.kind # "checks" => B[1].deduction = 15
  BY StageB
<1>3. Verdict(cs, Grid, window.from, window.to, a) = scoreChecks(s)
  BY DEF Verdict
<1>4. AtLeast(0, 100 - Deductions(s)) >= 90
  <2> DEFINE score == AtLeast(0, 100 - Deductions(s))
  <2>1. scoreChecks(s) = [score |-> score,
                          status |-> IF score >= MIN_DATA_QUALITY_SCORE THEN "PASSED" ELSE "FAILED"]
    BY Zenon DEF scoreChecks, Deductions
  <2> HIDE DEF score
  <2>2. score >= MIN_DATA_QUALITY_SCORE
    BY <1>3, <2>1
  <2> QED
    BY <2>2 DEF score, MIN_DATA_QUALITY_SCORE
<1> HIDE DEF A, B
<1>5. /\ IsSequence(s) /\ Len(s) = 4 + Len(B)
      /\ \A i \in 1 .. 4 : s[i] = A[i]
      /\ \A i \in 1 .. Len(B) : s[4 + i] = B[i]
  <2> DEFINE X == Entries(A) \cup Entries(B)
  <2>1. A \in Seq(X) /\ B \in Seq(X)
    BY <1>1, <1>2 DEF IsSequence
  <2> HIDE DEF X
  <2>2. s \in Seq(X)
    BY <2>1
  <2>3. IsSequence(s)
    <3> HIDE DEF s
    <3> QED
      BY <2>2, SequenceOf
  <2>4. Len(A \o B) = Len(A) + Len(B) /\ \A i \in 1 .. Len(A) : (A \o B)[i] = A[i]
    BY <2>1
  <2>5. \A i \in 1 .. Len(B) : (A \o B)[Len(A) + i] = B[i]
    <3> TAKE i \in 1 .. Len(B)
    <3>1. Len(A) + i \in 1 .. (Len(A) + Len(B)) /\ Len(A) + i > Len(A) /\ (Len(A) + i) - Len(A) = i
      BY <1>1, <1>2
    <3> QED
      BY <2>1, <3>1
  <2> QED
    BY <1>1, <2>3, <2>4, <2>5
<1> HIDE DEF s
<1>6. \A i \in 1 .. Len(s) : s[i].deduction \in Nat
  <2> TAKE i \in 1 .. Len(s)
  <2>1. CASE i \in 1 .. 4
    BY <1>1, <1>5, <2>1
  <2>2. CASE i \notin 1 .. 4
    <3>1. i - 4 \in 1 .. Len(B) /\ 4 + (i - 4) = i
      BY <1>2, <1>5, <2>2
    <3> QED
      BY <1>2, <1>5, <3>1
  <2> QED
    BY <2>1, <2>2
<1>7. Deductions(s) \in Nat /\ \A i \in 1 .. Len(s) : s[i].deduction <= Deductions(s)
  BY <1>5, <1>6, EachDeduction
<1>8. Deductions(s) <= 10
  BY <1>4, <1>7 DEF AtLeast
<1>9. A[1].deduction <= 10 /\ A[4].deduction <= 10 /\ B[1].deduction <= 10
  <2>1. 1 \in 1 .. Len(s) /\ 4 \in 1 .. Len(s) /\ 5 \in 1 .. Len(s) /\ 1 \in 1 .. Len(B)
    BY <1>2, <1>5
  <2>2. s[1] = A[1] /\ s[4] = A[4] /\ s[4 + 1] = B[1]
    BY <1>5, <2>1
  <2> QED
    BY <1>6, <1>7, <1>8, <2>1, <2>2
<1> QED
  BY <1>1, <1>2, <1>9

-----------------------------------------------------------------------------
(* Features come from admitted, stored candles.                              *)
Earned(r) ==
  r.status = "PASSED" => /\ r.stageB = "checks"
                         /\ \A k \in DOMAIN r.candles : Conforms(r.candles[k])
                         /\ Cardinality(Slots \ TimesOf(r.candles)) * 25 <= Cardinality(Slots)
Kept(r) == r.of \in Symbols /\ \E F \in SUBSET stored[r.of] : r.candles = Sorted(F)
Admitted(s, x) ==
  /\ x.report \in 1 .. Len(reports)
  /\ reports[x.report].of = s /\ reports[x.report].status = "PASSED"
  /\ x.candles = LastOf(reports[x.report].candles, FeatureWindow) /\ x.candles # <<>>
  /\ x.ts = x.candles[Len(x.candles)].ts

ReportsInv == \A i \in 1 .. Len(reports) : Earned(reports[i]) /\ Kept(reports[i])
SnapshotsInv == /\ snapshots = [s \in Symbols |-> snapshots[s]]
                /\ \A s \in Symbols : \A x \in snapshots[s] : Admitted(s, x)
BatchInv ==
  /\ At("validate") \/ At("bridge") => fetched \subseteq stored[Current.of]
  /\ At("bridge") => Len(reports) > 0 /\ Report.of = Current.of
FeaturesInv == ReportsInv /\ SnapshotsInv /\ BatchInv

\* Rows are only added, so what was reported or computed stays so.
LEMMA ReportsCarry ==
  ASSUME ReportsInv, SnapshotsInv, config' = config, reports' = reports, snapshots' = snapshots,
         \A s \in Symbols : stored[s] \subseteq stored'[s]
  PROVE  ReportsInv' /\ SnapshotsInv'
<1>1. window' = window
  BY DEF config
<1>2. \A r : Earned(r)' <=> Earned(r)
  BY <1>1 DEF Earned, Slots
<1>3. \A r : Kept(r) => Kept(r)'
  BY DEF Kept
<1>4. ReportsInv'
  BY <1>2, <1>3 DEF ReportsInv
<1>5. \A s, x : Admitted(s, x)' <=> Admitted(s, x)
  BY DEF Admitted
<1> QED
  BY <1>4, <1>5 DEF SnapshotsInv

\* The list of a part of the venue's bars.
LEMMA PartSorted ==
  ASSUME WindowTyped, NEW F \in SUBSET history
  PROVE  /\ Cardinality(F) \in Nat /\ Sorted(F) \in Seq(F) /\ Len(Sorted(F)) = Cardinality(F)
         /\ \A i, j \in 1 .. Cardinality(F) : i < j => Sorted(F)[i].ts < Sorted(F)[j].ts
         /\ \A i \in 1 .. Cardinality(F) : Sorted(F)[i] \in F /\ Sorted(F)[i].ts \in Nat
<1>1. Distinct(F)
  <2>1. IsFiniteSet(F)
    BY WindowFacts, FS_Subset
  <2> QED
    BY <2>1, WindowFacts DEF Distinct
<1>2. /\ Cardinality(F) \in Nat /\ Sorted(F) \in [1 .. Cardinality(F) -> F]
      /\ \A i, j \in 1 .. Cardinality(F) : i < j => Sorted(F)[i].ts < Sorted(F)[j].ts
  BY <1>1, SortedIs
<1>3. Sorted(F) \in Seq(F) /\ Len(Sorted(F)) = Cardinality(F)
  BY <1>2
<1> QED
  BY <1>1, <1>2, <1>3 DEF Distinct

\* The tail of a list ends where the list ends.
LEMMA TailOf ==
  ASSUME NEW X, NEW cs \in Seq(X), NEW n \in Nat \ {0}, LastOf(cs, n) # <<>>
  PROVE  /\ Len(cs) \in Nat \ {0} /\ LastOf(cs, n) \in Seq(X) /\ Len(LastOf(cs, n)) \in Nat \ {0}
         /\ \A i \in 1 .. Len(LastOf(cs, n)) : \E j \in 1 .. Len(cs) : LastOf(cs, n)[i] = cs[j]
         /\ LastOf(cs, n)[Len(LastOf(cs, n))] = cs[Len(cs)]
<1> DEFINE m == Len(cs)
           a == AtLeast(1, m - n + 1)
           t == SubSeq(cs, a, m)
<1>1. m \in Nat /\ a \in Nat \ {0} /\ t = LastOf(cs, n) /\ (m > 0 => a <= m)
  BY DEF AtLeast, LastOf
<1> HIDE DEF a
<1>2. m # 0
  <2> SUFFICES ASSUME m = 0 PROVE FALSE
    OBVIOUS
  <2>1. a > m
    BY <1>1
  <2>2. t = <<>>
    BY <1>1, <2>1
  <2> QED
    BY <1>1, <2>2
<1>3. /\ t \in Seq(X) /\ Len(t) = m - a + 1
      /\ \A i \in 1 .. (m - a + 1) : t[i] = cs[a + i - 1]
  <2>1. a \in 1 .. Len(cs) /\ a <= m
    BY <1>1, <1>2
  <2>2. t \in Seq(X)
    BY <2>1
  <2>3. Len(t) = m - a + 1
    BY <1>1, <2>1
  <2>4. \A i \in 1 .. (m - a + 1) : t[i] = cs[a + i - 1]
    BY <1>1, <2>1
  <2> QED
    BY <2>2, <2>3, <2>4
<1> HIDE DEF t
<1>4. Len(t) = m - a + 1 /\ Len(t) \in Nat \ {0}
  BY <1>1, <1>2, <1>3
<1>5. \A i \in 1 .. Len(t) : a + i - 1 \in 1 .. m /\ t[i] = cs[a + i - 1]
  <2> HIDE DEF m
  <2>1. \A i \in 1 .. (m - a + 1) : a + i - 1 \in 1 .. m
    BY <1>1
  <2> QED
    BY <1>3, <1>4, <2>1
<1>6. t[Len(t)] = cs[m]
  <2>1. Len(t) \in 1 .. Len(t) /\ a + Len(t) - 1 = m
    BY <1>1, <1>4
  <2> QED
    BY <1>5, <2>1
<1> QED
  BY <1>1, <1>2, <1>3, <1>4, <1>5, <1>6

\* No report and no snapshot to start with.
LEMMA FeaturesInit == BackfillInit => FeaturesInv
BY DEF BackfillInit, FeaturesInv, ReportsInv, SnapshotsInv, BatchInv, At

\* Every step of a backfill keeps the reports and snapshots in order.
LEMMA FeaturesStep ==
  BackfillInv /\ FeaturesInv /\ [BackfillNext]_backfillVars => FeaturesInv'
<1> SUFFICES ASSUME BackfillInv, FeaturesInv, [BackfillNext]_backfillVars PROVE FeaturesInv'
  OBVIOUS
<1> USE DEF At, InScope
<1>1. /\ WindowTyped /\ todo \in Seq(ScopeSet) /\ fetched \in SUBSET history
      /\ stored \in [Symbols -> SUBSET history] /\ IsSequence(reports) /\ Len(reports) \in Nat
  BY DEF BackfillInv, BackfillTyped, IsSequence
<1>2. InScope("candles") => Current.of \in Symbols
  BY <1>1, ScopeLeft, CandleScope DEF Current
<1>3. ASSUME NEW new \in SUBSET history, InScope("candles"),
             stored' = [stored EXCEPT ![Current.of] = Upserted(@, new)]
      PROVE  (\A s \in Symbols : stored[s] \subseteq stored'[s]) /\ new \subseteq stored'[Current.of]
  <2>1. Upserted(stored[Current.of], new) = stored[Current.of] \cup new
    BY <1>1, <1>2, <1>3, UpsertedIsUnion
  <2> QED
    BY <1>1, <1>2, <1>3, <2>1
<1>4. ASSUME step' = "fetch" \/ step' = "upsert", ReportsInv', SnapshotsInv' PROVE FeaturesInv'
  <2>1. BatchInv'
    BY <1>4 DEF BatchInv
  <2> QED
    BY <1>4, <2>1 DEF FeaturesInv
<1>5. ASSUME config' = config, reports' = reports, snapshots' = snapshots, stored' = stored
      PROVE  ReportsInv' /\ SnapshotsInv'
  BY <1>5, ReportsCarry DEF FeaturesInv
<1>6. ASSUME Fail, \A s \in Symbols : stored[s] \subseteq stored'[s] PROVE FeaturesInv'
  <2>1. ReportsInv' /\ SnapshotsInv'
    BY <1>6, ReportsCarry DEF FeaturesInv, Fail
  <2> QED
    BY <1>4, <1>6, <2>1 DEF Fail, NextScope
<1>7. CASE FetchPage
  BY <1>4, <1>5, <1>7 DEF FetchPage
<1>8. CASE FetchDone
  BY <1>4, <1>5, <1>8 DEF FetchDone
<1>9. CASE FetchThrows
  BY <1>6, <1>9 DEF FetchThrows
<1>10. CASE UpsertCandles
  <2>1. (\A s \in Symbols : stored[s] \subseteq stored'[s]) /\ fetched \subseteq stored'[Current.of]
    BY <1>1, <1>3, <1>10 DEF UpsertCandles
  <2>2. ReportsInv' /\ SnapshotsInv'
    BY <1>10, <2>1, ReportsCarry DEF FeaturesInv, UpsertCandles
  <2>3. BatchInv'
    BY <1>10, <2>1 DEF BatchInv, UpsertCandles, Current
  <2> QED
    BY <2>2, <2>3 DEF FeaturesInv
<1>11. CASE UpsertThrows
  <2>1. PICK n \in 0 .. Cardinality(fetched) :
          stored' = [stored EXCEPT ![Current.of] = Upserted(@, ToSet(SubSeq(Sorted(fetched), 1, n)))]
    BY <1>11 DEF UpsertThrows
  <2>2. ToSet(SubSeq(Sorted(fetched), 1, n)) \in SUBSET history
    BY <1>1, ChunkIsPart
  <2>3. InScope("candles") /\ Fail
    BY <1>11 DEF UpsertThrows
  <2>4. \A s \in Symbols : stored[s] \subseteq stored'[s]
    BY <1>3, <2>1, <2>2, <2>3
  <2> QED
    BY <1>6, <2>3, <2>4
<1>12. CASE ReportThrows
  BY <1>6, <1>12 DEF ReportThrows
<1>13. ASSUME NEW a \in Answers, ValidateAndReport(a) PROVE FeaturesInv'
  <2> DEFINE r == ReportOf(a)
  <2>1. /\ reports' = Append(reports, r) /\ step' = "bridge" /\ todo' = todo /\ fetched' = fetched
        /\ stored' = stored /\ snapshots' = snapshots /\ window' = window /\ todo # <<>>
        /\ InScope("candles") /\ step = "validate"
    BY <1>13 DEF ValidateAndReport, config
  <2>2. /\ Len(reports') = Len(reports) + 1
        /\ \A i \in 1 .. Len(reports) : reports'[i] = reports[i]
        /\ reports'[Len(reports) + 1] = r
    BY <1>1, <2>1, AppendEntry
  <2>3. /\ r.of = Current.of /\ r.candles = Sorted(fetched) /\ r.stageB = a.kind
        /\ r.status = Verdict(Sorted(fetched), Grid, window.from, window.to, a).status
    BY DEF ReportOf, Batch
  <2> HIDE DEF r
  <2>4. Earned(r)
    <3> SUFFICES ASSUME r.status = "PASSED" PROVE Earned(r)
      BY DEF Earned
    <3> DEFINE cs == Sorted(fetched)
    <3>1. Verdict(cs, Grid, window.from, window.to, a).status = "PASSED"
      BY <2>3
    <3> HIDE DEF cs
    <3>2. /\ a.kind = "checks" /\ \A k \in DOMAIN cs : Conforms(cs[k])
          /\ Cardinality(Slots \ TimesOf(cs)) * 25 <= Cardinality(Slots)
      BY <1>1, <3>1, PassingIsEarned
    <3> QED
      BY <2>3, <3>2 DEF Earned, cs
  <2>5. Kept(r)
    <3>1. Current.of \in Symbols /\ fetched \in SUBSET stored[Current.of]
      BY <1>2, <2>1 DEF FeaturesInv, BatchInv
    <3> QED
      BY <2>3, <3>1 DEF Kept
  <2>6. (\A x : Earned(x)' <=> Earned(x)) /\ (\A x : Kept(x)' <=> Kept(x))
    BY <2>1 DEF Earned, Slots, Kept
  <2>7. \A i \in 1 .. (Len(reports) + 1) : i \in 1 .. Len(reports) \/ i = Len(reports) + 1
    BY <1>1
  <2>8. ReportsInv'
    <3> SUFFICES ASSUME NEW i \in 1 .. (Len(reports) + 1)
                 PROVE  Earned(reports'[i]) /\ Kept(reports'[i])
      BY <2>2, <2>6 DEF ReportsInv
    <3>1. CASE i \in 1 .. Len(reports)
      BY <2>2, <3>1 DEF FeaturesInv, ReportsInv
    <3>2. CASE i = Len(reports) + 1
      BY <2>2, <2>4, <2>5, <3>2
    <3> QED
      BY <2>7, <3>1, <3>2
  <2>9. SnapshotsInv'
    <3>1. \A i \in 1 .. Len(reports) : i \in 1 .. Len(reports')
      BY <1>1, <2>2
    <3>2. \A s, x : Admitted(s, x) => Admitted(s, x)'
      BY <2>2, <3>1 DEF Admitted
    <3> QED
      BY <2>1, <3>2 DEF FeaturesInv, SnapshotsInv
  <2>10. BatchInv'
    <3>1. Current' = Current /\ fetched' \subseteq stored'[Current.of]
      BY <2>1 DEF FeaturesInv, BatchInv, Current
    <3>2. Len(reports') > 0 /\ Report' = r
      BY <1>1, <2>2 DEF Report
    <3> QED
      BY <2>3, <3>1, <3>2 DEF BatchInv
  <2> QED
    BY <2>8, <2>9, <2>10 DEF FeaturesInv
<1>14. ASSUME NEW a \in Answers, StageBAuth(a) PROVE FeaturesInv'
  BY <1>6, <1>14 DEF StageBAuth
<1>15. CASE Bridge
  <2> DEFINE x == SnapshotOf
             s == Current.of
  <2>1. /\ s \in Symbols /\ reports' = reports /\ stored' = stored /\ config' = config /\ step' = "fetch"
        /\ snapshots' = [snapshots EXCEPT ![s] = {y \in @ : y.ts # x.ts} \cup {x}]
        /\ Hooked /\ Len(reports) > 0 /\ Report.of = s
    BY <1>2, <1>15 DEF Bridge, NextScope, FeaturesInv, BatchInv
  <2>2. Admitted(s, x)
    <3>1. /\ x.candles = LastOf(reports[Len(reports)].candles, FeatureWindow)
          /\ x.report = Len(reports) /\ x.ts = x.candles[Len(x.candles)].ts
      BY DEF SnapshotOf, FeatureCandles, Report
    <3>2. reports[Len(reports)].status = "PASSED" /\ x.candles # <<>>
      BY <2>1, <3>1 DEF Hooked, FeatureCandles, Report
    <3>3. Len(reports) \in 1 .. Len(reports)
      BY <1>1, <2>1
    <3> HIDE DEF x
    <3> QED
      BY <2>1, <3>1, <3>2, <3>3 DEF Admitted, Report
  <2>3. \A y, t : Admitted(t, y)' <=> Admitted(t, y)
    BY <2>1 DEF Admitted
  <2> HIDE DEF x, s
  <2>4. SnapshotsInv'
    <3>1. snapshots = [t \in Symbols |-> snapshots[t]] /\ \A t \in Symbols : \A y \in snapshots[t] : Admitted(t, y)
      BY DEF FeaturesInv, SnapshotsInv
    <3>2. snapshots' = [t \in Symbols |-> snapshots'[t]]
      BY <2>1, <3>1
    <3>3. \A t \in Symbols : \A y \in snapshots'[t] : y \in snapshots[t] \/ (t = s /\ y = x)
      BY <2>1, <3>1
    <3> QED
      BY <2>2, <2>3, <3>1, <3>2, <3>3 DEF SnapshotsInv
  <2>5. ReportsInv'
    <3>1. window' = window
      BY <2>1 DEF config
    <3> QED
      BY <2>1, <3>1 DEF FeaturesInv, ReportsInv, Earned, Slots, Kept
  <2> QED
    BY <1>4, <2>1, <2>4, <2>5
<1>16. CASE BridgeThrows
  BY <1>4, <1>5, <1>16 DEF BridgeThrows, NextScope
<1>17. CASE NoBridge
  BY <1>4, <1>5, <1>17 DEF NoBridge, NextScope
<1>18. CASE FlowScope
  BY <1>4, <1>5, <1>18 DEF FlowScope, NextScope
<1>19. CASE FlowThrows
  BY <1>6, <1>19 DEF FlowThrows
<1>20. CASE Finish \/ UNCHANGED backfillVars
  <2>1. /\ config' = config /\ reports' = reports /\ snapshots' = snapshots /\ stored' = stored
        /\ todo' = todo /\ step' = step /\ fetched' = fetched
    BY <1>20 DEF Finish, backfillVars, config
  <2>2. BatchInv'
    BY <2>1 DEF FeaturesInv, BatchInv, Current, Report
  <2> QED
    BY <1>5, <2>1, <2>2 DEF FeaturesInv
<1> QED
  BY <1>7, <1>8, <1>9, <1>10, <1>11, <1>12, <1>13, <1>14, <1>15, <1>16, <1>17, <1>18, <1>19,
     <1>20 DEF BackfillNext

\* A snapshot's last candle is the last of its report, whose times ascend.
LEMMA InvIsEarned == BackfillInv /\ FeaturesInv => FeaturesAreEarned
<1> SUFFICES ASSUME BackfillInv, FeaturesInv PROVE FeaturesAreEarned
  OBVIOUS
<1>1. /\ WindowTyped /\ stored \in [Symbols -> SUBSET history] /\ DOMAIN reports = 1 .. Len(reports)
  BY DEF BackfillInv, BackfillTyped, IsSequence
<1>2. PassedIsEarned
  BY <1>1 DEF FeaturesInv, ReportsInv, Earned, PassedIsEarned, Slots
<1>3. SnapshotsAreAdmitted
  <2> SUFFICES ASSUME NEW s \in Symbols, NEW x \in snapshots[s]
               PROVE  LET r == reports[x.report] IN
                      /\ r.of = s /\ r.status = "PASSED"
                      /\ Range(x.candles) \subseteq stored[s]
                      /\ x.ts = (CHOOSE t \in TimesOf(r.candles) : \A u \in TimesOf(r.candles) : u <= t)
    BY DEF SnapshotsAreAdmitted
  <2> DEFINE r == reports[x.report]
  <2>1. /\ x.report \in 1 .. Len(reports) /\ r.of = s /\ r.status = "PASSED"
        /\ x.candles = LastOf(r.candles, FeatureWindow) /\ x.candles # <<>>
        /\ x.ts = x.candles[Len(x.candles)].ts
    BY DEF FeaturesInv, SnapshotsInv, Admitted
  <2>2. PICK F \in SUBSET stored[s] : r.candles = Sorted(F)
    BY <2>1 DEF FeaturesInv, ReportsInv, Kept
  <2> HIDE DEF r
  <2> DEFINE cs == r.candles
             n == Cardinality(F)
  <2>3. F \in SUBSET history
    BY <1>1, <2>2
  <2>4. /\ n \in Nat /\ cs \in Seq(F) /\ Len(cs) = n
        /\ \A i, j \in 1 .. n : i < j => cs[i].ts < cs[j].ts
        /\ \A i \in 1 .. n : cs[i] \in F /\ cs[i].ts \in Nat
    BY <1>1, <2>2, <2>3, PartSorted
  <2> HIDE DEF cs, n
  <2>5. /\ Len(cs) \in Nat \ {0} /\ x.candles \in Seq(F) /\ x.candles[Len(x.candles)] = cs[Len(cs)]
    <3>1. FeatureWindow \in Nat \ {0}
      BY BackfillAssumption
    <3>2. x.candles = LastOf(cs, FeatureWindow)
      BY <2>1 DEF cs
    <3> QED
      BY <2>1, <2>4, <3>1, <3>2, TailOf
  <2>6. Range(x.candles) \subseteq stored[s]
    BY <2>2, <2>5 DEF Range
  <2>7. x.ts = cs[n].ts /\ n \in 1 .. n
    BY <2>1, <2>4, <2>5
  <2>8. TimesOf(cs) = {cs[i].ts : i \in 1 .. n}
    BY <2>4 DEF TimesOf
  <2>9. x.ts \in TimesOf(cs) /\ \A u \in TimesOf(cs) : u <= x.ts
    <3>1. \A i \in 1 .. n : cs[i].ts <= cs[n].ts
      <4> TAKE i \in 1 .. n
      <4>1. i = n \/ i < n
        BY <2>4
      <4> QED
        BY <2>4, <2>7, <4>1
    <3> QED
      BY <2>7, <2>8, <3>1
  <2>10. \A t \in TimesOf(cs) : t \in Nat
    BY <2>4, <2>8
  <2>11. x.ts = CHOOSE t \in TimesOf(cs) : \A u \in TimesOf(cs) : u <= t
    <3> DEFINE T == TimesOf(cs)
               m == CHOOSE t \in T : \A u \in T : u <= t
    <3> HIDE DEF T
    <3>1. m \in T /\ \A u \in T : u <= m
      BY <2>9 DEF T
    <3> HIDE DEF m
    <3>2. x.ts <= m /\ m <= x.ts /\ x.ts \in Nat /\ m \in Nat
      BY <2>9, <2>10, <3>1 DEF T
    <3>3. x.ts = m
      BY <3>2
    <3> QED
      BY <3>3 DEF m, T
  <2> QED
    BY <2>1, <2>6, <2>11 DEF cs, r
<1> QED
  BY <1>2, <1>3 DEF FeaturesAreEarned

\* A report is PASSED only when stage B answered, every row conforms and at
\* most four percent of the window's bars are missing, for windows of any
\* length; features are computed only under such a report, of rows that are in
\* the database, and carry the time of its last candle.
THEOREM FeaturesEarned == BackfillSpec => []FeaturesAreEarned
<1>1. BackfillInit => BackfillInv /\ FeaturesInv
  BY InitSound, FeaturesInit
<1>2. BackfillInv /\ FeaturesInv /\ [BackfillNext]_backfillVars => (BackfillInv /\ FeaturesInv)'
  BY StepSound, FeaturesStep
<1>3. BackfillInv /\ FeaturesInv => FeaturesAreEarned
  BY InvIsEarned
<1> QED
  BY <1>1, <1>2, <1>3, PTL DEF BackfillSpec

=============================================================================
