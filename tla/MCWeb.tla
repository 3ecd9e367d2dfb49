-------------------------------- MODULE MCWeb --------------------------------
(* Instances of the operator console's parts for TLC.  The focus of a          *)
(* behaviour says which part moves; the others stay where they start.          *)
EXTENDS Governance, WebAuth, PolledResource, SignalStream, OpsAlerts, TradingDesk

CONSTANT Foci   \* the parts a run moves
VARIABLE focus
mcVars == <<focus, govVars, authVars, pollVars, streamVars, opsVars, deskVars>>

World(db, cache, tick, feature) ==
  [db |-> db, redis |-> cache, quant |-> "unset",
   lag |-> [s \in StreamKeys |-> IF s = "marketTick" THEN tick
                                 ELSE IF s = "featureSnapshot" THEN feature ELSE 10],
   job |-> [age |-> 10, failed |-> FALSE], exec |-> 10, dq |-> 10, failed |-> {},
   risk |-> [open |-> FALSE, mode |-> "NORMAL", seen |-> TRUE]]

\* Calm, two rules that fire at once, and the database away.
MCWorlds == {World("fast", "pong", 10, 10), World("slow", "refused", 70, 10),
             World("down", "pong", 70, 10)}

\* Jobs: none, a failed one of either pattern, one that neither or only one of
\* the two execution views still sees.
JobHistory(age, failed, contains, matches) ==
  [job |-> [age |-> age, failed |-> failed], lag |-> contains, exec |-> matches]
JobHistories ==
  {JobHistory(Never, FALSE, Never, Never), JobHistory(10, TRUE, 10, 10), JobHistory(10, TRUE, 4000, 10),
   JobHistory(10, FALSE, Never, 10), JobHistory(10, FALSE, 301, Never), JobHistory(4000, FALSE, 4000, 4000),
   JobHistory(Day + 10, FALSE, Day + 10, Never)}

\* Every band of the streams the rules and probes tell apart.
HealthWorlds ==
  {[db |-> d, redis |-> r, quant |-> q,
    lag |-> [s \in StreamKeys |-> CASE s \in {"marketTick", "featureSnapshot"} -> l[1]
                                    [] s \in {"orderbookSnapshot", "marketCandle"} -> l[2]
                                    [] s = "engineSignal" -> l[3] [] OTHER -> j.lag],
    job |-> j.job, exec |-> j.exec, dq |-> 10,
    failed |-> IF j.job.failed THEN {"execution"} ELSE {}, risk |-> k] :
     d \in {"fast", "slow", "down"}, r \in {"unset", "pong", "refused"},
     q \in {"pong", "error", "refused"},
     l \in {Never, 10, 61, 181} \X {Never, 10, 4000} \X {Never, 10, 121, 4000},
     j \in JobHistories,
     k \in {[open |-> FALSE, mode |-> "NORMAL", seen |-> TRUE],
            [open |-> FALSE, mode |-> "HALTED", seen |-> TRUE],
            [open |-> TRUE, mode |-> "none", seen |-> TRUE]}}

Quiet == World("fast", "pong", 10, 10)

-----------------------------------------------------------------------------
(* The desk: feature vectors that reach every branch of the rule, marks of every
   source, levels that are missing, collapse by rounding, exceed the cap or fit. *)

Vector(stack, rsi, vol) ==
  [ema_20 |-> stack[1], ema_50 |-> stack[2], ema_200 |-> stack[3], rsi_14 |-> rsi, realized_vol_30 |-> vol]
Ranged(f, atr) == [k \in DOMAIN f \union {"atr_14", "donchian_upper_20", "donchian_lower_20"} |->
                     CASE k = "atr_14" -> atr [] k = "donchian_upper_20" -> 9000
                       [] k = "donchian_lower_20" -> 7000 [] OTHER -> f[k]]
LongVector  == Vector(<<30, 20, 10>>, 80, 1)
MildVector  == Vector(<<12, 11, 10>>, 60, 1)
ShortVector == Vector(<<8, 9, 10>>, 20, 1)
FlatVector  == Vector(<<10, 12, 11>>, 50, 1)
Vectors == {Vector(stack, rsi, vol) : stack \in {<<12, 11, 10>>, <<30, 20, 10>>, <<8, 9, 10>>, <<10, 12, 11>>},
                                      rsi \in {20, 45, 50, 55, 80}, vol \in {0, 2, 3, 5}}

NoMarks == [book |-> Null, tick |-> Null, candle |-> Null, liq |-> Null]
BookRow(mark, size, spread, t) ==
  <<[mark |-> mark, bid |-> <<7998>>, ask |-> <<8002>>, size |-> size, spread |-> spread, ts |-> t]>>
FullBook(t) == [NoMarks EXCEPT !.book = BookRow(<<8000>>, <<100000>>, <<5>>, t)]
Feeds(t) == {FullBook(t), NoMarks,
             [NoMarks EXCEPT !.book = BookRow(Null, Null, Null, t), !.liq = <<[spread |-> Null, depth |-> <<400>>, ts |-> t]>>],
             [NoMarks EXCEPT !.tick = <<[price |-> 0, ts |-> t]>>, !.candle = <<[close |-> 8800, ts |-> t]>>],
             [NoMarks EXCEPT !.tick = <<[price |-> 8100, ts |-> t]>>, !.book = BookRow(<<7900>>, Null, <<5>>, t - 100)]}

AllOpen == [kill |-> FALSE, state |-> <<"HEALTHY">>, risk |-> FALSE, infra |-> TRUE, mode |-> <<"NORMAL">>]
NoSnap == [s \in Symbols |-> [t \in {"H1", "H4", "D1"} |-> Null]]
Snapshot(f, dq) == [features |-> f, dq |-> dq, ts |-> 300]
Snapshots == {<<>>, <<Snapshot(ShortVector, 92)>>, <<Snapshot(FlatVector, 100)>>, <<Snapshot([ema_20 |-> 3], 95)>>,
              <<Snapshot(LongVector, 95), Snapshot(ShortVector, 80)>>, <<Snapshot(LongVector, 80), Snapshot(ShortVector, 92)>>,
              <<Snapshot(LongVector, 80)>>, <<Snapshot(FlatVector, 100), Snapshot(LongVector, 95)>>}

Beside(row) == <<Row(1, 2, Ranged(ShortVector, 200), <<>>, 300, 300, 100), row>>

\* One input of the engines at a time, nothing moving.
EngineInput ==
  \/ \* the rule
     /\ \E v \in Vectors, p \in {<<>>, [maxRealizedVol |-> 1], [rsiLongMin |-> 60]} :
          signals = Beside(Row(2, 1, Ranged(v, 400), p, 300, 300, 92))
     /\ marks = [s \in Symbols |-> FullBook(300)] /\ gates = AllOpen /\ limit = Null /\ snaps = NoSnap
  \/ \* levels, sizes and ages
     /\ \E v \in {LongVector, MildVector, ShortVector}, atr \in {Null, <<0>>, <<2>>, <<10>>, <<20>>, <<400>>},
           created \in {300, 100}, ts \in {300, 100} :
          signals = Beside(Row(2, 1, IF Has(atr) THEN Ranged(v, atr[1]) ELSE v, <<>>, created, ts, 97))
     /\ \E m \in Feeds(300) : marks = [s \in Symbols |-> IF s = 1 THEN m ELSE FullBook(300)]
     /\ gates = AllOpen /\ limit \in {Null, <<[value |-> 2000, pct |-> TRUE]>>} /\ snaps = NoSnap
  \/ \* consensus
     /\ \E p \in {<<>>, [rsiShortMax |-> 10]} : signals = Beside(Row(2, 1, LongVector, p, 300, 300, 92))
     /\ marks = [s \in Symbols |-> NoMarks] /\ gates = AllOpen /\ limit = Null
     /\ \E choice \in [{"H1", "H4", "D1"} -> Snapshots] : snaps = [NoSnap EXCEPT ![1] = choice]

\* Two signals, the older one of symbol 1, with every gate open or one of them closed.
DeskInput ==
  /\ \E created \in {300, 100} :
       signals = <<Row(1, 1, Ranged(LongVector, 200), <<>>, created, 300, 95),
                   Row(2, 2, Ranged(ShortVector, 200), <<>>, 300, 300, 95)>>
  /\ gates \in {AllOpen, [AllOpen EXCEPT !.kill = TRUE], [AllOpen EXCEPT !.state = <<"PROTECTED">>],
                [AllOpen EXCEPT !.risk = TRUE], [AllOpen EXCEPT !.infra = FALSE], [AllOpen EXCEPT !.mode = <<"FROZEN">>]}
  /\ marks = [s \in Symbols |-> FullBook(300)] /\ limit = Null /\ snaps = NoSnap

DeskInit ==
  /\ CASE focus = "engines" -> EngineInput
       [] focus = "desk"    -> DeskInput
       [] OTHER             -> signals = <<>> /\ marks = [s \in Symbols |-> NoMarks] /\ gates = AllOpen
                               /\ limit = Null /\ snaps = NoSnap
  /\ deskClock = 300 /\ changes = 0 /\ desk = NoRequest /\ gateLog = [g \in GateNames |-> {}]

\* What the others write between a request and its answer.
DeskMoves ==
  /\ desk.pc \notin {"idle", "done", "failed"}
  /\ \/ \E g \in {"kill", "risk", "infra"}, v \in BOOLEAN : GateMoves(g, v)
     \/ \E v \in {Null, <<"HEALTHY">>, <<"PROTECTED">>} : GateMoves("state", v)
     \/ \E v \in {<<"NORMAL">>, <<"FROZEN">>} : GateMoves("mode", v)
     \/ \E s \in Symbols : NewSignal(Row(Len(signals) + 1, s, Ranged(MildVector, 200), <<>>, deskClock, deskClock, 95))
     \/ MarkMoves(1, NoMarks)
     \/ TimePasses

-----------------------------------------------------------------------------
MCInit ==
  /\ focus \in Foci
  /\ GovInit /\ AuthInit /\ PollInit /\ StreamInit /\ NothingAsked
  /\ focus = "session" \/ registry = {"alice"}
  /\ world \in CASE focus = "health" -> HealthWorlds [] focus = "alerts" -> Worlds [] OTHER -> {Quiet}
  /\ DeskInit

On(f, A, others) == focus = f /\ A /\ UNCHANGED <<focus, others>>
Auth(f, A) == On(f, A, <<govVars, pollVars, streamVars, opsVars, deskVars>>)
Poll(A) == On("poll", A, <<govVars, authVars, streamVars, opsVars, deskVars>>)
Stream(A) == On("stream", A, <<govVars, authVars, pollVars, opsVars, deskVars>>)
Alerts(A) == On("alerts", A, <<govVars, authVars, pollVars, streamVars, deskVars>>)

Desk(A) == focus \in {"desk", "engines"} /\ A /\ UNCHANGED <<focus, govVars, authVars, pollVars, streamVars, opsVars>>

\* Real operators are interchangeable: whoever registers first is alice.
FirstIsAlice == \A t \in Txs : TxOpen(t)' /\ tx'[t].pc = "findStrategy" /\ Latest("s") = 0 => tx'[t].actor = "alice"

\* Signing in while the limiter has nothing against it.
LoginSteps ==
  \/ LoginStart(1, "c") \/ CheckLogin(1, TRUE) \/ RecordSuccess(1, TRUE, TRUE)
  \/ \E o \in Principals : RightToken(1, o)

\* The engines are looked at on complete inputs.
AllReadsSucceed ==
  /\ desk'.pc # "failed"
  /\ desk'.pc = "rows" => desk'.control # ControlUnknown
  /\ desk'.pc = "done" => desk'.book.summary.status # "BLOCKED"

MCNext ==
  \/ On("governance", GovNext, <<authVars, pollVars, streamVars, opsVars, deskVars>>) /\ FirstIsAlice
  \/ Auth("limiter", LimiterNext) /\ \A r \in Requests : req'[r].pc # "idle" => req'[r].client = "c"
  \/ Auth("flood", LimiterNext) /\ redis' = redis
  \/ Auth("session", SessionNext \/ LoginSteps)
  \/ Poll(PollNext)
  \/ Stream(StreamNext)
  \/ Alerts(OpsNext)
  \/ Desk(focus = "desk" /\ (DeskMoves \/ GetSteps))
  \/ Desk(focus = "engines" /\ GetSteps /\ AllReadsSucceed)

\* Started requests end (each has a timeout or an answer), timers run out, the
\* open stream is served and read, and the panel goes on asking.
Progress ==
  /\ \A k \in 1..MaxLoads : WF_mcVars(Poll(ServerReads(k))) /\ WF_mcVars(Poll(Succeeds(k) \/ Fails(k)))
  /\ WF_mcVars(Poll(TimerFires)) /\ WF_mcVars(Poll(BackoffEnds))
  /\ WF_mcVars(Stream(SendBacklog \/ PollDb \/ SendPage)) /\ WF_mcVars(Stream(Receive))
  /\ \A g \in Gets : WF_mcVars(Alerts(GetStart(g) \/ GetStep(g)))

MCSpec == MCInit /\ [][MCNext]_mcVars /\ Progress

\* Whatever was lost, refused or superseded before, the panels, the signal feed and the
\* alert rows come to show the present once their servers stay up.
ViewsCatchUp == PanelRecovers /\ FeedCatchesUp /\ AlertsConverge

=============================================================================
