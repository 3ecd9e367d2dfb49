------------------------------ MODULE Backfill ------------------------------
(* runBackfill of services/ingestion/src/pipeline/backfill.ts with the       *)
(* candle pagination of the connectors, the upserts of persistence/index.ts, *)
(* the data quality gateway and the feature bridge of the bootstrap.  Scopes *)
(* run one after another; each is isolated by its own try/catch.             *)
EXTENDS DataQuality

CONSTANTS
  Symbols,        \* PERP symbols, each a candle scope and its flow scopes
  Underlyings,    \* option underlyings
  Grid,           \* the timeframe, in units of time
  PageBars,       \* MAX_BARS_PER_REQUEST
  Windows,        \* pairs from..to that may be backfilled
  Histories,      \* what the venue may hold: sets of candles, one per time
  MinCandles,     \* MIN_CANDLES of the feature set
  FeatureWindow,  \* candles handed to the feature bridge
  Findings        \* what the statistical checks may find

Candles == [ts : Nat, finite : BOOLEAN, open : Int, high : Int, low : Int, close : Int, volume : Int]

\* fetchCandles refuses a window that ends before it starts; the bars of a venue
\* lie on the grid of the timeframe, one per time.
ASSUME BackfillAssumption ==
  /\ Grid \in Nat \ {0} /\ PageBars \in Nat \ {0} /\ FeatureWindow \in Nat \ {0}
  /\ IsFiniteSet(Symbols) /\ IsFiniteSet(Underlyings)
  /\ \A w \in Windows : w.from \in Nat /\ w.to \in Nat /\ w.from <= w.to
  /\ \A h \in Histories :
       /\ IsFiniteSet(h) /\ h \subseteq Candles
       /\ \A c \in h : c.ts % Grid = 0 /\ \A d \in h : c.ts = d.ts => c = d
  /\ \A f \in Findings : f.outliers \in Nat /\ f.anomalies \in Nat /\ f.drift \in BOOLEAN

FlowKinds == <<"funding", "oi", "lsr", "liquidity">>

VARIABLES
  window,      \* [from, to] of this backfill
  history,     \* the candles the venue holds
  startBar,    \* the venue also returns the bar containing a page's start
  quant,       \* a quant service is configured
  caps,        \* the connector's capabilities among FlowKinds and "options"
  todo,        \* scopes still to do, the current one first
  step,        \* where the current candle scope stands
  cursor,      \* the next page starts here
  fetched,     \* candles collected so far, at most one per time
  stored,      \* MarketCandle rows, per symbol
  reports,     \* DataQualityReport rows, in order
  snapshots,   \* FeatureSnapshot rows, per symbol: [ts, candles, report]
  health,      \* system.health.degraded events: severities
  errors,      \* scopes recorded as failed
  failed,      \* scopes in which something really threw
  beat         \* the closing heartbeat

backfillVars == <<window, history, startBar, quant, caps, todo, step, cursor, fetched,
                  stored, reports, snapshots, health, errors, failed, beat>>
config == <<window, history, startBar, quant, caps>>

Scope(kind, of) == [kind |-> kind, of |-> of]
Each(S, kind) == [i \in 1..Cardinality(S) |-> Scope(kind, SetToSeq(S)[i])]
\* For every symbol one scope of each kind.
FlowScopes ==
  [i \in 1..(4 * Cardinality(Symbols)) |->
     Scope(FlowKinds[((i - 1) % 4) + 1], SetToSeq(Symbols)[((i - 1) \div 4) + 1])]
AllScopes == Each(Symbols, "candles") \o FlowScopes \o Each(Underlyings, "options")

InWindow(t) == window.from <= t /\ t <= window.to
Earlier(S, c) == {d \in S : d.ts < c.ts}
Sorted(S) ==                       \* of candles with distinct times
  [i \in 1..Cardinality(S) |-> CHOOSE c \in S : Cardinality(Earlier(S, c)) = i - 1]
LastOf(cs, n) == SubSeq(cs, AtLeast(1, Len(cs) - n + 1), Len(cs))

BackfillInit ==
  /\ window \in Windows /\ history \in Histories
  /\ startBar \in BOOLEAN /\ quant \in BOOLEAN
  /\ caps \in {{"funding", "oi", "liquidity", "options"}, {"funding", "oi", "lsr", "liquidity"}}
  /\ todo = AllScopes
  /\ step = "fetch" /\ cursor = window.from /\ fetched = {}
  /\ stored = [s \in Symbols |-> {}] /\ reports = <<>>
  /\ snapshots = [s \in Symbols |-> {}]
  /\ health = {} /\ errors = {} /\ failed = {} /\ beat = "RUNNING"

Current == Head(todo)
InScope(kind) == todo # <<>> /\ Current.kind = kind
At(s) == InScope("candles") /\ step = s

\* The next scope starts with an empty collection at the window's start.
NextScope ==
  /\ todo' = Tail(todo) /\ step' = "fetch" /\ cursor' = window.from /\ fetched' = {}

\* A throw ends the scope, is recorded, and never reaches the next one.
Fail ==
  /\ errors' = errors \cup {Current} /\ failed' = failed \cup {Current}
  /\ NextScope
  /\ UNCHANGED <<config, reports, snapshots, beat>>

-----------------------------------------------------------------------------
(* fetchCandles: pages of PageBars bars, each asked with inclusive bounds;   *)
(* rows outside the window are skipped and a time is kept once.              *)
\* Mutant: a page ends one bar early.
PageEnd_OneShort == AtMost(cursor + PageBars * Grid - 2 * Grid, window.to)
PageEnd == AtMost(cursor + PageBars * Grid - Grid, window.to)
PageRows == {c \in history : c.ts >= (IF startBar THEN cursor - (cursor % Grid) ELSE cursor)
                             /\ c.ts <= PageEnd}

FetchPage ==
  /\ At("fetch") /\ cursor <= window.to
  /\ fetched' = fetched \cup {c \in PageRows : InWindow(c.ts)}
  /\ cursor' = cursor + PageBars * Grid
  /\ UNCHANGED <<config, todo, step, stored, reports, snapshots, health, errors, failed, beat>>

FetchDone ==
  /\ At("fetch") /\ cursor > window.to
  /\ step' = "upsert"
  /\ UNCHANGED <<config, todo, cursor, fetched, stored, reports, snapshots, health,
                 errors, failed, beat>>

\* The request failed after its retries, or a row of the page was malformed.
FetchThrows == At("fetch") /\ Fail /\ UNCHANGED <<health, stored>>

\* upsertCandles: rows keyed by time, written in chunks; a failing chunk
\* leaves the ones before it.
Upserted(rows, new) == {r \in rows : \A n \in new : n.ts # r.ts} \cup new
UpsertCandles ==
  /\ At("upsert")
  /\ stored' = [stored EXCEPT ![Current.of] = Upserted(@, fetched)]
  /\ step' = "validate"
  /\ UNCHANGED <<config, todo, cursor, fetched, reports, snapshots, health, errors, failed, beat>>
UpsertThrows ==
  /\ At("upsert")
  /\ \E n \in 0..Cardinality(fetched) : n < Cardinality(fetched) /\
       stored' = [stored EXCEPT ![Current.of] =
                    Upserted(@, ToSet(SubSeq(Sorted(fetched), 1, n)))]
  /\ Fail /\ UNCHANGED health

-----------------------------------------------------------------------------
(* validateAndReport over the fetched batch, with what stage B answered.     *)
Batch == Sorted(fetched)
Answers == IF quant THEN [kind : {"checks"}, found : Findings] \cup [kind : {"auth", "unavailable"}]
           ELSE [kind : {"unavailable"}]

ReportOf(answer) ==
  LET v == Verdict(Batch, Grid, window.from, window.to, answer)
  IN [of |-> Current.of, score |-> v.score, status |-> v.status,
      candles |-> Batch, stageB |-> answer.kind]

ValidateAndReport(answer) ==
  /\ At("validate") /\ ~Throws(answer)
  /\ reports' = Append(reports, ReportOf(answer))
  /\ step' = "bridge"
  /\ UNCHANGED <<config, todo, cursor, fetched, stored, snapshots, health, errors, failed, beat>>

\* StageBAuthError: no report, a CRITICAL event, and the scope has failed.
StageBAuth(answer) ==
  /\ At("validate") /\ Throws(answer)
  /\ health' = health \cup {"CRITICAL"}
  /\ Fail /\ UNCHANGED stored
ReportThrows == At("validate") /\ Fail /\ UNCHANGED <<health, stored>>

-----------------------------------------------------------------------------
(* The feature bridge, called only for a PASSED report and only when a quant *)
(* service is configured; then the WARN event of a stage B outage.           *)
Report == reports[Len(reports)]
\* Mutant: the head of the batch instead of its tail.
FeatureCandles_Head == SubSeq(Report.candles, 1, AtMost(FeatureWindow, Len(Report.candles)))
FeatureCandles == LastOf(Report.candles, FeatureWindow)
SnapshotOf ==
  [ts |-> FeatureCandles[Len(FeatureCandles)].ts, candles |-> FeatureCandles, report |-> Len(reports)]
Hooked == quant /\ Report.status = "PASSED" /\ FeatureCandles # <<>>
Computed == compute(FeatureCandles, Report.score, SnapshotOf.ts, MinCandles)

OutageEvent == health \cup (IF Report.stageB = "unavailable" THEN {"WARN"} ELSE {})

Bridge ==
  /\ At("bridge") /\ Hooked /\ Computed = "OK"
  /\ snapshots' = [snapshots EXCEPT ![Current.of] =
                     {x \in @ : x.ts # SnapshotOf.ts} \cup {SnapshotOf}]
  /\ health' = OutageEvent
  /\ NextScope
  /\ UNCHANGED <<config, stored, reports, errors, failed, beat>>

\* Refused by the quant service, unreachable, or the snapshot was not written.
\* Mutant: the failure is logged and not recorded.
BridgeThrows_Silent ==
  /\ At("bridge") /\ Hooked
  /\ failed' = failed \cup {Current} /\ health' = OutageEvent
  /\ NextScope
  /\ UNCHANGED <<config, stored, reports, snapshots, errors, beat>>
BridgeThrows ==
  /\ At("bridge") /\ Hooked
  /\ errors' = errors \cup {Current} /\ failed' = failed \cup {Current}
  /\ health' = OutageEvent
  /\ NextScope
  /\ UNCHANGED <<config, stored, reports, snapshots, beat>>

NoBridge ==
  /\ At("bridge") /\ ~Hooked
  /\ health' = OutageEvent
  /\ NextScope
  /\ UNCHANGED <<config, stored, reports, snapshots, errors, failed, beat>>

-----------------------------------------------------------------------------
\* A flow or option-chain scope: fetched and upserted, nothing to store, or
\* skipped because the connector has no such capability.
FlowScope ==
  /\ todo # <<>> /\ Current.kind # "candles"
  /\ NextScope
  /\ UNCHANGED <<config, stored, reports, snapshots, health, errors, failed, beat>>
FlowThrows ==
  /\ todo # <<>> /\ Current.kind # "candles" /\ Current.kind \in caps
  /\ Fail /\ UNCHANGED <<health, stored>>

Finish ==
  /\ todo = <<>> /\ beat = "RUNNING"
  /\ beat' = IF errors = {} THEN "OK" ELSE "FAILED"
  /\ UNCHANGED <<config, todo, step, cursor, fetched, stored, reports, snapshots, health,
                 errors, failed>>

BackfillNext ==
  \/ FetchPage \/ FetchDone \/ FetchThrows
  \/ UpsertCandles \/ UpsertThrows
  \/ ReportThrows \/ \E a \in Answers : ValidateAndReport(a) \/ StageBAuth(a)
  \/ Bridge \/ BridgeThrows \/ NoBridge
  \/ FlowScope \/ FlowThrows \/ Finish

BackfillSpec == BackfillInit /\ [][BackfillNext]_backfillVars

-----------------------------------------------------------------------------
\* The pages of one fetch lose no bar of the venue when the window starts on
\* the grid.  Otherwise a bar can fall between the inclusive end of a page and
\* the start of the next one, or the end of the window, but never more than one
\* per page; a venue that returns the bar containing a page's start makes up
\* for it, but not after the last page.
BackfillIsComplete ==
  LET offset == window.from % Grid IN
  At("upsert") =>
    Cardinality({c \in history : InWindow(c.ts)} \ fetched)
      <= IF offset = 0 THEN 0
         ELSE IF startBar THEN 1
         ELSE (window.to - window.from + offset) \div (PageBars * Grid)

\* A PASSED report is never the product of a missing check: the statistics
\* answered, no row broke the schema, and the batch has at most four percent
\* of its bars missing.
PassedIsEarned ==
  \A i \in DOMAIN reports :
    LET r == reports[i]
        slots == {t \in window.from..(window.to - 1) : t % Grid = 0}
    IN r.status = "PASSED" =>
         /\ r.stageB = "checks"
         /\ \A k \in DOMAIN r.candles : Conforms(r.candles[k])
         /\ Cardinality(slots \ TimesOf(r.candles)) * 25 <= Cardinality(slots)

\* Features are computed only from an admitted window whose every candle is
\* already in the database, and are labelled with its last candle.
SnapshotsAreAdmitted ==
  \A s \in Symbols : \A x \in snapshots[s] :
    LET r == reports[x.report] IN
    /\ r.of = s /\ r.status = "PASSED"
    /\ Range(x.candles) \subseteq stored[s]
    /\ x.ts = (CHOOSE t \in TimesOf(r.candles) : \A u \in TimesOf(r.candles) : u <= t)

\* One failing scope never stops the others and is never forgotten: the
\* closing heartbeat is OK exactly when nothing threw, and every candle scope
\* left a report unless something threw before it could.
FailuresAreIsolated ==
  beat # "RUNNING" =>
    /\ (beat = "OK") = (failed = {})
    /\ \A s \in Symbols : (\E i \in DOMAIN reports : reports[i].of = s)
                            \/ Scope("candles", s) \in failed

\* A backfill loses no bar of a window on the grid, off the grid at most one per page,
\* and a scope that throws is reported while the others go on.
BackfillIsSound == BackfillIsComplete /\ FailuresAreIsolated

\* Features are computed only of data that earned it: a PASSED report had all its
\* checks, and a snapshot stems from a PASSED report of candles that are stored.
FeaturesAreEarned == PassedIsEarned /\ SnapshotsAreAdmitted

=============================================================================
