# Nexus-Quant: TLA+ verification project

Nexus-Quant is a trading platform: an ingestion daemon collects market data and
validates it, a worker process turns feature snapshots into signals, proposals and
orders, a control plane decides whether trading is permitted at all, and a web
application shows the state to operators and lets them stop and resume trading.
This directory holds TLA+ models of the parts that carry the platform's own state
and decisions, the TLC configurations that check them on small instances, and
TLAPS proofs for every instance.

`PROJECT.json` holds the machine-readable index: which lines of the source every
definition stands for, which run checks which property, and for every property
mutants of the model (plausible bugs in the code) that it catches.

## 1. Inventory

| Part | Source | State it keeps | Operations | Interacts with |
|---|---|---|---|---|
| Control evaluators | `packages/control` | none (pure) | protection rules, runtime state machine, trading permission, recovery aggregation | called by the control plane and the web |
| Control plane | `services/workers/src/control` | last state, last active rules, permission snapshot in memory; transitions, incidents, protection events, kill switch in PostgreSQL | boot, evaluate, order gate, kill/resume | database, redis and quant probes, worker tick, web |
| Worker | `services/workers/src/index.ts` | tick flag, execution dependencies | boot, tick, shutdown | everything below |
| Pipeline and signals | `services/workers/src/pipeline`, `signal`, `features`, `decision` | signal rows, idempotence keys | feature fetch, signal generation, persistence, deliberation | quant service, database, bus |
| Bus | `services/workers/src/bus`, `packages/events` | subscriptions, job ids | publish, consume, retry | redis/BullMQ or in-process fallback |
| Execution stage | `services/workers/src/execution` | portfolio state, kill-switch limits | risk gate hook, sizing, intent, adapter call, accounting | risk engine, adapter, bus |
| Risk engine | `services/workers/src/risk` | halted flag and reason, equity peak, day start; append-only journal file | evaluate, halt, reset, recover | execution stage (gate), control plane (risk rule) |
| Market adapter | `services/workers/src/market` | positions, orders, portfolio, account; append-only journal file; mark cache; equity series in PostgreSQL | execute, reduce order reports, reconcile, recover, Deribit transport, poll quotes, record equity | venue, database |
| Replay | `services/workers/src/replay` | none | deterministic re-run of a journal | journals |
| Execution core | `packages/execution-core` | one execution: orders, fills, position, audit | create, submit, acknowledge, fill, cancel, fail, close | adapter package |
| Execution adapter | `packages/execution-adapter` | bound execution, connection, idempotence | submit, cancel, replace, fill, sync, shutdown | execution core |
| Trading decision, plan, portfolio intelligence | `packages/trading-decision`, `trading-plan`, `portfolio-intelligence` | none (pure) | projections of a signal into levels, checklists, scores, exposure | web |
| Ingestion | `services/ingestion` | stream buffers, retry timers, DQ verdicts; market rows in PostgreSQL | connect, reconnect, buffer, flush, bootstrap, backfill, DQ gate, feature bridge | venues, quant, database, redis |
| Quant service | `services/quant` (Python) | none | DQ stage B, feature computation | ingestion, workers |
| Web session and login | `apps/web/src/lib/session.ts`, `login-rate-limit.ts` | failure counters in redis or memory | login, verify, limit | redis |
| Governance | `apps/web/src/lib/governance-actions.ts` | strategies, approval requests, audit | register, approve, reject, activate (four eyes) | database |
| Operations pages | `apps/web/src/lib` (`ops`, `system-health`, `ops-alerts`, `use-polled-resource`), `app`, `components` | poll registry, alert state | read models, polling, SSE | database |

What is hard in this code:

- *Partial failure.* A control evaluation, an order, and a backfill each make many
  awaited calls; each can reject and leave tables, files and memory at different
  points.
- *Crash and recovery.* The risk and market journals are append-only JSON-lines
  files; a torn last line and a restart must neither lose a halt nor invent a
  position. The control tables survive a worker that does not.
- *Stale values.* The order gate decides on a permission snapshot; the kill switch
  is re-read; marks and permissions have ages.
- *Interleaving.* Operators, probes, streams and the tick act concurrently; two
  approvers and two login attempts race.
- *Unreliable delivery.* Venue requests time out after the venue acted; bus jobs
  are retried; WebSocket streams drop and reconnect.
- *Liveness.* A protection must be left once its cause is gone; a table, a panel and an
  alert list must catch up with the world after whatever was lost on the way.

Modules and what they compose: `RiskEngine` and `MarketAdapter` run on `JournalFile`;
`SignalPipeline` runs `SignalEngine` and implements `SignalLedger`; `PaperAdapter` wraps
`ExecutionCore`; `Backfill` uses `DataQuality`; `OpsAlerts` uses `SystemHealth`;
`TradingDesk` runs `TradingDecision`, `TradePlan` and `PortfolioIntelligence`. The parts
meet at tables and files: what one writes is nondeterministic input of the next. The MC
modules instantiate several parts at once; where these share nothing but a table, a
behaviour has a `focus`, the part that moves, and the others stand still.

### Properties

A run lists few properties; most are conjunctions of named parts, which the sections
below discuss one by one. Every part has a mutant of its own in `PROJECT.json`.

| Run | Property | Parts |
|---|---|---|
| `control_faults` | `OrderOnlyWhenHealthy`, `ProtectedHasIncident` | |
| | `RecordsExact` | `ResolvedOnlyVerified`, `ProtectionEventsExact` |
| | `RuntimeSettles` (liveness) | `TradingResumes`, `KillStops` |
| `control_reliable_db` | `VerdictEnforced` | `TypeOK`, `ActiveRuleBlocksOrders`, `HealthyClosesIncident` |
| | `StateHolds` | `PersistedStateMatches`, `StoppedIsSticky` |
| `risk_engine` | `ApprovedWithinLimits`, `HaltSurvives` | |
| | `JournalIsTruth` | `TypeOK`, `RecoveredIsLive`, `ApprovedIsDurable` |
| `execution` | `PositionFromEntry`, `ShutdownEnds`, `ExposureNeverGrows` | |
| | `LegalLife` | `AuditIsLegalWalk`, `NoWorkingOrder`, `OnlySubmittableTrades` |
| | `SessionMirrorsCore` | `CoreTypeOK`, `EventsMirrorAudit`, `SubmittedMeansSent`, `ClosedWasReported` |
| `market_adapter` | `LosesAtMostTwo`, `VenueAgrees`, `MarkAgesOut` | |
| | `BooksReconcile` | `TypeOK`, `MirrorReconciles`, `SettleNeverBreaks` |
| | `WithinApproval` | `NeverOvershoots`, `FullFillWithinLimits` |
| | `LedgerSound` | `BooksBalance`, `DrawdownContinuous` |
| | `AllocationSound` | `ArrivalOrderIrrelevant`, `OwnerBacksTheNet` |
| `signal_pipeline` | `ImplementsLedger` (refinement), `CurrentRowStays`, `TableCatchesUp` (liveness) | |
| | `TableIsTrue` | `ReplayNeverMismatches`, `ExecutedWasPersisted` |
| `ingestion` | `BackfillIsSound` | `BackfillIsComplete`, `FailuresAreIsolated` |
| | `FeaturesAreEarned` | `PassedIsEarned`, `SnapshotsAreAdmitted` |
| | `VenueSeesOneClient` | `VenueRateRespected`, `OneConnection` |
| | `NothingLostQuietly` | `LiveTypeOK`, `TradesConserved`, `DrainSettlesTrades`, `LatestIsKept` |
| | `RowsConverge` | `NewestBarWins`, `SnapshotMatchesRow`, `OiDeltasChain` |
| | `LiveSettles` (liveness) | `RecomputeIsReleased`, `StopResolves` |
| `console` | `ActorIsCurrent`, `NoWaitCycle` | |
| | `RegistrySound` | `SingleActive`, `FourEyes`, `DecisionIsWhole` |
| | `LoginsBounded` | `FailuresBounded`, `MemoryBounded`, `CountersExpire` |
| | `DeskHonest` | `ClosedGateDenies`, `SectionsAgree`, `BookAddsUp`, `MirrorsSealedRule`, `ExplanationMatches`, `RiskAsConfigured` |
| `live_views` | `PollingInOrder` | `OneLiveLoad`, `NeverGoesBack` |
| | `StreamExact` | `NoRedelivery`, `NoGap` |
| | `ViewsHonest` | `HealthFailsClosed`, `ViewsAgree`, `AnswersAreComplete` |
| | `ViewsCatchUp` (liveness) | `PanelRecovers`, `FeedCatchesUp`, `AlertsConverge` |

`PROJECT.json` lists the hazards these properties are for, the weightiest of each part.
Further ones the same properties cover: the scope of a backfill that throws after others
were written (`backfill.ts:177`), overlapping tick flushes (`live.ts:437`), a dropped
recompute (`live.ts:371`), the reconnect timer of a failing socket (`deribit.ts:1241`);
a basis rounded on every fill (`position.ts:80`), a refused equity row
(`portfolio-ledger.ts:121`), a journal write that fails after the fill (`stage.ts:321`),
a request that arrives after its lookup (`deribit-order-transport.ts:521`); two writers of
one signal key (`signal/persistence.ts:72`), a tick that breaks off between symbols
(`orchestrator.ts:390`); two approvals that activate at once (`governance-actions.ts:384`),
a counter without an expiry (`login-rate-limit.ts:343`), an entry whose polling ended
(`use-polled-resource.ts:173`).

## Control plane

`ControlPlane.tla` models `packages/control` and `services/workers/src/control`
with the parts of `services/workers/src/index.ts` that boot, tick and gate.

State. `health`, `lag` and `riskActive` are the world the probes see. `kill`,
`dbState`, `incidents` and `events` are the control tables. `lastState`,
`lastActive`, `permission` and `permissionOld` are the fields of the `ControlPlane`
object; `ev` holds the locals of the running `evaluate()`; `pc` says at which await
the worker is.

Actions. `evaluate()` is split at each awaited database call
(`Gather`, `RecordRecovering`, `AuditRecovering`, `VerifyRecovery`,
`ResolveProtectionEventsExcept`, `SyncOpen`, `UpsertProtectionEvent`,
`SyncResolve`, `RecordTransition`, `FinishEvaluation`); a rejected call is
`EvaluateThrows` in a tick and `FatalExit` during boot. Between two awaits the
operators (`EngageKillSwitch`, `ResumeKillSwitch`), the environment
(`HealthChanges`, `StreamAges`, `StreamProduces`, `IncidentCorrupted`), time
(`PermissionAges`) and `Crash` may act. `GateRead` and `GateDecide` are the gate's
live read and decision, `Execute` and `RiskHalt` what happens to an approved
proposal.

Abstractions. A lag is its band against the warning and stale thresholds. The age of
a snapshot is one bit. A protection rule is named by its component, as in the code
each component has one rule. Audit rows are not kept, but a failing audit write
fails the step.

Runs (bounds: two or three components, at most two open incidents; two components
suffice for a rule that appears while another is being recovered, two incidents for
a corrupt row under a readable one):

| Run | Result | Shows |
|---|---|---|
| `control_faults` | pass | database failures at every await, crashes, corrupt rows: an approved order implies HEALTHY, armed and a kill switch read as off; protected runtimes have an OPEN incident; incidents are closed only when verified; protection events are exact; nominal surroundings lead back to trading, an engaged kill switch to STOPPED |
| `control_reliable_db` | pass | with a reliable database and no crash: active rules block orders, HEALTHY closes incidents, the persisted state is the enforced one, STOPPED is left only by a resume |
| `control_stop_not_sticky` | violation | a failed kill-switch read leaves STOPPED |

The passing runs state under which conditions the properties hold; relaxing the
conditions shows where the code stops guaranteeing them:

- `PersistedStateMatches` with `ProbeResults <- FaultyInfra`: a transition row whose
  audit write fails is never corrected (`evaluator.ts:328`).
- `HealthyClosesIncident` with `Crashes = TRUE`: a restarted worker goes from STARTING
  to HEALTHY and leaves the previous process's incident OPEN (`evaluator.ts:287`).
- `Nominal`, the premise of `TradingResumes`, asks for a recent execution when an OPEN
  incident names execution: such an incident survives a restart, the next one reuses it,
  and its recovery waits for an execution that cannot come (`recovery.ts:82`). Only an
  operator's resume ends that.
- `ActiveRuleBlocksOrders` with a failing database: an evaluation that found an active
  rule is abandoned at the failed statement, `tick()` logs it, and the gate approves on
  the previous ALLOWED snapshot until it ages (against "any active protection
  rule → PROTECTED (trading blocked)", `packages/control/src/state-machine.ts:9`).
- `TradingResumes` without `lag["execution"]` in `Nominal`: only a fill refreshes the
  execution marker, and a stale marker blocks every order (`index.ts:521`).
- The components verified before HEALTHY are those of the incident row and of the last
  completed evaluation; one that tripped in between can drop out (`evaluator.ts:176`).

Fairness (`FairSpec`). `setInterval` keeps firing and every probe and query has a
timeout, so worker steps are weakly fair; a tick has finitely many proposals, so
`EndTick` is strongly fair. Nothing is assumed of operators, fills, faults, crashes.

Proofs (`ControlDeskProofs.tla`), for all sets of components, all probe results and
any number of incidents, from the assumptions that `database` is probed, `execution`
is a stream and `risk` is neither:
`TypeCorrect`, `OrderSafety`, `IncidentVisible`, and `RecordsAreExact` from
`ResolutionVerified` and `EventsExact`. None of the properties is inductive. `IInv` adds what each
cached value still guarantees at the await that uses it: a snapshot says ALLOWED
only while memory says HEALTHY (`AllowedIsHealthy`, which holds because RECOVERING
is only ever entered from PROTECTED, `RecoveringFromProtected`); `prev` is the state
in memory (`PrevIsLast`); PROTECTED is never left directly
(`VerifiedFromRecovering`), so an incident is not closed under a protected runtime;
an incident is open before the transition to PROTECTED commits
(`OpenedBeforeCommit`); the verified set still covers the row when it is closed
(`VerifiedCoversIncident`).

`VerdictIsEnforced` and `StateIsHeld` prove the properties of `control_reliable_db`.
Their hypothesis, `ReliableSurroundings`, is what that run's constants say: the database
probe does not fail, the read of the kill switch is not lost, the process does not crash.
Without it they are false of the code, not only unproved: a failed write leaves row and
memory apart, a restart forgets which incident it had opened, a lost read counts as
"disengaged". Components, streams and operators remain unrestricted. The invariant
(`ReliableInv`) follows an evaluation through its awaits: which state is in the table at
each of them (`CompletesInv`), and that the incident still open is the one about to be
closed (`ClosedInv`). The liveness properties, which need fairness, are only
model-checked.

## Risk engine

`RiskGate.tla` is the pure part of `services/workers/src/risk`: capital snapshot,
triggers, projection of an order, pre-trade checks. `JournalFile.tla` is the
JSON-lines file both journals use. `RiskEngine.tla` is the engine on its journal.

State. `file` is the sequence of lines, each with the record it parses to and whether
it ends with a newline; `nextSeq` is the store's cached sequence number; `state` is
the live fold of the records; `op` and `todo` are the running operation and the
records it still has to append; `book` and `equity` belong to the market adapter.
`halted` is a history variable: what kind of halt was engaged since the last reset.

Actions. `Recover` and `RecoverHalted` (the journal cannot be read) are the boot;
`Evaluate` decides; every append is a step (`AppendAndFold`) that may be rejected
(`AppendRejected`), leaving nothing, a piece or all but the newline in the file, or
be cut short by `Crash`. `Fill` and `NotFilled` are the adapter's answers.

Abstractions. Money is an integer number of units, `Cent` of them to a cent, and
concentration a number of steps, `Ratio` of them to 1: what the code rounds with `toFixed`
the model rounds with `quantize`, at the same places (gross exposure, used and required
margin, gross after, concentration, quantity). Other ratios are compared by
cross-multiplication, equity 0 stands for any non-positive equity, and the error of
binary doubles is left out. A fill takes the quantity and price the gate saw. A record keeps its sequence number, type,
trigger and equity. Only the sizing mode the worker uses is modelled.

| Run | Result | Shows |
|---|---|---|
| `risk_engine` | pass | an approved order leaves the whole book, computed from scratch, within every limit but for what rounding hides; while the journal is intact its PASS is in what a restart reads and a restart recovers the live state; appends torn at any point, a completed halt holds in every later process until a reset |
| `risk_unjournaled_halt` | violation | after a halt whose journaling fails and a restart, an order is approved and nobody reset the halt |

Bounds. A behaviour varies either the book (two symbols, every size and price, an intact
journal) or the journal (one kind of order, appends torn at will). Four lines hold a torn
line, a full three-record halt, and a line after it when the first record is glued. With
the code's defaults (account leverage 1, limit 3) margin binds before leverage; the
instance has account leverage 2 and limit 3 for the same order. A cent is two units and a
price may be three, so a position can end on half a cent: the run does reach approved
orders over the exact margin and the exact concentration limit.

What rounding hides. `gate.ts:79` compares a concentration of six decimals and
`gate.ts:113-115` sums and margins of two, so an order can be approved over its exact
limit (equity 1,000,000.00, limit 0.6: a target of 600,000.01 has concentration 0.600000).
`ApprovedWithinLimits` states how far: less than a cent of gross exposure (two roundings
of half a cent), less than a cent of margin, half a step of concentration. The book after
the fill may also trip the leverage trigger at once, since the quantity is rounded too.

The violation. The account is the market adapter's, whose journal is optional
(`MARKET_JOURNAL_PATH`, `index.ts:196`; `ci/seal-phase8-runtime.ts:191` sets the risk journal
alone): without it a restart opens a fresh account (`OpenAccount`). In the trace a loss
trips a halt, its append is rejected, the process restarts, the fresh account shows no
loss, and the next order is approved. `engine.ts:15-16` says that such a halt holds in
memory, which is true of the process (`HaltSurvives`); `kill-switch.ts:6` and
`recovery.ts:15` say that it survives a restart.

Worth knowing: the equity the triggers see is valued at the price of the last fill of each
symbol (`position.ts:96`; nothing else sets a mark), so a drawdown of a position that is
not traded trips nothing, although `market/stage.ts:148` speaks of "the current marks".

Why `HaltSurvives` holds although a torn line swallows the record that follows it: a
completed halt is two engaging records, and at most one acknowledged record can be
swallowed before the journal has an unreadable line in its middle, which starts the
engine halted.

Proofs (`RiskEngineProofs`, on `CommonProofs`), for any symbols, limits, leverage,
proposals and faults, and journals of any length, from `LimitsAssumption` (natural
numbers, no zero denominators, finitely many symbols, any cent and ratio step) and `RiskAssumption`: `HaltIsKept`,
`JournalIsTrusted` and `ApprovedFits`, from one inductive invariant, `EngineInv`, which TLC
checked first. Its parts:

- `FileInv`: the journal is intact, torn in its last line or broken for good (`Shape`), and
  a process that appends to it numbers its next record by its length, unless an intact last
  line was left without its newline (`InStep`); a process on the memory store has a broken
  journal behind it.
- `OpInv`: what the running operation still has to write. The last record of a halt is
  written to a file that ends with a newline, because the one before it was.
- `HaltInv`: after a completed halt the file ends with an engaging record or is broken
  (`HoldsHalt`), and stays so, because a halted engine appends nothing but a reset.
- `TruthInv`: the live state is the fold of what can be read; a halt only in memory differs
  from it in nothing else, so a reset brings the two together again.
- `GateInv`: book and equity do not move between the check and the fill. That the checks
  imply the limits is `PassedIsWithin`, from the error of one rounding (`QuantizeIs`).

Two facts about recursive definitions are proved by the search for a least counterexample:
the fold of the journal exists, does not depend on what follows and takes one more record
by one more step (`FoldOfOneMore`); the library's sum over a book exists, does not depend
on the order of summation and changes by the change of one position (`SumChange`). The
second is why the gate's incremental projection, gross exposure less the old position plus
the new one, bounds the book that results.

## Execution core and execution adapter

`ExecutionCore.tla` is `packages/execution-core`: every command of `reduceExecution` is
an operator from a state to a result `[ok, state]`, as in the code, and `CoreNext` is
any accepted command. `PaperAdapter.tla` is `packages/execution-adapter`: the session
(`kind`, `health`, `submitted`, `events`) around an execution, one action per method
of the paper adapter; the null adapter refuses everything but a shutdown. `base` is a
history variable: how long the audit was when the session began.

Abstractions. Quantities are integers in the unit the code rounds to (1e-8). Prices,
ids, clocks and the sign of the direction are left out; an order's fills are their
sum. STOP and TARGET are treated alike, as the reducer does. `replace` is always
refused, `status` and `health` only read.

| Run | Result | Shows |
|---|---|---|
| `execution` | pass | commands in any order: the audit is a legal walk, exits leave no order working, the position is the filled entry less what was closed, blocked plans never trade; behind the adapter: the event log mirrors the audit, a submit happens once, a shutdown ends the execution, exposure never grows |

Bounds. An audit of 12 events holds a full life (plan, arm, submit, acknowledge, two
entry fills, open) with five further events; plans have one or three targets, a size
that splits evenly or not, zero, or none. Deadlock is not checked because executions
end.

Proofs (`ExecutionProofs`), for every set of intents and quantities and audits of any
length. Of the core: `WalkIsLegal`, `NoOrderLeftWorking` and `GatesHold`, together
`LifeIsLegal`, and `PositionSound`. The invariant `Good` adds three facts to the properties: until the first
fill every order is in step with the execution (`InStep`), so the exits that skip an
order that may not move skip none; before OPEN there is no position
(`NoEarlyPosition`), so a fill of the entry cannot change what an open position was
built from; what is not submittable never leaves PLANNED except to end (`Held`). There
is one lemma per command. The adapter's two-command methods reuse these lemmas: `AdapterPositionSound`, `ShutdownIsFinal` and `ExposureShrinks`.
The latter does not hold of the core alone: OPEN is legal from REDUCING
(`state.ts:62`) and rebuilds the position from the whole entry. The adapter is what
rules it out, since it opens only after the fill that completes the entry. TLC shows
the difference when `ExposureNeverGrows` is checked under `CoreSpec`.

`SessionIsFaithful` proves `SessionMirrorsCore`. That the log mirrors the audit is stated by
counting: the i-th audit event that crosses the venue boundary is in the log at the
place given by the number of such events up to it, and the log has no others. It
survives an event that is logged and one that is silent (`MirrorGrows`), and a method is
one or two of these. What was closed is the smaller of the entry and of what the
protective orders report together, also when one fill exceeds what remains; the
invariant `SessionInv` adds that they report nothing before there is a position.

Worth knowing, and within the properties: FAILED leaves a position open and the
execution terminal; an execution CLOSED by fills leaves its other orders working; a
cancel during a partial fill leaves a filled entry without a position; a fill larger
than its protective order, or reported twice, closes the position by the quantity
reported (`state.ts:512`) while the order itself is clamped (`orders.ts:100`).

## Market adapter and execution stage

`OrderStream.tla` holds the pure part of `services/workers/src/market`: the event
streams of the three brokers, `buildEvents` of the Deribit transport, and `reduceOrder`
as a fold whose `sound` field is FALSE once the code would have thrown.
`MarketAdapter.tla` is `MarketExecutionAdapter.execute` behind `runExecutionStage`, on
the journal of `JournalFile`. `QuoteTransport.tla` is the poller its quotes come from,
`AccountLedger.tla` its account and equity ledger, `Allocation.tla` the netting of a
tick's decisions in front of it.

State. `positions` is the MarketState (net quantity and mark per symbol), `mirror` the
adapter's portfolio mirror, `portfolio` the stage's own PortfolioState; `file` and
`nextSeq` the journal and the cached sequence number; `intent`, `order`, `answer` and
`events` the execution in progress; `venue` the orders the venue has executed and `late`
a request still in the network. `committed`, `lost`, `mine` and `suspect` are history
variables: what was committed, how much of it restarts did not bring back, which venue
order belongs to the running request, and whether one of the listed exceptions occurred.

Actions. `Recover` and `RecoverUnarmed` are the two outcomes of `buildExecution`;
`Decide` is a new intent, repeated by every tick until the next one (its id does not
depend on the tick); `NoOp`, `PlacePaper`, `PlaceSimulated` and `PlaceReal` take it
through gate, quote and delta. The transport's calls are steps of their own: the order
request (`VenueAnswers`, `VenueRefuses`, `Ambiguous...`), the label lookup
(`Lookup...`), the cancel of an open order, and the construction of the stream.
`Settle` folds the stream and reconciles, `AppendCommits` and `AppendRejected` are the
journal write and what follows it, `Crash` may strike anywhere. Venue and network
(`Executions`, `LateArrives`, `VenueFillsOpen`, `AmbiguousDelayed`) are external.

Abstractions. Quantities, prices and notionals are integers with every notional a
multiple of every price, so the code's tolerances are exact comparisons. Profit and cash
are left out of `MarketAdapter`, where nothing reads them, and are the subject of
`AccountLedger`, with prices and money rounded at their two precisions as in the code. The hash that
drives `SimulatedBroker` is an open choice. An intent that is refused before it
reaches the broker (no quote, risk limits, less than one lot) changes nothing and is no
step. The control gate and the risk engine stand in front of this path and are modelled
on their own.

| Run | Result | Shows |
|---|---|---|
| `market_adapter` | pass | paper broker, two symbols and two strategies, torn appends and restarts: positions, mirror and portfolio agree whenever execution is armed; at most two committed executions are lost over all restarts; a full fill at the quoted price stays within the limits |
| | | simulated and real broker: no stream a broker returns is refused and no fill fails to reconcile; the adapter's positions are the venue's; no commit passes the approved target |
| | | quotes: a mark ages out against the newest poll that came in (`MarkAgesOut`) |
| | | account: equity is what the fills earned and cost, within rounding (`BooksBalance`); drawdown is continuous across restarts (`DrawdownContinuous`) |
| | | decisions: proposals do not depend on the order of arrival, and the owner of a position backed it (`ArrivalOrderIrrelevant`, `OwnerBacksTheNet`) |

Bounds. Three journal lines and three intents hold a torn line, the line glued to it and
one after it, with a symbol that changes hands between strategies. Two venue orders and
two intents hold a rejected order repeated under the same label, and a late request
beside the order that replaced it. Lots of 2 against targets of 1 and 2 leave a
remainder; `MaxOverfill` 1 lets the venue exceed an order. The brokers with a
venue have one symbol and one strategy. Two overlapping polls over two symbols suffice
for one to undo the other; three fills hold an open, an add and a flip, two rows a high
and a fall after a restart; three decisions a tie and an opponent. Deadlock is checked:
the process can always crash or recover, and the end of the quote clock stutters.

The label lookup is two calls, the order's state (`LookupFinds`) and then its trades
(`LookupTrades`), and the order may fill in between: the trades are read after the state
and therefore hold at least what the state reported.

`VenueAgrees` names its exceptions through `suspect`, which these steps set: a lookup
that fails at either call, whose trades are missing and parsed as none (`LookupUnread`), or reports an earlier order that carries the same label
(`recoverByLabel` takes the first one); a request that arrives after the lookup found
nothing (the code comments this case "Safe to fail closed — nothing executed"); a fill
that races the cancel of an open order, or a cancel that fails; an overfill; a journal
write that fails after the fill; a crash in the middle of an execution; a restart that
reads fewer records than were committed. Two of them the code reports for manual
reconciliation, the others pass silently.

Worth knowing, and within the properties. A no-op is FILLED and moves the symbol to the
intent's strategy in memory, but is not journaled: after a restart the previous owner is
back.
The same glue that loses two executions here makes an approval of the
risk engine unreadable: after one torn append the next PASS record is appended to the
torn line (`risk/events.ts:184`, against "A PASS must be durably recorded BEFORE we
approve", `risk/engine.ts:155`); `ApprovedIsDurable` is therefore about an intact journal.

Quotes and ledger. While the database refuses every poll the last mark is served without
bound, against "rather than trading on it indefinitely" in the header of
`db-quote-transport.ts`; `MarkAgesOut` counts from the newest poll that was answered. An
overlapping older poll can put an older mark back, by at most one latency. A snapshot row
that is refused leaves the raised peak in memory only: rows after it measure against a
peak the series does not show, and a restart forgets it. A fill enters `AccountLedger` when
its record is readable: recovery folds the same records by the same function, compares
each with the snapshot written beside it and throws on a difference, so `Restart` leaves
book and account as they are; executions whose lines are lost are the subject of
`LosesAtMostTwo`. The update half of the ledger's
upsert is not reached, since every tick has its own timestamp.

Proofs (`MarketAdapterProofs`, on `CommonProofs`), for every value of the constants,
journals and venues of any length. They use `MarketAssumption`: prices and the lot are
positive numbers, every notional a multiple of every price (see above), the limits
numbers, the symbols finitely many (the sum of their
exposures is meaningless otherwise; the code keeps them in a `Map`), and a failed append
leaves less than a line.

`CommonProofs` has the lemmas about the file: an append is nothing, is glued to an
unterminated line (which then never parses), or is a line of its own; an intact journal is
read in full, a torn last line is dropped, a line that does not parse before the last one
makes the journal unreadable for good. It also has the lemmas about the library's folds.
`FoldLeft` and `MapThenSumSet` unfold to a recursive function on the subsets that are left
to fold. That this function exists is shown by a least counterexample; from then on a fold
is a run of steps (`FoldRuns`), and a sum may take its summands in any order (`SumFacts`,
`SumMoves`).

- `LossIsBounded` (`LosesAtMostTwo`). The property is not inductive: it does not say how
  many more executions can still be lost. The invariant `JournalInv` adds that. An intact
  journal has lost nothing and is at most one line ahead of the commits; a journal with a
  torn last line has lost at most one execution while that line has no newline, because
  only then can another commit be glued to it, and at most two otherwise; a running process
  numbers its next record by what it committed.
- `BooksAlwaysReconcile` (`BooksReconcile`), from `BooksInv`. Two things are missing in the
  property. What an order on its way is (`FlightOK`): the order derived from an intent the
  gate approved, on books that do not move until it is settled. What a broker has returned
  (`ReportOK`): for some list of trades that does not exceed the order, exactly the events
  of those trades, or a refusal without trades. Each of the three brokers is shown to
  return such a report (`PaperReports`, `SimulatedReports`, `TransportReports`); every such
  report is accepted by `reduceOrder` and its fills are the trades (`ReportedIs`); the
  fills move the position by what was traded (`PositionAfter`).
- `StaysWithinApproval` (`WithinApproval`), from `BooksInv` and the sums: a result changes
  `grossExposure` and `byStrategy` by the difference of two exposures (`ResultMoves`), so a
  full fill at the quote leaves what `projectExposure` added when the gate looked.
- `VenueAlwaysAgrees` (`VenueAgrees`), from `VenueInv` = `BooksInv`, `JournalInv` and
  `VenueOK`. The agreement holds only between orders, so the invariant says by how much
  the two differ during one: the positions and the trades of the order that is outstanding
  make up the venue's net (`NetOK`); the answer the process works on reports that order
  (`RequestOK`); the positions are what recovery would rebuild from the commits
  (`Rebuilt`); and while the process is down, what a restart would read from the file leads
  to the venue's net, unless that file is shorter than the commits (`DownOK`), for which an
  intact file of a live process has to hold no record that was not committed (`Flushed`).
- `LedgerIsSound` (`LedgerSound`), for `AccountLedger` on its own (`LedgerSpec`), from
  `LedgerInv`. The marks cancel: what is to be bounded is the cash the fills left against
  the cash there is and the cost of what is held (`CostsBalance`), and a fill changes that by
  its rounding only, whether it opens, adds, reduces, closes or flips (`FillMoves`). Cash
  and realized profit are whole cents (`WholeCents`), so the account follows the positions
  exactly. For the drawdowns the peak in memory is at least that of the series and equal to
  it while no row was refused (`PeakKept`), and a higher peak never makes a drawdown smaller
  (`DrawdownGrows`, where the rounded quotients are compared). `LedgerAssumption`: finitely many
  symbols, natural prices, positive quantities, a positive opening cash in whole cents.
- `MarksAgeOut` (`MarkAgesOut`), for `QuoteTransport` on its own (`QuoteSpec`). The property
  speaks of the newest poll that came in for a symbol and says nothing of the polls under
  way, so it is not inductive. The invariant follows every poll: while none was refused,
  the one of instant `i * PollEvery` has come in for the n-th symbol, or is still under way
  at one not after it and has had no more than one latency per symbol it has passed.
  `QuoteAssumption` asks that the symbols are a non-empty sequence without repetition, as
  the code's default list is.
- `AllocationIsFair` (`AllocationSound`), for `Allocation` on its own (`AllocSpec`), for ticks
  of any length. `compareContribution` is a strict total order on contributions
  (`TotalOrder`: the five keys determine the contribution), so the stable sort of the code
  gives every contributor the place of its rank (`PlacesFilled`), and two sorted lists of
  the same contributions are equal (`OneSortedList`, by counting what comes before a
  place). A permutation of the decisions only renumbers the contributors
  (`SameContributions`). For the owner the net is followed along the list: on either side
  it never exceeds what that side staked so far (`NetIsBacked`), so a net outside the
  deadband has a backer, which is what "find always resolves" (`portfolio.ts:203`) relies
  on, and the first one in the list staked most. `AllocationAssumption`: ranks, capital and
  confidences are natural numbers.
## Signal pipeline and decision bus

`SignalEngine.tla` is the pure part of `services/workers/src/signal` and of the decision
layer: the frozen rule, lineage and admission checks, the floor strategies, and the
replay of a stored row. `SignalPipeline.tla` is the tick of `pipeline/orchestrator.ts`
between its two sources (feature snapshots, which the bridge revises in place, and
strategy versions, of which governance activates one) and the `EngineSignal` table at
the far end of the bus. `SignalLedger.tla` is what the table promises a reader: a row is
the verdict of the rule on some content its snapshot really had, under the version it
names; rows are never mixtures and never deleted.

State. The feature store and the versions; the tick's worklist and position; messages
in flight, per backend; the table. `past` is a history variable: every content a
snapshot has had, the reference of the ledger.

Actions. A tick scans, takes one snapshot at a time, generates, decides, publishes and,
with execution armed, hands the decisions on. In process, publication waits for the
subscriber; under Redis and BullMQ it resolves when the message is handed over. A Redis
broadcast before the subscription is lost, a BullMQ job is spent when its handler fails.
The worker of BullMQ takes one job at a time, in order; a job that is active when the
process dies or exits without `worker.close()` (`index.ts:587`) is redelivered as stalled,
once, and by then newer jobs may have run (`CrashMidJob`, `Stalled`). A message is `Late`
once one behind it was handled first: a stalled job, or any Redis message. Writes fail or lose the race for the unique key, the process crashes anywhere.

Refinement. `ImplementsLedger` maps the table to the ledger's rows and is checked by TLC
and proved in `SignalPipelineProofs` for every set of symbols, contents, versions and
backends: initial states map to initial states, and each action is a generation written
whole or a stutter. The invariant needed says that whatever is on its way (the worklist,
the message being built, every message in flight) is one generation of a content in
`past` (`PipelineInvariant`, from which `PipelineImplementsLedger` follows).
The instance names its mapping: the table is `rows`, what was held is `past`.

Also proved there: `TableIsTrusted` (a stored row replays to itself, and in process
nothing is executed before its row is written), and `CurrentRowIsKept`, for all three
backends, from an invariant about what may follow what (`InOrder`): once the row is of
the current content, so is every message that is not late, and the worklist; once a
message is, so is everything behind it; and outside Redis only a stalled job is late. `PipelineAssumption` says what
the tables guarantee: a version is known by its id, and reports are only ever created, so
a report id names one report and a content is known by its features and report.
`TableCatchesUp` needs fairness and is only model-checked.

Run `signal_pipeline` (two symbols, one timestamp, two changes of the world, one fault,
two messages in flight). Two symbols let one snapshot change while the other is
processed; one fault at every possible point is what the ticks have to repair. Fairness:
`setInterval` keeps ticking and every statement is answered or fails, so the steps of a
tick and of a delivery are weakly fair; nothing is assumed of losses or changes.
`TableCatchesUp` then says that once the world stands still the active version has its
row for every current snapshot. `CurrentRowStays` says what can replace the row of the
current content by an older one: in process nothing, under BullMQ only a job that was
redelivered as stalled behind a newer one, under Redis only a message that another one
overtook. The next tick repairs it.

Worth knowing. Under Redis and BullMQ `publish` resolves before the row is written, so
"The stage runs strictly downstream of persistence" (`orchestrator.ts:91`) holds in
process only; `ExecutedWasPersisted` is stated for that backend. BullMQ jobs are added
without `attempts`, so a failed handler is not retried, although `index.ts` speaks of
"at-least-once retry semantics"; it is the next tick that repairs the table. The scan
takes the 200 newest rows over all symbols, so a quiet symbol can drop out
(`orchestrator.ts:216`); the instance does not reach that limit.

## Ingestion and data quality

| Module | Source | What it models |
|---|---|---|
| `DataQuality` | `services/ingestion/src/dq`, the quant endpoints it calls | checks, deductions and verdict of stage A and stage B, and what the feature endpoint refuses |
| `VenueRest` | the REST plumbing of both connectors | spacing of requests, retries with backoff, concurrent callers |
| `Backfill` | `pipeline/backfill.ts`, `features/bridge.ts`, pagination of the connectors | scopes one after another, pages, upserts, gateway, feature snapshot |
| `LiveIngestion` | `pipeline/live.ts`, `streamLive` | socket with watchdog and reconnection, tick and quote flushes, candle writes, recomputes, open interest, shutdown |
| `IngestionDaemon` | `index.ts` | the REST client and the live feed side by side, as the venue meets them |

One event loop: a step goes from one await to the next and any other handler may run in
between. Trades, quotes and versions of a bar are numbered as they arrive; a candle is
its time and whether its numbers are sound. A backfill window may lie off the grid, as
`index.ts:34` computes it.

Run `ingestion`. `MCIngestion` moves one part at a time (its `focus`), because the parts
share only tables. Bounds: short windows of up to four bars with pages of two, so
there are seams, and one of 25 bars, the smallest in which one missing bar is 4 %; two
retries; two trades, quotes, bars and versions, a flush run
that overlaps the final one, two runs of `pollFlow` (`FlowPolls`). Deadlock is not checked: a shut down daemon has stopped.

Fairness. The database answers or fails and every request has a timeout, so writes,
requests and computations in progress end; nothing is assumed of what arrives. Under it
a `recomputing` flag is always released and `stop()` resolves.

What the properties do and do not say:

- `BackfillIsComplete`: nothing is missing when the window starts on the grid. Off the
  grid `fetchCandles` can drop one bar at the end of every full page, and no more
  (`binance.ts:339`, `deribit.ts:598`): at the seam to the next page, unless the venue
  returns the bar containing a page's start, and after the last page in any case, as with
  the window 1..4, a timeframe of 2 and pages of two bars.
- `TradesConserved`: every trade is buffered, in exactly one running insert, stored, or in an
  insert that failed. `DrainSettlesTrades`: when `stop()` resolves nothing received before
  it is left in the buffer; inserts of other flushes still in flight are not waited for, against "Final drain so nothing buffered is
  lost" (`live.ts:498`).
- `LatestIsKept`: `flushQuotes` clears the map after its awaits (`live.ts:470`), so a
  quote that arrives after its symbol was visited is gone until the symbol's next one.
  The property says that this is the only way to lose one, and that funding has none.
- `NewestBarWins` excepts a bar of which two writes were in flight together: nothing
  orders the upserts of a forming Deribit bar, so an older version can be written last.
  `SnapshotMatchesRow` excepts a request that fell on `recomputing` after the window was
  read: the snapshot can then be of a version before the final one.
- `OiDeltasChain`: `pollFlow` fetches, looks up the prior row and writes in three awaits,
  and `setInterval` does not wait for the run before (`live.ts:482`). A run that began
  before another one wrote can take its delta against a row that is no longer the prior
  one, or write rows out of order. The deltas chain until such a run writes (`oiRaced`),
  whichever runs fail or start over.
- After an outage the missing bars are not fetched: warm-up goes by count (`< 201`), and
  the gateway then fails the window while more than 4 % of it is missing.
- Stage A admits a price of 0, which the feature endpoint refuses. The gap deduction is
  modelled by the exact quotient.

Proofs (`IngestionProofs`), for any symbols, callers, retries and interleavings at the
awaits, from the assumptions that callers are finitely many, the rate interval is positive
and the configured symbols are a sequence.

- `OneClient`. A slot is handed out by `throttle()` and used by one request, possibly much
  later. `RestInv` counts slots instead of requests: those due by a time that is not past
  are never more than it has room for, so a request, which only uses up its slot, changes
  no count. The connection half is the invariant `SocketInv`: a socket and a reconnect
  timer exclude each other.
- `NothingIsLost`, `RowsSettle` and `FeedIsSound`, the inductive invariant `LiveInv`
  behind them. Its parts follow one kind of data each: every trade is in exactly one place
  and flush runs hold disjoint batches (`TickInv`, `DrainInv`); a quote that a run has
  passed is in the map, stored, or recorded as cleared (`QuoteInv`); writes in flight are
  of versions delivered, the newest of them ends up in the row unless two overlapped
  (`CandleTypeOK`, `WritesInv`); a window that was read is not older than the row a
  snapshot must match (`SnapInv`); a delta is taken against the last stored reading
  (`OiInv`). TLC checked `LiveInv` before it was proved.

- `BackfillLosesNothing`, from the assumption that a venue's bars lie on the grid, finitely
  many and one per time. `PagesInv` says what n pages have fetched: every bar before the
  cursor but for bars on the seams, multiples of the page length past the first bar at or
  before the window, and of a venue that returns the bar containing a page's start only
  the last seam. A bar between two pages is a multiple of the grid less than a grid from
  the seam, so it is the seam; missed bars map to their seams one to one, which bounds
  their number. `FailuresInv` accounts for every candle scope: still to do, reported, or
  failed.
- `FeaturesEarned`, for batches and windows of any length. The sum of the deductions is no
  less than any of them, so a PASSED batch has no deduction above ten. The pass of
  `detectCandleGaps` keeps closed gaps plus the open run equal to the expected bars seen
  without a candle, and the expected bars are the grid points of the window, each once;
  hence a gap deduction of at most ten bounds the bars missing. `FeaturesInv` adds that
  rows are only added, that a report lists the batch in the order of its times, and that
  a snapshot is the tail of a PASSED report.

Only model-checked: `LiveSettles`, which needs fairness.

Not modelled: the mapping of venue messages to rows field by field, and the writers of
option chains and order books, which upsert what they are given.

## Web console

`MCWeb` composes the modules below; a behaviour has one `focus`, the part that moves.

| Module | Source | What it models |
|---|---|---|
| `Governance` | `lib/governance-actions.ts` | register, review, activate, retire as interactive transactions at READ COMMITTED, with row locks and the unique index on the active version |
| `WebAuth` | login and logout routes, `login-rate-limit.ts`, `session.ts`, `middleware.ts` | concurrent logins, failure counters in Redis or memory, sessions across restarts and token changes |
| `PolledResource` | `use-polled-resource.ts` | the shared registry entry of a URL: timer, request in flight, backoff |
| `SignalStream` | `signals/stream/route.ts`, `lib/signals.ts`, `signal-feed.tsx` | cursor, backlog, reconnection, merge |
| `SystemHealth`, `OpsAlerts` | `system-health.ts`, `ops.ts`, `ops-freshness.ts`, `ops-alerts.ts` | health, freshness and alert rules as functions of the observed world; the alert table under overlapping GETs |
| `TradingDecision`, `TradePlan`, `PortfolioIntelligence`, `TradingDesk` | the three engine packages and `lib/trading-decision.ts`, `trade-plan.ts`, `portfolio.ts` | next section |

Runs.

| Run | Result | Shows |
|---|---|---|
| `console` | pass | one active version per strategy, four eyes, no half of an approval, no wait cycle among transactions; failures and buckets bounded, counters expire, the session's actor is current; the desk |
| `live_views` | pass | one live load per URL, a panel never goes back in time and recovers; the feed neither repeats nor skips and catches up; once the world settles the ACTIVE alerts are the firing rules; a healthy verdict is never rounded up and the views agree |
| `governance_review` | violation | two reviews that both read PENDING both commit |

Bounds. Two transactions, two versions and three operators (one a demo actor) are the
smallest setting in which reviews race; two login requests from two clients against
limits of one and two; two panels and two loads; four rows with pages of two, so the
stream has a page boundary and a reconnection on either side of it; two overlapping
GETs. Deadlock is not checked, because the bounded clocks and counters end behaviours;
`NoWaitCycle` states the absence of database deadlock itself.

Fairness. A started request is answered or aborted by its timeout, timers run out, an
open stream is served and read, and the alert panel goes on asking. That server, database
or connection stay up is not assumed but a premise of the liveness properties.

Proofs (`ConsoleProofs`), for any number of panels, requests, operators, strategies and
open transactions.

- `PanelsNeverGoBack`: a load that was not aborted is the one the entry holds, so starting
  another aborts it; hence one load is live, and nothing was applied since it started that
  its answer could be older than (`PollInv`).
- `OnlyCurrentOperatorsAct`: the middleware's verdict is not carried over; the handler
  takes the session up again, and only what it then verifies is acted on.
- `LimiterHolds`: a count alone is not inductive, since requests that were admitted have
  still to record their failure. The invariant counts both: for every bucket of a store,
  what was admitted and recorded there, plus the requests this store has admitted and
  that have not settled, is at most the limit and the overlap. Expiry and eviction only
  take away. `AuthAssumption` asks for a finite, non-empty set of requests and for a
  global key that is no client's, as the prefixes of the code guarantee.
- `RegistryIsSound`: the tables alone are not inductive under READ COMMITTED. `GovInv` says
  where each open transaction stands and what it has written (`TxOK`), and that two of
  them have written different rows and activated versions of different strategies
  (`Apart`), so what the unique index found at the activation still holds at the commit.
- `StreamDeliversExactly`: what lies behind the browser's cursor was seen, what lies
  between its cursor and the server's is on the wire in ascending order, and the page the
  server has read takes up where the wire ends (`StreamInv`). A break drops the wire and
  sets the server back to the browser's cursor, so both halves survive it. Only rows that
  were committed late may be missing from all three.
- `ViewsAreHonest`: what the views say of one world is arithmetic over their thresholds,
  with lemmas for the least age (`NewestIs`) and the worst of a set (`WorstIs`). That an
  answer is complete is not inductive alone: `OpsInv` follows every request, whose firing
  rules are still to be written, in the table, or excused because an overlapping request
  that saw them quiet resolved them, and whose list to resolve holds none of them.
  `OpsAssumption` gives the observed worlds their type and nothing else. With the database
  down health is critical and the other views reject, as the code does; nothing is claimed
  of a view that gives no answer.

Only model-checked: `NoWaitCycle` (it says which steps are ENABLED), `ReviewsImmutable`
(which the code violates, run `governance_review`), and the liveness of the views.

Worth knowing, and outside the properties as stated:

- Governance. The race of `governance_review` also leads from RETIRED back to ACTIVE, to
  a REJECTED approval beside an ACTIVE version, and to audit rows whose `before` is not
  what was there. Two racing registrations end in an unhandled P2002 (a 500).
- Login. A failure that Redis admitted (GET) and memory recorded (EVAL refused) counts
  where nobody looks: while that lasts the limit is never reached, against "never go
  unbounded" (`login-rate-limit.ts:42`). `FailuresBounded` is per store and leaves such
  failures out.
- Signal stream. Rows that commit out of `(createdAt, id)` order are skipped, against
  "never skipped" (`lib/signals.ts:99`); `NoGap` and `FeedCatchesUp` except them. After
  a failed backlog read a fresh client is sent the whole history. An interval created
  after an abort during that read is not cleared (`route.ts:124`).
- Alerts. `getSystemHealth` and `getDataFlowMonitor` are awaited outside the try
  (`ops-alerts.ts:133`), and the latter rejects when the database is down: the panel gets
  a 500 and `db.unreachable` is never reported, against "DEGRADES GRACEFULLY"
  (`ops-alerts.ts:21`). `getOpsPipeline` rejects likewise, so the failing persistence
  stage cannot be shown. The feature alert fires at 60 s, the view says stale at 180 s.
  A stream that never produced raises no alert. A GET that sees a rule fire can answer
  RESOLVED when an older GET overlaps it.

Not modelled: `getRuntimeMetrics`, `executeAction` (a probe, a marker in memory or a log
line) and the pages.

## Trading desk and its engines

`TradingDecision`, `TradePlan` and `PortfolioIntelligence` are the three packages as
operators: rule mirror, consensus, levels, sizing, scores, verdict and status ladders,
ranking; checklists, readiness, invalidation; exposure, concentration, heat, warnings,
health. `TradingDesk` is one request of the web that reads rows, gates and marks by
overlapping queries and runs the engines on what came in.

Abstractions. Confidence, prices and scores are integers at the precision the code
rounds to; notes, wording and provenance tags are left out. Concentration shares are
rounded to 0.1 % to stay within TLC's integers. The `infra` gate stands for dependency
health and feature freshness. `getConsensus` reads the parameters and then, per symbol, the
newest snapshot above the quality floor (`newestAdmitted`); those reads are one step, since
nothing else in the answer is compared with what they return.

Checked in `console`: a gate that was closed throughout the request denies whatever the
other reads returned (`ClosedGateDenies`); what the sections of one answer say of a
symbol agrees (`SectionsAgree`); board and book lose no decision and count
none twice (`BookAddsUp`); the mirror decides what the sealed rule decides wherever the
long average and the volatility limit are positive (`MirrorsSealedRule`); the listed
factors make the decision (`ExplanationMatches`); size times stop distance is the
configured risk (`RiskAsConfigured`).

Proof (`ControlDeskProofs.tla`, next to the control plane whose gates the desk reports):
`DeskIsHonest`, all six parts at once, for `DeskSpec`: any set of symbols, any scan limit,
any contents of the tables (`DeskStart`), and any write by the daemon, the worker, the
operator and the clock between two reads of a request (`DeskNext`); `console` instantiates
both. Assumed of the tables is what their writers establish: symbols are numbered, moving
averages are averages of prices and so positive, a stored signal carries what the sealed
rule decided on its features.

None of the parts is inductive, because they speak of the answer only. `DeskInv` says what
a request carries at each await: a gate closed in every value `gateLog` holds shows in the
contexts already read (`ContextOK`), the rows are the newest of their symbol and of one
symbol each, every item is a decision built from such a row under such contexts, and the
answer is assembled from such items under one kill switch. It survives the writes of
others because the log only grows, and what was closed in a longer time was closed in a
shorter one (`LongerLog`). `DeskCites` adds that an item still names the stored row it was
made of, which the explanation is compared with. The rest is about the engines: the
buckets of the board and the states of the book partition the items; each of the six
groupings is a partition of the open positions, so its sums add up to the gross
(`GroupTotal`; the lemmas on sums are proved by removing one element at a time from a
finite set, `BySubsets`); concentration is bounded below by Cauchy's inequality on the shares and above by
their total; the mirror and the sealed rule are compared branch by branch.

Stating it for all inputs corrected two parts that only held on the instance:

- the lower bound on concentration. Each share is rounded, so the error grows with the
  number of symbols: `conc * n >= 10000 - 11 * n`, not a fixed tolerance;
- the explanation of a SHORT. `buildExplainability` tests the long band of the RSI first
  (`explainability.ts:62`), so if `rsiShortMax >= rsiLongMin` a short signal in the
  overlap is listed with the momentum of a long. `resolveSignalParams` does not rule such
  parameters out; with the defaults (55 and 45) they do not occur. `ExplanationMatches`
  claims the equivalence for SHORT only where the bands do not overlap.

Worth knowing:

- With the shipped configuration STRONG_BUY and STRONG_SELL cannot occur: the first
  target and the stop use the same multiple, so risk:reward is 1.00 and never 2.0.
- `stop_hit` triggers only through rounding, since the stop is recomputed around the
  current mark at every read.
- For a cheap asset rounding to two decimals collapses the stop distance: size is
  unavailable and risk UNKNOWN, yet the status is ACTIONABLE (`status.ts`: "All
  fail-closed: unknown/absent inputs deny rather than round up").
- The board ranks without looking at staleness, so its top entry may be one whose plan
  says WAIT; symbols outside the last 200 signals vanish.
- `executionStatus` BLOCKED with control ALLOWED falls through to ACTIONABLE
  (`status.ts:84`); `evaluateTradingPermission` rules that input out.
- The portfolio reads the permission twice, so one answer can be BLOCKED with OPEN
  positions; an UNKNOWN runtime is only a LOW warning there.
- The mirror maps an infinite input to 0 where the worker's rule gives 1
  (`signal-rule.ts` says VERBATIM); no stored feature is infinite.
- `engageKill` and `resumeKill` write the switch and its audit row in two statements; a
  racing pair can leave a last audit row that contradicts the switch.

## What is proved, what is checked, what is left

Proved by TLAPS for every value of the constants: the theorems of `ControlDeskProofs`,
`RiskEngineProofs`, `MarketAdapterProofs` and `IngestionProofs` (these four on
`CommonProofs`), `ExecutionProofs`, `SignalPipelineProofs` and `ConsoleProofs`, listed in
`PROJECT.json` and described with their invariants in the sections above.

Only model-checked, and why:

- every liveness property (`RuntimeSettles`, `TableCatchesUp`, `LiveSettles`,
  `ViewsCatchUp`): fairness is out of the prover's reach;
- `NoWaitCycle`: so is ENABLED.

Every other property of a passing run is stated by a theorem.

Next, in order of importance:

1. The scan limit of the tick (`orchestrator.ts:216`): an instance with more snapshots
   than it scans.
2. Composition of control gate, risk gate and market adapter into one worker tick.
3. The field mappings of the connectors, as far as a property tells their values apart.

Not modelled: pages and components (rendering), CI harnesses and command line tools
(drivers of the modelled parts), `services/workers/src/replay` (only its tests call it),
the indicator arithmetic of the quant service (numerical code without state), type
declarations and the generated database client. `PROJECT.json` gives the reason per
component.
