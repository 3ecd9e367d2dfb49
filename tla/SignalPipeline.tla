--------------------------- MODULE SignalPipeline ---------------------------
(***************************************************************************)
(* The worker's tick (pipeline/orchestrator.ts, index.ts), the decision    *)
(* bus in its three backends (execution/bus.ts, bus/redis-bus.ts,          *)
(* bus/bullmq-bus.ts), the persistence subscriber at its far end, and the  *)
(* two writers of the tick's input: the feature bridge, which revises a    *)
(* snapshot row in place, and the governance of strategy versions.         *)
(***************************************************************************)
EXTENDS SignalEngine, Sequences, FiniteSets

CONSTANTS
  Symbols,       \* numbers: the tick works in ascending symbol order
  Times,         \* the timestamps of snapshots
  Contents,      \* what a snapshot row can hold: features and a quality report
  Versions,      \* the strategy versions, [id, parameters]
  Backends,      \* BUS_BACKEND
  ScanLimit,     \* SNAPSHOT_SCAN_LIMIT
  MaxChanges,    \* bound: changes of the tick's input
  MaxFaults,     \* bound: failed writes and crashes
  MaxInFlight    \* bound: events on the bus

SnapshotIds == [symbol : Symbols, ts : Times]
NoRow       == [none |-> TRUE]
NoSignal    == [none |-> TRUE]
NoVersion   == [none |-> TRUE]

ASSUME PipelineAssumption ==
  /\ Symbols \subseteq Nat /\ Times \subseteq Nat
  /\ Backends \subseteq {"inprocess", "redis", "bullmq"}
  /\ ScanLimit \in Nat \ {0}
  /\ \A v, w \in Versions : v.id = w.id => v = w
  \* A row holds features and a report; reports are only ever created, so an id names one.
  /\ NoRow \notin Contents
  /\ \A c, d \in Contents : /\ c.dq.id = d.dq.id => c.dq = d.dq
                            /\ c.features = d.features /\ c.dq = d.dq => c = d

VARIABLES
  snaps,      \* FeatureSnapshot rows
  past,       \* history: every <<id, content>> the feature store has held
  active,     \* the ACTIVE StrategyVersion
  rows,       \* EngineSignal rows, unique by (snapshot, strategy version)
  backend,
  up,         \* the worker process runs
  pc,         \* the tick: idle, read, publish, execute
  resolved,   \* the version the tick resolved
  todo,       \* the snapshot rows the tick has still to work on
  decisions,  \* the events the tick has published
  channel,    \* the messages on their way to the subscriber, in the order published
  subscribed, \* the subscriber hears the channel
  executed,   \* history: the events handed to the execution stage
  changes, faults

inputVars == <<snaps, past, active, changes>>
tickVars  == <<pc, resolved, todo, decisions>>
busVars   == <<channel, subscribed>>
vars == <<inputVars, rows, backend, up, tickVars, busVars, executed, faults>>

Idle == pc' = "idle" /\ resolved' = NoVersion /\ todo' = {} /\ decisions' = {}

RowOf(id, content) == [id |-> id, features |-> content.features, dq |-> content.dq]

SoundRow(r)     == r.features # NotObject
SoundVersion(v) == v # NoVersion /\ v.parameters # NotObject

\* generateSignal is pure; its verdicts are tabulated once.
Verdict ==
  [r \in {RowOf(id, c) : id \in SnapshotIds, c \in {c \in Contents : SoundRow(c)}} |->
    [v \in {v \in Versions : SoundVersion(v)} |-> generateSignal(r, v)]]

Generations ==
  {q \in {<<id, c, v, Verdict[RowOf(id, c)][v]>> :
             id \in SnapshotIds, c \in {c \in Contents : SoundRow(c)},
             v \in {v \in Versions : SoundVersion(v)}} :
     q[4] # Refused /\ SoundSignal(q[4])}

\* What the feature bridge and the feature consumer will write.  Other contents are rows
\* from before these gates.
Writable(c) == Admitted(c.dq) /\ c.features # NotObject

Held == {id \in SnapshotIds : snaps[id] # NoRow}

Init ==
  /\ snaps \in [SnapshotIds -> {NoRow} \cup {c \in Contents : ~Writable(c)}]
  /\ past = {<<id, snaps[id]>> : id \in Held}
  /\ active \in Versions \cup {NoVersion}
  /\ rows = [id \in SnapshotIds |-> [v \in Versions |-> NoSignal]]
  /\ backend \in Backends
  /\ up = TRUE
  /\ pc = "idle" /\ resolved = NoVersion /\ todo = {} /\ decisions = {}
  /\ channel = <<>>
  /\ subscribed = (backend # "redis")
  /\ executed = {}
  /\ changes = 0 /\ faults = 0

-----------------------------------------------------------------------------
\* The writers of the input.

\* An upsert under the point-in-time key replaces features, hash and report of a row
\* the tick may have read already.  A revision has a hash of its own.
Recompute(id, content) ==
  /\ changes < MaxChanges
  /\ Writable(content) /\ <<id, content>> \notin past
  /\ snaps' = [snaps EXCEPT ![id] = content]
  /\ past' = past \cup {<<id, content>>}
  /\ changes' = changes + 1
  /\ UNCHANGED <<active, rows, backend, up, tickVars, busVars, executed, faults>>

\* What resolvePersistedLineage would now find: the single-ACTIVE index is one per
\* strategy, so this is the newest of the ACTIVE versions.
Activate(v) ==
  /\ changes < MaxChanges
  /\ active # v
  /\ active' = v
  /\ changes' = changes + 1
  /\ UNCHANGED <<snaps, past, rows, backend, up, tickVars, busVars, executed, faults>>

-----------------------------------------------------------------------------
\* The tick.

\* (ts desc, id desc)
Newer(a, b) == a.ts > b.ts \/ (a.ts = b.ts /\ a.symbol > b.symbol)

Scanned == {id \in Held : Cardinality({o \in Held : Newer(o, id)}) < ScanLimit}
Latest  == {id \in Scanned : \A o \in Scanned : o.symbol = id.symbol => ~Newer(o, id)}

\* The rows of the tick, one per symbol.
LatestRows == {RowOf(id, snaps[id]) : id \in Latest}

\* tick() and resolvePersistedLineage: without a sound ACTIVE version the tick throws,
\* which leaves everything as it was.  A tick still running makes the next one return.
StartTick ==
  /\ up /\ pc = "idle"
  /\ SoundVersion(active)
  /\ pc' = "read" /\ resolved' = active
  /\ UNCHANGED <<inputVars, rows, backend, up, todo, decisions, busVars, executed, faults>>

\* The rows are read after the version; one malformed row refuses the whole tick.
ReadSnapshots ==
  /\ up /\ pc = "read"
  /\ IF LatestRows # {} /\ \A r \in LatestRows : SoundRow(r)
     THEN pc' = "publish" /\ todo' = LatestRows /\ UNCHANGED <<resolved, decisions>>
     ELSE Idle
  /\ UNCHANGED <<inputVars, rows, backend, up, busVars, executed, faults>>

Candidate(r) == Verdict[r][resolved]
Event(r)     == deriveDecisionEvent(Candidate(r))

Publishable(r) ==
  /\ Candidate(r) # Refused
  /\ ~malformedSignal(Candidate(r), r, resolved)
  /\ verifySignalLineage(Candidate(r), r, resolved)

\* The tick is at row r: the first one left, in ascending symbol order.
Working(r) == /\ up /\ pc = "publish"
              /\ r \in todo /\ \A o \in todo : r.id.symbol <= o.id.symbol

SkipSnapshot(r) ==
  /\ Working(r) /\ ~Publishable(r)
  /\ todo' = todo \ {r}
  /\ UNCHANGED <<inputVars, rows, backend, up, pc, resolved, decisions, busVars, executed, faults>>

Published(r) == todo' = todo \ {r} /\ decisions' = decisions \cup {Event(r)}

\* Mutant: the upsert does not refresh the decision of an existing row.
upsert_KeepDecision(g) ==
  rows' = [rows EXCEPT ![g.snapshot] =
             [v \in Versions |->
                IF v.id # g.strategy THEN @[v]
                ELSE IF @[v] = NoSignal THEN g
                     ELSE [g EXCEPT !.decision = rows[g.snapshot][v].decision]]]

\* persistEngineSignal: one row per (snapshot, strategy version), replaced whole.
upsert(g) ==
  rows' = [rows EXCEPT ![g.snapshot] =
             [v \in Versions |-> IF v.id = g.strategy THEN g ELSE @[v]]]

\* Mutant: the fan-out does not wait for the subscriber.
PublishInProcess_NotAwaited(r) ==
  /\ Working(r) /\ Publishable(r) /\ backend = "inprocess"
  /\ Published(r)
  /\ UNCHANGED <<inputVars, rows, backend, up, pc, resolved, busVars, executed, faults>>

\* In-process fan-out: publish resolves when the subscriber has written the row.
PublishInProcess(r) ==
  /\ Working(r) /\ Publishable(r) /\ backend = "inprocess"
  /\ upsert(Candidate(r))
  /\ Published(r)
  /\ UNCHANGED <<inputVars, backend, up, pc, resolved, busVars, executed, faults>>

\* An event on the bus.  "stalled": a BullMQ job the process died over; "late" is
\* history: a message published after this one was taken before it.
Message(e) == [event |-> e, marks |-> {}]
Late(m)    == "late" \in m.marks
Stalled(m) == "stalled" \in m.marks

\* Redis broadcasts to who is listening; BullMQ enqueues.  Either resolves at once.
PublishDistributed(r) ==
  /\ Working(r) /\ Publishable(r) /\ backend # "inprocess"
  /\ Len(channel) < MaxInFlight
  /\ channel' = IF subscribed THEN Append(channel, Message(Event(r))) ELSE channel
  /\ Published(r)
  /\ UNCHANGED <<inputVars, rows, backend, up, pc, resolved, subscribed, executed, faults>>

\* Mutant: a tick that throws does not clear `running`.
PublishFails_StaysRunning(r) ==
  /\ Working(r) /\ Publishable(r) /\ faults < MaxFaults
  /\ pc' = "running" /\ faults' = faults + 1
  /\ UNCHANGED <<inputVars, resolved, todo, decisions, rows, backend, up, busVars, executed>>

\* A publish that rejects ends the tick: what it had decided is not executed.
PublishFails(r) ==
  /\ Working(r) /\ Publishable(r) /\ faults < MaxFaults
  /\ Idle
  /\ faults' = faults + 1
  /\ UNCHANGED <<inputVars, rows, backend, up, busVars, executed>>

FinishPublishing ==
  /\ up /\ pc = "publish" /\ todo = {}
  /\ pc' = "execute"
  /\ UNCHANGED <<inputVars, rows, backend, up, resolved, todo, decisions, busVars, executed, faults>>

\* runExecutionStage over the whole tick; its failure is logged and dropped.
RunExecutionStage ==
  /\ up /\ pc = "execute"
  /\ executed' = executed \cup decisions
  /\ Idle
  /\ UNCHANGED <<inputVars, rows, backend, up, busVars, faults>>

-----------------------------------------------------------------------------
\* The far end of a distributed bus.

\* ensureSubscriber does not wait for SUBSCRIBE to be acknowledged.
Subscribe ==
  /\ up /\ ~subscribed
  /\ subscribed' = TRUE
  /\ UNCHANGED <<inputVars, rows, backend, up, tickVars, channel, executed, faults>>

\* The channel once message k has been taken, before and after k leaves it.
Passed(k)  == [j \in DOMAIN channel |->
                 IF j < k THEN [channel[j] EXCEPT !.marks = @ \cup {"late"}] ELSE channel[j]]
Without(k) == [j \in 1 .. Len(channel) - 1 |-> Passed(k)[IF j < k THEN j ELSE j + 1]]

\* Mutant: the worker runs jobs concurrently.
Deliverable_Concurrent(k) == TRUE

\* BullMQ's worker takes one job at a time, in order, except that a stalled job waits for
\* the stalled check to put it back; Redis dispatches each message without waiting for
\* the one before.
Deliverable(k) == backend = "redis" \/ \A j \in 1 .. k - 1 : Stalled(channel[j])

\* An event that fails admission is dropped, or dead-lettered.
Reject(k) ==
  /\ up /\ Deliverable(k) /\ ~admitDecisionEvent(channel[k].event)
  /\ channel' = Without(k)
  /\ UNCHANGED <<inputVars, rows, backend, up, tickVars, subscribed, executed, faults>>

Deliver(k) ==
  /\ up /\ Deliverable(k) /\ admitDecisionEvent(channel[k].event)
  /\ upsert(channel[k].event.signal)
  /\ channel' = Without(k)
  /\ UNCHANGED <<inputVars, backend, up, tickVars, subscribed, executed, faults>>

\* Two concurrent upserts of a new key: the loser (P2002) takes the winner's row.
DeliverRaced(j, k) ==
  /\ up /\ j < k /\ Deliverable(j) /\ Deliverable(k)
  /\ admitDecisionEvent(channel[j].event) /\ admitDecisionEvent(channel[k].event)
  /\ channel[j].event.signal.snapshot = channel[k].event.signal.snapshot
  /\ channel[j].event.signal.strategy = channel[k].event.signal.strategy
  /\ \A v \in Versions : v.id = channel[j].event.signal.strategy =>
                           rows[channel[j].event.signal.snapshot][v] = NoSignal
  /\ \E winner \in {j, k} : upsert(channel[winner].event.signal)
  /\ channel' = [i \in 1 .. Len(channel) - 2 |->
                   Passed(k)[IF i < j THEN i ELSE IF i < k - 1 THEN i + 1 ELSE i + 2]]
  /\ UNCHANGED <<inputVars, backend, up, tickVars, subscribed, executed, faults>>

\* The process ends: in-memory state is gone, and so is what Redis was broadcasting.
Down ==
  /\ up' = FALSE /\ Idle
  /\ channel' = IF backend = "bullmq" THEN channel ELSE <<>>
  /\ subscribed' = (backend # "redis")

\* A failed write: BullMQ was given no attempts to retry, so the job is spent; under
\* Redis the error handler throws in a promise nobody awaits, which ends the process.
DeliverFails(k) ==
  /\ up /\ Deliverable(k) /\ admitDecisionEvent(channel[k].event)
  /\ faults < MaxFaults /\ faults' = faults + 1
  /\ IF backend = "redis" THEN Down
     ELSE channel' = Without(k) /\ UNCHANGED <<up, tickVars, subscribed>>
  /\ UNCHANGED <<inputVars, rows, backend, executed>>

OlderForm(e) == [e EXCEPT !.signal = [@ EXCEPT !.confidence = Unparsable]]

\* An event an older deployment left on the channel, in a form no longer accepted.
LegacyEvent(r) ==
  /\ backend # "inprocess" /\ faults < MaxFaults /\ Working(r) /\ Publishable(r)
  /\ Len(channel) < MaxInFlight /\ subscribed
  /\ channel' = Append(channel, Message(OlderForm(Event(r))))
  /\ faults' = faults + 1
  /\ UNCHANGED <<inputVars, rows, backend, up, tickVars, subscribed, executed>>

Crash ==
  /\ up /\ faults < MaxFaults /\ faults' = faults + 1
  /\ Down
  /\ UNCHANGED <<inputVars, rows, backend, executed>>

\* Any end of the process (shutdown does not close the worker either) leaves the active
\* job of BullMQ unacknowledged, its row written or not: the job is stalled and will be
\* run again, but only once (maxStalledCount).
CrashMidJob(k) ==
  /\ up /\ backend = "bullmq" /\ Deliverable(k)
  /\ faults < MaxFaults /\ faults' = faults + 1
  /\ \/ UNCHANGED rows
     \/ admitDecisionEvent(channel[k].event) /\ upsert(channel[k].event.signal)
  /\ channel' = IF Stalled(channel[k]) THEN Without(k)
                ELSE [Passed(k) EXCEPT ![k].marks = @ \cup {"stalled"}]
  /\ up' = FALSE /\ Idle
  /\ UNCHANGED <<inputVars, backend, subscribed, executed>>

Restart ==
  /\ ~up /\ up' = TRUE
  /\ UNCHANGED <<inputVars, rows, backend, tickVars, busVars, executed, faults>>

-----------------------------------------------------------------------------
Environment ==
  \/ \E id \in SnapshotIds, c \in Contents : Recompute(id, c)
  \/ \E v \in Versions \cup {NoVersion} : Activate(v)

Tick == \/ StartTick \/ ReadSnapshots
        \/ \E r \in todo : SkipSnapshot(r) \/ PublishInProcess(r) \/ PublishDistributed(r)
        \/ FinishPublishing \/ RunExecutionStage

Delivery == \/ \E k \in DOMAIN channel : Reject(k) \/ Deliver(k)
            \/ \E j, k \in DOMAIN channel : DeliverRaced(j, k)

Fault == \/ \E r \in todo : PublishFails(r) \/ LegacyEvent(r)
         \/ Crash
         \/ \E k \in DOMAIN channel : DeliverFails(k) \/ CrashMidJob(k)

Next == Environment \/ Tick \/ Delivery \/ Subscribe \/ Restart \/ Fault

Spec == Init /\ [][Next]_vars

\* The interval timer keeps starting ticks, the event loop keeps running what was
\* started, the broker delivers, and the container is restarted.
FairSpec == Spec /\ WF_vars(Tick) /\ WF_vars(Delivery) /\ WF_vars(Subscribe) /\ WF_vars(Restart)

-----------------------------------------------------------------------------
\* The table is the abstract ledger: every write of every backend, retries, races and
\* late deliveries included, is one whole generation from a content the snapshot had.
Ledger == INSTANCE SignalLedger WITH
            SnapshotIds <- SnapshotIds, Versions <- Versions, NoSignal <- NoSignal,
            Generations <- Generations, held <- past, table <- rows
ImplementsLedger == Ledger!LedgerSpec

\* Replaying a row against its snapshot as it now stands either reproduces it or is
\* refused for its lineage: revising a snapshot under a row is detected, never taken for
\* a wrong decision, a bad report or a bad vector.
ReplayNeverMismatches ==
  \A id \in SnapshotIds, v \in Versions :
    rows[id][v] # NoSignal =>
      LET now == RowOf(id, snaps[id])
      IN replayEngineSignal(rows[id][v], now, v) =
           IF rows[id][v].featureHash = snaps[id].features
              /\ rows[id][v].dqReport = snaps[id].dq.id
           THEN "MATCH" ELSE "ABORTED_LINEAGE"

\* The documented order of the tick, per backend: with the in-process bus every event
\* that reaches the execution stage has its observation in the table.
ExecutedWasPersisted ==
  backend = "inprocess" =>
    \A e \in executed : \E v \in Versions :
      v.id = e.signal.strategy /\ rows[e.signal.snapshot][v] # NoSignal

\* The row of a snapshot's current content is replaced by one of an earlier content only
\* in the two ways the buses leave open: by a message that Redis dispatched behind a later
\* one, or by a BullMQ job that was redelivered as stalled behind a later one.  A repeated
\* tick, a job in its order, a retry or a restart never does it.
CurrentRowStays ==
  [][\A id \in SnapshotIds, v \in Versions :
       /\ rows[id][v] # NoSignal /\ rows'[id][v] # rows[id][v]
       /\ rows[id][v].featureHash = snaps[id].features
       /\ rows[id][v].dqReport = snaps[id].dq.id
       => \E k \in DOMAIN channel :
            /\ channel[k].event.signal = rows'[id][v]
            /\ Late(channel[k])
            /\ backend = "redis" \/ Stalled(channel[k])]_vars

\* Whatever is lost on the way (a broadcast before the subscription, a spent job, a
\* crash between publication and write), the ticks that follow repair it: once the input
\* rests, the row of every current snapshot comes to say what its content says.
TableCatchesUp ==
  <>[](SoundVersion(active) /\ (\A r \in LatestRows : SoundRow(r)) =>
         \A r \in LatestRows :
           Verdict[r][active] = Refused \/ rows[r.id][active] = Verdict[r][active])

\* The table can be trusted: what it holds replays or is refused for its lineage, and
\* in process nothing was executed that it does not hold.
TableIsTrue == ReplayNeverMismatches /\ ExecutedWasPersisted

=============================================================================
