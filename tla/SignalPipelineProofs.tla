------------------------ MODULE SignalPipelineProofs ------------------------
(***************************************************************************)
(* The worker's pipeline implements SignalLedger, for every set of         *)
(* symbols, contents and versions, every backend and every bound.          *)
(***************************************************************************)
EXTENDS SignalPipeline, SequenceTheorems, TLAPS

\* What the rule generates from contents the feature store has held, and the events
\* about it that the bus may carry, those of an older form included.
Genuine  == {q \in Generations : <<q[1], q[2]>> \in past}
PastRows == {RowOf(p[1], p[2]) : p \in {p \in past : SoundRow(p[2])}}
Circulating == {deriveDecisionEvent(q[4]) : q \in Genuine}
               \cup {OlderForm(deriveDecisionEvent(q[4])) : q \in Genuine}

StoreOK == /\ snaps \in [SnapshotIds -> Contents \cup {NoRow}]
           /\ past \subseteq SnapshotIds \X Contents
           /\ \A id \in Held : <<id, snaps[id]>> \in past
           /\ \A p \in past : snaps[p[1]] # NoRow
TickOK  == /\ pc \in {"idle", "read", "publish", "execute"}
           /\ active \in Versions \cup {NoVersion}
           /\ pc # "idle" => resolved \in {v \in Versions : SoundVersion(v)}
           /\ todo \subseteq PastRows
           /\ pc # "publish" => todo = {}
Messages == [event : Circulating, marks : SUBSET {"late", "stalled"}]
BusOK   == channel \in Seq(Messages)
TableOK == rows = [id \in SnapshotIds |-> [v \in Versions |-> rows[id][v]]]

PipelineInv == StoreOK /\ TickOK /\ BusOK /\ TableOK

\* A signal, and a row the tick has still to work on, of the content its snapshot now has.
IsCurrent(g)    == g.featureHash = snaps[g.snapshot].features /\ g.dqReport = snaps[g.snapshot].dq.id
RowIsCurrent(r) == r = RowOf(r.id, snaps[r.id])

RowsLawful ==
  \A id \in SnapshotIds, v \in Versions :
    rows[id][v] # NoSignal => \E q \in Genuine : q[1] = id /\ q[3] = v /\ q[4] = rows[id][v]
DecidedWritten ==
  backend = "inprocess" =>
    \A e \in decisions \cup executed :
      /\ e.signal.snapshot \in SnapshotIds
      /\ \E v \in Versions : v.id = e.signal.strategy /\ rows[e.signal.snapshot][v] # NoSignal
\* The channel is in the order of publication, so a content is overtaken only by later
\* ones, and what is not late was published after whatever wrote the table.
InOrder ==
  /\ \A r, s \in todo : r.id = s.id => r = s
  /\ backend = "inprocess" => channel = <<>>
  /\ backend # "redis" => \A k \in DOMAIN channel : Late(channel[k]) => Stalled(channel[k])
  /\ \A id \in SnapshotIds, v \in Versions :
       rows[id][v] # NoSignal /\ IsCurrent(rows[id][v]) =>
         /\ \A k \in DOMAIN channel :
              ~Late(channel[k]) /\ channel[k].event.signal.snapshot = id =>
                IsCurrent(channel[k].event.signal)
         /\ \A r \in todo : r.id = id => RowIsCurrent(r)
  /\ \A k \in DOMAIN channel : IsCurrent(channel[k].event.signal) =>
       /\ \A l \in DOMAIN channel :
            k < l /\ channel[l].event.signal.snapshot = channel[k].event.signal.snapshot =>
              IsCurrent(channel[l].event.signal)
       /\ \A r \in todo : r.id = channel[k].event.signal.snapshot => RowIsCurrent(r)

TrustInv == RowsLawful /\ DecidedWritten /\ InOrder

-----------------------------------------------------------------------------
\* A sequence over a set is one over any larger set.
LEMMA SeqGrows ==
  ASSUME NEW S, NEW T, S \subseteq T, NEW s \in Seq(S)
  PROVE  s \in Seq(T)
  BY SeqDef

\* A function on 1 .. n is a sequence over its values.
LEMMA SeqFrom ==
  ASSUME NEW S, NEW n \in Nat, NEW f \in [1 .. n -> S]
  PROVE  f \in Seq(S)
  BY SeqDef

\* A generated signal names the row and the version it was generated from.
LEMMA GeneratedNames ==
  ASSUME NEW q \in Generations
  PROVE  /\ q[1] \in SnapshotIds /\ q[2] \in Contents /\ q[3] \in Versions
         /\ q = <<q[1], q[2], q[3], q[4]>>
         /\ q[4].snapshot = q[1] /\ q[4].strategy = q[3].id
         /\ q[4] = generateSignal(RowOf(q[1], q[2]), q[3]) /\ q[4] # Refused
         /\ SoundSignal(q[4])
         /\ [q[4] EXCEPT !.confidence = Unparsable].confidence = Unparsable
  <1>1. PICK id \in SnapshotIds, c \in {c \in Contents : SoundRow(c)},
             v \in {v \in Versions : SoundVersion(v)} :
             q = <<id, c, v, Verdict[RowOf(id, c)][v]>>
    BY DEF Generations
  <1>2. Verdict[RowOf(id, c)][v] = generateSignal(RowOf(id, c), v)
    BY DEF Verdict
  <1>3. q[4] # Refused /\ SoundSignal(q[4]) BY DEF Generations
  <1>4. generateSignal(RowOf(id, c), v) # Refused =>
          /\ generateSignal(RowOf(id, c), v).snapshot = id
          /\ generateSignal(RowOf(id, c), v).strategy = v.id
    BY DEF generateSignal, RowOf
  <1>5. generateSignal(RowOf(id, c), v) # Refused =>
          "confidence" \in DOMAIN generateSignal(RowOf(id, c), v)
    BY DEF generateSignal
  <1>6. [q[4] EXCEPT !.confidence = Unparsable].confidence = Unparsable
    BY <1>1, <1>2, <1>3, <1>5
  <1> QED BY <1>1, <1>2, <1>3, <1>4, <1>6

\* Writing a genuine signal is recording it in the ledger.
LEMMA UpsertRecords ==
  ASSUME PipelineAssumption, TableOK, NEW q \in Genuine, upsert(q[4]), UNCHANGED past
  PROVE  /\ \E id \in SnapshotIds, v \in Versions : Ledger!Record(id, v)
         /\ TableOK'
  <1> DEFINE id == q[1]  v == q[3]  g == q[4]
  <1>1. /\ id \in SnapshotIds /\ v \in Versions /\ g.snapshot = id /\ g.strategy = v.id
        /\ <<id, q[2], v, g>> \in Generations /\ <<id, q[2]>> \in past
    BY GeneratedNames DEF Genuine
  <1>2. \A w \in Versions : w.id = g.strategy <=> w = v
    BY <1>1 DEF PipelineAssumption
  <1>3. rows' = [rows EXCEPT ![id] = [w \in Versions |-> IF w.id = g.strategy THEN g ELSE @[w]]]
    BY <1>1 DEF upsert
  <1>4. rows' = [i \in SnapshotIds |-> [w \in Versions |-> IF i = id /\ w = v THEN g ELSE rows[i][w]]]
    BY <1>1, <1>2, <1>3 DEF TableOK
  <1>5. rows'[id][v] = g BY <1>1, <1>4
  <1>6. rows' = [i \in SnapshotIds |-> [w \in Versions |->
                   IF i = id /\ w = v THEN rows'[id][v] ELSE rows[i][w]]]
    BY <1>4, <1>5
  <1>7. TableOK' BY <1>4 DEF TableOK
  <1>8. Ledger!Lawful(id, v, rows'[id][v])
    BY <1>1, <1>5 DEF Ledger!Lawful
  <1>9. Ledger!Record(id, v) BY <1>6, <1>8 DEF Ledger!Record
  <1> QED BY <1>1, <1>7, <1>9

-----------------------------------------------------------------------------
\* The store, the tick and the bus keep their invariant when the feature store grows.
LEMMA GenuineGrows ==
  ASSUME past \subseteq past', StoreOK, BusOK, todo \subseteq PastRows
  PROVE  /\ PastRows \subseteq PastRows' /\ todo \subseteq PastRows'
         /\ channel \in Seq(Messages')
  <1>1. PastRows \subseteq PastRows' BY DEF PastRows
  <1>2. Genuine \subseteq Genuine' BY DEF Genuine
  <1>3. Messages \subseteq Messages' BY <1>2 DEF Circulating, Messages
  <1> QED BY <1>1, <1>3, SeqGrows DEF BusOK

\* The rows a tick reads are contents the store holds.
LEMMA LatestIsPast ==
  ASSUME StoreOK, \A r \in LatestRows : SoundRow(r)
  PROVE  LatestRows \subseteq PastRows
  <1> SUFFICES ASSUME NEW id \in Latest PROVE RowOf(id, snaps[id]) \in PastRows
    BY DEF LatestRows
  <1>1. id \in Held BY DEF Latest, Scanned
  <1>2. <<id, snaps[id]>> \in past BY <1>1 DEF StoreOK
  <1>3. SoundRow(RowOf(id, snaps[id])) BY DEF LatestRows
  <1>4. SoundRow(snaps[id]) BY <1>3 DEF SoundRow, RowOf
  <1> QED BY <1>2, <1>4 DEF PastRows

\* What passes the tick's gates was generated from a content the store has held.
LEMMA PublishedIsGenuine ==
  ASSUME StoreOK, TickOK, NEW r \in todo, pc = "publish", Publishable(r)
  PROVE  \E q \in Genuine : q[4] = Candidate(r)
  <1>1. PICK p \in past : SoundRow(p[2]) /\ r = RowOf(p[1], p[2])
    BY DEF TickOK, PastRows
  <1>2. p = <<p[1], p[2]>> /\ p[1] \in SnapshotIds /\ p[2] \in Contents
    BY DEF StoreOK
  <1>3. resolved \in {v \in Versions : SoundVersion(v)} BY DEF TickOK
  <1>4. Candidate(r) = Verdict[RowOf(p[1], p[2])][resolved] BY <1>1 DEF Candidate
  <1>5. Candidate(r) # Refused /\ SoundSignal(Candidate(r))
    BY DEF Publishable, malformedSignal
  <1> DEFINE q == <<p[1], p[2], resolved, Candidate(r)>>
  <1>6. q[4] = Candidate(r) /\ <<q[1], q[2]>> = p BY <1>2
  <1>7. q \in {<<id, c, v, Verdict[RowOf(id, c)][v]>> :
               id \in SnapshotIds, c \in {c \in Contents : SoundRow(c)},
               v \in {v \in Versions : SoundVersion(v)}}
    BY <1>1, <1>2, <1>3, <1>4
  <1>8. q \in Generations BY <1>5, <1>6, <1>7 DEF Generations
  <1> QED BY <1>6, <1>8 DEF Genuine

\* What passes admission on the bus carries a genuine signal.
LEMMA AdmittedIsGenuine ==
  ASSUME NEW e \in Circulating, admitDecisionEvent(e)
  PROVE  \E q \in Genuine : q[4] = e.signal
  <1>1. CASE \E q \in Genuine : e = deriveDecisionEvent(q[4])
    BY <1>1 DEF deriveDecisionEvent
  <1>2. ASSUME NEW q \in Genuine,
               e = OlderForm(deriveDecisionEvent(q[4]))
        PROVE  FALSE
    <2>1. q \in Generations BY DEF Genuine
    <2>2. e.signal = [q[4] EXCEPT !.confidence = Unparsable]
      BY <1>2 DEF deriveDecisionEvent, OlderForm
    <2>3. e.signal.confidence = Unparsable
      BY <2>1, <2>2, GeneratedNames
    <2> QED BY <2>3 DEF admitDecisionEvent, SoundSignal, Unparsable
  <1> QED BY <1>1, <1>2 DEF Circulating

-----------------------------------------------------------------------------
\* The channel stays a channel of circulating events when some are taken off it and
\* those passed over are marked.
LEMMA TakeOff ==
  ASSUME BusOK, NEW k \in DOMAIN channel, NEW n \in Nat, n <= Len(channel),
         NEW f \in [1 .. n -> DOMAIN channel]
  PROVE  /\ Passed(k) \in Seq(Messages) /\ DOMAIN Passed(k) = DOMAIN channel
         /\ \A j \in DOMAIN channel :
              /\ Passed(k)[j].event = channel[j].event
              /\ Passed(k)[j].marks = channel[j].marks \cup (IF j < k THEN {"late"} ELSE {})
         /\ [j \in 1 .. n |-> Passed(k)[f[j]]] \in Seq(Messages)
  <1>0. Len(channel) \in Nat /\ DOMAIN channel = 1 .. Len(channel) BY DEF BusOK
  <1>1. \A j \in DOMAIN channel : channel[j] \in Messages BY DEF BusOK
  <1>2. \A j \in DOMAIN channel :
          /\ Passed(k)[j] \in Messages /\ Passed(k)[j].event = channel[j].event
          /\ Passed(k)[j].marks = channel[j].marks \cup (IF j < k THEN {"late"} ELSE {})
    BY <1>1 DEF Passed, Messages
  <1>3. Passed(k) \in [1 .. Len(channel) -> Messages] BY <1>0, <1>2 DEF Passed
  <1>4. [j \in 1 .. n |-> Passed(k)[f[j]]] \in [1 .. n -> Messages] BY <1>2
  <1> QED BY <1>0, <1>2, <1>3, <1>4, SeqFrom DEF Passed

LEMMA CarriesEvents ==
  ASSUME BusOK
  PROVE  \A k \in DOMAIN channel : channel[k] \in Messages /\ channel[k].event \in Circulating
  <1>1. \A k \in DOMAIN channel : channel[k] \in Messages BY DEF BusOK
  <1>2. \A m \in Messages : m.event \in Circulating BY DEF Messages
  <1> QED BY <1>1, <1>2

LEMMA WithoutOK ==
  ASSUME BusOK, NEW k \in DOMAIN channel
  PROVE  Without(k) \in Seq(Messages)
  <1>1. Len(channel) \in Nat BY DEF BusOK
  <1>2. DOMAIN channel = 1 .. Len(channel) BY DEF BusOK
  <1>3. Len(channel) - 1 \in Nat BY <1>1, <1>2
  <1> DEFINE f == [j \in 1 .. Len(channel) - 1 |-> IF j < k THEN j ELSE j + 1]
  <1>4. f \in [1 .. Len(channel) - 1 -> DOMAIN channel] BY <1>1, <1>2
  <1>5. Without(k) = [j \in 1 .. Len(channel) - 1 |-> Passed(k)[f[j]]]
    BY DEF Without
  <1>6. Len(channel) - 1 <= Len(channel) BY <1>1
  <1> HIDE DEF f
  <1>7. [j \in 1 .. Len(channel) - 1 |-> Passed(k)[f[j]]] \in Seq(Messages)
    BY <1>3, <1>4, <1>6, TakeOff
  <1> QED BY <1>5, <1>7

\* So does it when the job the process died over is kept.
LEMMA StalledOK ==
  ASSUME BusOK, NEW k \in DOMAIN channel,
         channel' = [Passed(k) EXCEPT ![k].marks = @ \cup {"stalled"}]
  PROVE  /\ channel' \in Seq(Messages) /\ DOMAIN channel' = DOMAIN channel
         /\ \A j \in DOMAIN channel :
              /\ channel'[j].event = channel[j].event
              /\ channel'[j].marks = channel[j].marks \cup (IF j < k THEN {"late"} ELSE {})
                                     \cup (IF j = k THEN {"stalled"} ELSE {})
  <1>0. Len(channel) \in Nat /\ DOMAIN channel = 1 .. Len(channel) BY DEF BusOK
  <1>1. 0 \in Nat /\ 0 <= Len(channel) BY <1>0
  <1>2. /\ Passed(k) \in Seq(Messages) /\ DOMAIN Passed(k) = DOMAIN channel
        /\ \A j \in DOMAIN channel :
             /\ Passed(k)[j].event = channel[j].event
             /\ Passed(k)[j].marks = channel[j].marks \cup (IF j < k THEN {"late"} ELSE {})
    <2>1. [j \in 1 .. 0 |-> k] \in [1 .. 0 -> DOMAIN channel] OBVIOUS
    <2> QED BY <1>1, <2>1, TakeOff
  <1>3. \A j \in DOMAIN channel : Passed(k)[j] \in Messages BY <1>2
  <1> DEFINE m == [Passed(k)[k] EXCEPT !.marks = @ \cup {"stalled"}]
  <1>4. /\ m \in Messages /\ m.event = Passed(k)[k].event
        /\ m.marks = Passed(k)[k].marks \cup {"stalled"}
    BY <1>3 DEF Messages
  <1>5. channel' = [Passed(k) EXCEPT ![k] = m] OBVIOUS
  <1> HIDE DEF m
  <1>6. DOMAIN channel' = DOMAIN channel /\ channel'[k] = m
        /\ \A j \in DOMAIN channel : j # k => channel'[j] = Passed(k)[j]
    BY <1>2, <1>5
  <1>7. channel' \in [1 .. Len(channel) -> Messages] BY <1>0, <1>2, <1>3, <1>4, <1>5
  <1>8. channel' \in Seq(Messages) BY <1>0, <1>7, SeqFrom
  <1> QED BY <1>2, <1>4, <1>6, <1>8

\* Down and Idle leave no tick behind.
LEMMA IdleOK ==
  ASSUME TickOK, Idle, UNCHANGED active
  PROVE  TickOK'
  <1>1. pc' = "idle" /\ todo' = {} /\ active' = active BY DEF Idle
  <1>2. todo' \subseteq PastRows' BY <1>1
  <1> QED BY <1>1, <1>2 DEF TickOK

LEMMA TickStep ==
  ASSUME PipelineAssumption, PipelineInv, Tick
  PROVE  PipelineInv' /\ [Ledger!LedgerNext]_<<past, rows>>
  <1> USE DEF PipelineInv
  <1>1. CASE StartTick
    <2> USE <1>1 DEF StartTick, inputVars, busVars
    <2>1. StoreOK' BY DEF StoreOK, Held
    <2>2. TickOK' BY DEF TickOK, SoundVersion, NoVersion, PastRows
    <2>3. BusOK' BY DEF BusOK, Messages, Circulating, Genuine
    <2> QED BY <2>1, <2>2, <2>3 DEF TableOK
  <1>2. CASE ReadSnapshots
    <2> USE <1>2 DEF ReadSnapshots, inputVars, busVars
    <2>1. StoreOK' BY DEF StoreOK, Held
    <2>2. TickOK'
      <3>1. PastRows' = PastRows BY DEF PastRows
      <3>2. CASE Idle BY <3>2, IdleOK
      <3>3. CASE ~Idle
        <4>1. pc' = "publish" /\ todo' = LatestRows /\ UNCHANGED resolved
              /\ \A r \in LatestRows : SoundRow(r)
          BY <3>3
        <4>2. todo' \subseteq PastRows' BY <4>1, <3>1, LatestIsPast
        <4> QED BY <4>1, <4>2 DEF TickOK
      <3> QED BY <3>2, <3>3
    <2>3. BusOK' BY DEF BusOK, Messages, Circulating, Genuine
    <2> QED BY <2>1, <2>2, <2>3 DEF TableOK
  <1>3. ASSUME NEW r \in todo, SkipSnapshot(r)
        PROVE  PipelineInv' /\ [Ledger!LedgerNext]_<<past, rows>>
    <2> USE <1>3 DEF SkipSnapshot, Working, inputVars, busVars
    <2>1. StoreOK' BY DEF StoreOK, Held
    <2>2. TickOK' BY DEF TickOK, PastRows
    <2>3. BusOK' BY DEF BusOK, Messages, Circulating, Genuine
    <2> QED BY <2>1, <2>2, <2>3 DEF TableOK
  <1>4. ASSUME NEW r \in todo, PublishInProcess(r)
        PROVE  PipelineInv' /\ [Ledger!LedgerNext]_<<past, rows>>
    <2> USE <1>4 DEF PublishInProcess, Working, inputVars, busVars
    <2>1. StoreOK' BY DEF StoreOK, Held
    <2>2. TickOK' BY DEF TickOK, PastRows, Published
    <2>3. BusOK' BY DEF BusOK, Messages, Circulating, Genuine
    <2>4. PICK q \in Genuine : q[4] = Candidate(r) BY PublishedIsGenuine
    <2>5. upsert(q[4]) BY <2>4
    <2>6. (\E id \in SnapshotIds, v \in Versions : Ledger!Record(id, v)) /\ TableOK'
      BY <2>5, UpsertRecords
    <2> QED BY <2>1, <2>2, <2>3, <2>6 DEF Ledger!LedgerNext
  <1>5. ASSUME NEW r \in todo, PublishDistributed(r)
        PROVE  PipelineInv' /\ [Ledger!LedgerNext]_<<past, rows>>
    <2> USE <1>5 DEF PublishDistributed, Working, inputVars
    <2>1. StoreOK' BY DEF StoreOK, Held
    <2>2. TickOK' BY DEF TickOK, PastRows, Published
    <2>3. PICK q \in Genuine : q[4] = Candidate(r) BY PublishedIsGenuine
    <2>4. Event(r) \in Circulating BY <2>3 DEF Circulating, Event
    <2>5. Append(channel, Message(Event(r))) \in Seq(Messages) /\ channel \in Seq(Messages)
      BY <2>4 DEF BusOK, Message, Messages
    <2>6. Messages' = Messages BY DEF Messages, Circulating, Genuine
    <2>7. BusOK' BY <2>5, <2>6 DEF BusOK
    <2> QED BY <2>1, <2>2, <2>7 DEF TableOK
  <1>6. CASE FinishPublishing
    <2> USE <1>6 DEF FinishPublishing, inputVars, busVars
    <2>1. StoreOK' BY DEF StoreOK, Held
    <2>2. TickOK' BY DEF TickOK, PastRows
    <2>3. BusOK' BY DEF BusOK, Messages, Circulating, Genuine
    <2> QED BY <2>1, <2>2, <2>3 DEF TableOK
  <1>7. CASE RunExecutionStage
    <2> USE <1>7 DEF RunExecutionStage, inputVars, busVars
    <2>1. StoreOK' BY DEF StoreOK, Held
    <2>2. TickOK' BY IdleOK
    <2>3. BusOK' BY DEF BusOK, Messages, Circulating, Genuine
    <2> QED BY <2>1, <2>2, <2>3 DEF TableOK
  <1> QED BY <1>1, <1>2, <1>3, <1>4, <1>5, <1>6, <1>7 DEF Tick

LEMMA EnvironmentStep ==
  ASSUME PipelineAssumption, PipelineInv, Environment
  PROVE  PipelineInv' /\ [Ledger!LedgerNext]_<<past, rows>>
  <1> USE DEF PipelineInv
  <1>1. ASSUME NEW id \in SnapshotIds, NEW c \in Contents, Recompute(id, c)
        PROVE  PipelineInv' /\ [Ledger!LedgerNext]_<<past, rows>>
    <2> USE <1>1 DEF Recompute, tickVars, busVars
    <2>1. past \subseteq past' OBVIOUS
    <2>2. StoreOK'
      <3>1. snaps' \in [SnapshotIds -> Contents \cup {NoRow}] BY DEF StoreOK
      <3>2. past' \subseteq SnapshotIds \X Contents BY DEF StoreOK
      <3>3. \A i \in SnapshotIds : snaps'[i] # NoRow => <<i, snaps'[i]>> \in past'
        BY DEF StoreOK, Held
      <3>4. \A p \in past' : snaps'[p[1]] # NoRow BY DEF StoreOK, PipelineAssumption
      <3> QED BY <3>1, <3>2, <3>3, <3>4 DEF StoreOK, Held
    <2>3. TickOK' BY <2>1, GenuineGrows DEF TickOK
    <2>4. BusOK' BY <2>1, GenuineGrows DEF TickOK, BusOK
    <2>5. TableOK' BY DEF TableOK
    <2>6. Ledger!Revise BY <2>1 DEF Ledger!Revise
    <2> QED BY <2>2, <2>3, <2>4, <2>5, <2>6 DEF Ledger!LedgerNext
  <1>2. ASSUME NEW v \in Versions \cup {NoVersion}, Activate(v)
        PROVE  PipelineInv' /\ [Ledger!LedgerNext]_<<past, rows>>
    <2> USE <1>2 DEF Activate, tickVars, busVars
    <2>1. StoreOK' BY DEF StoreOK, Held
    <2>2. TickOK' BY DEF TickOK, PastRows
    <2>3. BusOK' BY DEF BusOK, Messages, Circulating, Genuine
    <2> QED BY <2>1, <2>2, <2>3 DEF TableOK
  <1> QED BY <1>1, <1>2 DEF Environment

LEMMA DeliveryStep ==
  ASSUME PipelineAssumption, PipelineInv, Delivery
  PROVE  PipelineInv' /\ [Ledger!LedgerNext]_<<past, rows>>
  <1> USE DEF PipelineInv
  <1>0. \A k \in DOMAIN channel : channel[k].event \in Circulating BY CarriesEvents
  <1>1. ASSUME NEW k \in DOMAIN channel, Reject(k)
        PROVE  PipelineInv' /\ [Ledger!LedgerNext]_<<past, rows>>
    <2> USE <1>1 DEF Reject, inputVars, tickVars
    <2>1. StoreOK' BY DEF StoreOK, Held
    <2>2. TickOK' BY DEF TickOK, PastRows
    <2>3. BusOK' BY WithoutOK DEF BusOK, Messages, Circulating, Genuine
    <2> QED BY <2>1, <2>2, <2>3 DEF TableOK
  <1>2. ASSUME NEW k \in DOMAIN channel, Deliver(k)
        PROVE  PipelineInv' /\ [Ledger!LedgerNext]_<<past, rows>>
    <2> USE <1>2 DEF Deliver, inputVars, tickVars
    <2>1. StoreOK' BY DEF StoreOK, Held
    <2>2. TickOK' BY DEF TickOK, PastRows
    <2>3. BusOK' BY WithoutOK DEF BusOK, Messages, Circulating, Genuine
    <2>4. PICK q \in Genuine : q[4] = channel[k].event.signal BY <1>0, AdmittedIsGenuine
    <2>5. upsert(q[4]) BY <2>4
    <2>6. (\E id \in SnapshotIds, v \in Versions : Ledger!Record(id, v)) /\ TableOK'
      BY <2>5, UpsertRecords
    <2> QED BY <2>1, <2>2, <2>3, <2>6 DEF Ledger!LedgerNext
  <1>3. ASSUME NEW j \in DOMAIN channel, NEW k \in DOMAIN channel, DeliverRaced(j, k)
        PROVE  PipelineInv' /\ [Ledger!LedgerNext]_<<past, rows>>
    <2> USE <1>3 DEF DeliverRaced, inputVars, tickVars
    <2>1. StoreOK' BY DEF StoreOK, Held
    <2>2. TickOK' BY DEF TickOK, PastRows
    <2>3. BusOK'
      <3>1. Len(channel) \in Nat BY DEF BusOK
      <3>2. DOMAIN channel = 1 .. Len(channel) BY DEF BusOK
      <3>3. Len(channel) - 2 \in Nat BY <3>1, <3>2
      <3> DEFINE f == [i \in 1 .. Len(channel) - 2 |->
                         IF i < j THEN i ELSE IF i < k - 1 THEN i + 1 ELSE i + 2]
      <3>4. f \in [1 .. Len(channel) - 2 -> DOMAIN channel] BY <3>1, <3>2
      <3>5. channel' = [i \in 1 .. Len(channel) - 2 |-> Passed(k)[f[i]]] OBVIOUS
      <3>6. Len(channel) - 2 <= Len(channel) BY <3>1
      <3>7. Messages' = Messages BY DEF Messages, Circulating, Genuine
      <3> HIDE DEF f
      <3>8. [i \in 1 .. Len(channel) - 2 |-> Passed(k)[f[i]]] \in Seq(Messages)
        BY <3>3, <3>4, <3>6, TakeOff
      <3> QED BY <3>5, <3>7, <3>8 DEF BusOK
    <2>4. PICK w \in {j, k} : upsert(channel[w].event.signal) OBVIOUS
    <2>5. PICK q \in Genuine : q[4] = channel[w].event.signal
      BY <1>0, AdmittedIsGenuine
    <2>6. upsert(q[4]) BY <2>4, <2>5
    <2>7. (\E id \in SnapshotIds, v \in Versions : Ledger!Record(id, v)) /\ TableOK'
      BY <2>6, UpsertRecords
    <2> QED BY <2>1, <2>2, <2>3, <2>7 DEF Ledger!LedgerNext
  <1> QED BY <1>1, <1>2, <1>3 DEF Delivery

\* A process that goes down leaves the jobs of a durable queue, and nothing else.
LEMMA DownOK ==
  ASSUME PipelineInv, Down, UNCHANGED <<inputVars, rows>>
  PROVE  PipelineInv'
  <1> USE DEF PipelineInv, Down, inputVars
  <1>1. StoreOK' BY DEF StoreOK, Held
  <1>2. TickOK' BY IdleOK
  <1>3. Messages' = Messages BY DEF Messages, Circulating, Genuine
  <1>4. <<>> \in Seq(Messages) OBVIOUS
  <1>5. BusOK' BY <1>3, <1>4 DEF BusOK
  <1> QED BY <1>1, <1>2, <1>5 DEF TableOK

LEMMA FaultStep ==
  ASSUME PipelineAssumption, PipelineInv, Fault
  PROVE  PipelineInv' /\ [Ledger!LedgerNext]_<<past, rows>>
  <1>1. ASSUME NEW r \in todo, PublishFails(r)
        PROVE  PipelineInv' /\ [Ledger!LedgerNext]_<<past, rows>>
    <2> USE <1>1 DEF PipelineInv, PublishFails, inputVars, busVars
    <2>1. StoreOK' BY DEF StoreOK, Held
    <2>2. TickOK' BY IdleOK
    <2>3. BusOK' BY DEF BusOK, Messages, Circulating, Genuine
    <2> QED BY <2>1, <2>2, <2>3 DEF TableOK
  <1>2. ASSUME NEW r \in todo, LegacyEvent(r)
        PROVE  PipelineInv' /\ [Ledger!LedgerNext]_<<past, rows>>
    <2> USE <1>2 DEF PipelineInv, LegacyEvent, Working, inputVars, tickVars
    <2>1. StoreOK' BY DEF StoreOK, Held
    <2>2. TickOK' BY DEF TickOK, PastRows
    <2>3. PICK q \in Genuine : q[4] = Candidate(r) BY PublishedIsGenuine
    <2>4. OlderForm(Event(r)) \in Circulating BY <2>3 DEF Circulating, Event
    <2>5. Append(channel, Message(OlderForm(Event(r)))) \in Seq(Messages)
      BY <2>4 DEF BusOK, Message, Messages
    <2>6. Messages' = Messages BY DEF Messages, Circulating, Genuine
    <2>7. BusOK' BY <2>5, <2>6 DEF BusOK
    <2> QED BY <2>1, <2>2, <2>7 DEF TableOK
  <1>3. CASE Crash BY <1>3, DownOK DEF Crash, inputVars
  <1>4. ASSUME NEW k \in DOMAIN channel, DeliverFails(k)
        PROVE  PipelineInv' /\ [Ledger!LedgerNext]_<<past, rows>>
    <2>1. CASE Down BY <1>4, <2>1, DownOK DEF DeliverFails, inputVars
    <2>2. CASE ~Down
      <3> USE <1>4, <2>2 DEF PipelineInv, DeliverFails, inputVars, tickVars
      <3>1. StoreOK' BY DEF StoreOK, Held
      <3>2. TickOK' BY DEF TickOK, PastRows
      <3>3. BusOK' BY WithoutOK DEF BusOK, Messages, Circulating, Genuine
      <3> QED BY <3>1, <3>2, <3>3 DEF TableOK
    <2> QED BY <2>1, <2>2
  <1>5. ASSUME NEW k \in DOMAIN channel, CrashMidJob(k)
        PROVE  PipelineInv' /\ [Ledger!LedgerNext]_<<past, rows>>
    <2> USE <1>5 DEF PipelineInv, CrashMidJob, inputVars
    <2>1. StoreOK' BY DEF StoreOK, Held
    <2>2. TickOK' BY IdleOK
    <2>3. Messages' = Messages BY DEF Messages, Circulating, Genuine
    <2>4. BusOK' BY <2>3, WithoutOK, StalledOK DEF BusOK
    <2>5. CASE UNCHANGED rows BY <2>1, <2>2, <2>4, <2>5 DEF TableOK
    <2>6. CASE admitDecisionEvent(channel[k].event) /\ upsert(channel[k].event.signal)
      <3>1. channel[k].event \in Circulating BY CarriesEvents
      <3>2. PICK q \in Genuine : q[4] = channel[k].event.signal
        BY <2>6, <3>1, AdmittedIsGenuine
      <3>3. upsert(q[4]) BY <2>6, <3>2
      <3>4. (\E id \in SnapshotIds, v \in Versions : Ledger!Record(id, v)) /\ TableOK'
        BY <3>3, UpsertRecords
      <3> QED BY <2>1, <2>2, <2>4, <3>4 DEF Ledger!LedgerNext
    <2> QED BY <2>5, <2>6
  <1> QED BY <1>1, <1>2, <1>3, <1>4, <1>5 DEF Fault

-----------------------------------------------------------------------------
LEMMA PipelineStep ==
  ASSUME PipelineAssumption, PipelineInv, [Next]_vars
  PROVE  PipelineInv' /\ [Ledger!LedgerNext]_<<past, rows>>
  <1> USE DEF PipelineInv
  <1>1. CASE Environment BY <1>1, EnvironmentStep
  <1>2. CASE Tick BY <1>2, TickStep
  <1>3. CASE Delivery BY <1>3, DeliveryStep
  <1>4. CASE Fault BY <1>4, FaultStep
  <1>5. CASE Subscribe \/ Restart \/ UNCHANGED vars
    <2> USE <1>5 DEF Subscribe, Restart, vars, inputVars, tickVars, busVars
    <2>1. StoreOK' BY DEF StoreOK, Held
    <2>2. TickOK' BY DEF TickOK, PastRows
    <2>3. BusOK' BY DEF BusOK, Messages, Circulating, Genuine
    <2>4. TableOK' BY DEF TableOK
    <2>5. UNCHANGED <<past, rows>> OBVIOUS
    <2> QED BY <2>1, <2>2, <2>3, <2>4, <2>5
  <1> QED BY <1>1, <1>2, <1>3, <1>4, <1>5 DEF Next

LEMMA PipelineStarts ==
  ASSUME Init
  PROVE  PipelineInv /\ Ledger!LedgerInit
  <1> USE DEF Init
  <1>1. StoreOK BY DEF StoreOK, Held
  <1>2. TickOK BY DEF TickOK
  <1>3. BusOK BY DEF BusOK
  <1>4. TableOK BY DEF TableOK
  <1> QED BY <1>1, <1>2, <1>3, <1>4 DEF PipelineInv, Ledger!LedgerInit

\* Whatever the bus, the bounds and the interleaving, what circulates on the bus and what
\* a tick still works on was generated from a content the feature store has held.
THEOREM PipelineInvariant == Spec => []PipelineInv
  <1>1. Init => PipelineInv BY PipelineStarts
  <1>2. PipelineInv /\ [Next]_vars => PipelineInv'
    BY PipelineStep, PipelineAssumption
  <1> QED BY <1>1, <1>2, PTL DEF Spec

\* The pipeline implements the ledger: every write of every backend is one whole
\* generation of the rule from a content its snapshot has had.
THEOREM PipelineImplementsLedger == Spec => ImplementsLedger
  <1>1. Init => Ledger!LedgerInit BY PipelineStarts
  <1>2. PipelineInv /\ [Next]_vars => [Ledger!LedgerNext]_<<past, rows>>
    BY PipelineStep, PipelineAssumption
  <1> QED BY <1>1, <1>2, PipelineInvariant, PTL DEF Spec, ImplementsLedger, Ledger!LedgerSpec

-----------------------------------------------------------------------------
\* What a generated signal cites of the content it was generated from.
LEMMA GeneratedCites ==
  ASSUME NEW q \in Generations
  PROVE  /\ q[4].featureHash = q[2].features /\ q[4].dqReport = q[2].dq.id
         /\ q[4].datasetHash = q[2].dq.dataset /\ q[4].symbol = q[1].symbol
         /\ q[4].params = resolveSignalParams(q[3].parameters)
         /\ Admitted(q[2].dq) /\ q[2].features # Corrupt
         /\ q[4] # NoSignal
  <1>1. q[4] = generateSignal(RowOf(q[1], q[2]), q[3]) /\ q[4] # Refused
    BY GeneratedNames
  <1>2. Admitted(q[2].dq) /\ q[2].features # Corrupt
    BY <1>1 DEF generateSignal, RowOf
  <1>3. "symbol" \in DOMAIN q[4] BY <1>1, <1>2 DEF generateSignal, RowOf
  <1>4. q[4] # NoSignal BY <1>3 DEF NoSignal
  <1> QED BY <1>1, <1>2, <1>4 DEF generateSignal, RowOf

\* Two signals of one snapshot and version that cite the same vector and report are one.
LEMMA CitationDecides ==
  ASSUME PipelineAssumption, NEW p \in Generations, NEW q \in Generations,
         p[1] = q[1], p[4].featureHash = q[4].featureHash, p[4].dqReport = q[4].dqReport
  PROVE  p[2] = q[2] /\ (p[3] = q[3] => p[4] = q[4])
  <1>1. p[2] \in Contents /\ q[2] \in Contents BY GeneratedNames
  <1>2. p[2].features = q[2].features /\ p[2].dq.id = q[2].dq.id
    BY GeneratedCites
  <1>3. p[2] = q[2] BY <1>1, <1>2 DEF PipelineAssumption
  <1> QED BY <1>3, GeneratedNames

\* The ledger never drops a row, and keeps its rows lawful.
LEMMA LedgerKeeps ==
  ASSUME StoreOK, TableOK, RowsLawful, [Ledger!LedgerNext]_<<past, rows>>
  PROVE  /\ RowsLawful'
         /\ \A id \in SnapshotIds, v \in Versions :
              rows[id][v] # NoSignal => rows'[id][v] # NoSignal
  <1>0. past \subseteq past' BY DEF Ledger!LedgerNext, Ledger!Revise, Ledger!Record
  <1>1. Genuine \subseteq Genuine' BY <1>0 DEF Genuine
  <1>2. CASE UNCHANGED rows BY <1>1, <1>2 DEF RowsLawful
  <1>3. ASSUME NEW id \in SnapshotIds, NEW v \in Versions, Ledger!Record(id, v)
        PROVE  /\ RowsLawful'
               /\ \A i \in SnapshotIds, w \in Versions :
                    rows[i][w] # NoSignal => rows'[i][w] # NoSignal
    <2>1. PICK p \in past : p[1] = id /\ <<id, p[2], v, rows'[id][v]>> \in Generations
      BY <1>3 DEF Ledger!Record, Ledger!Lawful
    <2> DEFINE q == <<id, p[2], v, rows'[id][v]>>
    <2>2. q \in Generations BY <2>1
    <2>3. \A c : <<id, p[2], v, c>>[1] = id /\ <<id, p[2], v, c>>[2] = p[2]
                 /\ <<id, p[2], v, c>>[3] = v /\ <<id, p[2], v, c>>[4] = c
      OBVIOUS
    <2>4. q[4] # NoSignal BY <2>2, GeneratedCites
    <2>5. rows'[id][v] # NoSignal BY <2>3, <2>4
    <2>6. \A i \in SnapshotIds, w \in Versions :
            i # id \/ w # v => rows'[i][w] = rows[i][w]
      BY <1>3 DEF Ledger!Record
    <2>7. \A i \in SnapshotIds, w \in Versions :
            rows[i][w] # NoSignal => rows'[i][w] # NoSignal
      BY <2>5, <2>6
    <2>8. <<id, p[2]>> \in past' BY <1>0, <2>1 DEF StoreOK
    <2>9. q \in Genuine' BY <2>2, <2>3, <2>8 DEF Genuine
    <2>10. RowsLawful'
      <3> SUFFICES ASSUME NEW i \in SnapshotIds, NEW w \in Versions, rows'[i][w] # NoSignal
                   PROVE  \E g \in Genuine' : g[1] = i /\ g[3] = w /\ g[4] = rows'[i][w]
        BY DEF RowsLawful
      <3>1. CASE i = id /\ w = v BY <3>1, <2>3, <2>9
      <3>2. CASE i # id \/ w # v BY <3>2, <2>6, <1>1 DEF RowsLawful
      <3> QED BY <3>1, <3>2
    <2> QED BY <2>7, <2>10
  <1> QED BY <1>2, <1>3 DEF Ledger!LedgerNext, Ledger!Revise

-----------------------------------------------------------------------------
\* Every event on the channel carries the citation of a genuine signal, whatever its form.
LEMMA CirculatingCites ==
  ASSUME NEW e \in Circulating
  PROVE  \E q \in Genuine : /\ e.signal.snapshot = q[1]
                            /\ e.signal.featureHash = q[4].featureHash
                            /\ e.signal.dqReport = q[4].dqReport
  <1>1. ASSUME NEW q \in Genuine, e = deriveDecisionEvent(q[4])
        PROVE  /\ e.signal.snapshot = q[1]
               /\ e.signal.featureHash = q[4].featureHash
               /\ e.signal.dqReport = q[4].dqReport
    <2>1. e.signal = q[4] BY <1>1 DEF deriveDecisionEvent
    <2> QED BY <2>1, GeneratedNames DEF Genuine
  <1>2. ASSUME NEW q \in Genuine, e = OlderForm(deriveDecisionEvent(q[4]))
        PROVE  /\ e.signal.snapshot = q[1]
               /\ e.signal.featureHash = q[4].featureHash
               /\ e.signal.dqReport = q[4].dqReport
    <2>1. e.signal = [q[4] EXCEPT !.confidence = Unparsable]
      BY <1>2 DEF deriveDecisionEvent, OlderForm
    <2>2. q[4].snapshot = q[1] BY GeneratedNames DEF Genuine
    <2>3. q[4] = generateSignal(RowOf(q[1], q[2]), q[3]) /\ q[4] # Refused
      BY GeneratedNames DEF Genuine
    <2>4. /\ e.signal.snapshot = q[4].snapshot /\ e.signal.featureHash = q[4].featureHash
          /\ e.signal.dqReport = q[4].dqReport
      BY <2>1, <2>3 DEF generateSignal
    <2> QED BY <2>2, <2>4
  <1> QED BY <1>1, <1>2 DEF Circulating

\* What a genuine signal cites is not what a content the store has never held would be
\* cited as.
LEMMA NewContentIsUncited ==
  ASSUME PipelineAssumption, StoreOK, NEW q \in Genuine, NEW c \in Contents,
         <<q[1], c>> \notin past
  PROVE  ~(q[4].featureHash = c.features /\ q[4].dqReport = c.dq.id)
  <1>1. q \in Generations /\ <<q[1], q[2]>> \in past BY DEF Genuine
  <1>2. q[2] \in Contents BY <1>1, GeneratedNames
  <1>3. q[4].featureHash = q[2].features /\ q[4].dqReport = q[2].dq.id
    BY <1>1, GeneratedCites
  <1> QED BY <1>1, <1>2, <1>3 DEF PipelineAssumption

\* The signal of a row the tick works on is of the content the row was read with.
LEMMA CandidateCites ==
  ASSUME StoreOK, TickOK, NEW r \in todo, pc = "publish", Publishable(r)
  PROVE  \E q \in Genuine : /\ q[4] = Candidate(r) /\ q[1] = r.id /\ q[3] = resolved
                            /\ q[4].snapshot = r.id /\ q[4].strategy = resolved.id
                            /\ q[4].featureHash = r.features /\ q[4].dqReport = r.dq.id
  <1>1. PICK q \in Genuine : q[4] = Candidate(r) BY PublishedIsGenuine
  <1>2. /\ q[4].snapshot = r.id /\ q[4].featureHash = r.features
        /\ q[4].dqReport = r.dq.id /\ q[4].strategy = resolved.id
    BY <1>1 DEF Publishable, verifySignalLineage
  <1>3. q[1] = r.id BY <1>2, GeneratedNames DEF Genuine
  <1>4. q[3].id = resolved.id /\ q[3] \in Versions /\ resolved \in Versions
    BY <1>2, GeneratedNames DEF Genuine, TickOK
  <1>5. q[3] = resolved BY <1>4, PipelineAssumption DEF PipelineAssumption
  <1> QED BY <1>1, <1>2, <1>3, <1>5

\* A signal of the current content comes from a row of the current content.
LEMMA CurrentComesFromCurrent ==
  ASSUME StoreOK, TickOK, NEW r \in todo,
         r.features = snaps[r.id].features, r.dq.id = snaps[r.id].dq.id
  PROVE  RowIsCurrent(r)
  <1>1. PICK p \in past : SoundRow(p[2]) /\ r = RowOf(p[1], p[2])
    BY DEF TickOK, PastRows
  <1>2. p[1] \in SnapshotIds /\ p[2] \in Contents BY DEF StoreOK
  <1>3. r.id = p[1] /\ r.features = p[2].features /\ r.dq = p[2].dq
    BY <1>1 DEF RowOf
  <1>4. snaps[p[1]] \in Contents BY <1>2 DEF StoreOK
  <1>5. r.dq = snaps[r.id].dq BY <1>2, <1>3, <1>4, PipelineAssumption DEF PipelineAssumption
  <1> QED BY <1>1, <1>3, <1>5 DEF RowIsCurrent, RowOf

\* What upsert leaves in the table.
LEMMA UpsertWrites ==
  ASSUME PipelineAssumption, TableOK, NEW q \in Genuine, upsert(q[4])
  PROVE  /\ q[1] \in SnapshotIds /\ q[3] \in Versions
         /\ rows'[q[1]][q[3]] = q[4] /\ q[4] # NoSignal
         /\ \A id \in SnapshotIds, v \in Versions :
              id # q[1] \/ v # q[3] => rows'[id][v] = rows[id][v]
  <1> DEFINE id == q[1]  v == q[3]  g == q[4]
  <1>1. /\ id \in SnapshotIds /\ v \in Versions /\ g.snapshot = id /\ g.strategy = v.id
    BY GeneratedNames DEF Genuine
  <1>2. \A w \in Versions : w.id = g.strategy <=> w = v
    BY <1>1 DEF PipelineAssumption
  <1>3. rows' = [rows EXCEPT ![id] = [w \in Versions |-> IF w.id = g.strategy THEN g ELSE @[w]]]
    BY <1>1 DEF upsert
  <1>4. rows' = [i \in SnapshotIds |-> [w \in Versions |-> IF i = id /\ w = v THEN g ELSE rows[i][w]]]
    BY <1>1, <1>2, <1>3 DEF TableOK
  <1>5. g # NoSignal BY GeneratedCites DEF Genuine
  <1> QED BY <1>1, <1>4, <1>5

-----------------------------------------------------------------------------
\* A step thins the channel: the messages left keep their order, their events and the
\* marks they had, and under BullMQ none but a stalled one becomes late.
Thins(f) ==
  /\ f \in [DOMAIN channel' -> DOMAIN channel]
  /\ \A i, j \in DOMAIN channel' : i < j => f[i] < f[j]
  /\ \A i \in DOMAIN channel' :
       /\ channel'[i].event = channel[f[i]].event
       /\ ~Late(channel'[i]) => ~Late(channel[f[i]])
       /\ backend # "redis" /\ Late(channel'[i]) => Stalled(channel'[i])

\* The order survives what leaves the snapshots alone, adds no work and no row, and thins
\* the channel.
LEMMA OrderShrinks ==
  ASSUME InOrder, UNCHANGED <<snaps, rows, backend>>, todo' \subseteq todo,
         backend = "inprocess" => channel' = <<>>,
         NEW f, Thins(f)
  PROVE  InOrder'
  <1>1. \A r, t \in todo' : r.id = t.id => r = t BY DEF InOrder
  <1>2. \A g : IsCurrent(g)' <=> IsCurrent(g) BY DEF IsCurrent
  <1>3. \A r : RowIsCurrent(r)' <=> RowIsCurrent(r) BY DEF RowIsCurrent
  <1>4. \A i \in DOMAIN channel' :
          /\ f[i] \in DOMAIN channel /\ channel'[i].event = channel[f[i]].event
          /\ ~Late(channel'[i]) => ~Late(channel[f[i]])
    BY DEF Thins
  <1>5. \A id \in SnapshotIds, v \in Versions :
          rows'[id][v] # NoSignal /\ IsCurrent(rows'[id][v]) =>
            /\ \A k \in DOMAIN channel' :
                 ~Late(channel'[k]) /\ channel'[k].event.signal.snapshot = id =>
                   IsCurrent(channel'[k].event.signal)
            /\ \A r \in todo' : r.id = id => RowIsCurrent(r)
    BY <1>4 DEF InOrder
  <1>6. ASSUME NEW k \in DOMAIN channel', IsCurrent(channel'[k].event.signal)
        PROVE  /\ \A l \in DOMAIN channel' :
                    k < l /\ channel'[l].event.signal.snapshot = channel'[k].event.signal.snapshot
                      => IsCurrent(channel'[l].event.signal)
               /\ \A r \in todo' : r.id = channel'[k].event.signal.snapshot => RowIsCurrent(r)
    <2>1. \A l \in DOMAIN channel' : k < l => f[k] < f[l] BY DEF Thins
    <2> QED BY <1>4, <1>6, <2>1 DEF InOrder
  <1>7. backend' # "redis" => \A k \in DOMAIN channel' : Late(channel'[k]) => Stalled(channel'[k])
    BY DEF Thins
  <1> QED BY <1>1, <1>2, <1>3, <1>5, <1>6, <1>7 DEF InOrder, Late, Stalled

LEMMA OrderStays ==
  ASSUME InOrder, UNCHANGED <<snaps, rows, backend, channel>>, todo' \subseteq todo
  PROVE  InOrder'
  <1> DEFINE f == [i \in DOMAIN channel |-> i]
  <1>1. \A i \in DOMAIN channel : f[i] = i OBVIOUS
  <1>2. f \in [DOMAIN channel -> DOMAIN channel] OBVIOUS
  <1> HIDE DEF f
  <1>3. Thins(f) BY <1>1, <1>2 DEF Thins, InOrder
  <1>4. backend = "inprocess" => channel' = <<>> BY DEF InOrder
  <1> QED BY <1>3, <1>4, OrderShrinks

\* Under BullMQ what a deliverable message passes over is stalled.
LEMMA PassedOver ==
  ASSUME BusOK, InOrder, NEW k \in DOMAIN channel, Deliverable(k)
  PROVE  /\ \A j \in DOMAIN channel : j < k => Late(Passed(k)[j])
         /\ \A j \in DOMAIN channel :
              /\ Passed(k)[j].event = channel[j].event
              /\ ~Late(Passed(k)[j]) => ~Late(channel[j])
              /\ backend # "redis" /\ Late(Passed(k)[j]) => Stalled(Passed(k)[j])
         /\ backend # "inprocess"
  <1>0. Len(channel) \in Nat /\ DOMAIN channel = 1 .. Len(channel) BY DEF BusOK
  <1>1. 0 \in Nat /\ 0 <= Len(channel) /\ [j \in 1 .. 0 |-> k] \in [1 .. 0 -> DOMAIN channel]
    BY <1>0
  <1>2. \A j \in DOMAIN channel :
          /\ Passed(k)[j].event = channel[j].event
          /\ Passed(k)[j].marks = channel[j].marks \cup (IF j < k THEN {"late"} ELSE {})
    BY <1>1, TakeOff
  <1>3. backend # "inprocess" BY <1>0 DEF InOrder
  <1>4. backend # "redis" => \A j \in DOMAIN channel : j < k => Stalled(channel[j])
    BY <1>0 DEF Deliverable
  <1>5. backend # "redis" => \A j \in DOMAIN channel : Late(channel[j]) => Stalled(channel[j])
    BY DEF InOrder
  <1> QED BY <1>2, <1>3, <1>4, <1>5 DEF Late, Stalled

\* Taking a message off the channel.
LEMMA TakingThins ==
  ASSUME BusOK, InOrder, NEW k \in DOMAIN channel, Deliverable(k), channel' = Without(k)
  PROVE  \E f : /\ Thins(f)
                /\ \A i \in DOMAIN channel' : ~Late(channel'[i]) => k < f[i]
  <1>1. Len(channel) \in Nat /\ DOMAIN channel = 1 .. Len(channel) BY DEF BusOK
  <1> DEFINE f == [i \in 1 .. Len(channel) - 1 |-> IF i < k THEN i ELSE i + 1]
  <1>2. DOMAIN channel' = 1 .. Len(channel) - 1 BY DEF Without
  <1>3. f \in [DOMAIN channel' -> DOMAIN channel] BY <1>1, <1>2
  <1>4. \A i, j \in DOMAIN channel' : i < j => f[i] < f[j] BY <1>1, <1>2
  <1>5. \A i \in DOMAIN channel' : channel'[i] = Passed(k)[f[i]] /\ (f[i] < k \/ k < f[i])
    BY <1>1, <1>2 DEF Without
  <1> HIDE DEF f
  <1>6. \A i \in DOMAIN channel' :
          /\ channel'[i].event = channel[f[i]].event
          /\ ~Late(channel'[i]) => ~Late(channel[f[i]])
          /\ backend # "redis" /\ Late(channel'[i]) => Stalled(channel'[i])
    BY <1>3, <1>5, PassedOver
  <1>7. Thins(f) BY <1>3, <1>4, <1>6 DEF Thins
  <1>8. \A i \in DOMAIN channel' : ~Late(channel'[i]) => k < f[i]
    BY <1>3, <1>5, PassedOver
  <1> QED BY <1>7, <1>8

LEMMA OrderTakes ==
  ASSUME BusOK, InOrder, UNCHANGED <<snaps, rows, backend>>, todo' \subseteq todo,
         NEW k \in DOMAIN channel, Deliverable(k), channel' = Without(k)
  PROVE  InOrder'
  <1>1. PICK f : Thins(f) BY TakingThins
  <1>2. backend # "inprocess" BY PassedOver
  <1> QED BY <1>1, <1>2, OrderShrinks

\* Keeping the job the process died over.
LEMMA StallingThins ==
  ASSUME BusOK, InOrder, NEW k \in DOMAIN channel, Deliverable(k),
         channel' = [Passed(k) EXCEPT ![k].marks = @ \cup {"stalled"}]
  PROVE  \E f : /\ Thins(f)
                /\ \A i \in DOMAIN channel' : ~Late(channel'[i]) => k <= f[i]
  <1>1. Len(channel) \in Nat /\ DOMAIN channel = 1 .. Len(channel) BY DEF BusOK
  <1> DEFINE f == [i \in DOMAIN channel |-> i]
  <1>2. /\ DOMAIN channel' = DOMAIN channel
        /\ \A i \in DOMAIN channel :
             /\ channel'[i].event = channel[i].event
             /\ channel'[i].marks = channel[i].marks \cup (IF i < k THEN {"late"} ELSE {})
                                     \cup (IF i = k THEN {"stalled"} ELSE {})
    BY StalledOK
  <1>3. f \in [DOMAIN channel' -> DOMAIN channel] /\ \A i \in DOMAIN channel : f[i] = i
    BY <1>2
  <1> HIDE DEF f
  <1>4. \A i, j \in DOMAIN channel' : i < j => f[i] < f[j] BY <1>2, <1>3
  <1>5. backend # "redis" => \A j \in DOMAIN channel :
          (j < k => Stalled(channel[j])) /\ (Late(channel[j]) => Stalled(channel[j]))
    BY <1>1 DEF Deliverable, InOrder
  <1>6. \A i \in DOMAIN channel' :
          /\ channel'[i].event = channel[f[i]].event
          /\ ~Late(channel'[i]) => ~Late(channel[f[i]])
          /\ backend # "redis" /\ Late(channel'[i]) => Stalled(channel'[i])
    BY <1>2, <1>3, <1>5 DEF Late, Stalled
  <1>7. Thins(f) BY <1>3, <1>4, <1>6 DEF Thins
  <1>8. \A i \in DOMAIN channel' : ~Late(channel'[i]) => k <= f[i]
    BY <1>1, <1>2, <1>3 DEF Late
  <1> QED BY <1>7, <1>8

\* Publishing, or leaving an event of an older form: the event is appended, and cites
\* what the row was read with.
LEMMA OrderAppends ==
  ASSUME StoreOK, TickOK, BusOK, InOrder, UNCHANGED <<snaps, rows, backend>>,
         backend # "inprocess", NEW r \in todo, NEW e,
         e.signal.snapshot = r.id,
         e.signal.featureHash = r.features, e.signal.dqReport = r.dq.id,
         channel' = Append(channel, Message(e)), todo' \subseteq todo
  PROVE  InOrder'
  <1>0. /\ Len(channel) \in Nat /\ DOMAIN channel = 1 .. Len(channel)
        /\ DOMAIN channel' = 1 .. Len(channel) + 1
        /\ \A k \in DOMAIN channel : channel'[k] = channel[k]
        /\ channel'[Len(channel) + 1] = Message(e)
    BY DEF BusOK
  <1>1. \A s, t \in todo' : s.id = t.id => s = t BY DEF InOrder
  <1>2. Message(e).event = e /\ ~Late(Message(e)) BY DEF Message, Late
  <1>3. \A g : IsCurrent(g)' <=> IsCurrent(g) BY DEF IsCurrent
  <1>4. \A t : RowIsCurrent(t)' <=> RowIsCurrent(t) BY DEF RowIsCurrent
  <1>5. RowIsCurrent(r) => IsCurrent(e.signal) BY DEF RowIsCurrent, IsCurrent, RowOf
  <1>6. IsCurrent(e.signal) => RowIsCurrent(r)
    BY CurrentComesFromCurrent DEF IsCurrent
  <1>7. \A t \in todo : t.id = r.id => t = r BY DEF InOrder
  <1>8. \A k \in DOMAIN channel' : k \in DOMAIN channel \/ k = Len(channel) + 1 BY <1>0
  <1>9. \A id \in SnapshotIds, v \in Versions :
          rows'[id][v] # NoSignal /\ IsCurrent(rows'[id][v]) =>
            /\ \A k \in DOMAIN channel' :
                 ~Late(channel'[k]) /\ channel'[k].event.signal.snapshot = id =>
                   IsCurrent(channel'[k].event.signal)
            /\ \A t \in todo' : t.id = id => RowIsCurrent(t)
    BY <1>0, <1>2, <1>5, <1>8 DEF InOrder
  <1>10. ASSUME NEW k \in DOMAIN channel', IsCurrent(channel'[k].event.signal)
         PROVE  /\ \A l \in DOMAIN channel' :
                     k < l /\ channel'[l].event.signal.snapshot = channel'[k].event.signal.snapshot
                       => IsCurrent(channel'[l].event.signal)
                /\ \A t \in todo' : t.id = channel'[k].event.signal.snapshot => RowIsCurrent(t)
    <2>1. CASE k = Len(channel) + 1
      <3>1. channel'[k].event = e /\ ~\E l \in DOMAIN channel' : k < l BY <1>0, <1>2, <2>1
      <3> QED BY <3>1, <1>6, <1>7, <1>10
    <2>2. CASE k \in DOMAIN channel
      <3>1. channel'[k] = channel[k] BY <1>0, <2>2
      <3>2. \A t \in todo : t.id = channel[k].event.signal.snapshot => RowIsCurrent(t)
        BY <1>10, <2>2, <3>1 DEF InOrder
      <3>3. ASSUME NEW l \in DOMAIN channel', k < l,
                   channel'[l].event.signal.snapshot = channel'[k].event.signal.snapshot
            PROVE  IsCurrent(channel'[l].event.signal)
        <4>1. CASE l \in DOMAIN channel
          BY <1>0, <1>10, <2>2, <3>1, <3>3, <4>1 DEF InOrder
        <4>2. CASE l = Len(channel) + 1
          <5>1. channel'[l].event = e BY <1>0, <1>2, <4>2
          <5> QED BY <1>5, <3>1, <3>2, <3>3, <5>1
        <4> QED BY <1>8, <4>1, <4>2
      <3> QED BY <3>1, <3>2, <3>3
    <2> QED BY <1>8, <2>1, <2>2
  <1>11. backend' # "redis" => \A k \in DOMAIN channel' : Late(channel'[k]) => Stalled(channel'[k])
    BY <1>0, <1>2, <1>8 DEF InOrder
  <1> QED BY <1>1, <1>3, <1>4, <1>9, <1>10, <1>11 DEF InOrder, Late, Stalled

\* A write: everything later of the snapshot is current if the write is.
LEMMA OrderWrites ==
  ASSUME PipelineAssumption, TableOK, InOrder, NEW q \in Genuine, upsert(q[4]),
         UNCHANGED <<snaps, backend>>, todo' \subseteq todo,
         backend = "inprocess" => channel' = <<>>,
         NEW f, Thins(f),
         IsCurrent(q[4]) =>
           /\ \A k \in DOMAIN channel' :
                ~Late(channel'[k]) /\ channel'[k].event.signal.snapshot = q[1] =>
                  IsCurrent(channel'[k].event.signal)
           /\ \A r \in todo' : r.id = q[1] => RowIsCurrent(r)
  PROVE  InOrder'
  <1>1. \A r, t \in todo' : r.id = t.id => r = t BY DEF InOrder
  <1>2. \A g : IsCurrent(g)' <=> IsCurrent(g) BY DEF IsCurrent
  <1>3. \A r : RowIsCurrent(r)' <=> RowIsCurrent(r) BY DEF RowIsCurrent
  <1>4. \A i \in DOMAIN channel' :
          /\ f[i] \in DOMAIN channel /\ channel'[i].event = channel[f[i]].event
          /\ ~Late(channel'[i]) => ~Late(channel[f[i]])
    BY DEF Thins
  <1>5. ASSUME NEW id \in SnapshotIds, NEW v \in Versions,
               rows'[id][v] # NoSignal, IsCurrent(rows'[id][v])
        PROVE  /\ \A k \in DOMAIN channel' :
                    ~Late(channel'[k]) /\ channel'[k].event.signal.snapshot = id =>
                      IsCurrent(channel'[k].event.signal)
               /\ \A r \in todo' : r.id = id => RowIsCurrent(r)
    <2>1. CASE id = q[1] /\ v = q[3] BY <1>5, <2>1, UpsertWrites
    <2>2. CASE id # q[1] \/ v # q[3]
      <3>1. rows'[id][v] = rows[id][v] BY <2>2, UpsertWrites
      <3> QED BY <1>4, <1>5, <3>1 DEF InOrder
    <2> QED BY <2>1, <2>2
  <1>6. ASSUME NEW k \in DOMAIN channel', IsCurrent(channel'[k].event.signal)
        PROVE  /\ \A l \in DOMAIN channel' :
                    k < l /\ channel'[l].event.signal.snapshot = channel'[k].event.signal.snapshot
                      => IsCurrent(channel'[l].event.signal)
               /\ \A r \in todo' : r.id = channel'[k].event.signal.snapshot => RowIsCurrent(r)
    <2>1. \A l \in DOMAIN channel' : k < l => f[k] < f[l] BY DEF Thins
    <2> QED BY <1>4, <1>6, <2>1 DEF InOrder
  <1>7. backend' # "redis" => \A k \in DOMAIN channel' : Late(channel'[k]) => Stalled(channel'[k])
    BY DEF Thins
  <1> QED BY <1>1, <1>2, <1>3, <1>5, <1>6, <1>7 DEF InOrder, Late, Stalled

\* What is delivered and leaves the channel thinned: nothing but what was published
\* after it is left that is not late.
LEMMA OrderDelivers ==
  ASSUME PipelineAssumption, TableOK, InOrder, NEW q \in Genuine, upsert(q[4]),
         UNCHANGED <<snaps, backend>>, todo' \subseteq todo, backend # "inprocess",
         NEW k \in DOMAIN channel, q[4] = channel[k].event.signal,
         NEW f, Thins(f),
         \A i \in DOMAIN channel' : ~Late(channel'[i]) => k = f[i] \/ k < f[i]
  PROVE  InOrder'
  <1>1. \A i \in DOMAIN channel' :
          f[i] \in DOMAIN channel /\ channel'[i].event = channel[f[i]].event
    BY DEF Thins
  <1>2. q[4].snapshot = q[1] BY GeneratedNames DEF Genuine
  <1>3. ASSUME IsCurrent(q[4])
        PROVE  /\ \A i \in DOMAIN channel' :
                    ~Late(channel'[i]) /\ channel'[i].event.signal.snapshot = q[1] =>
                      IsCurrent(channel'[i].event.signal)
               /\ \A r \in todo' : r.id = q[1] => RowIsCurrent(r)
    BY <1>1, <1>2, <1>3 DEF InOrder
  <1> QED BY <1>3, OrderWrites

-----------------------------------------------------------------------------
\* What CurrentRowStays says of one step.
Overtakes(g) ==
  \E k \in DOMAIN channel :
    /\ channel[k].event.signal = g
    /\ Late(channel[k])
    /\ backend = "redis" \/ Stalled(channel[k])

CurrentStep ==
  \A id \in SnapshotIds, v \in Versions :
    /\ rows[id][v] # NoSignal /\ rows'[id][v] # rows[id][v]
    /\ rows[id][v].featureHash = snaps[id].features
    /\ rows[id][v].dqReport = snaps[id].dq.id
    => Overtakes(rows'[id][v])

\* A write that is current whenever it meets a current row does not change that row.
LEMMA WriteKeepsCurrent ==
  ASSUME PipelineAssumption, TableOK, RowsLawful, NEW q \in Genuine, upsert(q[4]),
         ~Overtakes(q[4]) =>
           \A v \in Versions :
             rows[q[1]][v] # NoSignal /\ IsCurrent(rows[q[1]][v]) => IsCurrent(q[4])
  PROVE  CurrentStep
  <1> SUFFICES ASSUME NEW id \in SnapshotIds, NEW v \in Versions,
                      rows[id][v] # NoSignal, rows'[id][v] # rows[id][v],
                      rows[id][v].featureHash = snaps[id].features,
                      rows[id][v].dqReport = snaps[id].dq.id,
                      ~Overtakes(rows'[id][v])
               PROVE  FALSE
    BY DEF CurrentStep
  <1>1. id = q[1] /\ v = q[3] /\ rows'[id][v] = q[4] BY UpsertWrites
  <1>2. PICK p \in Genuine : p[1] = id /\ p[3] = v /\ p[4] = rows[id][v]
    BY DEF RowsLawful
  <1>3. p \in Generations /\ q \in Generations BY DEF Genuine
  <1>4. p[4].snapshot = id /\ q[4].snapshot = id BY <1>1, <1>2, <1>3, GeneratedNames
  <1>5. IsCurrent(rows[id][v]) BY <1>2, <1>4 DEF IsCurrent
  <1>6. IsCurrent(q[4]) BY <1>1, <1>5
  <1>7. p[4].featureHash = q[4].featureHash /\ p[4].dqReport = q[4].dqReport
    BY <1>2, <1>4, <1>6 DEF IsCurrent
  <1>8. p[4] = q[4] BY <1>1, <1>2, <1>3, <1>7, CitationDecides
  <1> QED BY <1>1, <1>2, <1>8

\* Writing the signal of a message on the channel.
LEMMA MessageKeepsCurrent ==
  ASSUME PipelineAssumption, TableOK, RowsLawful, InOrder, BusOK,
         NEW q \in Genuine, upsert(q[4]),
         NEW k \in DOMAIN channel, q[4] = channel[k].event.signal
  PROVE  CurrentStep
  <1>1. q[4].snapshot = q[1] /\ q[1] \in SnapshotIds BY GeneratedNames DEF Genuine
  <1>2. CASE Late(channel[k])
    <2>1. Overtakes(q[4]) BY <1>2 DEF Overtakes, InOrder
    <2> QED BY <2>1, WriteKeepsCurrent
  <1>3. CASE ~Late(channel[k])
    <2>1. \A v \in Versions :
            rows[q[1]][v] # NoSignal /\ IsCurrent(rows[q[1]][v]) => IsCurrent(q[4])
      BY <1>1, <1>3 DEF InOrder
    <2> QED BY <2>1, WriteKeepsCurrent
  <1> QED BY <1>2, <1>3

\* What was decided and written stays so.
LEMMA DecidedStays ==
  ASSUME DecidedWritten, UNCHANGED backend,
         decisions' \cup executed' \subseteq decisions \cup executed,
         \A id \in SnapshotIds, v \in Versions :
           rows[id][v] # NoSignal => rows'[id][v] # NoSignal
  PROVE  DecidedWritten'
  BY DEF DecidedWritten

\* The steps that write the table.
Writes == \/ \E r \in todo : PublishInProcess(r)
          \/ \E k \in DOMAIN channel : Deliver(k)
          \/ \E j, k \in DOMAIN channel : DeliverRaced(j, k)
          \/ \E k \in DOMAIN channel : CrashMidJob(k)

\* Every other step.
LEMMA UnwrittenStep ==
  ASSUME PipelineAssumption, PipelineInv, TrustInv, [Next]_vars, ~Writes, UNCHANGED rows
  PROVE  InOrder' /\ DecidedWritten' /\ CurrentStep
  <1> USE DEF PipelineInv, TrustInv
  <1>0. CurrentStep BY DEF CurrentStep
  <1>1. ASSUME UNCHANGED backend, decisions' \cup executed' \subseteq decisions \cup executed
        PROVE  DecidedWritten'
    BY <1>1, DecidedStays
  <1>2. ASSUME UNCHANGED <<snaps, backend, channel>>, todo' \subseteq todo PROVE InOrder'
    BY <1>2, OrderStays
  <1>3. ASSUME NEW id \in SnapshotIds, NEW c \in Contents, Recompute(id, c)
        PROVE  InOrder' /\ DecidedWritten'
    <2> USE <1>3 DEF Recompute, tickVars, busVars
    <2>1. DecidedWritten' BY <1>1
    <2>2. snaps' = [snaps EXCEPT ![id] = c] /\ snaps \in [SnapshotIds -> Contents \cup {NoRow}]
      BY DEF StoreOK
    <2>3. \A q \in Genuine : q[1] = id =>
            ~(q[4].featureHash = snaps'[id].features /\ q[4].dqReport = snaps'[id].dq.id)
      BY <2>2, NewContentIsUncited
    <2>4. \A q \in Genuine : q[1] \in SnapshotIds /\ q[4].snapshot = q[1]
      BY GeneratedNames DEF Genuine
    <2>5. \A i \in SnapshotIds : i # id => snaps'[i] = snaps[i] BY <2>2
    <2>6. ASSUME NEW g, NEW q \in Genuine, g.snapshot = q[1],
                 g.featureHash = q[4].featureHash, g.dqReport = q[4].dqReport,
                 IsCurrent(g)'
          PROVE  g.snapshot # id /\ IsCurrent(g)
      BY <2>3, <2>4, <2>5, <2>6 DEF IsCurrent
    <2>7. \A i \in SnapshotIds, v \in Versions :
            rows[i][v] # NoSignal /\ IsCurrent(rows[i][v])' =>
              i # id /\ IsCurrent(rows[i][v])
      BY <2>4, <2>6 DEF RowsLawful
    <2>8. \A k \in DOMAIN channel : IsCurrent(channel[k].event.signal)' =>
            /\ channel[k].event.signal.snapshot # id
            /\ IsCurrent(channel[k].event.signal)
      BY <2>6, CirculatingCites, CarriesEvents
    <2>9. \A r : r.id \in SnapshotIds /\ r.id # id /\ RowIsCurrent(r) => RowIsCurrent(r)'
      BY <2>5 DEF RowIsCurrent
    <2>10. \A r \in todo : r.id \in SnapshotIds
      BY DEF TickOK, PastRows, StoreOK, RowOf
    <2>11. \A k \in DOMAIN channel : channel[k].event.signal.snapshot \in SnapshotIds
      BY <2>4, CirculatingCites, CarriesEvents
    <2>12. \A g : g.snapshot \in SnapshotIds /\ g.snapshot # id /\ IsCurrent(g) => IsCurrent(g)'
      BY <2>5 DEF IsCurrent
    <2>13. ASSUME NEW i \in SnapshotIds, NEW v \in Versions,
                  rows[i][v] # NoSignal, IsCurrent(rows[i][v])'
           PROVE  /\ \A k \in DOMAIN channel :
                       ~Late(channel[k]) /\ channel[k].event.signal.snapshot = i =>
                         IsCurrent(channel[k].event.signal)'
                  /\ \A r \in todo : r.id = i => RowIsCurrent(r)'
      BY <2>7, <2>9, <2>11, <2>12, <2>13 DEF InOrder
    <2>14. ASSUME NEW k \in DOMAIN channel, IsCurrent(channel[k].event.signal)'
           PROVE  /\ \A l \in DOMAIN channel :
                       k < l /\ channel[l].event.signal.snapshot = channel[k].event.signal.snapshot
                         => IsCurrent(channel[l].event.signal)'
                  /\ \A r \in todo : r.id = channel[k].event.signal.snapshot => RowIsCurrent(r)'
      BY <2>8, <2>9, <2>10, <2>11, <2>12, <2>14 DEF InOrder
    <2> QED BY <2>1, <2>13, <2>14 DEF InOrder, Late, Stalled
  <1>4. ASSUME NEW v \in Versions \cup {NoVersion}, Activate(v)
        PROVE  InOrder' /\ DecidedWritten'
    BY <1>1, <1>2, <1>4 DEF Activate, tickVars, busVars
  <1>5. CASE StartTick \/ FinishPublishing \/ RunExecutionStage
    <2>1. todo' \subseteq todo /\ UNCHANGED <<snaps, backend, channel>>
      BY <1>5 DEF StartTick, FinishPublishing, RunExecutionStage, Idle, inputVars, busVars
    <2>2. decisions' \cup executed' \subseteq decisions \cup executed
      BY <1>5 DEF StartTick, FinishPublishing, RunExecutionStage, Idle
    <2> QED BY <1>0, <1>1, <1>2, <2>1, <2>2
  <1>6. CASE ReadSnapshots
    <2> USE <1>6 DEF ReadSnapshots, inputVars, busVars
    <2>1. decisions' \cup executed' \subseteq decisions \cup executed BY DEF Idle
    <2>2. CASE Idle
      <3>1. todo' \subseteq todo BY <2>2 DEF Idle
      <3> QED BY <1>0, <1>1, <1>2, <2>1, <3>1
    <2>3. CASE ~Idle
      <3>1. todo' = LatestRows BY <2>3
      <3>2. \A r \in todo' : RowIsCurrent(r)' BY <3>1 DEF LatestRows, RowOf, RowIsCurrent
      <3>3. \A r, t \in todo' : r.id = t.id => r = t BY <3>2 DEF RowIsCurrent
      <3>4. \A g : IsCurrent(g)' <=> IsCurrent(g) BY DEF IsCurrent
      <3>5. InOrder' BY <3>2, <3>3, <3>4 DEF InOrder, Late, Stalled
      <3> QED BY <1>0, <1>1, <2>1, <3>5
    <2> QED BY <2>2, <2>3
  <1>7. ASSUME NEW r \in todo, SkipSnapshot(r) \/ PublishFails(r)
        PROVE  InOrder' /\ DecidedWritten'
    <2>1. todo' \subseteq todo /\ UNCHANGED <<snaps, backend, channel>>
      BY <1>7 DEF SkipSnapshot, PublishFails, Idle, inputVars, busVars
    <2>2. decisions' \cup executed' \subseteq decisions \cup executed
      BY <1>7 DEF SkipSnapshot, PublishFails, Idle
    <2> QED BY <1>1, <1>2, <2>1, <2>2
  <1>8. ASSUME NEW r \in todo, PublishDistributed(r)
        PROVE  InOrder' /\ DecidedWritten'
    <2> USE <1>8 DEF PublishDistributed, Published, Working, inputVars
    <2>1. DecidedWritten' BY DEF DecidedWritten
    <2>2. PICK q \in Genuine : /\ q[4] = Candidate(r) /\ q[4].snapshot = r.id
                               /\ q[4].featureHash = r.features /\ q[4].dqReport = r.dq.id
      BY CandidateCites
    <2>3. Event(r).signal = q[4] BY <2>2 DEF Event, deriveDecisionEvent
    <2>4. todo' \subseteq todo OBVIOUS
    <2>5. CASE subscribed
      <3>1. channel' = Append(channel, Message(Event(r))) BY <2>5
      <3>2. InOrder' BY <2>2, <2>3, <2>4, <3>1, OrderAppends
      <3> QED BY <2>1, <3>2
    <2>6. CASE ~subscribed BY <1>2, <2>1, <2>4, <2>6
    <2> QED BY <2>5, <2>6
  <1>9. ASSUME NEW r \in todo, LegacyEvent(r)
        PROVE  InOrder' /\ DecidedWritten'
    <2> USE <1>9 DEF LegacyEvent, Working, inputVars, tickVars
    <2>1. DecidedWritten' BY DEF DecidedWritten
    <2>2. PICK q \in Genuine : /\ q[4] = Candidate(r) /\ q[4].snapshot = r.id
                               /\ q[4].featureHash = r.features /\ q[4].dqReport = r.dq.id
      BY CandidateCites
    <2>3. OlderForm(Event(r)).signal = [q[4] EXCEPT !.confidence = Unparsable]
      BY <2>2 DEF Event, deriveDecisionEvent, OlderForm
    <2>4. q[4] = generateSignal(RowOf(q[1], q[2]), q[3]) /\ q[4] # Refused
      BY GeneratedNames DEF Genuine
    <2>5. /\ OlderForm(Event(r)).signal.snapshot = r.id
          /\ OlderForm(Event(r)).signal.featureHash = r.features
          /\ OlderForm(Event(r)).signal.dqReport = r.dq.id
      BY <2>2, <2>3, <2>4 DEF generateSignal
    <2>6. InOrder' BY <2>5, OrderAppends
    <2> QED BY <2>1, <2>6
  <1>10. ASSUME NEW k \in DOMAIN channel, Reject(k)
         PROVE  InOrder' /\ DecidedWritten'
    BY <1>1, <1>10, OrderTakes DEF Reject, inputVars, tickVars
  <1>11. ASSUME Down, UNCHANGED <<inputVars, backend, executed>>
         PROVE  InOrder' /\ DecidedWritten'
    <2> USE <1>11 DEF Down, Idle, inputVars
    <2>1. DecidedWritten' BY <1>1
    <2>2. CASE backend = "bullmq" BY <1>2, <2>1, <2>2
    <2>3. CASE backend # "bullmq"
      <3>1. channel' = <<>> /\ todo' = {} BY <2>3
      <3>2. DOMAIN channel' = {} BY <3>1
      <3> QED BY <2>1, <3>1, <3>2 DEF InOrder
    <2> QED BY <2>2, <2>3
  <1>12. ASSUME NEW k \in DOMAIN channel, DeliverFails(k)
         PROVE  InOrder' /\ DecidedWritten'
    <2>1. CASE Down BY <1>11, <1>12, <2>1 DEF DeliverFails
    <2>2. CASE ~Down
      BY <1>1, <1>12, <2>2, OrderTakes DEF DeliverFails, inputVars, tickVars
    <2> QED BY <2>1, <2>2
  <1>13. CASE Crash BY <1>0, <1>11, <1>13 DEF Crash
  <1>14. CASE Subscribe \/ Restart \/ UNCHANGED vars
    <2>1. UNCHANGED <<snaps, backend, channel, todo, decisions, executed>>
      BY <1>14 DEF Subscribe, Restart, vars, inputVars, tickVars, busVars
    <2> QED BY <1>0, <1>1, <1>2, <2>1
  <1> QED
    BY <1>0, <1>3, <1>4, <1>5, <1>6, <1>7, <1>8, <1>9, <1>10, <1>12, <1>13, <1>14
    DEF Next, Environment, Tick, Delivery, Fault, Writes

\* Every write: in process, by the subscriber, and by the winner of a race.
LEMMA WrittenStep ==
  ASSUME PipelineAssumption, PipelineInv, TrustInv, [Next]_vars, Writes
  PROVE  InOrder' /\ DecidedWritten' /\ CurrentStep
  <1> USE DEF PipelineInv, TrustInv
  <1>0. \A id \in SnapshotIds, v \in Versions :
          rows[id][v] # NoSignal => rows'[id][v] # NoSignal
    BY PipelineStep, LedgerKeeps
  <1>1. ASSUME NEW r \in todo, PublishInProcess(r)
        PROVE  InOrder' /\ DecidedWritten' /\ CurrentStep
    <2> USE <1>1 DEF PublishInProcess, Published, Working, inputVars, busVars
    <2>1. PICK q \in Genuine : /\ q[4] = Candidate(r) /\ q[1] = r.id /\ q[3] = resolved
                               /\ q[4].snapshot = r.id /\ q[4].strategy = resolved.id
                               /\ q[4].featureHash = r.features /\ q[4].dqReport = r.dq.id
      BY CandidateCites
    <2>2. upsert(q[4]) BY <2>1
    <2>3. Event(r).signal = q[4] BY <2>1 DEF Event, deriveDecisionEvent
    <2>4. q[1] \in SnapshotIds /\ q[3] \in Versions /\ rows'[q[1]][q[3]] # NoSignal
      BY <2>2, UpsertWrites
    <2>5. decisions' = decisions \cup {Event(r)} /\ UNCHANGED <<executed, backend>> OBVIOUS
    <2>6. DecidedWritten' BY <1>0, <2>1, <2>3, <2>4, <2>5 DEF DecidedWritten
    <2>7. channel = <<>> /\ channel' = <<>> /\ DOMAIN channel' = {} BY DEF InOrder
    <2>8. \A t \in todo' : t.id # q[1] BY <2>1 DEF InOrder
    <2>9. InOrder'
      <3>1. [i \in {} |-> i] \in [DOMAIN channel' -> DOMAIN channel] BY <2>7
      <3>2. Thins([i \in {} |-> i]) BY <2>7, <3>1 DEF Thins
      <3> QED BY <2>2, <2>7, <2>8, <3>2, OrderWrites
    <2>10. RowIsCurrent(r) => IsCurrent(q[4])
      BY <2>1 DEF RowIsCurrent, IsCurrent, RowOf
    <2>11. \A v \in Versions :
             rows[q[1]][v] # NoSignal /\ IsCurrent(rows[q[1]][v]) => IsCurrent(q[4])
      BY <2>1, <2>4, <2>10 DEF InOrder
    <2> QED BY <2>2, <2>6, <2>9, <2>11, WriteKeepsCurrent
  <1>2. ASSUME NEW k \in DOMAIN channel, Deliver(k)
        PROVE  InOrder' /\ DecidedWritten' /\ CurrentStep
    <2> USE <1>2 DEF Deliver, inputVars, tickVars
    <2>1. channel[k].event \in Circulating BY CarriesEvents
    <2>2. PICK q \in Genuine : q[4] = channel[k].event.signal BY <2>1, AdmittedIsGenuine
    <2>3. upsert(q[4]) BY <2>2
    <2>4. DecidedWritten' BY <1>0, DecidedStays
    <2>5. backend # "inprocess" BY PassedOver
    <2>6. PICK f : Thins(f) /\ \A i \in DOMAIN channel' : ~Late(channel'[i]) => k < f[i]
      BY TakingThins
    <2>7. InOrder' BY <2>2, <2>3, <2>5, <2>6, OrderDelivers
    <2>8. CurrentStep BY <2>2, <2>3, MessageKeepsCurrent
    <2> QED BY <2>4, <2>7, <2>8
  <1>3. ASSUME NEW j \in DOMAIN channel, NEW k \in DOMAIN channel, DeliverRaced(j, k)
        PROVE  InOrder' /\ DecidedWritten' /\ CurrentStep
    <2> USE <1>3 DEF DeliverRaced, inputVars, tickVars
    <2>1. Len(channel) \in Nat /\ DOMAIN channel = 1 .. Len(channel) BY DEF BusOK
    <2>2. DecidedWritten' BY <1>0, DecidedStays
    <2>3. PICK w \in {j, k} : upsert(channel[w].event.signal) OBVIOUS
    <2>4. channel[w].event \in Circulating /\ w \in DOMAIN channel BY CarriesEvents
    <2>5. PICK q \in Genuine : q[4] = channel[w].event.signal BY <2>4, AdmittedIsGenuine
    <2>6. upsert(q[4]) BY <2>3, <2>5
    <2>7. CurrentStep BY <2>4, <2>5, <2>6, MessageKeepsCurrent
    <2> DEFINE f == [i \in 1 .. Len(channel) - 2 |->
                       IF i < j THEN i ELSE IF i < k - 1 THEN i + 1 ELSE i + 2]
    <2>8. DOMAIN channel' = 1 .. Len(channel) - 2 OBVIOUS
    <2>9. f \in [DOMAIN channel' -> DOMAIN channel] BY <2>1, <2>8
    <2>10. \A h, i \in DOMAIN channel' : h < i => f[h] < f[i] BY <2>1, <2>8
    <2>11. \A i \in DOMAIN channel' : channel'[i] = Passed(k)[f[i]] BY <2>8
    <2>12. \A i \in DOMAIN channel' : f[i] < k \/ (k < f[i] /\ w < f[i]) BY <2>1, <2>8
    <2> HIDE DEF f
    <2>13. Thins(f) BY <2>9, <2>10, <2>11, PassedOver DEF Thins
    <2>14. \A i \in DOMAIN channel' : ~Late(channel'[i]) => w < f[i]
      BY <2>9, <2>11, <2>12, PassedOver
    <2>15. backend # "inprocess" BY PassedOver
    <2>16. InOrder' BY <2>4, <2>5, <2>6, <2>13, <2>14, <2>15, OrderDelivers
    <2> QED BY <2>2, <2>7, <2>16
  <1>4. ASSUME NEW k \in DOMAIN channel, CrashMidJob(k)
        PROVE  InOrder' /\ DecidedWritten' /\ CurrentStep
    <2> USE <1>4 DEF CrashMidJob, Idle, inputVars
    <2>1. DecidedWritten' BY <1>0, DecidedStays
    <2>2. backend # "inprocess" /\ todo' \subseteq todo OBVIOUS
    <2>3. \A m \in DOMAIN channel, n \in DOMAIN channel : m <= n => m = n \/ m < n BY DEF BusOK
    <2>4. PICK f : Thins(f) /\ \A i \in DOMAIN channel' : ~Late(channel'[i]) => k = f[i] \/ k < f[i]
      <3>1. CASE channel' = Without(k) BY <3>1, TakingThins
      <3>2. CASE channel' = [Passed(k) EXCEPT ![k].marks = @ \cup {"stalled"}]
        <4>1. PICK f : Thins(f) /\ \A i \in DOMAIN channel' : ~Late(channel'[i]) => k <= f[i]
          BY <3>2, StallingThins
        <4>2. \A i \in DOMAIN channel' : f[i] \in DOMAIN channel BY <4>1 DEF Thins
        <4> QED BY <2>3, <4>1, <4>2
      <3> QED BY <3>1, <3>2
    <2>5. CASE UNCHANGED rows
      <3>1. InOrder' BY <2>2, <2>4, <2>5, OrderShrinks
      <3> QED BY <2>1, <2>5, <3>1 DEF CurrentStep
    <2>6. CASE admitDecisionEvent(channel[k].event) /\ upsert(channel[k].event.signal)
      <3>1. channel[k].event \in Circulating BY CarriesEvents
      <3>2. PICK q \in Genuine : q[4] = channel[k].event.signal
        BY <2>6, <3>1, AdmittedIsGenuine
      <3>3. upsert(q[4]) BY <2>6, <3>2
      <3>4. InOrder' BY <2>2, <2>4, <3>2, <3>3, OrderDelivers
      <3>5. CurrentStep BY <3>2, <3>3, MessageKeepsCurrent
      <3> QED BY <2>1, <3>4, <3>5
    <2> QED BY <2>5, <2>6
  <1> QED BY <1>1, <1>2, <1>3, <1>4 DEF Writes

LEMMA TrustStep ==
  ASSUME PipelineAssumption, PipelineInv, TrustInv, [Next]_vars
  PROVE  TrustInv' /\ CurrentStep
  <1>1. RowsLawful' BY PipelineStep, LedgerKeeps DEF PipelineInv, TrustInv
  <1>2. CASE Writes BY <1>1, <1>2, WrittenStep DEF TrustInv
  <1>3. CASE ~Writes
    <2>1. UNCHANGED rows
      BY <1>3 DEF Next, Environment, Tick, Delivery, Fault, Writes, Recompute, Activate,
         StartTick, ReadSnapshots, SkipSnapshot, PublishDistributed, PublishFails,
         FinishPublishing, RunExecutionStage, Subscribe, Reject, DeliverFails, LegacyEvent,
         Crash, Restart, vars
    <2> QED BY <1>1, <1>3, <2>1, UnwrittenStep DEF TrustInv
  <1> QED BY <1>2, <1>3

LEMMA TrustStarts ==
  ASSUME Init
  PROVE  TrustInv
  <1> USE DEF Init
  <1>1. RowsLawful BY DEF RowsLawful
  <1>2. DecidedWritten BY DEF DecidedWritten
  <1>3. InOrder
    <2>1. DOMAIN channel = {} /\ todo = {} OBVIOUS
    <2> QED BY <2>1 DEF InOrder
  <1> QED BY <1>1, <1>2, <1>3 DEF TrustInv

\* A lawful row replays: the rule, run over the content its snapshot now has, returns the
\* row if its citation is of that content, and refuses the lineage otherwise.
LEMMA LawfulReplays ==
  ASSUME PipelineAssumption, StoreOK, RowsLawful
  PROVE  ReplayNeverMismatches
  <1> SUFFICES ASSUME NEW id \in SnapshotIds, NEW v \in Versions, rows[id][v] # NoSignal
               PROVE  replayEngineSignal(rows[id][v], RowOf(id, snaps[id]), v) =
                        IF rows[id][v].featureHash = snaps[id].features
                           /\ rows[id][v].dqReport = snaps[id].dq.id
                        THEN "MATCH" ELSE "ABORTED_LINEAGE"
    BY DEF ReplayNeverMismatches
  <1> DEFINE g == rows[id][v]  now == RowOf(id, snaps[id])
  <1>1. PICK q \in Genuine : q[1] = id /\ q[3] = v /\ q[4] = g BY DEF RowsLawful
  <1>2. q \in Generations /\ <<id, q[2]>> \in past BY <1>1 DEF Genuine
  <1>3. q[2] \in Contents /\ snaps[id] \in Contents
    <2>1. snaps[<<id, q[2]>>[1]] # NoRow BY <1>2 DEF StoreOK
    <2> QED BY <1>2, <2>1, GeneratedNames DEF StoreOK
  <1>4. /\ g = generateSignal(RowOf(id, q[2]), v) /\ g # Refused
        /\ g.snapshot = id /\ g.strategy = v.id
    BY <1>1, <1>2, GeneratedNames
  <1>5. /\ g.featureHash = q[2].features /\ g.dqReport = q[2].dq.id
        /\ g.datasetHash = q[2].dq.dataset /\ g.symbol = id.symbol
        /\ g.params = resolveSignalParams(v.parameters)
        /\ Admitted(q[2].dq) /\ q[2].features # Corrupt
    BY <1>1, <1>2, GeneratedCites
  <1>6. now.id = id /\ now.features = snaps[id].features /\ now.dq = snaps[id].dq
    BY DEF RowOf
  <1>7. CASE ~(g.featureHash = snaps[id].features /\ g.dqReport = snaps[id].dq.id)
    BY <1>6, <1>7 DEF replayEngineSignal, verifySignalLineage
  <1>8. CASE g.featureHash = snaps[id].features /\ g.dqReport = snaps[id].dq.id
    <2>1. q[2].features = snaps[id].features /\ q[2].dq.id = snaps[id].dq.id
      BY <1>5, <1>8
    <2>2. q[2].dq = snaps[id].dq BY <1>3, <2>1 DEF PipelineAssumption
    <2>3. verifySignalLineage(g, now, v)
      BY <1>4, <1>5, <1>6, <2>1, <2>2 DEF verifySignalLineage
    <2>4. Admitted(now.dq) /\ now.features # Corrupt BY <1>5, <1>6, <2>1, <2>2
    <2>5. resolveSignalParams(g.params) = g.params
      BY <1>5 DEF resolveSignalParams
    <2> DEFINE d == decideSignal(now.features, g.params)
    <2>6. g.decision = d.decision /\ g.confidence = d.confidence /\ g.side = d.side
      BY <1>4, <1>5, <1>6, <2>1 DEF generateSignal, RowOf
    <2> HIDE DEF d
    <2>7. replayEngineSignal(g, now, v) =
            IF d.decision = g.decision /\ d.confidence = g.confidence /\ d.side = g.side
            THEN "MATCH" ELSE "DECISION_MISMATCH"
      BY <2>3, <2>4, <2>5 DEF replayEngineSignal, d
    <2> QED BY <1>8, <2>6, <2>7
  <1> QED BY <1>7, <1>8

-----------------------------------------------------------------------------
\* The table can be trusted, whatever the backend, the bounds and the interleaving: a row
\* replays exactly or its lineage is refused, and in process nothing reaches the execution
\* stage before its row is in the table.
THEOREM TableIsTrusted == Spec => []TableIsTrue
  <1>1. Init => TrustInv BY TrustStarts
  <1>2. PipelineInv /\ TrustInv /\ [Next]_vars => TrustInv'
    BY TrustStep, PipelineAssumption
  <1>3. PipelineInv /\ TrustInv => TableIsTrue
    BY LawfulReplays, PipelineAssumption
    DEF PipelineInv, TrustInv, TableIsTrue, DecidedWritten, ExecutedWasPersisted
  <1> QED BY <1>1, <1>2, <1>3, PipelineInvariant, PTL DEF Spec

\* Whatever the backend, the bounds, the failures and the interleaving, the row of a
\* snapshot's current content is replaced only by a message that a later one overtook,
\* and under BullMQ only by one redelivered as stalled.
THEOREM CurrentRowIsKept == Spec => CurrentRowStays
  <1>1. Init => TrustInv BY TrustStarts
  <1>2. PipelineInv /\ TrustInv /\ [Next]_vars => TrustInv' /\ CurrentStep
    BY TrustStep, PipelineAssumption
  <1>3. CurrentStep =>
          [\A id \in SnapshotIds, v \in Versions :
             /\ rows[id][v] # NoSignal /\ rows'[id][v] # rows[id][v]
             /\ rows[id][v].featureHash = snaps[id].features
             /\ rows[id][v].dqReport = snaps[id].dq.id
             => \E k \in DOMAIN channel :
                  /\ channel[k].event.signal = rows'[id][v]
                  /\ Late(channel[k])
                  /\ backend = "redis" \/ Stalled(channel[k])]_vars
    BY DEF CurrentStep, Overtakes
  <1> QED BY <1>1, <1>2, <1>3, PipelineInvariant, PTL DEF Spec, CurrentRowStays
=============================================================================
