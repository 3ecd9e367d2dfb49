-------------------------- MODULE ControlDeskProofs --------------------------
(***************************************************************************)
(* Proofs about TradingDesk and about ControlPlane, whose gates the desk    *)
(* reports: what the desk answers, for all tables and however they change   *)
(* while it reads them, and what the control plane does for every set of    *)
(* components, every probe result, with crashes and database failures.      *)
(***************************************************************************)
EXTENDS ControlPlane, TradingDesk, CommonProofs

(* The trading desk.  What a request carries from its reads to its answer.   *)

\* Gate g was closed in all the time of log.
Shut(log, g) == \A v \in log[g] : ~Opens(g, v)

\* The contexts of a request: a gate that was closed all the time shows in them.
ContextOK(risk, control, log, fraction) ==
  /\ \E mode : risk = [equity |-> DefaultEquity, fraction |-> fraction,
                       maxNotional |-> 3 * DefaultEquity * 1000, mode |-> mode]
  /\ Shut(log, "mode") => risk.mode \in {<<"RISK_OFF">>, <<"FROZEN">>}
  /\ \A g \in {"kill", "state", "risk", "infra", "stream"} : Shut(log, g) => control.permission # <<"ALLOWED">>

\* The newest signal of each symbol.
RowsOK(table) ==
  /\ IsFiniteSet(table) /\ table \in SUBSET SignalRows
  /\ \A r, q \in table : r.id = q.id \/ r.symbol = q.symbol => r = q

\* The decisions made of them.
DecidedOn(i, log, fraction) ==
  \E when \in Int, row \in SignalRows, price \in Nullable(Nat) : \E liq, risk, control :
    /\ ContextOK(risk, control, log, fraction)
    /\ i = [decision |-> buildTradingDecision(when, row, price, liq, risk, control), dq |-> row.dq]
ItemsOK(items, log, fraction) ==
  /\ IsFiniteSet(items)
  /\ \A i \in items : DecidedOn(i, log, fraction)
  /\ \A i, j \in items : i.decision.id = j.decision.id \/ i.decision.symbol = j.decision.symbol => i = j

\* The answer is put together from them.
AnswerOK(answer, log, fraction) ==
  \E halt \in BOOLEAN : \E items, state, grant :
    ItemsOK(items, log, fraction) /\ answer = assemble(items, state, grant, halt)

LogOK(log) ==
  /\ \A g \in {"kill", "risk", "infra", "stream"} : log[g] \in SUBSET BOOLEAN
  /\ \A g \in {"state", "mode"} : log[g] \in SUBSET Nullable(STRING)

DeskWorldOK ==
  /\ gates \in [kill : BOOLEAN, state : Nullable(STRING), risk : BOOLEAN, infra : BOOLEAN, mode : Nullable(STRING)]
  /\ signals \in Seq(SignalRows) /\ \A i \in 1 .. Len(signals) : signals[i].id = i
  /\ marks \in [Symbols -> MarkRows]
  /\ limit \in Nullable([value : Int, pct : BOOLEAN])
  /\ snaps \in [Symbols -> SnapRows]
  /\ deskClock \in Int
  /\ LogOK(gateLog)

DeskInv ==
  /\ DeskWorldOK
  /\ desk.pc \in {"contexts", "rows", "market", "outer"} => desk.now \in Int
  /\ desk.pc \in {"rows", "market"} => ContextOK(desk.risk, desk.control, gateLog, RiskFraction)
  /\ desk.pc = "market" => RowsOK(desk.rows)
  /\ desk.pc = "outer" => ItemsOK(desk.items, gateLog, RiskFraction)
  /\ desk.pc = "done" => AnswerOK(desk, gateLog, RiskFraction)

\* What was closed in a longer time was closed in a shorter one.
LEMMA LongerLog ==
  ASSUME NEW log, NEW more, \A g \in GateNames : log[g] \in SUBSET more[g], NEW fraction
  PROVE  /\ \A risk, control : ContextOK(risk, control, log, fraction) => ContextOK(risk, control, more, fraction)
         /\ \A items : ItemsOK(items, log, fraction) => ItemsOK(items, more, fraction)
         /\ \A answer : AnswerOK(answer, log, fraction) => AnswerOK(answer, more, fraction)
<1>1. \A g \in GateNames : Shut(more, g) => Shut(log, g)
  BY DEF Shut
<1>2. ASSUME NEW risk, NEW control, ContextOK(risk, control, log, fraction)
      PROVE  ContextOK(risk, control, more, fraction)
  BY <1>1, <1>2 DEF ContextOK, GateNames
<1>3. \A i : DecidedOn(i, log, fraction) => DecidedOn(i, more, fraction)
  BY <1>2 DEF DecidedOn
<1>4. \A items : ItemsOK(items, log, fraction) => ItemsOK(items, more, fraction)
  BY <1>3 DEF ItemsOK
<1>5. \A answer : AnswerOK(answer, log, fraction) => AnswerOK(answer, more, fraction)
  BY <1>4 DEF AnswerOK
<1> QED
  BY <1>2, <1>4, <1>5

\* The others' writes do not touch the request.
LEMMA OthersKeep ==
  ASSUME DeskInv, DeskWorldOK', desk' = desk, limit' = limit,
         \A g \in GateNames : gateLog[g] \in SUBSET gateLog'[g]
  PROVE  DeskInv'
<1>1. RiskFraction' = RiskFraction
  BY DEF RiskFraction
<1> DEFINE log == gateLog
           more == gateLog'
           frac == RiskFraction
<1>2. /\ \A risk, control : ContextOK(risk, control, log, frac) => ContextOK(risk, control, more, frac)
      /\ \A items : ItemsOK(items, log, frac) => ItemsOK(items, more, frac)
      /\ \A answer : AnswerOK(answer, log, frac) => AnswerOK(answer, more, frac)
  BY LongerLog
<1> QED
  BY <1>1, <1>2 DEF DeskInv

\* The gates of a world in order, as the request reads them.
LEMMA WorldGates ==
  ASSUME DeskWorldOK
  PROVE  /\ \A g \in {"kill", "risk", "infra", "stream"} : GateNow[g] \in BOOLEAN
         /\ \A g \in {"state", "mode"} : GateNow[g] \in Nullable(STRING)
<1>1. StreamFresh \in BOOLEAN
  BY DEF StreamFresh
<1> QED
  BY <1>1 DEF DeskWorldOK, GateNow

\* A step of the others, whatever it writes.
LEMMA WriteKeeps ==
  ASSUME DeskInv, Write,
         gates' \in [kill : BOOLEAN, state : Nullable(STRING), risk : BOOLEAN, infra : BOOLEAN, mode : Nullable(STRING)],
         signals' \in Seq(SignalRows), \A i \in 1 .. Len(signals') : signals'[i].id = i,
         marks' \in [Symbols -> MarkRows], deskClock' \in Int
  PROVE  DeskInv'
<1>1. /\ gateLog' = [g \in GateNames |-> gateLog[g] \union {GateNow'[g]}]
      /\ limit' = limit /\ snaps' = snaps /\ desk' = desk
  BY DEF Write
<1>2. /\ \A g \in {"kill", "risk", "infra", "stream"} : GateNow'[g] \in BOOLEAN
      /\ \A g \in {"state", "mode"} : GateNow'[g] \in Nullable(STRING)
  <2>1. (StreamFresh \in BOOLEAN)'
    BY DEF StreamFresh
  <2>2. GateNow' = [kill |-> gates'.kill, state |-> gates'.state, risk |-> gates'.risk, infra |-> gates'.infra,
                    stream |-> StreamFresh', mode |-> gates'.mode]
    BY DEF GateNow
  <2> HIDE DEF GateNow, StreamFresh
  <2> QED
    BY <2>1, <2>2
<1>3. LogOK(gateLog')
  <2>1. LogOK(gateLog)
    BY DEF DeskInv, DeskWorldOK
  <2> QED
    BY <1>1, <1>2, <2>1 DEF LogOK, GateNames
<1>4. DeskWorldOK'
  BY <1>1, <1>3 DEF DeskInv, DeskWorldOK
<1>5. \A g \in GateNames : gateLog[g] \in SUBSET gateLog'[g]
  BY <1>1
<1> QED
  BY <1>1, <1>4, <1>5, OthersKeep

\* A nullable value that is there.
LEMMA NullableIs ==
  ASSUME NEW S, NEW m \in Nullable(S), Has(m)
  PROVE  m[1] \in S /\ m = <<m[1]>>
<1>1. m \in Seq(S) /\ Len(m) <= 1 /\ m # <<>>
  BY DEF Nullable, Has, Null
<1>2. Len(m) = 1
  <2>1. Len(m) \in Nat
    BY <1>1, LenProperties
  <2>2. Len(m) # 0
    BY <1>1, EmptySeq
  <2>3. \A k \in Nat : k <= 1 /\ k # 0 => k = 1
    OBVIOUS
  <2>4. Len(m) <= 1
    BY <1>1
  <2> QED
    BY <2>1, <2>2, <2>3, <2>4, Zenon
<1> QED
  BY <1>1, <1>2

\* Nothing, and any value, as a nullable one.
LEMMA NullableHolds ==
  ASSUME NEW S
  PROVE  /\ Null \in Nullable(S)
         /\ \A v \in S : <<v>> \in Nullable(S) /\ Has(<<v>>)
BY DEF Nullable, Has, Null

\* The image of a finite set is finite, and as large if no two members are mapped to one.
LEMMA ImageOf ==
  ASSUME NEW S, IsFiniteSet(S), NEW f, NEW T, T = {f[x] : x \in S}
  PROVE  /\ IsFiniteSet(T)
         /\ (\A x, y \in S : f[x] = f[y] => x = y) => Cardinality(T) = Cardinality(S)
<1> DEFINE g == [x \in S |-> f[x]]
<1>1. g \in Surjection(S, T)
  BY DEF Surjection
<1>2. ASSUME \A x, y \in S : f[x] = f[y] => x = y PROVE g \in Injection(S, T)
  BY <1>2 DEF Injection, IsInjective
<1> HIDE DEF g
<1> QED
  BY <1>1, <1>2, FS_Surjection

\* Every start of the desk is in order.
LEMMA DeskStarts ==
  ASSUME DeskStart
  PROVE  DeskInv
<1>1. /\ gates \in [kill : BOOLEAN, state : Nullable(STRING), risk : BOOLEAN, infra : BOOLEAN, mode : Nullable(STRING)]
      /\ signals \in Seq(SignalRows) /\ (\A i \in DOMAIN signals : signals[i].id = i)
      /\ marks \in [Symbols -> MarkRows] /\ limit \in Nullable([value : Int, pct : BOOLEAN])
      /\ snaps \in [Symbols -> SnapRows] /\ deskClock \in Int
      /\ desk = NoRequest /\ gateLog = [g \in GateNames |-> {}]
  BY DEF DeskStart
<1>2. LogOK(gateLog)
  BY <1>1 DEF LogOK, GateNames
<1>3. desk.pc = "idle"
  BY <1>1 DEF NoRequest
<1>4. DOMAIN signals = 1 .. Len(signals)
  BY <1>1
<1> HIDE DEF SignalRows, MarkRows, SnapRows
<1>5. DeskWorldOK
  BY <1>1, <1>2, <1>4 DEF DeskWorldOK
<1> QED
  BY <1>3, <1>5 DEF DeskInv

\* A gate that moves under a request.
LEMMA GateMovesKeeps ==
  ASSUME DeskInv, NEW g, NEW v, GateMoves(g, v),
         \/ g \in {"kill", "risk", "infra"} /\ v \in BOOLEAN
         \/ g \in {"state", "mode"} /\ v \in Nullable(STRING)
  PROVE  DeskInv'
<1>1. /\ gates' = [gates EXCEPT ![g] = v] /\ Write
      /\ signals' = signals /\ marks' = marks /\ deskClock' = deskClock
  BY DEF GateMoves
<1>2. DeskWorldOK
  BY DEF DeskInv
<1>3. gates' \in [kill : BOOLEAN, state : Nullable(STRING), risk : BOOLEAN, infra : BOOLEAN, mode : Nullable(STRING)]
  BY <1>1, <1>2 DEF DeskWorldOK
<1>4. /\ signals' \in Seq(SignalRows) /\ (\A i \in 1 .. Len(signals') : signals'[i].id = i)
      /\ marks' \in [Symbols -> MarkRows] /\ deskClock' \in Int
  BY <1>1, <1>2 DEF DeskWorldOK
<1> QED
  BY <1>1, <1>3, <1>4, WriteKeeps

\* A signal that arrives under a request.
LEMMA NewSignalKeeps ==
  ASSUME DeskInv, NEW row \in SignalRows, NewSignal(row)
  PROVE  DeskInv'
<1>1. /\ row.id = Len(signals) + 1 /\ signals' = Append(signals, row) /\ Write
      /\ gates' = gates /\ marks' = marks /\ deskClock' = deskClock
  BY DEF NewSignal
<1>2. DeskWorldOK
  BY DEF DeskInv
<1>3. signals \in Seq(SignalRows) /\ \A i \in 1 .. Len(signals) : signals[i].id = i
  BY <1>2 DEF DeskWorldOK
<1>4. signals' \in Seq(SignalRows) /\ Len(signals') = Len(signals) + 1 /\ Len(signals) \in Nat
  BY <1>1, <1>3
<1>5. ASSUME NEW i \in 1 .. Len(signals') PROVE signals'[i].id = i
  <2>1. CASE i = Len(signals) + 1
    BY <1>1, <1>3, <2>1
  <2>2. CASE i # Len(signals) + 1
    BY <1>1, <1>3, <1>4, <2>2
  <2> QED
    BY <2>1, <2>2
<1>6. /\ gates' \in [kill : BOOLEAN, state : Nullable(STRING), risk : BOOLEAN, infra : BOOLEAN, mode : Nullable(STRING)]
      /\ marks' \in [Symbols -> MarkRows] /\ deskClock' \in Int
  BY <1>1, <1>2 DEF DeskWorldOK
<1> QED
  BY <1>1, <1>4, <1>5, <1>6, WriteKeeps

\* A mark that moves under a request.
LEMMA MarkMovesKeeps ==
  ASSUME DeskInv, NEW s \in Symbols, NEW m \in MarkRows, MarkMoves(s, m)
  PROVE  DeskInv'
<1>1. /\ marks' = [marks EXCEPT ![s] = m] /\ Write
      /\ gates' = gates /\ signals' = signals /\ deskClock' = deskClock
  BY DEF MarkMoves
<1>2. DeskWorldOK
  BY DEF DeskInv
<1>3. marks' \in [Symbols -> MarkRows]
  BY <1>1, <1>2 DEF DeskWorldOK
<1>4. /\ gates' \in [kill : BOOLEAN, state : Nullable(STRING), risk : BOOLEAN, infra : BOOLEAN, mode : Nullable(STRING)]
      /\ signals' \in Seq(SignalRows) /\ (\A i \in 1 .. Len(signals') : signals'[i].id = i)
      /\ deskClock' \in Int
  BY <1>1, <1>2 DEF DeskWorldOK
<1> QED
  BY <1>1, <1>3, <1>4, WriteKeeps

\* The clock under a request.
LEMMA TimePassesKeeps ==
  ASSUME DeskInv, TimePasses
  PROVE  DeskInv'
<1>1. /\ deskClock' = deskClock + 100 /\ Write
      /\ gates' = gates /\ signals' = signals /\ marks' = marks
  BY DEF TimePasses
<1>2. DeskWorldOK
  BY DEF DeskInv
<1>3. /\ gates' \in [kill : BOOLEAN, state : Nullable(STRING), risk : BOOLEAN, infra : BOOLEAN, mode : Nullable(STRING)]
      /\ signals' \in Seq(SignalRows) /\ (\A i \in 1 .. Len(signals') : signals'[i].id = i)
      /\ marks' \in [Symbols -> MarkRows] /\ deskClock' \in Int
  BY <1>1, <1>2 DEF DeskWorldOK
<1> QED
  BY <1>1, <1>3, WriteKeeps

\* A step of the request leaves the world alone.
LEMMA RequestKeepsWorld ==
  ASSUME DeskInv, UNCHANGED worldVars
  PROVE  RiskFraction' = RiskFraction /\ (LogOK(gateLog') => DeskWorldOK')
<1>1. /\ gates' = gates /\ signals' = signals /\ marks' = marks /\ limit' = limit /\ snaps' = snaps /\ deskClock' = deskClock
  BY DEF worldVars
<1>2. RiskFraction' = RiskFraction
  BY <1>1 DEF RiskFraction
<1> HIDE DEF RiskFraction
<1> QED
  BY <1>1, <1>2 DEF DeskInv, DeskWorldOK

\* A request begins with the gates as they are.
LEMMA BeginGetKeeps ==
  ASSUME DeskInv, BeginGet
  PROVE  DeskInv'
<1>1. /\ desk' = [pc |-> "contexts", now |-> deskClock] /\ gateLog' = [g \in GateNames |-> {GateNow[g]}]
      /\ UNCHANGED worldVars
  BY DEF BeginGet
<1>2. LogOK(gateLog')
  BY <1>1, WorldGates DEF LogOK, GateNames, DeskInv
<1>3. deskClock \in Int
  BY DEF DeskInv, DeskWorldOK
<1>4. desk'.pc = "contexts" /\ desk'.now \in Int
  BY <1>1, <1>3
<1> QED
  BY <1>1, <1>2, <1>4, RequestKeepsWorld DEF DeskInv

\* A permission is given only if no gate it looks at was closed all the time.
LEMMA PermissionSees ==
  ASSUME LogOK(gateLog),
         NEW k \in gateLog.kill, NEW s \in gateLog.state, NEW r \in gateLog.risk, NEW i \in gateLog.infra,
         NEW f \in gateLog.stream, getTradingPermissionView(k, s, r, i, f) = "ALLOWED"
  PROVE  \A g \in {"kill", "state", "risk", "infra", "stream"} : ~Shut(gateLog, g)
<1>1. i /\ f /\ ~r /\ ~k /\ asState(s) = "HEALTHY"
  BY DEF getTradingPermissionView
<1>2. s \in Nullable(STRING)
  BY DEF LogOK
<1>3. s = <<"HEALTHY">>
  <2>1. Has(s) /\ s[1] = "HEALTHY"
    BY <1>1 DEF asState
  <2> QED
    BY <1>2, <2>1, NullableIs
<1>4. Opens("kill", k) /\ Opens("state", s) /\ Opens("risk", r) /\ Opens("infra", i) /\ Opens("stream", f)
  BY <1>1, <1>3 DEF Opens
<1> QED
  BY <1>4 DEF Shut

\* The contexts are read, each query at an instant of its own, or not at all.
LEMMA EndContextsKeeps ==
  ASSUME DeskInv, EndContexts
  PROVE  DeskInv'
<1>1. PICK mode \in gateLog.mode, control \in Contexts :
        desk' = [pc |-> "rows", now |-> desk.now, risk |-> buildRiskContext(mode), control |-> control]
  BY DEF EndContexts
<1>2. desk.pc = "contexts" /\ (UNCHANGED worldVars) /\ gateLog' = gateLog
  BY DEF EndContexts
<1>3. LogOK(gateLog) /\ desk.now \in Int
  BY <1>2 DEF DeskInv, DeskWorldOK
<1>4. \A g \in {"kill", "state", "risk", "infra", "stream"} :
        Shut(gateLog, g) => control.permission # <<"ALLOWED">>
  <2>1. CASE control = ControlUnknown
    BY <2>1 DEF ControlUnknown, Null
  <2>2. CASE control # ControlUnknown
    <3>1. PICK k \in gateLog.kill, s \in gateLog.state, r \in gateLog.risk, i \in gateLog.infra,
               f \in gateLog.stream, halt \in gateLog.kill :
            control = buildControlContext(getTradingPermissionView(k, s, r, i, f), s, halt)
      <4>1. control \in {buildControlContext(getTradingPermissionView(k, s, r, i, f), s, halt) :
                            k \in gateLog.kill, s \in gateLog.state, r \in gateLog.risk, i \in gateLog.infra,
                            f \in gateLog.stream, halt \in gateLog.kill}
        BY <2>2 DEF Contexts
      <4> QED
        BY <4>1
    <3>2. control.permission = <<getTradingPermissionView(k, s, r, i, f)>>
      BY <3>1 DEF buildControlContext
    <3>3. control.permission = <<"ALLOWED">> => getTradingPermissionView(k, s, r, i, f) = "ALLOWED"
      BY <3>2
    <3> QED
      BY <1>3, <3>3, PermissionSees
  <2> QED
    BY <2>1, <2>2
<1>5. Shut(gateLog, "mode") => mode \in {<<"RISK_OFF">>, <<"FROZEN">>}
  BY DEF Shut, Opens
<1>6. buildRiskContext(mode) = [equity |-> DefaultEquity, fraction |-> RiskFraction,
                                maxNotional |-> 3 * DefaultEquity * 1000, mode |-> mode]
  BY DEF buildRiskContext
<1> HIDE DEF RiskFraction
<1>7. ContextOK(buildRiskContext(mode), control, gateLog, RiskFraction)
  <2> DEFINE R == buildRiskContext(mode)
  <2>1. R = [equity |-> DefaultEquity, fraction |-> RiskFraction, maxNotional |-> 3 * DefaultEquity * 1000, mode |-> mode]
    BY <1>6
  <2>2. R.mode = mode
    BY <2>1
  <2> HIDE DEF R
  <2>3. ContextOK(R, control, gateLog, RiskFraction)
    BY <1>4, <1>5, <2>1, <2>2, ZenonT(60) DEF ContextOK
  <2> QED
    BY <2>3 DEF R
<1>8. /\ desk'.pc = "rows" /\ desk'.now = desk.now /\ desk'.control = control
      /\ desk'.risk = buildRiskContext(mode)
  BY <1>1
<1> QED
  BY <1>2, <1>3, <1>7, <1>8, RequestKeepsWorld DEF DeskInv

\* A request that fails answers nothing.
LEMMA GetFailsKeeps ==
  ASSUME DeskInv, GetFails
  PROVE  DeskInv'
<1>1. desk' = [pc |-> "failed"] /\ (UNCHANGED worldVars) /\ gateLog' = gateLog
  BY DEF GetFails
<1>2. LogOK(gateLog)
  BY DEF DeskInv, DeskWorldOK
<1>3. desk'.pc = "failed"
  BY <1>1
<1> QED
  BY <1>1, <1>2, <1>3, RequestKeepsWorld DEF DeskInv

\* The newest row of each symbol among those looked at.
LEMMA LatestIs ==
  ASSUME NEW table \in Seq(SignalRows), \A i \in 1 .. Len(table) : table[i].id = i
  PROVE  RowsOK(latest(table)) /\ \A r \in latest(table) : r.id \in 1 .. Len(table) /\ r = table[r.id]
<1> DEFINE n == Len(table)
           scanned == {i \in DOMAIN table : i > Len(table) - ScanLimit}
           Of(s) == {i \in scanned : table[i].symbol = s}
           LastOf(s) == CHOOSE i \in scanned : table[i].symbol = s /\ \A j \in scanned : table[j].symbol = s => j <= i
           covered == {table[i].symbol : i \in scanned}
<1>1. n \in Nat /\ DOMAIN table = 1 .. n
  BY LenProperties
<1>2. scanned \in SUBSET (1 .. n)
  BY <1>1
<1> HIDE DEF n
<1>3. \A i \in scanned : table[i] \in SignalRows /\ table[i].id = i
  BY <1>1, <1>2 DEF n
<1> HIDE DEF scanned
<1>4. ASSUME NEW s \in covered
      PROVE  LastOf(s) \in scanned /\ table[LastOf(s)].symbol = s
  <2>1. Of(s) # {} /\ Of(s) \in SUBSET (1 .. n)
    BY <1>2
  <2>2. Max(Of(s)) \in Of(s) /\ \A k \in Of(s) : k <= Max(Of(s))
    BY <1>1, <2>1, MaxOfPositions
  <2>3. \E i \in scanned : table[i].symbol = s /\ \A j \in scanned : table[j].symbol = s => j <= i
    BY <2>2
  <2> QED
    BY <2>3
<1>5. latest(table) = {table[LastOf(s)] : s \in covered}
  BY DEF latest, scanned
<1> HIDE DEF LastOf
<1>6. IsFiniteSet(covered)
  <2>1. n \in Int /\ 1 \in Int
    BY <1>1
  <2>2. IsFiniteSet(1 .. n)
    BY <2>1, FS_Interval, Zenon
  <2>3. IsFiniteSet(scanned)
    BY <1>2, <2>2, FS_Subset
  <2> DEFINE f == [i \in scanned |-> table[i].symbol]
  <2>4. covered = {f[i] : i \in scanned}
    OBVIOUS
  <2> HIDE DEF f, covered
  <2> QED
    BY <2>3, <2>4, ImageOf
<1> HIDE DEF covered
<1>7. IsFiniteSet(latest(table))
  <2> DEFINE f == [s \in covered |-> table[LastOf(s)]]
  <2>1. latest(table) = {f[s] : s \in covered}
    BY <1>5
  <2> HIDE DEF f
  <2> QED
    BY <1>6, <2>1, ImageOf
<1>8. latest(table) \in SUBSET SignalRows
  BY <1>3, <1>4, <1>5
<1>9. \A r, q \in latest(table) : r.id = q.id \/ r.symbol = q.symbol => r = q
  BY <1>3, <1>4, <1>5
<1>10. ASSUME NEW r \in latest(table) PROVE r.id \in 1 .. n /\ r = table[r.id]
  <2>1. PICK s \in covered : r = table[LastOf(s)]
    BY <1>5
  <2>2. LastOf(s) \in scanned
    BY <1>4
  <2>3. r.id = LastOf(s)
    BY <1>3, <2>1, <2>2
  <2> QED
    BY <1>2, <2>1, <2>2, <2>3
<1> QED
  BY <1>7, <1>8, <1>9, <1>10 DEF RowsOK, n

\* The newest signal of each symbol is read.
LEMMA ReadRowsKeeps ==
  ASSUME DeskInv, ReadRows
  PROVE  DeskInv'
<1>1. /\ desk' = [pc |-> "market", now |-> desk.now, risk |-> desk.risk, control |-> desk.control,
                  rows |-> latest(signals)]
      /\ desk.pc = "rows" /\ (UNCHANGED worldVars) /\ gateLog' = gateLog
  BY DEF ReadRows
<1>2. RowsOK(latest(signals))
  BY LatestIs DEF DeskInv, DeskWorldOK
<1>3. /\ desk'.pc = "market" /\ desk'.now = desk.now /\ desk'.risk = desk.risk /\ desk'.control = desk.control
      /\ desk'.rows = latest(signals)
  BY <1>1
<1>4. LogOK(gateLog) /\ desk.now \in Int /\ ContextOK(desk.risk, desk.control, gateLog, RiskFraction)
  BY <1>1 DEF DeskInv, DeskWorldOK
<1> HIDE DEF latest
<1> QED
  BY <1>1, <1>2, <1>3, <1>4, RequestKeepsWorld DEF DeskInv

\* The price of a market view is a price.
LEMMA MarkIs ==
  ASSUME NEW m \in MarkRows, NEW when \in Int
  PROVE  MarkOf(m, when) \in Nullable(Nat)
<1>1. /\ m.book \in Nullable([mark : Nullable(Int), bid : Nullable(Int), ask : Nullable(Int), size : Nullable(Int),
                              spread : Nullable(Int), ts : Int])
      /\ m.tick \in Nullable([price : Int, ts : Int]) /\ m.candle \in Nullable([close : Int, ts : Int])
  BY DEF MarkRows
<1>2. Has(m.book) => m.book[1].mark \in Nullable(Int) /\ m.book[1].bid \in Nullable(Int) /\ m.book[1].ask \in Nullable(Int)
  BY <1>1, NullableIs
<1>3. (Has(m.tick) => m.tick[1].price \in Int) /\ (Has(m.candle) => m.candle[1].close \in Int)
  BY <1>1, NullableIs
<1>4. Has(m.book) => Mid(m.book[1]) \in Nullable(Int)
  <2> SUFFICES ASSUME Has(m.book) PROVE Mid(m.book[1]) \in Nullable(Int)
    OBVIOUS
  <2>1. CASE Has(m.book[1].bid) /\ Has(m.book[1].ask)
    <3>1. m.book[1].bid[1] \in Int /\ m.book[1].ask[1] \in Int
      BY <1>2, <2>1, NullableIs
    <3>2. (m.book[1].bid[1] + m.book[1].ask[1]) \div 2 \in Int
      BY <3>1
    <3> QED
      BY <2>1, <3>2, NullableHolds DEF Mid
  <2>2. CASE ~(Has(m.book[1].bid) /\ Has(m.book[1].ask))
    BY <2>2, NullableHolds DEF Mid
  <2> QED
    BY <2>1, <2>2
<1>5. \A x \in Nullable(Int) : Positive(x) => x \in Nullable(Nat)
  <2> SUFFICES ASSUME NEW x \in Nullable(Int), Positive(x) PROVE x \in Nullable(Nat)
    OBVIOUS
  <2>1. x[1] \in Int /\ x = <<x[1]>> /\ x[1] > 0
    BY NullableIs DEF Positive
  <2>2. x[1] \in Nat
    BY <2>1
  <2> QED
    BY <2>1, <2>2, NullableHolds
<1> HIDE DEF Mid
<1>6. Fresh(m.book, when) /\ Positive(m.book[1].mark) => m.book[1].mark \in Nullable(Nat)
  BY <1>2, <1>5 DEF Fresh
<1>7. Fresh(m.book, when) /\ Positive(Mid(m.book[1])) => Mid(m.book[1]) \in Nullable(Nat)
  BY <1>4, <1>5 DEF Fresh
<1>8. Fresh(m.tick, when) /\ m.tick[1].price > 0 => <<m.tick[1].price>> \in Nullable(Nat)
  BY <1>3, NullableHolds DEF Fresh
<1>9. Fresh(m.candle, when) /\ m.candle[1].close > 0 => <<m.candle[1].close>> \in Nullable(Nat)
  BY <1>3, NullableHolds DEF Fresh
<1> QED
  BY <1>6, <1>7, <1>8, <1>9, NullableHolds DEF MarkOf

\* The price of a view is a price or nothing.
LEMMA ViewIs ==
  ASSUME NEW m \in MarkRows, NEW when \in Int
  PROVE  getMarketView(m, when).price \in Nullable(Nat) /\ NoView.price \in Nullable(Nat)
BY MarkIs, NullableHolds DEF getMarketView, NoView

\* A decision carries its signal's id and symbol.
LEMMA DecisionOfRow ==
  ASSUME NEW when, NEW signal, NEW price, NEW liq, NEW risk, NEW control
  PROVE  LET d == buildTradingDecision(when, signal, price, liq, risk, control)
         IN d.id = signal.id /\ d.symbol = signal.symbol
BY DEF buildTradingDecision

\* The decisions are made of the rows, with or without a market view each.
LEMMA ReadMarketKeeps ==
  ASSUME DeskInv, ReadMarket
  PROVE  DeskInv'
<1>1. PICK failed \in SUBSET {r.symbol : r \in desk.rows} :
       desk' = [pc |-> "outer", now |-> desk.now,
                items |-> {LET view == IF row.symbol \in failed THEN NoView
                                       ELSE getMarketView(marks[row.symbol], desk.now)
                           IN [decision |-> buildTradingDecision(desk.now, row, view.price, view.liquidity,
                                                                 desk.risk, desk.control),
                               dq |-> row.dq] : row \in desk.rows}]
  BY DEF ReadMarket
<1> DEFINE View(row) == IF row.symbol \in failed THEN NoView ELSE getMarketView(marks[row.symbol], desk.now)
           Item(row) == [decision |-> buildTradingDecision(desk.now, row, View(row).price, View(row).liquidity,
                                                           desk.risk, desk.control), dq |-> row.dq]
           items == {Item(row) : row \in desk.rows}
<1>2. desk' = [pc |-> "outer", now |-> desk.now, items |-> items]
  BY <1>1
<1>3. desk.pc = "market" /\ (UNCHANGED worldVars) /\ gateLog' = gateLog
  BY DEF ReadMarket
<1>4. /\ LogOK(gateLog) /\ desk.now \in Int /\ ContextOK(desk.risk, desk.control, gateLog, RiskFraction)
      /\ RowsOK(desk.rows) /\ marks \in [Symbols -> MarkRows]
  BY <1>3 DEF DeskInv, DeskWorldOK
<1>5. \A row \in desk.rows : row \in SignalRows /\ row.symbol \in Symbols
  BY <1>4 DEF RowsOK, SignalRows
<1>6. \A row \in desk.rows : View(row).price \in Nullable(Nat)
  BY <1>4, <1>5, ViewIs
<1> HIDE DEF View
<1>7. \A row \in desk.rows : /\ Item(row).decision.id = row.id /\ Item(row).decision.symbol = row.symbol
  BY DecisionOfRow
<1>8. \A row \in desk.rows : DecidedOn(Item(row), gateLog, RiskFraction)
  BY <1>4, <1>5, <1>6 DEF DecidedOn
<1> HIDE DEF Item
<1>9. ItemsOK(items, gateLog, RiskFraction)
  <2>1. IsFiniteSet(items)
    <3> DEFINE f == [row \in desk.rows |-> Item(row)]
    <3>1. items = {f[row] : row \in desk.rows}
      OBVIOUS
    <3>2. IsFiniteSet(desk.rows)
      BY <1>4 DEF RowsOK
    <3> HIDE DEF f, items
    <3> QED
      BY <3>1, <3>2, ImageOf
  <2>2. \A i \in items : DecidedOn(i, gateLog, RiskFraction)
    BY <1>8
  <2>3. \A i, j \in items : i.decision.id = j.decision.id \/ i.decision.symbol = j.decision.symbol => i = j
    BY <1>4, <1>7 DEF RowsOK
  <2> QED
    BY <2>1, <2>2, <2>3 DEF ItemsOK
<1> HIDE DEF items
<1>10. desk'.pc = "outer" /\ desk'.now = desk.now /\ desk'.items = items
  BY <1>2
<1> HIDE DEF RiskFraction
<1> QED
  BY <1>3, <1>4, <1>9, <1>10, RequestKeepsWorld DEF DeskInv

\* The answer is assembled from the decisions.
LEMMA EndGetKeeps ==
  ASSUME DeskInv, EndGet
  PROVE  DeskInv'
<1>1. /\ desk.pc = "outer" /\ (UNCHANGED worldVars) /\ gateLog' = gateLog
      /\ \E state \in {Null} \union {<<getRuntimeStateView(s)>> : s \in gateLog.state},
            grant \in {Null} \union {<<p>> : p \in Permissions},
            halt \in {TRUE} \union {getKillSwitch(k) : k \in gateLog.kill} :
           desk' = assemble(desk.items, state, grant, halt)
  BY DEF EndGet
<1>2. LogOK(gateLog) /\ ItemsOK(desk.items, gateLog, RiskFraction)
  BY <1>1 DEF DeskInv, DeskWorldOK
<1>3. {TRUE} \union {getKillSwitch(k) : k \in gateLog.kill} \in SUBSET BOOLEAN
  BY <1>2 DEF LogOK, getKillSwitch
<1>4. PICK halt \in BOOLEAN : \E state, grant : desk' = assemble(desk.items, state, grant, halt)
  BY <1>1, <1>3, Zenon
<1>5. AnswerOK(desk', gateLog, RiskFraction)
  BY <1>2, <1>4, Zenon DEF AnswerOK
<1>6. desk'.pc = "done"
  BY <1>4 DEF assemble
<1> HIDE DEF RiskFraction
<1> QED
  BY <1>1, <1>2, <1>5, <1>6, RequestKeepsWorld DEF DeskInv

\* Whatever moves meanwhile, a request carries only what it read.
LEMMA DeskInvariant == DeskSpec => []DeskInv
<1>1. DeskStart => DeskInv
  BY DeskStarts
<1>2. DeskInv /\ [DeskNext]_deskVars => DeskInv'
  <2> SUFFICES ASSUME DeskInv, [DeskNext]_deskVars PROVE DeskInv'
    OBVIOUS
  <2>1. CASE UNCHANGED deskVars
    <3>1. UNCHANGED worldVars /\ desk' = desk /\ gateLog' = gateLog
      BY <2>1 DEF deskVars, worldVars
    <3>2. LogOK(gateLog)
      BY DEF DeskInv, DeskWorldOK
    <3>3. RiskFraction' = RiskFraction /\ DeskWorldOK'
      BY <3>1, <3>2, RequestKeepsWorld
    <3> QED
      BY <3>1, <3>3 DEF DeskInv
  <2>2. CASE \E g \in {"kill", "risk", "infra"}, v \in BOOLEAN : GateMoves(g, v)
    BY <2>2, GateMovesKeeps
  <2>3. CASE \E g \in {"state", "mode"}, v \in Nullable(STRING) : GateMoves(g, v)
    BY <2>3, GateMovesKeeps
  <2>4. CASE \E row \in SignalRows : NewSignal(row)
    BY <2>4, NewSignalKeeps
  <2>5. CASE \E s \in Symbols, m \in MarkRows : MarkMoves(s, m)
    BY <2>5, MarkMovesKeeps
  <2>6. CASE TimePasses
    BY <2>6, TimePassesKeeps
  <2>7. CASE GetSteps
    BY <2>7, BeginGetKeeps, EndContextsKeeps, ReadRowsKeeps, ReadMarketKeeps, EndGetKeeps, GetFailsKeeps
       DEF GetSteps
  <2> QED
    BY <2>1, <2>2, <2>3, <2>4, <2>5, <2>6, <2>7 DEF DeskNext
<1> QED
  BY <1>1, <1>2, PTL DEF DeskSpec

\* The statuses of a decision.
LEMMA DecisionStatus ==
  ASSUME NEW when, NEW signal, NEW price, NEW liq, NEW risk, NEW control
  PROVE  LET d == buildTradingDecision(when, signal, price, liq, risk, control)
         IN /\ d.direction = signal.decision
            /\ d.control = deriveControlStatus(control)
            /\ d.execution = deriveExecutionStatus(control, d.control)
            /\ d.risk = evaluateStaticRisk(signal.decision, d.sizing.notional, risk)
            /\ d.overall = deriveOverallStatus(signal.decision, d.control, d.risk, d.execution, Has(d.levels.stop))
            /\ d.levels = computeLevels(signal.decision, price, readFeature(signal.features, "atr_14"))
            /\ d.sizing = computeSizing(signal.decision, d.levels.entry, d.levels.stop, risk)
            /\ d.equity = risk.equity
            /\ d.confidence = signal.confidence
BY DEF buildTradingDecision

\* The ages of a decision are known and not negative.
LEMMA DecisionAges ==
  ASSUME NEW when \in Int, NEW signal \in SignalRows, NEW price, NEW liq, NEW risk, NEW control
  PROVE  LET d == buildTradingDecision(when, signal, price, liq, risk, control)
         IN /\ Has(d.signalAge) /\ d.signalAge[1] \in Nat
            /\ Has(d.featureAge) /\ d.featureAge[1] \in Nat
<1> DEFINE d == buildTradingDecision(when, signal, price, liq, risk, control)
<1>1. d.signalAge = ageSeconds(when, <<signal.createdAt>>) /\ d.featureAge = ageSeconds(when, <<signal.featureTs>>)
  BY DEF buildTradingDecision
<1>2. signal.createdAt \in Int /\ signal.featureTs \in Int
  BY DEF SignalRows
<1>3. \A t \in Int : Has(ageSeconds(when, <<t>>)) /\ ageSeconds(when, <<t>>)[1] \in Nat
  BY DEF ageSeconds, Has, Null
<1> HIDE DEF d
<1> QED
  BY <1>1, <1>2, <1>3 DEF d

\* A closed gate shows in the statuses of every decision.
LEMMA GateDenies ==
  ASSUME NEW log, NEW fraction, NEW i, DecidedOn(i, log, fraction), NEW g \in GateNames, Shut(log, g)
  PROVE  i.decision.overall # "ACTIONABLE"
<1>1. PICK when \in Int, row \in SignalRows, price \in Nullable(Nat) : \E liq, risk, control :
        /\ ContextOK(risk, control, log, fraction)
        /\ i = [decision |-> buildTradingDecision(when, row, price, liq, risk, control), dq |-> row.dq]
  BY DEF DecidedOn
<1>2. PICK liq, risk, control :
        /\ ContextOK(risk, control, log, fraction)
        /\ i = [decision |-> buildTradingDecision(when, row, price, liq, risk, control), dq |-> row.dq]
  BY <1>1
<1> DEFINE d == buildTradingDecision(when, row, price, liq, risk, control)
<1>3. i.decision = d
  BY <1>2
<1>4. /\ d.control = deriveControlStatus(control)
      /\ d.execution = deriveExecutionStatus(control, d.control)
      /\ d.risk = evaluateStaticRisk(row.decision, d.sizing.notional, risk)
      /\ d.overall = deriveOverallStatus(row.decision, d.control, d.risk, d.execution, Has(d.levels.stop))
  BY DecisionStatus
<1> HIDE DEF d
<1>5. CASE g = "mode"
  <2>1. risk.mode \in {<<"RISK_OFF">>, <<"FROZEN">>}
    BY <1>2, <1>5 DEF ContextOK
  <2>2. d.risk = "BLOCKED"
    BY <1>4, <2>1 DEF evaluateStaticRisk
  <2> QED
    BY <1>3, <1>4, <2>2 DEF deriveOverallStatus
<1>6. CASE g # "mode"
  <2>1. control.permission # <<"ALLOWED">>
    BY <1>2, <1>6 DEF ContextOK, GateNames
  <2>2. d.control \in {"BLOCKED", "UNKNOWN"}
    BY <1>4, <2>1 DEF deriveControlStatus
  <2>3. d.execution = d.control
    BY <1>4, <2>2 DEF deriveExecutionStatus
  <2> QED
    BY <1>3, <1>4, <2>2, <2>3 DEF deriveOverallStatus
<1> QED
  BY <1>5, <1>6

-----------------------------------------------------------------------------
(* The facts a plan is made of, by name. *)

\* The facts a plan is built on, read off its decision.
LEMMA FactsAre ==
  ASSUME NEW in
  PROVE  LET f == deriveFacts(in)
             d == in.decision
         IN /\ f.directional = (d.direction # "FLAT")
            /\ f.controlAllowed = Tri(d.control # "UNKNOWN", d.control = "ALLOWED")
            /\ f.riskApproved = Tri(d.risk \in {"APPROVED", "BLOCKED"}, d.risk = "APPROVED")
            /\ f.signalFresh = AtMost(d.signalAge, StaleAfter) /\ f.featureFresh = AtMost(d.featureAge, StaleAfter)
            /\ f.hardBlocked = (in.kill \/ "BLOCKED" \in {d.control, d.risk, d.overall})
            /\ f.stale = (f.signalFresh = "no" \/ f.featureFresh = "no")
            /\ f.noTrade = (d.direction = "FLAT" \/ d.overall = "NO_TRADE")
            /\ f.actionable = (d.overall = "ACTIONABLE" /\ ~in.kill)
            /\ f.canTrade = (f.actionable /\ ~f.hardBlocked)
            /\ f.maxLoss = IF Has(d.levels.entry) /\ Has(d.levels.stop) /\ Has(d.sizing.size)
                           THEN <<RoundDiv(d.sizing.size[1][1] * Distance(d.levels.entry[1], d.levels.stop[1]),
                                           100 * d.sizing.size[1][2])>> ELSE Null
<1> DEFINE f == deriveFacts(in)
           d == in.decision
<1>1. f.directional = (d.direction # "FLAT")
  BY DEF deriveFacts
<1>2. f.controlAllowed = Tri(d.control # "UNKNOWN", d.control = "ALLOWED")
  BY DEF deriveFacts
<1>3. f.riskApproved = Tri(d.risk \in {"APPROVED", "BLOCKED"}, d.risk = "APPROVED")
  BY DEF deriveFacts
<1>4. f.signalFresh = AtMost(d.signalAge, StaleAfter) /\ f.featureFresh = AtMost(d.featureAge, StaleAfter)
  BY DEF deriveFacts
<1>5. f.hardBlocked = (in.kill \/ "BLOCKED" \in {d.control, d.risk, d.overall})
  BY DEF deriveFacts
<1>6. f.stale = (f.signalFresh = "no" \/ f.featureFresh = "no")
  BY DEF deriveFacts
<1>7. f.noTrade = (d.direction = "FLAT" \/ d.overall = "NO_TRADE")
  BY DEF deriveFacts
<1>8. f.actionable = (d.overall = "ACTIONABLE" /\ ~in.kill)
  BY DEF deriveFacts
<1>9. f.canTrade = (f.actionable /\ ~f.hardBlocked)
  <2>1. f.canTrade = ((d.overall = "ACTIONABLE" /\ ~in.kill) /\ ~(in.kill \/ "BLOCKED" \in {d.control, d.risk, d.overall}))
    BY DEF deriveFacts
  <2> HIDE DEF f
  <2> QED
    BY <1>5, <1>8, <2>1
<1>10. f.maxLoss = (IF Has(d.levels.entry) /\ Has(d.levels.stop) /\ Has(d.sizing.size)
              THEN <<RoundDiv(d.sizing.size[1][1] * Distance(d.levels.entry[1], d.levels.stop[1]),
                              100 * d.sizing.size[1][2])>> ELSE Null)
  BY DEF deriveFacts
<1> HIDE DEF f
<1> QED
  BY <1>1, <1>2, <1>3, <1>4, <1>5, <1>6, <1>7, <1>8, <1>9, <1>10 DEF f

\* The parts of a plan, read off its facts.
LEMMA PlanIs ==
  ASSUME NEW in
  PROVE  LET f == deriveFacts(in)
             p == buildTradePlan(in)
         IN /\ p.summary.canTrade = f.canTrade
            /\ p.summary.shouldTrade = (actionFor(f, in.decision.direction) \in Trades)
            /\ p.execution.status.control = triStatus(f.controlAllowed)
            /\ p.execution.status.risk = triStatus(f.riskApproved)
            /\ p.execution.status.freshness = triStatus(freshness(f))
            /\ p.risk.maximumLoss = f.maxLoss
            /\ \A t \in {"signal_expired", "feature_stale", "control_blocked", "risk_disabled"} :
                 p.invalidation.state[t] =
                   IF f.directional
                   THEN IF CASE t = "signal_expired" -> f.signalFresh = "no"
                             [] t = "feature_stale" -> f.featureFresh = "no"
                             [] t = "control_blocked" -> in.decision.control = "BLOCKED"
                             [] t = "risk_disabled" -> in.decision.risk = "BLOCKED"
                        THEN "TRIGGERED" ELSE "ARMED"
                   ELSE "NOT_APPLICABLE"
<1> DEFINE f == deriveFacts(in)
           p == buildTradePlan(in)
<1>1. /\ p.summary = buildDecisionSummary(f, in) /\ p.execution = buildExecutionChecklist(f)
      /\ p.risk = buildRiskChecklist(f, in) /\ p.invalidation = buildInvalidation(f, in)
  BY DEF buildTradePlan
<1> HIDE DEF f, p
<1>2. /\ p.summary.canTrade = f.canTrade
      /\ p.summary.shouldTrade = (actionFor(f, in.decision.direction) \in Trades)
  BY <1>1 DEF buildDecisionSummary
<1>3. /\ p.execution.status.control = triStatus(f.controlAllowed)
      /\ p.execution.status.risk = triStatus(f.riskApproved)
      /\ p.execution.status.freshness = triStatus(freshness(f))
  BY <1>1 DEF buildExecutionChecklist
<1>4. p.risk.maximumLoss = f.maxLoss
  BY <1>1 DEF buildRiskChecklist
<1>5. ASSUME NEW t \in {"signal_expired", "feature_stale", "control_blocked", "risk_disabled"}
      PROVE  p.invalidation.state[t] =
               IF f.directional
               THEN IF CASE t = "signal_expired" -> f.signalFresh = "no"
                         [] t = "feature_stale" -> f.featureFresh = "no"
                         [] t = "control_blocked" -> in.decision.control = "BLOCKED"
                         [] t = "risk_disabled" -> in.decision.risk = "BLOCKED"
                    THEN "TRIGGERED" ELSE "ARMED"
               ELSE "NOT_APPLICABLE"
  <2> DEFINE d == in.decision
             Trigger(c) == IF c THEN "TRIGGERED" ELSE "ARMED"
             Below(m, bound) == IF Has(m) THEN m[1] < bound ELSE FALSE
             raw == [stop_hit |-> stopState(d),
                     signal_expired |-> Trigger(f.signalFresh = "no"),
                     feature_stale |-> Trigger(f.featureFresh = "no"),
                     control_blocked |-> Trigger(d.control = "BLOCKED"),
                     risk_disabled |-> Trigger(d.risk = "BLOCKED"),
                     dq_degraded |-> Trigger(f.dqOk = "no"),
                     momentum_reversal |-> Trigger(Below(d.momentum, 150)),
                     trend_lost |-> Trigger(Below(d.trend, 300)),
                     vol_expansion |-> Trigger(f.volOk = "no")]
             state == [i \in DOMAIN raw |-> IF f.directional THEN raw[i] ELSE "NOT_APPLICABLE"]
             Count(s) == Cardinality({i \in DOMAIN state : state[i] = s})
  <2>1. buildInvalidation(f, in) = [state |-> state, armed |-> Count("ARMED"), triggered |-> Count("TRIGGERED")]
    BY Zenon DEF buildInvalidation
  <2>2. t \in DOMAIN raw
    OBVIOUS
  <2>3. /\ raw["signal_expired"] = Trigger(f.signalFresh = "no")
        /\ raw["feature_stale"] = Trigger(f.featureFresh = "no")
        /\ raw["control_blocked"] = Trigger(d.control = "BLOCKED")
        /\ raw["risk_disabled"] = Trigger(d.risk = "BLOCKED")
    OBVIOUS
  <2> HIDE DEF raw
  <2>4. state[t] = IF f.directional THEN raw[t] ELSE "NOT_APPLICABLE"
    BY <2>2
  <2> HIDE DEF state
  <2>5. p.invalidation.state = state
    BY <1>1, <2>1
  <2> QED
    BY <2>3, <2>4, <2>5
<1> QED
  BY <1>2, <1>3, <1>4, <1>5 DEF f, p

-----------------------------------------------------------------------------
(* An answer, by its parts. *)

PlanInput(i, state, halt) == [decision |-> i.decision, dq |-> <<i.dq>>, state |-> state, kill |-> halt]

\* The plans of an answer are those of its decisions, one each.
LEMMA PlannedIs ==
  ASSUME NEW items, NEW state, NEW halt
  PROVE  /\ \A j \in items :
              [decision |-> j.decision, dq |-> <<j.dq>>, plan |-> buildTradePlan(PlanInput(j, state, halt))]
                \in Planned(items, state, halt)
         /\ \A i \in Planned(items, state, halt) : \E j \in items :
              i = [decision |-> j.decision, dq |-> <<j.dq>>, plan |-> buildTradePlan(PlanInput(j, state, halt))]
BY DEF Planned, PlanInput

BookInput(items, state, grant, halt) ==
  [items |-> items, state |-> state, permission |-> grant, kill |-> halt]

\* An answer by its parts.
LEMMA AnswerIs ==
  ASSUME NEW items, NEW state, NEW grant, NEW halt, NEW answer,
         answer = assemble(items, state, grant, halt)
  PROVE  /\ answer.items = Planned(items, state, halt) /\ answer.board = rankOpportunities(items)
         /\ answer.book = buildPortfolioState(BookInput(answer.items, state, grant, halt))
BY DEF assemble, getOpportunityBoard, BookInput

\* A book by its parts.
LEMMA BookIs ==
  ASSUME NEW in
  PROVE  LET book == buildPortfolioState(in)
             facts == derivePortfolioFacts(in)
         IN /\ book.positions = facts.positions /\ book.summary = buildPortfolioSummary(facts)
            /\ book.heat = buildRiskHeat(facts) /\ book.exposure = buildPortfolioExposure(facts)
BY DEF buildPortfolioState

\* The summary of a book counts its positions.
LEMMA SummaryIs ==
  ASSUME NEW facts
  PROVE  LET s == buildPortfolioSummary(facts)
         IN /\ s.open = Cardinality(facts.open) /\ s.blocked = Cardinality(facts.blocked)
            /\ s.waiting = Cardinality(facts.waiting) /\ s.flat = Cardinality(facts.flat)
            /\ s.exposure = facts.gross /\ s.riskUsed = facts.riskUsed /\ s.riskRemaining = facts.riskRemaining
BY DEF buildPortfolioSummary

\* The positions of a book, by state.
LEMMA BookPositions ==
  ASSUME NEW in
  PROVE  LET facts == derivePortfolioFacts(in)
         IN /\ facts.positions = {toPosition(i, in.kill) : i \in in.items}
            /\ facts.open = {p \in facts.positions : p.state = "OPEN"}
            /\ facts.waiting = {p \in facts.positions : p.state = "WAITING"}
            /\ facts.blocked = {p \in facts.positions : p.state = "BLOCKED"}
            /\ facts.flat = {p \in facts.positions : p.state = "FLAT"}
<1> DEFINE facts == derivePortfolioFacts(in)
<1>1. facts.positions = {toPosition(i, in.kill) : i \in in.items}
  BY DEF derivePortfolioFacts
<1>2. facts.open = {p \in {toPosition(i, in.kill) : i \in in.items} : p.state = "OPEN"}
  BY DEF derivePortfolioFacts
<1>3. facts.waiting = {p \in {toPosition(i, in.kill) : i \in in.items} : p.state = "WAITING"}
  BY DEF derivePortfolioFacts
<1>4. facts.blocked = {p \in {toPosition(i, in.kill) : i \in in.items} : p.state = "BLOCKED"}
  BY DEF derivePortfolioFacts
<1>5. facts.flat = {p \in {toPosition(i, in.kill) : i \in in.items} : p.state = "FLAT"}
  BY DEF derivePortfolioFacts
<1> HIDE DEF facts
<1> QED
  BY <1>1, <1>2, <1>3, <1>4, <1>5 DEF facts

\* A position shows its decision and its plan.
LEMMA PositionIs ==
  ASSUME NEW item, NEW halt
  PROVE  LET p == toPosition(item, halt)
             d == item.decision
         IN /\ p.id = d.id /\ p.symbol = d.symbol /\ p.direction = d.direction /\ p.state = classify(item, halt)
            /\ p.notional = d.sizing.notional /\ p.maxLoss = item.plan.risk.maximumLoss
BY DEF toPosition

\* When a position is open, and when it waits.
LEMMA ClassifyIs ==
  ASSUME NEW item, NEW halt
  PROVE  /\ classify(item, halt) \in {"FLAT", "BLOCKED", "OPEN", "WAITING"}
         /\ classify(item, halt) = "OPEN" <=>
              /\ item.decision.direction # "FLAT" /\ item.decision.overall # "NO_TRADE"
              /\ ~isHardBlocked(item, halt) /\ item.plan.summary.canTrade
              /\ item.decision.overall = "ACTIONABLE" /\ ~isStale(item)
         /\ classify(item, halt) = "WAITING" <=>
              /\ item.decision.direction # "FLAT" /\ item.decision.overall # "NO_TRADE"
              /\ ~isHardBlocked(item, halt)
              /\ ~(item.plan.summary.canTrade /\ item.decision.overall = "ACTIONABLE" /\ ~isStale(item))
BY DEF classify

\* What is not actionable is not traded.
LEMMA NotActionable ==
  ASSUME NEW in, in.decision.overall # "ACTIONABLE"
  PROVE  ~buildTradePlan(in).summary.canTrade /\ ~buildTradePlan(in).summary.shouldTrade
<1> DEFINE f == deriveFacts(in)
           p == buildTradePlan(in)
<1>1. f.actionable = FALSE /\ f.canTrade = FALSE
  BY FactsAre
<1>2. p.summary.canTrade = f.canTrade /\ p.summary.shouldTrade = (actionFor(f, in.decision.direction) \in Trades)
  BY PlanIs
<1> HIDE DEF f, p
<1>3. actionFor(f, in.decision.direction) \in {"NO_TRADE", "WAIT"}
  BY <1>1 DEF actionFor
<1>4. actionFor(f, in.decision.direction) \notin Trades
  BY <1>3 DEF Trades
<1> QED
  BY <1>1, <1>2, <1>4 DEF p

\* Nothing is put on top of the board unless it is actionable.
LEMMA TopIsActionable ==
  ASSUME NEW items, \A i \in items : i.decision.overall # "ACTIONABLE"
  PROVE  rankOpportunities(items).topLong = <<>> /\ rankOpportunities(items).topShort = <<>>
<1> DEFINE ranked == {toRanked(i) : i \in items}
<1>1. /\ rankOpportunities(items).topLong = Sorted({r \in ranked : isTop(r) /\ r.direction = "LONG"})
      /\ rankOpportunities(items).topShort = Sorted({r \in ranked : isTop(r) /\ r.direction = "SHORT"})
  BY DEF rankOpportunities
<1>2. \A r \in ranked : ~isTop(r)
  BY DEF toRanked, isTop
<1> HIDE DEF ranked
<1>3. {r \in ranked : isTop(r) /\ r.direction = "LONG"} = {} /\ {r \in ranked : isTop(r) /\ r.direction = "SHORT"} = {}
  BY <1>2
<1>4. Sorted({}) = <<>>
  BY FS_EmptySet DEF Sorted
<1> QED
  BY <1>1, <1>3, <1>4

\* No trade past a closed gate.
LEMMA GatesHold == DeskInv => ClosedGateDenies
<1> SUFFICES ASSUME DeskInv, Answered, NEW g \in GateNames, Shut(gateLog, g)
             PROVE  /\ \A i \in desk.items : /\ i.decision.overall # "ACTIONABLE"
                                             /\ ~i.plan.summary.canTrade /\ ~i.plan.summary.shouldTrade
                    /\ desk.board.topLong = <<>> /\ desk.board.topShort = <<>> /\ desk.book.summary.open = 0
  BY DEF ClosedGateDenies, Shut
<1>1. AnswerOK(desk, gateLog, RiskFraction)
  BY DEF DeskInv, Answered
<1>2. PICK halt \in BOOLEAN : \E items, state, grant :
        ItemsOK(items, gateLog, RiskFraction) /\ desk = assemble(items, state, grant, halt)
  BY <1>1 DEF AnswerOK
<1>3. PICK items, state, grant :
        ItemsOK(items, gateLog, RiskFraction) /\ desk = assemble(items, state, grant, halt)
  BY <1>2
<1>4. \A j \in items : j.decision.overall # "ACTIONABLE"
  BY <1>3, GateDenies DEF ItemsOK
<1>5. /\ desk.items = Planned(items, state, halt) /\ desk.board = rankOpportunities(items)
      /\ desk.book = buildPortfolioState(BookInput(desk.items, state, grant, halt))
  BY <1>3, AnswerIs
<1>6. ASSUME NEW i \in desk.items
      PROVE  i.decision.overall # "ACTIONABLE" /\ ~i.plan.summary.canTrade /\ ~i.plan.summary.shouldTrade
  <2>1. PICK j \in items :
          i = [decision |-> j.decision, dq |-> <<j.dq>>, plan |-> buildTradePlan(PlanInput(j, state, halt))]
    BY <1>5, PlannedIs
  <2> DEFINE in == PlanInput(j, state, halt)
  <2>2. in.decision = j.decision
    BY DEF PlanInput
  <2> HIDE DEF in
  <2>3. i.decision = j.decision /\ i.plan = buildTradePlan(in)
    BY <2>1 DEF in
  <2>4. ~buildTradePlan(in).summary.canTrade /\ ~buildTradePlan(in).summary.shouldTrade
    BY <1>4, <2>2, NotActionable
  <2> QED
    BY <1>4, <2>3, <2>4
<1>7. desk.board.topLong = <<>> /\ desk.board.topShort = <<>>
  BY <1>4, <1>5, TopIsActionable
<1>8. desk.book.summary.open = 0
  <2> DEFINE in == BookInput(desk.items, state, grant, halt)
             facts == derivePortfolioFacts(in)
  <2>1. in.items = desk.items /\ in.kill = halt
    BY DEF BookInput
  <2>2. desk.book.summary.open = Cardinality(facts.open)
    BY <1>5, BookIs, SummaryIs
  <2>3. /\ facts.positions = {toPosition(i, in.kill) : i \in in.items}
        /\ facts.open = {p \in facts.positions : p.state = "OPEN"}
    BY BookPositions
  <2> HIDE DEF in, facts
  <2>4. \A i \in desk.items : classify(i, halt) # "OPEN"
    BY <1>6, ClassifyIs
  <2>5. facts.open = {}
    BY <2>1, <2>3, <2>4, PositionIs
  <2> QED
    BY <2>2, <2>5, FS_EmptySet
<1> QED
  BY <1>6, <1>7, <1>8

\* An actionable decision has a direction and passed control and risk.
LEMMA ActionableIs ==
  ASSUME NEW log, NEW fraction, NEW i, DecidedOn(i, log, fraction)
  PROVE  LET d == i.decision
         IN /\ d.direction \in {"LONG", "SHORT", "FLAT"}
            /\ d.overall \in {"NO_TRADE", "BLOCKED", "WAITING", "ACTIONABLE", "INCOMPLETE"}
            /\ d.overall = "NO_TRADE" <=> d.direction = "FLAT"
            /\ d.overall = "ACTIONABLE" => d.control = "ALLOWED" /\ d.risk # "BLOCKED" /\ Has(d.levels.stop)
            /\ d.risk \in {"APPROVED", "BLOCKED", "UNKNOWN", "NOT_APPLICABLE"}
            /\ Has(d.signalAge) /\ d.signalAge[1] \in Nat /\ Has(d.featureAge) /\ d.featureAge[1] \in Nat
<1>1. PICK when \in Int, row \in SignalRows, price \in Nullable(Nat) : \E liq, risk, control :
        /\ ContextOK(risk, control, log, fraction)
        /\ i = [decision |-> buildTradingDecision(when, row, price, liq, risk, control), dq |-> row.dq]
  BY DEF DecidedOn
<1>2. PICK liq, risk, control :
        i = [decision |-> buildTradingDecision(when, row, price, liq, risk, control), dq |-> row.dq]
  BY <1>1
<1> DEFINE d == buildTradingDecision(when, row, price, liq, risk, control)
<1>3. i.decision = d
  BY <1>2
<1>4. /\ d.direction = row.decision
      /\ d.control = deriveControlStatus(control)
      /\ d.execution = deriveExecutionStatus(control, d.control)
      /\ d.risk = evaluateStaticRisk(row.decision, d.sizing.notional, risk)
      /\ d.overall = deriveOverallStatus(row.decision, d.control, d.risk, d.execution, Has(d.levels.stop))
  BY DecisionStatus
<1>5. /\ Has(d.signalAge) /\ d.signalAge[1] \in Nat
      /\ Has(d.featureAge) /\ d.featureAge[1] \in Nat
  BY DecisionAges
<1>6. row.decision \in {"LONG", "SHORT", "FLAT"}
  BY DEF SignalRows
<1> HIDE DEF d
<1>7. d.control \in {"ALLOWED", "BLOCKED", "UNKNOWN"}
  BY <1>4 DEF deriveControlStatus
<1>8. d.control # "ALLOWED" => d.execution = d.control
  BY <1>4 DEF deriveExecutionStatus
<1>9. d.risk \in {"APPROVED", "BLOCKED", "UNKNOWN", "NOT_APPLICABLE"}
  BY <1>4 DEF evaluateStaticRisk
<1>10. /\ d.overall \in {"NO_TRADE", "BLOCKED", "WAITING", "ACTIONABLE", "INCOMPLETE"}
       /\ d.overall = "NO_TRADE" <=> row.decision = "FLAT"
       /\ d.overall = "ACTIONABLE" => d.control = "ALLOWED" /\ d.risk # "BLOCKED" /\ Has(d.levels.stop)
  BY <1>4, <1>7, <1>8 DEF deriveOverallStatus
<1> QED
  BY <1>3, <1>4, <1>5, <1>6, <1>9, <1>10

\* The plan and the book ask the same of a decision.
LEMMA PlanAgrees ==
  ASSUME NEW log, NEW fraction, NEW j, DecidedOn(j, log, fraction), NEW state, NEW halt \in BOOLEAN, NEW i,
         i = [decision |-> j.decision, dq |-> <<j.dq>>, plan |-> buildTradePlan(PlanInput(j, state, halt))]
  PROVE  LET stand == i.plan.execution.status
             trigger == i.plan.invalidation.state
             is == classify(i, halt)
         IN /\ i.plan.summary.shouldTrade => is = "OPEN"
            /\ is = "OPEN" => /\ i.plan.summary.canTrade
                              /\ stand.control = "PASS" /\ stand.risk # "FAIL" /\ stand.freshness # "FAIL"
            /\ i.plan.summary.canTrade => is \in {"OPEN", "WAITING"}
            /\ is = "OPEN" =>
                 \A t \in {"signal_expired", "feature_stale", "control_blocked", "risk_disabled"} : trigger[t] = "ARMED"
<1> DEFINE d == j.decision
           in == PlanInput(j, state, halt)
           f == deriveFacts(in)
           plan == buildTradePlan(in)
<1>1. in.decision = d /\ in.kill = halt
  BY DEF PlanInput
<1>2. i.decision = d /\ i.plan = plan
  OBVIOUS
<1> HIDE DEF in
<1>3. /\ f.directional = (d.direction # "FLAT")
      /\ f.controlAllowed = Tri(d.control # "UNKNOWN", d.control = "ALLOWED")
      /\ f.riskApproved = Tri(d.risk \in {"APPROVED", "BLOCKED"}, d.risk = "APPROVED")
      /\ f.signalFresh = AtMost(d.signalAge, StaleAfter) /\ f.featureFresh = AtMost(d.featureAge, StaleAfter)
      /\ f.hardBlocked = (halt \/ "BLOCKED" \in {d.control, d.risk, d.overall})
      /\ f.stale = (f.signalFresh = "no" \/ f.featureFresh = "no")
      /\ f.noTrade = (d.direction = "FLAT" \/ d.overall = "NO_TRADE")
      /\ f.actionable = (d.overall = "ACTIONABLE" /\ ~halt)
      /\ f.canTrade = (f.actionable /\ ~f.hardBlocked)
  <2> DEFINE e == in.decision
  <2>1. /\ f.directional = (e.direction # "FLAT")
        /\ f.controlAllowed = Tri(e.control # "UNKNOWN", e.control = "ALLOWED")
        /\ f.riskApproved = Tri(e.risk \in {"APPROVED", "BLOCKED"}, e.risk = "APPROVED")
        /\ f.signalFresh = AtMost(e.signalAge, StaleAfter) /\ f.featureFresh = AtMost(e.featureAge, StaleAfter)
        /\ f.hardBlocked = (in.kill \/ "BLOCKED" \in {e.control, e.risk, e.overall})
        /\ f.stale = (f.signalFresh = "no" \/ f.featureFresh = "no")
        /\ f.noTrade = (e.direction = "FLAT" \/ e.overall = "NO_TRADE")
        /\ f.actionable = (e.overall = "ACTIONABLE" /\ ~in.kill)
        /\ f.canTrade = (f.actionable /\ ~f.hardBlocked)
    BY FactsAre, Zenon
  <2>2. e = d /\ in.kill = halt
    BY <1>1
  <2> HIDE DEF e, d, f
  <2> QED
    BY <2>1, <2>2
<1>4. /\ plan.summary.canTrade = f.canTrade
      /\ plan.summary.shouldTrade = (actionFor(f, d.direction) \in Trades)
      /\ plan.execution.status.control = triStatus(f.controlAllowed)
      /\ plan.execution.status.risk = triStatus(f.riskApproved)
      /\ plan.execution.status.freshness = triStatus(freshness(f))
  BY <1>1, PlanIs
<1>5. \A t \in {"signal_expired", "feature_stale", "control_blocked", "risk_disabled"} :
        plan.invalidation.state[t] =
          IF f.directional
          THEN IF CASE t = "signal_expired" -> f.signalFresh = "no"
                    [] t = "feature_stale" -> f.featureFresh = "no"
                    [] t = "control_blocked" -> d.control = "BLOCKED"
                    [] t = "risk_disabled" -> d.risk = "BLOCKED"
               THEN "TRIGGERED" ELSE "ARMED"
          ELSE "NOT_APPLICABLE"
  BY <1>1, PlanIs
<1> HIDE DEF f, plan
<1>6. /\ d.direction \in {"LONG", "SHORT", "FLAT"}
      /\ d.overall = "NO_TRADE" <=> d.direction = "FLAT"
      /\ d.overall = "ACTIONABLE" => d.control = "ALLOWED" /\ d.risk # "BLOCKED"
      /\ Has(d.signalAge) /\ d.signalAge[1] \in Nat /\ Has(d.featureAge) /\ d.featureAge[1] \in Nat
  BY ActionableIs
<1> HIDE DEF d
<1>7. f.stale = isStale(i)
  <2>1. f.signalFresh = "no" <=> Older(d.signalAge)
    BY <1>3, <1>6 DEF AtMost, Tri, Older, StaleAfter
  <2>2. f.featureFresh = "no" <=> Older(d.featureAge)
    BY <1>3, <1>6 DEF AtMost, Tri, Older, StaleAfter
  <2>3. isStale(i) = (Older(d.signalAge) \/ Older(d.featureAge))
    BY <1>2 DEF isStale
  <2> QED
    BY <1>3, <2>1, <2>2, <2>3
<1>8. f.hardBlocked = isHardBlocked(i, halt)
  BY <1>2, <1>3 DEF isHardBlocked
<1> DEFINE is == classify(i, halt)
<1>9. /\ is = "OPEN" <=> /\ d.direction # "FLAT" /\ d.overall # "NO_TRADE"
                         /\ ~f.hardBlocked /\ f.canTrade /\ d.overall = "ACTIONABLE" /\ ~f.stale
      /\ is = "WAITING" <=> /\ d.direction # "FLAT" /\ d.overall # "NO_TRADE" /\ ~f.hardBlocked
                            /\ ~(f.canTrade /\ d.overall = "ACTIONABLE" /\ ~f.stale)
  BY <1>2, <1>4, <1>7, <1>8, ClassifyIs
<1> HIDE DEF is
<1>10. ASSUME plan.summary.shouldTrade PROVE is = "OPEN"
  <2>1. ~f.noTrade /\ ~f.hardBlocked /\ f.actionable /\ ~f.stale
    BY <1>4, <1>10 DEF actionFor, Trades
  <2> QED
    BY <1>3, <1>9, <2>1
<1>11. ASSUME is = "OPEN"
       PROVE  /\ plan.summary.canTrade
              /\ plan.execution.status.control = "PASS" /\ plan.execution.status.risk # "FAIL"
              /\ plan.execution.status.freshness # "FAIL"
              /\ \A t \in {"signal_expired", "feature_stale", "control_blocked", "risk_disabled"} :
                   plan.invalidation.state[t] = "ARMED"
  <2>1. d.control = "ALLOWED" /\ d.risk # "BLOCKED" /\ f.canTrade /\ f.directional /\ ~f.stale
    BY <1>3, <1>6, <1>9, <1>11
  <2>2. f.controlAllowed = "yes" /\ f.riskApproved \in {"yes", "unknown"}
    BY <1>3, <2>1 DEF Tri
  <2>3. f.signalFresh # "no" /\ f.featureFresh # "no"
    BY <1>3, <2>1
  <2>4. freshness(f) \in {"yes", "unknown"}
    BY <2>1 DEF freshness
  <2>5. triStatus("yes") = "PASS" /\ triStatus("unknown") = "UNKNOWN"
    BY DEF triStatus
  <2>6. \A t \in {"signal_expired", "feature_stale", "control_blocked", "risk_disabled"} :
          plan.invalidation.state[t] = "ARMED"
    BY <1>5, <2>1, <2>3
  <2> QED
    BY <1>4, <2>1, <2>2, <2>4, <2>5, <2>6
<1>12. ASSUME plan.summary.canTrade PROVE is \in {"OPEN", "WAITING"}
  BY <1>3, <1>4, <1>6, <1>9, <1>12
<1> QED
  BY <1>2, <1>10, <1>11, <1>12 DEF is

\* The sections of an answer agree.
LEMMA SectionsHold == DeskInv => SectionsAgree
<1> SUFFICES ASSUME DeskInv, Answered, NEW i \in desk.items, NEW p \in desk.book.positions, p.id = i.decision.id
             PROVE  LET stand == i.plan.execution.status
                        trigger == i.plan.invalidation.state
                    IN /\ i.plan.summary.shouldTrade => p.state = "OPEN"
                       /\ p.state = "OPEN" =>
                            /\ i.plan.summary.canTrade
                            /\ stand.control = "PASS" /\ stand.risk # "FAIL" /\ stand.freshness # "FAIL"
                       /\ i.plan.summary.canTrade => p.state \in {"OPEN", "WAITING"}
                       /\ p.state = "OPEN" =>
                            \A t \in {"signal_expired", "feature_stale", "control_blocked", "risk_disabled"} :
                              trigger[t] = "ARMED"
  BY DEF SectionsAgree
<1>1. AnswerOK(desk, gateLog, RiskFraction)
  BY DEF DeskInv, Answered
<1>2. PICK halt \in BOOLEAN : \E items, state, grant :
        ItemsOK(items, gateLog, RiskFraction) /\ desk = assemble(items, state, grant, halt)
  BY <1>1 DEF AnswerOK
<1>3. PICK items, state, grant :
        ItemsOK(items, gateLog, RiskFraction) /\ desk = assemble(items, state, grant, halt)
  BY <1>2
<1>4. /\ desk.items = Planned(items, state, halt)
      /\ desk.book = buildPortfolioState(BookInput(desk.items, state, grant, halt))
  BY <1>3, AnswerIs
<1> DEFINE in == BookInput(desk.items, state, grant, halt)
           facts == derivePortfolioFacts(in)
<1>5. in.items = desk.items /\ in.kill = halt
  BY DEF BookInput
<1>6. desk.book.positions = {toPosition(q, in.kill) : q \in in.items}
  BY <1>4, BookIs, BookPositions, ZenonT(60)
<1> HIDE DEF in
<1>7. PICK q \in desk.items : p = toPosition(q, halt)
  BY <1>5, <1>6
<1>8. PICK j \in items :
        i = [decision |-> j.decision, dq |-> <<j.dq>>, plan |-> buildTradePlan(PlanInput(j, state, halt))]
  BY <1>4, PlannedIs
<1>9. PICK k \in items :
        q = [decision |-> k.decision, dq |-> <<k.dq>>, plan |-> buildTradePlan(PlanInput(k, state, halt))]
  BY <1>4, PlannedIs
<1>10. j = k
  <2>1. i.decision = j.decision /\ q.decision = k.decision
    BY <1>8, <1>9
  <2>2. j.decision.id = k.decision.id
    BY <1>7, <2>1, PositionIs
  <2> QED
    BY <1>3, <2>2 DEF ItemsOK
<1>11. i = q
  BY <1>8, <1>9, <1>10
<1>12. p.state = classify(i, halt)
  BY <1>7, <1>11, PositionIs
<1>13. DecidedOn(j, gateLog, RiskFraction)
  BY <1>3 DEF ItemsOK
<1> QED
  BY <1>8, <1>12, <1>13, PlanAgrees

SumsUp(it, f) ==
  it = [s \in SUBSET DOMAIN f |-> IF s = {} THEN 0
                                  ELSE f[CHOOSE x \in s : TRUE] + it[s \ {CHOOSE x \in s : TRUE}]]

\* SumFunction unfolds to a recursion on the subsets of its domain.
LEMMA SumUnfolds ==
  ASSUME NEW f, NEW it, SumsUp(it, f)
  PROVE  \E g : SumsUp(g, f) /\ SumFunction(f) = g[DOMAIN f]
BY Zenon DEF SumFunction, SumFunctionOnSet, FoldFunctionOnSet, MapThenFoldSet, SumsUp

\* The sum of a function's values is the sum over its domain.
LEMMA SumFunctionIs ==
  ASSUME NEW f, IsFiniteSet(DOMAIN f), \A x \in DOMAIN f : f[x] \in Int
  PROVE  SumFunction(f) = SumOf(f, DOMAIN f)
<1> DEFINE S == DOMAIN f
<1>1. PICK it \in [SUBSET S -> Int] : Summed(it, f, S) /\ SumOf(f, S) = it[S]
  BY SumIs
<1>2. SumsUp(it, f)
  BY <1>1 DEF Summed, SumsUp
<1>3. PICK g : SumsUp(g, f) /\ SumFunction(f) = g[S]
  BY <1>2, SumUnfolds
<1>4. Summed(g, f, S)
  BY <1>3 DEF Summed, SumsUp
<1>5. g[S] = it[S]
  BY <1>1, <1>4, SumAgrees
<1> QED
  BY <1>1, <1>3, <1>5

\* Induction over the subsets of a finite set.
LEMMA BySubsets ==
  ASSUME NEW S, IsFiniteSet(S), NEW P, {} \in P,
         \A s \in SUBSET S, x \in S : x \in s /\ s \ {x} \in P => s \in P
  PROVE  S \in P
<1> DEFINE bad == {n \in Nat : \E s \in SUBSET S : Cardinality(s) = n /\ s \notin P}
<1>1. \A s \in SUBSET S : IsFiniteSet(s) /\ Cardinality(s) \in Nat
  BY FS_Subset, FS_CardinalityType
<1>2. ASSUME bad # {} PROVE FALSE
  <2>1. PICK n \in bad : \A k \in bad : n <= k
    BY <1>2, LeastNumber
  <2>2. PICK s \in SUBSET S : Cardinality(s) = n /\ s \notin P
    OBVIOUS
  <2>3. PICK x \in s : TRUE
    BY <2>2
  <2>4. Cardinality(s \ {x}) = Cardinality(s) - 1
    BY <1>1, <2>3, FS_RemoveElement
  <2>5. s \ {x} \in SUBSET S /\ Cardinality(s \ {x}) \in Nat /\ Cardinality(s \ {x}) < n
    BY <1>1, <2>2, <2>4
  <2>6. s \ {x} \in P
    BY <2>1, <2>5
  <2> QED
    BY <2>2, <2>3, <2>6
<1>3. S \in SUBSET S /\ Cardinality(S) \in Nat
  BY FS_CardinalityType
<1> QED
  BY <1>2, <1>3

\* A sum of non-negative summands.
LEMMA SumNat ==
  ASSUME NEW S, IsFiniteSet(S), NEW f, \A x \in S : f[x] \in Nat
  PROVE  SumOf(f, S) \in Nat
<1> DEFINE P == {s \in SUBSET S : SumOf(f, s) \in Nat}
<1>1. \A s \in SUBSET S : IsFiniteSet(s) /\ \A x \in s : f[x] \in Int
  BY FS_Subset
<1>2. \A s \in SUBSET S : (s = {} => SumOf(f, s) = 0) /\ \A y \in s : SumOf(f, s) = f[y] + SumOf(f, s \ {y})
  BY <1>1, SumFacts
<1>3. {} \in P
  BY <1>2
<1>4. \A s \in SUBSET S, x \in S : x \in s /\ s \ {x} \in P => s \in P
  BY <1>2
<1> HIDE DEF P
<1>5. S \in P
  BY <1>3, <1>4, BySubsets
<1> QED
  BY <1>5 DEF P

\* Sums are linear.
LEMMA SumLinear ==
  ASSUME NEW S, IsFiniteSet(S), NEW f, \A x \in S : f[x] \in Int, NEW g, \A x \in S : g[x] \in Int,
         NEW a \in Int, NEW b \in Int, NEW c \in Int,
         NEW h, \A x \in S : h[x] = a * f[x] + b * g[x] + c
  PROVE  SumOf(h, S) = a * SumOf(f, S) + b * SumOf(g, S) + c * Cardinality(S)
<1> DEFINE F(s) == SumOf(f, s)
           G(s) == SumOf(g, s)
           H(s) == SumOf(h, s)
           P == {s \in SUBSET S : H(s) = a * F(s) + b * G(s) + c * Cardinality(s)}
<1>1. \A x \in S : h[x] \in Int
  OBVIOUS
<1>2. \A s \in SUBSET S : /\ IsFiniteSet(s) /\ Cardinality(s) \in Nat
                          /\ \A x \in s : f[x] \in Int /\ g[x] \in Int /\ h[x] \in Int
  BY <1>1, FS_Subset, FS_CardinalityType
<1>3. \A s \in SUBSET S : /\ F(s) \in Int /\ G(s) \in Int
                          /\ \A y \in s : /\ F(s) = f[y] + F(s \ {y}) /\ G(s) = g[y] + G(s \ {y})
                                          /\ H(s) = h[y] + H(s \ {y})
  BY <1>2, SumFacts
<1>4. {} \in P
  <2>1. F({}) = 0 /\ G({}) = 0 /\ H({}) = 0
    BY <1>2, SumFacts
  <2>2. Cardinality({}) = 0
    BY FS_EmptySet
  <2>3. a * 0 = 0 /\ b * 0 = 0 /\ c * 0 = 0
    OBVIOUS
  <2> QED
    BY <2>1, <2>2, <2>3
<1>5. ASSUME NEW s \in SUBSET S, NEW x \in S, x \in s, s \ {x} \in P PROVE s \in P
  <2> DEFINE r == s \ {x}
  <2>1. r \in SUBSET S /\ Cardinality(s) = Cardinality(r) + 1 /\ Cardinality(r) \in Nat
    BY <1>2, <1>5, FS_RemoveElement
  <2>2. F(s) = f[x] + F(r) /\ G(s) = g[x] + G(r) /\ H(s) = h[x] + H(r) /\ F(r) \in Int /\ G(r) \in Int
    BY <1>3, <1>5, <2>1
  <2>3. H(r) = a * F(r) + b * G(r) + c * Cardinality(r) /\ h[x] = a * f[x] + b * g[x] + c
    BY <1>5
  <2> DEFINE p == F(r)
             q == G(r)
             n == Cardinality(r)
  <2> HIDE DEF F, G, H, r, p, q, n
  <2>4. p \in Int /\ q \in Int /\ n \in Nat /\ f[x] \in Int /\ g[x] \in Int
    BY <2>1, <2>2 DEF p, q, n
  <2>5. /\ a * (f[x] + p) = a * f[x] + a * p /\ b * (g[x] + q) = b * g[x] + b * q /\ c * (n + 1) = c * n + c
        /\ a * f[x] \in Int /\ a * p \in Int /\ b * g[x] \in Int /\ b * q \in Int /\ c * n \in Int
    BY <2>4
  <2>6. H(s) = a * (f[x] + p) + b * (g[x] + q) + c * (n + 1)
    BY <2>2, <2>3, <2>4, <2>5 DEF p, q, n
  <2>7. H(s) = a * F(s) + b * G(s) + c * Cardinality(s)
    BY <2>1, <2>2, <2>6 DEF p, q, n
  <2> QED
    BY <2>7
<1> HIDE DEF P
<1>6. S \in P
  BY <1>4, <1>5, BySubsets
<1> QED
  BY <1>6 DEF P, F, G, H

\* Summands that are zero may be left out.
LEMMA SumSubset ==
  ASSUME NEW S, IsFiniteSet(S), NEW f, \A x \in S : f[x] \in Int, NEW T \in SUBSET S, \A x \in S \ T : f[x] = 0
  PROVE  SumOf(f, S) = SumOf(f, T)
<1> DEFINE P == {s \in SUBSET S : SumOf(f, s) = SumOf(f, s \intersect T)}
<1>1. \A s \in SUBSET S : IsFiniteSet(s) /\ \A x \in s : f[x] \in Int
  BY FS_Subset
<1>2. \A s \in SUBSET S : SumOf(f, s) \in Int /\ \A y \in s : SumOf(f, s) = f[y] + SumOf(f, s \ {y})
  BY <1>1, SumFacts
<1>3. {} \in P
  <2>1. {} \intersect T = {}
    OBVIOUS
  <2> QED
    BY <2>1
<1>4. ASSUME NEW s \in SUBSET S, NEW x \in S, x \in s, s \ {x} \in P PROVE s \in P
  <2> DEFINE r == s \ {x}
  <2>1. /\ SumOf(f, s) = f[x] + SumOf(f, r) /\ SumOf(f, r) = SumOf(f, r \intersect T)
        /\ r \intersect T \in SUBSET S /\ s \intersect T \in SUBSET S
    BY <1>2, <1>4
  <2>2. CASE x \in T
    <3>1. x \in s \intersect T /\ (s \intersect T) \ {x} = r \intersect T
      BY <1>4, <2>2
    <3>2. SumOf(f, s \intersect T) = f[x] + SumOf(f, (s \intersect T) \ {x})
      BY <1>2, <2>1, <3>1
    <3>3. SumOf(f, s) = SumOf(f, s \intersect T)
      BY <2>1, <3>1, <3>2
    <3> QED
      BY <3>3
  <2>3. CASE x \notin T
    <3>1. s \intersect T = r \intersect T /\ f[x] = 0
      BY <2>3
    <3>2. SumOf(f, r \intersect T) \in Int
      BY <1>2, <2>1
    <3>3. SumOf(f, s) = SumOf(f, r \intersect T)
      BY <2>1, <3>1, <3>2
    <3> QED
      BY <3>1, <3>3
  <2> QED
    BY <2>2, <2>3
<1> HIDE DEF P
<1>5. S \in P
  BY <1>3, <1>4, BySubsets
<1>6. S \intersect T = T
  OBVIOUS
<1> QED
  BY <1>5, <1>6 DEF P

\* Equal summands.
LEMMA SumEqual ==
  ASSUME NEW S, IsFiniteSet(S), NEW c \in Int, NEW f, \A x \in S : f[x] = c
  PROVE  SumOf(f, S) = c * Cardinality(S)
<1> DEFINE P == {s \in SUBSET S : SumOf(f, s) = c * Cardinality(s)}
<1>1. \A s \in SUBSET S : IsFiniteSet(s) /\ Cardinality(s) \in Nat /\ \A x \in s : f[x] \in Int
  BY FS_Subset, FS_CardinalityType
<1>2. \A s \in SUBSET S : (s = {} => SumOf(f, s) = 0) /\ \A y \in s : SumOf(f, s) = f[y] + SumOf(f, s \ {y})
  BY <1>1, SumFacts
<1>3. {} \in P
  <2>1. Cardinality({}) = 0 /\ c * 0 = 0
    BY FS_EmptySet
  <2> QED
    BY <1>2, <2>1
<1>4. ASSUME NEW s \in SUBSET S, NEW x \in S, x \in s, s \ {x} \in P PROVE s \in P
  <2> DEFINE n == Cardinality(s \ {x})
  <2>1. n \in Nat /\ Cardinality(s) = n + 1
    BY <1>1, <1>4, FS_RemoveElement
  <2>2. SumOf(f, s) = c + c * n
    BY <1>2, <1>4
  <2> HIDE DEF n
  <2>3. c + c * n = c * (n + 1)
    BY <2>1
  <2>4. SumOf(f, s) = c * Cardinality(s)
    BY <2>1, <2>2, <2>3
  <2> QED
    BY <2>4
<1> HIDE DEF P
<1>5. S \in P
  BY <1>3, <1>4, BySubsets
<1> QED
  BY <1>5 DEF P

\* Sums of groups add up.
LEMMA SumParts ==
  ASSUME NEW P, IsFiniteSet(P), NEW f, \A p \in P : f[p] \in Int,
         NEW K, IsFiniteSet(K), NEW key, \A p \in P : key[p] \in K,
         NEW g, \A k \in K : g[k] = SumOf(f, {p \in P : key[p] = k})
  PROVE  SumOf(g, K) = SumOf(f, P)
<1> DEFINE Of(s, k) == {p \in s : key[p] = k}
           G(s) == [k \in K |-> SumOf(f, Of(s, k))]
           Q == {s \in SUBSET P : SumOf(G(s), K) = SumOf(f, s)}
<1>1. \A s \in SUBSET P : IsFiniteSet(s) /\ \A x \in s : f[x] \in Int
  BY FS_Subset
<1>2. \A s \in SUBSET P : SumOf(f, s) \in Int /\ \A y \in s : SumOf(f, s) = f[y] + SumOf(f, s \ {y})
  BY <1>1, SumFacts
<1>3. \A s \in SUBSET P, k \in K : Of(s, k) \in SUBSET P
  OBVIOUS
<1>4. \A s \in SUBSET P, k \in K : G(s)[k] \in Int
  BY <1>2, <1>3
<1>5. {} \in Q
  <2>1. \A k \in K : Of({}, k) = {}
    OBVIOUS
  <2>2. SumOf(f, {}) = 0
    BY <1>1, SumFacts
  <2>3. \A k \in K : G({})[k] = 0
    BY <2>1, <2>2
  <2> DEFINE h == G({})
  <2>4. \A k \in K : h[k] = 0
    BY <2>3
  <2> HIDE DEF h
  <2>5. SumOf(h, K) = 0 * Cardinality(K) /\ Cardinality(K) \in Nat
    BY <2>4, SumEqual, FS_CardinalityType
  <2>6. SumOf(h, K) = 0
    BY <2>5
  <2> QED
    BY <2>2, <2>6 DEF h
<1>6. ASSUME NEW s \in SUBSET P, NEW x \in P, x \in s, s \ {x} \in Q PROVE s \in Q
  <2> DEFINE r == s \ {x}
             y == key[x]
             old == G(r)
             new == G(s)
  <2>1. r \in SUBSET P /\ y \in K
    OBVIOUS
  <2>2. Of(s, y) \ {x} = Of(r, y) /\ x \in Of(s, y) /\ \A k \in K \ {y} : Of(s, k) = Of(r, k)
    BY <1>6
  <2>3. new[y] = f[x] + old[y]
    <3>1. new[y] = SumOf(f, Of(s, y)) /\ old[y] = SumOf(f, Of(r, y))
      BY <2>1
    <3>2. SumOf(f, Of(s, y)) = f[x] + SumOf(f, Of(s, y) \ {x})
      BY <1>2, <1>3, <2>1, <2>2
    <3> QED
      BY <2>2, <3>1, <3>2
  <2>4. \A k \in K \ {y} : new[k] = old[k]
    BY <2>2
  <2>5. (\A k \in K : old[k] \in Int) /\ new[y] \in Int
    BY <1>4, <2>1
  <2>6. SumOf(old, K) = SumOf(f, r) /\ SumOf(f, s) = f[x] + SumOf(f, r) /\ SumOf(f, r) \in Int /\ f[x] \in Int
    BY <1>2, <1>6, <2>1
  <2> HIDE DEF old, new, y, G
  <2>7. SumOf(new, K) = SumOf(old, K) - old[y] + new[y]
    BY <2>1, <2>4, <2>5, SumMoves
  <2>8. SumOf(new, K) = SumOf(f, s)
    BY <2>1, <2>3, <2>5, <2>6, <2>7
  <2> QED
    BY <2>8 DEF new
<1> HIDE DEF Q
<1>7. P \in Q
  BY <1>5, <1>6, BySubsets
<1> DEFINE h == G(P)
<1>8. SumOf(h, K) = SumOf(f, P)
  BY <1>7 DEF Q
<1>9. \A k \in K : g[k] = h[k] /\ h[k] \in Int
  BY <1>4
<1> HIDE DEF h, G
<1> QED
  BY <1>8, <1>9, SumFacts

-----------------------------------------------------------------------------
(* Rounded quotients. *)

\* What \\div returns.
LEMMA Division ==
  ASSUME NEW n \in Int, NEW d \in Nat \ {0}
  PROVE  n \div d \in Int /\ d * (n \div d) <= n /\ n < d * (n \div d) + d
OBVIOUS

\* A rounded quotient is off by at most half a unit.
LEMMA RoundIs ==
  ASSUME NEW n \in Int, NEW d \in Nat \ {0}
  PROVE  LET q == RoundDiv(n, d)
         IN q \in Int /\ 2 * (d * q) <= 2 * n + d /\ 2 * n + d < 2 * (d * q) + 2 * d
<1> DEFINE q == (2 * n + d) \div (2 * d)
<1>1. 2 * n + d \in Int /\ 2 * d \in Nat \ {0}
  OBVIOUS
<1>2. q \in Int /\ (2 * d) * q <= 2 * n + d /\ 2 * n + d < (2 * d) * q + (2 * d)
  BY <1>1, Division
<1>3. RoundDiv(n, d) = q
  BY DEF RoundDiv
<1> HIDE DEF q
<1>4. (2 * d) * q = 2 * (d * q) /\ d * q \in Int
  BY <1>2
<1> QED
  BY <1>2, <1>3, <1>4

\* Whatever is within half a unit, is it.
LEMMA RoundOnly ==
  ASSUME NEW n \in Int, NEW d \in Nat \ {0}, NEW k \in Int, 2 * (d * k) <= 2 * n + d, 2 * n + d < 2 * (d * k) + 2 * d
  PROVE  RoundDiv(n, d) = k
<1> DEFINE q == RoundDiv(n, d)
<1>1. q \in Int /\ 2 * (d * q) <= 2 * n + d /\ 2 * n + d < 2 * (d * q) + 2 * d
  BY RoundIs
<1> HIDE DEF q
<1>2. d * (q - k) = d * q - d * k /\ d * q \in Int /\ d * k \in Int
  BY <1>1
<1>3. d * (q - k) < d /\ -d < d * (q - k)
  BY <1>1, <1>2
<1>4. ASSUME q - k >= 1 PROVE FALSE
  <2>1. d * (q - k) >= d
    BY <1>1, <1>4
  <2> QED
    BY <1>2, <1>3, <2>1
<1>5. ASSUME q - k <= -1 PROVE FALSE
  <2>1. d * (q - k) <= -d
    BY <1>1, <1>5
  <2> QED
    BY <1>2, <1>3, <2>1
<1>6. q = k
  BY <1>1, <1>4, <1>5
<1> QED
  BY <1>6 DEF q

\* Of a natural number it is one, and no larger than the number it is rounded from may be.
LEMMA RoundNat ==
  ASSUME NEW n \in Nat, NEW d \in Nat \ {0}
  PROVE  /\ RoundDiv(n, d) \in Nat
         /\ \A k \in Nat : n <= d * k => RoundDiv(n, d) <= k
<1> DEFINE q == RoundDiv(n, d)
<1>1. q \in Int /\ 2 * (d * q) <= 2 * n + d /\ 2 * n + d < 2 * (d * q) + 2 * d
  BY RoundIs
<1> HIDE DEF q
<1>2. d * q \in Int
  BY <1>1
<1>3. ASSUME q <= -1 PROVE FALSE
  <2>1. d * q <= -d
    BY <1>1, <1>3
  <2> QED
    BY <1>1, <1>2, <2>1
<1>4. ASSUME NEW k \in Nat, n <= d * k, q >= k + 1 PROVE FALSE
  <2>1. d * q >= d * (k + 1) /\ d * (k + 1) = d * k + d /\ d * k \in Int
    BY <1>1, <1>4
  <2> QED
    BY <1>1, <1>2, <1>4, <2>1
<1> QED
  BY <1>1, <1>3, <1>4 DEF q

\* A whole quotient is not rounded.
LEMMA RoundExact ==
  ASSUME NEW r \in Int, NEW d \in Nat \ {0}
  PROVE  RoundDiv(d * r, d) = r
<1>1. d * r \in Int
  OBVIOUS
<1>2. 2 * (d * r) <= 2 * (d * r) + d /\ 2 * (d * r) + d < 2 * (d * r) + 2 * d
  BY <1>1
<1> QED
  BY <1>1, <1>2, RoundOnly

\* The configured risk fraction is a natural number, whatever is stored.
LEMMA FractionIs ==
  ASSUME limit \in Nullable([value : Int, pct : BOOLEAN])
  PROVE  RiskFraction \in Nat
<1>1. CASE limit = Null
  BY <1>1 DEF RiskFraction
<1>2. CASE limit # Null
  <2>1. limit[1].value \in Int
    BY <1>2, NullableIs DEF Has
  <2>2. limit[1].value > 0 => RoundDiv(limit[1].value, 100) \in Nat
    BY <2>1 DEF RoundDiv
  <2> HIDE DEF RoundDiv
  <2> QED
    BY <1>2, <2>1, <2>2 DEF RiskFraction
<1> QED
  BY <1>1, <1>2

\* A feature of a row.
LEMMA FeatureIs ==
  ASSUME NEW row \in SignalRows, NEW key
  PROVE  readFeature(row.features, key) \in Nullable(Int)
<1>1. row.features \in FeatureVectors
  BY DEF SignalRows
<1>2. \A k \in DOMAIN row.features : row.features[k] \in Int
  BY <1>1 DEF FeatureVectors
<1> QED
  BY <1>2, NullableHolds DEF readFeature

\* The stop and the targets lie on the two sides of the entry, in order.
LEMMA LevelsInOrder ==
  ASSUME NEW direction, NEW price \in Nullable(Nat), NEW atr \in Nullable(Int)
  PROVE  LET l == computeLevels(direction, price, atr)
             sign == IF direction = "LONG" THEN 1 ELSE -1
         IN Has(l.stop) =>
              /\ Has(l.entry) /\ l.entry[1] \in Nat /\ l.stop[1] \in Int
              /\ sign * l.stop[1] <= sign * l.entry[1] /\ sign * l.entry[1] <= sign * l.tp1[1]
              /\ sign * l.tp1[1] <= sign * l.tp2[1] /\ sign * l.tp2[1] <= sign * l.tp3[1]
<1> DEFINE l == computeLevels(direction, price, atr)
           sign == IF direction = "LONG" THEN 1 ELSE -1
           Away(halves) == sign * ((halves * atr[1]) \div 2)
           At(x) == RoundDiv(x, 10)
           e == price[1]
<1> SUFFICES ASSUME Has(l.stop)
             PROVE  /\ Has(l.entry) /\ l.entry[1] \in Nat /\ l.stop[1] \in Int
                    /\ sign * l.stop[1] <= sign * l.entry[1] /\ sign * l.entry[1] <= sign * l.tp1[1]
                    /\ sign * l.tp1[1] <= sign * l.tp2[1] /\ sign * l.tp2[1] <= sign * l.tp3[1]
  OBVIOUS
<1>1. direction # "FLAT" /\ Has(price) /\ Has(atr) /\ atr[1] > 0
  <2>1. allUnavailable.stop = Null /\ \A x : [allUnavailable EXCEPT !.entry = x].stop = Null
    BY DEF allUnavailable
  <2>2. ~(direction = "FLAT" \/ price = Null)
    <3>1. direction = "FLAT" \/ price = Null => l = allUnavailable
      BY DEF computeLevels
    <3> QED
      BY <2>1, <3>1 DEF Has
  <2>3. atr # Null
    <3>1. atr = Null => l = [allUnavailable EXCEPT !.entry = <<At(e)>>]
      BY <2>2 DEF computeLevels
    <3> QED
      BY <2>1, <3>1 DEF Has
  <2>4. ~(atr[1] <= 0)
    <3>1. atr[1] <= 0 => l = [allUnavailable EXCEPT !.entry = <<At(e)>>]
      BY <2>2, <2>3 DEF computeLevels
    <3> QED
      BY <2>1, <3>1 DEF Has
  <2>5. atr[1] \in Int
    BY <2>3, NullableIs DEF Has
  <2> QED
    BY <2>2, <2>3, <2>4, <2>5 DEF Has
<1>2. e \in Nat /\ atr[1] \in Int
  BY <1>1, NullableIs
<1>3. /\ l.entry = <<At(e)>> /\ l.stop = <<At(e - Away(3))>>
      /\ l.tp1 = <<At(e + Away(3))>> /\ l.tp2 = <<At(e + Away(6))>> /\ l.tp3 = <<At(e + Away(9))>>
  BY <1>1, <1>2 DEF computeLevels, Has
<1> DEFINE a == (3 * atr[1]) \div 2
           b == (6 * atr[1]) \div 2
           c == (9 * atr[1]) \div 2
<1>4. a \in Nat /\ b \in Nat /\ c \in Nat /\ a <= b /\ b <= c
  BY <1>1, <1>2
<1>5. \A x, y \in Int : At(x) \in Int /\ (x <= y => At(x) <= At(y))
  BY DEF RoundDiv
<1>8. At(e) \in Nat
  BY <1>2 DEF RoundDiv
<1> HIDE DEF l, a, b, c, e, At
<1>6. CASE direction = "LONG"
  <2>1. /\ l.entry[1] = At(e) /\ l.stop[1] = At(e - a) /\ l.tp1[1] = At(e + a)
        /\ l.tp2[1] = At(e + b) /\ l.tp3[1] = At(e + c)
    BY <1>2, <1>3, <1>4, <1>6 DEF a, b, c
  <2>2. e - a <= e /\ e <= e + a /\ e + a <= e + b /\ e + b <= e + c
        /\ e - a \in Int /\ e + a \in Int /\ e + b \in Int /\ e + c \in Int
    BY <1>2, <1>4
  <2>3. At(e - a) <= At(e) /\ At(e) <= At(e + a) /\ At(e + a) <= At(e + b) /\ At(e + b) <= At(e + c)
        /\ At(e - a) \in Int /\ At(e) \in Int /\ At(e + a) \in Int /\ At(e + b) \in Int /\ At(e + c) \in Int
    BY <1>2, <1>5, <2>2
  <2> QED
    BY <1>3, <1>6, <1>8, <2>1, <2>3 DEF Has, Null
<1>7. CASE direction # "LONG"
  <2>1. /\ l.entry[1] = At(e) /\ l.stop[1] = At(e + a) /\ l.tp1[1] = At(e - a)
        /\ l.tp2[1] = At(e - b) /\ l.tp3[1] = At(e - c)
    <3>1. e - Away(3) = e + a /\ e + Away(3) = e - a /\ e + Away(6) = e - b /\ e + Away(9) = e - c
      BY <1>2, <1>4, <1>7 DEF a, b, c
    <3> QED
      BY <1>3, <3>1
  <2>2. e + a >= e /\ e >= e - a /\ e - a >= e - b /\ e - b >= e - c
        /\ e - a \in Int /\ e + a \in Int /\ e - b \in Int /\ e - c \in Int
    BY <1>2, <1>4
  <2>3. At(e + a) >= At(e) /\ At(e) >= At(e - a) /\ At(e - a) >= At(e - b) /\ At(e - b) >= At(e - c)
        /\ At(e - a) \in Int /\ At(e) \in Int /\ At(e + a) \in Int /\ At(e - b) \in Int /\ At(e - c) \in Int
    BY <1>2, <1>5, <2>2
  <2> QED
    BY <1>3, <1>7, <1>8, <2>1, <2>3 DEF Has, Null
<1> QED
  BY <1>6, <1>7

\* The size loses the risk amount at the stop.
LEMMA SizeLosesRisk ==
  ASSUME NEW direction, NEW entry, NEW stop, NEW risk, RiskAmount(risk) \in Int,
         Has(stop) => Has(entry) /\ entry[1] \in Nat /\ stop[1] \in Int
  PROVE  LET s == computeSizing(direction, entry, stop, risk)
             distance == Distance(entry[1], stop[1])
         IN /\ Has(s.size) <=> Has(s.notional)
            /\ Has(s.size) => /\ Has(entry) /\ Has(stop) /\ s.notional[1] \in Nat
                              /\ RoundDiv(s.size[1][1] * distance, 100 * s.size[1][2]) = RiskAmount(risk)
<1> DEFINE s == computeSizing(direction, entry, stop, risk)
           distance == Distance(entry[1], stop[1])
           amount == RiskAmount(risk)
           none == [size |-> Null, notional |-> Null, capitalRisk |-> Null]
<1> HIDE DEF amount
<1>1. CASE direction = "FLAT" \/ entry = Null \/ stop = Null
  <2>1. s = none
    BY <1>1 DEF computeSizing
  <2> QED
    BY <2>1 DEF Has
<1>2. CASE direction # "FLAT" /\ entry # Null /\ stop # Null
  <2>1. entry[1] \in Nat /\ stop[1] \in Int
    BY <1>2 DEF Has
  <2>2. distance \in Nat
    BY <2>1 DEF Distance
  <2>3. CASE distance = 0 \/ amount <= 0
    <3>1. s = none
      BY <1>2, <2>3 DEF computeSizing, amount
    <3> QED
      BY <3>1 DEF Has
  <2>4. CASE ~(distance = 0 \/ amount <= 0)
    <3>1. s = [size |-> <<<<amount * 100, distance>>>>, notional |-> <<RoundDiv(amount * entry[1], distance)>>,
               capitalRisk |-> <<risk.fraction * 10>>]
      BY <1>2, <2>4 DEF computeSizing, amount
    <3>2. distance \in Nat \ {0} /\ amount \in Nat
      BY <2>2, <2>4 DEF amount
    <3> HIDE DEF distance
    <3>3. /\ s.size = <<<<amount * 100, distance>>>> /\ s.notional = <<RoundDiv(amount * entry[1], distance)>>
      BY <3>1
    <3> HIDE DEF s
    <3>4. s.size[1][1] = amount * 100 /\ s.size[1][2] = distance /\ s.notional[1] = RoundDiv(amount * entry[1], distance)
      BY <3>3
    <3>5. amount * entry[1] \in Nat
      BY <2>1, <3>2
    <3>6. RoundDiv(amount * entry[1], distance) \in Nat
      BY <3>2, <3>5, RoundNat
    <3>7. (amount * 100) * distance = (100 * distance) * amount /\ 100 * distance \in Nat \ {0}
      BY <3>2
    <3>8. RoundDiv((100 * distance) * amount, 100 * distance) = amount
      BY <3>2, <3>7, RoundExact
    <3>9. RoundDiv(s.size[1][1] * distance, 100 * s.size[1][2]) = amount
      BY <3>4, <3>7, <3>8
    <3>10. Has(s.size) /\ Has(s.notional) /\ Has(entry) /\ Has(stop)
      BY <1>2, <3>3 DEF Has, Null
    <3> QED
      BY <3>4, <3>6, <3>9, <3>10 DEF s, distance, amount
  <2> QED
    BY <2>3, <2>4
<1> QED
  BY <1>1, <1>2 DEF Has

\* What a decision risks.
LEMMA DecisionRisk ==
  ASSUME NEW log, NEW fraction \in Nat, NEW i, DecidedOn(i, log, fraction)
  PROVE  LET d == i.decision
             l == d.levels
             sign == IF d.direction = "LONG" THEN 1 ELSE -1
         IN /\ Has(l.stop) =>
                 /\ sign * l.stop[1] <= sign * l.entry[1] /\ sign * l.entry[1] <= sign * l.tp1[1]
                 /\ sign * l.tp1[1] <= sign * l.tp2[1] /\ sign * l.tp2[1] <= sign * l.tp3[1]
            /\ Has(d.sizing.size) <=> Has(d.sizing.notional)
            /\ Has(d.sizing.size) =>
                 /\ Has(l.entry) /\ Has(l.stop) /\ d.sizing.notional[1] \in Nat
                 /\ RoundDiv(d.sizing.size[1][1] * Distance(l.entry[1], l.stop[1]), 100 * d.sizing.size[1][2])
                      = DefaultEquity * fraction
            /\ d.risk = "APPROVED" => d.sizing.notional[1] <= 3000 * DefaultEquity
            /\ d.equity = DefaultEquity
<1>1. PICK when \in Int, row \in SignalRows, price \in Nullable(Nat) : \E liq, risk, control :
        /\ ContextOK(risk, control, log, fraction)
        /\ i = [decision |-> buildTradingDecision(when, row, price, liq, risk, control), dq |-> row.dq]
  BY DEF DecidedOn
<1>2. PICK liq, risk, control :
        /\ ContextOK(risk, control, log, fraction)
        /\ i = [decision |-> buildTradingDecision(when, row, price, liq, risk, control), dq |-> row.dq]
  BY <1>1
<1> DEFINE d == buildTradingDecision(when, row, price, liq, risk, control)
           atr == readFeature(row.features, "atr_14")
           l == d.levels
           s == d.sizing
           sign == IF d.direction = "LONG" THEN 1 ELSE -1
<1>3. i.decision = d
  BY <1>2
<1>4. /\ d.direction = row.decision /\ d.risk = evaluateStaticRisk(row.decision, s.notional, risk)
      /\ l = computeLevels(row.decision, price, atr)
      /\ s = computeSizing(row.decision, l.entry, l.stop, risk) /\ d.equity = risk.equity
  BY DecisionStatus
<1>5. atr \in Nullable(Int)
  BY FeatureIs
<1> HIDE DEF d, atr
<1>6. Has(l.stop) =>
        /\ Has(l.entry) /\ l.entry[1] \in Nat /\ l.stop[1] \in Int
        /\ sign * l.stop[1] <= sign * l.entry[1] /\ sign * l.entry[1] <= sign * l.tp1[1]
        /\ sign * l.tp1[1] <= sign * l.tp2[1] /\ sign * l.tp2[1] <= sign * l.tp3[1]
  BY <1>4, <1>5, LevelsInOrder
<1>7. /\ risk.equity = DefaultEquity /\ risk.fraction = fraction /\ risk.maxNotional = 3 * DefaultEquity * 1000
  BY <1>2 DEF ContextOK
<1>8. RiskAmount(risk) = DefaultEquity * fraction /\ RiskAmount(risk) \in Int
  BY <1>7 DEF RiskAmount, DefaultEquity
<1>9. /\ Has(s.size) <=> Has(s.notional)
      /\ Has(s.size) =>
           /\ Has(l.entry) /\ Has(l.stop) /\ s.notional[1] \in Nat
           /\ RoundDiv(s.size[1][1] * Distance(l.entry[1], l.stop[1]), 100 * s.size[1][2]) = RiskAmount(risk)
  BY <1>4, <1>6, <1>8, SizeLosesRisk
<1>10. d.risk = "APPROVED" => s.notional[1] <= 3000 * DefaultEquity
  <2> SUFFICES ASSUME d.risk = "APPROVED" PROVE s.notional[1] <= 3000 * DefaultEquity
    OBVIOUS
  <2>1. s.notional # Null /\ ~(s.notional[1] > risk.maxNotional)
    BY <1>4 DEF evaluateStaticRisk
  <2>2. s.notional[1] \in Nat
    BY <1>9, <2>1 DEF Has
  <2> QED
    BY <1>7, <2>1, <2>2 DEF DefaultEquity
<1> QED
  BY <1>3, <1>4, <1>6, <1>7, <1>8, <1>9, <1>10

\* What the plan and the book make of it.
LEMMA PlannedRisk ==
  ASSUME NEW log, NEW fraction \in Nat, NEW j, DecidedOn(j, log, fraction), NEW state, NEW halt, NEW i,
         i = [decision |-> j.decision, dq |-> <<j.dq>>, plan |-> buildTradePlan(PlanInput(j, state, halt))]
  PROVE  LET p == toPosition(i, halt)
             l == i.decision.levels
             sign == IF i.decision.direction = "LONG" THEN 1 ELSE -1
         IN /\ Has(l.stop) =>
                 /\ sign * l.stop[1] <= sign * l.entry[1] /\ sign * l.entry[1] <= sign * l.tp1[1]
                 /\ sign * l.tp1[1] <= sign * l.tp2[1] /\ sign * l.tp2[1] <= sign * l.tp3[1]
            /\ Has(i.decision.sizing.size) => i.plan.risk.maximumLoss = <<DefaultEquity * fraction>>
            /\ i.decision.risk = "APPROVED" => i.decision.sizing.notional[1] <= 3000 * DefaultEquity
            /\ p.maxLoss = IF Has(p.notional) THEN <<DefaultEquity * fraction>> ELSE Null
            /\ Has(p.notional) => p.notional[1] \in Nat
            /\ i.decision.equity = DefaultEquity
<1> DEFINE in == PlanInput(j, state, halt)
           d == j.decision
           l == d.levels
           p == toPosition(i, halt)
           f == deriveFacts(in)
           loss == RoundDiv(d.sizing.size[1][1] * Distance(l.entry[1], l.stop[1]), 100 * d.sizing.size[1][2])
<1>1. in.decision = d
  BY DEF PlanInput
<1>2. i.decision = d /\ i.plan = buildTradePlan(in)
  OBVIOUS
<1> HIDE DEF in
<1>3. i.plan.risk.maximumLoss = f.maxLoss
  BY <1>2, PlanIs
<1>4. f.maxLoss = IF Has(l.entry) /\ Has(l.stop) /\ Has(d.sizing.size) THEN <<loss>> ELSE Null
  BY <1>1, FactsAre
<1>5. /\ Has(d.sizing.size) <=> Has(d.sizing.notional)
      /\ Has(d.sizing.size) => Has(l.entry) /\ Has(l.stop) /\ d.sizing.notional[1] \in Nat /\ loss = DefaultEquity * fraction
      /\ d.risk = "APPROVED" => d.sizing.notional[1] <= 3000 * DefaultEquity
      /\ d.equity = DefaultEquity
  BY DecisionRisk
<1>6. p.notional = d.sizing.notional /\ p.maxLoss = i.plan.risk.maximumLoss
  BY <1>2, PositionIs
<1> DEFINE sign == IF d.direction = "LONG" THEN 1 ELSE -1
<1>7. Has(l.stop) =>
        /\ sign * l.stop[1] <= sign * l.entry[1] /\ sign * l.entry[1] <= sign * l.tp1[1]
        /\ sign * l.tp1[1] <= sign * l.tp2[1] /\ sign * l.tp2[1] <= sign * l.tp3[1]
  BY DecisionRisk
<1> HIDE DEF f, p, loss
<1>8. i.plan.risk.maximumLoss = IF Has(d.sizing.size) THEN <<DefaultEquity * fraction>> ELSE Null
  BY <1>3, <1>4, <1>5
<1> QED
  BY <1>2, <1>5, <1>6, <1>7, <1>8 DEF p

\* A figure summed over the positions that have it.
LEMMA SumFiniteIs ==
  ASSUME NEW V, IsFiniteSet(DOMAIN V), \A p \in DOMAIN V : Has(V[p]) => V[p][1] \in Int
  PROVE  sumFinite(V) = SumOf([p \in DOMAIN V |-> IF Has(V[p]) THEN V[p][1] ELSE 0], DOMAIN V)
<1> DEFINE f == [p \in DOMAIN V |-> IF Has(V[p]) THEN V[p][1] ELSE 0]
<1>1. DOMAIN f = DOMAIN V /\ \A p \in DOMAIN f : f[p] \in Int
  OBVIOUS
<1>2. sumFinite(V) = SumFunction(f)
  BY DEF sumFinite
<1> HIDE DEF f
<1>3. SumFunction(f) = SumOf(f, DOMAIN f)
  BY <1>1, SumFunctionIs
<1> QED
  BY <1>1, <1>2, <1>3 DEF f

\* Every sized open position uses the same risk.
LEMMA RiskUsedIs ==
  ASSUME NEW open, IsFiniteSet(open), NEW c \in Nat,
         \A p \in open : p.maxLoss = IF Has(p.notional) THEN <<c>> ELSE Null
  PROVE  sumFinite([p \in open |-> p.maxLoss]) = c * Cardinality({p \in open : Has(p.notional)})
<1> DEFINE V == [p \in open |-> p.maxLoss]
           f == [p \in DOMAIN V |-> IF Has(V[p]) THEN V[p][1] ELSE 0]
           T == {p \in open : Has(p.notional)}
<1>1. \A p \in open : V[p] = IF Has(p.notional) THEN <<c>> ELSE Null
  OBVIOUS
<1>2. DOMAIN V = open
  OBVIOUS
<1> HIDE DEF V
<1>3. \A p \in open : Has(V[p]) = Has(p.notional) /\ (Has(V[p]) => V[p][1] = c)
  BY <1>1 DEF Has, Null
<1>4. sumFinite(V) = SumOf(f, open)
  BY <1>2, <1>3, SumFiniteIs
<1>5. \A p \in open : f[p] = IF p \in T THEN c ELSE 0
  BY <1>2, <1>3
<1> HIDE DEF f, T
<1>6. T \in SUBSET open /\ IsFiniteSet(T)
  BY FS_Subset DEF T
<1>7. SumOf(f, open) = SumOf(f, T)
  BY <1>5, <1>6, SumSubset
<1>8. SumOf(f, T) = c * Cardinality(T)
  BY <1>5, <1>6, SumEqual
<1> QED
  BY <1>4, <1>7, <1>8 DEF V, T

\* The risk used is summed over the open positions.
LEMMA BookRisk ==
  ASSUME NEW in
  PROVE  derivePortfolioFacts(in).riskUsed = sumFinite([p \in derivePortfolioFacts(in).open |-> p.maxLoss])
<1> DEFINE Of == {toPosition(i, in.kill) : i \in in.items}
<1>1. derivePortfolioFacts(in).riskUsed = sumFinite([p \in {p \in Of : p.state = "OPEN"} |-> p.maxLoss])
  BY DEF derivePortfolioFacts
<1>2. derivePortfolioFacts(in).open = {p \in Of : p.state = "OPEN"}
  BY DEF derivePortfolioFacts
<1> QED
  BY <1>1, <1>2

\* The positions of an answer.
LEMMA PositionsFinite ==
  ASSUME NEW items, IsFiniteSet(items), NEW state, NEW halt, NEW positions,
         positions = {toPosition(i, halt) : i \in Planned(items, state, halt)}
  PROVE  IsFiniteSet(positions) /\ IsFiniteSet(Planned(items, state, halt))
<1> DEFINE f == [j \in items |-> [decision |-> j.decision, dq |-> <<j.dq>>, plan |-> buildTradePlan(PlanInput(j, state, halt))]]
           planned == Planned(items, state, halt)
<1>1. planned = {f[j] : j \in items}
  BY DEF Planned, PlanInput
<1> HIDE DEF f
<1>2. IsFiniteSet(planned)
  BY <1>1, ImageOf
<1> DEFINE g == [i \in planned |-> toPosition(i, halt)]
<1>3. positions = {g[i] : i \in planned}
  OBVIOUS
<1> HIDE DEF g, planned
<1>4. IsFiniteSet(positions)
  BY ONLY <1>2, <1>3, ImageOf, Zenon
<1> QED
  BY <1>2, <1>4 DEF planned

\* The risk shown is the risk configured.
LEMMA RiskHolds == DeskInv => RiskAsConfigured
<1> SUFFICES ASSUME DeskInv, Answered PROVE RiskAsConfigured
  BY DEF RiskAsConfigured
<1>1. AnswerOK(desk, gateLog, RiskFraction) /\ RiskFraction \in Nat
  BY FractionIs DEF DeskInv, DeskWorldOK, Answered
<1> DEFINE c == DefaultEquity * RiskFraction
<1>2. PICK halt \in BOOLEAN : \E items, state, grant :
        ItemsOK(items, gateLog, RiskFraction) /\ desk = assemble(items, state, grant, halt)
  BY <1>1 DEF AnswerOK
<1>3. PICK items, state, grant :
        ItemsOK(items, gateLog, RiskFraction) /\ desk = assemble(items, state, grant, halt)
  BY <1>2
<1>4. /\ desk.items = Planned(items, state, halt)
      /\ desk.book = buildPortfolioState(BookInput(desk.items, state, grant, halt))
  BY <1>3, AnswerIs
<1> HIDE DEF RiskFraction
<1>5. ASSUME NEW i \in desk.items
      PROVE  LET p == toPosition(i, halt)
                 l == i.decision.levels
                 sign == IF i.decision.direction = "LONG" THEN 1 ELSE -1
             IN /\ Has(l.stop) =>
                     /\ sign * l.stop[1] <= sign * l.entry[1] /\ sign * l.entry[1] <= sign * l.tp1[1]
                     /\ sign * l.tp1[1] <= sign * l.tp2[1] /\ sign * l.tp2[1] <= sign * l.tp3[1]
                /\ Has(i.decision.sizing.size) => i.plan.risk.maximumLoss = <<c>>
                /\ i.decision.risk = "APPROVED" => i.decision.sizing.notional[1] <= 3000 * DefaultEquity
                /\ p.maxLoss = IF Has(p.notional) THEN <<c>> ELSE Null
  <2>1. PICK j \in items :
          i = [decision |-> j.decision, dq |-> <<j.dq>>, plan |-> buildTradePlan(PlanInput(j, state, halt))]
    BY <1>4, PlannedIs
  <2>2. DecidedOn(j, gateLog, RiskFraction)
    BY <1>3 DEF ItemsOK
  <2>6. i.decision = j.decision
    BY <2>1
  <2> DEFINE p == toPosition(i, halt)
             l == i.decision.levels
             sign == IF i.decision.direction = "LONG" THEN 1 ELSE -1
  <2>3. Has(l.stop) =>
          /\ sign * l.stop[1] <= sign * l.entry[1] /\ sign * l.entry[1] <= sign * l.tp1[1]
          /\ sign * l.tp1[1] <= sign * l.tp2[1] /\ sign * l.tp2[1] <= sign * l.tp3[1]
    BY <1>1, <2>2, <2>6, DecisionRisk
  <2>4. /\ Has(i.decision.sizing.size) <=> Has(i.decision.sizing.notional)
        /\ i.decision.risk = "APPROVED" => i.decision.sizing.notional[1] <= 3000 * DefaultEquity
    BY <1>1, <2>2, <2>6, DecisionRisk
  <2>5. p.maxLoss = IF Has(p.notional) THEN <<c>> ELSE Null
    BY <1>1, <2>1, <2>2, PlannedRisk
  <2>7. p.notional = i.decision.sizing.notional /\ p.maxLoss = i.plan.risk.maximumLoss
    BY PositionIs
  <2> HIDE DEF p, l, sign, c
  <2>8. Has(i.decision.sizing.size) => i.plan.risk.maximumLoss = <<c>>
    BY <2>4, <2>5, <2>7
  <2> QED
    BY <2>3, <2>4, <2>5, <2>8 DEF p, l, sign
<1> DEFINE in == BookInput(desk.items, state, grant, halt)
           facts == derivePortfolioFacts(in)
<1>6. in.items = desk.items /\ in.kill = halt
  BY DEF BookInput
<1>7. desk.book.positions = facts.positions /\ desk.book.summary.riskUsed = facts.riskUsed
  BY <1>4, BookIs, SummaryIs
<1>8. /\ facts.positions = {toPosition(i, in.kill) : i \in in.items}
      /\ facts.open = {p \in facts.positions : p.state = "OPEN"}
      /\ facts.riskUsed = sumFinite([p \in facts.open |-> p.maxLoss])
  BY BookPositions, BookRisk
<1> HIDE DEF in, facts, c
<1>9. facts.positions = {toPosition(i, halt) : i \in Planned(items, state, halt)}
  BY <1>4, <1>6, <1>8
<1>10. IsFiniteSet(facts.positions) /\ IsFiniteSet(facts.open)
  <2>1. IsFiniteSet(items)
    BY <1>3 DEF ItemsOK
  <2> DEFINE positions == facts.positions
  <2>4. positions = {toPosition(i, halt) : i \in Planned(items, state, halt)}
    BY <1>9
  <2> HIDE DEF positions
  <2>5. IsFiniteSet(positions)
    BY ONLY <2>4, <2>1, PositionsFinite
  <2>2. IsFiniteSet(facts.positions)
    BY <2>5 DEF positions
  <2>3. facts.open \in SUBSET facts.positions
    BY <1>8
  <2> QED
    BY <2>2, <2>3, FS_Subset
<1>11. \A p \in facts.open : p.maxLoss = IF Has(p.notional) THEN <<c>> ELSE Null
  BY <1>5, <1>6, <1>8
<1>12. c \in Nat
  BY <1>1 DEF c, DefaultEquity
<1> DEFINE open == facts.open
<1>13. {p \in open : Has(p.notional)} = {p \in desk.book.positions : p.state = "OPEN" /\ Has(p.notional)}
  BY <1>7, <1>8
<1>14. facts.riskUsed = c * Cardinality({p \in open : Has(p.notional)})
  <2> HIDE DEF open
  <2>1. sumFinite([p \in open |-> p.maxLoss]) = c * Cardinality({p \in open : Has(p.notional)})
    BY <1>10, <1>11, <1>12, RiskUsedIs DEF open
  <2> QED
    BY <1>8, <2>1 DEF open
<1>15. desk.book.summary.riskUsed =
         c * Cardinality({p \in desk.book.positions : p.state = "OPEN" /\ Has(p.notional)})
  BY <1>7, <1>13, <1>14
<1> QED
  BY <1>5, <1>15 DEF RiskAsConfigured, c

-----------------------------------------------------------------------------
(* The decisions of an answer are those of signals that are still there. *)

Cites(decision, table) ==
  \E n \in 1 .. Len(table) : \E when, price, liq, risk, control :
    decision = buildTradingDecision(when, table[n], price, liq, risk, control)

DeskCites ==
  /\ desk.pc = "market" => \A r \in desk.rows : r.id \in 1 .. Len(signals) /\ r = signals[r.id]
  /\ desk.pc \in {"outer", "done"} => \A i \in desk.items : Cites(i.decision, signals)

\* Signals are only added.
LEMMA OthersCite ==
  ASSUME DeskCites, desk' = desk, Len(signals) \in Nat, Len(signals') \in Nat, Len(signals) <= Len(signals'),
         \A n \in 1 .. Len(signals) : signals'[n] = signals[n]
  PROVE  DeskCites'
<1>1. \A n \in 1 .. Len(signals) : n \in 1 .. Len(signals')
  OBVIOUS
<1>2. \A d : Cites(d, signals) => Cites(d, signals')
  BY <1>1 DEF Cites
<1> HIDE DEF Cites
<1> QED
  BY <1>1, <1>2 DEF DeskCites

\* What the others write leaves the signals an answer cites.
LEMMA WritesCite ==
  ASSUME DeskInv, DeskCites, desk' = desk,
         signals' = signals \/ \E row \in SignalRows : signals' = Append(signals, row)
  PROVE  DeskCites'
<1>1. signals \in Seq(SignalRows)
  BY DEF DeskInv, DeskWorldOK
<1>2. Len(signals) \in Nat
  BY <1>1
<1>3. CASE signals' = signals
  BY <1>2, <1>3, OthersCite
<1>4. CASE \E row \in SignalRows : signals' = Append(signals, row)
  <2>1. PICK row \in SignalRows : signals' = Append(signals, row)
    BY <1>4
  <2>2. Len(signals') = Len(signals) + 1 /\ \A n \in 1 .. Len(signals) : signals'[n] = signals[n]
    BY <1>1, <2>1
  <2>3. Len(signals') \in Nat /\ Len(signals) <= Len(signals')
    BY <1>2, <2>2
  <2> QED
    BY <1>2, <2>2, <2>3, OthersCite
<1> QED
  BY <1>3, <1>4

\* A request cites only signals it read.
LEMMA RequestCites ==
  ASSUME DeskInv, DeskCites, GetSteps
  PROVE  DeskCites'
<1>1. signals' = signals
  BY DEF GetSteps, BeginGet, EndContexts, ReadRows, ReadMarket, EndGet, GetFails, worldVars
<1>2. CASE BeginGet
  <2>1. desk'.pc = "contexts"
    BY <1>2 DEF BeginGet
  <2> QED
    BY <2>1 DEF DeskCites
<1>3. CASE EndContexts
  <2>1. desk'.pc = "rows"
    BY <1>3 DEF EndContexts
  <2> QED
    BY <2>1 DEF DeskCites
<1>4. CASE ReadRows
  <2>1. desk'.pc = "market" /\ desk'.rows = latest(signals)
    BY <1>4 DEF ReadRows
  <2>2. \A r \in latest(signals) : r.id \in 1 .. Len(signals) /\ r = signals[r.id]
    BY LatestIs DEF DeskInv, DeskWorldOK
  <2> QED
    BY <1>1, <2>1, <2>2 DEF DeskCites
<1>5. CASE ReadMarket
  <2>1. PICK failed \in SUBSET {r.symbol : r \in desk.rows} :
         desk' = [pc |-> "outer", now |-> desk.now,
                  items |-> {LET view == IF row.symbol \in failed THEN NoView
                                         ELSE getMarketView(marks[row.symbol], desk.now)
                             IN [decision |-> buildTradingDecision(desk.now, row, view.price, view.liquidity,
                                                                   desk.risk, desk.control),
                                 dq |-> row.dq] : row \in desk.rows}]
    BY <1>5 DEF ReadMarket
  <2> DEFINE View(row) == IF row.symbol \in failed THEN NoView ELSE getMarketView(marks[row.symbol], desk.now)
             Item(row) == [decision |-> buildTradingDecision(desk.now, row, View(row).price, View(row).liquidity,
                                                             desk.risk, desk.control), dq |-> row.dq]
             items == {Item(row) : row \in desk.rows}
  <2>2. desk'.pc = "outer" /\ desk'.items = items
    BY <2>1
  <2>3. \A row \in desk.rows : row.id \in 1 .. Len(signals) /\ row = signals[row.id]
    BY <1>5 DEF ReadMarket, DeskCites
  <2> HIDE DEF View
  <2>4. \A row \in desk.rows : Cites(Item(row).decision, signals)
    BY <2>3 DEF Cites
  <2> HIDE DEF Item, Cites
  <2>5. \A i \in items : Cites(i.decision, signals)
    BY <2>4
  <2> QED
    BY <1>1, <2>2, <2>5 DEF DeskCites
<1>6. CASE EndGet
  <2>1. PICK state, grant, halt : desk' = assemble(desk.items, state, grant, halt)
    BY <1>6, Zenon DEF EndGet
  <2>2. desk'.items = Planned(desk.items, state, halt)
    BY <2>1, AnswerIs
  <2>3. \A i \in desk.items : Cites(i.decision, signals)
    BY <1>6 DEF EndGet, DeskCites
  <2> HIDE DEF Cites
  <2>4. ASSUME NEW i \in desk'.items PROVE Cites(i.decision, signals)
    <3>1. PICK j \in desk.items :
            i = [decision |-> j.decision, dq |-> <<j.dq>>, plan |-> buildTradePlan(PlanInput(j, state, halt))]
      BY <2>2, <2>4, PlannedIs
    <3>2. i.decision = j.decision
      BY <3>1
    <3> QED
      BY <2>3, <3>2
  <2>5. desk'.pc = "done"
    BY <2>1 DEF assemble
  <2> QED
    BY <1>1, <2>4, <2>5 DEF DeskCites
<1>7. CASE GetFails
  <2>1. desk'.pc = "failed"
    BY <1>7 DEF GetFails
  <2> QED
    BY <2>1 DEF DeskCites
<1> QED
  BY <1>2, <1>3, <1>4, <1>5, <1>6, <1>7 DEF GetSteps

\* Every decision of a request is that of a signal that is still there.
LEMMA DeskCiting == DeskSpec => []DeskCites
<1>1. DeskStart => DeskCites
  <2> SUFFICES ASSUME DeskStart PROVE DeskCites
    OBVIOUS
  <2>1. desk.pc = "idle"
    BY DEF DeskStart, NoRequest
  <2> QED
    BY <2>1 DEF DeskCites
<1>2. DeskInv /\ DeskCites /\ [DeskNext]_deskVars => DeskCites'
  <2> SUFFICES ASSUME DeskInv, DeskCites, [DeskNext]_deskVars PROVE DeskCites'
    OBVIOUS
  <2>1. CASE UNCHANGED deskVars
    BY <2>1 DEF deskVars, DeskCites
  <2>2. CASE \E row \in SignalRows : NewSignal(row)
    BY <2>2, WritesCite DEF NewSignal, Write
  <2>3. CASE \/ \E g \in {"kill", "risk", "infra"}, v \in BOOLEAN : GateMoves(g, v)
             \/ \E g \in {"state", "mode"}, v \in Nullable(STRING) : GateMoves(g, v)
             \/ \E s \in Symbols, m \in MarkRows : MarkMoves(s, m)
             \/ TimePasses
    BY <2>3, WritesCite DEF GateMoves, MarkMoves, TimePasses, Write
  <2>4. CASE GetSteps
    BY <2>4, RequestCites
  <2> QED
    BY <2>1, <2>2, <2>3, <2>4 DEF DeskNext
<1> QED
  BY <1>1, <1>2, DeskInvariant, PTL DEF DeskSpec

-----------------------------------------------------------------------------
(* The mirror of the sealed rule. *)

\* Engine and console resolve parameters alike.
LEMMA ParamsAgree ==
  ASSUME NEW raw
  PROVE  SE!resolveSignalParams(raw) = resolveSignalParams(raw)
<1>1. SE!DEFAULT_SIGNAL_PARAMS = DefaultParams /\ DOMAIN DefaultParams = {"rsiLongMin", "rsiShortMax", "maxRealizedVol"}
  BY DEF SE!DEFAULT_SIGNAL_PARAMS, DefaultParams
<1> QED
  BY <1>1 DEF SE!resolveSignalParams, resolveSignalParams

\* A share: a quotient from 0 to 1.
IsShare(q) == q = <<q[1], q[2]>> /\ q[1] \in Nat /\ q[2] \in Nat \ {0} /\ q[1] <= q[2]

\* A clamped quotient is a share, and the engine's clamp is the same one.
LEMMA ClampIs ==
  ASSUME NEW n \in Int, NEW d \in Nat \ {0}
  PROVE  /\ IsShare(clamp01(n, d))
         /\ n >= 0 => SE!clamp01(SE!Ratio(n, d)) = SE!Ratio(clamp01(n, d)[1], clamp01(n, d)[2])
<1> DEFINE q == clamp01(n, d)
           r == SE!Ratio(n, d)
<1>1. r.num = n /\ r.den = d
  BY DEF SE!Ratio
<1>2. ~SE!isNaN(r)
  BY <1>1 DEF SE!isNaN
<1>3. CASE n < 0
  <2>1. q = <<0, 1>>
    BY <1>3 DEF clamp01
  <2> QED
    BY <1>3, <2>1 DEF IsShare
<1>4. CASE n >= 0 /\ n > d
  <2>1. q = <<1, 1>>
    BY <1>4 DEF clamp01
  <2>2. SE!clamp01(r) = SE!Ratio(1, 1)
    BY <1>1, <1>2, <1>4 DEF SE!clamp01
  <2> HIDE DEF q, r
  <2> QED
    BY <2>1, <2>2 DEF IsShare, q, r
<1>5. CASE n >= 0 /\ ~(n > d)
  <2>1. q = <<n, d>>
    BY <1>5 DEF clamp01
  <2>2. SE!clamp01(r) = r
    BY <1>1, <1>2, <1>5 DEF SE!clamp01
  <2>3. q[1] = n /\ q[2] = d
    BY <2>1
  <2> HIDE DEF q
  <2>4. IsShare(q)
    BY <1>5, <2>1, <2>3 DEF IsShare
  <2> QED
    BY <2>2, <2>3, <2>4 DEF q
<1> QED
  BY <1>3, <1>4, <1>5

\* The blend of two shares is a share, and the engine's is the same one.
LEMMA BlendIs ==
  ASSUME NEW a, IsShare(a), NEW b, IsShare(b)
  PROVE  /\ IsShare(Blend(a, b)) /\ Blend(a, b)[1] = a[1] * b[2] + b[1] * a[2] /\ Blend(a, b)[2] = 2 * (a[2] * b[2])
         /\ SE!Mean(SE!Ratio(a[1], a[2]), SE!Ratio(b[1], b[2])) = SE!Ratio(Blend(a, b)[1], Blend(a, b)[2])
<1> DEFINE x == a[1]
           y == a[2]
           u == b[1]
           v == b[2]
           n == x * v + u * y
           m == 2 * y * v
           q == Blend(a, b)
<1>1. x \in Nat /\ y \in Nat \ {0} /\ x <= y /\ u \in Nat /\ v \in Nat \ {0} /\ u <= v
  BY DEF IsShare
<1>2. q = <<n, m>>
  BY DEF Blend
<1> HIDE DEF x, y, u, v
<1>3. x * v <= y * v /\ u * y <= v * y /\ v * y = y * v /\ x * v \in Nat /\ u * y \in Nat /\ y * v \in Nat \ {0}
  BY <1>1
<1>4. n \in Nat /\ m = 2 * (y * v)
  BY <1>1, <1>3
<1>5. m \in Nat \ {0} /\ n <= m
  BY <1>3, <1>4
<1> HIDE DEF q
<1>6. q[1] = n /\ q[2] = m
  BY <1>2
<1> HIDE DEF n, m
<1>7. IsShare(q)
  BY <1>2, <1>4, <1>5, <1>6 DEF IsShare
<1>8. SE!Mean(SE!Ratio(x, y), SE!Ratio(u, v)) = SE!Ratio(n, m)
  <2> DEFINE s == SE!Ratio(x, y)
             t == SE!Ratio(u, v)
  <2>1. s.num = x /\ s.den = y /\ t.num = u /\ t.den = v
    BY DEF SE!Ratio
  <2>2. ~SE!isNaN(s) /\ ~SE!isNaN(t)
    BY <1>1, <2>1 DEF SE!isNaN
  <2> HIDE DEF s, t
  <2>3. SE!Mean(s, t) = SE!Ratio(s.num * t.den + t.num * s.den, 2 * s.den * t.den)
    BY <2>2 DEF SE!Mean
  <2>4. SE!Mean(s, t) = SE!Ratio(x * v + u * y, 2 * y * v)
    BY <2>1, <2>3
  <2> QED
    BY <2>4 DEF s, t, n, m
<1> QED
  BY <1>4, <1>6, <1>7, <1>8 DEF q, x, y, u, v, n

\* The engine rounds a share to the confidence the console shows.
LEMMA QuantizeIs ==
  ASSUME NEW n \in Nat, NEW m \in Nat \ {0}, n <= m
  PROVE  SE!quantizeConfidence(SE!Ratio(n, m)) = RoundDiv(10000 * n, m)
<1> DEFINE r == SE!Ratio(n, m)
<1>1. r.num = n /\ r.den = m
  BY DEF SE!Ratio
<1>2. ~SE!isNaN(r)
  BY <1>1 DEF SE!isNaN
<1> HIDE DEF r
<1>3. SE!clamp01(r) = r
  BY <1>1, <1>2 DEF SE!clamp01
<1>4. SE!quantizeConfidence(r) = (2 * 10000 * n + m) \div (2 * m)
  BY <1>1, <1>2, <1>3 DEF SE!quantizeConfidence
<1>5. 2 * 10000 * n + m = 2 * (10000 * n) + m
  OBVIOUS
<1> QED
  BY <1>4, <1>5 DEF RoundDiv, r

\* The sealed rule, read off features and parameters.
LEMMA SealedIs ==
  ASSUME NEW f, NEW raw
  PROVE  LET p == resolveSignalParams(raw)
             s == Sealed(f, raw)
             g == SealedFeatures(f)
         IN /\ s.decision = IF f.realized_vol_30 > p.maxRealizedVol THEN "FLAT" ELSE ruleDirection(f, p)
            /\ s.side = IF Uptrend(f) THEN "LONG" ELSE IF Downtrend(f) THEN "SHORT" ELSE "FLAT"
            /\ s.confidence = SE!quantizeConfidence(SE!ConfidenceOf(g, p))
            /\ s.decision = SE!DecisionOf(g, p)
<1> DEFINE p == resolveSignalParams(raw)
           s == Sealed(f, raw)
           g == SealedFeatures(f)
<1>1. s = SE!decideSignal(g, p)
  BY ParamsAgree DEF Sealed
<1>2. g.ema20 = f.ema_20 /\ g.ema50 = f.ema_50 /\ g.ema200 = f.ema_200 /\ g.rsi = f.rsi_14 /\ g.vol = f.realized_vol_30
  BY DEF SealedFeatures
<1> HIDE DEF p, g, s
<1>3. s.side = SE!SideOf(g) /\ s.decision = SE!DecisionOf(g, p) /\ s.confidence = SE!quantizeConfidence(SE!ConfidenceOf(g, p))
  BY <1>1 DEF SE!decideSignal
<1>4. SE!Bull(g) = Uptrend(f) /\ SE!Bear(g) = Downtrend(f)
  BY <1>2 DEF SE!Bull, SE!Bear, Uptrend, Downtrend
<1>5. SE!VolFiltered(g, p) = (f.realized_vol_30 > p.maxRealizedVol)
  BY <1>2 DEF SE!VolFiltered
<1>6. SE!Directional(g, p) = ruleDirection(f, p)
  BY <1>2, <1>4 DEF SE!Directional, ruleDirection
<1>7. SE!SideOf(g) = IF Uptrend(f) THEN "LONG" ELSE IF Downtrend(f) THEN "SHORT" ELSE "FLAT"
  BY <1>4 DEF SE!SideOf
<1>8. SE!DecisionOf(g, p) = IF f.realized_vol_30 > p.maxRealizedVol THEN "FLAT" ELSE ruleDirection(f, p)
  BY <1>5, <1>6 DEF SE!DecisionOf
<1> QED
  BY <1>3, <1>7, <1>8 DEF s, p, g

\* The console's mirror of it, read off the same.
LEMMA RuleIs ==
  ASSUME NEW f, RuleKeys \subseteq DOMAIN f, NEW p
  PROVE  LET rule == applyRule(f, p)[1]
             filtered == f.realized_vol_30 > p.maxRealizedVol
         IN /\ Has(applyRule(f, p))
            /\ rule.side = IF Uptrend(f) THEN "LONG" ELSE IF Downtrend(f) THEN "SHORT" ELSE "FLAT"
            /\ rule.decision = IF filtered THEN "FLAT" ELSE ruleDirection(f, p)
            /\ rule.trend = clamp01(Distance(f.ema_20, f.ema_200), Distance(f.ema_200, 0))
            /\ rule.conviction = clamp01(Distance(f.rsi_14, 50), 50)
            /\ rule.confidence =
                 IF rule.decision # "FLAT" THEN Blend(rule.trend, rule.conviction)
                 ELSE IF filtered THEN clamp01(f.realized_vol_30 - p.maxRealizedVol, p.maxRealizedVol) ELSE <<0, 1>>
<1> DEFINE filtered == f.realized_vol_30 > p.maxRealizedVol
           decision == IF filtered THEN "FLAT" ELSE ruleDirection(f, p)
           trend == clamp01(Distance(f.ema_20, f.ema_200), Distance(f.ema_200, 0))
           conviction == clamp01(Distance(f.rsi_14, 50), 50)
           side == IF Uptrend(f) THEN "LONG" ELSE IF Downtrend(f) THEN "SHORT" ELSE "FLAT"
           confidence == IF decision # "FLAT" THEN Blend(trend, conviction)
                         ELSE IF filtered THEN clamp01(f.realized_vol_30 - p.maxRealizedVol, p.maxRealizedVol) ELSE <<0, 1>>
           rule == [side |-> side, decision |-> decision, confidence |-> confidence, volFiltered |-> filtered,
                    trend |-> trend, conviction |-> conviction]
<1>1. applyRule(f, p) = <<rule>>
  BY DEF applyRule, Complete
<1> DEFINE r == applyRule(f, p)[1]
<1>2. r = rule /\ Has(applyRule(f, p))
  BY <1>1 DEF Has, Null
<1> HIDE DEF r, filtered, decision, trend, conviction, side, confidence
<1>3. r.side = side /\ r.decision = decision /\ r.confidence = confidence /\ r.trend = trend /\ r.conviction = conviction
  BY <1>2
<1> QED
  BY <1>2, <1>3 DEF r, filtered, decision, trend, conviction, side, confidence

\* The figures of a feature vector are integers.
LEMMA VectorIs ==
  ASSUME NEW f \in FeatureVectors, RuleKeys \subseteq DOMAIN f
  PROVE  /\ f.ema_20 \in Int /\ f.ema_50 \in Int /\ f.ema_200 \in Int /\ f.rsi_14 \in Int /\ f.realized_vol_30 \in Int
         /\ f.ema_200 > 0
<1>1. \A k \in DOMAIN f : f[k] \in Int
  BY DEF FeatureVectors
<1>2. {"ema_20", "ema_50", "ema_200", "rsi_14", "realized_vol_30"} \subseteq DOMAIN f
  BY DEF RuleKeys, Stack
<1>3. f["ema_200"] > 0
  BY <1>2 DEF FeatureVectors, Stack
<1> QED
  BY <1>1, <1>2, <1>3

\* The resolved parameters are integers.
LEMMA ParamsAre ==
  ASSUME NEW raw \in UNION {[K -> Int] : K \in SUBSET DOMAIN DefaultParams}
  PROVE  LET p == resolveSignalParams(raw) IN p.rsiLongMin \in Int /\ p.rsiShortMax \in Int /\ p.maxRealizedVol \in Int
<1>1. \A k \in DOMAIN raw : raw[k] \in Int
  OBVIOUS
<1> QED
  BY <1>1 DEF resolveSignalParams, DefaultParams

\* The parts of a signal's row.
LEMMA RowIs ==
  ASSUME NEW row \in SignalRows
  PROVE  /\ row.features \in FeatureVectors /\ RuleKeys \subseteq DOMAIN row.features
         /\ row.params \in UNION {[K -> Int] : K \in SUBSET DOMAIN DefaultParams}
         /\ row.decision = Sealed(row.features, row.params).decision
         /\ row.confidence = Sealed(row.features, row.params).confidence
BY DEF SignalRows

\* The confidence of a directed signal.
LEMMA DirectedConfidence ==
  ASSUME NEW f \in FeatureVectors, RuleKeys \subseteq DOMAIN f, NEW raw, Sealed(f, raw).decision # "FLAT"
  PROVE  LET trend == clamp01(Distance(f.ema_20, f.ema_200), Distance(f.ema_200, 0))
             conviction == clamp01(Distance(f.rsi_14, 50), 50)
             q == Blend(trend, conviction)
         IN /\ IsShare(trend) /\ IsShare(conviction) /\ IsShare(q)
            /\ Sealed(f, raw).confidence = RoundDiv(10000 * q[1], q[2])
<1> DEFINE g == SealedFeatures(f)
           p == resolveSignalParams(raw)
           a == Distance(f.ema_20, f.ema_200)
           b == Distance(f.ema_200, 0)
           c == Distance(f.rsi_14, 50)
           trend == clamp01(a, b)
           conviction == clamp01(c, 50)
           q == Blend(trend, conviction)
<1>1. /\ f.ema_20 \in Int /\ f.ema_200 \in Int /\ f.rsi_14 \in Int /\ f.ema_200 > 0
  BY VectorIs
<1>2. a \in Nat /\ b \in Nat \ {0} /\ c \in Nat
  BY <1>1 DEF Distance
<1>3. /\ a = SE!Abs(g.ema20 - g.ema200) /\ b = SE!Abs(g.ema200) /\ c = SE!Abs(g.rsi - 50)
  <2>1. g.ema20 = f.ema_20 /\ g.ema200 = f.ema_200 /\ g.rsi = f.rsi_14
    BY DEF SealedFeatures
  <2> HIDE DEF g
  <2> QED
    BY <1>1, <2>1 DEF SE!Abs, Distance
<1> HIDE DEF a, b, c
<1>4. IsShare(trend) /\ SE!clamp01(SE!Ratio(a, b)) = SE!Ratio(trend[1], trend[2])
  BY <1>2, ClampIs
<1>5. IsShare(conviction) /\ SE!clamp01(SE!Ratio(c, 50)) = SE!Ratio(conviction[1], conviction[2])
  BY <1>2, ClampIs
<1> HIDE DEF trend, conviction
<1>6. IsShare(q) /\ SE!Mean(SE!Ratio(trend[1], trend[2]), SE!Ratio(conviction[1], conviction[2])) = SE!Ratio(q[1], q[2])
  BY <1>4, <1>5, BlendIs
<1> HIDE DEF q
<1>7. /\ Sealed(f, raw).decision = SE!DecisionOf(g, p)
      /\ Sealed(f, raw).confidence = SE!quantizeConfidence(SE!ConfidenceOf(g, p))
      /\ Sealed(f, raw).decision = IF f.realized_vol_30 > p.maxRealizedVol THEN "FLAT" ELSE ruleDirection(f, p)
  BY SealedIs
<1> HIDE DEF g, p
<1>8. SE!DecisionOf(g, p) \in {"LONG", "SHORT"}
  BY <1>7 DEF ruleDirection
<1>9. SE!ConfidenceOf(g, p) = SE!Mean(SE!clamp01(SE!Ratio(a, b)), SE!clamp01(SE!Ratio(c, 50)))
  BY <1>3, <1>8 DEF SE!ConfidenceOf
<1>10. SE!ConfidenceOf(g, p) = SE!Ratio(q[1], q[2])
  BY <1>4, <1>5, <1>6, <1>9
<1>11. q[1] \in Nat /\ q[2] \in Nat \ {0} /\ q[1] <= q[2]
  BY <1>6 DEF IsShare
<1>12. Sealed(f, raw).confidence = RoundDiv(10000 * q[1], q[2])
  BY <1>7, <1>10, <1>11, QuantizeIs
<1> QED
  BY <1>4, <1>5, <1>6, <1>12 DEF q, trend, conviction, a, b, c

\* The mirror agrees with the sealed rule on one signal.
LEMMA MirrorOfRow ==
  ASSUME NEW row \in SignalRows, resolveSignalParams(row.params).maxRealizedVol > 0
  PROVE  LET f == row.features
             rule == applyRule(f, resolveSignalParams(row.params))[1]
             sealed == Sealed(f, row.params)
         IN /\ rule.decision = sealed.decision /\ rule.side = sealed.side
            /\ RoundDiv(10000 * rule.confidence[1], rule.confidence[2]) = sealed.confidence
<1> DEFINE f == row.features
           p == resolveSignalParams(row.params)
           g == SealedFeatures(f)
           rule == applyRule(f, p)[1]
           sealed == Sealed(f, row.params)
           filtered == f.realized_vol_30 > p.maxRealizedVol
           over == f.realized_vol_30 - p.maxRealizedVol
           max == p.maxRealizedVol
<1>1. f \in FeatureVectors /\ RuleKeys \subseteq DOMAIN f /\ max \in Int
  BY RowIs, ParamsAre
<1>2. /\ rule.side = IF Uptrend(f) THEN "LONG" ELSE IF Downtrend(f) THEN "SHORT" ELSE "FLAT"
      /\ rule.decision = IF filtered THEN "FLAT" ELSE ruleDirection(f, p)
      /\ rule.trend = clamp01(Distance(f.ema_20, f.ema_200), Distance(f.ema_200, 0))
      /\ rule.conviction = clamp01(Distance(f.rsi_14, 50), 50)
      /\ rule.confidence = IF rule.decision # "FLAT" THEN Blend(rule.trend, rule.conviction)
                           ELSE IF filtered THEN clamp01(over, max) ELSE <<0, 1>>
  BY <1>1, RuleIs, ZenonT(60)
<1>3. /\ sealed.decision = IF filtered THEN "FLAT" ELSE ruleDirection(f, p)
      /\ sealed.side = IF Uptrend(f) THEN "LONG" ELSE IF Downtrend(f) THEN "SHORT" ELSE "FLAT"
      /\ sealed.confidence = SE!quantizeConfidence(SE!ConfidenceOf(g, p))
      /\ sealed.decision = SE!DecisionOf(g, p)
  BY SealedIs
<1>4. g.vol = f.realized_vol_30 /\ f.realized_vol_30 \in Int
  BY <1>1, VectorIs DEF SealedFeatures
<1> HIDE DEF rule, g
<1>5. rule.decision = sealed.decision /\ rule.side = sealed.side
  BY <1>2, <1>3
<1>6. ASSUME sealed.decision # "FLAT"
      PROVE  RoundDiv(10000 * rule.confidence[1], rule.confidence[2]) = sealed.confidence
  <2> DEFINE q == Blend(rule.trend, rule.conviction)
  <2>1. sealed.confidence = RoundDiv(10000 * q[1], q[2])
    BY <1>1, <1>2, <1>6, DirectedConfidence
  <2>2. rule.confidence = q
    BY <1>2, <1>5, <1>6
  <2> HIDE DEF q, sealed
  <2> QED
    BY <2>1, <2>2
<1>7. ASSUME sealed.decision = "FLAT" /\ filtered
      PROVE  RoundDiv(10000 * rule.confidence[1], rule.confidence[2]) = sealed.confidence
  <2> DEFINE q == clamp01(over, max)
  <2>1. max \in Nat \ {0} /\ over \in Int /\ over >= 0
    BY <1>1, <1>4, <1>7
  <2>2. IsShare(q) /\ SE!clamp01(SE!Ratio(over, max)) = SE!Ratio(q[1], q[2])
    BY <2>1, ClampIs
  <2>3. SE!ConfidenceOf(g, p) = SE!clamp01(SE!Ratio(over, max))
    <3>1. SE!DecisionOf(g, p) \notin {"LONG", "SHORT"}
      BY <1>3, <1>7
    <3>2. SE!VolFiltered(g, p)
      BY <1>4, <1>7 DEF SE!VolFiltered
    <3>3. ~(p.maxRealizedVol < 0)
      BY <2>1
    <3> QED
      BY <1>4, <3>1, <3>2, <3>3 DEF SE!ConfidenceOf
  <2> HIDE DEF q
  <2>4. q[1] \in Nat /\ q[2] \in Nat \ {0} /\ q[1] <= q[2]
    BY <2>2 DEF IsShare
  <2>5. sealed.confidence = RoundDiv(10000 * q[1], q[2])
    BY <1>3, <2>2, <2>3, <2>4, QuantizeIs
  <2>6. rule.confidence = q
    BY <1>2, <1>5, <1>7 DEF q
  <2> HIDE DEF sealed
  <2> QED
    BY <2>5, <2>6
<1>8. ASSUME sealed.decision = "FLAT" /\ ~filtered
      PROVE  RoundDiv(10000 * rule.confidence[1], rule.confidence[2]) = sealed.confidence
  <2>1. rule.confidence = <<0, 1>>
    BY <1>2, <1>5, <1>8
  <2>2. SE!ConfidenceOf(g, p) = SE!Ratio(0, 1)
    <3>1. SE!DecisionOf(g, p) \notin {"LONG", "SHORT"}
      BY <1>3, <1>8
    <3>2. ~SE!VolFiltered(g, p)
      BY <1>4, <1>8 DEF SE!VolFiltered
    <3> QED
      BY <3>1, <3>2 DEF SE!ConfidenceOf
  <2>3. sealed.confidence = RoundDiv(10000 * 0, 1)
    BY <1>3, <2>2, QuantizeIs
  <2>4. rule.confidence[1] = 0 /\ rule.confidence[2] = 1
    BY <2>1
  <2> HIDE DEF sealed
  <2> QED
    BY <2>3, <2>4
<1> HIDE DEF sealed, filtered
<1>9. RoundDiv(10000 * rule.confidence[1], rule.confidence[2]) = sealed.confidence
  BY <1>6, <1>7, <1>8
<1> QED
  BY <1>5, <1>9 DEF rule, sealed

\* Three elements are finitely many.
LEMMA TripleFinite ==
  ASSUME NEW a, NEW b, NEW c
  PROVE  IsFiniteSet({a, b, c})
<1>1. IsFiniteSet({a}) /\ IsFiniteSet({b}) /\ IsFiniteSet({c})
  BY FS_Singleton
<1>2. IsFiniteSet({a} \union {b})
  BY <1>1, FS_Union
<1>3. IsFiniteSet(({a} \union {b}) \union {c})
  BY <1>1, <1>2, FS_Union
<1>4. {a, b, c} = ({a} \union {b}) \union {c}
  OBVIOUS
<1> QED
  BY <1>3, <1>4

\* One timeframe of the consensus.
LEMMA TimeframeIs ==
  ASSUME NEW in, NEW when
  PROVE  LET t == tfMetrics(in, when)
             rule == IF in.features = Null THEN Null ELSE applyRule(in.features[1], in.params)
         IN /\ t.timeframe = in.timeframe /\ t.available = Has(rule)
            /\ t.direction = IF Has(rule) THEN <<rule[1].decision>> ELSE Null
BY DEF tfMetrics

VotesFor(c, d) == Cardinality({t \in c.timeframes : t.direction = <<d>>})

\* The overall direction is not outvoted.
LEMMA NotOutvoted ==
  ASSUME NEW inputs, IsFiniteSet(inputs), NEW when, NEW c, c = computeConsensus(inputs, when)
  PROVE  /\ c.timeframes = {tfMetrics(in, when) : in \in inputs}
         /\ Has(c.overall) => \A d \in {"LONG", "SHORT", "FLAT"} : VotesFor(c, d) <= VotesFor(c, c.overall[1])
<1> DEFINE timeframes == {tfMetrics(in, when) : in \in inputs}
           available == {t \in timeframes : t.available}
           counts == [d \in DOMAIN VoteOrder |-> Cardinality({t \in available : t.direction = <<d>>})]
           Best(d) == \A e \in DOMAIN VoteOrder \ {d} :
                        counts[d] > counts[e] \/ (counts[d] = counts[e] /\ VoteOrder[d] < VoteOrder[e])
           overall == CHOOSE d \in DOMAIN VoteOrder : Best(d)
<1>1. c.timeframes = timeframes /\ c.overall = IF available = {} THEN Null ELSE <<overall>>
  BY DEF computeConsensus
<1>2. \A t \in timeframes : (\E d : t.direction = <<d>>) => t.available
  <2> SUFFICES ASSUME NEW in \in inputs, NEW d, tfMetrics(in, when).direction = <<d>>
               PROVE  tfMetrics(in, when).available
    BY Zenon
  <2> DEFINE t == tfMetrics(in, when)
             rule == IF in.features = Null THEN Null ELSE applyRule(in.features[1], in.params)
  <2>1. t.available = Has(rule) /\ t.direction = IF Has(rule) THEN <<rule[1].decision>> ELSE Null
    BY TimeframeIs
  <2>2. t.direction = <<d>>
    OBVIOUS
  <2> HIDE DEF t, rule
  <2>3. <<d>> # Null
    BY DEF Null
  <2>4. Has(rule)
    BY <2>1, <2>2, <2>3, Zenon
  <2> QED
    BY <2>1, <2>4 DEF t
<1>3. IsFiniteSet(timeframes)
  <2> DEFINE f == [in \in inputs |-> tfMetrics(in, when)]
  <2>1. timeframes = {f[in] : in \in inputs}
    OBVIOUS
  <2> HIDE DEF f, timeframes
  <2> QED
    BY <2>1, ImageOf
<1>4. DOMAIN VoteOrder = {"LONG", "SHORT", "FLAT"} /\ VoteOrder["LONG"] = 1 /\ VoteOrder["SHORT"] = 2 /\ VoteOrder["FLAT"] = 3
  BY DEF VoteOrder
<1> HIDE DEF timeframes
<1>5. \A d \in DOMAIN VoteOrder :
        {t \in available : t.direction = <<d>>} = {t \in timeframes : t.direction = <<d>>}
  BY <1>2
<1>6. \A d \in DOMAIN VoteOrder : counts[d] = Cardinality({t \in timeframes : t.direction = <<d>>})
  BY <1>5
<1>7. \A d \in DOMAIN VoteOrder : counts[d] \in Nat
  <2>1. \A d : IsFiniteSet({t \in timeframes : t.direction = <<d>>})
    BY <1>3, FS_Subset
  <2> QED
    BY <1>6, <2>1, FS_CardinalityType
<1> HIDE DEF counts, available
<1>8. \E d \in DOMAIN VoteOrder : Best(d)
  <2> DEFINE x == counts["LONG"]
             y == counts["SHORT"]
             z == counts["FLAT"]
  <2>1. x \in Nat /\ y \in Nat /\ z \in Nat
    BY <1>4, <1>7
  <2> HIDE DEF x, y, z
  <2>2. CASE x >= y /\ x >= z
    <3>1. Best("LONG")
      BY <1>4, <2>1, <2>2 DEF x, y, z
    <3> QED
      BY <1>4, <3>1
  <2>3. CASE y > x /\ y >= z
    <3>1. Best("SHORT")
      BY <1>4, <2>1, <2>3 DEF x, y, z
    <3> QED
      BY <1>4, <3>1
  <2>4. CASE z > x /\ z > y
    <3>1. Best("FLAT")
      BY <1>4, <2>1, <2>4 DEF x, y, z
    <3> QED
      BY <1>4, <3>1
  <2> QED
    BY <2>1, <2>2, <2>3, <2>4
<1>9. overall \in DOMAIN VoteOrder /\ Best(overall)
  BY <1>8
<1> HIDE DEF overall
<1>10. \A d \in DOMAIN VoteOrder : counts[d] <= counts[overall]
  BY <1>7, <1>9
<1>11. Has(c.overall) => c.overall[1] = overall
  BY <1>1 DEF Has
<1>12. \A d \in DOMAIN VoteOrder : VotesFor(c, d) = counts[d]
  BY <1>1, <1>6 DEF VotesFor
<1>13. Has(c.overall) => \A d \in {"LONG", "SHORT", "FLAT"} : VotesFor(c, d) <= VotesFor(c, c.overall[1])
  BY <1>4, <1>9, <1>10, <1>11, <1>12
<1> QED
  BY <1>1, <1>13 DEF timeframes

\* What the query finds passes the floor and nothing later does.
LEMMA NewestIs ==
  ASSUME NEW S, NEW history \in Seq(S), Has(newestAdmitted(history))
  PROVE  \E i \in 1 .. Len(history) :
           /\ newestAdmitted(history)[1] = history[i]
           /\ history[i].dq >= MinDq /\ \A j \in i + 1 .. Len(history) : ~(history[j].dq >= MinDq)
<1> DEFINE passing == {i \in 1 .. Len(history) : history[i].dq >= MinDq}
<1>1. passing # {} /\ newestAdmitted(history)[1] = history[Max(passing)]
  BY DEF newestAdmitted, Has
<1>2. Max(passing) \in passing /\ \A k \in passing : k <= Max(passing)
  <2>1. passing \in SUBSET (1 .. Len(history)) /\ Len(history) \in Nat
    OBVIOUS
  <2> HIDE DEF passing
  <2> QED
    BY <1>1, <2>1, MaxOfPositions
<1>3. PICK i \in passing : i = Max(passing)
  BY <1>2
<1>4. i \in 1 .. Len(history) /\ history[i].dq >= MinDq
  OBVIOUS
<1>5. ASSUME NEW j \in i + 1 .. Len(history) PROVE ~(history[j].dq >= MinDq)
  <2>1. j \in 1 .. Len(history) /\ ~(j <= i)
    BY <1>4
  <2>2. j \notin passing
    BY <1>2, <1>3, <2>1
  <2> QED
    BY <2>1, <2>2
<1>6. newestAdmitted(history)[1] = history[i]
  BY <1>1, <1>3
<1> HIDE DEF passing
<1> QED
  BY <1>4, <1>5, <1>6

\* The mirror shows what the sealed rule decides.
LEMMA MirrorHolds == DeskInv => MirrorsSealedRule
<1> SUFFICES ASSUME DeskInv PROVE MirrorsSealedRule
  OBVIOUS
<1>1. signals \in Seq(SignalRows) /\ snaps \in [Symbols -> SnapRows]
  BY DEF DeskInv, DeskWorldOK
<1>2. ASSUME NEW i \in DOMAIN signals, resolveSignalParams(signals[i].params).maxRealizedVol > 0
      PROVE  LET f == signals[i].features
                 rule == applyRule(f, resolveSignalParams(signals[i].params))[1]
                 sealed == Sealed(f, signals[i].params)
             IN /\ rule.decision = sealed.decision /\ rule.side = sealed.side
                /\ RoundDiv(10000 * rule.confidence[1], rule.confidence[2]) = sealed.confidence
  <2>1. signals[i] \in SignalRows
    BY <1>1
  <2> QED
    BY <1>2, <2>1, MirrorOfRow
<1>3. ASSUME NEW symbol \in Symbols
      PROVE  LET c == getConsensus(symbol)
                 params == SelectSeq(signals, LAMBDA r : r.symbol = symbol)
                 Votes(d) == Cardinality({t \in c.timeframes : t.direction = <<d>>})
             IN /\ Has(c.overall) => \A d \in {"LONG", "SHORT", "FLAT"} : Votes(d) <= Votes(c.overall[1])
                /\ \A t \in c.timeframes : t.available =>
                     LET history == snaps[symbol][t.timeframe]
                     IN \E i \in 1 .. Len(history) :
                          /\ history[i].dq >= MinDq /\ \A j \in i + 1 .. Len(history) : history[j].dq < MinDq
                          /\ t.direction[1] = Sealed(history[i].features,
                                                    IF params = <<>> THEN <<>> ELSE params[Len(params)].params).decision
  <2> DEFINE table == SelectSeq(signals, LAMBDA r : r.symbol = symbol)
             raw == IF table = <<>> THEN <<>> ELSE table[Len(table)].params
             params == resolveSignalParams(raw)
             Found(t) == newestAdmitted(snaps[symbol][t])
             In(t) == [timeframe |-> t, params |-> params,
                       features |-> IF Has(Found(t)) THEN <<Found(t)[1].features>> ELSE Null,
                       ts |-> IF Has(Found(t)) THEN <<Found(t)[1].ts>> ELSE Null]
             inputs == {In(t) : t \in DOMAIN snaps[symbol]}
             c == getConsensus(symbol)
  <2>1. (IF table = <<>> THEN resolveSignalParams(<<>>) ELSE resolveSignalParams(table[Len(table)].params)) = params
    OBVIOUS
  <2>2. c = computeConsensus(inputs, deskClock)
    BY <2>1 DEF getConsensus
  <2> HIDE DEF table, raw, Found
  <2>3. DOMAIN snaps[symbol] \in SUBSET DOMAIN BarSeconds
    BY <1>1 DEF SnapRows
  <2>4. IsFiniteSet(inputs)
    <3>1. DOMAIN BarSeconds = {"M1", "M5", "M15", "H1", "H4", "D1"}
      BY DEF BarSeconds
    <3>2. IsFiniteSet({"M1", "M5", "M15", "H1", "H4", "D1"})
      <4>1. IsFiniteSet({"M1", "M5", "M15"})
        BY TripleFinite
      <4>2. IsFiniteSet({"H1", "H4", "D1"})
        BY TripleFinite
      <4>3. {"M1", "M5", "M15", "H1", "H4", "D1"} = {"M1", "M5", "M15"} \union {"H1", "H4", "D1"}
        OBVIOUS
      <4> QED
        BY <4>1, <4>2, <4>3, FS_Union
    <3>3. IsFiniteSet(DOMAIN snaps[symbol])
      BY <2>3, <3>1, <3>2, FS_Subset
    <3> DEFINE f == [t \in DOMAIN snaps[symbol] |-> In(t)]
    <3>4. inputs = {f[t] : t \in DOMAIN snaps[symbol]}
      OBVIOUS
    <3> HIDE DEF f, inputs
    <3> QED
      BY <3>3, <3>4, ImageOf
  <2> HIDE DEF c
  <2>5. /\ c.timeframes = {tfMetrics(in, deskClock) : in \in inputs}
        /\ Has(c.overall) => \A d \in {"LONG", "SHORT", "FLAT"} : VotesFor(c, d) <= VotesFor(c, c.overall[1])
    <3> HIDE DEF inputs
    <3> QED
      BY <2>2, <2>4, NotOutvoted
  <2>6. ASSUME NEW t \in c.timeframes, t.available
        PROVE  \E i \in 1 .. Len(snaps[symbol][t.timeframe]) :
                 /\ snaps[symbol][t.timeframe][i].dq >= MinDq
                 /\ \A j \in i + 1 .. Len(snaps[symbol][t.timeframe]) : snaps[symbol][t.timeframe][j].dq < MinDq
                 /\ t.direction[1] = Sealed(snaps[symbol][t.timeframe][i].features, raw).decision
    <3>1. PICK k \in DOMAIN snaps[symbol] : t = tfMetrics(In(k), deskClock)
      BY <2>5
    <3> DEFINE in == In(k)
               rule == IF in.features = Null THEN Null ELSE applyRule(in.features[1], in.params)
               f == Found(k)[1].features
    <3>2. /\ in.timeframe = k /\ in.params = params
          /\ in.features = IF Has(Found(k)) THEN <<Found(k)[1].features>> ELSE Null
      OBVIOUS
    <3> HIDE DEF in
    <3>3. /\ t.timeframe = k /\ t.available = Has(rule)
          /\ t.direction = IF Has(rule) THEN <<rule[1].decision>> ELSE Null
      <4>1. t = tfMetrics(in, deskClock)
        BY <3>1 DEF in
      <4> QED
        BY <3>2, <4>1, TimeframeIs
    <3>4. in.features # Null /\ Has(applyRule(in.features[1], in.params))
      BY <2>6, <3>3 DEF Has
    <3>5. in.features[1] = f /\ rule = applyRule(f, params)
      BY <3>2, <3>4
    <3>6. RuleKeys \subseteq DOMAIN f
      BY <3>2, <3>4, <3>5 DEF applyRule, Complete, Has
    <3>7. rule[1].decision = IF f.realized_vol_30 > params.maxRealizedVol THEN "FLAT" ELSE ruleDirection(f, params)
      <4> HIDE DEF params, f, rule
      <4>1. LET r == applyRule(f, params)[1]
            IN r.decision = IF f.realized_vol_30 > params.maxRealizedVol THEN "FLAT" ELSE ruleDirection(f, params)
        BY <3>6, RuleIs
      <4> QED
        BY <3>5, <4>1
    <3>8. Sealed(f, raw).decision = IF f.realized_vol_30 > params.maxRealizedVol THEN "FLAT" ELSE ruleDirection(f, params)
      BY SealedIs
    <3>9. t.direction[1] = rule[1].decision
      BY <2>6, <3>3
    <3> DEFINE rows == [features : FeatureVectors, dq : Int, ts : Int]
    <3>10. snaps[symbol][k] \in Seq(rows)
      <4>1. snaps[symbol] \in UNION {[T -> Seq(rows)] : T \in SUBSET DOMAIN BarSeconds}
        BY <1>1 DEF SnapRows
      <4> HIDE DEF rows
      <4>2. PICK T \in SUBSET DOMAIN BarSeconds : snaps[symbol] \in [T -> Seq(rows)]
        BY <4>1
      <4> QED
        BY <4>2
    <3>11. Has(newestAdmitted(snaps[symbol][k])) /\ newestAdmitted(snaps[symbol][k]) = Found(k)
      BY <3>2, <3>4 DEF Found
    <3> DEFINE history == snaps[symbol][k]
    <3>12. PICK i \in 1 .. Len(history) :
             /\ Found(k)[1] = history[i]
             /\ history[i].dq >= MinDq /\ \A j \in i + 1 .. Len(history) : ~(history[j].dq >= MinDq)
      <4> HIDE DEF history
      <4>1. Has(newestAdmitted(history)) /\ newestAdmitted(history) = Found(k)
        BY <3>11 DEF history
      <4> QED
        BY <3>10, <4>1, NewestIs DEF history
    <3>13. \A j \in i + 1 .. Len(history) : history[j].dq < MinDq
      <4> SUFFICES ASSUME NEW j \in i + 1 .. Len(history) PROVE history[j].dq < MinDq
        OBVIOUS
      <4>1. history[j] \in rows
        <5>1. j \in 1 .. Len(history)
          BY <3>12
        <5> HIDE DEF rows
        <5> QED
          BY <3>10, <5>1
      <4>2. history[j].dq \in Int
        <5> HIDE DEF history
        <5> QED
          BY <4>1
      <4> QED
        BY <3>12, <4>2 DEF MinDq
    <3>14. t.direction[1] = Sealed(history[i].features, raw).decision
      BY <3>7, <3>8, <3>9, <3>12
    <3> QED
      BY <3>3, <3>12, <3>13, <3>14
  <2> QED
    BY <2>5, <2>6, Zenon DEF c, raw, table, VotesFor
<1>4. RowsMirrored
  BY <1>2 DEF RowsMirrored
<1>5. VotesMirrored
  BY <1>3, Zenon DEF VotesMirrored
<1> QED
  BY <1>4, <1>5 DEF MirrorsSealedRule

-----------------------------------------------------------------------------
(* Why. *)

\* The labels that tell of the rule.
LEMMA FactorsAre ==
  ASSUME NEW f, RuleKeys \subseteq DOMAIN f, NEW p, NEW signal, NEW rule, NEW price, NEW dq, NEW r,
         r.label \notin {"Near range high", "Near range low", "Mid-range", "Data quality"}
  PROVE  r \in buildExplainability(f, p, signal, rule, price, dq).factors
           <=> r \in {StackFactor(f), RsiFactor(f, p), VolFactor(f, p)}
<1> DEFINE channel == {"donchian_upper_20", "donchian_lower_20"}
           X == IF Has(price) /\ Complete(f, channel)
                THEN IF f.donchian_upper_20 > f.donchian_lower_20
                     THEN {ChannelFactor(price[1], f.donchian_upper_20, f.donchian_lower_20)} ELSE {}
                ELSE {}
           Y == IF dq < 100 THEN {[of |-> IF dq < 95 THEN "risk" ELSE "neutral", label |-> "Data quality"]} ELSE {}
           S == IF Complete(f, {"rsi_14"}) THEN {RsiFactor(f, p)} ELSE {}
           T == IF Complete(f, {"realized_vol_30"}) THEN {VolFactor(f, p)} ELSE {}
<1>1. buildExplainability(f, p, signal, rule, price, dq).factors = {StackFactor(f)} \union S \union T \union X \union Y
  BY DEF buildExplainability
<1>2. S = {RsiFactor(f, p)} /\ T = {VolFactor(f, p)}
  BY DEF Complete, RuleKeys
<1>3. \A a, b, c : ChannelFactor(a, b, c).label \in {"Near range high", "Near range low", "Mid-range"}
  BY DEF ChannelFactor
<1>4. \A x \in X : x.label \in {"Near range high", "Near range low", "Mid-range"}
  BY <1>3
<1>5. \A y \in Y : y.label = "Data quality"
  <2>1. \A k : [of |-> k, label |-> "Data quality"].label = "Data quality"
    OBVIOUS
  <2>2. \A y \in Y : \E k : y = [of |-> k, label |-> "Data quality"]
    BY Zenon
  <2> HIDE DEF Y
  <2> QED
    BY <2>1, <2>2
<1> HIDE DEF X, Y, S, T
<1>6. r \notin X /\ r \notin Y
  BY <1>4, <1>5
<1> QED
  BY <1>1, <1>2, <1>6

\* Each part of the rule is told by its factor.
LEMMA FactorsTell ==
  ASSUME NEW f \in FeatureVectors, RuleKeys \subseteq DOMAIN f, NEW p, NEW signal, NEW rule, NEW price, NEW dq
  PROVE  LET F == buildExplainability(f, p, signal, rule, price, dq).factors
             Says(kind, label) == [of |-> kind, label |-> label] \in F
         IN /\ Says("bullish", "Uptrend structure") <=> Uptrend(f)
            /\ Says("bearish", "Downtrend structure") <=> Downtrend(f)
            /\ Says("bullish", "Momentum confirms long") <=> f.rsi_14 >= p.rsiLongMin
            /\ Says("bearish", "Momentum confirms short") <=> ~(f.rsi_14 >= p.rsiLongMin) /\ f.rsi_14 <= p.rsiShortMax
            /\ Says("risk", "Volatility filter active") <=> f.realized_vol_30 > p.maxRealizedVol
<1> DEFINE F == buildExplainability(f, p, signal, rule, price, dq).factors
           Rec(kind, label) == [of |-> kind, label |-> label]
           stack == StackFactor(f)
           rsi == RsiFactor(f, p)
           vol == VolFactor(f, p)
<1>1. ~(Uptrend(f) /\ Downtrend(f))
  BY VectorIs DEF Uptrend, Downtrend
<1>2. stack = IF Uptrend(f) THEN Rec("bullish", "Uptrend structure")
              ELSE IF Downtrend(f) THEN Rec("bearish", "Downtrend structure") ELSE Rec("neutral", "No EMA alignment")
  BY DEF StackFactor, Complete, RuleKeys
<1>3. rsi = IF f.rsi_14 >= p.rsiLongMin THEN Rec("bullish", "Momentum confirms long")
            ELSE IF f.rsi_14 <= p.rsiShortMax THEN Rec("bearish", "Momentum confirms short")
            ELSE Rec("neutral", "Momentum neutral")
  BY DEF RsiFactor
<1>4. vol = IF f.realized_vol_30 > p.maxRealizedVol THEN Rec("risk", "Volatility filter active")
            ELSE Rec("neutral", "Volatility within bounds")
  BY DEF VolFactor
<1> HIDE DEF F, stack, rsi, vol
<1>12. stack.label = IF Uptrend(f) THEN "Uptrend structure"
                     ELSE IF Downtrend(f) THEN "Downtrend structure" ELSE "No EMA alignment"
  BY <1>2
<1>13. rsi.label = IF f.rsi_14 >= p.rsiLongMin THEN "Momentum confirms long"
                   ELSE IF f.rsi_14 <= p.rsiShortMax THEN "Momentum confirms short" ELSE "Momentum neutral"
  BY <1>3
<1>14. vol.label = IF f.realized_vol_30 > p.maxRealizedVol THEN "Volatility filter active" ELSE "Volatility within bounds"
  BY <1>4
<1>15. /\ Rec("bullish", "Uptrend structure").label = "Uptrend structure"
       /\ Rec("bearish", "Downtrend structure").label = "Downtrend structure"
       /\ Rec("bullish", "Momentum confirms long").label = "Momentum confirms long"
       /\ Rec("bearish", "Momentum confirms short").label = "Momentum confirms short"
       /\ Rec("risk", "Volatility filter active").label = "Volatility filter active"
  OBVIOUS
<1>16. /\ Rec("bullish", "Uptrend structure") \in F <=> Rec("bullish", "Uptrend structure") \in {stack, rsi, vol}
       /\ Rec("bearish", "Downtrend structure") \in F <=> Rec("bearish", "Downtrend structure") \in {stack, rsi, vol}
       /\ Rec("bullish", "Momentum confirms long") \in F <=> Rec("bullish", "Momentum confirms long") \in {stack, rsi, vol}
       /\ Rec("bearish", "Momentum confirms short") \in F <=> Rec("bearish", "Momentum confirms short") \in {stack, rsi, vol}
       /\ Rec("risk", "Volatility filter active") \in F <=> Rec("risk", "Volatility filter active") \in {stack, rsi, vol}
  BY <1>15, FactorsAre DEF F, stack, rsi, vol
<1> HIDE DEF Rec
<1>7. Rec("bullish", "Uptrend structure") \in F <=> Uptrend(f)
  BY <1>2, <1>12, <1>13, <1>14, <1>15, <1>16
<1>8. Rec("bearish", "Downtrend structure") \in F <=> Downtrend(f)
  BY <1>1, <1>2, <1>12, <1>13, <1>14, <1>15, <1>16
<1>9. Rec("bullish", "Momentum confirms long") \in F <=> f.rsi_14 >= p.rsiLongMin
  BY <1>3, <1>12, <1>13, <1>14, <1>15, <1>16
<1>10. Rec("bearish", "Momentum confirms short") \in F <=> ~(f.rsi_14 >= p.rsiLongMin) /\ f.rsi_14 <= p.rsiShortMax
  BY <1>3, <1>12, <1>13, <1>14, <1>15, <1>16
<1>11. Rec("risk", "Volatility filter active") \in F <=> f.realized_vol_30 > p.maxRealizedVol
  BY <1>4, <1>12, <1>13, <1>14, <1>15, <1>16
<1> QED
  BY <1>7, <1>8, <1>9, <1>10, <1>11 DEF F, Rec

\* The halves of a mean, rounded each, make the rounded mean within one.
LEMMA HalvesAddUp ==
  ASSUME NEW a, IsShare(a), NEW b, IsShare(b), NEW q, q = Blend(a, b)
  PROVE  Distance(RoundDiv(5000 * a[1], a[2]) + RoundDiv(5000 * b[1], b[2]), RoundDiv(10000 * q[1], q[2])) <= 1
<1> DEFINE m == a[1]
           y == a[2]
           n == b[1]
           v == b[2]
           s == RoundDiv(5000 * m, y)
           t == RoundDiv(5000 * n, v)
           z == RoundDiv(10000 * q[1], q[2])
<1>1. m \in Nat /\ y \in Nat \ {0} /\ n \in Nat /\ v \in Nat \ {0}
  BY DEF IsShare
<1>2. q[1] = m * v + n * y /\ q[2] = 2 * (y * v) /\ q[1] \in Nat /\ q[2] \in Nat \ {0}
  BY BlendIs DEF IsShare
<1> HIDE DEF m, y, n, v
<1>3. s \in Int /\ 2 * (y * s) <= 2 * (5000 * m) + y /\ 2 * (5000 * m) + y < 2 * (y * s) + 2 * y
  BY <1>1, RoundIs
<1>4. t \in Int /\ 2 * (v * t) <= 2 * (5000 * n) + v /\ 2 * (5000 * n) + v < 2 * (v * t) + 2 * v
  BY <1>1, RoundIs
<1>5. z \in Int /\ 2 * (q[2] * z) <= 2 * (10000 * q[1]) + q[2] /\ 2 * (10000 * q[1]) + q[2] < 2 * (q[2] * z) + 2 * q[2]
  <2> DEFINE g == q[1]
             h == q[2]
  <2>1. g \in Nat /\ h \in Nat \ {0}
    BY <1>2
  <2> HIDE DEF g, h
  <2>2. LET k == RoundDiv(10000 * g, h)
        IN k \in Int /\ 2 * (h * k) <= 2 * (10000 * g) + h /\ 2 * (10000 * g) + h < 2 * (h * k) + 2 * h
    BY <2>1, RoundIs
  <2> QED
    BY <2>2 DEF g, h
<1> HIDE DEF s, t, z
<1> DEFINE B == y * v
           M == m * v
           N == n * y
<1>6. B \in Nat \ {0} /\ M \in Nat /\ N \in Nat
  BY <1>1
<1>7. 2 * (B * s) <= 10000 * M + B /\ 10000 * M + B < 2 * (B * s) + 2 * B
  <2>1. v * (2 * (y * s)) <= v * (2 * (5000 * m) + y)
    BY <1>1, <1>3
  <2>2. v * (2 * (5000 * m) + y) < v * (2 * (y * s) + 2 * y)
    BY <1>1, <1>3
  <2>3. v * (2 * (y * s)) = 2 * ((y * v) * s) /\ v * (2 * (5000 * m) + y) = 10000 * (m * v) + y * v
        /\ v * (2 * (y * s) + 2 * y) = 2 * ((y * v) * s) + 2 * (y * v)
    BY <1>1, <1>3
  <2> QED
    BY <2>1, <2>2, <2>3
<1>8. 2 * (B * t) <= 10000 * N + B /\ 10000 * N + B < 2 * (B * t) + 2 * B
  <2>1. y * (2 * (v * t)) <= y * (2 * (5000 * n) + v)
    BY <1>1, <1>4
  <2>2. y * (2 * (5000 * n) + v) < y * (2 * (v * t) + 2 * v)
    BY <1>1, <1>4
  <2>3. y * (2 * (v * t)) = 2 * ((y * v) * t) /\ y * (2 * (5000 * n) + v) = 10000 * (n * y) + y * v
        /\ y * (2 * (v * t) + 2 * v) = 2 * ((y * v) * t) + 2 * (y * v)
    BY <1>1, <1>4
  <2> QED
    BY <2>1, <2>2, <2>3
<1>9. q[1] = M + N /\ q[2] = 2 * B
  BY <1>2
<1> HIDE DEF B, M, N
<1>10. 4 * (B * z) <= 20000 * (M + N) + 2 * B /\ 20000 * (M + N) + 2 * B < 4 * (B * z) + 4 * B /\ B * z \in Int
  <2>1. (2 * B) * z = 2 * (B * z) /\ B * z \in Int
    BY <1>5, <1>6
  <2> QED
    BY <1>5, <1>6, <1>9, <2>1
<1>11. B * s \in Int /\ B * t \in Int /\ B * (s + t - z) = B * s + B * t - B * z
  BY <1>3, <1>4, <1>5, <1>6
<1>12. 2 * (B * (s + t - z)) < 3 * B /\ 2 * (B * (s + t - z)) > -3 * B
  BY <1>6, <1>7, <1>8, <1>10, <1>11
<1> DEFINE d == s + t - z
<1>13. d \in Int
  BY <1>3, <1>4, <1>5
<1> HIDE DEF d
<1>14. ASSUME d >= 2 PROVE FALSE
  <2>1. B * d >= 2 * B /\ B * d \in Int
    BY <1>6, <1>13, <1>14
  <2> QED
    BY <1>6, <1>12, <2>1 DEF d
<1>15. ASSUME d <= -2 PROVE FALSE
  <2>1. B * d <= -2 * B /\ B * d \in Int
    BY <1>6, <1>13, <1>15
  <2> QED
    BY <1>6, <1>12, <2>1 DEF d
<1>16. Distance(s + t, z) <= 1
  BY <1>3, <1>4, <1>5, <1>13, <1>14, <1>15 DEF Distance, d
<1> QED
  BY <1>16 DEF s, t, z, m, n, y, v

\* The explanation of a decision is that of its signal.
LEMMA ExplainOfRow ==
  ASSUME NEW row \in SignalRows, NEW price,
         NEW e, e = buildExplainability(row.features, resolveSignalParams(row.params), row,
                                        applyRule(row.features, resolveSignalParams(row.params)), price, row.dq)
  PROVE  LET p == resolveSignalParams(row.params)
             Says(kind, label) == [of |-> kind, label |-> label] \in e.factors
             calm == ~Says("risk", "Volatility filter active")
         IN /\ row.decision = "LONG" <=>
                 Says("bullish", "Uptrend structure") /\ Says("bullish", "Momentum confirms long") /\ calm
            /\ p.rsiShortMax < p.rsiLongMin =>
                 (row.decision = "SHORT" <=>
                    Says("bearish", "Downtrend structure") /\ Says("bearish", "Momentum confirms short") /\ calm)
            /\ Has(e.breakdown.trend) =>
                 Distance(e.breakdown.trend[1] + e.breakdown.momentum[1], e.breakdown.total) <= 1
<1> DEFINE f == row.features
           p == resolveSignalParams(row.params)
           rule == applyRule(f, p)
           Says(kind, label) == [of |-> kind, label |-> label] \in e.factors
           calm == ~Says("risk", "Volatility filter active")
           filtered == f.realized_vol_30 > p.maxRealizedVol
<1>1. /\ f \in FeatureVectors /\ RuleKeys \subseteq DOMAIN f
      /\ p.rsiLongMin \in Int /\ p.rsiShortMax \in Int /\ p.maxRealizedVol \in Int
      /\ row.decision = Sealed(f, row.params).decision /\ row.confidence = Sealed(f, row.params).confidence
  BY RowIs, ParamsAre
<1>2. /\ Says("bullish", "Uptrend structure") <=> Uptrend(f)
      /\ Says("bearish", "Downtrend structure") <=> Downtrend(f)
      /\ Says("bullish", "Momentum confirms long") <=> f.rsi_14 >= p.rsiLongMin
      /\ Says("bearish", "Momentum confirms short") <=> ~(f.rsi_14 >= p.rsiLongMin) /\ f.rsi_14 <= p.rsiShortMax
      /\ Says("risk", "Volatility filter active") <=> filtered
  BY <1>1, FactorsTell
<1>3. row.decision = IF filtered THEN "FLAT" ELSE ruleDirection(f, p)
  BY <1>1, SealedIs
<1>4. ~(Uptrend(f) /\ Downtrend(f)) /\ f.rsi_14 \in Int
  BY <1>1, VectorIs DEF Uptrend, Downtrend
<1> HIDE DEF p, f, filtered
<1>8. ruleDirection(f, p) = IF Uptrend(f) /\ f.rsi_14 >= p.rsiLongMin THEN "LONG"
                            ELSE IF Downtrend(f) /\ f.rsi_14 <= p.rsiShortMax THEN "SHORT" ELSE "FLAT"
  BY <1>4 DEF ruleDirection
<1>5. row.decision = "LONG" <=> Says("bullish", "Uptrend structure") /\ Says("bullish", "Momentum confirms long") /\ calm
  BY <1>2, <1>3, <1>8
<1>6. p.rsiShortMax < p.rsiLongMin =>
        (row.decision = "SHORT" <=>
           Says("bearish", "Downtrend structure") /\ Says("bearish", "Momentum confirms short") /\ calm)
  <2> SUFFICES ASSUME p.rsiShortMax < p.rsiLongMin
               PROVE  row.decision = "SHORT" <=>
                        Says("bearish", "Downtrend structure") /\ Says("bearish", "Momentum confirms short") /\ calm
    OBVIOUS
  <2>1. f.rsi_14 <= p.rsiShortMax => ~(f.rsi_14 >= p.rsiLongMin)
    BY <1>1, <1>4
  <2>2. row.decision = "SHORT" <=> ~filtered /\ Downtrend(f) /\ f.rsi_14 <= p.rsiShortMax
    BY <1>3, <1>4, <1>8
  <2> QED
    BY <1>2, <2>1, <2>2, Zenon
<1>7. ASSUME Has(e.breakdown.trend)
      PROVE  Distance(e.breakdown.trend[1] + e.breakdown.momentum[1], e.breakdown.total) <= 1
  <2>1. e.breakdown = Breakdown(row, rule)
    BY DEF buildExplainability, f, p
  <2> DEFINE a == rule[1].trend
             b == rule[1].conviction
             q == Blend(a, b)
  <2>2. row.decision # "FLAT" /\ Has(rule)
    BY <1>7, <2>1 DEF Breakdown, Has
  <2>3. e.breakdown.trend[1] = RoundDiv(5000 * a[1], a[2]) /\ e.breakdown.momentum[1] = RoundDiv(5000 * b[1], b[2])
        /\ e.breakdown.total = row.confidence
    <3> HIDE DEF rule
    <3> QED
      BY <2>1, <2>2 DEF Breakdown
  <2>4. a = clamp01(Distance(f.ema_20, f.ema_200), Distance(f.ema_200, 0)) /\ b = clamp01(Distance(f.rsi_14, 50), 50)
    BY <1>1, RuleIs
  <2> HIDE DEF a, b, rule
  <2>5. IsShare(a) /\ IsShare(b) /\ row.confidence = RoundDiv(10000 * q[1], q[2])
    BY <1>1, <2>2, <2>4, DirectedConfidence
  <2> HIDE DEF q
  <2>6. Distance(RoundDiv(5000 * a[1], a[2]) + RoundDiv(5000 * b[1], b[2]), RoundDiv(10000 * q[1], q[2])) <= 1
    BY <2>5, HalvesAddUp DEF q
  <2> QED
    BY <2>3, <2>5, <2>6
<1> QED
  BY <1>5, <1>6, <1>7 DEF p

\* The factors listed make the decision taken.
LEMMA ExplanationHolds == DeskInv /\ DeskCites => ExplanationMatches
<1> SUFFICES ASSUME DeskInv, DeskCites, Answered, NEW i \in desk.items
             PROVE  LET e == i.decision.explain
                        p == resolveSignalParams(signals[i.decision.id].params)
                        Says(kind, label) == [of |-> kind, label |-> label] \in e.factors
                        calm == ~Says("risk", "Volatility filter active")
                    IN /\ i.decision.direction = "LONG" <=>
                            Says("bullish", "Uptrend structure") /\ Says("bullish", "Momentum confirms long") /\ calm
                       /\ p.rsiShortMax < p.rsiLongMin =>
                            (i.decision.direction = "SHORT" <=>
                               Says("bearish", "Downtrend structure") /\ Says("bearish", "Momentum confirms short") /\ calm)
                       /\ Has(e.breakdown.trend) =>
                            Distance(e.breakdown.trend[1] + e.breakdown.momentum[1], e.breakdown.total) <= 1
  BY Zenon DEF ExplanationMatches
<1>1. Cites(i.decision, signals)
  BY DEF DeskCites, Answered
<1>2. PICK n \in 1 .. Len(signals) : \E when, price, liq, risk, control :
        i.decision = buildTradingDecision(when, signals[n], price, liq, risk, control)
  BY <1>1 DEF Cites
<1>3. PICK when, price, liq, risk, control :
        i.decision = buildTradingDecision(when, signals[n], price, liq, risk, control)
  BY <1>2
<1> DEFINE row == signals[n]
           d == i.decision
           params == resolveSignalParams(row.params)
<1>4. row \in SignalRows /\ row.id = n
  BY DEF DeskInv, DeskWorldOK
<1>5. d.id = row.id /\ d.direction = row.decision
  BY <1>3, DecisionOfRow, DecisionStatus
<1>6. d.explain = buildExplainability(row.features, params, row, applyRule(row.features, params), price, row.dq)
  BY <1>3 DEF buildTradingDecision
<1>7. signals[d.id] = row
  BY <1>4, <1>5
<1> DEFINE e == d.explain
<1> HIDE DEF row
<1>8. LET p == resolveSignalParams(row.params)
          Says(kind, label) == [of |-> kind, label |-> label] \in e.factors
          calm == ~Says("risk", "Volatility filter active")
      IN /\ row.decision = "LONG" <=>
              Says("bullish", "Uptrend structure") /\ Says("bullish", "Momentum confirms long") /\ calm
         /\ p.rsiShortMax < p.rsiLongMin =>
              (row.decision = "SHORT" <=>
                 Says("bearish", "Downtrend structure") /\ Says("bearish", "Momentum confirms short") /\ calm)
         /\ Has(e.breakdown.trend) =>
              Distance(e.breakdown.trend[1] + e.breakdown.momentum[1], e.breakdown.total) <= 1
  <2> HIDE DEF e
  <2>1. e = buildExplainability(row.features, params, row, applyRule(row.features, params), price, row.dq)
    BY <1>6 DEF e
  <2> QED
    BY <1>4, <2>1, ExplainOfRow
<1> QED
  BY <1>5, <1>7, <1>8

-----------------------------------------------------------------------------
(* Counting the board and the book. *)

\* Two disjoint parts make up the whole.
LEMMA TwoParts ==
  ASSUME NEW S, IsFiniteSet(S), NEW A, NEW B, S = A \union B, A \intersect B = {}
  PROVE  /\ IsFiniteSet(A) /\ IsFiniteSet(B)
         /\ Cardinality(S) = Cardinality(A) + Cardinality(B)
         /\ Cardinality(A) \in Nat /\ Cardinality(B) \in Nat
<1>1. A \in SUBSET S /\ B \in SUBSET S
  OBVIOUS
<1>2. IsFiniteSet(A) /\ IsFiniteSet(B)
  BY <1>1, FS_Subset
<1>3. Cardinality(A) \in Nat /\ Cardinality(B) \in Nat
  BY <1>2, FS_CardinalityType
<1>4. Cardinality(A \union B) = Cardinality(A) + Cardinality(B) - Cardinality(A \intersect B)
  BY <1>2, FS_Union
<1>5. Cardinality(A \intersect B) = 0
  BY FS_EmptySet
<1> QED
  BY <1>2, <1>3, <1>4, <1>5

\* Four parts, told apart by a label.
LEMMA FourParts ==
  ASSUME NEW S, IsFiniteSet(S), NEW A, NEW B, NEW C, NEW D, S = A \union B \union C \union D,
         A \intersect B = {}, A \intersect C = {}, A \intersect D = {}, B \intersect C = {},
         B \intersect D = {}, C \intersect D = {}
  PROVE  Cardinality(A) + Cardinality(B) + Cardinality(C) + Cardinality(D) = Cardinality(S)
<1> DEFINE R == B \union C \union D
           Q == C \union D
<1>1. S = A \union R /\ A \intersect R = {}
  OBVIOUS
<1>5. R = B \union Q /\ B \intersect Q = {}
  OBVIOUS
<1>6. Q = C \union D /\ C \intersect D = {}
  OBVIOUS
<1> HIDE DEF R, Q
<1>0. IsFiniteSet(S)
  OBVIOUS
<1>2. /\ IsFiniteSet(R) /\ Cardinality(S) = Cardinality(A) + Cardinality(R)
      /\ Cardinality(A) \in Nat /\ Cardinality(R) \in Nat
  BY ONLY <1>0, <1>1, TwoParts
<1>7. IsFiniteSet(R)
  BY <1>2
<1>3. /\ IsFiniteSet(Q) /\ Cardinality(R) = Cardinality(B) + Cardinality(Q)
      /\ Cardinality(B) \in Nat /\ Cardinality(Q) \in Nat
  BY ONLY <1>5, <1>7, TwoParts
<1>8. IsFiniteSet(Q)
  BY <1>3
<1>4. Cardinality(Q) = Cardinality(C) + Cardinality(D) /\ Cardinality(C) \in Nat /\ Cardinality(D) \in Nat
  BY ONLY <1>6, <1>8, TwoParts
<1> QED
  BY <1>2, <1>3, <1>4

\* Sorting keeps the number of entries.
LEMMA SortedLen ==
  ASSUME NEW S, IsFiniteSet(S)
  PROVE  Len(Sorted(S)) = Cardinality(S)
<1> DEFINE n == Cardinality(S)
           s == Sorted(S)
<1>1. n \in Nat
  BY FS_CardinalityType
<1> DEFINE e(i) == CHOOSE r \in S : Cardinality({q \in S : byScore(q, r)}) = i - 1
<1>4. s = [i \in 1 .. n |-> e(i)]
  BY DEF Sorted
<1> HIDE DEF e
<1>2. s = [i \in 1 .. n |-> s[i]]
  BY <1>4
<1> HIDE DEF n, s
<1>3. Len(s) = n
  BY <1>1, <1>2, FunctionIsSequence
<1> QED
  BY <1>3 DEF n, s

\* The board's buckets hold every ranked decision once.
LEMMA BucketsAddUp ==
  ASSUME NEW items, NEW ranked, ranked = {toRanked(i) : i \in items}, IsFiniteSet(ranked)
  PROVE  LET b == rankOpportunities(items)
         IN Len(b.topLong) + Len(b.topShort) + Len(b.watchlist) + Len(b.blocked) + Len(b.waiting) = Cardinality(ranked)
<1> DEFINE L == {r \in ranked : isTop(r) /\ r.direction = "LONG"}
           H == {r \in ranked : isTop(r) /\ r.direction = "SHORT"}
           W == {r \in ranked : Watched(r)}
           B == {r \in ranked : r.overall = "BLOCKED"}
           A == {r \in ranked : r.overall = "WAITING"}
           T == {r \in ranked : isTop(r)}
           b == rankOpportunities(items)
<1>1. b.topLong = Sorted(L) /\ b.topShort = Sorted(H) /\ b.watchlist = Sorted(W)
      /\ b.blocked = Sorted(B) /\ b.waiting = Sorted(A)
  BY DEF rankOpportunities
<1>2. /\ ranked = T \union W \union B \union A
      /\ T \intersect W = {} /\ T \intersect B = {} /\ T \intersect A = {}
      /\ W \intersect B = {} /\ W \intersect A = {} /\ B \intersect A = {}
  BY DEF Watched, isTop
<1>3. T = L \union H /\ L \intersect H = {}
  BY DEF isTop
<1>4. T \in SUBSET ranked /\ W \in SUBSET ranked /\ B \in SUBSET ranked /\ A \in SUBSET ranked
  OBVIOUS
<1> HIDE DEF L, H, W, B, A, T, b
<1>5. IsFiniteSet(T) /\ IsFiniteSet(W) /\ IsFiniteSet(B) /\ IsFiniteSet(A)
  BY <1>4, FS_Subset
<1>6. Cardinality(T) + Cardinality(W) + Cardinality(B) + Cardinality(A) = Cardinality(ranked)
  BY <1>2, FourParts, SMTT(40)
<1>7. /\ IsFiniteSet(L) /\ IsFiniteSet(H)
      /\ Cardinality(T) = Cardinality(L) + Cardinality(H)
  BY <1>3, <1>5, TwoParts
<1>8. /\ Len(b.topLong) = Cardinality(L) /\ Len(b.topShort) = Cardinality(H) /\ Len(b.watchlist) = Cardinality(W)
      /\ Len(b.blocked) = Cardinality(B) /\ Len(b.waiting) = Cardinality(A)
  BY <1>1, <1>5, <1>7, SortedLen
<1>9. /\ Cardinality(L) \in Nat /\ Cardinality(H) \in Nat /\ Cardinality(W) \in Nat
      /\ Cardinality(B) \in Nat /\ Cardinality(A) \in Nat
  BY <1>5, <1>7, FS_CardinalityType
<1> QED
  BY <1>6, <1>7, <1>8, <1>9 DEF b

RankedOf(items) == {toRanked(i) : i \in items}
PositionsOf(planned, halt) == {toPosition(i, halt) : i \in planned}

\* As many entries, positions and plans as decisions.
LEMMA EachCounts ==
  ASSUME NEW items, NEW log, NEW fraction, ItemsOK(items, log, fraction), NEW state, NEW halt
  PROVE  LET ranked == RankedOf(items)
             planned == Planned(items, state, halt)
             positions == PositionsOf(planned, halt)
         IN /\ IsFiniteSet(ranked) /\ IsFiniteSet(planned) /\ IsFiniteSet(positions)
            /\ Cardinality(ranked) = Cardinality(items) /\ Cardinality(planned) = Cardinality(items)
            /\ Cardinality(positions) = Cardinality(items)
<1> DEFINE ranked == RankedOf(items)
           planned == Planned(items, state, halt)
           positions == PositionsOf(planned, halt)
<1>5. ranked = {toRanked(i) : i \in items} /\ positions = {toPosition(i, halt) : i \in planned}
  BY DEF RankedOf, PositionsOf
<1>6. planned = Planned(items, state, halt)
  OBVIOUS
<1> HIDE DEF ranked, planned, positions
<1>0. IsFiniteSet(items)
  BY DEF ItemsOK
<1>1. \A i, j \in items : i.decision.symbol = j.decision.symbol => i = j
  BY DEF ItemsOK
<1>2. IsFiniteSet(ranked) /\ Cardinality(ranked) = Cardinality(items)
  <2> DEFINE f == [i \in items |-> toRanked(i)]
  <2>1. ranked = {f[i] : i \in items}
    BY <1>5
  <2>2. \A i \in items : f[i].symbol = i.decision.symbol
    BY DEF toRanked
  <2> HIDE DEF f
  <2>3. \A x, y \in items : f[x] = f[y] => x = y
    BY <1>1, <2>2
  <2> QED
    BY ONLY <1>0, <2>1, <2>3, ImageOf, Zenon
<1>3. IsFiniteSet(planned) /\ Cardinality(planned) = Cardinality(items)
  <2> DEFINE f == [j \in items |-> [decision |-> j.decision, dq |-> <<j.dq>>, plan |-> buildTradePlan(PlanInput(j, state, halt))]]
  <2>1. planned = {f[i] : i \in items}
    BY <1>6 DEF Planned, PlanInput
  <2>2. \A i \in items : f[i].decision = i.decision
    OBVIOUS
  <2> HIDE DEF f
  <2>3. \A x, y \in items : f[x] = f[y] => x = y
    BY <1>1, <2>2
  <2> QED
    BY ONLY <1>0, <2>1, <2>3, ImageOf, Zenon
<1>4. IsFiniteSet(positions) /\ Cardinality(positions) = Cardinality(planned)
  <2> DEFINE f == [i \in planned |-> toPosition(i, halt)]
  <2>1. positions = {f[i] : i \in planned}
    BY <1>5
  <2>2. \A i \in planned : f[i].symbol = i.decision.symbol
    BY PositionIs
  <2> HIDE DEF f
  <2>3. \A x, y \in planned : f[x] = f[y] => x = y
    <3> SUFFICES ASSUME NEW x \in planned, NEW y \in planned, f[x] = f[y] PROVE x = y
      OBVIOUS
    <3>1. PICK i \in items :
            x = [decision |-> i.decision, dq |-> <<i.dq>>, plan |-> buildTradePlan(PlanInput(i, state, halt))]
      BY <1>6, PlannedIs
    <3>2. PICK j \in items :
            y = [decision |-> j.decision, dq |-> <<j.dq>>, plan |-> buildTradePlan(PlanInput(j, state, halt))]
      BY <1>6, PlannedIs
    <3>3. i.decision.symbol = j.decision.symbol
      BY <2>2, <3>1, <3>2
    <3> QED
      BY <1>1, <3>1, <3>2, <3>3
  <2> QED
    BY ONLY <1>3, <2>1, <2>3, ImageOf, Zenon
<1> QED
  BY <1>2, <1>3, <1>4 DEF ranked, planned, positions

\* The states of the positions are the book's four.
LEMMA StatesAddUp ==
  ASSUME NEW positions, IsFiniteSet(positions),
         \A p \in positions : p.state \in {"OPEN", "WAITING", "BLOCKED", "FLAT"}
  PROVE  Cardinality({p \in positions : p.state = "OPEN"}) + Cardinality({p \in positions : p.state = "WAITING"})
         + Cardinality({p \in positions : p.state = "BLOCKED"}) + Cardinality({p \in positions : p.state = "FLAT"})
           = Cardinality(positions)
<1> DEFINE A == {p \in positions : p.state = "OPEN"}
           B == {p \in positions : p.state = "WAITING"}
           C == {p \in positions : p.state = "BLOCKED"}
           D == {p \in positions : p.state = "FLAT"}
<1>1. /\ positions = A \union B \union C \union D
      /\ A \intersect B = {} /\ A \intersect C = {} /\ A \intersect D = {}
      /\ B \intersect C = {} /\ B \intersect D = {} /\ C \intersect D = {}
  OBVIOUS
<1> HIDE DEF A, B, C, D
<1>2. Cardinality(A) + Cardinality(B) + Cardinality(C) + Cardinality(D) = Cardinality(positions)
  BY <1>1, FourParts, SMTT(40)
<1> QED
  BY <1>2 DEF A, B, C, D

-----------------------------------------------------------------------------
(* The exposure and its groupings. *)

\* What a position adds to the exposure.
Worth(p) == IF Has(p.notional) THEN p.notional[1] ELSE 0

\* The notionals of a book are dollars.
Priced(positions) == \A p \in positions : Has(p.notional) => p.notional[1] \in Nat

\* The notionals of finitely many priced positions, summed.
LEMMA NotionalSum ==
  ASSUME NEW S, IsFiniteSet(S), Priced(S), NEW w, \A p \in S : w[p] = Worth(p)
  PROVE  sumFinite([p \in S |-> p.notional]) = SumOf(w, S) /\ SumOf(w, S) \in Nat
<1> DEFINE V == [p \in S |-> p.notional]
           f == [p \in S |-> IF Has(V[p]) THEN V[p][1] ELSE 0]
<1>1. DOMAIN V = S /\ \A p \in S : Has(V[p]) => V[p][1] \in Int
  BY DEF Priced
<1>2. \A p \in S : f[p] = w[p] /\ f[p] \in Int /\ w[p] \in Nat
  BY DEF Worth, Priced
<1>3. sumFinite(V) = SumOf(f, S)
  <2> HIDE DEF V
  <2> QED
    BY <1>1, SumFiniteIs
<1> HIDE DEF V, f
<1>4. SumOf(w, S) = SumOf(f, S)
  BY <1>2, SumFacts
<1>5. SumOf(w, S) \in Nat
  BY <1>2, SumNat
<1> QED
  BY <1>3, <1>4, <1>5 DEF V

\* A sum over two disjoint parts.
LEMMA SumOfTwo ==
  ASSUME NEW S, IsFiniteSet(S), NEW f, \A x \in S : f[x] \in Int,
         NEW A, NEW B, S = A \union B, A \intersect B = {}
  PROVE  SumOf(f, S) = SumOf(f, A) + SumOf(f, B)
<1> DEFINE a == [x \in S |-> IF x \in A THEN f[x] ELSE 0]
           b == [x \in S |-> IF x \in B THEN f[x] ELSE 0]
<1>1. /\ \A x \in S : a[x] \in Int /\ b[x] \in Int /\ f[x] = 1 * a[x] + 1 * b[x] + 0
      /\ \A x \in S \ A : a[x] = 0
      /\ \A x \in S \ B : b[x] = 0
      /\ \A x \in A : a[x] = f[x] /\ f[x] \in Int
      /\ \A x \in B : b[x] = f[x] /\ f[x] \in Int
  OBVIOUS
<1>2. A \in SUBSET S /\ B \in SUBSET S
  OBVIOUS
<1> HIDE DEF a, b
<1>3. IsFiniteSet(A) /\ IsFiniteSet(B) /\ Cardinality(S) \in Nat
  BY <1>2, FS_Subset, FS_CardinalityType
<1>4. SumOf(f, S) = 1 * SumOf(a, S) + 1 * SumOf(b, S) + 0 * Cardinality(S)
  <2>1. 1 \in Int /\ 0 \in Int
    OBVIOUS
  <2> QED
    BY <1>1, <2>1, SumLinear
<1>5. SumOf(a, S) = SumOf(a, A) /\ SumOf(b, S) = SumOf(b, B)
  BY <1>1, <1>2, SumSubset
<1>6. SumOf(a, A) = SumOf(f, A) /\ SumOf(b, B) = SumOf(f, B)
  BY <1>1, <1>3, SumFacts
<1>7. SumOf(f, A) \in Int /\ SumOf(f, B) \in Int
  BY <1>1, <1>3, SumFacts
<1> QED
  BY <1>3, <1>4, <1>5, <1>6, <1>7

\* The open positions of a book.
OpenOf(positions) == {p \in positions : p.state = "OPEN"}

\* A grouping by its keys.
OfKey(key, k) == {p \in DOMAIN key : key[p] = k}
LiveOfKey(key, k) == {p \in OfKey(key, k) : p.state = "OPEN"}

\* The groups of a grouping and the notional of each.
LEMMA GroupIs ==
  ASSUME NEW key
  PROVE  /\ DOMAIN group(key) = {key[p] : p \in DOMAIN key}
         /\ \A k \in DOMAIN group(key) :
              group(key)[k].notional = sumFinite([p \in LiveOfKey(key, k) |-> p.notional])
BY DEF group, LiveOfKey, OfKey

\* The groups of a grouping add up to the live positions.
LEMMA GroupTotal ==
  ASSUME NEW key, NEW P, P = DOMAIN key, IsFiniteSet(P), Priced(P),
         NEW open, open = OpenOf(P),
         NEW w, \A p \in P : w[p] = Worth(p)
  PROVE  TotalOf(group(key)) = SumOf(w, open)
<1> USE DEF OpenOf
<1> DEFINE g == group(key)
           K == DOMAIN g
           n == [k \in K |-> g[k].notional]
           f == [p \in P |-> IF p.state = "OPEN" THEN w[p] ELSE 0]
<1>1. K = {key[p] : p \in P}
  BY GroupIs
<1>2. \A k \in K : n[k] = sumFinite([p \in LiveOfKey(key, k) |-> p.notional])
  BY GroupIs
<1>3. /\ \A p \in P : f[p] \in Nat /\ f[p] \in Int /\ w[p] \in Int
      /\ \A p \in P \ open : f[p] = 0
      /\ \A p \in open : f[p] = w[p]
  BY DEF Worth, Priced
<1>4. DOMAIN n = K
  OBVIOUS
<1>5. \A p \in P : key[p] \in K
  BY <1>1
<1>0. IsFiniteSet(P)
  OBVIOUS
<1> HIDE DEF g, K, n, f
<1>6. IsFiniteSet(K)
  BY ONLY <1>0, <1>1, ImageOf
<1>7. ASSUME NEW k \in K PROVE n[k] = SumOf(f, {p \in P : key[p] = k}) /\ n[k] \in Int
  <2> DEFINE A == {p \in P : key[p] = k}
             L == LiveOfKey(key, k)
  <2>1. A \in SUBSET P /\ L \in SUBSET A /\ (\A p \in A \ L : f[p] = 0) /\ \A p \in L : f[p] = w[p] /\ w[p] = Worth(p)
    BY <1>3 DEF LiveOfKey, OfKey
  <2>6. \A p \in A : f[p] \in Int
    BY <1>3, <2>1
  <2>2. Priced(L)
    BY <2>1 DEF Priced
  <2>7. n[k] = sumFinite([p \in L |-> p.notional])
    BY <1>2
  <2> HIDE DEF A, L
  <2>3. IsFiniteSet(A) /\ IsFiniteSet(L)
    BY <2>1, FS_Subset
  <2>4. sumFinite([p \in L |-> p.notional]) = SumOf(w, L) /\ SumOf(w, L) \in Nat
    BY <2>1, <2>2, <2>3, NotionalSum
  <2>5. SumOf(f, A) = SumOf(f, L)
    BY <2>1, <2>3, <2>6, SumSubset
  <2>8. SumOf(f, L) = SumOf(w, L)
    <3>1. \A p \in L : w[p] \in Int
      BY <1>3, <2>1
    <3> QED
      BY <2>1, <2>3, <3>1, SumFacts
  <2> QED
    BY <2>4, <2>5, <2>7, <2>8 DEF A
<1>8. SumFunction(n) = SumOf(n, K)
  BY <1>4, <1>6, <1>7, SumFunctionIs
<1>9. SumOf(n, K) = SumOf(f, P)
  <2>1. \A p \in P : f[p] \in Int
    BY <1>3
  <2>2. \A k \in K : n[k] = SumOf(f, {p \in P : key[p] = k})
    BY <1>7
  <2> QED
    BY ONLY <1>0, <1>5, <1>6, <2>1, <2>2, SumParts
<1>10. SumOf(f, P) = SumOf(f, open)
  BY <1>3, SumSubset
<1>11. SumOf(f, open) = SumOf(w, open)
  <2>1. open \in SUBSET P
    OBVIOUS
  <2>2. IsFiniteSet(open)
    BY <2>1, FS_Subset
  <2>3. \A p \in open : w[p] \in Int /\ f[p] = w[p]
    BY <1>3, <2>1
  <2> QED
    BY <2>2, <2>3, SumFacts
<1> QED
  BY <1>8, <1>9, <1>10, <1>11 DEF n, K, g, TotalOf

-----------------------------------------------------------------------------
(* Concentration. *)

\* The least of a set is the member below all others.
LEMMA MinIs ==
  ASSUME NEW s \in SUBSET Int, NEW m \in s, \A k \in s : m <= k
  PROVE  Min(s) = m
<1>1. m \in s /\ \A k \in s : m <= k
  OBVIOUS
<1>2. \A x \in s : (\A k \in s : x <= k) => x = m
  OBVIOUS
<1> QED
  BY <1>1, <1>2 DEF Min

\* The lesser of two.
LEMMA LesserOf ==
  ASSUME NEW a \in Int, NEW b \in Int
  PROVE  Min({a, b}) = IF a <= b THEN a ELSE b
<1>1. CASE a <= b
  <2>1. {a, b} \in SUBSET Int /\ a \in {a, b} /\ \A k \in {a, b} : a <= k
    BY <1>1
  <2> QED
    BY <1>1, <2>1, MinIs
<1>2. CASE ~(a <= b)
  <2>1. {a, b} \in SUBSET Int /\ b \in {a, b} /\ \A k \in {a, b} : b <= k
    BY <1>2
  <2> QED
    BY <1>2, <2>1, MinIs
<1> QED
  BY <1>1, <1>2

\* The greater of two.
LEMMA GreaterOf ==
  ASSUME NEW a \in Int, NEW b \in Int
  PROVE  Max({a, b}) = IF a <= b THEN b ELSE a
<1>1. CASE a <= b
  <2>1. {a, b} \in SUBSET Int /\ b \in {a, b} /\ \A k \in {a, b} : k <= b
    BY <1>1
  <2> QED
    BY <1>1, <2>1, MaxIs
<1>2. CASE ~(a <= b)
  <2>1. {a, b} \in SUBSET Int /\ a \in {a, b} /\ \A k \in {a, b} : k <= a
    BY <1>2
  <2> QED
    BY <1>2, <2>1, MaxIs
<1> QED
  BY <1>1, <1>2

\* Arithmetic of products.
LEMMA NotNegative ==
  ASSUME NEW g \in Nat \ {0}, NEW x \in Int, g * x >= 0
  PROVE  x >= 0
<1> SUFFICES ASSUME x < 0 PROVE FALSE
  OBVIOUS
<1>1. PICK y \in Nat : x = -(y + 1)
  <2>1. -x - 1 \in Nat
    OBVIOUS
  <2>2. x = -((-x - 1) + 1)
    OBVIOUS
  <2> QED
    BY <2>1, <2>2
<1>2. g * x = -(g * y) - g
  BY <1>1
<1>3. g * y \in Nat
  OBVIOUS
<1> QED
  BY <1>2, <1>3

\* A square is not negative.
LEMMA SquareNat ==
  ASSUME NEW x \in Int
  PROVE  x * x \in Nat
<1>1. CASE x \in Nat
  BY <1>1
<1>2. CASE x \notin Nat
  <2>1. -x \in Nat
    BY <1>2
  <2>2. (-x) * (-x) \in Nat
    BY <2>1
  <2>3. (-x) * (-x) = x * x
    OBVIOUS
  <2> QED
    BY <2>2, <2>3
<1> QED
  BY <1>1, <1>2

\* Cauchy's inequality: the squares of n figures are at least the square of their sum over n.
LEMMA SquaresOfSum ==
  ASSUME NEW K, IsFiniteSet(K), K # {}, NEW f, \A k \in K : f[k] \in Int,
         NEW q, \A k \in K : q[k] = f[k] * f[k],
         NEW n, n = Cardinality(K)
  PROVE  SumOf(f, K) * SumOf(f, K) <= n * SumOf(q, K)
<1> DEFINE T == SumOf(f, K)
           Q == SumOf(q, K)
           h == [k \in K |-> (n * f[k] - T) * (n * f[k] - T)]
<1>1. n \in Nat \ {0}
  BY FS_CardinalityType, FS_EmptySet
<1>2. \A k \in K : q[k] \in Int
  OBVIOUS
<1>3. T \in Int /\ Q \in Int
  BY <1>2, SumFacts
<1> HIDE DEF T, Q
<1>4. \A k \in K : h[k] \in Nat
  BY <1>1, <1>3, SquareNat
<1>5. \A k \in K : h[k] = (n * n) * q[k] + (-2 * (n * T)) * f[k] + T * T
  BY <1>1, <1>3
<1> DEFINE a == n * n
           b == -2 * (n * T)
           c == T * T
<1>6. a \in Int /\ b \in Int /\ c \in Int
  BY <1>1, <1>3
<1>7. \A k \in K : h[k] = a * q[k] + b * f[k] + c
  BY <1>5
<1> HIDE DEF h, a, b, c
<1>8. SumOf(h, K) \in Nat
  BY <1>4, SumNat
<1>9. SumOf(h, K) = a * Q + b * T + c * n
  <2>1. SumOf(h, K) = a * SumOf(q, K) + b * SumOf(f, K) + c * Cardinality(K)
    BY <1>2, <1>6, <1>7, SumLinear
  <2> QED
    BY <2>1 DEF T, Q
<1>10. a * Q + b * T + c * n = n * (n * Q - T * T)
  BY <1>1, <1>3 DEF a, b, c
<1>11. n * Q - T * T >= 0
  <2> DEFINE x == n * Q - T * T
  <2>1. x \in Int
    BY <1>1, <1>3
  <2>2. n * x >= 0
    BY <1>8, <1>9, <1>10
  <2> HIDE DEF x
  <2>3. x >= 0
    BY <1>1, <2>1, <2>2, NotNegative
  <2> QED
    BY <2>3 DEF x
<1>12. n * Q \in Int /\ T * T \in Int
  BY <1>1, <1>3
<1> QED
  BY <1>11, <1>12 DEF T, Q

\* Shares of a whole, each to a tenth of a percent, add up to it within half a tenth each.
LEMMA SharesAddUp ==
  ASSUME NEW K, IsFiniteSet(K), NEW N, \A k \in K : N[k] \in Nat, NEW G \in Nat \ {0}, G = SumOf(N, K),
         NEW s, \A k \in K : s[k] = RoundDiv(1000 * N[k], G)
  PROVE  /\ \A k \in K : s[k] \in Nat
         /\ 2 * SumOf(s, K) + Cardinality(K) >= 2000
<1> DEFINE n == Cardinality(K)
           T == SumOf(s, K)
           h == [k \in K |-> (2 * G) * s[k] + (-2000) * N[k] + G]
<1>1. n \in Nat
  BY FS_CardinalityType
<1>2. ASSUME NEW k \in K PROVE s[k] \in Nat /\ h[k] \in Nat
  <2> DEFINE m == 1000 * N[k]
  <2>1. m \in Nat /\ m \in Int
    OBVIOUS
  <2>2. s[k] = RoundDiv(m, G)
    OBVIOUS
  <2> HIDE DEF m
  <2>3. s[k] \in Nat
    BY <2>1, <2>2, RoundNat
  <2>4. 2 * m + G < 2 * (G * s[k]) + 2 * G
    BY <2>1, <2>2, RoundIs
  <2>5. h[k] = 2 * (G * s[k]) - 2 * m + G
    BY <2>3 DEF m
  <2>6. G * s[k] \in Nat
    BY <2>3
  <2> HIDE DEF h
  <2> QED
    BY <2>1, <2>3, <2>4, <2>5, <2>6
<1>3. T \in Int
  BY <1>2, SumFacts
<1>4. SumOf(h, K) \in Nat
  <2> HIDE DEF h
  <2> QED
    BY <1>2, SumNat
<1>5. SumOf(h, K) = (2 * G) * T + (-2000) * G + G * n
  <2> DEFINE a == 2 * G
             b == -2000
  <2>1. a \in Int /\ b \in Int /\ G \in Int
    OBVIOUS
  <2>2. \A k \in K : h[k] = a * s[k] + b * N[k] + G
    OBVIOUS
  <2>3. (\A k \in K : s[k] \in Int) /\ \A k \in K : N[k] \in Int
    BY <1>2
  <2> HIDE DEF h, a, b
  <2>4. SumOf(h, K) = a * SumOf(s, K) + b * SumOf(N, K) + G * Cardinality(K)
    BY <2>1, <2>2, <2>3, SumLinear
  <2> QED
    BY <2>4 DEF a, b
<1> HIDE DEF h, T, n
<1>6. (2 * G) * T + (-2000) * G + G * n = G * (2 * T - 2000 + n)
  BY <1>1, <1>3
<1>7. 2 * T - 2000 + n >= 0
  <2> DEFINE x == 2 * T - 2000 + n
  <2>1. x \in Int
    BY <1>1, <1>3
  <2>2. G * x >= 0
    BY <1>4, <1>5, <1>6
  <2> HIDE DEF x
  <2>3. x >= 0
    BY <2>1, <2>2, NotNegative
  <2> QED
    BY <2>3 DEF x
<1> QED
  BY <1>1, <1>2, <1>3, <1>7 DEF T, n

\* The arithmetic of the bound: total is the sum of the shares, squares of their squares.
LEMMA ConcentrationBound ==
  ASSUME NEW n \in Nat \ {0}, NEW T \in Nat, NEW Q \in Nat, 2 * T + n >= 2000, T * T <= n * Q
  PROVE  /\ RoundDiv(Q, 100) \in Nat
         /\ RoundDiv(Q, 100) * n >= 10000 - 11 * n
<1> DEFINE r == RoundDiv(Q, 100)
<1>1. r \in Nat /\ 2 * Q + 100 < 2 * (100 * r) + 2 * 100
  BY RoundNat, RoundIs
<1> HIDE DEF r
<1>2. r * n \in Nat
  BY <1>1
<1>3. CASE n >= 2000
  BY <1>1, <1>2, <1>3 DEF r
<1>4. CASE n < 2000
  <2> DEFINE m == 2000 - n
             e == 2 * T - m
  <2>1. m \in Nat /\ e \in Nat
    BY <1>4
  <2>2. 4 * (T * T) = m * m + 2 * (m * e) + e * e
    <3>1. 2 * T = m + e
      BY <2>1
    <3>2. (2 * T) * (2 * T) = 4 * (T * T)
      OBVIOUS
    <3> HIDE DEF m, e
    <3>3. (m + e) * (m + e) = m * m + 2 * (m * e) + e * e
      BY <2>1
    <3> QED
      BY <3>1, <3>2, <3>3
  <2>3. m * e \in Nat /\ e * e \in Nat /\ m * m \in Nat /\ T * T \in Nat /\ n * Q \in Nat
    <3> HIDE DEF m, e
    <3> QED
      BY <2>1
  <2>4. m * m = 4000000 - 4000 * n + n * n
    OBVIOUS
  <2>5. n * n \in Nat
    OBVIOUS
  <2>6. 4 * (n * Q) >= 4000000 - 4000 * n
    <3> HIDE DEF m, e
    <3> QED
      BY <2>2, <2>3, <2>4, <2>5
  <2>7. 100 * r - Q + 49 \in Nat
    BY <1>1
  <2>8. n * (100 * r - Q + 49) \in Nat
    BY <2>7
  <2>9. n * (100 * r - Q + 49) = 100 * (r * n) - n * Q + 49 * n
    BY <1>1
  <2>10. 100 * (r * n) >= n * Q - 49 * n
    BY <1>2, <2>3, <2>8, <2>9
  <2> QED
    BY <1>1, <1>2, <2>3, <2>6, <2>10 DEF r
<1> QED
  BY <1>1, <1>3, <1>4 DEF r

\* The concentration of a priced book lies between an even spread and a single symbol.
LEMMA ConcentrationIs ==
  ASSUME NEW facts, NEW open, open = facts.open, IsFiniteSet(open), Priced(open),
         NEW w, \A p \in open : w[p] = Worth(p), facts.gross = SumOf(w, open)
  PROVE  SpreadHolds(concentrationScore(facts), Cardinality(SymbolsOf(open)), facts.gross)
<1> USE DEF SpreadHolds
<1> DEFINE G == facts.gross
           K == SymbolsOf(open)
           n == Cardinality(K)
           c == concentrationScore(facts)
           N == [s \in K |-> NotionalOf(open, s)]
           share == [s \in K |-> RoundDiv(1000 * N[s], G)]
           sq == [s \in K |-> share[s] * share[s]]
           r == RoundDiv(SumFunction(sq), 100)
<1>0. G \in Nat
  <2>1. SumOf(w, open) \in Nat
    BY NotionalSum
  <2> QED
    BY <2>1
<1>1. CASE ~(G > 0)
  <2>1. c = 0
    BY <1>0, <1>1 DEF concentrationScore
  <2> QED
    BY <1>1, <2>1
<1>2. CASE G > 0
  <2>1. c = Min({10000, r})
    <3> DEFINE sr == [s \in K |-> RoundDiv(1000 * NotionalOf(open, s), G) * RoundDiv(1000 * NotionalOf(open, s), G)]
    <3>1. c = Min({10000, RoundDiv(SumFunction(sr), 100)})
      BY <1>0, <1>2 DEF concentrationScore
    <3>2. sr = sq
      OBVIOUS
    <3> HIDE DEF sr, sq
    <3> QED
      BY <3>1, <3>2
  <2>2. IsFiniteSet(K)
    <3> DEFINE f == [p \in open |-> p.symbol]
    <3>1. K = {f[p] : p \in open}
      BY DEF SymbolsOf
    <3>2. IsFiniteSet(open)
      OBVIOUS
    <3> HIDE DEF f, K
    <3> QED
      BY ONLY <3>1, <3>2, ImageOf
  <2>3. ASSUME NEW s \in K PROVE N[s] = SumOf(w, {p \in open : p.symbol = s}) /\ N[s] \in Nat
    <3> DEFINE A == {p \in open : p.symbol = s}
    <3>1. N[s] = sumFinite([p \in A |-> p.notional])
      BY DEF NotionalOf
    <3>2. A \in SUBSET open /\ Priced(A) /\ \A p \in A : w[p] = Worth(p)
      BY DEF Priced
    <3> HIDE DEF A, N
    <3>3. IsFiniteSet(A)
      BY <3>2, FS_Subset
    <3>4. sumFinite([p \in A |-> p.notional]) = SumOf(w, A) /\ SumOf(w, A) \in Nat
      BY <3>2, <3>3, NotionalSum
    <3> QED
      BY <3>1, <3>4 DEF A
  <2>4. SumOf(N, K) = G
    <3> DEFINE key == [p \in open |-> p.symbol]
    <3>1. \A p \in open : w[p] \in Int
      BY DEF Worth, Priced
    <3>2. \A p \in open : key[p] \in K
      BY DEF SymbolsOf
    <3>3. \A s \in K : {p \in open : p.symbol = s} = {p \in open : key[p] = s}
      OBVIOUS
    <3>4. IsFiniteSet(open)
      OBVIOUS
    <3> HIDE DEF key, K, N
    <3>5. \A s \in K : N[s] = SumOf(w, {p \in open : key[p] = s})
      BY <2>3, <3>3
    <3>6. SumOf(N, K) = SumOf(w, open)
      BY ONLY <2>2, <3>1, <3>2, <3>4, <3>5, SumParts, SMTT(40)
    <3> QED
      BY <3>6
  <2>5. \A s \in K : share[s] = RoundDiv(1000 * N[s], G)
    OBVIOUS
  <2>6. \A s \in K : sq[s] = share[s] * share[s]
    OBVIOUS
  <2>12. DOMAIN sq = K
    OBVIOUS
  <2> HIDE DEF K, N, share, sq, G, c
  <2>7. (\A s \in K : share[s] \in Nat) /\ 2 * SumOf(share, K) + n >= 2000
    <3>1. G \in Nat \ {0} /\ G = SumOf(N, K)
      BY <1>0, <1>2, <2>4
    <3>2. \A s \in K : N[s] \in Nat
      BY <2>3
    <3> QED
      BY ONLY <2>2, <2>5, <3>1, <3>2, SharesAddUp
  <2>8. (\A s \in K : sq[s] \in Nat) /\ SumOf(sq, K) \in Nat /\ SumOf(share, K) \in Nat
    <3>1. \A s \in K : sq[s] \in Nat
      BY <2>6, <2>7
    <3> QED
      BY <2>2, <2>7, <3>1, SumNat
  <2>9. K # {}
    <3> SUFFICES ASSUME K = {} PROVE FALSE
      OBVIOUS
    <3>1. open = {}
      BY DEF K, SymbolsOf
    <3>2. SumOf(w, open) = 0
      BY <3>1, SumFacts
    <3> QED
      BY <1>2, <3>2 DEF G
  <2>10. n \in Nat \ {0}
    BY <2>2, <2>9, FS_CardinalityType, FS_EmptySet
  <2>11. SumOf(share, K) * SumOf(share, K) <= n * SumOf(sq, K)
    <3>1. \A s \in K : share[s] \in Int
      BY <2>7
    <3> QED
      BY <2>2, <2>6, <2>9, <3>1, SquaresOfSum
  <2>13. SumFunction(sq) = SumOf(sq, K)
    BY <2>2, <2>8, <2>12, SumFunctionIs
  <2>14. r \in Nat /\ r * n >= 10000 - 11 * n
    <3> DEFINE T == SumOf(share, K)
               Q == SumOf(sq, K)
    <3>1. T \in Nat /\ Q \in Nat /\ 2 * T + n >= 2000 /\ T * T <= n * Q
      BY <2>7, <2>8, <2>11
    <3> HIDE DEF T, Q, n
    <3>2. RoundDiv(Q, 100) \in Nat /\ RoundDiv(Q, 100) * n >= 10000 - 11 * n
      BY <2>10, <3>1, ConcentrationBound
    <3> QED
      BY <2>13, <3>2 DEF Q
  <2> HIDE DEF r, n
  <2>15. c = IF 10000 <= r THEN 10000 ELSE r
    BY <2>1, <2>14, LesserOf
  <2>16. c \in Nat /\ c <= 10000 /\ c * n >= 10000 - 11 * n
    BY <2>10, <2>14, <2>15
  <2> QED
    BY <2>16 DEF c, n, K
<1> QED
  BY <1>0, <1>1, <1>2

-----------------------------------------------------------------------------
(* Heat. *)

\* A clamped quotient of any two numbers is a share.
LEMMA ClampAny ==
  ASSUME NEW n \in Int, NEW d \in Int
  PROVE  IsShare(clamp01(n, d))
<1>1. CASE d <= 0
  <2>1. clamp01(n, d) = <<0, 1>>
    BY <1>1 DEF clamp01
  <2> QED
    BY <2>1 DEF IsShare
<1>2. CASE ~(d <= 0)
  BY <1>2, ClampIs
<1> QED
  BY <1>1, <1>2

\* A weighted share earns at most its weight.
LEMMA EarnedIs ==
  ASSUME NEW q, IsShare(q), NEW weight \in Nat
  PROVE  /\ RoundDiv(100 * weight * q[1], q[2]) \in Nat
         /\ RoundDiv(100 * weight * q[1], q[2]) <= 100 * weight
<1> DEFINE m == 100 * weight
           x == q[1]
           y == q[2]
<1>1. x \in Nat /\ y \in Nat \ {0} /\ y - x \in Nat /\ m \in Nat
  BY DEF IsShare
<1> HIDE DEF m, x, y
<1>2. m * x \in Nat /\ m * (y - x) \in Nat /\ m * y \in Nat
  BY <1>1
<1>3. m * (y - x) = m * y - m * x
  BY <1>1
<1>4. m * x <= y * m
  BY <1>1, <1>2, <1>3
<1>5. RoundDiv(m * x, y) \in Nat /\ RoundDiv(m * x, y) <= m
  BY <1>1, <1>2, <1>4, RoundNat
<1> QED
  BY <1>5 DEF m, x, y

\* The heat of a book lies between 0 and 100, whatever its figures.
LEMMA HeatIs ==
  ASSUME NEW facts, facts.capitalPct \in Int, facts.riskUsed \in Int, facts.riskBudget \in Int,
         facts.gross \in Int, facts.net \in Int, concentrationScore(facts) \in Int,
         NEW n, SpreadHolds(concentrationScore(facts), n, facts.gross),
         IsFiniteSet(facts.blocked), IsFiniteSet(facts.stale), IsFiniteSet(facts.directional)
  PROVE  HeatHolds(buildRiskHeat(facts), n, facts.gross)
<1> DEFINE conc == concentrationScore(facts)
           stressed == Cardinality(facts.blocked) + Cardinality(facts.stale)
           q1 == clamp01(facts.capitalPct, 10000)
           q2 == clamp01(facts.riskUsed, facts.riskBudget)
           q3 == clamp01(conc, 10000)
           q4 == clamp01(Distance(facts.net, 0), facts.gross)
           q5 == clamp01(stressed, Cardinality(facts.directional))
           e1 == RoundDiv(100 * 25 * q1[1], q1[2])
           e2 == RoundDiv(100 * 30 * q2[1], q2[2])
           e3 == RoundDiv(100 * 20 * q3[1], q3[2])
           e4 == RoundDiv(100 * 15 * q4[1], q4[2])
           e5 == RoundDiv(100 * 10 * q5[1], q5[2])
           sum == e1 + e2 + e3 + e4 + e5
           heat == buildRiskHeat(facts)
<1>1. heat.score = 10 * RoundDiv(Min({sum, 10000}), 10) /\ heat.concentration = conc
  BY DEF buildRiskHeat
<1>2. stressed \in Int /\ Cardinality(facts.directional) \in Int /\ Distance(facts.net, 0) \in Int
  BY FS_CardinalityType DEF Distance
<1>3. IsShare(q1) /\ IsShare(q2) /\ IsShare(q3) /\ IsShare(q4) /\ IsShare(q5)
  <2>1. 10000 \in Int
    OBVIOUS
  <2> HIDE DEF stressed
  <2> QED
    BY <1>2, <2>1, ClampAny
<1> HIDE DEF q1, q2, q3, q4, q5, heat, conc
<1>4. e1 \in Nat /\ e1 <= 2500
  <2>1. 25 \in Nat
    OBVIOUS
  <2>2. e1 \in Nat /\ e1 <= 100 * 25
    BY ONLY <1>3, <2>1, EarnedIs, Zenon
  <2> QED
    BY <2>2
<1>5. e2 \in Nat /\ e2 <= 3000
  <2>1. 30 \in Nat
    OBVIOUS
  <2>2. e2 \in Nat /\ e2 <= 100 * 30
    BY ONLY <1>3, <2>1, EarnedIs, Zenon
  <2> QED
    BY <2>2
<1>6. e3 \in Nat /\ e3 <= 2000
  <2>1. 20 \in Nat
    OBVIOUS
  <2>2. e3 \in Nat /\ e3 <= 100 * 20
    BY ONLY <1>3, <2>1, EarnedIs, Zenon
  <2> QED
    BY <2>2
<1>7. e4 \in Nat /\ e4 <= 1500
  <2>1. 15 \in Nat
    OBVIOUS
  <2>2. e4 \in Nat /\ e4 <= 100 * 15
    BY ONLY <1>3, <2>1, EarnedIs, Zenon
  <2> QED
    BY <2>2
<1>8. e5 \in Nat /\ e5 <= 1000
  <2>1. 10 \in Nat
    OBVIOUS
  <2>2. e5 \in Nat /\ e5 <= 100 * 10
    BY ONLY <1>3, <2>1, EarnedIs, Zenon
  <2> QED
    BY <2>2
<1> HIDE DEF e1, e2, e3, e4, e5
<1>9. sum \in Nat /\ sum <= 10000
  BY <1>4, <1>5, <1>6, <1>7, <1>8
<1> HIDE DEF sum
<1>10. Min({sum, 10000}) = sum
  BY <1>9, LesserOf
<1>11. RoundDiv(sum, 10) \in Nat /\ RoundDiv(sum, 10) <= 1000
  BY <1>9, RoundNat
<1>12. heat.score \in Nat /\ heat.score <= 10000
  BY <1>1, <1>10, <1>11
<1>13. SpreadHolds(heat.concentration, n, facts.gross)
  BY <1>1 DEF conc
<1>14. HeatHolds(heat, n, facts.gross)
  BY ONLY <1>12, <1>13 DEF HeatHolds
<1> QED
  BY <1>14 DEF heat

-----------------------------------------------------------------------------
(* The book adds up. *)

\* The exposure of one side.
SideOf(positions, side) == {p \in positions : p.direction = side}
ExposureOf(positions, side) == sumFinite([p \in SideOf(positions, side) |-> p.notional])

\* The figures of a book, read off its positions.
LEMMA FiguresAre ==
  ASSUME NEW in
  PROVE  LET f == derivePortfolioFacts(in)
         IN /\ f.gross = ExposureOf(f.open, "LONG") + ExposureOf(f.open, "SHORT")
            /\ f.net = ExposureOf(f.open, "LONG") - ExposureOf(f.open, "SHORT")
            /\ f.equity = IF in.items = {} THEN DefaultEquity ELSE Max({i.decision.equity : i \in in.items})
            /\ f.capitalPct = RoundDiv(10 * f.gross, f.equity)
            /\ f.riskBudget = f.equity * 100
            /\ f.riskRemaining = Max({0, f.riskBudget - f.riskUsed})
            /\ f.directional = {p \in f.positions : p.direction # "FLAT"}
            /\ f.stale = {i \in in.items : i.decision.direction # "FLAT" /\ isStale(i)}
<1> DEFINE f == derivePortfolioFacts(in)
           positions == {toPosition(i, in.kill) : i \in in.items}
           open == {p \in positions : p.state = "OPEN"}
           long == sumFinite([p \in {p \in open : p.direction = "LONG"} |-> p.notional])
           short == sumFinite([p \in {p \in open : p.direction = "SHORT"} |-> p.notional])
           equity == IF in.items = {} THEN DefaultEquity ELSE Max({i.decision.equity : i \in in.items})
           used == sumFinite([p \in open |-> p.maxLoss])
<1>1. f.open = open /\ f.positions = positions
  BY DEF derivePortfolioFacts
<1>2. f.gross = long + short
  BY DEF derivePortfolioFacts
<1>3. f.net = long - short
  BY DEF derivePortfolioFacts
<1>4. f.equity = equity
  BY DEF derivePortfolioFacts
<1>5. f.capitalPct = RoundDiv(10 * (long + short), equity)
  BY DEF derivePortfolioFacts
<1>6. f.riskBudget = equity * 100
  BY DEF derivePortfolioFacts
<1>7. f.riskRemaining = Max({0, equity * 100 - used})
  BY DEF derivePortfolioFacts
<1>8. f.directional = {p \in positions : p.direction # "FLAT"}
  BY DEF derivePortfolioFacts
<1>9. f.stale = {i \in in.items : i.decision.direction # "FLAT" /\ isStale(i)}
  BY DEF derivePortfolioFacts
<1>10. f.riskUsed = used
  BY DEF derivePortfolioFacts
<1> HIDE DEF f, positions
<1>11. long = ExposureOf(f.open, "LONG") /\ short = ExposureOf(f.open, "SHORT")
  BY <1>1 DEF ExposureOf, SideOf
<1> HIDE DEF open, long, short, equity, used
<1> QED
  BY <1>1, <1>2, <1>3, <1>4, <1>5, <1>6, <1>7, <1>8, <1>9, <1>10, <1>11 DEF f, equity

\* The groupings of the exposure section, by their keys.
LEMMA GroupingsAre ==
  ASSUME NEW facts
  PROVE  LET e == buildPortfolioExposure(facts)
         IN /\ e.byState = group([p \in facts.positions |-> p.state])
            /\ e.byConfidence = group([p \in facts.open |-> confidenceBand(p)])
            /\ e.byRisk = group([p \in facts.open |-> riskBand(p)])
            /\ e.bySymbol = group([p \in facts.open |-> p.symbol])
            /\ e.bySide = group([p \in facts.open |-> p.direction])
            /\ e.byRegime = group([p \in facts.open |-> regimeOf(p)])
BY DEF buildPortfolioExposure

\* Every grouping adds up to the open positions.
LEMMA GroupingsAddUp ==
  ASSUME NEW facts, facts.open = OpenOf(facts.positions), IsFiniteSet(facts.positions), Priced(facts.positions),
         NEW w, \A p \in facts.positions : w[p] = Worth(p)
  PROVE  GroupsHold(buildPortfolioExposure(facts), SumOf(w, facts.open))
<1> DEFINE P == facts.positions
           open == facts.open
           of == buildPortfolioExposure(facts)
<1>1. open = OpenOf(P) /\ IsFiniteSet(P) /\ Priced(P) /\ \A p \in P : w[p] = Worth(p)
  OBVIOUS
<1>2. /\ of.byState = group([p \in P |-> p.state])
      /\ of.byConfidence = group([p \in open |-> confidenceBand(p)])
      /\ of.byRisk = group([p \in open |-> riskBand(p)])
      /\ of.bySymbol = group([p \in open |-> p.symbol])
      /\ of.bySide = group([p \in open |-> p.direction])
      /\ of.byRegime = group([p \in open |-> regimeOf(p)])
  BY GroupingsAre
<1> HIDE DEF P, open, of
<1>3. open \in SUBSET P /\ open = OpenOf(open) /\ Priced(open) /\ \A p \in open : w[p] = Worth(p)
  BY <1>1 DEF Priced, OpenOf
<1>4. IsFiniteSet(open)
  BY <1>1, <1>3, FS_Subset
<1>5. TotalOf(of.byState) = SumOf(w, open)
  <2> DEFINE key == [p \in P |-> p.state]
  <2>1. P = DOMAIN key
    OBVIOUS
  <2> HIDE DEF key
  <2>2. TotalOf(group(key)) = SumOf(w, open)
    BY ONLY <1>1, <2>1, GroupTotal
  <2> QED
    BY <1>2, <2>2 DEF key
<1>6. ASSUME NEW key, open = DOMAIN key PROVE TotalOf(group(key)) = SumOf(w, open)
  BY ONLY <1>3, <1>4, <1>6, GroupTotal
<1>7. TotalOf(of.byConfidence) = SumOf(w, open)
  <2> DEFINE key == [p \in open |-> confidenceBand(p)]
  <2>1. open = DOMAIN key
    OBVIOUS
  <2> HIDE DEF key
  <2> QED
    BY <1>2, <1>6, <2>1 DEF key
<1>8. TotalOf(of.byRisk) = SumOf(w, open)
  <2> DEFINE key == [p \in open |-> riskBand(p)]
  <2>1. open = DOMAIN key
    OBVIOUS
  <2> HIDE DEF key
  <2> QED
    BY <1>2, <1>6, <2>1 DEF key
<1>9. TotalOf(of.bySymbol) = SumOf(w, open)
  <2> DEFINE key == [p \in open |-> p.symbol]
  <2>1. open = DOMAIN key
    OBVIOUS
  <2> HIDE DEF key
  <2> QED
    BY <1>2, <1>6, <2>1 DEF key
<1>10. TotalOf(of.bySide) = SumOf(w, open)
  <2> DEFINE key == [p \in open |-> p.direction]
  <2>1. open = DOMAIN key
    OBVIOUS
  <2> HIDE DEF key
  <2> QED
    BY <1>2, <1>6, <2>1 DEF key
<1>11. TotalOf(of.byRegime) = SumOf(w, open)
  <2> DEFINE key == [p \in open |-> regimeOf(p)]
  <2>1. open = DOMAIN key
    OBVIOUS
  <2> HIDE DEF key
  <2> QED
    BY <1>2, <1>6, <2>1 DEF key
<1>12. GroupsHold(of, SumOf(w, open))
  BY ONLY <1>5, <1>7, <1>8, <1>9, <1>10, <1>11 DEF GroupsHold
<1> QED
  BY <1>12 DEF of, open

\* The positions of an answer: priced, in one of the four states, and directional when open.
LEMMA PositionsAre ==
  ASSUME NEW items, NEW log, NEW fraction \in Nat, ItemsOK(items, log, fraction), NEW state, NEW halt \in BOOLEAN,
         NEW p, NEW i \in Planned(items, state, halt), p = toPosition(i, halt)
  PROVE  /\ p.state \in {"OPEN", "WAITING", "BLOCKED", "FLAT"}
         /\ p.state = "OPEN" => p.direction \in {"LONG", "SHORT"}
         /\ Has(p.notional) => p.notional[1] \in Nat
         /\ p.maxLoss = IF Has(p.notional) THEN <<DefaultEquity * fraction>> ELSE Null
         /\ i.decision.equity = DefaultEquity
<1>1. PICK j \in items :
        i = [decision |-> j.decision, dq |-> <<j.dq>>, plan |-> buildTradePlan(PlanInput(j, state, halt))]
  BY PlannedIs
<1>2. DecidedOn(j, log, fraction)
  BY DEF ItemsOK
<1>3. /\ Has(p.notional) => p.notional[1] \in Nat
      /\ p.maxLoss = IF Has(p.notional) THEN <<DefaultEquity * fraction>> ELSE Null
      /\ i.decision.equity = DefaultEquity
  BY <1>1, <1>2, PlannedRisk
<1>4. i.decision.direction \in {"LONG", "SHORT", "FLAT"}
  <2>1. j.decision.direction \in {"LONG", "SHORT", "FLAT"}
    BY <1>2, ActionableIs
  <2> QED
    BY <1>1, <2>1
<1>5. p.direction = i.decision.direction /\ p.state = classify(i, halt)
  BY PositionIs
<1>6. /\ classify(i, halt) \in {"FLAT", "BLOCKED", "OPEN", "WAITING"}
      /\ classify(i, halt) = "OPEN" => i.decision.direction # "FLAT"
  BY ClassifyIs
<1> QED
  BY <1>3, <1>4, <1>5, <1>6

\* A concentration within its bounds is an integer.
LEMMA SpreadIs ==
  ASSUME NEW c, NEW n, NEW gross, SpreadHolds(c, n, gross)
  PROVE  c \in Int
<1>1. c \in Nat /\ c <= 10000
  BY DEF SpreadHolds
<1> QED
  BY <1>1

\* The figures of a book of these plans.
Balanced(facts, planned) ==
  /\ Cardinality(facts.open) + Cardinality(facts.waiting) + Cardinality(facts.blocked) + Cardinality(facts.flat)
       = Cardinality(planned)
  /\ GroupsHold(buildPortfolioExposure(facts), facts.gross)
  /\ HeatHolds(buildRiskHeat(facts), Cardinality(DOMAIN buildPortfolioExposure(facts).bySymbol), facts.gross)
  /\ facts.riskUsed + facts.riskRemaining >= 100 * DefaultEquity

\* The book of an answer, figure by figure.
LEMMA BookFigures ==
  ASSUME NEW items, NEW log, NEW fraction \in Nat, ItemsOK(items, log, fraction),
         NEW state, NEW grant, NEW halt \in BOOLEAN,
         NEW planned, planned = Planned(items, state, halt),
         NEW in, in = BookInput(planned, state, grant, halt),
         NEW facts, facts = derivePortfolioFacts(in)
  PROVE  Balanced(facts, planned)
<1> DEFINE P == facts.positions
           open == facts.open
           w == [p \in P |-> Worth(p)]
<1>1. in.items = planned /\ in.kill = halt
  BY DEF BookInput
<1>2. /\ P = {toPosition(i, in.kill) : i \in in.items}
      /\ open = {p \in P : p.state = "OPEN"}
      /\ facts.waiting = {p \in P : p.state = "WAITING"}
      /\ facts.blocked = {p \in P : p.state = "BLOCKED"}
      /\ facts.flat = {p \in P : p.state = "FLAT"}
  BY BookPositions
<1>3. P = {toPosition(i, halt) : i \in planned}
  BY <1>1, <1>2
<1>4. /\ \A p \in P : p.state \in {"OPEN", "WAITING", "BLOCKED", "FLAT"}
      /\ \A p \in open : p.direction \in {"LONG", "SHORT"}
      /\ \A p \in P : Has(p.notional) => p.notional[1] \in Nat
      /\ \A p \in P : p.maxLoss = IF Has(p.notional) THEN <<DefaultEquity * fraction>> ELSE Null
  <2>1. ASSUME NEW p \in P
        PROVE  /\ p.state \in {"OPEN", "WAITING", "BLOCKED", "FLAT"}
               /\ p.state = "OPEN" => p.direction \in {"LONG", "SHORT"}
               /\ Has(p.notional) => p.notional[1] \in Nat
               /\ p.maxLoss = IF Has(p.notional) THEN <<DefaultEquity * fraction>> ELSE Null
    <3>1. PICK i \in planned : p = toPosition(i, halt)
      BY <1>3
    <3> HIDE DEF P
    <3> QED
      BY <3>1, PositionsAre
  <2> HIDE DEF P
  <2> QED
    BY <1>2, <2>1
<1>5. \A i \in planned : i.decision.equity = DefaultEquity
  BY PositionsAre
<1>6. /\ facts.gross = ExposureOf(open, "LONG") + ExposureOf(open, "SHORT")
      /\ facts.net = ExposureOf(open, "LONG") - ExposureOf(open, "SHORT")
      /\ facts.equity = IF in.items = {} THEN DefaultEquity ELSE Max({i.decision.equity : i \in in.items})
      /\ facts.capitalPct = RoundDiv(10 * facts.gross, facts.equity)
      /\ facts.riskBudget = facts.equity * 100
      /\ facts.riskRemaining = Max({0, facts.riskBudget - facts.riskUsed})
      /\ facts.directional = {p \in P : p.direction # "FLAT"}
      /\ facts.stale = {i \in in.items : i.decision.direction # "FLAT" /\ isStale(i)}
  BY FiguresAre
<1>7. facts.riskUsed = sumFinite([p \in open |-> p.maxLoss])
  BY BookRisk
<1>8. \A p \in P : w[p] = Worth(p)
  OBVIOUS
<1> HIDE DEF P, open, w
<1>9. IsFiniteSet(P) /\ IsFiniteSet(planned) /\ Cardinality(P) = Cardinality(planned)
  <2>1. P = PositionsOf(planned, halt)
    BY <1>3 DEF PositionsOf
  <2>2. ItemsOK(items, log, fraction) /\ planned = Planned(items, state, halt)
    OBVIOUS
  <2>3. Cardinality(planned) = Cardinality(items) /\ Cardinality(P) = Cardinality(items) /\ IsFiniteSet(P) /\ IsFiniteSet(planned)
    BY ONLY <2>1, <2>2, EachCounts
  <2> QED
    BY <2>3
<1>10. open \in SUBSET P /\ Priced(P) /\ Priced(open) /\ \A p \in open : w[p] = Worth(p)
  BY <1>2, <1>4, <1>8 DEF Priced
<1>11. IsFiniteSet(open)
  BY <1>9, <1>10, FS_Subset
<1>12. Cardinality(facts.open) + Cardinality(facts.waiting) + Cardinality(facts.blocked) + Cardinality(facts.flat)
         = Cardinality(planned)
  <2>1. Cardinality({p \in P : p.state = "OPEN"}) + Cardinality({p \in P : p.state = "WAITING"})
         + Cardinality({p \in P : p.state = "BLOCKED"}) + Cardinality({p \in P : p.state = "FLAT"})
           = Cardinality(P)
    BY <1>4, <1>9, StatesAddUp
  <2> QED
    BY <1>2, <1>9, <2>1 DEF open
<1>13. /\ ExposureOf(open, "LONG") \in Nat /\ ExposureOf(open, "SHORT") \in Nat
       /\ facts.gross = SumOf(w, open)
  <2> DEFINE A == SideOf(open, "LONG")
             B == SideOf(open, "SHORT")
  <2>1. open = A \union B /\ A \intersect B = {}
    BY <1>4 DEF SideOf
  <2>2. A \in SUBSET open /\ B \in SUBSET open
    BY DEF SideOf
  <2>3. Priced(A) /\ Priced(B) /\ (\A p \in A : w[p] = Worth(p)) /\ \A p \in B : w[p] = Worth(p)
    BY <1>10, <2>2 DEF Priced
  <2>4. \A p \in open : w[p] \in Int
    BY <1>10 DEF Priced, Worth
  <2> HIDE DEF A, B
  <2>5. IsFiniteSet(A) /\ IsFiniteSet(B)
    BY <1>11, <2>2, FS_Subset
  <2>6. sumFinite([p \in A |-> p.notional]) = SumOf(w, A) /\ SumOf(w, A) \in Nat
    BY <2>3, <2>5, NotionalSum
  <2>7. sumFinite([p \in B |-> p.notional]) = SumOf(w, B) /\ SumOf(w, B) \in Nat
    BY <2>3, <2>5, NotionalSum
  <2>8. SumOf(w, open) = SumOf(w, A) + SumOf(w, B)
    BY ONLY <1>11, <2>1, <2>4, SumOfTwo
  <2>9. ExposureOf(open, "LONG") = SumOf(w, A) /\ ExposureOf(open, "SHORT") = SumOf(w, B)
    BY <2>6, <2>7 DEF ExposureOf, A, B
  <2> QED
    BY <1>6, <2>6, <2>7, <2>8, <2>9
<1>14. GroupsHold(buildPortfolioExposure(facts), facts.gross)
  <2>1. P = facts.positions /\ open = facts.open
    BY DEF P, open
  <2>3. facts.open = OpenOf(facts.positions)
    BY <1>2, <2>1 DEF OpenOf
  <2>4. IsFiniteSet(facts.positions) /\ Priced(facts.positions) /\ \A p \in facts.positions : w[p] = Worth(p)
    BY <1>8, <1>9, <1>10, <2>1
  <2>2. GroupsHold(buildPortfolioExposure(facts), SumOf(w, facts.open))
    BY ONLY <2>3, <2>4, GroupingsAddUp, Zenon
  <2> QED
    BY <1>13, <2>1, <2>2
<1>15. DOMAIN buildPortfolioExposure(facts).bySymbol = SymbolsOf(open)
  <2> DEFINE key == [p \in open |-> p.symbol]
  <2>1. buildPortfolioExposure(facts).bySymbol = group(key)
    BY GroupingsAre DEF open
  <2>2. DOMAIN group(key) = {key[p] : p \in DOMAIN key}
    BY GroupIs
  <2>3. {key[p] : p \in DOMAIN key} = SymbolsOf(open)
    BY DEF SymbolsOf
  <2> QED
    BY <2>1, <2>2, <2>3
<1>16. SpreadHolds(concentrationScore(facts), Cardinality(SymbolsOf(open)), facts.gross)
  <2>1. open = facts.open
    BY DEF open
  <2>2. Priced(open)
    BY <1>10
  <2>3. \A p \in open : w[p] = Worth(p)
    BY <1>10
  <2>4. facts.gross = SumOf(w, open)
    BY <1>13
  <2> QED
    BY ONLY <1>11, <2>1, <2>2, <2>3, <2>4, ConcentrationIs, Zenon
<1>17. facts.equity = DefaultEquity
  <2>1. CASE planned = {}
    BY <1>1, <1>6, <2>1
  <2>2. CASE planned # {}
    <3> DEFINE S == {i.decision.equity : i \in planned}
    <3>1. S = {DefaultEquity}
      BY <1>5, <2>2
    <3>2. Max({DefaultEquity}) = DefaultEquity
      BY MaxIs DEF DefaultEquity
    <3> QED
      BY <1>1, <1>6, <2>2, <3>1, <3>2
  <2> QED
    BY <2>1, <2>2
<1>18. facts.riskUsed \in Nat
  <2> DEFINE c == DefaultEquity * fraction
             T == {p \in open : Has(p.notional)}
  <2>1. c \in Nat
    BY DEF DefaultEquity
  <2>2. \A p \in open : p.maxLoss = IF Has(p.notional) THEN <<c>> ELSE Null
    BY <1>4, <1>10
  <2>3. T \in SUBSET open
    OBVIOUS
  <2> HIDE DEF c
  <2>4. facts.riskUsed = c * Cardinality(T)
    BY <1>7, <1>11, <2>1, <2>2, RiskUsedIs
  <2> HIDE DEF T
  <2>5. Cardinality(T) \in Nat
    BY <1>11, <2>3, FS_Subset, FS_CardinalityType
  <2> QED
    BY <2>1, <2>4, <2>5
<1>19. facts.riskUsed + facts.riskRemaining >= 100 * DefaultEquity
  <2> DEFINE b == facts.riskBudget - facts.riskUsed
  <2>1. facts.riskBudget = 100 * DefaultEquity /\ facts.riskBudget \in Int
    BY <1>6, <1>17 DEF DefaultEquity
  <2>2. b \in Int
    BY <1>18, <2>1
  <2> HIDE DEF b
  <2>3. Max({0, b}) = IF 0 <= b THEN b ELSE 0
    BY <2>2, GreaterOf
  <2>4. facts.riskRemaining = IF 0 <= b THEN b ELSE 0
    BY <1>6, <2>3 DEF b
  <2> QED
    BY <1>18, <2>1, <2>4 DEF b
<1>20. HeatHolds(buildRiskHeat(facts), Cardinality(SymbolsOf(open)), facts.gross)
  <2>1. facts.gross \in Nat /\ facts.net \in Int
    BY <1>6, <1>13
  <2>2. facts.capitalPct \in Int
    <3> DEFINE m == 10 * facts.gross
    <3>1. m \in Int /\ facts.equity \in Nat \ {0}
      BY <1>17, <2>1 DEF DefaultEquity
    <3> HIDE DEF m
    <3>2. RoundDiv(m, facts.equity) \in Int
      BY <3>1, RoundIs
    <3> QED
      BY <1>6, <3>2 DEF m
  <2>3. facts.riskBudget \in Int
    BY <1>6, <1>17 DEF DefaultEquity
  <2>4. facts.blocked \in SUBSET P /\ facts.directional \in SUBSET P /\ facts.stale \in SUBSET planned
    BY <1>1, <1>2, <1>6
  <2>5. IsFiniteSet(facts.blocked) /\ IsFiniteSet(facts.directional) /\ IsFiniteSet(facts.stale)
    BY <1>9, <2>4, FS_Subset
  <2>6. concentrationScore(facts) \in Int
    BY <1>16, SpreadIs
  <2>7. facts.riskUsed \in Int /\ facts.gross \in Int
    BY <1>18, <2>1
  <2> QED
    BY ONLY <1>16, <2>1, <2>2, <2>3, <2>5, <2>6, <2>7, HeatIs
<1>21. HeatHolds(buildRiskHeat(facts), Cardinality(DOMAIN buildPortfolioExposure(facts).bySymbol), facts.gross)
  BY <1>15, <1>20
<1> QED
  BY <1>12, <1>14, <1>19, <1>21 DEF Balanced

\* The board and the book add up.
LEMMA BookHolds == DeskInv => BookAddsUp
<1> SUFFICES ASSUME DeskInv, Answered PROVE BookAddsUp
  BY DEF BookAddsUp
<1>1. AnswerOK(desk, gateLog, RiskFraction) /\ RiskFraction \in Nat
  BY FractionIs DEF DeskInv, DeskWorldOK, Answered
<1>2. PICK halt \in BOOLEAN : \E items, state, grant :
        ItemsOK(items, gateLog, RiskFraction) /\ desk = assemble(items, state, grant, halt)
  BY <1>1 DEF AnswerOK
<1>3. PICK items, state, grant :
        ItemsOK(items, gateLog, RiskFraction) /\ desk = assemble(items, state, grant, halt)
  BY <1>2
<1> HIDE DEF RiskFraction
<1> DEFINE planned == desk.items
           book == desk.book
           board == desk.board
           in == BookInput(planned, state, grant, halt)
           facts == derivePortfolioFacts(in)
           ranked == RankedOf(items)
<1>4. /\ planned = Planned(items, state, halt) /\ board = rankOpportunities(items)
      /\ book = buildPortfolioState(in)
  BY <1>3, AnswerIs
<1>5. /\ book.summary = buildPortfolioSummary(facts)
      /\ book.heat = buildRiskHeat(facts) /\ book.exposure = buildPortfolioExposure(facts)
  BY <1>4, BookIs
<1>6. /\ book.summary.open = Cardinality(facts.open) /\ book.summary.blocked = Cardinality(facts.blocked)
      /\ book.summary.waiting = Cardinality(facts.waiting) /\ book.summary.flat = Cardinality(facts.flat)
      /\ book.summary.exposure = facts.gross /\ book.summary.riskUsed = facts.riskUsed
      /\ book.summary.riskRemaining = facts.riskRemaining
  BY <1>5, SummaryIs
<1>7. ranked = {toRanked(i) : i \in items} /\ ranked = RankedOf(items)
  BY DEF RankedOf
<1>8. in = BookInput(planned, state, grant, halt) /\ facts = derivePortfolioFacts(in)
  OBVIOUS
<1> HIDE DEF planned, book, board, in, facts, ranked
<1>9. IsFiniteSet(ranked) /\ Cardinality(ranked) = Cardinality(items) /\ Cardinality(planned) = Cardinality(items)
  BY ONLY <1>3, <1>4, <1>7, EachCounts
<1>10. BoardCount(board) = Cardinality(planned)
  <2>1. BoardCount(rankOpportunities(items)) = Cardinality(ranked)
    BY <1>7, <1>9, BucketsAddUp DEF BoardCount
  <2> QED
    BY <1>4, <1>9, <2>1
<1>11. Balanced(facts, planned)
  BY ONLY <1>1, <1>3, <1>4, <1>8, BookFigures, Zenon
<1>12. BookCount(book.summary) = Cardinality(planned)
  BY <1>6, <1>11 DEF Balanced, BookCount
<1>13. GroupsHold(book.exposure, book.summary.exposure)
  BY <1>5, <1>6, <1>11 DEF Balanced
<1>17. HeatHolds(book.heat, Cardinality(DOMAIN book.exposure.bySymbol), book.summary.exposure)
  BY <1>5, <1>6, <1>11 DEF Balanced
<1>18. RiskHeld(book.summary)
  BY <1>6, <1>11 DEF Balanced, RiskHeld
<1>16. AddsUp(planned, board, book)
  BY ONLY <1>10, <1>12, <1>13, <1>17, <1>18, Zenon DEF AddsUp
<1> QED
  BY <1>16 DEF BookAddsUp, planned, book, board

\* However the tables change while a request reads them and whichever of its reads fail:
\* an answer denies behind a gate that was closed all the time, its sections agree, board
\* and book add up, the mirror decides what the sealed rule decides, the factors listed
\* make the decision, and the size keeps to the configured risk.
THEOREM DeskIsHonest == DeskSpec => []DeskHonest
<1>1. DeskInv /\ DeskCites => DeskHonest
  BY GatesHold, SectionsHold, BookHolds, MirrorHolds, ExplanationHolds, RiskHolds DEF DeskHonest
<1> QED
  BY <1>1, DeskInvariant, DeskCiting, PTL

-----------------------------------------------------------------------------
(* The control plane.                                                       *)

USE DEF world, tables, memory, order

(***************************************************************************)
(* Types.                                                                  *)
(***************************************************************************)

LEMMA DerivedStateType ==
  ASSUME NEW prev, NEW killEngaged, NEW active, NEW degraded, NEW recovery
  PROVE  deriveRuntimeState(prev, killEngaged, active, degraded, recovery)
           \in RuntimeStates
  BY DEF deriveRuntimeState, RuntimeStates

LEMMA RulesType ==
  ASSUME NEW in
  PROVE  evaluateProtectionRules(in) \in SUBSET Components
  BY DEF evaluateProtectionRules, Components

LEMMA EvidenceType ==
  ASSUME NEW in
  PROVE  permissionEvidence(in) \in BOOLEAN /\ isDegraded(in) \in BOOLEAN
  BY DEF permissionEvidence, isDegraded

LEMMA EvaluationOverType ==
  ASSUME NEW a \in SUBSET Components
  PROVE  EvaluationOver(a) \in Evaluation
  BY DEF EvaluationOver, Evaluation, RuntimeStates

\* The newest OPEN row, and what is left when it is closed.
LEMMA HeadIsRow ==
  ASSUME incidents \in Seq(IncidentRow), HasOpen
  PROVE  Head(incidents) \in IncidentRow /\ Tail(incidents) \in Seq(IncidentRow)
  BY DEF HasOpen

\* The steps of the boot sequence and the end of the process keep the types.
LEMMA TypeBoot == TypeOK /\ (Boot \/ Crash) => TypeOK'
<1> SUFFICES ASSUME TypeOK, Boot \/ Crash PROVE TypeOK'
  OBVIOUS
<1> USE ComponentsAssumption DEF TypeOK
<1>1. CASE BootBooting
  BY <1>1 DEF BootBooting, RuntimeStates, PcValues
<1>2. CASE BootStarting
  BY <1>2 DEF BootStarting, RuntimeStates, PcValues
<1>3. CASE BootArm
  BY <1>3 DEF BootArm, PcValues
<1>4. CASE BootFail
  BY <1>4 DEF BootFail, RuntimeStates, PcValues
<1>5. CASE ProcessGone
  <2>1. ev' \in Evaluation
    BY <1>5, EvaluationOverType DEF ProcessGone, NoEvaluation
  <2>2. lag' \in [Streams -> Lag]
    BY <1>5 DEF ProcessGone, Lag
  <2>3. QED
    BY <1>5, <2>1, <2>2 DEF ProcessGone, RuntimeStates, PcValues
<1>6. QED
  BY <1>1, <1>2, <1>3, <1>4, <1>5 DEF Boot, FatalExit, Crash

\* Every step of an evaluation keeps the types.
LEMMA TypeEvaluate == TypeOK /\ Evaluate => TypeOK'
<1> SUFFICES ASSUME TypeOK, Evaluate PROVE TypeOK'
  OBVIOUS
<1> USE ComponentsAssumption DEF TypeOK
<1>1. CASE Gather
  <2>1. PICK lost \in LostReads :
          LET in == gatherControlInputs(lost)
              active == evaluateProtectionRules(in)
              leaving == /\ lastState \in {"PROTECTED", "RECOVERING"}
                         /\ active = {} /\ ~in.kill
          IN /\ ev' = [first |-> pc = "armed", active |-> active,
                       degraded |-> isDegraded(in),
                       kill |-> IF "kill" \in lost THEN "failed"
                                ELSE IF in.kill THEN "engaged" ELSE "clear",
                       evidence |-> permissionEvidence(in),
                       prev |-> lastState, recovery |-> "null",
                       verified |-> {}, old |-> FALSE]
             /\ pc' = IF ~leaving THEN "clear"
                      ELSE IF lastState = "PROTECTED" THEN "recRecord" ELSE "verify"
    BY <1>1 DEF Gather
  <2> DEFINE in == gatherControlInputs(lost)
  <2>2. /\ evaluateProtectionRules(in) \in SUBSET Components
        /\ isDegraded(in) \in BOOLEAN
        /\ permissionEvidence(in) \in BOOLEAN
    BY RulesType, EvidenceType
  <2> HIDE DEF in
  <2>3. ev' \in Evaluation
    BY <2>1, <2>2 DEF in, Evaluation
  <2>4. pc' \in PcValues
    BY <2>1 DEF PcValues
  <2>5. QED
    BY <1>1, <2>3, <2>4 DEF Gather
<1>2. CASE RecordRecovering
  BY <1>2 DEF RecordRecovering, RuntimeStates, PcValues
<1>3. CASE AuditRecovering
  <2>1. ev' \in Evaluation
    BY <1>3 DEF AuditRecovering, Evaluation, RuntimeStates
  <2>2. QED
    BY <1>3, <2>1 DEF AuditRecovering, RuntimeStates, PcValues
<1>4. CASE VerifyRecovery
  <2>1. recoveryTargets \in SUBSET Components
    BY HeadIsRow DEF recoveryTargets, HasOpen, IncidentRow
  <2>2. PICK lost \in LostReads :
          LET verified == {c \in recoveryTargets : verifyRecovery(c, lost)}
          IN ev' = IF HasOpen /\ ~OpenReadable
                   THEN [ev EXCEPT !.recovery = "false"]
                   ELSE [ev EXCEPT
                           !.recovery = recoveryOutcome(recoveryTargets, verified),
                           !.verified = verified]
    BY <1>4 DEF VerifyRecovery
  <2> DEFINE verified == {c \in recoveryTargets : verifyRecovery(c, lost)}
  <2>3. verified \in SUBSET Components
    BY <2>1
  <2>4. recoveryOutcome(recoveryTargets, verified) \in {"null", "true", "false"}
    BY DEF recoveryOutcome
  <2> HIDE DEF verified
  <2>5. ev' \in Evaluation
    BY <2>2, <2>3, <2>4 DEF verified, Evaluation
  <2>6. QED
    BY <1>4, <2>5 DEF VerifyRecovery, PcValues
<1>5. CASE ResolveProtectionEventsExcept
  BY <1>5 DEF ResolveProtectionEventsExcept, PcValues
<1>6. CASE SyncOpen
  <2>1. incidents' \in Seq(IncidentRow)
    <3>1. [affected |-> ev.active, readable |-> TRUE] \in IncidentRow
      BY DEF IncidentRow, Evaluation
    <3>2. <<[affected |-> ev.active, readable |-> TRUE]>> \in Seq(IncidentRow)
      BY <3>1
    <3>3. <<[affected |-> ev.active, readable |-> TRUE]>> \o incidents
            \in Seq(IncidentRow)
      BY <3>2
    <3>4. QED
      BY <1>6, <3>3 DEF SyncOpen
  <2>2. QED
    BY <1>6, <2>1 DEF SyncOpen, PcValues
<1>7. CASE UpsertProtectionEvent
  BY <1>7 DEF UpsertProtectionEvent, PcValues, AfterSync, Evaluation
<1>8. CASE SyncResolve
  <2>1. incidents' \in Seq(IncidentRow)
    BY <1>8 DEF SyncResolve, OpenReadable, HasOpen
  <2>2. QED
    BY <1>8, <2>1 DEF SyncResolve, PcValues, AfterSync
<1>9. CASE RecordTransition
  BY <1>9, DerivedStateType DEF RecordTransition, EvalNext, PcValues
<1>10. CASE FinishEvaluation
  <2>1. ev' \in Evaluation /\ lastActive' \in SUBSET Components
    BY <1>10, EvaluationOverType DEF FinishEvaluation, Evaluation
  <2>2. lastState' \in RuntimeStates
    BY <1>10, DerivedStateType DEF FinishEvaluation, EvalNext
  <2>3. permission' \in {"null", "ALLOWED", "BLOCKED"} /\ permissionOld' \in BOOLEAN
    BY <1>10 DEF FinishEvaluation, evaluateTradingPermission, Evaluation
  <2>4. QED
    BY <1>10, <2>1, <2>2, <2>3 DEF FinishEvaluation, PcValues
<1>11. CASE EvaluateThrows
  <2>1. ev' \in Evaluation
    BY <1>11, EvaluationOverType DEF EvaluateThrows, Evaluation
  <2>2. QED
    BY <1>11, <2>1 DEF EvaluateThrows, PcValues
<1>12. QED
  BY <1>1, <1>2, <1>3, <1>4, <1>5, <1>6, <1>7, <1>8, <1>9, <1>10, <1>11
     DEF Evaluate

\* Gate, adapter, operators and environment keep the types.
LEMMA TypeOthers == TypeOK /\ (Pipeline \/ Environment) => TypeOK'
<1> SUFFICES ASSUME TypeOK, Pipeline \/ Environment PROVE TypeOK'
  OBVIOUS
<1> USE ComponentsAssumption, EnvironmentAssumption DEF TypeOK
<1>1. CASE GateRead
  BY <1>1 DEF GateRead, PcValues
<1>2. CASE GateDecide
  BY <1>2 DEF GateDecide, PcValues, gateApproves
<1>3. CASE Execute
  BY <1>3 DEF Execute, PcValues
<1>4. CASE RiskHalt
  BY <1>4 DEF RiskHalt, PcValues
<1>5. CASE EndTick \/ TickFails
  <2>1. ev' \in Evaluation
    BY <1>5, EvaluationOverType DEF EndTick, TickFails, NoEvaluation
  <2>2. lag' \in [Streams -> Lag]
    BY <1>5 DEF EndTick, TickFails, Lag
  <2>3. QED
    BY <1>5, <2>1, <2>2 DEF EndTick, TickFails, PcValues
<1>6. CASE EngageKillSwitch \/ ResumeKillSwitch
  BY <1>6 DEF EngageKillSwitch, ResumeKillSwitch
<1>7. CASE HealthChanges
  BY <1>7 DEF HealthChanges, Health
<1>8. CASE StreamAges \/ StreamProduces
  BY <1>8 DEF StreamAges, StreamProduces, Lag
<1>9. CASE PermissionAges
  <2>1. ev' \in Evaluation
    BY <1>9 DEF PermissionAges, Evaluation
  <2>2. QED
    BY <1>9, <2>1 DEF PermissionAges
<1>10. CASE IncidentCorrupted
  <2>1. incidents # <<>> /\ incidents' = [incidents EXCEPT ![1].readable = FALSE]
    BY <1>10 DEF IncidentCorrupted, OpenReadable, HasOpen
  <2> DEFINE row == [incidents[1] EXCEPT !.readable = FALSE]
  <2>2. 1 \in 1 .. Len(incidents)
    BY <2>1
  <2>3. incidents[1] \in IncidentRow
    BY <2>2
  <2>4. row \in IncidentRow
    BY <2>3 DEF IncidentRow
  <2> HIDE DEF row
  <2>5. incidents' = [incidents EXCEPT ![1] = row]
    BY <2>1 DEF row
  <2>6. incidents' \in Seq(IncidentRow)
    BY <2>2, <2>4, <2>5
  <2>7. QED
    BY <1>10, <2>6 DEF IncidentCorrupted
<1>11. CASE Crash
  BY <1>11, TypeBoot DEF TypeOK
<1>12. QED
  BY <1>1, <1>2, <1>3, <1>4, <1>5, <1>6, <1>7, <1>8, <1>9, <1>10, <1>11
     DEF Pipeline, Environment

\* Type correctness: every variable of the control plane keeps its type, the
\* evaluation record and the incident rows included.
THEOREM TypeCorrect == Spec => []TypeOK
<1>1. Init => TypeOK
  <2> SUFFICES ASSUME Init PROVE TypeOK
    OBVIOUS
  <2>1. ev \in Evaluation
    BY EvaluationOverType DEF Init, NoEvaluation
  <2>2. health \in [Infra -> Health] /\ lag \in [Streams -> Lag]
    BY DEF Init, Health, Lag
  <2>3. incidents \in Seq(IncidentRow)
    BY DEF Init
  <2>4. QED
    BY <2>1, <2>2, <2>3 DEF Init, TypeOK, RuntimeStates, PcValues
<1>2. TypeOK /\ [Next]_vars => TypeOK'
  <2> SUFFICES ASSUME TypeOK, [Next]_vars PROVE TypeOK'
    OBVIOUS
  <2>1. CASE UNCHANGED vars
    BY <2>1 DEF vars, TypeOK
  <2>2. QED
    BY <2>1, TypeBoot, TypeEvaluate, TypeOthers DEF Next
<1>3. QED
  BY <1>1, <1>2, PTL DEF Spec

(***************************************************************************)
(* The inductive invariant.  OrderOnlyWhenHealthy and ProtectedHasIncident *)
(* are not inductive: the gate trusts a snapshot an earlier evaluation     *)
(* wrote, and incidents are closed by an evaluation whose locals were      *)
(* computed several awaits before.  Each conjunct says what one local or   *)
(* cached value still guarantees at the await where it is used.            *)
(***************************************************************************)

\* No snapshot exists before the first evaluation of a process.
NoSnapshotAtBoot ==
  pc \in {"down", "boot", "validate", "failed", "armed"} => permission = "null"

\* A permission snapshot only ever outlives the HEALTHY state it was taken in by
\* being replaced: every writer of lastState replaces it or finds it not ALLOWED.
AllowedIsHealthy == permission = "ALLOWED" => lastState = "HEALTHY"

RecoveringFromProtected == pc \in {"recRecord", "recAudit"} => lastState = "PROTECTED"

GateInvariant ==
  /\ pc \in {"gateRead", "approved"} => armed
  /\ pc = "approved" => permission = "ALLOWED" /\ ~gateKill

\* The local prev is the state in memory throughout the evaluation.
PrevIsLast == pc \in EvalSteps => ev.prev = lastState

\* Recovery is verified only from RECOVERING, so PROTECTED is never left directly.
VerifiedFromRecovering ==
  /\ pc = "verify" => ev.prev = "RECOVERING"
  /\ pc \in EvalSteps /\ ev.prev = "PROTECTED" => ev.recovery = "null"

OpenedBeforeCommit ==
  /\ pc \in {"upsert", "record", "audit"}
  /\ EvalNext = "PROTECTED" /\ ev.active # {}
  => HasOpen

VerifiedCoversIncident ==
  pc \in {"clear", "sync"} /\ ev.recovery = "true" /\ HasOpen =>
    Head(incidents).affected \subseteq ev.verified

EventsFollowRules ==
  /\ pc \in {"sync", "upsert", "record", "audit"} => events \subseteq ev.active
  /\ pc \in {"record", "audit"} /\ EvalNext = "PROTECTED" => events = ev.active

IInv ==
  /\ NoSnapshotAtBoot
  /\ AllowedIsHealthy
  /\ RecoveringFromProtected
  /\ GateInvariant
  /\ PrevIsLast
  /\ VerifiedFromRecovering
  /\ OpenedBeforeCommit
  /\ ProtectedHasIncident
  /\ VerifiedCoversIncident
  /\ EventsFollowRules

\* From PROTECTED or RECOVERING, HEALTHY takes a verified recovery.
LEMMA HealthyIsVerified ==
  ASSUME NEW prev \in {"PROTECTED", "RECOVERING"}, NEW killEngaged, NEW active,
         NEW degraded, NEW recovery,
         deriveRuntimeState(prev, killEngaged, active, degraded, recovery) = "HEALTHY"
  PROVE  recovery = "true"
  BY DEF deriveRuntimeState

LEMMA InvBoot == TypeOK /\ IInv /\ (Boot \/ Crash) => IInv'
<1> SUFFICES ASSUME TypeOK, IInv, Boot \/ Crash PROVE IInv'
  OBVIOUS
<1> USE DEF IInv, NoSnapshotAtBoot, AllowedIsHealthy, RecoveringFromProtected,
            GateInvariant, PrevIsLast, VerifiedFromRecovering, OpenedBeforeCommit,
            ProtectedHasIncident, VerifiedCoversIncident, EventsFollowRules,
            EvalSteps
<1>1. CASE BootBooting
  BY <1>1 DEF BootBooting
<1>2. CASE BootStarting
  BY <1>2 DEF BootStarting
<1>3. CASE BootArm
  BY <1>3 DEF BootArm, EvalNext, HasOpen
<1>4. CASE BootFail
  BY <1>4 DEF BootFail
<1>5. CASE ProcessGone
  BY <1>5 DEF ProcessGone
<1>6. QED
  BY <1>1, <1>2, <1>3, <1>4, <1>5 DEF Boot, FatalExit, Crash

\* Every step of an evaluation preserves the invariant.
LEMMA InvEvaluate == TypeOK /\ IInv /\ Evaluate => IInv'
<1> SUFFICES ASSUME TypeOK, IInv, Evaluate PROVE IInv'
  OBVIOUS
<1> USE DEF IInv, NoSnapshotAtBoot, AllowedIsHealthy, RecoveringFromProtected,
            GateInvariant, PrevIsLast, VerifiedFromRecovering, OpenedBeforeCommit,
            ProtectedHasIncident, VerifiedCoversIncident, EventsFollowRules,
            EvalSteps
<1>1. CASE Gather
  <2>1. ev'.prev = lastState /\ ev'.recovery = "null"
    BY <1>1 DEF Gather
  <2>2. /\ pc' \in {"clear", "recRecord", "verify"}
        /\ pc' = "recRecord" => lastState = "PROTECTED"
        /\ pc' = "verify" => lastState = "RECOVERING"
    BY <1>1 DEF Gather
  <2>3. QED
    BY <1>1, <2>1, <2>2 DEF Gather, HasOpen
<1>2. CASE RecordRecovering
  BY <1>2 DEF RecordRecovering, HasOpen
<1>3. CASE AuditRecovering
  <2>1. ev'.prev = "RECOVERING" /\ ev'.recovery = ev.recovery
    BY <1>3 DEF AuditRecovering, TypeOK, Evaluation
  <2>2. QED
    BY <1>3, <2>1 DEF AuditRecovering, HasOpen
<1>4. CASE VerifyRecovery
  <2>1. ev'.prev = "RECOVERING"
    BY <1>4 DEF VerifyRecovery, TypeOK, Evaluation
  <2>2. ev'.recovery = "true" => recoveryTargets \subseteq ev'.verified
    BY <1>4 DEF VerifyRecovery, TypeOK, Evaluation, recoveryOutcome
  <2>3. QED
    BY <1>4, <2>1, <2>2 DEF VerifyRecovery, HasOpen, recoveryTargets
<1>5. CASE ResolveProtectionEventsExcept
  BY <1>5 DEF ResolveProtectionEventsExcept, HasOpen
<1>6. CASE SyncOpen
  <2>1. incidents' # <<>>
    <3>1. CASE OpenReadable
      BY <1>6, <3>1 DEF SyncOpen, OpenReadable, HasOpen
    <3>2. CASE ~OpenReadable
      <4> DEFINE row == [affected |-> ev.active, readable |-> TRUE]
      <4> HIDE DEF row
      <4>1. incidents' = <<row>> \o incidents
        BY <1>6, <3>2 DEF SyncOpen, row
      <4>2. Len(<<row>> \o incidents) = 1 + Len(incidents)
        BY DEF TypeOK
      <4>3. QED
        BY <4>1, <4>2 DEF TypeOK
    <3>3. QED
      BY <3>1, <3>2
  <2>2. QED
    BY <1>6, <2>1 DEF SyncOpen, HasOpen, EvalNext
<1>7. CASE UpsertProtectionEvent
  BY <1>7 DEF UpsertProtectionEvent, AfterSync, HasOpen, EvalNext
<1>8. CASE SyncResolve
  <2>1. lastState = "PROTECTED" => incidents' = incidents
    BY <1>8, HealthyIsVerified DEF SyncResolve, resolvesIncident, EvalNext
  <2>2. EvalNext = "PROTECTED" => ev.active = {}
    BY <1>8 DEF SyncResolve
  <2>3. QED
    BY <1>8, <2>1, <2>2 DEF SyncResolve, AfterSync, HasOpen, EvalNext
<1>9. CASE RecordTransition
  BY <1>9 DEF RecordTransition, HasOpen, EvalNext
<1>10. CASE FinishEvaluation
  <2>1. lastState' = EvalNext /\ lastActive' = ev.active /\ incidents' = incidents
    BY <1>10 DEF FinishEvaluation
  <2>2. permission' = "ALLOWED" => EvalNext = "HEALTHY"
    BY <1>10 DEF FinishEvaluation, evaluateTradingPermission
  <2>3. pc' \in {"idle", "pipeline"} /\ pc = "audit"
    BY <1>10 DEF FinishEvaluation
  <2>4. QED
    BY <2>1, <2>2, <2>3 DEF HasOpen
<1>11. CASE EvaluateThrows
  BY <1>11 DEF EvaluateThrows, HasOpen
<1>12. QED
  BY <1>1, <1>2, <1>3, <1>4, <1>5, <1>6, <1>7, <1>8, <1>9, <1>10, <1>11
     DEF Evaluate

\* Gate, adapter, operators and environment preserve the invariant.
LEMMA InvOthers == TypeOK /\ IInv /\ (Pipeline \/ Environment) => IInv'
<1> SUFFICES ASSUME TypeOK, IInv, Pipeline \/ Environment PROVE IInv'
  OBVIOUS
<1> USE DEF IInv, NoSnapshotAtBoot, AllowedIsHealthy, RecoveringFromProtected,
            GateInvariant, PrevIsLast, VerifiedFromRecovering, OpenedBeforeCommit,
            ProtectedHasIncident, VerifiedCoversIncident, EventsFollowRules,
            EvalSteps
<1>1. CASE GateRead
  BY <1>1 DEF GateRead, HasOpen
<1>2. CASE GateDecide
  BY <1>2 DEF GateDecide, gateApproves, HasOpen
<1>3. CASE Execute \/ RiskHalt
  BY <1>3 DEF Execute, RiskHalt, HasOpen
<1>4. CASE EndTick \/ TickFails
  BY <1>4 DEF EndTick, TickFails, HasOpen
<1>5. CASE EngageKillSwitch \/ ResumeKillSwitch \/ HealthChanges \/ StreamAges
             \/ StreamProduces
  <2>1. UNCHANGED <<incidents, events, pc, memory, order, ev>>
    BY <1>5 DEF EngageKillSwitch, ResumeKillSwitch, HealthChanges, StreamAges,
                StreamProduces
  <2>2. QED
    BY <2>1 DEF HasOpen, EvalNext
<1>6. CASE PermissionAges
  <2>1. /\ ev'.prev = ev.prev /\ ev'.recovery = ev.recovery
        /\ ev'.active = ev.active /\ ev'.verified = ev.verified
        /\ ev'.kill = ev.kill /\ ev'.degraded = ev.degraded
    BY <1>6 DEF PermissionAges, TypeOK, Evaluation
  <2>2. EvalNext' = EvalNext
    BY <2>1 DEF EvalNext
  <2>3. QED
    BY <1>6, <2>1, <2>2 DEF PermissionAges, HasOpen
<1>7. CASE IncidentCorrupted
  <2>1. HasOpen /\ incidents' = [incidents EXCEPT ![1].readable = FALSE]
    BY <1>7 DEF IncidentCorrupted, OpenReadable
  <2>2. Len(incidents') = Len(incidents) /\ Len(incidents) > 0
    BY <2>1 DEF TypeOK, HasOpen
  <2>3. Head(incidents') = [incidents[1] EXCEPT !.readable = FALSE]
    <3>1. 1 \in DOMAIN incidents
      BY <2>2 DEF TypeOK
    <3>2. incidents'[1] = [incidents[1] EXCEPT !.readable = FALSE]
      BY <2>1, <3>1
    <3>3. QED
      BY <2>2, <3>2
  <2>4. Head(incidents').affected = Head(incidents).affected
    BY <2>1, <2>3, HeadIsRow DEF TypeOK, IncidentRow
  <2>5. QED
    BY <1>7, <2>1, <2>2, <2>4 DEF IncidentCorrupted, HasOpen, EvalNext
<1>8. CASE Crash
  BY <1>8, InvBoot
<1>9. QED
  BY <1>1, <1>2, <1>3, <1>4, <1>5, <1>6, <1>7, <1>8 DEF Pipeline, Environment

LEMMA InvNext == TypeOK /\ IInv /\ [Next]_vars => IInv'
<1> SUFFICES ASSUME TypeOK, IInv, [Next]_vars PROVE IInv'
  OBVIOUS
<1>1. CASE UNCHANGED vars
  BY <1>1 DEF vars, IInv, NoSnapshotAtBoot, AllowedIsHealthy,
       RecoveringFromProtected, GateInvariant, PrevIsLast, VerifiedFromRecovering,
       OpenedBeforeCommit, ProtectedHasIncident, VerifiedCoversIncident,
       EventsFollowRules, HasOpen, EvalNext
<1>2. QED
  BY <1>1, InvBoot, InvEvaluate, InvOthers DEF Next

LEMMA InvInit == Init => IInv
  BY DEF Init, IInv, NoSnapshotAtBoot, AllowedIsHealthy,
       RecoveringFromProtected, GateInvariant, PrevIsLast, VerifiedFromRecovering,
       OpenedBeforeCommit, ProtectedHasIncident, VerifiedCoversIncident,
       EventsFollowRules, EvalSteps

THEOREM Invariance == Spec => [](TypeOK /\ IInv)
  BY TypeCorrect, InvInit, InvNext, PTL DEF Spec

(***************************************************************************)
(* The properties the runs check.                                          *)
(***************************************************************************)

\* The gate only lets an order through in a process that is armed, in HEALTHY and
\* not stopped, for any components, failures, crashes and abandoned evaluations.
THEOREM OrderSafety == Spec => []OrderOnlyWhenHealthy
<1>1. IInv => OrderOnlyWhenHealthy
  BY DEF IInv, AllowedIsHealthy, GateInvariant, OrderOnlyWhenHealthy
<1>2. QED
  BY <1>1, Invariance, PTL

\* A protected runtime with an active rule always has an OPEN incident row.
THEOREM IncidentVisible == Spec => []ProtectedHasIncident
<1>1. IInv => ProtectedHasIncident
  BY DEF IInv
<1>2. QED
  BY <1>1, Invariance, PTL

\* An incident row is closed only by an evaluation that verified all it names, or
\* by one that follows an operator stop.
THEOREM ResolutionVerified == Spec => ResolvedOnlyVerified
<1>1. ASSUME TypeOK, IInv, [Next]_vars, Len(incidents') < Len(incidents)
      PROVE  Head(incidents).affected \subseteq ev.verified \/ ev.prev = "STOPPED"
  <2>1. Len(incidents) \in Nat
    BY <1>1 DEF TypeOK
  <2>2. incidents' # incidents
    BY <1>1, <2>1
  <2>3. ~SyncOpen
    <3> SUFFICES ASSUME SyncOpen PROVE FALSE
      OBVIOUS
    <3> DEFINE row == [affected |-> ev.active, readable |-> TRUE]
    <3> HIDE DEF row
    <3>1. incidents' = <<row>> \o incidents
      BY <2>2 DEF SyncOpen, row
    <3>2. Len(<<row>> \o incidents) = 1 + Len(incidents)
      BY <1>1 DEF TypeOK
    <3>3. QED
      BY <1>1, <2>1, <3>1, <3>2
  <2>4. ~IncidentCorrupted
    BY <1>1, <2>1 DEF IncidentCorrupted, TypeOK
  <2>5. SyncResolve
    <3>1. ~(UNCHANGED vars \/ Boot \/ Pipeline)
      BY <2>2 DEF vars, Boot, BootBooting, BootStarting, BootArm, BootFail,
           FatalExit, ProcessGone, Pipeline, GateRead, GateDecide, Execute,
           RiskHalt, EndTick, TickFails
    <3>2. ~Environment
      BY <2>2, <2>4 DEF Environment, EngageKillSwitch, ResumeKillSwitch,
           HealthChanges, StreamAges, StreamProduces, PermissionAges, Crash,
           ProcessGone
    <3>3. Evaluate
      BY <1>1, <3>1, <3>2 DEF Next
    <3>4. QED
      BY <2>2, <2>3, <3>3 DEF Evaluate, Gather, RecordRecovering, AuditRecovering,
           VerifyRecovery, ResolveProtectionEventsExcept, UpsertProtectionEvent,
           RecordTransition, FinishEvaluation, EvaluateThrows
  <2>6. resolvesIncident(ev.prev, EvalNext) /\ HasOpen /\ pc = "sync"
    BY <2>2, <2>5 DEF SyncResolve, OpenReadable
  <2>7. CASE EvalNext = "HEALTHY" /\ ev.prev \in {"RECOVERING", "PROTECTED"}
    <3>1. ev.recovery = "true"
      BY <2>7, HealthyIsVerified DEF EvalNext
    <3>2. QED
      BY <1>1, <2>6, <3>1 DEF IInv, VerifiedCoversIncident
  <2>8. QED
    BY <2>6, <2>7 DEF resolvesIncident
<1>2. TypeOK /\ IInv /\ [Next]_vars =>
        [Len(incidents') < Len(incidents) =>
           \/ Head(incidents).affected \subseteq ev.verified
           \/ ev.prev = "STOPPED"]_vars
  BY <1>1
<1>3. QED
  BY <1>2, Invariance, PTL DEF Spec, ResolvedOnlyVerified

\* The ACTIVE protection events of a completed evaluation are those of its rules.
THEOREM EventsExact == Spec => ProtectionEventsExact
<1>1. TypeOK /\ IInv /\ [Next]_vars =>
        [FinishEvaluation =>
           /\ events \subseteq ev.active
           /\ lastState' = "PROTECTED" => events = ev.active]_vars
  BY DEF IInv, EventsFollowRules, FinishEvaluation
<1>2. QED
  BY <1>1, Invariance, PTL DEF Spec, ProtectionEventsExact

\* No step of an evaluation, a crash or an operator closes an incident unverified or
\* leaves protection events that are not those of the rules found active.
THEOREM RecordsAreExact == Spec => RecordsExact
BY ResolutionVerified, EventsExact, PTL DEF RecordsExact

(***************************************************************************)
(* While the database answers and the process lives.  A lost write leaves  *)
(* the row and memory apart, a restart forgets what it had opened and a    *)
(* lost read of the kill switch counts as disengaged: the properties below *)
(* are about a worker that meets none of the three, whatever its other     *)
(* components, streams and operators do.                                   *)
(***************************************************************************)
ReliableSurroundings ==
  /\ "failing" \notin ProbeResults["database"]
  /\ "kill" \notin FlakyReads
  /\ ~Crashes

\* Every evaluation completes, so what is written by its first steps is true of the
\* state its last step installs.
CompletesInv ==
  /\ DbUp
  /\ ev.kill \in {"clear", "engaged"}
  /\ pc \in {"down", "boot", "validate"} => lastState \in {"BOOTING", "STARTING"}
  /\ pc \notin {"recAudit", "audit"} => dbState = lastState
  /\ pc = "recAudit" => dbState = "RECOVERING"
  /\ pc = "audit" => dbState = EvalNext
  /\ pc = "upsert" => EvalNext = "PROTECTED"
  /\ pc \in {"pipeline", "gateRead", "approved"} /\ lastState = "HEALTHY" => ev.active = {}

\* Outside PROTECTED, RECOVERING and STOPPED nothing readable is open, and only the
\* newest row can be readable at all.
ClosedInv ==
  /\ \A i \in 2 .. Len(incidents) : ~incidents[i].readable
  /\ lastState \notin {"PROTECTED", "RECOVERING", "STOPPED"}
       /\ pc \notin {"upsert", "record", "audit"} => ~OpenReadable
  /\ pc \in {"record", "audit"} /\ EvalNext \in {"HEALTHY", "DEGRADED"} => ~OpenReadable

ReliableInv == CompletesInv /\ ClosedInv

\* What can follow each state, as far as incidents are concerned.
LEMMA NextStates ==
  ASSUME NEW prev, NEW killEngaged, NEW active, NEW degraded, NEW recovery
  PROVE  LET next == deriveRuntimeState(prev, killEngaged, active, degraded, recovery)
         IN /\ next = "HEALTHY" => active = {} /\ ~killEngaged
            /\ next \in {"HEALTHY", "DEGRADED", "PROTECTED", "RECOVERING", "STOPPED"}
            /\ next # "STOPPED" => ~killEngaged
            /\ next = "DEGRADED" => prev \notin {"PROTECTED", "RECOVERING"}
            /\ next = "PROTECTED" /\ active = {} => prev \in {"PROTECTED", "RECOVERING"}
            /\ next = "RECOVERING" => prev \in {"PROTECTED", "RECOVERING"}
  BY DEF deriveRuntimeState

\* Closing the newest row leaves rows that no reader can parse.
LEMMA TailUnreadable ==
  ASSUME incidents \in Seq(IncidentRow), HasOpen,
         \A i \in 2 .. Len(incidents) : ~incidents[i].readable
  PROVE  LET rest == Tail(incidents)
         IN /\ \A i \in 1 .. Len(rest) : ~rest[i].readable
            /\ rest # <<>> => ~Head(rest).readable
  <1>1. Len(incidents) \in Nat \ {0} BY DEF HasOpen
  <1>2. Len(Tail(incidents)) = Len(incidents) - 1 BY <1>1
  <1>3. \A i \in 1 .. Len(incidents) - 1 : Tail(incidents)[i] = incidents[i + 1]
    BY <1>1
  <1>4. \A i \in 1 .. Len(incidents) - 1 : i + 1 \in 2 .. Len(incidents) BY <1>1
  <1>5. \A i \in 1 .. Len(Tail(incidents)) : ~Tail(incidents)[i].readable
    BY <1>2, <1>3, <1>4
  <1>6. Tail(incidents) \in Seq(IncidentRow) BY <1>1
  <1>7. Tail(incidents) # <<>> => 1 \in 1 .. Len(Tail(incidents)) BY <1>6
  <1> QED BY <1>5, <1>6, <1>7

LEMMA ReliableBoot ==
  ASSUME ReliableSurroundings, TypeOK, IInv, ReliableInv, Boot \/ Crash
  PROVE  ReliableInv'
<1> USE DEF ReliableInv, CompletesInv, ClosedInv, DbUp, EvalNext, OpenReadable, HasOpen
<1>1. CASE BootBooting BY <1>1 DEF BootBooting
<1>2. CASE BootStarting BY <1>2 DEF BootStarting
<1>3. CASE BootArm BY <1>3 DEF BootArm
<1>4. CASE BootFail BY <1>4 DEF BootFail
<1>5. QED BY <1>1, <1>2, <1>3, <1>4 DEF Boot, FatalExit, Crash, ReliableSurroundings

LEMMA ReliableEvaluate ==
  ASSUME ReliableSurroundings, TypeOK, IInv, ReliableInv, Evaluate
  PROVE  ReliableInv'
<1> USE DEF ReliableInv, CompletesInv, ClosedInv
<1>0. PrevIsLast /\ VerifiedFromRecovering BY DEF IInv
<1>1. CASE Gather
  <2>1. PICK lost \in LostReads :
          /\ ev'.kill = IF "kill" \in lost THEN "failed"
                        ELSE IF gatherControlInputs(lost).kill THEN "engaged" ELSE "clear"
    BY <1>1 DEF Gather
  <2>2. "kill" \notin lost BY DEF LostReads, ReliableSurroundings
  <2>3. ev'.kill \in {"clear", "engaged"} BY <2>1, <2>2
  <2>4. pc' \in {"clear", "recRecord", "verify"} /\ pc \in {"armed", "idle"} BY <1>1 DEF Gather
  <2> QED BY <1>1, <2>3, <2>4 DEF Gather, DbUp, OpenReadable, HasOpen
<1>2. CASE RecordRecovering
  BY <1>2 DEF RecordRecovering, DbUp, OpenReadable, HasOpen
<1>3. CASE AuditRecovering
  <2>1. ev'.kill = ev.kill /\ ev'.active = ev.active
    BY <1>3 DEF AuditRecovering, TypeOK, Evaluation
  <2>2. dbState = "RECOVERING" BY <1>3 DEF AuditRecovering
  <2> QED BY <1>3, <2>1, <2>2 DEF AuditRecovering, DbUp, OpenReadable, HasOpen
<1>4. CASE VerifyRecovery
  <2>1. ev'.kill = ev.kill /\ ev'.active = ev.active
    BY <1>4 DEF VerifyRecovery, TypeOK, Evaluation
  <2> QED BY <1>4, <2>1 DEF VerifyRecovery, DbUp, OpenReadable, HasOpen
<1>5. CASE ResolveProtectionEventsExcept
  BY <1>5 DEF ResolveProtectionEventsExcept, DbUp, OpenReadable, HasOpen
<1>6. CASE SyncOpen
  <2>1. \A i \in 2 .. Len(incidents') : ~incidents'[i].readable
    <3>1. CASE OpenReadable BY <1>6, <3>1 DEF SyncOpen
    <3>2. CASE ~OpenReadable
      <4> DEFINE row == [affected |-> ev.active, readable |-> TRUE]
      <4> HIDE DEF row
      <4>1. incidents' = <<row>> \o incidents BY <1>6, <3>2 DEF SyncOpen, row
      <4>2. Len(incidents) \in Nat BY DEF TypeOK
      <4>3. Len(incidents') = Len(incidents) + 1 BY <4>1 DEF TypeOK
      <4>4. \A i \in 2 .. Len(incidents') :
              i - 1 \in 1 .. Len(incidents) /\ incidents'[i] = incidents[i - 1]
        BY <4>1, <4>2, <4>3 DEF TypeOK
      <4>5. \A j \in 1 .. Len(incidents) : ~incidents[j].readable
        <5>1. Len(incidents) # 0 => ~incidents[1].readable
          BY <3>2, <4>2 DEF OpenReadable, HasOpen, TypeOK
        <5> QED BY <4>2, <5>1
      <4> QED BY <4>4, <4>5
    <3> QED BY <3>1, <3>2
  <2>2. EvalNext' = EvalNext /\ EvalNext = "PROTECTED" /\ pc' = "upsert" /\ pc = "sync"
    BY <1>6 DEF SyncOpen, EvalNext
  <2> QED BY <1>6, <2>1, <2>2 DEF SyncOpen, DbUp
<1>7. CASE UpsertProtectionEvent
  <2>1. EvalNext' = EvalNext /\ UNCHANGED <<ev, incidents, dbState, lastState, health>>
    BY <1>7 DEF UpsertProtectionEvent, EvalNext
  <2>2. pc = "upsert" /\ pc' \in {"upsert", "record", "audit"}
        /\ (pc' = "audit" => EvalNext = ev.prev)
    BY <1>7 DEF UpsertProtectionEvent, AfterSync
  <2>3. ev.prev = lastState BY <1>0, <2>2 DEF PrevIsLast, EvalSteps
  <2> QED BY <2>1, <2>2, <2>3 DEF DbUp
<1>8. CASE SyncResolve
  <2>1. EvalNext' = EvalNext /\ UNCHANGED <<ev, dbState, lastState, health>>
    BY <1>8 DEF SyncResolve, EvalNext
  <2>2. pc = "sync" /\ pc' \in {"record", "audit"} /\ (pc' = "audit" => EvalNext = ev.prev)
    BY <1>8 DEF SyncResolve, AfterSync
  <2>3. ev.prev = lastState BY <1>0, <2>2 DEF PrevIsLast, EvalSteps
  <2>4. CASE resolvesIncident(ev.prev, EvalNext) /\ OpenReadable
    <3>1. incidents' = Tail(incidents) BY <1>8, <2>4 DEF SyncResolve
    <3>2. incidents \in Seq(IncidentRow) /\ HasOpen BY <2>4 DEF TypeOK, OpenReadable
    <3>3. /\ \A i \in 1 .. Len(incidents') : ~incidents'[i].readable
          /\ incidents' # <<>> => ~Head(incidents').readable
      BY <3>1, <3>2, TailUnreadable
    <3>4. incidents' \in Seq(IncidentRow) BY <3>1, <3>2, HeadIsRow
    <3>5. \A i \in 2 .. Len(incidents') : ~incidents'[i].readable BY <3>3, <3>4
    <3> QED BY <2>1, <2>2, <2>3, <3>3, <3>5 DEF DbUp, OpenReadable, HasOpen
  <2>5. CASE ~(resolvesIncident(ev.prev, EvalNext) /\ OpenReadable)
    <3>1. incidents' = incidents BY <1>8, <2>5 DEF SyncResolve
    <3>2. EvalNext \in {"HEALTHY", "DEGRADED"} => ~OpenReadable
      <4>1. EvalNext = "DEGRADED" => ev.prev \notin {"PROTECTED", "RECOVERING"}
        BY NextStates DEF EvalNext
      <4> QED BY <2>2, <2>3, <2>5, <4>1 DEF resolvesIncident
    <3> QED BY <2>1, <2>2, <2>3, <3>1, <3>2 DEF DbUp, OpenReadable, HasOpen
  <2> QED BY <2>4, <2>5
<1>9. CASE RecordTransition
  <2>1. EvalNext' = EvalNext /\ UNCHANGED <<ev, incidents, lastState, health>>
    BY <1>9 DEF RecordTransition, EvalNext
  <2> QED BY <1>9, <2>1 DEF RecordTransition, DbUp, OpenReadable, HasOpen
<1>10. CASE FinishEvaluation
  <2>1. /\ pc = "audit" /\ pc' \in {"idle", "pipeline"} /\ lastState' = EvalNext
        /\ UNCHANGED <<incidents, dbState, health>>
    BY <1>10 DEF FinishEvaluation
  <2>2. ev'.kill = "clear" /\ ev'.active = ev.active
    BY <1>10 DEF FinishEvaluation, EvaluationOver
  <2>3. /\ EvalNext = "HEALTHY" => ev.active = {}
        /\ EvalNext \in {"HEALTHY", "DEGRADED", "PROTECTED", "RECOVERING", "STOPPED"}
    BY NextStates DEF EvalNext
  <2> QED BY <2>1, <2>2, <2>3 DEF DbUp, OpenReadable, HasOpen
<1>11. CASE EvaluateThrows BY <1>11 DEF EvaluateThrows
<1>12. QED
  BY <1>1, <1>2, <1>3, <1>4, <1>5, <1>6, <1>7, <1>8, <1>9, <1>10, <1>11
     DEF Evaluate

LEMMA ReliableOthers ==
  ASSUME ReliableSurroundings, TypeOK, IInv, ReliableInv, Pipeline \/ Environment
  PROVE  ReliableInv'
<1> USE DEF ReliableInv, CompletesInv, ClosedInv
<1>1. CASE GateRead \/ GateDecide \/ Execute \/ RiskHalt
  <2>1. /\ UNCHANGED <<ev, incidents, dbState, lastState, health>>
        /\ pc \in {"pipeline", "gateRead", "approved"}
        /\ pc' \in {"pipeline", "gateRead", "approved"}
    BY <1>1 DEF GateRead, GateDecide, Execute, RiskHalt
  <2> QED BY <2>1 DEF DbUp, OpenReadable, HasOpen
<1>2. CASE EndTick \/ TickFails
  <2>1. /\ UNCHANGED <<incidents, dbState, lastState, health>>
        /\ pc = "pipeline" /\ pc' = "idle" /\ ev'.kill = "clear"
    BY <1>2 DEF EndTick, TickFails, NoEvaluation, EvaluationOver
  <2> QED BY <2>1 DEF DbUp, OpenReadable, HasOpen
<1>3. CASE EngageKillSwitch \/ ResumeKillSwitch \/ StreamAges \/ StreamProduces
  <2>1. UNCHANGED <<ev, incidents, dbState, lastState, health, pc>>
    BY <1>3 DEF EngageKillSwitch, ResumeKillSwitch, StreamAges, StreamProduces
  <2> QED BY <2>1 DEF DbUp, OpenReadable, HasOpen, EvalNext
<1>4. CASE HealthChanges
  <2>1. UNCHANGED <<ev, incidents, dbState, lastState, pc>> BY <1>4 DEF HealthChanges
  <2>2. DbUp'
    BY <1>4, ComponentsAssumption DEF HealthChanges, DbUp, ReliableSurroundings, TypeOK
  <2> QED BY <2>1, <2>2 DEF OpenReadable, HasOpen, EvalNext
<1>5. CASE PermissionAges
  <2>1. /\ ev'.prev = ev.prev /\ ev'.recovery = ev.recovery
        /\ ev'.active = ev.active /\ ev'.kill = ev.kill /\ ev'.degraded = ev.degraded
    BY <1>5 DEF PermissionAges, TypeOK, Evaluation
  <2>2. UNCHANGED <<incidents, dbState, lastState, pc, health>> BY <1>5 DEF PermissionAges
  <2> QED BY <2>1, <2>2 DEF DbUp, OpenReadable, HasOpen, EvalNext
<1>6. CASE IncidentCorrupted
  <2>1. HasOpen /\ incidents' = [incidents EXCEPT ![1].readable = FALSE]
    BY <1>6 DEF IncidentCorrupted, OpenReadable
  <2>2. Len(incidents) \in Nat \ {0} /\ DOMAIN incidents = 1 .. Len(incidents)
    BY <2>1 DEF TypeOK, HasOpen
  <2>3. Len(incidents') = Len(incidents) /\ incidents'[1].readable = FALSE
        /\ \A i \in 2 .. Len(incidents) : incidents'[i] = incidents[i]
    <3>1. incidents[1] \in IncidentRow BY <2>2 DEF TypeOK
    <3>2. [incidents[1] EXCEPT !.readable = FALSE].readable = FALSE
      BY <3>1 DEF IncidentRow
    <3> QED BY <2>1, <2>2, <3>2 DEF TypeOK
  <2>4. ~OpenReadable' BY <2>2, <2>3 DEF OpenReadable, HasOpen
  <2>5. UNCHANGED <<ev, dbState, lastState, pc, health>> BY <1>6 DEF IncidentCorrupted
  <2> QED BY <2>2, <2>3, <2>4, <2>5 DEF DbUp, EvalNext
<1>7. CASE Crash BY <1>7, ReliableBoot
<1>8. QED
  BY <1>1, <1>2, <1>3, <1>4, <1>5, <1>6, <1>7 DEF Pipeline, Environment

LEMMA ReliableNext ==
  ASSUME ReliableSurroundings, TypeOK, IInv, ReliableInv, [Next]_vars
  PROVE  ReliableInv'
<1>1. CASE UNCHANGED vars
  BY <1>1 DEF vars, ReliableInv, CompletesInv, ClosedInv, DbUp, OpenReadable, HasOpen, EvalNext
<1>2. QED BY <1>1, ReliableBoot, ReliableEvaluate, ReliableOthers DEF Next

LEMMA ReliableInit == Init => ReliableInv
  BY ComponentsAssumption DEF Init, ReliableInv, CompletesInv, ClosedInv, DbUp, OpenReadable,
     HasOpen, NoEvaluation, EvaluationOver

\* While the database answers and the worker lives, the verdict of an evaluation is
\* enforced and followed up: no order passes in a tick that found an active rule, and a
\* worker at rest in HEALTHY has closed what was open.
THEOREM VerdictIsEnforced ==
  ASSUME ReliableSurroundings
  PROVE  Spec => []VerdictEnforced
<1>1. TypeOK /\ IInv /\ ReliableInv /\ [Next]_vars => ReliableInv'
  BY ReliableNext
<1>2. TypeOK /\ IInv /\ ReliableInv => VerdictEnforced
  BY DEF IInv, GateInvariant, AllowedIsHealthy, ReliableInv, CompletesInv, ClosedInv,
     VerdictEnforced, ActiveRuleBlocksOrders, HealthyClosesIncident
<1>3. QED BY <1>1, <1>2, ReliableInit, Invariance, PTL DEF Spec

\* What a completed evaluation installs and a running worker leaves.
LEMMA StateStep ==
  ASSUME ReliableSurroundings, TypeOK, IInv, ReliableInv, [Next]_vars
  PROVE  /\ FinishEvaluation => dbState' = lastState'
         /\ lastState = "STOPPED" /\ lastState' \notin {"STOPPED", "BOOTING"} =>
              ev.kill = "clear"
<1> USE DEF ReliableInv, CompletesInv
<1>1. FinishEvaluation => dbState' = lastState'
  BY DEF FinishEvaluation
<1>2. ASSUME lastState = "STOPPED", lastState' \notin {"STOPPED", "BOOTING"}
      PROVE  ev.kill = "clear"
  <2>1. FinishEvaluation
    <3>1. ~(UNCHANGED vars \/ Pipeline)
      BY <1>2 DEF vars, Pipeline, GateRead, GateDecide, Execute, RiskHalt, EndTick, TickFails
    <3>2. ~Environment
      BY <1>2 DEF Environment, EngageKillSwitch, ResumeKillSwitch, HealthChanges, StreamAges,
         StreamProduces, PermissionAges, IncidentCorrupted, Crash, ProcessGone
    <3>3. ~Boot
      BY <1>2 DEF Boot, BootBooting, BootStarting, BootArm, BootFail, FatalExit, ProcessGone
    <3>4. ~AuditRecovering BY <1>2 DEF AuditRecovering, IInv, RecoveringFromProtected
    <3> QED
      BY <1>2, <3>1, <3>2, <3>3, <3>4 DEF Next, Evaluate, Gather, RecordRecovering,
         VerifyRecovery, ResolveProtectionEventsExcept, SyncOpen, UpsertProtectionEvent,
         SyncResolve, RecordTransition, EvaluateThrows
  <2>2. EvalNext # "STOPPED" BY <1>2, <2>1 DEF FinishEvaluation
  <2>3. ev.kill # "engaged" BY <2>2 DEF EvalNext, deriveRuntimeState
  <2> QED BY <2>3
<1>3. QED BY <1>1, <1>2

\* While the database answers and the worker lives, the newest persisted transition is the
\* state being enforced, and STOPPED is left only after the switch was read as disengaged.
THEOREM StateIsHeld ==
  ASSUME ReliableSurroundings
  PROVE  Spec => StateHolds
<1>1. TypeOK /\ IInv /\ ReliableInv /\ [Next]_vars => ReliableInv'
  BY ReliableNext
<1>2. TypeOK /\ IInv /\ ReliableInv /\ [Next]_vars =>
        [FinishEvaluation => dbState' = lastState']_vars
  BY StateStep
<1>3. TypeOK /\ IInv /\ ReliableInv /\ [Next]_vars =>
        [lastState = "STOPPED" /\ lastState' \notin {"STOPPED", "BOOTING"} =>
           ev.kill = "clear"]_vars
  BY StateStep
<1>4. QED
  BY <1>1, <1>2, <1>3, ReliableInit, Invariance, PTL
     DEF Spec, StateHolds, PersistedStateMatches, StoppedIsSticky

=============================================================================
