----------------------------- MODULE RiskEngine -----------------------------
(***************************************************************************)
(* RiskEngine (services/workers/src/risk/engine.ts) on its durable journal,*)
(* through crashes and restarts.  Each operation (evaluate, halt, reset)   *)
(* is the list of records it still has to append; every append is one      *)
(* step, and can be rejected or cut short by a crash.                      *)
(*                                                                         *)
(* The engine is called for one proposal at a time.  The book and the      *)
(* equity belong to the market adapter; positions are marked at their last *)
(* fill, so both only move with a fill, and at a restart: the adapter's    *)
(* own journal is optional, and without it the account opens afresh.       *)
(***************************************************************************)
EXTENDS RiskGate, JournalFile

CONSTANTS
  Equities,       \* account equities
  InitialCash,    \* the equity of a fresh account
  Proposals,      \* the portfolio's proposals with the quote for their symbol
  HealthFaults,   \* external health signals that may be raised
  FailedParts,    \* what a rejected append may leave in the file
  TornParts,      \* what a crash may leave of the append it interrupts
  MaxLines        \* bound on the length of a journal

ASSUME RiskAssumption ==
  /\ Equities \subseteq Nat /\ InitialCash \in Equities
  /\ Proposals \subseteq [symbol : Symbols, notional : Nat, price : Nat \ {0}]
  /\ \A e \in Equities : e % Cent = 0
  /\ \A p \in Proposals : p.notional % Cent = 0
  /\ HealthFaults \subseteq {HealthTriggers[i] : i \in DOMAIN HealthTriggers}
  /\ FailedParts \subseteq Parts \ {"line"}
  /\ TornParts \subseteq Parts
  /\ MaxLines \in Nat

VARIABLES
  file,      \* the risk journal
  store,     \* where the engine appends: "file", or "memory" after a bad recovery
  nextSeq,   \* the store's cached sequence number
  state,     \* RiskControlState, the engine's live fold
  op,        \* the running operation
  todo,      \* the records it still has to append
  order,     \* the order being evaluated or approved
  approved,  \* evaluate() approved it and the adapter has not acted yet
  book, equity,
  halted     \* history: a halt was engaged and not reset; see Halts

vars == <<file, store, nextSeq, state, op, todo, order, approved, book, equity,
          halted>>
market == <<book, equity>>

Ops == {"down", "idle", "pass", "reject", "halt", "reset"}

\* No halt, a halt whose journaling failed, the same in an earlier process, a halt
\* that halt() completed.
Halts == {"no", "memory", "lost", "durable"}

NoCapital == -1

-----------------------------------------------------------------------------
initialRiskControlState ==
  [halted |-> FALSE, trigger |-> "none", baseline |-> NoCapital,
   peak |-> NoCapital, passed |-> 0, failed |-> 0]

engages(r) == r.type \in {"KILL_SWITCH_TRIGGERED", "TRADING_HALTED"}

\* Mutant: the cause of a halt is taken from the record's type.
applyRiskRecord_TypeAsCause(s, r) ==
  [halted |-> IF r.type = "TRADING_RESUMED" THEN FALSE ELSE s.halted \/ engages(r),
   trigger |-> IF r.type = "TRADING_RESUMED" THEN "none"
               ELSE IF ~s.halted /\ engages(r) THEN r.type ELSE s.trigger,
   baseline |-> IF s.baseline = NoCapital THEN r.capital ELSE s.baseline,
   peak |-> IF r.capital > s.peak THEN r.capital ELSE s.peak,
   passed |-> IF r.type = "RISK_CHECK_PASSED" THEN s.passed + 1 ELSE s.passed,
   failed |-> IF r.type = "RISK_CHECK_FAILED" THEN s.failed + 1 ELSE s.failed]

\* The first engaging record fixes the cause; baseline is the first equity seen,
\* peak the highest.
applyRiskRecord(s, r) ==
  [halted |-> IF r.type = "TRADING_RESUMED" THEN FALSE ELSE s.halted \/ engages(r),
   trigger |-> IF r.type = "TRADING_RESUMED" THEN "none"
               ELSE IF ~s.halted /\ engages(r) THEN r.trigger ELSE s.trigger,
   baseline |-> IF s.baseline = NoCapital THEN r.capital ELSE s.baseline,
   peak |-> IF r.capital > s.peak THEN r.capital ELSE s.peak,
   passed |-> IF r.type = "RISK_CHECK_PASSED" THEN s.passed + 1 ELSE s.passed,
   failed |-> IF r.type = "RISK_CHECK_FAILED" THEN s.failed + 1 ELSE s.failed]

\* The fold of applyRiskRecord over the records.
reconstructRiskState(records) ==
  LET fold[n \in 0 .. Len(records)] ==
        IF n = 0 THEN initialRiskControlState
        ELSE applyRiskRecord(fold[n - 1], records[n])
  IN fold[Len(records)]

-----------------------------------------------------------------------------
Input(type, trigger, capital) ==
  [type |-> type, trigger |-> trigger, capital |-> capital]

\* Mutant: a trigger is journaled by its KILL_SWITCH_TRIGGERED record alone.
haltRecords_KillSwitchOnly(trigger, capital) ==
  <<Input("KILL_SWITCH_TRIGGERED", trigger, capital)>>

\* halt(): the breach, the kill switch, the halt.  No caller halts without a
\* trigger.
haltRecords(trigger, capital) ==
  (CASE trigger = "DRAWDOWN_BREACH" ->
          <<Input("DRAWDOWN_LIMIT_BREACHED", "none", capital)>>
     [] trigger = "LEVERAGE_BREACH" ->
          <<Input("LEVERAGE_LIMIT_BREACHED", "none", capital)>>
     [] OTHER -> <<>>)
  \o <<Input("KILL_SWITCH_TRIGGERED", trigger, capital),
       Input("TRADING_HALTED", trigger, capital)>>

rejectRecords(reason, capital) ==
  <<Input("RISK_CHECK_FAILED", "none", capital)>>
  \o (IF breachEvent(reason) = "RISK_CHECK_FAILED" THEN <<>>
      ELSE <<Input(breachEvent(reason), "none", capital)>>)

NoOrder == [symbol |-> "none", qty |-> 0, notional |-> 0, price |-> 0]

Init ==
  /\ file = <<>>
  /\ store = "file"
  /\ nextSeq = 0
  /\ state = initialRiskControlState
  /\ op = "down"
  /\ todo = <<>>
  /\ order = NoOrder
  /\ approved = FALSE
  /\ book = [s \in Symbols |-> 0]
  /\ equity \in Equities
  /\ halted = "no"

-----------------------------------------------------------------------------
\* Mutant: the session baseline starts afresh with every process.
Recover_FreshBaseline ==
  /\ op = "down" /\ readAllSucceeds(file)
  /\ store' = "file"
  /\ nextSeq' = Len(readAll(file))
  /\ state' = [reconstructRiskState(readAll(file)) EXCEPT !.baseline = NoCapital]
  /\ op' = "idle"
  /\ UNCHANGED <<file, todo, order, approved, market, halted>>

\* buildRiskGate: recover the state from the journal.
Recover ==
  /\ op = "down" /\ readAllSucceeds(file)
  /\ store' = "file"
  /\ nextSeq' = Len(readAll(file))
  /\ state' = reconstructRiskState(readAll(file))
  /\ op' = "idle"
  /\ UNCHANGED <<file, todo, order, approved, market, halted>>

\* A journal that cannot be read starts the engine HALTED on a memory store.
RecoverHalted ==
  /\ op = "down" /\ ~readAllSucceeds(file)
  /\ store' = "memory"
  /\ nextSeq' = 0
  /\ state' = [initialRiskControlState EXCEPT
                 !.halted = TRUE, !.trigger = "JOURNAL_INTEGRITY_FAILURE"]
  /\ op' = "idle"
  /\ UNCHANGED <<file, todo, order, approved, market, halted>>

\* evaluate(), called by the gate hook with the sized proposal: a trigger trips, or
\* the pre-trade checks decide.  A halted engine, or a missing quote, blocks the
\* proposal and changes nothing.
Evaluate(proposal, failures) ==
  LET o        == sizePosition(proposal)
      capital  == buildCapitalSnapshot(book, equity)
      baseline == IF state.baseline = NoCapital THEN equity ELSE state.baseline
      peak     == IF equity > state.peak THEN equity ELSE state.peak
      trip     == evaluateTriggers(capital, equity - baseline, peak, failures)
      verdict  == evaluatePreTrade(o, projectOrder(book, capital, o), capital,
                                   equity - baseline)
  IN /\ op = "idle" /\ ~approved /\ ~state.halted
     /\ order' = o
     /\ IF trip # "none"
        THEN op' = "halt" /\ todo' = haltRecords(trip, equity)
        ELSE IF verdict = "PASSED"
        THEN op' = "pass" /\ todo' = <<Input("RISK_CHECK_PASSED", "none", equity)>>
        ELSE op' = "reject" /\ todo' = rejectRecords(verdict, equity)
     /\ UNCHANGED <<file, store, nextSeq, state, approved, market, halted>>

\* An operator calls reset().
Reset ==
  /\ op = "idle" /\ ~approved
  /\ op' = "reset"
  /\ todo' = <<Input("TRADING_RESUMED", "none", NoCapital)>>
  /\ UNCHANGED <<file, store, nextSeq, state, order, approved, market, halted>>

NextRecord ==
  [seq |-> nextSeq, type |-> Head(todo).type, trigger |-> Head(todo).trigger,
   capital |-> Head(todo).capital]

\* The bound on the journal, in the file or in memory.
RoomInJournal == nextSeq < MaxLines /\ (store = "file" => Len(file) < MaxLines)

\* appendAndFold: the record is written, then folded into the live state.
AppendAndFold ==
  /\ todo # <<>> /\ RoomInJournal
  /\ file' = IF store = "file" THEN appendFile(file, NextRecord, "line") ELSE file
  /\ nextSeq' = nextSeq + 1
  /\ state' = applyRiskRecord(state, NextRecord)
  /\ todo' = Tail(todo)
  /\ IF Len(todo) = 1
     THEN /\ op' = "idle"
          /\ approved' = (op = "pass")
          /\ order' = IF op = "pass" THEN order ELSE NoOrder
          /\ halted' = CASE op = "halt"  -> "durable"
                         [] op = "reset" -> "no"
                         [] OTHER        -> halted
     ELSE UNCHANGED <<op, order, approved, halted>>
  /\ UNCHANGED <<store, market>>

\* The operator's resume reached the file, though its append did not return.
ResumeWritten == op = "reset" /\ file' # file

\* A failed halt() still halts in memory.
stateAfterFailure ==
  IF op = "halt"
  THEN [state EXCEPT !.halted = TRUE,
                     !.trigger = todo[Len(todo)].trigger]
  ELSE state

\* Mutant: a PASS is approved although its record was not written.
AppendRejected_Approves ==
  /\ todo # <<>> /\ store = "file" /\ RoomInJournal
  /\ \E part \in FailedParts : file' = appendFile(file, NextRecord, part)
  /\ state' = stateAfterFailure
  /\ op' = "idle"
  /\ todo' = <<>>
  /\ order' = order
  /\ approved' = (op = "pass")
  /\ UNCHANGED <<store, nextSeq, market, halted>>

\* appendFile rejects: a pass blocks, a rejection blocks anyway, a halt stays in
\* memory and is rethrown (the stage blocks), a reset is lost.
AppendRejected ==
  /\ todo # <<>> /\ store = "file" /\ RoomInJournal
  /\ \E part \in FailedParts : file' = appendFile(file, NextRecord, part)
  /\ state' = stateAfterFailure
  /\ op' = "idle"
  /\ todo' = <<>>
  /\ order' = NoOrder
  /\ halted' = IF op = "halt" /\ halted # "durable" THEN "memory"
               ELSE IF ResumeWritten THEN "no" ELSE halted
  /\ UNCHANGED <<store, nextSeq, approved, market>>

\* The approved order is filled: the position becomes its quantity at its price,
\* which rounding keeps off the target notional.  Or the adapter rejects it.
Fill ==
  /\ approved
  /\ book' = [book EXCEPT ![order.symbol] = order.qty * order.price]
  /\ equity' \in Equities
  /\ order' = NoOrder
  /\ approved' = FALSE
  /\ UNCHANGED <<file, store, nextSeq, state, op, todo, halted>>

NotFilled ==
  /\ approved
  /\ order' = NoOrder
  /\ approved' = FALSE
  /\ UNCHANGED <<file, store, nextSeq, state, op, todo, market, halted>>

\* The account of an adapter without a journal after a restart.
OpenAccount == book' = [s \in Symbols |-> 0] /\ equity' = InitialCash

\* The process dies, possibly in the middle of an append.  The account is recovered
\* from the adapter's journal, or starts afresh.
Crash ==
  /\ op # "down"
  /\ \/ UNCHANGED file
     \/ /\ todo # <<>> /\ store = "file" /\ RoomInJournal
        /\ \E part \in TornParts : file' = appendFile(file, NextRecord, part)
  /\ state' = initialRiskControlState
  /\ nextSeq' = 0
  /\ op' = "down"
  /\ todo' = <<>>
  /\ order' = NoOrder
  /\ approved' = FALSE
  /\ halted' = IF ResumeWritten THEN "no"
               ELSE IF halted = "memory" THEN "lost" ELSE halted
  /\ UNCHANGED market \/ OpenAccount
  /\ UNCHANGED store

Next ==
  \/ Recover \/ RecoverHalted
  \/ \E p \in Proposals : \E failures \in SUBSET HealthFaults : Evaluate(p, failures)
  \/ Reset
  \/ AppendAndFold \/ AppendRejected
  \/ Fill \/ NotFilled
  \/ Crash

Spec == Init /\ [][Next]_vars

-----------------------------------------------------------------------------
EventTypes == {"RISK_CHECK_PASSED", "RISK_CHECK_FAILED", "POSITION_LIMIT_BREACHED",
               "LEVERAGE_LIMIT_BREACHED", "DRAWDOWN_LIMIT_BREACHED",
               "KILL_SWITCH_TRIGGERED", "TRADING_HALTED", "TRADING_RESUMED"}
Causes   == Triggers \cup {"none"}
Capitals == Equities \cup {NoCapital}

InputRecord  == [type : EventTypes, trigger : Causes, capital : Capitals]
RiskRecord   == [seq : Nat, type : EventTypes, trigger : Causes, capital : Capitals]
ControlState == [halted : BOOLEAN, trigger : Causes, baseline : Capitals,
                 peak : Capitals, passed : Nat, failed : Nat]

TypeOK ==
  /\ file \in Seq([parsed : Seq(RiskRecord), nl : BOOLEAN])
  /\ store \in {"file", "memory"}
  /\ nextSeq \in Nat
  /\ state \in ControlState
  /\ op \in Ops
  /\ todo \in Seq(InputRecord)
  /\ order \in {sizePosition(p) : p \in Proposals} \cup {NoOrder}
  /\ approved \in BOOLEAN
  /\ book \in [Symbols -> Nat]
  /\ equity \in Equities
  /\ halted \in Halts

Running == op # "down"

\* No append was torn: every line of the journal is one record and its newline.
NothingTorn == \A k \in DOMAIN file : file[k].nl /\ Len(file[k].parsed) = 1

\* A halt engaged in this process holds even when it could not be journaled, and a
\* halt that halt() completed keeps every later process halted until a reset,
\* whatever appends were torn before or after it: the journal still holds one of
\* its records or is no longer readable, and then the engine starts halted.
HaltSurvives == Running /\ halted \in {"memory", "durable"} => state.halted

\* No order is approved while a halt that was engaged has not been reset, in whatever
\* process ("a halt survives a restart and is cleared only by an explicit reset ...
\* NO automatic recovery").
ApprovedAfterReset == approved => halted = "no"

\* Between operations the state a restart would recover is the live state
\* ("recoveredRiskState == riskStateBeforeShutdown"), but for a halt that could not
\* be journaled, as long as no append was torn.
RecoveredIsLive ==
  op = "idle" /\ store = "file" /\ NothingTorn =>
    /\ readAllSucceeds(file)
    /\ \/ state = reconstructRiskState(readAll(file))
       \/ halted = "memory" /\ state.halted

\* Every approved order has its PASS in the journal a restart would read ("A PASS
\* must be durably recorded BEFORE we approve"), as long as no append was torn.
ApprovedIsDurable ==
  approved /\ store = "file" /\ NothingTorn =>
    /\ readAllSucceeds(file)
    /\ nextSeq > 0 /\ Len(readAll(file)) = nextSeq
    /\ readAll(file)[nextSeq].type = "RISK_CHECK_PASSED"

\* The book after an approved order, computed from scratch and not rounded, respects
\* every limit up to what the gate's rounding can hide: less than a cent of gross
\* exposure, less than a cent of margin (one half each for the margin in use and the
\* one required), half a step of concentration.  Position limits are exact.
ApprovedWithinLimits ==
  approved =>
    LET after == grossExposure([book EXCEPT ![order.symbol] = order.notional])
    IN /\ equity > 0
       /\ after < Limits.maxLeverage * equity + Cent
       /\ after < Leverage * (equity + Cent)
       /\ (2 * order.notional * Ratio - equity) * Limits.allocationOf
            < 2 * Limits.allocation * Ratio * equity
       /\ order.notional <= Limits.maxPositionNotional
       /\ order.qty <= Limits.maxPositionSize

\* The journal is the truth of the engine: what a restart reads from it is the live
\* state, and an order is approved only with its PASS in it.
JournalIsTruth == TypeOK /\ RecoveredIsLive /\ ApprovedIsDurable

=============================================================================
