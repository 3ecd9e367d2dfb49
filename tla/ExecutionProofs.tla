--------------------------- MODULE ExecutionProofs ---------------------------
(***************************************************************************)
(* Proofs about ExecutionCore and PaperAdapter, for every set of intents,  *)
(* quantities and kinds.  Good is the invariant; one lemma per command     *)
(* shows that an accepted command leads from a good state to a good one,   *)
(* and an adapter call drives the core by one or two commands.  SessionInv *)
(* adds what the session's own state has to do with the execution.         *)
(***************************************************************************)
EXTENDS PaperAdapter, FiniteSetTheorems, SequenceTheorems, NaturalsInduction,
        WellFoundedInduction, TLAPS

\* Until the first fill every order is in step with the execution, so the exits that
\* skip an order that may not move skip none.
InStep(s) ==
  s.status \in {"PLANNED", "READY", "SUBMITTED", "ACKNOWLEDGED"} =>
    \A k \in DOMAIN s.orders : s.orders[k].status = s.status

\* Before it is OPEN an execution has no position.
NoEarlyPosition(s) ==
  s.status \in {"PLANNED", "READY", "SUBMITTED", "ACKNOWLEDGED", "PARTIALLY_FILLED",
                "FILLED"} => s.position.status = "NONE"

\* What is not submittable never gets further than the plan.
Held(s) ==
  ~checkSubmittable(s.intent) =>
    s.status \in {"PLANNED"} \cup (TERMINAL_STATUSES \ {"CLOSED"})

Good(s) ==
  /\ Typed(s) /\ s.status # "NOT_CREATED"
  /\ LegalWalk(s) /\ NoneWorking(s) /\ FromEntry(s) /\ Gated(s)
  /\ InStep(s) /\ NoEarlyPosition(s) /\ Held(s)

-----------------------------------------------------------------------------
\* What a commit leaves of the state, and its type.
LEMMA CommitFields ==
  ASSUME NEW s, Typed(s), NEW type \in EventTypes, NEW to \in ExecutionStatus
  PROVE  LET t == commit(s, type, to)
         IN /\ t \in ExecutionStates(s.intent)
            /\ t.intent = s.intent /\ t.status = to /\ t.orders = s.orders
            /\ t.fills = s.fills /\ t.position = s.position /\ t.failure = s.failure
            /\ t.audit = Append(s.audit, [type |-> type, from |-> s.status, to |-> to])
<1> DEFINE e == [type |-> type, from |-> s.status, to |-> to]
<1>1. s \in ExecutionStates(s.intent)
  BY DEF Typed
<1>2. s.status \in ExecutionStatus /\ s.audit \in Seq(Event)
  BY <1>1 DEF ExecutionStates
<1>3. e \in Event
  BY <1>2 DEF Event
<1>4. Append(s.audit, e) \in Seq(Event)
  BY <1>2, <1>3
<1> HIDE DEF e
<1>5. [s EXCEPT !.status = to, !.audit = Append(s.audit, e)] \in ExecutionStates(s.intent)
  BY <1>1, <1>4 DEF ExecutionStates
<1>6. [s EXCEPT !.status = to, !.audit = Append(s.audit, e)].audit = Append(s.audit, e)
  BY <1>1 DEF ExecutionStates
<1> QED
  BY <1>1, <1>5, <1>6 DEF commit, ExecutionStates, e

\* A legal transition appended to a legal walk gives a legal walk.
LEMMA WalkGrows ==
  ASSUME NEW s, Typed(s), LegalWalk(s),
         NEW type \in EventTypes, NEW to \in ExecutionStatus, canTransition(s.status, to),
         NEW t, t.status = to,
         t.audit = Append(s.audit, [type |-> type, from |-> s.status, to |-> to])
  PROVE  LegalWalk(t)
<1> DEFINE e == [type |-> type, from |-> s.status, to |-> to]
<1>1. s.audit \in Seq(Event) /\ e \in Event
  BY DEF Typed, ExecutionStates, Event
<1>2. /\ t.audit \in Seq(Event) /\ Len(t.audit) = Len(s.audit) + 1
      /\ t.audit[Len(t.audit)] = e
      /\ \A k \in 1 .. Len(s.audit) : t.audit[k] = s.audit[k]
      /\ DOMAIN s.audit = 1 .. Len(s.audit) /\ DOMAIN t.audit = 1 .. Len(t.audit)
      /\ Len(s.audit) \in Nat /\ Len(s.audit) > 0
  BY <1>1 DEF LegalWalk
<1>3. e.from = s.status /\ e.to = to
  OBVIOUS
<1> HIDE DEF e
<1>4. t.audit # <<>> /\ t.audit[1].from = "NOT_CREATED"
  BY <1>2 DEF LegalWalk
<1>5. \A k \in DOMAIN t.audit : canTransition(t.audit[k].from, t.audit[k].to)
  BY <1>2, <1>3 DEF LegalWalk
<1>6. \A k \in 2 .. Len(t.audit) : t.audit[k].from = t.audit[k - 1].to
  BY <1>2, <1>3 DEF LegalWalk
<1> QED
  BY <1>2, <1>3, <1>4, <1>5, <1>6 DEF LegalWalk

-----------------------------------------------------------------------------
\* Orders keep their domain, type and fills while they move.
LEMMA OrdersMove ==
  ASSUME NEW s, Typed(s), NEW to \in OrderStatus
  PROVE  LET o == transitionOrders(s.orders, to)
         IN /\ o \in [OrdersOf(s.intent) -> Order]
            /\ DOMAIN o = DOMAIN s.orders /\ DOMAIN s.orders = OrdersOf(s.intent)
            /\ \A k \in DOMAIN s.orders :
                 /\ o[k].filled = s.orders[k].filled
                 /\ o[k].status = IF to \in ORDER_TRANSITIONS(s.orders[k].status)
                                  THEN to ELSE s.orders[k].status
<1>1. s.orders \in [OrdersOf(s.intent) -> Order]
  BY DEF Typed, ExecutionStates
<1>2. \A o \in Order : /\ transitionOrder(o, to) \in Order
                        /\ transitionOrder(o, to).filled = o.filled
                        /\ transitionOrder(o, to).status =
                             IF to \in ORDER_TRANSITIONS(o.status) THEN to ELSE o.status
  BY DEF transitionOrder, Order
<1> QED
  BY <1>1, <1>2 DEF transitionOrders

LEMMA EntryExists ==
  ASSUME NEW s, Typed(s)
  PROVE  /\ DOMAIN s.orders = OrdersOf(s.intent) /\ Entry \in OrdersOf(s.intent)
         /\ s.status \in ExecutionStatus /\ s.position \in Position
         /\ \A k \in DOMAIN s.orders : s.orders[k] \in Order
<1>1. s.intent.targets \in 0 .. 3
  BY DEF Typed, Intent
<1> QED
  BY <1>1 DEF Typed, ExecutionStates, OrdersOf, Entry

\* An execution that is not over may be cancelled and may fail.
LEMMA LiveMayEnd ==
  ASSUME NEW st \in ExecutionStatus, ~isTerminal(st)
  PROVE  canTransition(st, "CANCELLED") /\ canTransition(st, "FAILED")
  BY DEF ExecutionStatus, isTerminal, canTransition, EXEC_TRANSITIONS, TERMINAL_STATUSES

\* Nothing follows a terminal status.
LEMMA TerminalIsFinal ==
  ASSUME NEW st \in TERMINAL_STATUSES, NEW to
  PROVE  ~canTransition(st, to)
  BY DEF canTransition, EXEC_TRANSITIONS, TERMINAL_STATUSES

ExitStatus == {"CANCELLED", "REJECTED", "EXPIRED", "FAILED"}

LEMMA ExitIsStatus ==
  ASSUME NEW to \in ExitStatus
  PROVE  to \in ExecutionStatus /\ to \in OrderStatus
  BY DEF ExitStatus, ExecutionStatus, TERMINAL_STATUSES, OrderStatus

LEMMA ExitFields ==
  ASSUME NEW s, Typed(s), NEW type \in EventTypes, NEW to \in ExitStatus,
         NEW failure \in Failures
  PROVE  LET t == exit(s, type, to, failure)
         IN /\ t \in ExecutionStates(s.intent)
            /\ t.intent = s.intent /\ t.status = to
            /\ t.orders = transitionOrders(s.orders, to)
            /\ t.position = s.position /\ t.fills = s.fills
            /\ t.audit = Append(s.audit, [type |-> type, from |-> s.status, to |-> to])
<1> DEFINE c == commit(s, type, to)
           o == transitionOrders(s.orders, to)
<1>0. to \in ExecutionStatus /\ to \in OrderStatus
  BY ExitIsStatus
<1>1. /\ c \in ExecutionStates(s.intent) /\ c.intent = s.intent /\ c.status = to
      /\ c.position = s.position /\ c.fills = s.fills
      /\ c.audit = Append(s.audit, [type |-> type, from |-> s.status, to |-> to])
  BY <1>0, CommitFields
<1>2. o \in [OrdersOf(s.intent) -> Order]
  BY <1>0, OrdersMove
<1> HIDE DEF c, o
<1> QED
  BY <1>1, <1>2 DEF exit, ExecutionStates, c, o

\* An exit from a good state is good, whether it leaves the position (then it must
\* have failed, or none may be open) or closes it.
LEMMA GoodExit ==
  ASSUME NEW s, Good(s), NEW type \in EventTypes, NEW to \in ExitStatus,
         canTransition(s.status, to),
         NEW t, t \in ExecutionStates(s.intent), t.intent = s.intent, t.status = to,
         t.orders = transitionOrders(s.orders, to),
         t.audit = Append(s.audit, [type |-> type, from |-> s.status, to |-> to]),
         \/ t.position = closeIfOpen(s.position)
         \/ t.position = s.position /\ to # "CANCELLED"
  PROVE  Good(t)
<1>0. to \in ExecutionStatus /\ to \in OrderStatus
  BY ExitIsStatus
<1>1. Typed(s) /\ LegalWalk(s) /\ FromEntry(s) /\ Gated(s) /\ InStep(s)
      /\ NoEarlyPosition(s) /\ Held(s) /\ s.status # "NOT_CREATED"
  BY DEF Good
<1>2. Typed(t)
  BY <1>1 DEF Typed
<1>3. LegalWalk(t)
  BY <1>0, <1>1, WalkGrows
<1>4. /\ DOMAIN t.orders = DOMAIN s.orders
      /\ \A k \in DOMAIN s.orders :
           /\ t.orders[k].filled = s.orders[k].filled
           /\ t.orders[k].status = IF to \in ORDER_TRANSITIONS(s.orders[k].status)
                                   THEN to ELSE s.orders[k].status
           /\ s.orders[k].status \in OrderStatus
      /\ Entry \in DOMAIN s.orders
      /\ s.position \in Position
  <2>1. \A k \in DOMAIN s.orders : s.orders[k].status \in OrderStatus
    BY <1>1, EntryExists DEF Order
  <2> QED
    BY <2>1, <1>0, <1>1, OrdersMove, EntryExists
<1>5. to \in {"REJECTED", "EXPIRED"} =>
        s.status \in {"PLANNED", "READY", "SUBMITTED", "ACKNOWLEDGED"}
  BY <1>1, EntryExists DEF canTransition, EXEC_TRANSITIONS, ExecutionStatus, TERMINAL_STATUSES
<1>6. NoneWorking(t)
  <2>1. SUFFICES ASSUME NEW k \in DOMAIN s.orders
                 PROVE  t.orders[k].status \notin LiveOrderStatus
    BY <1>4 DEF NoneWorking
  <2>2. CASE to \in {"REJECTED", "EXPIRED"}
    BY <2>2, <1>1, <1>4, <1>5 DEF InStep, LiveOrderStatus, ORDER_TRANSITIONS
  <2>3. CASE to \in {"CANCELLED", "FAILED"}
    BY <2>3, <1>4 DEF OrderStatus, LiveOrderStatus, ORDER_TRANSITIONS
  <2> QED
    BY <2>2, <2>3 DEF ExitStatus
<1>7. FromEntry(t)
  <2>1. CASE t.position = closeIfOpen(s.position)
    BY <2>1, <1>1, <1>4 DEF FromEntry, closeIfOpen, closePosition, isOpen, Position, ExitStatus
  <2>2. CASE t.position = s.position /\ to # "CANCELLED"
    <3>1. isOpen(s.position) => to = "FAILED"
      BY <2>2, <1>1, <1>5 DEF NoEarlyPosition, isOpen, ExitStatus
    <3> QED
      BY <3>1, <2>2, <1>1, <1>4 DEF FromEntry, ExitStatus
  <2> QED
    BY <2>1, <2>2
<1>8. Gated(t)
  <2>1. SUFFICES ASSUME ~(s.intent.tradeable /\ s.intent.stop /\ s.intent.targets > 0)
                 PROVE  /\ t.position.status = "NONE"
                        /\ \A k \in DOMAIN s.orders :
                             t.orders[k].filled = 0 /\ t.orders[k].status # "SUBMITTED"
    BY <1>4 DEF Gated
  <2>2. /\ s.position.status = "NONE"
        /\ \A k \in DOMAIN s.orders :
             s.orders[k].filled = 0 /\ s.orders[k].status # "SUBMITTED"
    BY <2>1, <1>1 DEF Gated
  <2> QED
    BY <2>2, <1>4 DEF closeIfOpen, isOpen, ExitStatus
<1>9. InStep(t) /\ NoEarlyPosition(t) /\ Held(t) /\ t.status # "NOT_CREATED"
  BY DEF InStep, NoEarlyPosition, Held, ExitStatus, TERMINAL_STATUSES
<1> QED
  BY <1>2, <1>3, <1>6, <1>7, <1>8, <1>9 DEF Good

\* exitAndClose also closes the position.
LEMMA ExitAndCloseFields ==
  ASSUME NEW s, Typed(s), NEW type \in EventTypes, NEW failure \in Failures
  PROVE  LET t == exitAndClose(s, type, failure)
         IN /\ t \in ExecutionStates(s.intent)
            /\ t.intent = s.intent /\ t.status = "CANCELLED"
            /\ t.orders = transitionOrders(s.orders, "CANCELLED")
            /\ t.position = closeIfOpen(s.position) /\ t.fills = s.fills
            /\ t.audit = Append(s.audit, [type |-> type, from |-> s.status,
                                          to |-> "CANCELLED"])
<1> DEFINE e == exit(s, type, "CANCELLED", failure)
<1>1. /\ e \in ExecutionStates(s.intent) /\ e.intent = s.intent /\ e.status = "CANCELLED"
      /\ e.orders = transitionOrders(s.orders, "CANCELLED") /\ e.fills = s.fills
      /\ e.audit = Append(s.audit, [type |-> type, from |-> s.status, to |-> "CANCELLED"])
  <2>1. "CANCELLED" \in ExitStatus
    BY DEF ExitStatus
  <2> QED
    BY <2>1, ExitFields
<1>2. closeIfOpen(s.position) \in Position
  BY EntryExists DEF closeIfOpen, closePosition, Position
<1> HIDE DEF e
<1> QED
  BY <1>1, <1>2 DEF exitAndClose, ExecutionStates, e

LEMMA GoodKill ==
  ASSUME NEW s, Good(s), Kill(s).ok
  PROVE  Good(Kill(s).state)
<1> DEFINE t == exitAndClose(s, "KILLED", "KILL_SWITCH")
<1>1. ~isTerminal(s.status) /\ Kill(s).state = t
  BY DEF Kill, Result
<1>2. Typed(s) /\ "KILLED" \in EventTypes /\ "KILL_SWITCH" \in Failures
      /\ "CANCELLED" \in ExitStatus
  BY DEF Good, EventTypes, Failures, ExitStatus
<1>3. canTransition(s.status, "CANCELLED")
  BY <1>1, <1>2, EntryExists, LiveMayEnd
<1>4. /\ t \in ExecutionStates(s.intent) /\ t.intent = s.intent /\ t.status = "CANCELLED"
      /\ t.orders = transitionOrders(s.orders, "CANCELLED")
      /\ t.position = closeIfOpen(s.position)
      /\ t.audit = Append(s.audit, [type |-> "KILLED", from |-> s.status, to |-> "CANCELLED"])
  BY <1>2, ExitAndCloseFields
<1> HIDE DEF t
<1>5. Good(t)
  BY <1>2, <1>3, <1>4, GoodExit
<1> QED
  BY <1>1, <1>5

LEMMA GoodCancel ==
  ASSUME NEW s, Good(s), Cancel(s).ok
  PROVE  Good(Cancel(s).state)
<1> DEFINE t == exitAndClose(s, "CANCELLED", "CANCELLED")
<1>1. canTransition(s.status, "CANCELLED") /\ Cancel(s).state = t
  BY DEF Cancel, Result
<1>2. Typed(s) /\ "CANCELLED" \in EventTypes /\ "CANCELLED" \in Failures
      /\ "CANCELLED" \in ExitStatus
  BY DEF Good, EventTypes, Failures, ExitStatus
<1>3. /\ t \in ExecutionStates(s.intent) /\ t.intent = s.intent /\ t.status = "CANCELLED"
      /\ t.orders = transitionOrders(s.orders, "CANCELLED")
      /\ t.position = closeIfOpen(s.position)
      /\ t.audit = Append(s.audit, [type |-> "CANCELLED", from |-> s.status, to |-> "CANCELLED"])
  BY <1>2, ExitAndCloseFields
<1> HIDE DEF t
<1>4. Good(t)
  BY <1>1, <1>2, <1>3, GoodExit
<1> QED
  BY <1>1, <1>4

\* The exits that leave the position as it is.
LEMMA GoodPlainExit ==
  ASSUME NEW s, Good(s), NEW to \in ExitStatus \ {"CANCELLED"}, NEW failure \in Failures,
         canTransition(s.status, to)
  PROVE  Good(exit(s, to, to, failure))
<1>1. Typed(s) /\ to \in EventTypes /\ to \in ExitStatus
  BY DEF Good, EventTypes, ExitStatus
<1> DEFINE t == exit(s, to, to, failure)
<1>2. /\ t \in ExecutionStates(s.intent) /\ t.intent = s.intent /\ t.status = to
      /\ t.orders = transitionOrders(s.orders, to)
      /\ t.position = s.position
      /\ t.audit = Append(s.audit, [type |-> to, from |-> s.status, to |-> to])
  BY <1>1, ExitFields
<1> HIDE DEF t
<1>3. Good(t)
  BY <1>1, <1>2, GoodExit
<1> QED
  BY <1>3 DEF t

LEMMA GoodRuntimeUnhealthy ==
  ASSUME NEW s, Good(s), RuntimeUnhealthy(s).ok
  PROVE  Good(RuntimeUnhealthy(s).state)
<1>1. ~isTerminal(s.status)
      /\ RuntimeUnhealthy(s).state = exit(s, "FAILED", "FAILED", "RUNTIME_UNHEALTHY")
  BY DEF RuntimeUnhealthy, Result
<1>2. Typed(s) /\ "RUNTIME_UNHEALTHY" \in Failures /\ "FAILED" \in ExitStatus \ {"CANCELLED"}
  BY DEF Good, Failures, ExitStatus
<1> QED
  BY <1>1, <1>2, EntryExists, LiveMayEnd, GoodPlainExit

LEMMA GoodRejectExpireFail ==
  ASSUME NEW s, Good(s)
  PROVE  /\ Reject(s).ok => Good(Reject(s).state)
         /\ Expire(s).ok => Good(Expire(s).state)
         /\ Fail(s).ok => Good(Fail(s).state)
<1>1. \A to \in {"REJECTED", "EXPIRED", "FAILED"} :
        to \in Failures /\ to \in ExitStatus \ {"CANCELLED"}
  BY DEF Failures, ExitStatus
<1>2. \A to \in {"REJECTED", "EXPIRED", "FAILED"} :
        canTransition(s.status, to) => Good(exit(s, to, to, to))
  BY <1>1, GoodPlainExit
<1> QED
  BY <1>2 DEF Reject, Expire, Fail, Result

-----------------------------------------------------------------------------
\* ARM, SUBMIT and ACKNOWLEDGE take every order along.
LEMMA GoodAdvance ==
  ASSUME NEW s, Good(s), NEW type \in EventTypes,
         NEW to \in {"READY", "SUBMITTED", "ACKNOWLEDGED"},
         canTransition(s.status, to),
         checkSubmittable(s.intent)
  PROVE  Good(advance(s, type, to))
<1> DEFINE c == commit(s, type, to)
           o == transitionOrders(s.orders, to)
           t == advance(s, type, to)
<1>1. Typed(s) /\ LegalWalk(s) /\ FromEntry(s) /\ Gated(s) /\ InStep(s)
      /\ NoEarlyPosition(s) /\ s.status # "NOT_CREATED"
  BY DEF Good
<1>2. to \in ExecutionStatus /\ to \in OrderStatus
  BY DEF ExecutionStatus, OrderStatus, LiveOrderStatus
<1>3. /\ c \in ExecutionStates(s.intent) /\ c.intent = s.intent /\ c.status = to
      /\ c.position = s.position
      /\ c.audit = Append(s.audit, [type |-> type, from |-> s.status, to |-> to])
  BY <1>1, <1>2, CommitFields
<1>4. /\ o \in [OrdersOf(s.intent) -> Order] /\ DOMAIN o = DOMAIN s.orders
      /\ \A k \in DOMAIN s.orders :
           /\ o[k].filled = s.orders[k].filled
           /\ o[k].status = IF to \in ORDER_TRANSITIONS(s.orders[k].status)
                            THEN to ELSE s.orders[k].status
      /\ Entry \in DOMAIN s.orders
      /\ s.position \in Position
  BY <1>1, <1>2, OrdersMove, EntryExists
<1> HIDE DEF c, o
<1>5. /\ t \in ExecutionStates(s.intent) /\ t.intent = s.intent /\ t.status = to
      /\ t.orders = o /\ t.position = s.position /\ t.audit = c.audit
  BY <1>3, <1>4 DEF advance, ExecutionStates, c, o
<1> HIDE DEF t
<1>6. s.status \in {"PLANNED", "READY", "SUBMITTED"} /\ to \in ORDER_TRANSITIONS(s.status)
  BY <1>1, EntryExists
     DEF canTransition, EXEC_TRANSITIONS, ORDER_TRANSITIONS, ExecutionStatus, TERMINAL_STATUSES
<1>7. \A k \in DOMAIN o : o[k].status = to
  BY <1>1, <1>4, <1>6 DEF InStep
<1>8. Typed(t)
  BY <1>1, <1>5 DEF Typed
<1>9. LegalWalk(t)
  BY <1>1, <1>2, <1>3, <1>5, WalkGrows
<1>10. s.position.status = "NONE"
  BY <1>1, <1>6 DEF NoEarlyPosition
<1>11. FromEntry(t)
  BY <1>1, <1>5, <1>10 DEF FromEntry, isOpen
<1>12. Gated(t) /\ Held(t)
  BY <1>5 DEF Gated, Held, checkSubmittable
<1>13. NoneWorking(t) /\ InStep(t) /\ NoEarlyPosition(t) /\ t.status # "NOT_CREATED"
  BY <1>5, <1>7, <1>10 DEF NoneWorking, InStep, NoEarlyPosition, TERMINAL_STATUSES
<1> QED
  BY <1>8, <1>9, <1>11, <1>12, <1>13 DEF Good, t

LEMMA GoodSubmitting ==
  ASSUME NEW s, Good(s)
  PROVE  /\ Arm(s).ok => Good(Arm(s).state)
         /\ Submit(s).ok => Good(Submit(s).state)
         /\ Acknowledge(s).ok => Good(Acknowledge(s).state)
<1>1. {"ARMED", "SUBMITTED", "ACKNOWLEDGED"} \subseteq EventTypes
  BY DEF EventTypes
<1>2. canTransition(s.status, "ACKNOWLEDGED") => s.status = "SUBMITTED"
  BY EntryExists
     DEF Good, canTransition, EXEC_TRANSITIONS, ExecutionStatus, TERMINAL_STATUSES
<1>3. canTransition(s.status, "ACKNOWLEDGED") => checkSubmittable(s.intent)
  BY <1>2 DEF Good, Held, TERMINAL_STATUSES
<1> QED
  BY <1>1, <1>3, GoodAdvance DEF Arm, Submit, Acknowledge, Result

-----------------------------------------------------------------------------
\* A reduced position stays within its entry, and is closed when nothing remains.
LEMMA ReducedPosition ==
  ASSUME NEW p \in Position, NEW q \in Int, 0 <= p.closed, p.closed <= p.entry
  PROVE  LET r == reducePosition(p, q)
         IN /\ r \in Position /\ r.entry = p.entry /\ r.status \in {"CLOSED", "REDUCING"}
            /\ p.closed <= r.closed /\ r.closed <= r.entry
            /\ r.status = "CLOSED" <=> r.closed = r.entry
<1> DEFINE add == IF q > 0 THEN q ELSE 0
           closed == IF p.closed + add <= p.entry THEN p.closed + add ELSE p.entry
           status == IF p.entry - closed <= 0 THEN "CLOSED" ELSE "REDUCING"
           r == [p EXCEPT !.status = status, !.closed = closed]
<1>1. p.entry \in Int /\ p.closed \in Int
  BY DEF Position
<1>2. closed \in Int /\ p.closed <= closed /\ closed <= p.entry
  BY <1>1
<1> HIDE DEF closed
<1>3. status \in {"CLOSED", "REDUCING"} /\ (status = "CLOSED" <=> closed = p.entry)
  BY <1>1, <1>2
<1> HIDE DEF status
<1>4. r \in Position /\ r.status = status /\ r.closed = closed /\ r.entry = p.entry
  BY <1>2, <1>3 DEF Position
<1>5. reducePosition(p, q) = r
  BY DEF reducePosition, closed, status
<1> HIDE DEF r
<1> QED
  BY <1>2, <1>3, <1>4, <1>5

\* The status of an execution with an open position after a reduction, and its type.
\* f is the state with the fill, if any, already applied to the order it fills.
LEMMA GoodReduced ==
  ASSUME NEW s, Good(s), s.status \in {"OPEN", "REDUCING"}, NEW q \in Int,
         NEW f, Typed(f), f.intent = s.intent, f.status = s.status, f.audit = s.audit,
         f.position = s.position, f.orders[Entry] = s.orders[Entry]
  PROVE  Good(reduced(f, reducePosition(f.position, q)))
<1> DEFINE p == reducePosition(f.position, q)
           type == IF p.status = "CLOSED" THEN "CLOSED" ELSE "REDUCED"
           to == IF p.status = "CLOSED" THEN "CLOSED" ELSE "REDUCING"
           c == commit(f, type, to)
           t == reduced(f, p)
<1>1. Typed(s) /\ LegalWalk(s) /\ FromEntry(s) /\ Held(s)
  BY DEF Good
<1>2. s.position \in Position
  BY <1>1, EntryExists
<1>3. /\ p \in Position /\ p.entry = s.position.entry /\ p.status \in {"CLOSED", "REDUCING"}
      /\ 0 <= p.closed /\ p.closed <= p.entry
      /\ p.status = "CLOSED" <=> p.closed = p.entry
  <2>1. 0 <= s.position.closed /\ s.position.closed <= s.position.entry
    BY <1>1 DEF FromEntry
  <2>2. /\ p \in Position /\ p.entry = s.position.entry /\ p.status \in {"CLOSED", "REDUCING"}
        /\ s.position.closed <= p.closed /\ p.closed <= p.entry
        /\ p.status = "CLOSED" <=> p.closed = p.entry
    BY <2>1, <1>2, ReducedPosition
  <2> HIDE DEF p
  <2> QED
    BY <2>1, <2>2, <1>2 DEF Position
<1> HIDE DEF p
<1>4. /\ type \in EventTypes /\ to \in ExecutionStatus /\ canTransition(s.status, to)
  BY DEF EventTypes, ExecutionStatus, TERMINAL_STATUSES, canTransition, EXEC_TRANSITIONS
<1>5. /\ c \in ExecutionStates(f.intent) /\ c.intent = f.intent /\ c.status = to
      /\ c.orders = f.orders /\ c.fills = f.fills
      /\ c.audit = Append(f.audit, [type |-> type, from |-> f.status, to |-> to])
  BY <1>4, CommitFields
<1>6. t = [c EXCEPT !.position = p]
  BY DEF reduced
<1> HIDE DEF c, t, type, to
<1>7. /\ t \in ExecutionStates(s.intent) /\ t.intent = s.intent /\ t.status = to
      /\ t.position = p /\ t.orders[Entry] = s.orders[Entry]
      /\ t.audit = Append(s.audit, [type |-> type, from |-> s.status, to |-> to])
  BY <1>3, <1>5, <1>6 DEF ExecutionStates
<1>8. Typed(t)
  BY <1>1, <1>7 DEF Typed
<1>9. LegalWalk(t)
  BY <1>1, <1>4, <1>7, WalkGrows
<1>10. isOpen(s.position) /\ s.position.entry = s.orders[Entry].filled /\ s.position.entry > 0
  BY <1>1 DEF FromEntry, isOpen
<1>11. FromEntry(t)
  BY <1>2, <1>3, <1>7, <1>10 DEF FromEntry, isOpen, Position, to
<1>12. checkSubmittable(t.intent)
  BY <1>1, <1>7 DEF Held, TERMINAL_STATUSES
<1>13. Gated(t) /\ Held(t)
  BY <1>12 DEF Gated, Held, checkSubmittable
<1>14. NoneWorking(t) /\ InStep(t) /\ NoEarlyPosition(t) /\ t.status # "NOT_CREATED"
  BY <1>7 DEF NoneWorking, InStep, NoEarlyPosition, TERMINAL_STATUSES, to
<1> QED
  BY <1>8, <1>9, <1>11, <1>13, <1>14 DEF Good, t, p

LEMMA GoodReduce ==
  ASSUME NEW s, Good(s), NEW q \in Int, Reduce(s, q).ok
  PROVE  Good(Reduce(s, q).state)
<1>1. /\ canTransition(s.status, "REDUCING")
      /\ Reduce(s, q).state = reduced(s, reducePosition(s.position, q))
  BY DEF Reduce, Result
<1>2. Typed(s)
  BY DEF Good
<1>3. s.status \in {"OPEN", "REDUCING"}
  BY <1>1, <1>2, EntryExists
     DEF canTransition, EXEC_TRANSITIONS, ExecutionStatus, TERMINAL_STATUSES
<1> QED
  BY <1>1, <1>2, <1>3, GoodReduced

LEMMA GoodOpen ==
  ASSUME NEW s, Good(s), Open(s).ok
  PROVE  Good(Open(s).state)
<1> DEFINE c == commit(s, "OPENED", "OPEN")
           p == openPosition(s.orders[Entry].filled)
           t == [c EXCEPT !.position = p]
<1>1. /\ canTransition(s.status, "OPEN") /\ s.orders[Entry].filled > 0
      /\ Open(s).state = t
  BY DEF Open, Result
<1>2. Typed(s) /\ LegalWalk(s) /\ Held(s)
  BY DEF Good
<1>3. "OPENED" \in EventTypes /\ "OPEN" \in ExecutionStatus
  BY DEF EventTypes, ExecutionStatus
<1>4. /\ c \in ExecutionStates(s.intent) /\ c.intent = s.intent /\ c.status = "OPEN"
      /\ c.orders = s.orders
      /\ c.audit = Append(s.audit, [type |-> "OPENED", from |-> s.status, to |-> "OPEN"])
  BY <1>2, <1>3, CommitFields
<1>5. s.orders[Entry] \in Order /\ s.status \in ExecutionStatus
  BY <1>2, EntryExists
<1>6. /\ p \in Position /\ p.status = "OPEN" /\ p.entry = s.orders[Entry].filled
      /\ p.closed = 0
  BY <1>1, <1>5 DEF openPosition, Position, Order
<1> HIDE DEF c, p
<1>7. /\ t \in ExecutionStates(s.intent) /\ t.intent = s.intent /\ t.status = "OPEN"
      /\ t.position = p /\ t.orders = s.orders /\ t.audit = c.audit
  BY <1>4, <1>6 DEF ExecutionStates
<1> HIDE DEF t
<1>8. Typed(t)
  BY <1>2, <1>7 DEF Typed
<1>9. LegalWalk(t)
  BY <1>1, <1>2, <1>3, <1>4, <1>7, WalkGrows
<1>10. FromEntry(t)
  BY <1>1, <1>5, <1>6, <1>7 DEF FromEntry, isOpen, Order
<1>11. s.status \in {"FILLED", "REDUCING"}
  BY <1>1, <1>5 DEF canTransition, EXEC_TRANSITIONS, ExecutionStatus, TERMINAL_STATUSES
<1>12. checkSubmittable(t.intent)
  BY <1>2, <1>7, <1>11 DEF Held, TERMINAL_STATUSES
<1>13. Gated(t) /\ Held(t)
  BY <1>12 DEF Gated, Held, checkSubmittable
<1>14. NoneWorking(t) /\ InStep(t) /\ NoEarlyPosition(t) /\ t.status # "NOT_CREATED"
  BY <1>7 DEF NoneWorking, InStep, NoEarlyPosition, TERMINAL_STATUSES
<1> QED
  BY <1>1, <1>8, <1>9, <1>10, <1>13, <1>14 DEF Good

LEMMA GoodClose ==
  ASSUME NEW s, Good(s), Close(s).ok
  PROVE  Good(Close(s).state)
<1> DEFINE c == commit(s, "CLOSED", "CLOSED")
           o == transitionOrders(s.orders, "CANCELLED")
           p == closePosition(s.position)
           t == [c EXCEPT !.orders = o, !.position = p]
<1>1. canTransition(s.status, "CLOSED") /\ Close(s).state = t
  BY DEF Close, Result
<1>2. Typed(s) /\ LegalWalk(s) /\ Held(s) /\ FromEntry(s)
  BY DEF Good
<1>3. "CLOSED" \in EventTypes /\ "CLOSED" \in ExecutionStatus /\ "CANCELLED" \in OrderStatus
  BY DEF EventTypes, ExecutionStatus, TERMINAL_STATUSES, OrderStatus
<1>4. /\ c \in ExecutionStates(s.intent) /\ c.intent = s.intent /\ c.status = "CLOSED"
      /\ c.audit = Append(s.audit, [type |-> "CLOSED", from |-> s.status, to |-> "CLOSED"])
  BY <1>2, <1>3, CommitFields
<1>5. /\ s.position \in Position /\ s.status \in ExecutionStatus
      /\ Entry \in DOMAIN s.orders
  BY <1>2, EntryExists
<1>6. o \in [OrdersOf(s.intent) -> Order] /\ o[Entry].filled = s.orders[Entry].filled
  BY <1>2, <1>3, <1>5, OrdersMove
<1>7. s.status \in {"OPEN", "REDUCING"}
  BY <1>1, <1>5 DEF canTransition, EXEC_TRANSITIONS, ExecutionStatus, TERMINAL_STATUSES
<1>8. isOpen(s.position) /\ s.position.entry = s.orders[Entry].filled /\ s.position.entry > 0
  BY <1>2, <1>7 DEF FromEntry, isOpen
<1>9. /\ p \in Position /\ p.status = "CLOSED" /\ p.entry = s.position.entry
      /\ p.closed = p.entry
  BY <1>5 DEF closePosition, Position
<1> HIDE DEF c, o, p
<1>10. /\ t \in ExecutionStates(s.intent) /\ t.intent = s.intent /\ t.status = "CLOSED"
       /\ t.position = p /\ t.orders = o /\ t.audit = c.audit
  BY <1>4, <1>6, <1>9 DEF ExecutionStates
<1> HIDE DEF t
<1>11. Typed(t)
  BY <1>2, <1>10 DEF Typed
<1>12. LegalWalk(t)
  BY <1>1, <1>2, <1>3, <1>4, <1>10, WalkGrows
<1>13. FromEntry(t)
  BY <1>5, <1>6, <1>8, <1>9, <1>10 DEF FromEntry, isOpen, Position
<1>14. checkSubmittable(t.intent)
  BY <1>2, <1>7, <1>10 DEF Held, TERMINAL_STATUSES
<1>15. Gated(t) /\ Held(t)
  BY <1>14 DEF Gated, Held, checkSubmittable
<1>16. NoneWorking(t) /\ InStep(t) /\ NoEarlyPosition(t) /\ t.status # "NOT_CREATED"
  BY <1>10 DEF NoneWorking, InStep, NoEarlyPosition, TERMINAL_STATUSES
<1> QED
  BY <1>1, <1>11, <1>12, <1>13, <1>15, <1>16 DEF Good

-----------------------------------------------------------------------------
LEMMA FilledOrder ==
  ASSUME NEW o \in Order, NEW q \in Int
  PROVE  applyFillToOrder(o, q) \in Order
<1> DEFINE filled == IF o.quantity = NoSize \/ o.filled + q <= o.quantity
                     THEN o.filled + q ELSE o.quantity
           next == IF o.quantity # NoSize /\ filled >= o.quantity
                   THEN "FILLED" ELSE "PARTIALLY_FILLED"
           status == IF next \in ORDER_TRANSITIONS(o.status) THEN next ELSE o.status
<1>1. filled \in Int
  BY DEF Order
<1>2. status \in OrderStatus
  BY DEF Order, OrderStatus, LiveOrderStatus
<1> HIDE DEF filled, status
<1>3. [o EXCEPT !.filled = filled, !.status = status] \in Order
  BY <1>1, <1>2 DEF Order
<1> QED
  BY <1>3 DEF applyFillToOrder, filled, status

\* The state with the fill applied to its order, before the execution moves.
filledState(s, k, q) ==
  [s EXCEPT !.orders = [s.orders EXCEPT ![k] = applyFillToOrder(s.orders[k], q)],
            !.fills = [s.fills EXCEPT ![k] = s.fills[k] + q]]

LEMMA FilledFields ==
  ASSUME NEW s, Typed(s), NEW k \in DOMAIN s.orders, NEW q \in Int
  PROVE  LET f == filledState(s, k, q)
         IN /\ Typed(f) /\ f.intent = s.intent /\ f.status = s.status
            /\ f.audit = s.audit /\ f.position = s.position
            /\ k # Entry => f.orders[Entry] = s.orders[Entry]
<1> DEFINE o == [s.orders EXCEPT ![k] = applyFillToOrder(s.orders[k], q)]
           fl == [s.fills EXCEPT ![k] = s.fills[k] + q]
           f == [s EXCEPT !.orders = o, !.fills = fl]
<1>1. /\ s \in ExecutionStates(s.intent) /\ s.intent \in Intent
      /\ s.orders \in [OrdersOf(s.intent) -> Order]
      /\ s.fills \in [OrdersOf(s.intent) -> Int]
      /\ k \in OrdersOf(s.intent)
  BY DEF Typed, ExecutionStates
<1>2. applyFillToOrder(s.orders[k], q) \in Order
  BY <1>1, FilledOrder
<1>3. o \in [OrdersOf(s.intent) -> Order] /\ (k # Entry => o[Entry] = s.orders[Entry])
  BY <1>1, <1>2, EntryExists
<1>4. fl \in [OrdersOf(s.intent) -> Int]
  BY <1>1
<1> HIDE DEF o, fl
<1>5. /\ f \in ExecutionStates(s.intent) /\ f.intent = s.intent /\ f.status = s.status
      /\ f.audit = s.audit /\ f.position = s.position /\ f.orders = o
  BY <1>1, <1>3, <1>4 DEF ExecutionStates
<1> HIDE DEF f
<1>6. filledState(s, k, q) = f
  BY DEF filledState, f, o, fl
<1>7. Typed(f)
  BY <1>1, <1>5 DEF Typed
<1> QED
  BY <1>3, <1>5, <1>6, <1>7

\* A fill of the entry.
LEMMA GoodEntryFill ==
  ASSUME NEW s, Good(s), NEW to \in {"PARTIALLY_FILLED", "FILLED"},
         canTransition(s.status, to),
         NEW f, Typed(f), f.intent = s.intent, f.status = s.status, f.audit = s.audit,
         f.position = s.position
  PROVE  Good(commit(f, to, to))
<1> DEFINE t == commit(f, to, to)
<1>1. Typed(s) /\ LegalWalk(s) /\ Held(s) /\ FromEntry(s) /\ NoEarlyPosition(s)
      /\ s.status # "NOT_CREATED"
  BY DEF Good
<1>2. to \in EventTypes /\ to \in ExecutionStatus
  BY DEF EventTypes, ExecutionStatus
<1>3. /\ t \in ExecutionStates(s.intent) /\ t.intent = s.intent /\ t.status = to
      /\ t.position = s.position
      /\ t.audit = Append(s.audit, [type |-> to, from |-> s.status, to |-> to])
  BY <1>2, CommitFields
<1> HIDE DEF t
<1>4. s.status \in {"ACKNOWLEDGED", "PARTIALLY_FILLED"}
  BY <1>1, EntryExists
     DEF canTransition, EXEC_TRANSITIONS, ExecutionStatus, TERMINAL_STATUSES
<1>5. Typed(t)
  BY <1>1, <1>3 DEF Typed
<1>6. LegalWalk(t)
  BY <1>1, <1>2, <1>3, WalkGrows
<1>7. s.position.status = "NONE"
  BY <1>1, <1>4 DEF NoEarlyPosition
<1>8. FromEntry(t)
  BY <1>1, <1>3, <1>7 DEF FromEntry, isOpen
<1>9. checkSubmittable(t.intent)
  BY <1>1, <1>3, <1>4 DEF Held, TERMINAL_STATUSES
<1>10. Gated(t) /\ Held(t)
  BY <1>9 DEF Gated, Held, checkSubmittable
<1>11. NoneWorking(t) /\ InStep(t) /\ NoEarlyPosition(t) /\ t.status # "NOT_CREATED"
  BY <1>3, <1>7 DEF NoneWorking, InStep, NoEarlyPosition, TERMINAL_STATUSES
<1> QED
  BY <1>5, <1>6, <1>8, <1>10, <1>11 DEF Good, t

LEMMA GoodFill ==
  ASSUME NEW s, Good(s), NEW k \in DOMAIN s.orders, NEW q \in Int, Fill(s, k, q).ok
  PROVE  Good(Fill(s, k, q).state)
<1> DEFINE f == filledState(s, k, q)
           to == IF applyFillToOrder(s.orders[k], q).status = "FILLED"
                 THEN "FILLED" ELSE "PARTIALLY_FILLED"
           r == reduced(f, reducePosition(s.position, q))
<1>1. Typed(s) /\ FromEntry(s)
  BY DEF Good
<1>2. /\ Typed(f) /\ f.intent = s.intent /\ f.status = s.status
      /\ f.audit = s.audit /\ f.position = s.position
      /\ k # Entry => f.orders[Entry] = s.orders[Entry]
  BY <1>1, FilledFields
<1>3. CASE k = Entry
  <2>1. canTransition(s.status, to) /\ Fill(s, k, q).state = commit(f, to, to)
    BY <1>3 DEF Fill, Result, filledState
  <2>2. to \in {"PARTIALLY_FILLED", "FILLED"}
    OBVIOUS
  <2> HIDE DEF f, to
  <2>3. Good(commit(f, to, to))
    BY <2>1, <2>2, <1>2, GoodEntryFill
  <2> QED
    BY <2>1, <2>3
<1>4. CASE k # Entry
  <2>1. /\ ~isTerminal(s.status) /\ isOpen(s.position) /\ Fill(s, k, q).state = r
    BY <1>4 DEF Fill, Result, filledState
  <2>2. s.status \in {"OPEN", "REDUCING"}
    BY <2>1, <1>1 DEF FromEntry, isTerminal, TERMINAL_STATUSES
  <2> HIDE DEF f
  <2>3. Good(r)
    BY <2>2, <1>2, <1>4, GoodReduced
  <2> QED
    BY <2>1, <2>3
<1> QED
  BY <1>3, <1>4

-----------------------------------------------------------------------------
\* The orders of a plan have whole quantities, also when the size is split unevenly.
LEMMA PlanTyped ==
  ASSUME NEW i \in Intent
  PROVE  /\ buildExecutionPlan(i) \in [OrdersOf(i) -> Order]
         /\ \A k \in OrdersOf(i) : /\ buildExecutionPlan(i)[k].filled = 0
                                   /\ buildExecutionPlan(i)[k].status = "PLANNED"
<1>1. i.targets \in 0 .. 3 /\ i.size \in Int
  BY DEF Intent, NoSize
<1>2. \A q \in Int : /\ makeOrder(q) \in Order
                     /\ makeOrder(q).filled = 0 /\ makeOrder(q).status = "PLANNED"
  BY DEF makeOrder, Order, OrderStatus, LiveOrderStatus
<1>3. ASSUME NEW k \in OrdersOf(i), k > 2
      PROVE  splitQuantity(i.size, i.targets)[k - 2] \in Int
  <2>1. i.targets \in 1 .. 3 /\ k - 2 \in 1 .. i.targets
    BY <1>1, <1>3 DEF OrdersOf
  <2> DEFINE per == (2 * i.size + i.targets) \div (2 * i.targets)
  <2>2. per \in Int
    BY <2>1, <1>1
  <2> HIDE DEF per
  <2>3. i.size - per * (i.targets - 1) \in Int
    BY <2>1, <2>2, <1>1
  <2> QED
    BY <2>1, <2>2, <2>3 DEF splitQuantity, NoSize, per
<1>4. ASSUME NEW k \in OrdersOf(i)
      PROVE  (IF k <= 2 THEN i.size ELSE splitQuantity(i.size, i.targets)[k - 2]) \in Int
  BY <1>1, <1>3 DEF OrdersOf
<1> QED
  BY <1>2, <1>4 DEF buildExecutionPlan

LEMMA GoodPlanned ==
  ASSUME NEW i \in Intent
  PROVE  Good(Plan(initExecutionState(i)).state)
<1> DEFINE s == initExecutionState(i)
           e == [type |-> "PLANNED", from |-> s.status, to |-> "PLANNED"]
           t == commit(s, "PLANNED", "PLANNED")
<1>1. /\ buildExecutionPlan(i) \in [OrdersOf(i) -> Order]
      /\ \A k \in OrdersOf(i) : /\ buildExecutionPlan(i)[k].filled = 0
                                /\ buildExecutionPlan(i)[k].status = "PLANNED"
  BY PlanTyped
<1>2. /\ s.intent = i /\ s.status = "NOT_CREATED" /\ s.orders = buildExecutionPlan(i)
      /\ s.fills = [k \in OrdersOf(i) |-> 0] /\ s.position = emptyPosition
      /\ s.failure = "none" /\ s.audit = <<>>
  BY DEF initExecutionState
<1>3. Typed(s)
  <2>1. "NOT_CREATED" \in ExecutionStatus /\ emptyPosition \in Position /\ "none" \in Failures
    BY DEF ExecutionStatus, emptyPosition, Position, Failures
  <2>2. [k \in OrdersOf(i) |-> 0] \in [OrdersOf(i) -> Int] /\ <<>> \in Seq(Event)
    OBVIOUS
  <2>3. s \in ExecutionStates(i)
    BY <2>1, <2>2, <1>1 DEF initExecutionState, ExecutionStates
  <2> QED
    BY <2>3, <1>2 DEF Typed
<1> HIDE DEF s
<1>4. "PLANNED" \in EventTypes /\ "PLANNED" \in ExecutionStatus
  BY DEF EventTypes, ExecutionStatus
<1>5. /\ t \in ExecutionStates(i) /\ t.intent = i /\ t.status = "PLANNED"
      /\ t.orders = buildExecutionPlan(i) /\ t.position = emptyPosition
      /\ t.audit = Append(<<>>, e)
  BY <1>2, <1>3, <1>4, CommitFields
<1> HIDE DEF t
<1>6. Typed(t)
  BY <1>5 DEF Typed
<1>7. LegalWalk(t)
  <2>1. t.audit = <<e>> /\ e.from = "NOT_CREATED" /\ e.to = "PLANNED"
    BY <1>2, <1>5
  <2>2. canTransition("NOT_CREATED", "PLANNED")
    BY DEF canTransition, EXEC_TRANSITIONS
  <2> HIDE DEF e
  <2>3. /\ t.audit # <<>> /\ Len(t.audit) = 1 /\ DOMAIN t.audit = {1} /\ t.audit[1] = e
    BY <2>1
  <2> QED
    BY <2>1, <2>2, <2>3, <1>5 DEF LegalWalk
<1>8. DOMAIN t.orders = OrdersOf(i)
  BY <1>1, <1>5
<1>9. FromEntry(t)
  BY <1>5 DEF FromEntry, emptyPosition, isOpen
<1>10. Gated(t) /\ InStep(t)
  BY <1>1, <1>5, <1>8 DEF Gated, InStep, emptyPosition
<1>11. NoneWorking(t) /\ NoEarlyPosition(t) /\ Held(t) /\ t.status # "NOT_CREATED"
  BY <1>5 DEF NoneWorking, NoEarlyPosition, Held, emptyPosition, TERMINAL_STATUSES
<1> QED
  BY <1>6, <1>7, <1>9, <1>10, <1>11 DEF Good, Plan, Result, t, s

LEMMA GoodCreate ==
  ASSUME NEW i \in Intent, NEW killEngaged \in BOOLEAN, NEW runtimeHealthy \in BOOLEAN
  PROVE  Good(createExecution(i, killEngaged, runtimeHealthy))
<1> DEFINE p == Plan(initExecutionState(i)).state
<1>1. Good(p) /\ p.status = "PLANNED"
  <2>1. Good(p)
    BY GoodPlanned
  <2>2. p.status = "PLANNED"
    BY DEF Plan, Result, commit, initExecutionState
  <2> QED
    BY <2>1, <2>2
<1>2. createExecution(i, killEngaged, runtimeHealthy) =
        IF killEngaged THEN Kill(p).state
        ELSE IF ~runtimeHealthy THEN RuntimeUnhealthy(p).state ELSE p
  BY DEF createExecution
<1> HIDE DEF p
<1>3. Kill(p).ok /\ RuntimeUnhealthy(p).ok
  BY <1>1 DEF Kill, RuntimeUnhealthy, Result, isTerminal, TERMINAL_STATUSES
<1> QED
  BY <1>1, <1>2, <1>3, GoodKill, GoodRuntimeUnhealthy

-----------------------------------------------------------------------------
\* Every reachable execution is good: whatever the commands and their order.
LEMMA AlwaysGood == CoreSpec => []Good(exec)
<1>1. CoreInit => Good(exec)
  BY GoodCreate, ExecutionAssumption DEF CoreInit
<1>2. Good(exec) /\ [CoreNext]_exec => Good(exec)'
  <2> SUFFICES ASSUME Good(exec), [CoreNext]_exec
               PROVE  Good(exec')
    OBVIOUS
  <2>1. CASE Advance(Kill(exec))
    BY <2>1, GoodKill DEF Advance
  <2>2. CASE Advance(RuntimeUnhealthy(exec))
    BY <2>2, GoodRuntimeUnhealthy DEF Advance
  <2>3. CASE Advance(Arm(exec)) \/ Advance(Submit(exec)) \/ Advance(Acknowledge(exec))
    BY <2>3, GoodSubmitting DEF Advance
  <2>4. CASE \E k \in DOMAIN exec.orders, q \in Quantities : Advance(Fill(exec, k, q))
    BY <2>4, GoodFill, ExecutionAssumption DEF Advance
  <2>5. CASE Advance(Open(exec))
    BY <2>5, GoodOpen DEF Advance
  <2>6. CASE \E q \in Quantities : Advance(Reduce(exec, q))
    BY <2>6, GoodReduce, ExecutionAssumption DEF Advance
  <2>7. CASE Advance(Close(exec))
    BY <2>7, GoodClose DEF Advance
  <2>8. CASE Advance(Cancel(exec))
    BY <2>8, GoodCancel DEF Advance
  <2>9. CASE Advance(Reject(exec)) \/ Advance(Expire(exec)) \/ Advance(Fail(exec))
    BY <2>9, GoodRejectExpireFail DEF Advance
  <2>10. CASE UNCHANGED exec
    BY <2>10
  <2> QED
    BY <2>1, <2>2, <2>3, <2>4, <2>5, <2>6, <2>7, <2>8, <2>9, <2>10 DEF CoreNext
<1> QED
  BY <1>1, <1>2, PTL DEF CoreSpec

\* The audit of reduceExecution is always a walk through EXEC_TRANSITIONS from
\* NOT_CREATED to the present status.
THEOREM WalkIsLegal == CoreSpec => []AuditIsLegalWalk
<1>1. Good(exec) => AuditIsLegalWalk
  BY DEF Good, AuditIsLegalWalk
<1> QED
  BY <1>1, AlwaysGood, PTL

\* Killed, cancelled, rejected, expired or failed, an execution leaves no order
\* working.
THEOREM NoOrderLeftWorking == CoreSpec => []NoWorkingOrder
<1>1. Good(exec) => NoWorkingOrder
  BY DEF Good, NoWorkingOrder
<1> QED
  BY <1>1, AlwaysGood, PTL

\* The position is the filled entry, never over-closed, and open exactly while the
\* execution says so or has failed.
THEOREM PositionSound == CoreSpec => []PositionFromEntry
<1>1. Good(exec) => PositionFromEntry
  BY DEF Good, PositionFromEntry
<1> QED
  BY <1>1, AlwaysGood, PTL

\* Nothing is submitted, filled or opened past the gates of checkSubmittable.
THEOREM GatesHold == CoreSpec => []OnlySubmittableTrades
<1>1. Good(exec) => OnlySubmittableTrades
  BY DEF Good, OnlySubmittableTrades
<1> QED
  BY <1>1, AlwaysGood, PTL

\* Every sequence of commands keeps the execution legal: its audit, its orders when it
\* ends, and the gates of checkSubmittable.
THEOREM LifeIsLegal == CoreSpec => []LegalLife
<1>1. Good(exec) => LegalLife
  BY DEF Good, LegalLife, AuditIsLegalWalk, NoWorkingOrder, OnlySubmittableTrades
<1> QED
  BY <1>1, AlwaysGood, PTL

-----------------------------------------------------------------------------
(* The paper adapter.                                                        *)

LEMMA InitGood == Init => Good(exec)
  BY GoodCreate, ExecutionAssumption DEF Init, CoreInit

LEMMA StepGood ==
  ASSUME Good(exec), [Next]_vars
  PROVE  Good(exec')
<1>1. CASE SubmitBlocked
  BY <1>1, GoodKill, GoodRuntimeUnhealthy DEF SubmitBlocked
<1>2. CASE SubmitOrders
  <2>1. /\ Arm(exec).ok /\ Submit(Arm(exec).state).ok
        /\ exec' = Submit(Arm(exec).state).state
    BY <1>2 DEF SubmitOrders
  <2> QED
    BY <2>1, GoodSubmitting
<1>3. CASE AcknowledgeOrders
  BY <1>3, GoodSubmitting DEF AcknowledgeOrders
<1>4. CASE \E k \in DOMAIN exec.orders, q \in Quantities : FillOrder(k, q)
  <2>1. PICK k \in DOMAIN exec.orders, q \in Quantities : FillOrder(k, q)
    BY <1>4
  <2>2. /\ Fill(exec, k, q).ok
        /\ \/ Open(Fill(exec, k, q).state).ok /\ exec' = Open(Fill(exec, k, q).state).state
           \/ exec' = Fill(exec, k, q).state
    BY <2>1 DEF FillOrder
  <2>3. Good(Fill(exec, k, q).state)
    BY <2>2, GoodFill, ExecutionAssumption
  <2> QED
    BY <2>2, <2>3, GoodOpen
<1>5. CASE CancelExecution
  BY <1>5, GoodCancel DEF CancelExecution
<1>6. CASE Shutdown
  BY <1>6, GoodCancel DEF Shutdown
<1>7. CASE UNCHANGED vars
  BY <1>7 DEF vars
<1> QED
  BY <1>1, <1>2, <1>3, <1>4, <1>5, <1>6, <1>7 DEF Next

\* Behind the adapter too, the position is the filled entry, never over-closed.
THEOREM AdapterPositionSound == Spec => []PositionFromEntry
<1>1. Good(exec) /\ [Next]_vars => Good(exec)'
  BY StepGood
<1>2. Good(exec) => PositionFromEntry
  BY DEF Good, PositionFromEntry
<1> QED
  BY <1>1, <1>2, InitGood, PTL DEF Spec

-----------------------------------------------------------------------------
\* What the exits an adapter uses do to the position.
LEMMA CancelPosition ==
  ASSUME NEW s, Good(s)
  PROVE  /\ Cancel(s).state.status = "CANCELLED"
         /\ Cancel(s).state.position = closeIfOpen(s.position)
<1>1. Typed(s) /\ "CANCELLED" \in EventTypes /\ "CANCELLED" \in Failures
  BY DEF Good, EventTypes, Failures
<1>2. Cancel(s).state = exitAndClose(s, "CANCELLED", "CANCELLED")
  BY DEF Cancel, Result
<1> DEFINE t == exitAndClose(s, "CANCELLED", "CANCELLED")
<1>3. t.status = "CANCELLED" /\ t.position = closeIfOpen(s.position)
  BY <1>1, ExitAndCloseFields
<1> QED
  BY <1>2, <1>3

LEMMA StopPosition ==
  ASSUME NEW s, Good(s)
  PROVE  /\ Kill(s).state.position = closeIfOpen(s.position)
         /\ RuntimeUnhealthy(s).state.position = s.position
<1>1. Typed(s) /\ "KILLED" \in EventTypes /\ "KILL_SWITCH" \in Failures
  BY DEF Good, EventTypes, Failures
<1>2. Kill(s).state = exitAndClose(s, "KILLED", "KILL_SWITCH")
  BY DEF Kill, Result
<1>3. "FAILED" \in EventTypes /\ "FAILED" \in ExitStatus /\ "RUNTIME_UNHEALTHY" \in Failures
  BY DEF EventTypes, Failures, ExitStatus
<1>4. RuntimeUnhealthy(s).state = exit(s, "FAILED", "FAILED", "RUNTIME_UNHEALTHY")
  BY DEF RuntimeUnhealthy, Result
<1>5. Kill(s).state.position = closeIfOpen(s.position)
  <2> DEFINE t == exitAndClose(s, "KILLED", "KILL_SWITCH")
  <2>1. t.position = closeIfOpen(s.position)
    BY <1>1, ExitAndCloseFields
  <2> QED
    BY <2>1, <1>2
<1>6. RuntimeUnhealthy(s).state.position = s.position
  <2> DEFINE t == exit(s, "FAILED", "FAILED", "RUNTIME_UNHEALTHY")
  <2>1. t.position = s.position
    BY <1>1, <1>3, ExitFields
  <2> QED
    BY <2>1, <1>4
<1> QED
  BY <1>5, <1>6

-----------------------------------------------------------------------------
\* A paper session that is shut down has ended its execution: cancelAll is always
\* accepted by a live execution, and no method drives the core afterwards.
THEOREM ShutdownIsFinal == Spec => []ShutdownEnds
<1> DEFINE Inv == Good(exec) /\ ShutdownEnds
<1>1. Init => Inv
  BY InitGood DEF Init, ShutdownEnds
<1>2. Inv /\ [Next]_vars => Inv'
  <2> SUFFICES ASSUME Inv, [Next]_vars PROVE Inv'
    OBVIOUS
  <2>1. Good(exec)'
    BY StepGood
  <2>2. CASE Shutdown
    <3>1. CASE kind = "PAPER" /\ Cancel(exec).ok
      <4>1. Cancel(exec).state.status = "CANCELLED"
        BY CancelPosition
      <4>2. exec'.status = "CANCELLED"
        BY <2>2, <3>1, <4>1 DEF Shutdown
      <4> QED
        BY <2>1, <4>2 DEF ShutdownEnds, isTerminal, TERMINAL_STATUSES
    <3>2. CASE ~(kind = "PAPER" /\ Cancel(exec).ok)
      <4>1. ~Cancel(exec).ok => isTerminal(exec.status)
        BY EntryExists, LiveMayEnd DEF Good, Cancel, Result
      <4> QED
        BY <2>2, <3>2, <4>1 DEF Shutdown, ShutdownEnds
    <3> QED
      BY <3>1, <3>2
  <2>3. CASE UNCHANGED vars
    BY <2>3 DEF vars, ShutdownEnds
  <2>4. CASE SubmitBlocked \/ SubmitOrders \/ AcknowledgeOrders \/ CancelExecution
             \/ \E k \in DOMAIN exec.orders, q \in Quantities : FillOrder(k, q)
    <3>1. health # "SHUTDOWN" /\ health' = health
      BY <2>4 DEF SubmitBlocked, SubmitOrders, AcknowledgeOrders, CancelExecution,
                  FillOrder, Usable
    <3> QED
      BY <2>1, <3>1 DEF ShutdownEnds
  <2> QED
    BY <2>1, <2>2, <2>3, <2>4 DEF Next
<1>3. Inv => ShutdownEnds
  OBVIOUS
<1> QED
  BY <1>1, <1>2, <1>3, PTL DEF Spec

-----------------------------------------------------------------------------
\* What each command leaves of an open position.
LEMMA ExitShrinks ==
  ASSUME NEW s, Good(s)
  PROVE  /\ remaining(Kill(s).state) <= remaining(s)
         /\ remaining(Cancel(s).state) <= remaining(s)
         /\ remaining(RuntimeUnhealthy(s).state) <= remaining(s)
<1>1. Typed(s) /\ FromEntry(s)
  BY DEF Good
<1>2. /\ Kill(s).state.position = closeIfOpen(s.position)
      /\ Cancel(s).state.position = closeIfOpen(s.position)
      /\ RuntimeUnhealthy(s).state.position = s.position
  BY CancelPosition, StopPosition
<1>3. s.position \in Position /\ s.position.closed <= s.position.entry
  BY <1>1, EntryExists DEF FromEntry
<1> QED
  BY <1>2, <1>3 DEF remaining, closeIfOpen, closePosition, Position

LEMMA EarlyHasNoPosition ==
  ASSUME NEW s, Good(s)
  PROVE  /\ Arm(s).ok \/ Acknowledge(s).ok => s.position.status = "NONE"
         /\ canTransition(s.status, "PARTIALLY_FILLED") \/ canTransition(s.status, "FILLED")
              => s.position.status = "NONE"
<1>1. s.status \in ExecutionStatus /\ NoEarlyPosition(s) /\ s.status # "NOT_CREATED"
  BY EntryExists DEF Good
<1> QED
  BY <1>1 DEF Arm, Acknowledge, Result, NoEarlyPosition, canTransition, EXEC_TRANSITIONS,
              ExecutionStatus, TERMINAL_STATUSES

LEMMA FillShrinks ==
  ASSUME NEW s, Good(s), s.position.status # "NONE",
         NEW k \in DOMAIN s.orders, NEW q \in Int, Fill(s, k, q).ok
  PROVE  /\ Fill(s, k, q).state.status # "FILLED"
         /\ remaining(Fill(s, k, q).state) <= remaining(s)
<1> DEFINE f == filledState(s, k, q)
           p == reducePosition(s.position, q)
           t == reduced(f, p)
<1>1. Typed(s) /\ FromEntry(s)
  BY DEF Good
<1>2. k # Entry
  BY EarlyHasNoPosition DEF Fill, Result
<1>3. Fill(s, k, q).state = t
  BY <1>2 DEF Fill, Result, filledState
<1>4. Typed(f)
  BY <1>1, FilledFields
<1>5. s.position \in Position /\ 0 <= s.position.closed /\ s.position.closed <= s.position.entry
  BY <1>1, EntryExists DEF FromEntry
<1>6. p \in Position /\ p.entry = s.position.entry /\ s.position.closed <= p.closed
  BY <1>5, ReducedPosition
<1> HIDE DEF f, p
<1>7. t.position = p /\ t.status \in {"CLOSED", "REDUCING"}
  <2>1. /\ "CLOSED" \in EventTypes /\ "REDUCED" \in EventTypes
        /\ "CLOSED" \in ExecutionStatus /\ "REDUCING" \in ExecutionStatus
    BY DEF EventTypes, ExecutionStatus, TERMINAL_STATUSES
  <2>2. \A c \in {commit(f, "CLOSED", "CLOSED"), commit(f, "REDUCED", "REDUCING")} :
          c \in ExecutionStates(f.intent) /\ c.status \in {"CLOSED", "REDUCING"}
    <3>1. commit(f, "CLOSED", "CLOSED") \in ExecutionStates(f.intent)
          /\ commit(f, "CLOSED", "CLOSED").status = "CLOSED"
      BY <2>1, <1>4, CommitFields
    <3>2. commit(f, "REDUCED", "REDUCING") \in ExecutionStates(f.intent)
          /\ commit(f, "REDUCED", "REDUCING").status = "REDUCING"
      BY <2>1, <1>4, CommitFields
    <3> QED
      BY <3>1, <3>2
  <2>3. \A c : c \in ExecutionStates(f.intent) =>
          /\ [c EXCEPT !.position = p].position = p
          /\ [c EXCEPT !.position = p].status = c.status
    BY DEF ExecutionStates
  <2>4. t \in {[commit(f, "CLOSED", "CLOSED") EXCEPT !.position = p],
               [commit(f, "REDUCED", "REDUCING") EXCEPT !.position = p]}
    BY DEF reduced
  <2> HIDE DEF t
  <2> QED
    BY <2>2, <2>3, <2>4
<1> HIDE DEF t
<1> QED
  BY <1>3, <1>5, <1>6, <1>7 DEF remaining, Position

\* Behind the adapter an open position only shrinks: the OPEN command, which rebuilds
\* the position from the whole entry, follows only the fill that completes the entry.
THEOREM ExposureShrinks == Spec => ExposureNeverGrows
<1> DEFINE Shrinks == exec.position.status # "NONE" /\ kind \in Kinds =>
                        remaining(exec') <= remaining(exec)
<1>1. Good(exec) /\ [Next]_vars => Good(exec)'
  BY StepGood
<1>2. Good(exec) /\ [Next]_vars => [Shrinks]_exec
  <2> SUFFICES ASSUME Good(exec), [Next]_vars, exec' # exec, exec.position.status # "NONE"
               PROVE  remaining(exec') <= remaining(exec)
    OBVIOUS
  <2>1. CASE SubmitBlocked
    BY <2>1, ExitShrinks DEF SubmitBlocked
  <2>2. CASE SubmitOrders \/ AcknowledgeOrders
    BY <2>2, EarlyHasNoPosition DEF SubmitOrders, AcknowledgeOrders
  <2>3. CASE \E k \in DOMAIN exec.orders, q \in Quantities : FillOrder(k, q)
    <3>1. PICK k \in DOMAIN exec.orders, q \in Quantities : FillOrder(k, q)
      BY <2>3
    <3>2. q \in Int /\ Fill(exec, k, q).ok
      BY <3>1, ExecutionAssumption DEF FillOrder
    <3>3. /\ Fill(exec, k, q).state.status # "FILLED"
          /\ remaining(Fill(exec, k, q).state) <= remaining(exec)
      BY <3>2, FillShrinks
    <3> QED
      BY <3>1, <3>3 DEF FillOrder
  <2>4. CASE CancelExecution
    BY <2>4, ExitShrinks DEF CancelExecution
  <2>5. CASE Shutdown
    BY <2>5, ExitShrinks DEF Shutdown
  <2>6. CASE UNCHANGED vars
    BY <2>6 DEF vars
  <2> QED
    BY <2>1, <2>2, <2>3, <2>4, <2>5, <2>6 DEF Next
<1> QED
  BY <1>1, <1>2, InitGood, PTL DEF Spec, ExposureNeverGrows

-----------------------------------------------------------------------------
(* The session mirrors the core.                                             *)

VenueEvent == [type : {mapCoreEventType(t) : t \in EventTypes}, order : Nat]

\* What Emit makes of the log when the core has recorded an event of this type.
Logged(log, type, order) ==
  IF mapCoreEventType(type) = NoEvent THEN log
  ELSE Append(log, [type |-> mapCoreEventType(type), order |-> order])

\* One more audit event, and the log as Emit leaves it, mirror each other again.
LEMMA MirrorGrows ==
  ASSUME NEW a \in Seq(Event), NEW e \in Event, NEW b \in Nat, b <= Len(a),
         NEW log \in Seq(VenueEvent), Mirrors(log, a, b), NEW order \in Nat
  PROVE  /\ Logged(log, e.type, order) \in Seq(VenueEvent)
         /\ Mirrors(Logged(log, e.type, order), Append(a, e), b)
<1> DEFINE n == Len(a)
           c == Append(a, e)
           S == Crossing(a, b)
           T == Crossing(c, b)
           upTo(U, i) == {j \in U : j <= i}
<1>1. /\ n \in Nat /\ Len(c) = n + 1 /\ c[n + 1] = e
      /\ \A i \in 1 .. n : c[i] = a[i]
  OBVIOUS
<1> HIDE DEF c, n
<1>2. \A i \in b + 1 .. n : i \in 1 .. n
  BY <1>1
<1>3. S \subseteq b + 1 .. n /\ n + 1 \notin S
  BY <1>1 DEF Crossing, n
<1>4. IsFiniteSet(S) /\ Cardinality(S) \in Nat
  <2>1. IsFiniteSet(b + 1 .. n)
    BY <1>1, FS_Interval
  <2> QED
    BY <2>1, <1>3, FS_Subset, FS_CardinalityType
<1>5. T = IF mapCoreEventType(e.type) = NoEvent THEN S ELSE S \cup {n + 1}
  <2>1. b + 1 .. Len(c) = (b + 1 .. n) \cup {n + 1}
    BY <1>1 DEF n
  <2> QED
    BY <2>1, <1>1, <1>2 DEF Crossing, n
<1>6. /\ Len(log) = Cardinality(S)
      /\ \A i \in S : log[Cardinality(upTo(S, i))].type = mapCoreEventType(a[i].type)
  BY DEF Mirrors
<1>7. CASE mapCoreEventType(e.type) = NoEvent
  <2>1. Logged(log, e.type, order) = log /\ T = S
    BY <1>5, <1>7 DEF Logged
  <2>2. \A i \in S : c[i] = a[i]
    BY <1>1, <1>2, <1>3
  <2>3. Mirrors(log, c, b)
    BY <2>1, <2>2, <1>6 DEF Mirrors
  <2> QED
    BY <2>1, <2>3 DEF c
<1>8. CASE mapCoreEventType(e.type) # NoEvent
  <2> DEFINE v == [type |-> mapCoreEventType(e.type), order |-> order]
             new == Append(log, v)
  <2>1. v \in VenueEvent /\ v.type = mapCoreEventType(e.type)
    BY DEF VenueEvent, Event
  <2> HIDE DEF v
  <2>2. /\ new \in Seq(VenueEvent) /\ Len(new) = Len(log) + 1 /\ new[Len(log) + 1] = v
        /\ \A i \in 1 .. Len(log) : new[i] = log[i]
    BY <2>1
  <2> HIDE DEF new
  <2>3. Logged(log, e.type, order) = new /\ T = S \cup {n + 1}
    BY <1>5, <1>8 DEF Logged, new, v
  <2>4. Cardinality(T) = Cardinality(S) + 1
    BY <2>3, <1>3, <1>4, FS_AddElement
  <2>5. ASSUME NEW i \in S
        PROVE  new[Cardinality(upTo(T, i))].type = mapCoreEventType(c[i].type)
    <3>1. i \in b + 1 .. n /\ i \in 1 .. n
      BY <1>2, <1>3
    <3>2. upTo(T, i) = upTo(S, i)
      BY <2>3, <3>1, <1>1
    <3>3. Cardinality(upTo(S, i)) \in 1 .. Len(log)
      <4>1. IsFiniteSet(upTo(S, i)) /\ Cardinality(upTo(S, i)) <= Cardinality(S)
        BY <1>4, FS_Subset
      <4>2. Cardinality(upTo(S, i)) # 0
        <5>1. i \in upTo(S, i)
          BY <3>1
        <5> HIDE DEF upTo
        <5> QED
          BY <5>1, <4>1, FS_EmptySet
      <4> QED
        BY <4>1, <4>2, <1>4, <1>6, FS_CardinalityType
    <3> QED
      BY <3>1, <3>2, <3>3, <2>2, <1>1, <1>6
  <2>6. new[Cardinality(upTo(T, n + 1))].type = mapCoreEventType(c[n + 1].type)
    <3>1. upTo(T, n + 1) = T
      BY <2>3, <1>1, <1>3
    <3> QED
      BY <3>1, <2>1, <2>2, <2>4, <1>1, <1>6
  <2>7. Mirrors(new, c, b)
    BY <2>2, <2>3, <2>4, <2>5, <2>6, <1>6 DEF Mirrors
  <2> QED
    BY <2>2, <2>3, <2>7 DEF c
<1> QED
  BY <1>7, <1>8

Sent(a) == \E k \in DOMAIN a : a[k].type = "SUBMITTED"

LEMMA SentGrows ==
  ASSUME NEW a \in Seq(Event), NEW e \in Event
  PROVE  Sent(Append(a, e)) <=> Sent(a) \/ e.type = "SUBMITTED"
<1> DEFINE n == Len(a)
           c == Append(a, e)
<1>1. /\ n \in Nat /\ DOMAIN a = 1 .. n /\ DOMAIN c = 1 .. n + 1 /\ c[n + 1] = e
      /\ \A i \in 1 .. n : c[i] = a[i]
  OBVIOUS
<1> HIDE DEF c, n
<1>2. \A i \in 1 .. n + 1 : i \in 1 .. n \/ i = n + 1
  BY <1>1
<1>3. \A i \in 1 .. n : i \in 1 .. n + 1
  BY <1>1
<1> QED
  BY <1>1, <1>2, <1>3 DEF Sent, c

-----------------------------------------------------------------------------
\* A set of natural numbers that is not empty has a least one.
LEMMA LeastNumber ==
  ASSUME NEW S \in SUBSET Nat, S # {}
  PROVE  \E m \in S : \A k \in S : m <= k
<1>1. IsWellFoundedOn(OpToRel(<, Nat), Nat)
  BY NatLessThanWellFounded
<1>2. PICK m \in S : \A k \in S : ~(<<k, m>> \in OpToRel(<, Nat))
  BY <1>1, WFMin
<1>3. \A k \in S : ~(k < m)
  BY <1>2 DEF OpToRel
<1> QED
  BY <1>3

\* sum[k] is what the first k fills report, the entry's left out.
SumsTo(f, l, sum) ==
  sum = [k \in 0 .. l |-> IF k <= Entry THEN 0 ELSE sum[k - 1] + f[k]]

LEMMA SumExists ==
  ASSUME NEW f, NEW l \in Nat
  PROVE  \E sum : SumsTo(f, l, sum)
<1> DEFINE T == {k \in Nat : ~\E s : SumsTo(f, k, s)}
<1>1. SUFFICES ASSUME T # {} PROVE FALSE
  OBVIOUS
<1>2. PICK k \in T : \A j \in T : k <= j
  BY <1>1, LeastNumber
<1>3. k # 0
  <2> DEFINE s == [j \in 0 .. 0 |-> 0]
  <2>1. SumsTo(f, 0, s)
    BY DEF SumsTo, Entry
  <2> QED
    BY <2>1
<1>4. k - 1 \in Nat /\ k - 1 \notin T
  BY <1>2, <1>3
<1>5. PICK g : SumsTo(f, k - 1, g)
  BY <1>4
<1> DEFINE last == IF k <= Entry THEN 0 ELSE g[k - 1] + f[k]
           s == [j \in 0 .. k |-> IF j = k THEN last ELSE g[j]]
<1>6. ASSUME NEW j \in 0 .. k
      PROVE  s[j] = IF j <= Entry THEN 0 ELSE s[j - 1] + f[j]
  <2>1. CASE j = k
    <3>1. s[j] = last /\ s[j - 1] = g[k - 1]
      BY <1>3, <2>1
    <3> QED
      BY <2>1, <3>1
  <2>2. CASE j # k
    <3>1. j \in 0 .. (k - 1) /\ s[j] = g[j]
      BY <2>2
    <3>2. g[j] = IF j <= Entry THEN 0 ELSE g[j - 1] + f[j]
      BY <1>5, <3>1 DEF SumsTo
    <3>3. ~(j <= Entry) => s[j - 1] = g[j - 1]
      BY <3>1 DEF Entry
    <3> QED
      BY <3>1, <3>2, <3>3
  <2> QED
    BY <2>1, <2>2
<1>7. s = [j \in 0 .. k |-> s[j]]
  OBVIOUS
<1> HIDE DEF s
<1>8. SumsTo(f, k, s)
  BY <1>6, <1>7 DEF SumsTo
<1> QED
  BY <1>8

\* The partial sums behind ProtectiveFills.
LEMMA SumsOf ==
  ASSUME NEW f, Len(f) \in Nat
  PROVE  \E sum : SumsTo(f, Len(f), sum) /\ ProtectiveFills(f) = sum[Len(f)]
<1> DEFINE sum == CHOOSE s : SumsTo(f, Len(f), s)
<1>1. SumsTo(f, Len(f), sum)
  BY SumExists
<1>2. ProtectiveFills(f) = sum[Len(f)]
  BY DEF ProtectiveFills, SumsTo
<1> HIDE DEF sum
<1> QED
  BY <1>1, <1>2

\* A fill of q more on order k adds q to the sum, unless k is the entry.
LEMMA SumGrows ==
  ASSUME NEW f \in Seq(Int), NEW k \in 1 .. Len(f), NEW q \in Int
  PROVE  /\ ProtectiveFills(f) \in Int
         /\ ProtectiveFills([f EXCEPT ![k] = f[k] + q]) =
              ProtectiveFills(f) + (IF k = Entry THEN 0 ELSE q)
<1> DEFINE L == Len(f)
           g == [f EXCEPT ![k] = f[k] + q]
           add == IF k = Entry THEN 0 ELSE q
<1>1. /\ L \in Nat /\ k \in Nat /\ 1 <= k /\ k <= L
      /\ g \in Seq(Int) /\ Len(g) = L /\ g[k] = f[k] + q
      /\ \A j \in 1 .. L : f[j] \in Int /\ (j # k => g[j] = f[j])
  OBVIOUS
<1> HIDE DEF g
<1>2. PICK sf : SumsTo(f, L, sf) /\ ProtectiveFills(f) = sf[L]
  BY <1>1, SumsOf
<1>3. PICK sg : SumsTo(g, L, sg) /\ ProtectiveFills(g) = sg[L]
  BY <1>1, SumsOf
<1> HIDE DEF L
<1> DEFINE P(j) == sf[j] \in Int /\ sg[j] = sf[j] + (IF j < k THEN 0 ELSE add)
           T == {j \in 0 .. L : ~P(j)}
<1>4. ASSUME T # {} PROVE FALSE
  <2>1. PICK j \in T : \A i \in T : j <= i
    <3>1. T \in SUBSET Nat
      BY <1>1
    <3> HIDE DEF T
    <3> QED
      BY <3>1, <1>4, LeastNumber
  <2>2. j \in 0 .. L /\ ~P(j)
    BY <2>1
  <2>3. /\ sf[j] = IF j <= Entry THEN 0 ELSE sf[j - 1] + f[j]
        /\ sg[j] = IF j <= Entry THEN 0 ELSE sg[j - 1] + g[j]
    BY <2>2, <1>2, <1>3 DEF SumsTo
  <2>4. CASE j <= Entry
    BY <2>2, <2>3, <2>4, <1>1 DEF Entry
  <2>5. CASE ~(j <= Entry)
    <3>1. j - 1 \in 0 .. L /\ j \in 1 .. L /\ j > 1
      BY <2>2, <2>5, <1>1 DEF Entry
    <3>2. P(j - 1)
      BY <3>1, <2>1
    <3>3. f[j] \in Int /\ g[j] = IF j = k THEN f[j] + q ELSE f[j]
      BY <3>1, <1>1
    <3>4. /\ sf[j] = sf[j - 1] + f[j] /\ sg[j] = sg[j - 1] + g[j]
          /\ sf[j - 1] \in Int /\ sg[j - 1] = sf[j - 1] + (IF j - 1 < k THEN 0 ELSE add)
      BY <3>2, <2>3, <2>5
    <3>5. add \in Int /\ (j = k => add = q)
      BY <3>1 DEF Entry
    <3> HIDE DEF add
    <3>6. sf[j] \in Int /\ sg[j] = sf[j] + (IF j < k THEN 0 ELSE add)
      <4>1. /\ sf[j - 1] \in Int /\ f[j] \in Int /\ add \in Int /\ j \in Int /\ k \in Int
        BY <3>1, <3>3, <3>4, <3>5, <1>1
      <4>2. CASE j < k
        <5>1. g[j] = f[j] /\ sg[j - 1] = sf[j - 1] + 0
          BY <4>1, <4>2, <3>3, <3>4
        <5> QED
          BY <4>1, <4>2, <5>1, <3>4
      <4>3. CASE j = k
        <5>1. g[j] = f[j] + add /\ sg[j - 1] = sf[j - 1] + 0
          BY <4>1, <4>3, <3>3, <3>4, <3>5
        <5> QED
          BY <4>1, <4>3, <5>1, <3>4
      <4>4. CASE j > k
        <5>1. g[j] = f[j] /\ sg[j - 1] = sf[j - 1] + add
          BY <4>1, <4>4, <3>3, <3>4
        <5> QED
          BY <4>1, <4>4, <5>1, <3>4
      <4> QED
        BY <4>1, <4>2, <4>3, <4>4
    <3> QED
      BY <3>6, <2>2
  <2> QED
    BY <2>4, <2>5
<1>5. L \in 0 .. L
  BY <1>1
<1>6. P(L)
  BY <1>4, <1>5
<1> QED
  BY <1>1, <1>2, <1>3, <1>6 DEF g

\* Where no protective order has filled, the sum is zero.
LEMMA NothingFilled ==
  ASSUME NEW f \in Seq(Int), \A k \in DOMAIN f : f[k] = 0
  PROVE  ProtectiveFills(f) = 0
<1> DEFINE L == Len(f)
<1>1. L \in Nat /\ \A j \in 1 .. L : f[j] = 0
  OBVIOUS
<1>2. PICK sf : SumsTo(f, L, sf) /\ ProtectiveFills(f) = sf[L]
  BY <1>1, SumsOf
<1> HIDE DEF L
<1> DEFINE T == {j \in 0 .. L : sf[j] # 0}
<1>3. ASSUME T # {} PROVE FALSE
  <2>1. PICK j \in T : \A i \in T : j <= i
    <3>1. T \in SUBSET Nat
      BY <1>1
    <3> HIDE DEF T
    <3> QED
      BY <3>1, <1>3, LeastNumber
  <2>2. sf[j] = IF j <= Entry THEN 0 ELSE sf[j - 1] + f[j]
    BY <2>1, <1>2 DEF SumsTo
  <2>3. ~(j <= Entry) => j - 1 \in 0 .. L /\ j \in 1 .. L
    BY <2>1, <1>1 DEF Entry
  <2> QED
    BY <2>1, <2>2, <2>3, <1>1 DEF Entry
<1> QED
  BY <1>1, <1>2, <1>3

-----------------------------------------------------------------------------
\* What an accepted command records, and what it does to fills and position.
Records(s, t, type) ==
  t.audit = Append(s.audit, [type |-> type, from |-> s.status, to |-> t.status])

LEMMA ExitEffects ==
  ASSUME NEW s, Good(s)
  PROVE  /\ LET t == Kill(s).state
            IN /\ Records(s, t, "KILLED") /\ t.fills = s.fills /\ t.status = "CANCELLED"
               /\ t.position = closeIfOpen(s.position)
         /\ LET t == Cancel(s).state
            IN /\ Records(s, t, "CANCELLED") /\ t.fills = s.fills /\ t.status = "CANCELLED"
               /\ t.position = closeIfOpen(s.position)
         /\ LET t == RuntimeUnhealthy(s).state
            IN /\ Records(s, t, "FAILED") /\ t.fills = s.fills /\ t.status = "FAILED"
               /\ t.position = s.position
<1>1. /\ Typed(s) /\ {"KILLED", "CANCELLED", "FAILED"} \subseteq EventTypes
      /\ {"KILL_SWITCH", "CANCELLED", "RUNTIME_UNHEALTHY"} \subseteq Failures
      /\ "FAILED" \in ExitStatus
  BY DEF Good, EventTypes, Failures, ExitStatus
<1>2. ASSUME NEW type \in EventTypes, NEW failure \in Failures
      PROVE  LET t == exitAndClose(s, type, failure)
             IN /\ Records(s, t, type) /\ t.fills = s.fills /\ t.status = "CANCELLED"
                /\ t.position = closeIfOpen(s.position)
  <2> DEFINE t == exitAndClose(s, type, failure)
  <2>1. /\ t.status = "CANCELLED" /\ t.position = closeIfOpen(s.position) /\ t.fills = s.fills
        /\ t.audit = Append(s.audit, [type |-> type, from |-> s.status, to |-> "CANCELLED"])
    BY <1>1, ExitAndCloseFields
  <2> HIDE DEF t
  <2> QED
    BY <2>1 DEF Records, t
<1>3. LET t == exit(s, "FAILED", "FAILED", "RUNTIME_UNHEALTHY")
      IN /\ Records(s, t, "FAILED") /\ t.fills = s.fills /\ t.status = "FAILED"
         /\ t.position = s.position
  <2> DEFINE t == exit(s, "FAILED", "FAILED", "RUNTIME_UNHEALTHY")
  <2>1. /\ t.status = "FAILED" /\ t.position = s.position /\ t.fills = s.fills
        /\ t.audit = Append(s.audit, [type |-> "FAILED", from |-> s.status, to |-> "FAILED"])
    BY <1>1, ExitFields
  <2> HIDE DEF t
  <2> QED
    BY <2>1 DEF Records, t
<1>4. /\ Kill(s).state = exitAndClose(s, "KILLED", "KILL_SWITCH")
      /\ Cancel(s).state = exitAndClose(s, "CANCELLED", "CANCELLED")
      /\ RuntimeUnhealthy(s).state = exit(s, "FAILED", "FAILED", "RUNTIME_UNHEALTHY")
  BY DEF Kill, Cancel, RuntimeUnhealthy, Result
<1> QED
  BY <1>1, <1>2, <1>3, <1>4

LEMMA AdvanceEffects ==
  ASSUME NEW s, Good(s), NEW type \in EventTypes,
         NEW to \in {"READY", "SUBMITTED", "ACKNOWLEDGED"}
  PROVE  LET t == advance(s, type, to)
         IN /\ Records(s, t, type) /\ t.fills = s.fills /\ t.status = to
            /\ t.position = s.position
<1> DEFINE c == commit(s, type, to)
           o == transitionOrders(s.orders, to)
           t == advance(s, type, to)
<1>1. Typed(s) /\ to \in ExecutionStatus /\ to \in OrderStatus
  BY DEF Good, ExecutionStatus, OrderStatus, LiveOrderStatus
<1>2. /\ c \in ExecutionStates(s.intent) /\ c.status = to
      /\ c.position = s.position /\ c.fills = s.fills
      /\ c.audit = Append(s.audit, [type |-> type, from |-> s.status, to |-> to])
  BY <1>1, CommitFields
<1> HIDE DEF c, o
<1>3. t.status = to /\ t.position = s.position /\ t.audit = c.audit /\ t.fills = s.fills
  BY <1>2 DEF advance, ExecutionStates, c, o
<1> HIDE DEF t
<1> QED
  BY <1>2, <1>3 DEF Records, t

LEMMA OpenEffects ==
  ASSUME NEW s, Good(s), Open(s).ok
  PROVE  LET t == Open(s).state
         IN /\ Records(s, t, "OPENED") /\ t.fills = s.fills /\ t.status = "OPEN"
            /\ t.position.closed = 0 /\ t.position.entry > 0 /\ t.position.entry \in Int
            /\ t.position.status = "OPEN"
<1> DEFINE c == commit(s, "OPENED", "OPEN")
           p == openPosition(s.orders[Entry].filled)
           t == [c EXCEPT !.position = p]
<1>1. s.orders[Entry].filled > 0 /\ Open(s).state = t
  BY DEF Open, Result
<1>2. Typed(s) /\ "OPENED" \in EventTypes /\ "OPEN" \in ExecutionStatus
  BY DEF Good, EventTypes, ExecutionStatus
<1>3. /\ c \in ExecutionStates(s.intent) /\ c.status = "OPEN" /\ c.fills = s.fills
      /\ c.audit = Append(s.audit, [type |-> "OPENED", from |-> s.status, to |-> "OPEN"])
  BY <1>2, CommitFields
<1>4. p.closed = 0 /\ p.entry > 0 /\ p.entry \in Int /\ p.status = "OPEN"
  BY <1>1, <1>2, EntryExists DEF openPosition, Order
<1> HIDE DEF c, p
<1>5. t.status = "OPEN" /\ t.position = p /\ t.audit = c.audit /\ t.fills = s.fills
  BY <1>3 DEF ExecutionStates
<1> HIDE DEF t
<1> QED
  BY <1>1, <1>3, <1>4, <1>5 DEF Records

LEMMA FillEffects ==
  ASSUME NEW s, Good(s), NEW k \in DOMAIN s.orders, NEW q \in Int, Fill(s, k, q).ok
  PROVE  LET t == Fill(s, k, q).state
         IN /\ \E type \in EventTypes \ {"SUBMITTED"} : Records(s, t, type)
            /\ t.fills = [s.fills EXCEPT ![k] = s.fills[k] + q]
            /\ q > 0
            /\ k = Entry => /\ t.position = s.position /\ s.position.status = "NONE"
                            /\ t.status \in {"PARTIALLY_FILLED", "FILLED"}
            /\ k # Entry => /\ isOpen(s.position) /\ t.position = reducePosition(s.position, q)
                            /\ t.status \in {"CLOSED", "REDUCING"}
<1> DEFINE f == filledState(s, k, q)
           fl == [s.fills EXCEPT ![k] = s.fills[k] + q]
           to == IF applyFillToOrder(s.orders[k], q).status = "FILLED"
                 THEN "FILLED" ELSE "PARTIALLY_FILLED"
           p == reducePosition(s.position, q)
<1>1. Typed(s) /\ q > 0
  BY DEF Good, Fill, Result
<1>2. /\ Typed(f) /\ f.status = s.status /\ f.audit = s.audit /\ f.position = s.position
  BY <1>1, FilledFields
<1>3. f.fills = fl
  BY <1>1 DEF filledState, Typed, ExecutionStates
<1>4. CASE k = Entry
  <2>1. canTransition(s.status, to) /\ Fill(s, k, q).state = commit(f, to, to)
    BY <1>4 DEF Fill, Result, filledState
  <2>2. to \in {"PARTIALLY_FILLED", "FILLED"}
    OBVIOUS
  <2> HIDE DEF f, to, fl
  <2>3. to \in EventTypes \ {"SUBMITTED"} /\ to \in ExecutionStatus
    BY <2>2 DEF EventTypes, ExecutionStatus
  <2> DEFINE t == commit(f, to, to)
  <2>4. /\ t.status = to /\ t.fills = f.fills /\ t.position = f.position
        /\ t.audit = Append(f.audit, [type |-> to, from |-> f.status, to |-> to])
    BY <2>3, <1>2, CommitFields
  <2> HIDE DEF t
  <2>5. s.position.status = "NONE"
    BY <2>1, <2>2, EarlyHasNoPosition
  <2>6. Records(s, t, to)
    BY <2>4, <1>2 DEF Records
  <2> QED
    BY <2>1, <2>2, <2>3, <2>4, <2>5, <2>6, <1>1, <1>2, <1>3, <1>4 DEF t, fl
<1>5. CASE k # Entry
  <2> DEFINE type == IF p.status = "CLOSED" THEN "CLOSED" ELSE "REDUCED"
             st == IF p.status = "CLOSED" THEN "CLOSED" ELSE "REDUCING"
             c == commit(f, type, st)
             t == [c EXCEPT !.position = p]
  <2>1. isOpen(s.position) /\ Fill(s, k, q).state = reduced(f, p)
    BY <1>5 DEF Fill, Result, filledState
  <2>2. reduced(f, p) = t
    BY DEF reduced
  <2>3. type \in EventTypes \ {"SUBMITTED"} /\ st \in ExecutionStatus /\ st \in {"CLOSED", "REDUCING"}
    BY DEF EventTypes, ExecutionStatus, TERMINAL_STATUSES
  <2> HIDE DEF f, fl, p, type, st
  <2>4. /\ c \in ExecutionStates(f.intent) /\ c.status = st /\ c.fills = f.fills
        /\ c.audit = Append(f.audit, [type |-> type, from |-> f.status, to |-> st])
    BY <2>3, <1>2, CommitFields
  <2> HIDE DEF c
  <2>5. t.status = st /\ t.fills = c.fills /\ t.audit = c.audit /\ t.position = p
    BY <2>4 DEF ExecutionStates
  <2> HIDE DEF t
  <2>6. Records(s, t, type)
    BY <2>4, <2>5, <1>2 DEF Records
  <2> QED
    BY <2>1, <2>2, <2>3, <2>4, <2>5, <2>6, <1>1, <1>3, <1>5 DEF p, fl
<1> QED
  BY <1>4, <1>5

\* The log and the guard after a command that was recorded.
LEMMA RecordedIsMirrored ==
  ASSUME NEW s, Good(s), NEW t, Good(t), NEW type \in EventTypes, Records(s, t, type),
         NEW b \in Nat, b <= Len(s.audit), NEW log \in Seq(VenueEvent),
         Mirrors(log, s.audit, b), NEW order \in Nat
  PROVE  /\ Logged(log, type, order) \in Seq(VenueEvent) /\ b <= Len(t.audit)
         /\ Mirrors(Logged(log, type, order), t.audit, b)
         /\ LastType(t) = type
         /\ Sent(t.audit) <=> Sent(s.audit) \/ type = "SUBMITTED"
<1> DEFINE e == [type |-> type, from |-> s.status, to |-> t.status]
<1>1. s.audit \in Seq(Event) /\ s.status \in ExecutionStatus /\ t.status \in ExecutionStatus
  BY DEF Good, Typed, ExecutionStates
<1>2. e \in Event /\ e.type = type
  BY <1>1 DEF Event
<1>3. t.audit = Append(s.audit, e)
  BY DEF Records
<1> HIDE DEF e
<1>4. Len(t.audit) = Len(s.audit) + 1 /\ t.audit[Len(t.audit)] = e /\ Len(s.audit) \in Nat
  BY <1>1, <1>2, <1>3
<1>5. LastType(t) = type
  BY <1>2, <1>4 DEF LastType
<1>6. b <= Len(t.audit)
  BY <1>4
<1>7. /\ Logged(log, e.type, order) \in Seq(VenueEvent)
      /\ Mirrors(Logged(log, e.type, order), t.audit, b)
  BY <1>1, <1>2, <1>3, MirrorGrows
<1>8. Sent(t.audit) <=> Sent(s.audit) \/ type = "SUBMITTED"
  BY <1>1, <1>2, <1>3, SentGrows
<1> QED
  BY <1>2, <1>5, <1>6, <1>7, <1>8

\* What is closed is what protective fills reported, and they report nothing before
\* there is a position.
Reported(s) ==
  LET sum == ProtectiveFills(s.fills)
  IN /\ s.position.status = "NONE" => sum = 0
     /\ isOpen(s.position) \/ s.status = "CLOSED" =>
          s.position.closed = IF sum <= s.position.entry THEN sum ELSE s.position.entry

LEMMA FillsAre ==
  ASSUME NEW s, Typed(s)
  PROVE  /\ s.fills \in Seq(Int) /\ DOMAIN s.fills = 1 .. Len(s.fills)
         /\ DOMAIN s.orders = 1 .. Len(s.fills) /\ Len(s.fills) \in Nat
         /\ Entry \in 1 .. Len(s.fills)
<1>1. s.intent.targets \in 0 .. 3 /\ s.fills \in [OrdersOf(s.intent) -> Int]
  BY DEF Typed, Intent, ExecutionStates
<1> DEFINE n == 2 + s.intent.targets
<1>2. n \in Nat /\ n >= 2 /\ OrdersOf(s.intent) = 1 .. n
  BY <1>1 DEF OrdersOf
<1> HIDE DEF n
<1>3. s.fills \in [1 .. n -> Int]
  BY <1>1, <1>2
<1>4. s.fills \in Seq(Int) /\ Len(s.fills) = n
  BY <1>2, <1>3, SeqDef, LenProperties
<1>5. DOMAIN s.orders = 1 .. n /\ DOMAIN s.fills = 1 .. n
  BY <1>2, <1>3, EntryExists
<1> QED
  BY <1>2, <1>4, <1>5 DEF Entry

\* Commands that report no fill.
LEMMA ReportedKept ==
  ASSUME NEW s, Reported(s), NEW t, t.fills = s.fills, t.status # "CLOSED",
         t.position = s.position \/ t.position = closeIfOpen(s.position),
         s.position \in Position
  PROVE  Reported(t)
<1>1. CASE t.position = s.position
  BY <1>1 DEF Reported
<1>2. CASE t.position = closeIfOpen(s.position) /\ isOpen(s.position)
  <2>1. t.position.status = "CLOSED"
    BY <1>2 DEF closeIfOpen, closePosition, Position
  <2> QED
    BY <2>1 DEF Reported, isOpen
<1>3. CASE t.position = closeIfOpen(s.position) /\ ~isOpen(s.position)
  BY <1>3 DEF Reported, closeIfOpen
<1> QED
  BY <1>1, <1>2, <1>3

LEMMA ReportedByFill ==
  ASSUME NEW s, Good(s), Reported(s), NEW k \in DOMAIN s.orders, NEW q \in Int,
         Fill(s, k, q).ok
  PROVE  Reported(Fill(s, k, q).state)
<1> DEFINE t == Fill(s, k, q).state
           sum == ProtectiveFills(s.fills)
<1>1. /\ t.fills = [s.fills EXCEPT ![k] = s.fills[k] + q]
      /\ q > 0
      /\ k = Entry => /\ t.position = s.position /\ s.position.status = "NONE"
                      /\ t.status \in {"PARTIALLY_FILLED", "FILLED"}
      /\ k # Entry => /\ isOpen(s.position) /\ t.position = reducePosition(s.position, q)
                      /\ t.status \in {"CLOSED", "REDUCING"}
  BY FillEffects
<1> HIDE DEF t
<1>2. Typed(s) /\ s.position \in Position
  BY EntryExists DEF Good
<1>3. s.fills \in Seq(Int) /\ k \in 1 .. Len(s.fills)
  BY <1>2, FillsAre
<1>4. /\ sum \in Int
      /\ ProtectiveFills(t.fills) = sum + (IF k = Entry THEN 0 ELSE q)
  BY <1>1, <1>3, SumGrows
<1>5. CASE k = Entry
  <2>1. ProtectiveFills(t.fills) = sum
    BY <1>4, <1>5
  <2> QED
    BY <2>1, <1>1, <1>5 DEF Reported, isOpen, t
<1>6. CASE k # Entry
  <2> DEFINE p == s.position
             r == reducePosition(p, q)
             closed == IF p.closed + q <= p.entry THEN p.closed + q ELSE p.entry
  <2>1. p.closed \in Int /\ p.entry \in Int /\ q > 0
    BY <1>1, <1>2 DEF Position
  <2>2. r.closed = closed /\ r.entry = p.entry /\ r.status \in {"CLOSED", "REDUCING"}
    BY <2>1, <1>2 DEF reducePosition, Position
  <2>3. p.closed = IF sum <= p.entry THEN sum ELSE p.entry
    BY <1>1, <1>6 DEF Reported
  <2> HIDE DEF sum, p
  <2>4. closed = IF sum + q <= p.entry THEN sum + q ELSE p.entry
    BY <2>1, <2>3, <1>4
  <2> HIDE DEF closed, r
  <2>5. t.position = r /\ ProtectiveFills(t.fills) = sum + q
    BY <1>1, <1>4, <1>6 DEF r, p
  <2> QED
    BY <2>2, <2>4, <2>5 DEF Reported, isOpen, t
<1> QED
  BY <1>5, <1>6

LEMMA ReportedByOpen ==
  ASSUME NEW s, Good(s), Reported(s), s.status = "FILLED", Open(s).ok
  PROVE  Reported(Open(s).state)
<1> DEFINE t == Open(s).state
<1>1. s.position.status = "NONE"
  BY DEF Good, NoEarlyPosition
<1>2. /\ t.fills = s.fills /\ t.position.closed = 0 /\ t.position.entry > 0
      /\ t.position.entry \in Int /\ t.position.status = "OPEN"
  BY OpenEffects
<1> HIDE DEF t
<1>3. Reported(t)
  BY <1>1, <1>2 DEF Reported
<1> QED
  BY <1>3 DEF t

-----------------------------------------------------------------------------
SessionInv ==
  /\ Good(exec) /\ Reported(exec)
  /\ base \in Nat /\ base <= Len(exec.audit)
  /\ events \in Seq(VenueEvent) /\ Mirrors(events, exec.audit, base)
  /\ submitted \in BOOLEAN /\ (submitted <=> Sent(exec.audit))

LEMMA EmitIs ==
  ASSUME NEW t, NEW order, Emit(t, order)
  PROVE  events' = Logged(events, LastType(t), order)
  BY DEF Emit, Logged

\* A call that drives the core by one command, other than SUBMIT, and logs it.
LEMMA OneCommand ==
  ASSUME SessionInv, NEW t, Good(t), Reported(t),
         NEW type \in EventTypes \ {"SUBMITTED"}, Records(exec, t, type),
         NEW order \in Nat, exec' = t, Emit(t, order), UNCHANGED <<submitted, base>>
  PROVE  SessionInv'
<1>1. /\ Logged(events, type, order) \in Seq(VenueEvent) /\ base <= Len(t.audit)
      /\ Mirrors(Logged(events, type, order), t.audit, base)
      /\ LastType(t) = type
      /\ Sent(t.audit) <=> Sent(exec.audit) \/ type = "SUBMITTED"
  BY RecordedIsMirrored DEF SessionInv
<1>2. events' = Logged(events, type, order)
  BY <1>1, EmitIs
<1> QED
  BY <1>1, <1>2 DEF SessionInv

LEMMA SessionInit == Init => SessionInv
<1> SUFFICES ASSUME Init PROVE SessionInv
  OBVIOUS
<1>1. PICK i \in Intents, killEngaged, runtimeHealthy \in BOOLEAN :
        exec = createExecution(i, killEngaged, runtimeHealthy)
  BY DEF Init, CoreInit
<1> DEFINE z == initExecutionState(i)
           p == Plan(z).state
<1>2. i \in Intent /\ Good(p) /\ Good(exec)
  BY <1>1, ExecutionAssumption, GoodPlanned, InitGood
<1>3. /\ p.status = "PLANNED" /\ p.fills = z.fills /\ p.position = z.position
      /\ p.audit = Append(<<>>, [type |-> "PLANNED", from |-> "NOT_CREATED", to |-> "PLANNED"])
  BY DEF Plan, Result, commit, initExecutionState
<1>4. z.position.status = "NONE" /\ \A k \in DOMAIN z.fills : z.fills[k] = 0
  BY DEF initExecutionState, emptyPosition
<1>5. exec \in {Kill(p).state, RuntimeUnhealthy(p).state, p}
  BY <1>1 DEF createExecution
<1> HIDE DEF z, p
<1>6. Reported(p)
  <2>1. ProtectiveFills(p.fills) = 0
    BY <1>2, <1>3, <1>4, FillsAre, NothingFilled DEF Good
  <2> QED
    BY <2>1, <1>3, <1>4 DEF Reported, isOpen
<1>7. Reported(exec)
  <2>1. p.position \in Position
    BY <1>2, EntryExists DEF Good
  <2>2. CASE exec = Kill(p).state
    BY <2>1, <2>2, <1>2, <1>6, ExitEffects, ReportedKept
  <2>3. CASE exec = RuntimeUnhealthy(p).state
    BY <2>1, <2>3, <1>2, <1>6, ExitEffects, ReportedKept
  <2> QED
    BY <2>2, <2>3, <1>5, <1>6
<1>8. ~Sent(exec.audit)
  <2> DEFINE e == [type |-> "PLANNED", from |-> "NOT_CREATED", to |-> "PLANNED"]
  <2>1. e \in Event /\ e.type = "PLANNED" /\ <<>> \in Seq(Event) /\ ~Sent(<<>>)
    BY DEF Event, EventTypes, ExecutionStatus, Sent
  <2>2. ~Sent(p.audit)
    <3>1. p.audit = Append(<<>>, e) /\ e.type # "SUBMITTED"
      BY <1>3
    <3> HIDE DEF e
    <3> QED
      BY <2>1, <3>1, SentGrows
  <2>3. ASSUME NEW type \in EventTypes \ {"SUBMITTED"}, Records(p, exec, type)
        PROVE  ~Sent(exec.audit)
    <3> DEFINE f == [type |-> type, from |-> p.status, to |-> exec.status]
    <3>1. /\ p.audit \in Seq(Event) /\ p.status \in ExecutionStatus
          /\ exec.status \in ExecutionStatus
      BY <1>2 DEF Good, Typed, ExecutionStates
    <3>2. f \in Event /\ f.type = type
      BY <3>1 DEF Event
    <3>3. exec.audit = Append(p.audit, f)
      BY <2>3 DEF Records
    <3> HIDE DEF f
    <3> QED
      BY <2>2, <3>1, <3>2, <3>3, SentGrows
  <2>4. Records(p, Kill(p).state, "KILLED") /\ Records(p, RuntimeUnhealthy(p).state, "FAILED")
    BY <1>2, ExitEffects
  <2>5. {"KILLED", "FAILED"} \subseteq EventTypes \ {"SUBMITTED"}
    BY DEF EventTypes
  <2> QED
    BY <2>2, <2>3, <2>4, <2>5, <1>5
<1>9. exec.audit \in Seq(Event) /\ base = Len(exec.audit) /\ base \in Nat
  BY <1>2 DEF Init, Good, Typed, ExecutionStates
<1>10. Mirrors(<<>>, exec.audit, base)
  <2>1. base + 1 .. Len(exec.audit) = {}
    BY <1>9
  <2>2. Crossing(exec.audit, base) = {}
    BY <2>1 DEF Crossing
  <2> QED
    BY <2>2, FS_EmptySet DEF Mirrors
<1>11. /\ events \in Seq(VenueEvent) /\ Mirrors(events, exec.audit, base)
       /\ submitted \in BOOLEAN /\ ~submitted
  <2>1. events = <<>> /\ submitted = FALSE
    BY DEF Init
  <2>2. events \in Seq(VenueEvent)
    BY <2>1
  <2>3. Mirrors(events, exec.audit, base)
    BY <2>1, <1>10
  <2> QED
    BY <2>1, <2>2, <2>3, Zenon
<1> QED
  BY <1>2, <1>7, <1>8, <1>9, <1>11 DEF SessionInv

LEMMA SessionStep == SessionInv /\ [Next]_vars => SessionInv'
<1> SUFFICES ASSUME SessionInv, [Next]_vars PROVE SessionInv'
  OBVIOUS
<1>1. /\ Good(exec) /\ Reported(exec) /\ base \in Nat /\ base <= Len(exec.audit)
      /\ events \in Seq(VenueEvent) /\ Mirrors(events, exec.audit, base)
      /\ submitted \in BOOLEAN /\ (submitted <=> Sent(exec.audit))
  BY DEF SessionInv
<1>2. exec.position \in Position
  BY <1>1, EntryExists DEF Good
<1>3. NoOrder \in Nat
  BY DEF NoOrder
<1>4. {"KILLED", "FAILED", "CANCELLED", "ACKNOWLEDGED", "ARMED", "OPENED"}
        \subseteq EventTypes \ {"SUBMITTED"} /\ "SUBMITTED" \in EventTypes
  BY DEF EventTypes
<1>5. CASE SubmitBlocked
  <2>1. CASE Kill(exec).ok /\ exec' = Kill(exec).state /\ Emit(Kill(exec).state, NoOrder)
    <3> DEFINE t == Kill(exec).state
    <3>1. Good(t)
      BY <2>1, <1>1, GoodKill
    <3>2. Records(exec, t, "KILLED") /\ Reported(t)
      BY <1>1, <1>2, ExitEffects, ReportedKept
    <3>3. exec' = t /\ Emit(t, NoOrder) /\ UNCHANGED <<submitted, base>>
      BY <2>1, <1>5 DEF SubmitBlocked
    <3> HIDE DEF t
    <3> QED
      BY <3>1, <3>2, <3>3, <1>3, <1>4, OneCommand
  <2>2. CASE RuntimeUnhealthy(exec).ok /\ exec' = RuntimeUnhealthy(exec).state
             /\ Emit(RuntimeUnhealthy(exec).state, NoOrder)
    <3> DEFINE t == RuntimeUnhealthy(exec).state
    <3>1. Good(t)
      BY <2>2, <1>1, GoodRuntimeUnhealthy
    <3>2. Records(exec, t, "FAILED") /\ Reported(t)
      BY <1>1, <1>2, ExitEffects, ReportedKept
    <3>3. exec' = t /\ Emit(t, NoOrder) /\ UNCHANGED <<submitted, base>>
      BY <2>2, <1>5 DEF SubmitBlocked
    <3> HIDE DEF t
    <3> QED
      BY <3>1, <3>2, <3>3, <1>3, <1>4, OneCommand
  <2> QED
    BY <2>1, <2>2, <1>5 DEF SubmitBlocked
<1>6. CASE SubmitOrders
  <2> DEFINE a == Arm(exec).state
             t == Submit(a).state
  <2>1. /\ Arm(exec).ok /\ Submit(a).ok /\ exec' = t /\ Emit(t, NoOrder)
        /\ submitted' = TRUE /\ base' = base
    BY <1>6 DEF SubmitOrders
  <2>2. Good(a) /\ Good(t)
    BY <2>1, <1>1, GoodSubmitting
  <2>3. a = advance(exec, "ARMED", "READY") /\ t = advance(a, "SUBMITTED", "SUBMITTED")
    BY DEF Arm, Submit, Result
  <2> HIDE DEF a, t
  <2>4. Records(exec, a, "ARMED") /\ Reported(a) /\ a.position \in Position
    <3>1. /\ Records(exec, a, "ARMED") /\ a.fills = exec.fills /\ a.status = "READY"
          /\ a.position = exec.position
      BY <2>3, <1>1, <1>4, AdvanceEffects
    <3> QED
      BY <3>1, <1>1, <1>2, ReportedKept
  <2>5. Records(a, t, "SUBMITTED") /\ Reported(t)
    <3>1. /\ Records(a, t, "SUBMITTED") /\ t.fills = a.fills /\ t.status = "SUBMITTED"
          /\ t.position = a.position
      BY <2>2, <2>3, <1>4, AdvanceEffects
    <3> QED
      BY <3>1, <2>4, ReportedKept
  <2>6. Logged(events, "ARMED", NoOrder) = events
    BY DEF Logged, mapCoreEventType, NoEvent
  <2>7. base <= Len(a.audit) /\ Mirrors(events, a.audit, base)
    BY <2>2, <2>4, <2>6, <1>1, <1>3, <1>4, RecordedIsMirrored
  <2>8. /\ Logged(events, "SUBMITTED", NoOrder) \in Seq(VenueEvent) /\ base <= Len(t.audit)
        /\ Mirrors(Logged(events, "SUBMITTED", NoOrder), t.audit, base)
        /\ LastType(t) = "SUBMITTED" /\ Sent(t.audit)
    BY <2>2, <2>5, <2>7, <1>1, <1>3, <1>4, RecordedIsMirrored
  <2>9. events' = Logged(events, "SUBMITTED", NoOrder)
    BY <2>1, <2>8, EmitIs
  <2> QED
    BY <2>1, <2>2, <2>5, <2>8, <2>9, <1>1 DEF SessionInv
<1>7. CASE AcknowledgeOrders
  <2> DEFINE t == Acknowledge(exec).state
  <2>1. Good(t)
    BY <1>1, <1>7, GoodSubmitting DEF AcknowledgeOrders
  <2>2. t = advance(exec, "ACKNOWLEDGED", "ACKNOWLEDGED")
    BY DEF Acknowledge, Result
  <2>3. exec' = t /\ Emit(t, NoOrder) /\ UNCHANGED <<submitted, base>>
    BY <1>7 DEF AcknowledgeOrders
  <2> HIDE DEF t
  <2>4. /\ Records(exec, t, "ACKNOWLEDGED") /\ t.fills = exec.fills
        /\ t.status = "ACKNOWLEDGED" /\ t.position = exec.position
    BY <2>2, <1>1, <1>4, AdvanceEffects
  <2>5. Reported(t)
    BY <2>4, <1>1, <1>2, ReportedKept
  <2> QED
    BY <2>1, <2>3, <2>4, <2>5, <1>3, <1>4, OneCommand
<1>8. CASE \E k \in DOMAIN exec.orders, q \in Quantities : FillOrder(k, q)
  <2>1. PICK k \in DOMAIN exec.orders, q \in Quantities : FillOrder(k, q)
    BY <1>8
  <2> DEFINE f == Fill(exec, k, q).state
             o == Open(f).state
  <2>2. /\ Fill(exec, k, q).ok /\ Emit(f, k) /\ UNCHANGED <<submitted, base>>
        /\ \/ f.status = "FILLED" /\ Open(f).ok /\ exec' = o
           \/ exec' = f
    BY <2>1 DEF FillOrder
  <2>3. q \in Int /\ k \in Nat
    <3>1. k \in 1 .. Len(exec.fills)
      BY <1>1, FillsAre DEF Good
    <3>2. Len(exec.fills) \in Nat
      BY <1>1, FillsAre DEF Good
    <3> QED
      BY <3>1, <3>2, ExecutionAssumption
  <2>4. Good(f) /\ Reported(f)
    BY <2>2, <2>3, <1>1, GoodFill, ReportedByFill
  <2>5. PICK type \in EventTypes \ {"SUBMITTED"} : Records(exec, f, type)
    BY <2>2, <2>3, <1>1, FillEffects
  <2>6. CASE exec' = f
    <3> HIDE DEF f
    <3> QED
      BY <2>2, <2>3, <2>4, <2>5, <2>6, OneCommand
  <2>7. CASE f.status = "FILLED" /\ Open(f).ok /\ exec' = o
    <3>1. Good(o) /\ Reported(o) /\ Records(f, o, "OPENED")
      <4> HIDE DEF f
      <4> QED
        BY <2>4, <2>7, GoodOpen, ReportedByOpen, OpenEffects
    <3> HIDE DEF f, o
    <3>2. /\ Logged(events, type, k) \in Seq(VenueEvent) /\ base <= Len(f.audit)
          /\ Mirrors(Logged(events, type, k), f.audit, base)
          /\ LastType(f) = type
          /\ Sent(f.audit) <=> Sent(exec.audit) \/ type = "SUBMITTED"
      BY <2>3, <2>4, <2>5, <1>1, RecordedIsMirrored
    <3> DEFINE log == Logged(events, type, k)
    <3>3. Logged(log, "OPENED", NoOrder) = log
      BY DEF Logged, mapCoreEventType, NoEvent
    <3>4. events' = log
      BY <2>2, <3>2, EmitIs
    <3>5. log \in Seq(VenueEvent) /\ Mirrors(log, f.audit, base)
      BY <3>2
    <3> HIDE DEF log
    <3>6. /\ base <= Len(o.audit) /\ Mirrors(Logged(log, "OPENED", NoOrder), o.audit, base)
          /\ Sent(o.audit) <=> Sent(f.audit) \/ "OPENED" = "SUBMITTED"
      <4>1. "OPENED" \in EventTypes /\ base <= Len(f.audit)
        BY <1>4, <3>2
      <4> QED
        BY <2>4, <3>1, <3>5, <4>1, <1>1, <1>3, RecordedIsMirrored
    <3> QED
      BY <2>2, <2>7, <3>1, <3>2, <3>3, <3>4, <3>5, <3>6, <1>1 DEF SessionInv
  <2> QED
    BY <2>2, <2>6, <2>7
<1>9. ASSUME Cancel(exec).ok, exec' = Cancel(exec).state, Emit(Cancel(exec).state, NoOrder),
             UNCHANGED <<submitted, base>>
      PROVE  SessionInv'
  <2> DEFINE t == Cancel(exec).state
  <2>1. Good(t)
    BY <1>1, <1>9, GoodCancel
  <2>2. Records(exec, t, "CANCELLED") /\ Reported(t)
    BY <1>1, <1>2, ExitEffects, ReportedKept
  <2>3. exec' = t /\ Emit(t, NoOrder)
    BY <1>9
  <2> HIDE DEF t
  <2> QED
    BY <2>1, <2>2, <2>3, <1>3, <1>4, <1>9, OneCommand
<1>10. CASE CancelExecution
  BY <1>9, <1>10 DEF CancelExecution
<1>11. CASE Shutdown
  <2>1. CASE UNCHANGED <<exec, events>>
    BY <2>1, <1>1, <1>11 DEF Shutdown, SessionInv
  <2> QED
    BY <2>1, <1>9, <1>11 DEF Shutdown
<1>12. CASE UNCHANGED vars
  BY <1>1, <1>12 DEF vars, SessionInv
<1> QED
  BY <1>5, <1>6, <1>7, <1>8, <1>10, <1>11, <1>12 DEF Next

\* Through every sequence of adapter calls, those that drive the core twice or silently
\* included, the session's log is the audit as the venue should see it, its guard
\* against a second submit is set exactly when the orders went out, and the position has
\* closed what protective fills reported.
THEOREM SessionIsFaithful == Spec => []SessionMirrorsCore
<1>1. SessionInv => SessionMirrorsCore
  <2> SUFFICES ASSUME SessionInv PROVE SessionMirrorsCore
    OBVIOUS
  <2>1. CoreTypeOK
    BY DEF SessionInv, Good, CoreTypeOK
  <2>2. EventsMirrorAudit /\ SubmittedMeansSent
    BY DEF SessionInv, EventsMirrorAudit, SubmittedMeansSent, Sent
  <2>3. ClosedWasReported
    BY DEF SessionInv, Reported, ClosedWasReported
  <2> QED
    BY <2>1, <2>2, <2>3 DEF SessionMirrorsCore
<1> QED
  BY <1>1, SessionInit, SessionStep, PTL DEF Spec

=============================================================================
