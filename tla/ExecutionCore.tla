--------------------------- MODULE ExecutionCore ---------------------------
(***************************************************************************)
(* packages/execution-core: one execution, created from a served decision  *)
(* and its trade plan, and advanced command by command by the reducer      *)
(* reduceExecution.  Each command is an operator from a state to a result: *)
(* ok is FALSE when the reducer rejects the command, and then the state is *)
(* the one it was given.                                                   *)
(*                                                                         *)
(* Quantities are integers in units of 10^-8, the precision the code       *)
(* rounds to.  Order 1 is the ENTRY, order 2 the STOP, the others are the  *)
(* TARGETs; the reducer treats STOP and TARGET alike.  Prices, ids, clocks *)
(* and the sign of the direction are left out, and an order's fills are    *)
(* kept as the sum of their quantities.                                    *)
(***************************************************************************)
EXTENDS Integers, Sequences

CONSTANTS
  Intents,      \* what a decision and its plan say about a trade
  Quantities,   \* quantities that fills and reductions report
  MaxEvents     \* bound on the length of the audit

NoSize == -1    \* a null position size

Intent == [tradeable : BOOLEAN, scored : BOOLEAN, entry : BOOLEAN, stop : BOOLEAN,
           targets : 0 .. 3, size : Nat \cup {NoSize}]

ASSUME ExecutionAssumption ==
  /\ Intents \subseteq Intent
  /\ Quantities \subseteq Int
  /\ MaxEvents \in Nat

-----------------------------------------------------------------------------
TERMINAL_STATUSES == {"CLOSED", "REJECTED", "EXPIRED", "CANCELLED", "FAILED"}

ExecutionStatus ==
  {"NOT_CREATED", "PLANNED", "READY", "SUBMITTED", "ACKNOWLEDGED",
   "PARTIALLY_FILLED", "FILLED", "OPEN", "REDUCING"} \cup TERMINAL_STATUSES

EXEC_TRANSITIONS(s) ==
  CASE s = "NOT_CREATED"  -> {"PLANNED", "REJECTED", "CANCELLED", "FAILED"}
    [] s = "PLANNED"      -> {"READY", "REJECTED", "EXPIRED", "CANCELLED", "FAILED"}
    [] s = "READY"        -> {"SUBMITTED", "REJECTED", "EXPIRED", "CANCELLED", "FAILED"}
    [] s = "SUBMITTED"    -> {"ACKNOWLEDGED", "REJECTED", "EXPIRED", "CANCELLED", "FAILED"}
    [] s = "ACKNOWLEDGED" -> {"PARTIALLY_FILLED", "FILLED", "REJECTED", "EXPIRED",
                              "CANCELLED", "FAILED"}
    [] s = "PARTIALLY_FILLED" -> {"PARTIALLY_FILLED", "FILLED", "CANCELLED", "FAILED"}
    [] s = "FILLED"       -> {"OPEN", "CANCELLED", "FAILED"}
    [] s = "OPEN"         -> {"REDUCING", "CLOSED", "CANCELLED", "FAILED"}
    [] s = "REDUCING"     -> {"REDUCING", "OPEN", "CLOSED", "CANCELLED", "FAILED"}
    [] OTHER              -> {}

canTransition(from, to) == to \in EXEC_TRANSITIONS(from)

LiveOrderStatus == {"PLANNED", "READY", "SUBMITTED", "ACKNOWLEDGED", "PARTIALLY_FILLED"}
OrderStatus == LiveOrderStatus \cup {"FILLED", "CANCELLED", "REJECTED", "EXPIRED", "FAILED"}

\* Orders are created PLANNED.
ORDER_TRANSITIONS(s) ==
  CASE s = "PLANNED"      -> {"READY", "CANCELLED", "REJECTED", "EXPIRED", "FAILED"}
    [] s = "READY"        -> {"SUBMITTED", "CANCELLED", "REJECTED", "EXPIRED", "FAILED"}
    [] s = "SUBMITTED"    -> {"ACKNOWLEDGED", "REJECTED", "CANCELLED", "EXPIRED", "FAILED"}
    [] s = "ACKNOWLEDGED" -> {"PARTIALLY_FILLED", "FILLED", "CANCELLED", "REJECTED",
                              "EXPIRED", "FAILED"}
    [] s = "PARTIALLY_FILLED" -> {"PARTIALLY_FILLED", "FILLED", "CANCELLED", "FAILED"}
    [] OTHER              -> {}

\* Mutant: an order that has begun to fill is left alone.
transitionOrder_NotPartial(o, to) ==
  IF to \in ORDER_TRANSITIONS(o.status) /\ o.status # "PARTIALLY_FILLED"
  THEN [o EXCEPT !.status = to] ELSE o

\* An order that may not make the transition stays as it is.
transitionOrder(o, to) ==
  IF to \in ORDER_TRANSITIONS(o.status) THEN [o EXCEPT !.status = to] ELSE o

transitionOrders(orders, to) == [k \in DOMAIN orders |-> transitionOrder(orders[k], to)]

\* The cumulative quantity is clamped to the order's.
applyFillToOrder(o, quantity) ==
  LET filled == IF o.quantity = NoSize \/ o.filled + quantity <= o.quantity
                THEN o.filled + quantity ELSE o.quantity
      next   == IF o.quantity # NoSize /\ filled >= o.quantity
                THEN "FILLED" ELSE "PARTIALLY_FILLED"
  IN [o EXCEPT !.filled = filled,
               !.status = IF next \in ORDER_TRANSITIONS(o.status) THEN next ELSE o.status]

-----------------------------------------------------------------------------
\* The remaining exposure is entry - closed.
emptyPosition == [status |-> "NONE", entry |-> 0, closed |-> 0]

openPosition(filled) ==
  [status |-> IF filled > 0 THEN "OPEN" ELSE "OPENING", entry |-> filled, closed |-> 0]

\* Mutant: a reduction is not clamped to the remaining exposure.
reducePosition_Unclamped(p, quantity) ==
  LET add    == IF quantity > 0 THEN quantity ELSE 0
      closed == p.closed + add
  IN [p EXCEPT !.status = IF p.entry - closed <= 0 THEN "CLOSED" ELSE "REDUCING",
               !.closed = closed]

reducePosition(p, quantity) ==
  LET add    == IF quantity > 0 THEN quantity ELSE 0
      closed == IF p.closed + add <= p.entry THEN p.closed + add ELSE p.entry
  IN [p EXCEPT !.status = IF p.entry - closed <= 0 THEN "CLOSED" ELSE "REDUCING",
               !.closed = closed]

\* Mutant: what was closed before is forgotten.
closePosition_Reset(p) == [p EXCEPT !.status = "CLOSED", !.closed = 0]

closePosition(p) == [p EXCEPT !.status = "CLOSED", !.closed = p.entry]

isOpen(p) == p.status \in {"OPEN", "REDUCING"}

closeIfOpen(p) == IF isOpen(p) THEN closePosition(p) ELSE p

-----------------------------------------------------------------------------
\* Equal parts rounded to the unit, the remainder to the last.
splitQuantity(total, n) ==
  LET per == (2 * total + n) \div (2 * n)
  IN [k \in 1 .. n |-> IF total = NoSize THEN NoSize
                       ELSE IF k < n THEN per ELSE total - per * (n - 1)]

\* Mutant: the stop is not asked for.
checkSubmittable_NoStop(i) == i.tradeable /\ i.scored /\ i.entry /\ i.targets > 0

checkSubmittable(i) ==
  i.tradeable /\ i.scored /\ i.entry /\ i.stop /\ i.targets > 0

\* Mutant: an order is not planned yet when it is made.
makeOrder_NotCreated(quantity) ==
  [quantity |-> quantity, filled |-> 0, status |-> "NOT_CREATED"]

makeOrder(quantity) == [quantity |-> quantity, filled |-> 0, status |-> "PLANNED"]

Entry == 1
OrdersOf(i) == 1 .. 2 + i.targets

buildExecutionPlan(i) ==
  [k \in OrdersOf(i) |->
     makeOrder(IF k <= 2 THEN i.size ELSE splitQuantity(i.size, i.targets)[k - 2])]

initExecutionState(i) ==
  [intent |-> i, status |-> "NOT_CREATED", orders |-> buildExecutionPlan(i),
   fills |-> [k \in OrdersOf(i) |-> 0], position |-> emptyPosition,
   failure |-> "none", audit |-> <<>>]

\* A transition and its one audit event.
commit(s, type, to) ==
  [s EXCEPT !.status = to,
            !.audit = Append(s.audit, [type |-> type, from |-> s.status, to |-> to])]

Result(ok, s) == [ok |-> ok, state |-> s]

\* The exits: the orders that may still move are terminated.
exit(s, type, to, failure) ==
  [commit(s, type, to) EXCEPT !.orders = transitionOrders(s.orders, to),
                              !.failure = failure]

exitAndClose(s, type, failure) ==
  [exit(s, type, "CANCELLED", failure) EXCEPT !.position = closeIfOpen(s.position)]

isTerminal(status) == status \in TERMINAL_STATUSES

Kill(s) == Result(~isTerminal(s.status), exitAndClose(s, "KILLED", "KILL_SWITCH"))

\* No position is closed.
RuntimeUnhealthy(s) ==
  Result(~isTerminal(s.status), exit(s, "FAILED", "FAILED", "RUNTIME_UNHEALTHY"))

Plan(s) == Result(canTransition(s.status, "PLANNED"), commit(s, "PLANNED", "PLANNED"))

\* A transition that takes every order along.
advance(s, type, to) ==
  [commit(s, type, to) EXCEPT !.orders = transitionOrders(s.orders, to)]

Arm(s) ==
  Result(canTransition(s.status, "READY") /\ checkSubmittable(s.intent),
         advance(s, "ARMED", "READY"))

Submit(s) ==
  Result(canTransition(s.status, "SUBMITTED") /\ checkSubmittable(s.intent),
         advance(s, "SUBMITTED", "SUBMITTED"))

Acknowledge(s) ==
  Result(canTransition(s.status, "ACKNOWLEDGED"),
         advance(s, "ACKNOWLEDGED", "ACKNOWLEDGED"))

\* A reduced position: the execution follows the position's status.
reduced(s, position) ==
  IF position.status = "CLOSED"
  THEN [commit(s, "CLOSED", "CLOSED") EXCEPT !.position = position]
  ELSE [commit(s, "REDUCED", "REDUCING") EXCEPT !.position = position]

\* reduceFill: a fill of the entry moves the execution, a fill of another order
\* reduces the open position by the whole quantity reported.
Fill(s, k, quantity) ==
  LET order   == applyFillToOrder(s.orders[k], quantity)
      to      == IF order.status = "FILLED" THEN "FILLED" ELSE "PARTIALLY_FILLED"
      filled  == [s EXCEPT !.orders = [s.orders EXCEPT ![k] = order],
                           !.fills = [s.fills EXCEPT ![k] = s.fills[k] + quantity]]
      onEntry == Result(canTransition(s.status, to), commit(filled, to, to))
      next    == reduced(filled, reducePosition(s.position, quantity))
      onExit  == Result(isOpen(s.position) /\ canTransition(s.status, next.status), next)
      result  == IF k = Entry THEN onEntry ELSE onExit
  IN Result(/\ ~isTerminal(s.status)
            /\ k \in DOMAIN s.orders /\ quantity > 0
            /\ result.ok, result.state)

Open(s) ==
  Result(canTransition(s.status, "OPEN") /\ s.orders[Entry].filled > 0,
         [commit(s, "OPENED", "OPEN") EXCEPT
            !.position = openPosition(s.orders[Entry].filled)])

\* Mutant: a reduction only asks for an open position.
Reduce_AnyStatus(s, quantity) ==
  Result(isOpen(s.position), reduced(s, reducePosition(s.position, quantity)))

Reduce(s, quantity) ==
  Result(canTransition(s.status, "REDUCING") /\ isOpen(s.position),
         reduced(s, reducePosition(s.position, quantity)))

Close(s) ==
  Result(canTransition(s.status, "CLOSED"),
         [commit(s, "CLOSED", "CLOSED") EXCEPT
            !.orders = transitionOrders(s.orders, "CANCELLED"),
            !.position = closePosition(s.position)])

Cancel(s) ==
  Result(canTransition(s.status, "CANCELLED"), exitAndClose(s, "CANCELLED", "CANCELLED"))

Reject(s) ==
  Result(canTransition(s.status, "REJECTED"), exit(s, "REJECTED", "REJECTED", "REJECTED"))

Expire(s) ==
  Result(canTransition(s.status, "EXPIRED"), exit(s, "EXPIRED", "EXPIRED", "EXPIRED"))

Fail(s) ==
  Result(canTransition(s.status, "FAILED"), exit(s, "FAILED", "FAILED", "FAILED"))

\* createExecution plans the execution, and ends it at once when the kill switch is
\* engaged or the runtime is not healthy.
createExecution(i, killEngaged, runtimeHealthy) ==
  LET planned == Plan(initExecutionState(i)).state
  IN IF killEngaged THEN Kill(planned).state
     ELSE IF ~runtimeHealthy THEN RuntimeUnhealthy(planned).state
     ELSE planned

-----------------------------------------------------------------------------
VARIABLE exec    \* the ExecutionState

CoreInit ==
  \E i \in Intents, killEngaged, runtimeHealthy \in BOOLEAN :
    exec = createExecution(i, killEngaged, runtimeHealthy)

\* An accepted command; a rejected one changes nothing.
Advance(result) ==
  /\ Len(exec.audit) < MaxEvents
  /\ result.ok
  /\ exec' = result.state

CoreNext ==
  \/ Advance(Kill(exec))
  \/ Advance(RuntimeUnhealthy(exec))
  \/ Advance(Arm(exec))
  \/ Advance(Submit(exec))
  \/ Advance(Acknowledge(exec))
  \/ \E k \in DOMAIN exec.orders, q \in Quantities : Advance(Fill(exec, k, q))
  \/ Advance(Open(exec))
  \/ \E q \in Quantities : Advance(Reduce(exec, q))
  \/ Advance(Close(exec))
  \/ Advance(Cancel(exec))
  \/ Advance(Reject(exec))
  \/ Advance(Expire(exec))
  \/ Advance(Fail(exec))

CoreSpec == CoreInit /\ [][CoreNext]_exec

-----------------------------------------------------------------------------
Failures == {"none", "KILL_SWITCH", "RUNTIME_UNHEALTHY", "CANCELLED", "REJECTED",
             "EXPIRED", "FAILED"}
EventTypes == {"PLANNED", "ARMED", "SUBMITTED", "ACKNOWLEDGED", "PARTIALLY_FILLED",
               "FILLED", "OPENED", "REDUCED", "CLOSED", "CANCELLED", "REJECTED",
               "EXPIRED", "FAILED", "KILLED"}

Order    == [quantity : Int, filled : Int, status : OrderStatus]
Position == [status : {"NONE", "OPENING", "OPEN", "REDUCING", "CLOSED"},
             entry : Int, closed : Int]
Event    == [type : EventTypes, from : ExecutionStatus, to : ExecutionStatus]

ExecutionStates(i) ==
  [intent : {i}, status : ExecutionStatus, orders : [OrdersOf(i) -> Order],
   fills : [OrdersOf(i) -> Int], position : Position, failure : Failures,
   audit : Seq(Event)]

Typed(s) == s.intent \in Intent /\ s \in ExecutionStates(s.intent)

LegalWalk(s) ==
  /\ s.audit # <<>> /\ s.audit[1].from = "NOT_CREATED"
  /\ s.status = s.audit[Len(s.audit)].to
  /\ \A k \in DOMAIN s.audit : canTransition(s.audit[k].from, s.audit[k].to)
  /\ \A k \in 2 .. Len(s.audit) : s.audit[k].from = s.audit[k - 1].to

NoneWorking(s) ==
  s.status \in TERMINAL_STATUSES \ {"CLOSED"} =>
    \A k \in DOMAIN s.orders : s.orders[k].status \notin LiveOrderStatus

FromEntry(s) ==
  LET p == s.position
  IN /\ p.status # "NONE" => p.entry = s.orders[Entry].filled /\ p.entry > 0
     /\ 0 <= p.closed /\ p.closed <= p.entry
     /\ isOpen(p) => p.closed < p.entry /\ s.status \in {"OPEN", "REDUCING", "FAILED"}
     /\ s.status \in {"OPEN", "REDUCING"} => isOpen(p)
     /\ s.status = "CLOSED" => p.status = "CLOSED" /\ p.closed = p.entry

Gated(s) ==
  ~(s.intent.tradeable /\ s.intent.stop /\ s.intent.targets > 0) =>
    /\ s.position.status = "NONE"
    /\ \A k \in DOMAIN s.orders :
         s.orders[k].filled = 0 /\ s.orders[k].status # "SUBMITTED"

CoreTypeOK == Typed(exec)

\* The audit is a walk through the documented state machine, from creation to the
\* present status.  Several commands are guarded by another transition than the one
\* they commit (KILL and RUNTIME_UNHEALTHY by none, REDUCE by REDUCING when it
\* closes).
AuditIsLegalWalk == LegalWalk(exec)

\* Killed, cancelled, rejected, expired or failed, an execution leaves no order
\* working.  An order that has begun to fill may be neither rejected nor expired, so
\* this rests on no execution being rejected or expired that late.
NoWorkingOrder == NoneWorking(exec)

\* A position is the whole filled entry and is never over-closed; the execution is
\* OPEN or REDUCING exactly while exposure remains in it, or it has failed with the
\* position still open, and it is CLOSED only when nothing remains.
PositionFromEntry == FromEntry(exec)

\* Nothing is submitted, filled or opened for a decision that is not tradeable or a
\* plan without a stop and a target, by whatever sequence of commands.
OnlySubmittableTrades == Gated(exec)

\* The whole life of an execution is legal under every sequence of commands: the
\* audit walks the documented machine, an end leaves no order working, and what may
\* not be submitted never trades.
LegalLife == AuditIsLegalWalk /\ NoWorkingOrder /\ OnlySubmittableTrades

=============================================================================
