---------------------------- MODULE PaperAdapter ----------------------------
(***************************************************************************)
(* packages/execution-adapter: the runtime's only access to an execution.  *)
(* An adapter method drives the core by one or two commands as one step    *)
(* and logs the events that cross the venue boundary.  The PAPER adapter   *)
(* relays injected acknowledgements and fills; the NULL adapter refuses    *)
(* everything but a shutdown.  A refused call changes nothing.             *)
(***************************************************************************)
EXTENDS ExecutionCore, FiniteSets

CONSTANT Kinds   \* the adapter kinds createAdapter may return

ASSUME AdapterAssumption == Kinds \subseteq {"PAPER", "NULL"}

VARIABLES
  kind,
  health,      \* session.status: READY, UNAVAILABLE or SHUTDOWN
  submitted,   \* the duplicate-submit guard
  events,      \* the session's event log
  base         \* history: the length of the audit when the session was created

vars == <<exec, kind, health, submitted, events, base>>

\* createSession around a freshly created execution.
Init ==
  /\ CoreInit
  /\ kind \in Kinds
  /\ health = IF kind = "PAPER" THEN "READY" ELSE "UNAVAILABLE"
  /\ submitted = FALSE
  /\ events = <<>>
  /\ base = Len(exec.audit)

-----------------------------------------------------------------------------
NoEvent == "none"

\* What the venue sees of a core event.
mapCoreEventType(type) ==
  CASE type \in {"PARTIALLY_FILLED", "REDUCED"} -> "PARTIAL_FILL"
    [] type = "CLOSED" -> "FILLED"
    [] type \in {"CANCELLED", "KILLED"} -> "CANCELLED"
    [] type \in {"PLANNED", "ARMED", "OPENED"} -> NoEvent
    [] OTHER -> type

LastType(s) == s.audit[Len(s.audit)].type

\* driveAndEmit: the core takes the command and its event, if any, is logged.
Emit(s, order) ==
  events' = IF mapCoreEventType(LastType(s)) = NoEvent THEN events
            ELSE Append(events, [type |-> mapCoreEventType(LastType(s)), order |-> order])

NoOrder == 0     \* the event is about the whole execution

\* The gates every mutating method of the paper adapter shares.
Usable == /\ kind = "PAPER" /\ health # "SHUTDOWN"
          /\ ~isTerminal(exec.status)
          /\ Len(exec.audit) < MaxEvents

\* submit() under a kill switch or an unhealthy runtime ends the execution instead.
SubmitBlocked ==
  /\ Usable /\ ~submitted
  /\ \E stop \in {Kill(exec), RuntimeUnhealthy(exec)} :
       stop.ok /\ exec' = stop.state /\ Emit(stop.state, NoOrder)
  /\ UNCHANGED <<kind, health, submitted, base>>

\* Mutant: the session does not remember its submission.
SubmitOrders_NotRemembered ==
  /\ Usable /\ ~submitted
  /\ checkSubmittable(exec.intent)
  /\ LET armed == Arm(exec)
         sent  == Submit(armed.state)
     IN /\ armed.ok /\ sent.ok
        /\ exec' = sent.state
        /\ Emit(sent.state, NoOrder)
  /\ UNCHANGED <<kind, health, submitted, base>>

\* ARM, silently, then SUBMIT; either refusal leaves the session as it was.
SubmitOrders ==
  /\ Usable /\ ~submitted
  /\ checkSubmittable(exec.intent)
  /\ LET armed == Arm(exec)
         sent  == Submit(armed.state)
     IN /\ armed.ok /\ sent.ok
        /\ exec' = sent.state
        /\ Emit(sent.state, NoOrder)
  /\ submitted' = TRUE
  /\ UNCHANGED <<kind, health, base>>

AcknowledgeOrders ==
  /\ Usable /\ submitted
  /\ Acknowledge(exec).ok
  /\ exec' = Acknowledge(exec).state
  /\ Emit(Acknowledge(exec).state, NoOrder)
  /\ UNCHANGED <<kind, health, submitted, base>>

\* Mutant: the event logged is that of the last command.
FillOrder_EmitLast(k, quantity) ==
  /\ Usable /\ submitted
  /\ LET filled == Fill(exec, k, quantity)
         opened == Open(filled.state)
         last   == IF filled.state.status = "FILLED" /\ opened.ok
                   THEN opened.state ELSE filled.state
     IN filled.ok /\ exec' = last /\ Emit(last, k)
  /\ UNCHANGED <<kind, health, submitted, base>>

\* A filled entry opens the position, silently, if it can.
FillOrder(k, quantity) ==
  /\ Usable /\ submitted
  /\ LET filled == Fill(exec, k, quantity)
         opened == Open(filled.state)
     IN /\ filled.ok
        /\ exec' = IF filled.state.status = "FILLED" /\ opened.ok
                   THEN opened.state ELSE filled.state
        /\ Emit(filled.state, k)
  /\ UNCHANGED <<kind, health, submitted, base>>

\* cancel() of any order, or cancelAll(): both cancel the whole execution.
CancelExecution ==
  /\ Usable
  /\ Cancel(exec).ok
  /\ exec' = Cancel(exec).state
  /\ Emit(Cancel(exec).state, NoOrder)
  /\ UNCHANGED <<kind, health, submitted, base>>

\* Mutant: a live execution survives the shutdown.
Shutdown_KeepExecution ==
  /\ health # "SHUTDOWN"
  /\ health' = "SHUTDOWN"
  /\ UNCHANGED <<exec, kind, submitted, events, base>>

\* The paper adapter cancels a live execution first.  A second shutdown is a no-op.
Shutdown ==
  /\ health # "SHUTDOWN"
  /\ IF kind = "PAPER" /\ Cancel(exec).ok
     THEN exec' = Cancel(exec).state /\ Emit(Cancel(exec).state, NoOrder)
     ELSE UNCHANGED <<exec, events>>
  /\ health' = "SHUTDOWN"
  /\ UNCHANGED <<kind, submitted, base>>

Next ==
  \/ SubmitBlocked \/ SubmitOrders
  \/ AcknowledgeOrders
  \/ \E k \in DOMAIN exec.orders, q \in Quantities : FillOrder(k, q)
  \/ CancelExecution
  \/ Shutdown

Spec == Init /\ [][Next]_vars

-----------------------------------------------------------------------------
\* The audit events since the session began that cross the venue boundary.
Crossing(audit, from) ==
  {i \in from + 1 .. Len(audit) : mapCoreEventType(audit[i].type) # NoEvent}

Mirrors(log, audit, from) ==
  LET crossing == Crossing(audit, from)
  IN /\ Len(log) = Cardinality(crossing)
     /\ \A i \in crossing : log[Cardinality({j \in crossing : j <= i})].type =
                              mapCoreEventType(audit[i].type)

\* The event log is exactly what the venue should see of the audit since the session
\* began: nothing lost, invented, doubled or reordered, through all the methods that
\* drive the core silently or twice.
EventsMirrorAudit == kind \in Kinds => Mirrors(events, exec.audit, base)

\* The guard against a second submit is set exactly when the orders went out.
SubmittedMeansSent ==
  kind \in Kinds =>
  (submitted <=> \E k \in DOMAIN exec.audit : exec.audit[k].type = "SUBMITTED")

\* A paper session that is shut down leaves nothing running.
ShutdownEnds == kind = "PAPER" /\ health = "SHUTDOWN" => isTerminal(exec.status)

\* What is closed of a position is what protective fills reported, up to the whole
\* position, until something closes it at once.
ProtectiveFills(f) == LET sum[k \in 0 .. Len(f)] ==
                            IF k <= Entry THEN 0 ELSE sum[k - 1] + f[k]
                      IN sum[Len(f)]
ClosedWasReported ==
  kind \in Kinds /\ (isOpen(exec.position) \/ exec.status = "CLOSED") =>
    LET reported == ProtectiveFills(exec.fills)
    IN exec.position.closed = IF reported <= exec.position.entry
                              THEN reported ELSE exec.position.entry

\* An open position only shrinks ("then reduces as protective orders fill, and
\* CLOSES when net exposure reaches zero"), since a session opens only a filled entry.
remaining(s) == s.position.entry - s.position.closed
ExposureNeverGrows ==
  [][exec.position.status # "NONE" /\ kind \in Kinds =>
       remaining(exec') <= remaining(exec)]_exec

\* The session and the core it drives say the same: the event log is the audit as
\* the venue should see it, the guard against a second submit is set exactly when
\* the orders went out, and what was closed is what fills reported.
SessionMirrorsCore ==
  CoreTypeOK /\ EventsMirrorAudit /\ SubmittedMeansSent /\ ClosedWasReported

=============================================================================
