---------------------------- MODULE ControlPlane ----------------------------
(***************************************************************************)
(* The production control plane of the worker: the pure evaluators of      *)
(* packages/control (protection rules, runtime state machine, trading      *)
(* permission, recovery aggregation), the ControlPlane orchestrator that   *)
(* runs them once per tick and persists the consequences, the boot         *)
(* sequence, and the control gate in front of every order.                 *)
(*                                                                         *)
(* evaluate() is one action per awaited database call, because any of them *)
(* can reject and abandon the evaluation half way, and because operators   *)
(* (kill, resume) and the environment act between two awaits.              *)
(*                                                                         *)
(* Abstractions.  A lag in seconds is its band: "none" (no observation),   *)
(* "fresh" (<= warningSeconds), "warning" (<= staleSeconds) or "stale".    *)
(* The age of the permission snapshot is one bit, older than               *)
(* maxPermissionAgeMs or not.  One protection rule exists per component,   *)
(* so a rule is named by its component.  Audit rows are not kept; a failed *)
(* audit write is a failure of the step it belongs to.                     *)
(***************************************************************************)
EXTENDS Naturals, Sequences, FiniteSets

CONSTANTS
  Infra,            \* probed components, "database" among them
  Streams,          \* freshness-derived components, "execution" among them
  ProbeResults,     \* ProbeResults[c]: what the probe of c may report
  FlakyReads,       \* reads whose rejection evaluate() catches on its own
  MaxOpenIncidents, \* bound on OPEN incident rows
  Crashes           \* TRUE when the worker process may die and restart

Health == {"healthy", "degraded", "failing", "unknown"}
Lag    == {"none", "fresh", "warning", "stale"}

Components == Infra \cup Streams \cup {"risk"}

\* Reads of gatherControlInputs and verifyRecovery that never reject upwards.
CaughtReads == (Streams \ {"execution"}) \cup {"kill"}

ASSUME ComponentsAssumption ==
  /\ "database" \in Infra
  /\ "execution" \in Streams
  /\ Infra \cap Streams = {}
  /\ "risk" \notin Infra \cup Streams
ASSUME EnvironmentAssumption ==
  /\ ProbeResults \in [Infra -> SUBSET Health]
  /\ FlakyReads \subseteq CaughtReads
  /\ MaxOpenIncidents \in Nat
  /\ Crashes \in BOOLEAN

RuntimeStates == {"BOOTING", "STARTING", "HEALTHY", "DEGRADED", "PROTECTED",
                  "STOPPED", "RECOVERING", "FAILED"}

VARIABLES
  \* the world
  health,        \* what a probe of each infra component would report now
  lag,           \* freshness band of each stream (execution: worker memory)
  riskActive,    \* risk engine armed and not halted
  \* the control tables
  kill,          \* controlKillSwitch.engaged
  dbState,       \* state of the newest runtimeStateTransition row
  incidents,     \* OPEN incident rows, newest first
  events,        \* components with an ACTIVE protectionEvent row
  \* the worker process
  pc,            \* where the worker is (see PcValues)
  lastState, lastActive, permission, permissionOld,
  armed,         \* an execution stage was built
  filled,        \* this tick produced a fill
  ev,            \* locals of the running (or last) evaluate()
  gateKill       \* kill switch value the gate read for the current order

world  == <<health, lag, riskActive>>
tables == <<kill, dbState, incidents, events>>
memory == <<lastState, lastActive, permission, permissionOld, armed>>
order  == <<filled, gateKill>>
vars   == <<world, tables, pc, memory, order, ev>>

PcValues == {"down", "boot", "validate", "failed", "armed", "idle",
             "recRecord", "recAudit", "verify", "clear", "sync", "upsert",
             "record", "audit", "pipeline", "gateRead", "approved"}

\* The awaits of evaluate() at which a rejected database call abandons it.
EvalSteps == {"recRecord", "recAudit", "verify", "clear", "sync", "upsert",
              "record", "audit"}

DbUp == health["database"] # "failing"

-----------------------------------------------------------------------------
(***************************************************************************)
(* The pure evaluators of packages/control.                                *)
(***************************************************************************)

infraDown(h)         == h \in {"failing", "unknown"}
freshnessBreached(l) == l = "stale"
streamFresh(l)       == l \in {"fresh", "warning"}

\* The active rules, each named by its component.
evaluateProtectionRules(in) ==
       {c \in Infra : infraDown(in.health[c])}
  \cup {s \in Streams : freshnessBreached(in.lag[s])}
  \cup {r \in {"risk"} : ~in.risk}

isDegraded(in) ==
  \/ \E c \in Infra : in.health[c] = "degraded"
  \/ \E s \in Streams : in.lag[s] = "warning"

\* Every permission check except runtime_state.  A stream never observed is not
\* fresh, save execution, which may place its first order.
permissionEvidence(in) ==
  /\ \A c \in Infra : in.health[c] = "healthy"
  /\ \A s \in Streams \ {"execution"} : streamFresh(in.lag[s])
  /\ ~freshnessBreached(in.lag["execution"])
  /\ in.risk
  /\ ~in.kill

\* Mutants: the runtime_state check is forgotten; the state is returned instead
\* of the verdict.
evaluateTradingPermission_NoState(evidence, state) ==
  IF evidence THEN "ALLOWED" ELSE "BLOCKED"
evaluateTradingPermission_State(evidence, state) ==
  IF evidence THEN state ELSE "BLOCKED"

evaluateTradingPermission(evidence, state) ==
  IF evidence /\ state = "HEALTHY" THEN "ALLOWED" ELSE "BLOCKED"

\* Mutant: an active rule takes precedence over the kill switch.
deriveRuntimeState_RulesFirst(prev, killEngaged, active, degraded, recovery) ==
  IF active # {} THEN "PROTECTED"
  ELSE IF killEngaged THEN "STOPPED"
  ELSE IF prev \in {"PROTECTED", "RECOVERING"}
       THEN IF recovery = "true" THEN "HEALTHY"
            ELSE IF recovery = "false" THEN "PROTECTED" ELSE "RECOVERING"
  ELSE IF degraded THEN "DEGRADED" ELSE "HEALTHY"

deriveRuntimeState(prev, killEngaged, active, degraded, recovery) ==
  IF killEngaged THEN "STOPPED"
  ELSE IF active # {} THEN "PROTECTED"
  ELSE IF prev \in {"PROTECTED", "RECOVERING"}
       THEN IF recovery = "true" THEN "HEALTHY"
            ELSE IF recovery = "false" THEN "PROTECTED" ELSE "RECOVERING"
  ELSE IF degraded THEN "DEGRADED" ELSE "HEALTHY"

recoveryOutcome(targets, verified) ==
  IF targets \subseteq verified THEN "true" ELSE "false"

-----------------------------------------------------------------------------
\* The locals of evaluate() once it is over; active, which the properties look
\* at, stays until the end of the tick.  kill is how the kill-switch read went.
EvaluationOver(active) ==
  [first |-> FALSE, active |-> active, degraded |-> FALSE, kill |-> "clear",
   evidence |-> FALSE, prev |-> "BOOTING", recovery |-> "null",
   verified |-> {}, old |-> FALSE]

NoEvaluation == EvaluationOver({})

EvalNext ==
  deriveRuntimeState(ev.prev, ev.kill = "engaged", ev.active, ev.degraded,
                     ev.recovery)

HasOpen      == incidents # <<>>
OpenReadable == HasOpen /\ Head(incidents).readable

Init ==
  /\ health = [c \in Infra |-> "healthy"]
  /\ lag = [s \in Streams |-> "none"]
  /\ riskActive = FALSE
  /\ kill = FALSE
  /\ dbState = "BOOTING"
  /\ incidents = <<>>
  /\ events = {}
  /\ pc = "down"
  /\ lastState = "BOOTING"
  /\ lastActive = {}
  /\ permission = "null"
  /\ permissionOld = FALSE
  /\ armed = FALSE
  /\ filled = FALSE
  /\ ev = NoEvaluation
  /\ gateKill = FALSE

-----------------------------------------------------------------------------
(***************************************************************************)
(* Boot: BOOTING -> STARTING -> startup validation -> armed, or FAILED.    *)
(***************************************************************************)

\* A new process reads the persisted state (a failed read falls back to BOOTING)
\* and records BOOTING.  A rejected write ends main(), hence the DbUp guard.
BootBooting ==
  /\ pc = "down" /\ DbUp
  /\ dbState' = "BOOTING"
  /\ lastState' = "BOOTING"
  /\ pc' = "boot"
  /\ UNCHANGED <<world, kill, incidents, events, lastActive, permission,
                 permissionOld, armed, order, ev>>

BootStarting ==
  /\ pc = "boot" /\ DbUp
  /\ dbState' = "STARTING"
  /\ lastState' = "STARTING"
  /\ pc' = "validate"
  /\ UNCHANGED <<world, kill, incidents, events, lastActive, permission,
                 permissionOld, armed, order, ev>>

\* validateStartup: the database may be slow, redis and quant must be healthy,
\* the control and freshness tables readable.
startupPassed ==
  /\ health["database"] \in {"healthy", "degraded"}
  /\ \A c \in Infra \ {"database"} : health[c] = "healthy"

\* Startup validated: buildExecution may still leave execution unarmed (journal
\* recovery, market data, broker or ledger refused), then no risk engine exists.
BootArm ==
  /\ pc = "validate" /\ startupPassed
  /\ \E a, r \in BOOLEAN :
       /\ r => a
       /\ armed' = a
       /\ riskActive' = r
  /\ pc' = "armed"
  /\ UNCHANGED <<health, lag, tables, lastState, lastActive, permission,
                 permissionOld, order, ev>>

BootFail ==
  /\ pc = "validate" /\ ~startupPassed /\ DbUp
  /\ dbState' = "FAILED"
  /\ lastState' = "FAILED"
  /\ pc' = "failed"
  /\ UNCHANGED <<world, kill, incidents, events, lastActive, permission,
                 permissionOld, armed, order, ev>>

-----------------------------------------------------------------------------
(***************************************************************************)
(* evaluate()                                                              *)
(***************************************************************************)

\* What gatherControlInputs returns when the reads in lost were rejected.
gatherControlInputs(lost) ==
  [health |-> health,
   lag    |-> [s \in Streams |-> IF s \in lost THEN "none" ELSE lag[s]],
   risk   |-> riskActive,
   kill   |-> kill /\ "kill" \notin lost]

LostReads == IF DbUp THEN SUBSET FlakyReads ELSE {CaughtReads}

\* The tick timer fires (or main() runs the first evaluation): gather, evaluate
\* the protection rules, and decide whether a recovery has to be verified.
Gather ==
  /\ pc \in {"armed", "idle"}
  /\ \E lost \in LostReads :
       LET in == gatherControlInputs(lost)
           active == evaluateProtectionRules(in)
           leaving == /\ lastState \in {"PROTECTED", "RECOVERING"}
                      /\ active = {} /\ ~in.kill
       IN /\ ev' = [first |-> pc = "armed", active |-> active,
                    degraded |-> isDegraded(in),
                    kill |-> IF "kill" \in lost THEN "failed"
                             ELSE IF in.kill THEN "engaged" ELSE "clear",
                    evidence |-> permissionEvidence(in),
                    prev |-> lastState, recovery |-> "null",
                    verified |-> {}, old |-> FALSE]
          /\ pc' = IF ~leaving THEN "clear"
                   ELSE IF lastState = "PROTECTED" THEN "recRecord" ELSE "verify"
  /\ UNCHANGED <<world, tables, memory, order>>

\* commitTransition(RECOVERING): the row, then the audit entry, then memory.
RecordRecovering ==
  /\ pc = "recRecord" /\ DbUp
  /\ dbState' = "RECOVERING"
  /\ pc' = "recAudit"
  /\ UNCHANGED <<world, kill, incidents, events, memory, order, ev>>

AuditRecovering ==
  /\ pc = "recAudit" /\ DbUp
  /\ lastState' = "RECOVERING"
  /\ ev' = [ev EXCEPT !.prev = "RECOVERING"]
  /\ pc' = "verify"
  /\ UNCHANGED <<world, tables, lastActive, permission, permissionOld, armed,
                 order>>

\* verifyRecovery(c): does the re-probe of c pass, given the lost reads?
verifyRecovery(c, lost) ==
  IF c = "database" THEN ~infraDown(health[c])
  ELSE IF c \in Infra THEN health[c] = "healthy"
  ELSE IF c \in Streams THEN c \notin lost /\ streamFresh(lag[c])
  ELSE riskActive

\* Mutants: the open incident is not consulted; every component is verified.
recoveryTargets_LastOnly == lastActive
recoveryTargets_All      == Components

\* The components to verify: active last evaluation, or in the open incident.
recoveryTargets ==
  lastActive \cup (IF HasOpen THEN Head(incidents).affected ELSE {})

\* A corrupt open incident row makes recovery unverifiable: it counts as failed.
VerifyRecovery ==
  /\ pc = "verify" /\ DbUp
  /\ \E lost \in LostReads :
       LET verified == {c \in recoveryTargets : verifyRecovery(c, lost)}
       IN ev' = IF HasOpen /\ ~OpenReadable
                THEN [ev EXCEPT !.recovery = "false"]
                ELSE [ev EXCEPT
                        !.recovery = recoveryOutcome(recoveryTargets, verified),
                        !.verified = verified]
  /\ pc' = "clear"
  /\ UNCHANGED <<world, tables, memory, order>>

\* Mutant: cleared rules are resolved only when no rule is active.
ResolveProtectionEventsExcept_AllClear ==
  /\ pc = "clear" /\ DbUp
  /\ events' = IF ev.active = {} THEN {} ELSE events
  /\ pc' = "sync"
  /\ UNCHANGED <<world, kill, dbState, incidents, memory, order, ev>>

\* resolveProtectionEventsExcept(active), after the pure deriveRuntimeState.
ResolveProtectionEventsExcept ==
  /\ pc = "clear" /\ DbUp
  /\ events' = events \cap ev.active
  /\ pc' = "sync"
  /\ UNCHANGED <<world, kill, dbState, incidents, memory, order, ev>>

\* Mutant: the transition of a verified recovery is not persisted.
AfterSync_SkipVerified ==
  IF EvalNext # ev.prev /\ ev.recovery # "true" THEN "record" ELSE "audit"

\* What follows the table synchronisation: record a transition if there is one.
AfterSync == IF EvalNext # ev.prev THEN "record" ELSE "audit"

\* Mutant: an incident is opened only when HEALTHY is left.
SyncOpen_FromHealthy ==
  /\ pc = "sync" /\ DbUp
  /\ EvalNext = "PROTECTED" /\ ev.active # {}
  /\ IF OpenReadable \/ ev.prev # "HEALTHY"
     THEN UNCHANGED incidents
     ELSE incidents' = <<[affected |-> ev.active, readable |-> TRUE]>>
                         \o incidents
  /\ pc' = "upsert"
  /\ UNCHANGED <<world, kill, dbState, events, memory, order, ev>>

\* syncIncidentAndProtections, PROTECTED with active rules: open an incident
\* unless a readable one is open, then upsert one event per active rule.
SyncOpen ==
  /\ pc = "sync" /\ DbUp
  /\ EvalNext = "PROTECTED" /\ ev.active # {}
  /\ IF OpenReadable
     THEN UNCHANGED incidents
     ELSE incidents' = <<[affected |-> ev.active, readable |-> TRUE]>>
                         \o incidents
  /\ pc' = "upsert"
  /\ UNCHANGED <<world, kill, dbState, events, memory, order, ev>>

UpsertProtectionEvent ==
  /\ pc = "upsert" /\ DbUp
  /\ \E c \in ev.active :
       /\ events' = events \cup {c}
       /\ pc' = IF ev.active \subseteq events' THEN AfterSync ELSE "upsert"
  /\ UNCHANGED <<world, kill, dbState, incidents, memory, order, ev>>

\* Mutant: no resolution after an operator stop.
resolvesIncident_VerifiedOnly(prev, next) ==
  next = "HEALTHY" /\ prev \in {"RECOVERING", "PROTECTED"}

\* The two resolution sites: recovery verified, or operator resume after a stop.
resolvesIncident(prev, next) ==
  \/ next = "HEALTHY" /\ prev \in {"RECOVERING", "PROTECTED"}
  \/ prev = "STOPPED" /\ next \in {"HEALTHY", "DEGRADED"}

\* A corrupt newest row is left OPEN, the state change goes ahead.
SyncResolve ==
  /\ pc = "sync" /\ DbUp
  /\ ~(EvalNext = "PROTECTED" /\ ev.active # {})
  /\ incidents' = IF resolvesIncident(ev.prev, EvalNext) /\ OpenReadable
                  THEN Tail(incidents) ELSE incidents
  /\ pc' = AfterSync
  /\ UNCHANGED <<world, kill, dbState, events, memory, order, ev>>

RecordTransition ==
  /\ pc = "record" /\ DbUp
  /\ dbState' = EvalNext
  /\ pc' = "audit"
  /\ UNCHANGED <<world, kill, incidents, events, memory, order, ev>>

\* The audit write of the transition (when there was one) and the synchronous
\* end of evaluate(): memory takes the new state, rules and permission.
FinishEvaluation ==
  /\ pc = "audit"
  /\ EvalNext # ev.prev => DbUp
  /\ lastState' = EvalNext
  /\ lastActive' = ev.active
  /\ permission' = evaluateTradingPermission(ev.evidence, EvalNext)
  /\ permissionOld' = (ev.old /\ EvalNext = "HEALTHY")
  /\ ev' = EvaluationOver(ev.active)
  /\ pc' = IF ev.first THEN "idle" ELSE "pipeline"
  /\ UNCHANGED <<world, tables, armed, order>>

\* A rejected database call: tick() catches the error and runs the pipeline on
\* the previous snapshot; in main() the first evaluation's error is fatal.
EvaluateThrows ==
  /\ pc \in EvalSteps /\ ~DbUp
  /\ pc = "audit" => EvalNext # ev.prev
  /\ ~ev.first
  /\ ev' = EvaluationOver(ev.active)
  /\ pc' = "pipeline"
  /\ UNCHANGED <<world, tables, memory, order>>

-----------------------------------------------------------------------------
(***************************************************************************)
(* The rest of the tick: each proposal passes the control gate, then the   *)
(* risk gate, then reaches the adapter.                                    *)
(***************************************************************************)

\* The gate's live read of the kill switch; a rejected read denies the order.
GateRead ==
  /\ pc = "pipeline" /\ armed /\ DbUp
  /\ gateKill' = kill
  /\ pc' = "gateRead"
  /\ UNCHANGED <<world, tables, memory, filled, ev>>

\* Mutants: the gate trusts the snapshot for the kill switch; it only looks at
\* the kill switch.
gateApproves_SnapshotOnly == permission = "ALLOWED" /\ ~permissionOld
gateApproves_KillOnly     == ~gateKill

gateApproves ==
  ~gateKill /\ permission = "ALLOWED" /\ ~permissionOld

GateDecide ==
  /\ pc = "gateRead"
  /\ gateKill' = (gateKill /\ gateApproves)
  /\ pc' = IF gateApproves THEN "approved" ELSE "pipeline"
  /\ UNCHANGED <<world, tables, memory, filled, ev>>

\* The approved order is filled or rejected by the adapter (or by a later gate).
Execute ==
  /\ pc = "approved"
  /\ filled' \in {TRUE, filled}
  /\ pc' = "pipeline"
  /\ UNCHANGED <<world, tables, memory, gateKill, ev>>

\* The risk engine, consulted after the control gate, halts trading.  Nothing
\* in the worker calls its reset, so only a restart can arm it again.
RiskHalt ==
  /\ pc = "approved" /\ riskActive
  /\ riskActive' = FALSE
  /\ pc' = "pipeline"
  /\ UNCHANGED <<health, lag, tables, memory, order, ev>>

\* The pipeline returns; a fill refreshes the execution marker.
EndTick ==
  /\ pc = "pipeline"
  /\ lag' = IF filled THEN [lag EXCEPT !["execution"] = "fresh"] ELSE lag
  /\ filled' = FALSE
  /\ ev' = NoEvaluation
  /\ pc' = "idle"
  /\ UNCHANGED <<health, riskActive, tables, memory, gateKill>>

\* The pipeline rejects (a database or bus error): the tick ends without
\* noteExecution, whatever was filled.
TickFails ==
  /\ pc = "pipeline" /\ filled
  /\ filled' = FALSE
  /\ ev' = NoEvaluation
  /\ pc' = "idle"
  /\ UNCHANGED <<world, tables, memory, gateKill>>

-----------------------------------------------------------------------------
(***************************************************************************)
(* Operators, the environment, crashes.                                    *)
(***************************************************************************)

EngageKillSwitch ==
  /\ ~kill /\ DbUp
  /\ kill' = TRUE
  /\ UNCHANGED <<world, dbState, incidents, events, pc, memory, order, ev>>

ResumeKillSwitch ==
  /\ kill /\ DbUp
  /\ kill' = FALSE
  /\ UNCHANGED <<world, dbState, incidents, events, pc, memory, order, ev>>

HealthChanges ==
  /\ \E c \in Infra : \E h \in ProbeResults[c] \ {health[c]} :
       health' = [health EXCEPT ![c] = h]
  /\ UNCHANGED <<lag, riskActive, tables, pc, memory, order, ev>>

\* Time passes: an observed stream moves to the next band.
StreamAges ==
  /\ \E s \in Streams :
       /\ lag[s] \in {"fresh", "warning"}
       /\ lag' = [lag EXCEPT ![s] = IF @ = "fresh" THEN "warning" ELSE "stale"]
  /\ UNCHANGED <<health, riskActive, tables, pc, memory, order, ev>>

\* The ingestion daemon or the signal engine writes a new row.
StreamProduces ==
  /\ \E s \in Streams \ {"execution"} :
       /\ lag[s] # "fresh"
       /\ lag' = [lag EXCEPT ![s] = "fresh"]
  /\ DbUp
  /\ UNCHANGED <<health, riskActive, tables, pc, memory, order, ev>>

\* The ALLOWED snapshot in memory passes the age limit; or an evaluation takes so
\* long that the snapshot it will produce is born too old.
PermissionAges ==
  /\ \/ /\ permission = "ALLOWED" /\ ~permissionOld
        /\ UNCHANGED ev
     \/ /\ pc \in EvalSteps /\ ev.evidence /\ ~ev.old
        /\ ev' = [ev EXCEPT !.old = TRUE]
  /\ permissionOld' = (permission = "ALLOWED")
  /\ UNCHANGED <<world, tables, pc, lastState, lastActive, permission, armed,
                 order>>

\* The affectedComponents column of the newest OPEN incident stops being a list
\* of known components (a partial write, a manual edit).
IncidentCorrupted ==
  /\ OpenReadable /\ Len(incidents) < MaxOpenIncidents
  /\ incidents' = [incidents EXCEPT ![1].readable = FALSE]
  /\ UNCHANGED <<world, kill, dbState, events, pc, memory, order, ev>>

ProcessGone ==
  /\ pc' = "down"
  /\ lastState' = "BOOTING"
  /\ lastActive' = {}
  /\ permission' = "null"
  /\ permissionOld' = FALSE
  /\ armed' = FALSE
  /\ filled' = FALSE
  /\ ev' = NoEvaluation
  /\ gateKill' = FALSE
  /\ riskActive' = FALSE
  /\ lag' = [lag EXCEPT !["execution"] = "none"]
  /\ UNCHANGED <<health, tables>>

\* main() rejects: a control write of the boot sequence or of the first
\* evaluation failed, and the process exits with status 1.
FatalExit ==
  /\ ~DbUp
  /\ \/ pc = "boot"
     \/ pc = "validate" /\ ~startupPassed
     \/ pc \in EvalSteps /\ ev.first /\ (pc = "audit" => EvalNext # ev.prev)
  /\ ProcessGone

Crash == Crashes /\ pc # "down" /\ ProcessGone

-----------------------------------------------------------------------------
Boot == BootBooting \/ BootStarting \/ BootArm \/ BootFail \/ FatalExit

Evaluate ==
  \/ Gather \/ RecordRecovering \/ AuditRecovering \/ VerifyRecovery
  \/ ResolveProtectionEventsExcept \/ SyncOpen \/ UpsertProtectionEvent
  \/ SyncResolve \/ RecordTransition \/ FinishEvaluation \/ EvaluateThrows

Pipeline == GateRead \/ GateDecide \/ Execute \/ RiskHalt \/ EndTick \/ TickFails

Environment ==
  \/ EngageKillSwitch \/ ResumeKillSwitch \/ HealthChanges \/ StreamAges
  \/ StreamProduces \/ PermissionAges \/ IncidentCorrupted \/ Crash

Next == Boot \/ Evaluate \/ Pipeline \/ Environment

Spec == Init /\ [][Next]_vars

(***************************************************************************)
(* Fairness.  setInterval keeps firing and every await settles (probes and *)
(* queries time out), so a worker step that stays possible is taken; a     *)
(* tick has finitely many proposals, so the loop over them ends (strong    *)
(* fairness: EndTick is enabled between any two proposals).  An operator,  *)
(* a crash, a fill or a fault is never obliged to happen.                  *)
(***************************************************************************)
WorkerSteps == Boot \/ Evaluate \/ GateDecide \/ Execute \/ EndTick

FairSpec == Spec /\ WF_vars(WorkerSteps) /\ SF_vars(EndTick)

-----------------------------------------------------------------------------
IncidentRow == [affected : SUBSET Components, readable : BOOLEAN]

Evaluation ==
  [first : BOOLEAN, active : SUBSET Components, degraded : BOOLEAN,
   kill : {"clear", "engaged", "failed"}, evidence : BOOLEAN,
   prev : RuntimeStates, recovery : {"null", "true", "false"},
   verified : SUBSET Components, old : BOOLEAN]

TypeOK ==
  /\ health \in [Infra -> Health]
  /\ lag \in [Streams -> Lag]
  /\ riskActive \in BOOLEAN
  /\ kill \in BOOLEAN
  /\ dbState \in RuntimeStates
  /\ incidents \in Seq(IncidentRow)
  /\ events \in SUBSET Components
  /\ pc \in PcValues
  /\ lastState \in RuntimeStates
  /\ lastActive \in SUBSET Components
  /\ permission \in {"null", "ALLOWED", "BLOCKED"}
  /\ permissionOld \in BOOLEAN
  /\ armed \in BOOLEAN
  /\ filled \in BOOLEAN
  /\ ev \in Evaluation
  /\ gateKill \in BOOLEAN

\* An order that passed the gate did so in a process whose runtime state is
\* HEALTHY and whose execution is armed, with the kill switch read as off after
\* that state was reached, however many evaluations failed half way before.
OrderOnlyWhenHealthy ==
  pc = "approved" => lastState = "HEALTHY" /\ armed /\ ~gateKill

\* While memory holds PROTECTED on account of an active rule, an incident row
\* is OPEN for the operator to see, also after abandoned evaluations.
ProtectedHasIncident ==
  lastState = "PROTECTED" /\ lastActive # {} => HasOpen

\* No order is approved in a tick whose own evaluation found an active
\* protection rule ("any active protection rule -> PROTECTED (trading blocked)").
ActiveRuleBlocksOrders ==
  pc = "approved" => ev.active = {}

\* When an evaluation completes, the newest persisted transition is the state
\* the worker acts on, so the operator's page shows the state being enforced.
PersistedStateMatches ==
  [][FinishEvaluation => dbState' = lastState']_vars

\* An incident row is closed only by an evaluation that verified every
\* component the row names, or by one that follows an operator stop.
ResolvedOnlyVerified ==
  [][Len(incidents') < Len(incidents) =>
       \/ Head(incidents).affected \subseteq ev.verified
       \/ ev.prev = "STOPPED"]_vars

\* After a completed evaluation the ACTIVE protection events are those of the
\* rules it found active (none missing in PROTECTED, no cleared one anywhere),
\* whatever earlier evaluations left behind when they were abandoned.
ProtectionEventsExact ==
  [][FinishEvaluation =>
       /\ events \subseteq ev.active
       /\ lastState' = "PROTECTED" => events = ev.active]_vars

\* A running worker leaves STOPPED only in an evaluation that read the kill
\* switch row and found it disengaged.
StoppedIsSticky ==
  [][lastState = "STOPPED" /\ lastState' \notin {"STOPPED", "BOOTING"} =>
       ev.kill = "clear"]_vars

\* A worker at rest in HEALTHY has no readable incident left OPEN.
HealthyClosesIncident ==
  pc = "idle" /\ lastState = "HEALTHY" => ~OpenReadable

-----------------------------------------------------------------------------
Running == pc \notin {"down", "boot", "validate", "failed"}

\* Everything the permission engine asks for, and what the recovery check asks
\* of an open incident: after a restart no execution has been observed, and an
\* incident that names execution is then only left by an operator's resume.
Nominal ==
  /\ Running /\ armed /\ riskActive /\ ~kill
  /\ \A c \in Infra : health[c] = "healthy"
  /\ \A s \in Streams \ {"execution"} : lag[s] = "fresh"
  /\ lag["execution"] \in {"none", "fresh"}
  /\ HasOpen => /\ OpenReadable
                /\ "execution" \in Head(incidents).affected => lag["execution"] = "fresh"

CanTrade == permission = "ALLOWED" /\ ~kill

\* Once everything stays nominal, every protection, stop or degraded state is
\* left and trading is allowed again for good: no state of the machine, the
\* incident table or an abandoned evaluation can hold the runtime for ever.
TradingResumes == <>[]Nominal => <>[]CanTrade

\* An engaged kill switch drives a running worker to STOPPED for good.
KillStops == <>[](kill /\ DbUp /\ Running) => <>[](lastState = "STOPPED")

-----------------------------------------------------------------------------
\* The rows an operator reads are true whenever an evaluation changes them: no
\* incident is closed unverified, and the ACTIVE protection events are those of
\* the rules found active, abandoned evaluations and restarts notwithstanding.
RecordsExact == ResolvedOnlyVerified /\ ProtectionEventsExact

\* Neither verdict is lost on the way: a runtime whose surroundings stay nominal
\* trades again for good, and one whose kill switch stays engaged stops for good.
RuntimeSettles == TradingResumes /\ KillStops

\* The verdict of an evaluation is enforced and followed up: no order passes in a
\* tick that found an active rule, and a worker back at rest in HEALTHY has closed
\* what was open.
VerdictEnforced == TypeOK /\ ActiveRuleBlocksOrders /\ HealthyClosesIncident

\* The state survives the steps in between: the persisted one is the enforced one,
\* and STOPPED is left only after the switch was read as disengaged.
StateHolds == PersistedStateMatches /\ StoppedIsSticky

=============================================================================
