------------------------------ MODULE OpsAlerts ------------------------------
(***************************************************************************)
(* The alert table of the operations console: getAlerts of                 *)
(* apps/web/src/lib/ops-alerts.ts, run by every GET of the panel, several  *)
(* at once, while the observed world changes and the database comes and    *)
(* goes.  One action per awaited statement.                                *)
(*                                                                         *)
(* Abstractions.  The index of timescale.sql leaves at most one ACTIVE row *)
(* per rule, so an ACTIVE row is its rule; a GET that listed a row another *)
(* one has resolved since has nothing left to resolve there.               *)
(***************************************************************************)
EXTENDS SystemHealth, TLC

CONSTANTS
  Gets,    \* GET requests served at once
  Worlds   \* what there is to observe

ASSUME OpsAssumption == Worlds \subseteq Observable

VARIABLES
  world,   \* what a probe sees now
  active,  \* rules with an ACTIVE row
  get      \* requests in progress

opsVars == <<world, active, get>>

NoGet == [pc |-> "idle"]
Unread == <<>>

NothingAsked == active = {} /\ get = [g \in Gets |-> NoGet]

OpsInit ==
  /\ world \in Worlds
  /\ NothingAsked

\* excused: firing rules whose row another GET has resolved meanwhile.
GetStart(g) ==
  /\ get[g].pc = "idle"
  /\ get' = [get EXCEPT ![g] = [pc |-> "probe", health |-> Unread, flow |-> Unread, todo |-> <<>>,
                                firing |-> {}, resolve |-> {}, excused |-> {}]]
  /\ UNCHANGED <<world, active>>

\* The probes never reject.
ReadHealth(g) ==
  /\ get[g].pc = "probe" /\ get[g].health = Unread
  /\ get' = [get EXCEPT ![g].health = <<components(world)>>]
  /\ UNCHANGED <<world, active>>

\* The table reads do: getAlerts rejects, and the route answers 500.
ReadFlow(g) ==
  /\ get[g].pc = "probe" /\ get[g].flow = Unread
  /\ get' = [get EXCEPT ![g] = IF world.db = "down" THEN NoGet ELSE [@ EXCEPT !.flow = <<world.lag>>]]
  /\ UNCHANGED <<world, active>>

AfterRule(todo) == IF todo = <<>> THEN "list" ELSE "update"

Evaluate(g) ==
  LET lag == get[g].flow[1]
      rules == evaluateAlertRules(get[g].health[1], lag, freshnessOf(lag))
  IN /\ get[g].pc = "probe" /\ get[g].health # Unread /\ get[g].flow # Unread
     /\ get' = [get EXCEPT ![g].pc = AfterRule(rules), ![g].todo = rules, ![g].firing = Members(rules),
                           ![g].health = Unread, ![g].flow = Unread]
     /\ UNCHANGED <<world, active>>

DbAnswers(g, pc) == get[g].pc = pc /\ world.db # "down"
RuleDone(g) == [get EXCEPT ![g].todo = Tail(@), ![g].pc = AfterRule(Tail(get[g].todo))]

\* updateMany of the ACTIVE row, in the order of the rules.
UpdateFirst(g) ==
  /\ DbAnswers(g, "update")
  /\ get' = IF Head(get[g].todo) \in active THEN RuleDone(g) ELSE [get EXCEPT ![g].pc = "create"]
  /\ UNCHANGED <<world, active>>

\* The losing create is P2002 and goes back to an update, whose count nobody
\* looks at.
CreateAlert(g) ==
  /\ DbAnswers(g, "create")
  /\ IF Head(get[g].todo) \in active
     THEN get' = [get EXCEPT ![g].pc = "bump"] /\ UNCHANGED active
     ELSE get' = RuleDone(g) /\ active' = active \cup {Head(get[g].todo)}
  /\ UNCHANGED world

Bump(g) ==
  /\ DbAnswers(g, "bump")
  /\ get' = RuleDone(g)
  /\ UNCHANGED <<world, active>>

\* Mutant: resolved is what this request had nothing to say about.
toResolve_Listed(g) == {r \in active : r \notin get[g].firing \/ severity(r) = "WARNING"}

toResolve(g) == {r \in active : r \notin get[g].firing}

ListActive(g) ==
  /\ DbAnswers(g, "list")
  /\ get' = [get EXCEPT ![g].resolve = toResolve(g), ![g].pc = IF toResolve(g) = {} THEN "answer" ELSE "resolve"]
  /\ UNCHANGED <<world, active>>

\* Mutant: the rows are reported resolved and left ACTIVE.
Resolved_None(g) == active

\* updateMany by id: a row resolved in the meantime is not resolved again, and
\* a new ACTIVE row of its rule has another id.
Resolved(g) == active \ get[g].resolve

ResolveAlerts(g) ==
  LET gone == active \ Resolved(g) IN
  /\ DbAnswers(g, "resolve")
  /\ active' = Resolved(g)
  /\ get' = [h \in Gets |->
               IF h = g THEN [get[g] EXCEPT !.pc = "answer", !.resolve = {}]
               ELSE IF get[h].pc = "idle" THEN get[h]
               ELSE [get[h] EXCEPT !.resolve = @ \ gone, !.excused = @ \cup (gone \cap get[h].firing)]]
  /\ UNCHANGED world

\* The read back: ACTIVE rows, with the resolved ones of the last day.
Answer(g) ==
  /\ DbAnswers(g, "answer")
  /\ get' = [get EXCEPT ![g] = NoGet]
  /\ UNCHANGED <<world, active>>

\* Any of these statements fails: what fires is answered live, unpersisted.
AnswerLive(g) ==
  /\ get[g].pc \notin {"idle", "probe"} /\ world.db = "down"
  /\ get' = [get EXCEPT ![g] = NoGet]
  /\ UNCHANGED <<world, active>>

WorldChanges ==
  /\ world' \in Worlds \ {world}
  /\ UNCHANGED <<active, get>>

GetStep(g) ==
  \/ ReadHealth(g) \/ ReadFlow(g) \/ Evaluate(g) \/ UpdateFirst(g) \/ CreateAlert(g) \/ Bump(g)
  \/ ListActive(g) \/ ResolveAlerts(g) \/ Answer(g) \/ AnswerLive(g)

OpsNext == WorldChanges \/ \E g \in Gets : GetStart(g) \/ GetStep(g)

OpsSpec == OpsInit /\ [][OpsNext]_opsVars

-----------------------------------------------------------------------------
\* A persisted answer names every rule its own snapshot fired, but for a row
\* that an overlapping request, which saw the rule quiet, has resolved.
AnswersAreComplete ==
  \A g \in Gets : get[g].pc = "answer" => get[g].firing \ get[g].excused \subseteq active

\* When the world settles with the database up while the panel goes on asking,
\* the ACTIVE rows become the firing rules and stay so: requests that overlap
\* with older snapshots, lost creation races and requests that broke off half
\* way leave no row behind and none out.
AlertsConverge ==
  (/\ <>[][UNCHANGED world]_opsVars /\ <>[](world.db # "down")
   /\ []<>(\E g \in Gets : get[g].pc = "probe"))
     => <>[](firingIn(world) = <<active>>)

\* A healthy verdict is never rounded up: the database answered quickly, a
\* configured Redis answered, no component is failing or degraded, and the
\* newest job did not fail minutes ago.
HealthFailsClosed ==
  getSystemHealth(world) = "healthy" =>
    /\ world.db = "fast" /\ world.redis \in {"unset", "pong"} /\ world.quant \in {"unset", "pong"}
    /\ \A k \in MarketStreams : world.lag[k] > 2 * Minute => \E j \in MarketStreams : world.lag[j] \in 0..2 * Minute
    /\ ~(world.job.failed /\ world.job.age \in 0..5 * Minute)

\* The console's views of one world do not contradict each other.  On a dead
\* database health alone answers, and says critical: the others reject, and the
\* rule that watches the database never fires in its own outage.  On a live one
\* a healthy verdict comes without, a critical one with a CRITICAL rule; a
\* stream the data flow monitor calls stale has its rule firing, and where all
\* is fresh no staleness rule fires; a quiet pipeline hides no open risk event
\* and no mode other than NORMAL.
ViewsAgree ==
  LET health == getSystemHealth(world)
      flow == getDataFlowMonitor(world)
      firing == firingIn(world)
      critical == {r \in firing[1] : severity(r) = "CRITICAL"}
      pipeline == getOpsPipeline(world)
  IN IF world.db = "down"
     THEN health = "critical" /\ flow = Rejected /\ firing = Rejected /\ pipeline = Rejected
     ELSE /\ health = "healthy" => critical = {}
          /\ health = "critical" => critical # {}
          /\ \A s \in DOMAIN STALE_RULES : flow[1][s] = "stale" => s \in firing[1]
          /\ worstFreshness(flow[1]) = "fresh" => firing[1] = critical
          /\ pipeline[1] \in {"active", "idle"} => ~world.risk.open /\ world.risk.mode \in {"none", "NORMAL"}

\* The operations views are honest about the world they read: healthy only when all of
\* it is, no view against another, no firing rule missing from an answer.
ViewsHonest == HealthFailsClosed /\ ViewsAgree /\ AnswersAreComplete

=============================================================================
