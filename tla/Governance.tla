----------------------------- MODULE Governance -----------------------------
(***************************************************************************)
(* Strategy governance of the web console: register a version, review its  *)
(* deployment, retire it (apps/web/src/lib/governance-actions.ts and the   *)
(* three routes in front of it).  Each operation is one interactive        *)
(* database transaction, and one action here per awaited statement.        *)
(*                                                                         *)
(* No isolation level is set anywhere, so the transactions run at          *)
(* PostgreSQL's default, READ COMMITTED: a statement reads what is         *)
(* committed when it starts, an update waits for the transaction that has  *)
(* the row and is then applied to the row as it is, a unique index makes   *)
(* an insert or update wait for a competing one in progress and fail on a  *)
(* committed one.                                                          *)
(*                                                                         *)
(* Abstractions.  Requests refused by validation change nothing and are    *)
(* left out, but for the refusal of demo actors.  A version and the deploy *)
(* approval created with it share a name.  Of the audit log the model      *)
(* keeps who signed an APPROVE row of the version; the row beside each     *)
(* status change commits with it and repeats it.                           *)
(***************************************************************************)
EXTENDS Naturals, FiniteSets

CONSTANTS
  Strategies,    \* strategy names
  Operators,     \* authenticated principals, demo identities included
  DemoActors,    \* the principals requireActor refuses
  Txs,           \* transactions that may be open at the same time
  MaxVersion     \* bound on the versions of one strategy

ASSUME GovernanceAssumption == DemoActors \subseteq Operators /\ MaxVersion \in Nat

Vid == Strategies \X (1..MaxVersion)
Statuses == {"none", "DRAFT", "ACTIVE", "PAUSED", "RETIRED"}
Decided == {"APPROVED", "REJECTED"}
Nobody == "nobody"

VARIABLES
  strategies,  \* committed Strategy rows
  status,      \* committed StrategyVersion.status, "none" before its row exists
  approval,    \* committed ApprovalRequest of each version
  signers,     \* operators with an APPROVE audit row for the version
  tx           \* open transactions

govVars == <<strategies, status, approval, signers, tx>>
govTables  == <<strategies, status, approval, signers>>

NoTx == [pc |-> "idle"]
TxOpen(t) == tx[t].pc # "idle"

\* put: status rows written and not committed, verdict: the approval row.
Begin(t, pc, actor, v, verdict) ==
  /\ ~TxOpen(t)
  /\ tx' = [tx EXCEPT ![t] = [pc |-> pc, actor |-> actor, v |-> v, verdict |-> verdict,
                              locked |-> FALSE, create |-> FALSE, others |-> {}, put |-> {}]]
  /\ UNCHANGED govTables

Goto(t, pc)   == [tx EXCEPT ![t].pc = pc]
Rollback(t)   == tx' = [tx EXCEPT ![t] = NoTx] /\ UNCHANGED govTables
Others(t)     == {u \in Txs \ {t} : TxOpen(u)}
\* A row another open transaction has written: an update of it waits.
VersionLocked(t, v)  == \E u \in Others(t) : v \in {w.v : w \in tx[u].put}
ApprovalLocked(t, v) == \E u \in Others(t) : tx[u].locked /\ tx[u].v = v
Put(t, v, after) == tx[t].put \cup {[v |-> v, after |-> after]}

GovInit ==
  /\ strategies = {}
  /\ status = [v \in Vid |-> "none"]
  /\ approval = [v \in Vid |-> [status |-> "none", requestedBy |-> Nobody]]
  /\ signers = [v \in Vid |-> {}]
  /\ tx = [t \in Txs |-> NoTx]

\* requireActor: demo identities are refused.
requireActor(o) == o \notin DemoActors

-----------------------------------------------------------------------------
(* registerStrategyVersion *)

RegisterStart(t, o, s) ==
  /\ requireActor(o)
  /\ Begin(t, "findStrategy", o, <<s, 0>>, "none")

FindStrategy(t) ==
  /\ tx[t].pc = "findStrategy"
  /\ tx' = Goto(t, IF tx[t].v[1] \in strategies THEN "findLatest" ELSE "createStrategy")
  /\ UNCHANGED govTables

\* The unique name: wait for a creation in progress, fail on a committed one.
CreateStrategy(t) ==
  /\ tx[t].pc = "createStrategy"
  /\ ~\E u \in Others(t) : tx[u].create /\ tx[u].v[1] = tx[t].v[1]
  /\ IF tx[t].v[1] \in strategies THEN Rollback(t)
     ELSE tx' = [tx EXCEPT ![t].create = TRUE, ![t].pc = "findLatest"] /\ UNCHANGED govTables

Latest(s) == Cardinality({v \in Vid : v[1] = s /\ status[v] # "none"})

\* Past MaxVersion the transaction is given up: the bound of the model.
FindLatest(t) ==
  LET s == tx[t].v[1] IN
  /\ tx[t].pc = "findLatest"
  /\ IF Latest(s) = MaxVersion THEN Rollback(t)
     ELSE /\ tx' = [tx EXCEPT ![t].v = <<s, Latest(s) + 1>>, ![t].pc = "createVersion"]
          /\ UNCHANGED govTables

\* Unique (strategyId, version); the approval and the audit row come with it.
CreateVersion(t) ==
  LET v == tx[t].v IN
  /\ tx[t].pc = "createVersion"
  /\ ~VersionLocked(t, v)
  /\ IF status[v] # "none" THEN Rollback(t)
     ELSE /\ tx' = [tx EXCEPT ![t].put = Put(t, v, "DRAFT"), ![t].locked = TRUE,
                              ![t].verdict = "PENDING", ![t].pc = "commit"]
          /\ UNCHANGED govTables

-----------------------------------------------------------------------------
(* reviewDeployApproval *)

ReviewStart(t, o, v, verdict) ==
  /\ requireActor(o)
  /\ verdict \in Decided
  /\ Begin(t, "readApproval", o, v, verdict)

\* Mutant: no four-eyes check.
mayReview_Own(t) == approval[tx[t].v].status = "PENDING"

\* The request exists, is pending, and was made by somebody else.
mayReview(t) ==
  /\ approval[tx[t].v].status = "PENDING"
  /\ approval[tx[t].v].requestedBy # tx[t].actor

ReadApproval(t) ==
  /\ tx[t].pc = "readApproval"
  /\ IF mayReview(t) THEN tx' = Goto(t, "readVersion") /\ UNCHANGED govTables ELSE Rollback(t)

\* No code path sets PENDING_DEPLOY_APPROVAL, so DRAFT is the reviewable status.
ReadVersion(t) ==
  /\ tx[t].pc = "readVersion"
  /\ IF status[tx[t].v] = "DRAFT" THEN tx' = Goto(t, "decide") /\ UNCHANGED govTables ELSE Rollback(t)

\* approvalRequest.update by id, with its audit row; a rejection ends here.
Decide(t) ==
  /\ tx[t].pc = "decide"
  /\ ~ApprovalLocked(t, tx[t].v)
  /\ tx' = [tx EXCEPT ![t].locked = TRUE,
                      ![t].pc = IF tx[t].verdict = "APPROVED" THEN "findActive" ELSE "commit"]
  /\ UNCHANGED govTables

FindActive(t) ==
  /\ tx[t].pc = "findActive"
  /\ tx' = [tx EXCEPT ![t].pc = "pause",
                      ![t].others = {w \in Vid \ {tx[t].v} : w[1] = tx[t].v[1] /\ status[w] = "ACTIVE"}]
  /\ UNCHANGED govTables

\* One update and one audit row per other active version.
PauseOther(t, w) ==
  /\ tx[t].pc = "pause"
  /\ w \in tx[t].others
  /\ ~VersionLocked(t, w)
  /\ tx' = [tx EXCEPT ![t].others = @ \ {w}, ![t].put = Put(t, w, "PAUSED")]
  /\ UNCHANGED govTables

PausedAll(t) ==
  /\ tx[t].pc = "pause" /\ tx[t].others = {}
  /\ tx' = Goto(t, "activate")
  /\ UNCHANGED govTables

\* Versions of the same strategy that are ACTIVE in the unique index, but for
\* those this transaction has paused itself.
Competing(t) ==
  LET v == tx[t].v
      mine == {p.v : p \in tx[t].put}
  IN {w \in Vid \ ({v} \cup mine) : w[1] = v[1] /\ status[w] = "ACTIVE"}

\* Mutant: the partial unique index is missing.
ViolatesActiveIndex_Never(t) == FALSE

\* StrategyVersion_strategyId_active_key: at most one ACTIVE row per strategy.
ViolatesActiveIndex(t) == Competing(t) # {}

\* The index waits for an activation in progress and for a competing row that
\* an open transaction has written.
IndexWaits(t) ==
  LET v == tx[t].v IN
  \E u \in Others(t) : \E p \in tx[u].put :
     /\ p.v # v /\ p.v[1] = v[1]
     /\ p.after = "ACTIVE" \/ p.v \in Competing(t)

\* Mutant: a lost race is logged and the decision committed without it.
Conflict_Commits(t) == tx' = Goto(t, "commit") /\ UNCHANGED govTables

\* P2002: everything is rolled back, the decision too, and answered 409.
Conflict(t) == Rollback(t)

\* Mutant: a lost race is swallowed and the transaction left open.
Activate_Hangs(t) ==
  /\ tx[t].pc = "activate"
  /\ ~VersionLocked(t, tx[t].v) /\ ~IndexWaits(t)
  /\ ~ViolatesActiveIndex(t)
  /\ tx' = [tx EXCEPT ![t].put = Put(t, tx[t].v, "ACTIVE"), ![t].pc = "commit"]
  /\ UNCHANGED govTables

Activate(t) ==
  /\ tx[t].pc = "activate"
  /\ ~VersionLocked(t, tx[t].v) /\ ~IndexWaits(t)
  /\ IF ViolatesActiveIndex(t) THEN Conflict(t)
     ELSE /\ tx' = [tx EXCEPT ![t].put = Put(t, tx[t].v, "ACTIVE"), ![t].pc = "commit"]
          /\ UNCHANGED govTables

-----------------------------------------------------------------------------
(* retireStrategyVersion *)

RetireStart(t, o, v) ==
  /\ requireActor(o)
  /\ Begin(t, "readRetired", o, v, "none")

ReadRetired(t) ==
  /\ tx[t].pc = "readRetired"
  /\ IF status[tx[t].v] \in {"none", "RETIRED"} THEN Rollback(t)
     ELSE tx' = Goto(t, "retire") /\ UNCHANGED govTables

RetireVersion(t) ==
  /\ tx[t].pc = "retire"
  /\ ~VersionLocked(t, tx[t].v)
  /\ tx' = [tx EXCEPT ![t].put = Put(t, tx[t].v, "RETIRED"), ![t].pc = "commit"]
  /\ UNCHANGED govTables

-----------------------------------------------------------------------------
Written(t, v) == \E p \in tx[t].put : p.v = v
StatusAfter(t, v)   == (CHOOSE p \in tx[t].put : p.v = v).after

\* What a transaction leaves of the approval row it has locked.
Reviewed(t) ==
  IF tx[t].verdict = "PENDING"
  THEN [status |-> "PENDING", requestedBy |-> tx[t].actor] 
  ELSE [approval[tx[t].v] EXCEPT !.status = tx[t].verdict]

\* The rows of the transaction and its audit rows become visible at once.
CommitTx(t) ==
  /\ tx[t].pc = "commit"
  /\ strategies' = IF tx[t].create THEN strategies \cup {tx[t].v[1]} ELSE strategies
  /\ status' = [v \in Vid |-> IF Written(t, v) THEN StatusAfter(t, v) ELSE status[v]]
  /\ approval' = IF tx[t].locked THEN [approval EXCEPT ![tx[t].v] = Reviewed(t)] ELSE approval
  /\ signers' = IF tx[t].verdict = "APPROVED"
                THEN [signers EXCEPT ![tx[t].v] = @ \cup {tx[t].actor}] ELSE signers
  /\ tx' = [tx EXCEPT ![t] = NoTx]

\* The five second limit of an interactive transaction, a lost connection or
\* the end of the web process: the database rolls the transaction back.
AbortTx(t) == TxOpen(t) /\ Rollback(t)

\* What an open transaction does next.
TxStep(t) ==
  \/ FindStrategy(t) \/ CreateStrategy(t) \/ FindLatest(t) \/ CreateVersion(t)
  \/ ReadApproval(t) \/ ReadVersion(t) \/ Decide(t) \/ FindActive(t)
  \/ (\E w \in Vid : PauseOther(t, w)) \/ PausedAll(t) \/ Activate(t)
  \/ ReadRetired(t) \/ RetireVersion(t) \/ CommitTx(t)

GovNext ==
  \E t \in Txs :
    \/ TxStep(t) \/ AbortTx(t)
    \/ \E o \in Operators, s \in Strategies : RegisterStart(t, o, s)
    \/ \E o \in Operators, v \in Vid, d \in Decided : ReviewStart(t, o, v, d)
    \/ \E o \in Operators, v \in Vid : RetireStart(t, o, v)

GovSpec == GovInit /\ [][GovNext]_govVars

-----------------------------------------------------------------------------
\* Two approvals that race to activate different versions, with transactions
\* paused, rolled back or retired in between, never leave two ACTIVE versions
\* of one strategy: the lineage the workers resolve is unambiguous.
SingleActive ==
  \A v, w \in Vid : v[1] = w[1] /\ status[v] = "ACTIVE" /\ status[w] = "ACTIVE" => v = w

\* A version that has left DRAFT for ACTIVE was approved by an operator other
\* than the one who asked for it, whatever reviews ran at the same time.
FourEyes ==
  \A v \in Vid : status[v] \in {"ACTIVE", "PAUSED"} => signers[v] \ {approval[v].requestedBy} # {}

\* Decision and activation commit together or not at all, whatever race was lost in
\* between: a version whose request is APPROVED, or that has an APPROVE row in the audit
\* log, was activated, and of an activated version the request is decided.  Which way
\* it is decided a second review may have overwritten: see ReviewsImmutable.
DecisionIsWhole ==
  \A v \in Vid :
    /\ approval[v].status = "APPROVED" \/ signers[v] # {} =>
         status[v] \in {"ACTIVE", "PAUSED", "RETIRED"}
    /\ status[v] \in {"ACTIVE", "PAUSED"} \/ signers[v] # {} =>
         approval[v].status \in Decided

\* The waits of competing transactions (approval row, version rows, unique
\* indexes) never form a cycle: while one is open, one of them can go on.
NoWaitCycle == (\E t \in Txs : TxOpen(t)) => \E t \in Txs : TxOpen(t) /\ ENABLED TxStep(t)

\* A decided approval request is never changed: "reviews are immutable".
ReviewsImmutable ==
  [][\A v \in Vid : approval[v].status \in Decided => approval'[v].status = approval[v].status]_govVars

\* Racing reviews, activations, retirements and rollbacks leave one ACTIVE version per
\* strategy, signed by a second operator, and no half of an approval.
RegistrySound == SingleActive /\ FourEyes /\ DecisionIsWhole

=============================================================================
