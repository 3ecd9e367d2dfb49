------------------------------ MODULE Allocation ------------------------------
(***************************************************************************)
(* aggregateDecisions (services/workers/src/execution/portfolio.ts): the   *)
(* decisions of a tick are weighted by the capital of their strategy and   *)
(* netted per symbol, in the order of the tick's worklist, which a rerun   *)
(* need not share.  A lineage is its strategy and its feature              *)
(* snapshot, as ranks of their ids; money is an integer.                   *)
(***************************************************************************)
EXTENDS Integers, Sequences, SequencesExt, FiniteSetsExt

CONSTANTS AllocSymbols, AllocStrategies, Snapshots, Confidences,
          Capital,         \* per strategy the total capital times its weight
          ConfidenceUnit,  \* a confidence counts in units of 1 / ConfidenceUnit
          NetDeadband,
          MaxDecisions     \* bound on the decisions of a tick

ASSUME AllocationAssumption ==
  /\ AllocStrategies \cup Snapshots \cup Confidences \subseteq Nat
  /\ \A s \in AllocStrategies : Capital[s] \in Nat
  /\ ConfidenceUnit \in Nat \ {0} /\ NetDeadband \in Nat

VARIABLES decisions,   \* the DecisionEvents of the tick
          proposals    \* what aggregateDecisions made of them

allocVars == <<decisions, proposals>>

Decisions ==
  [symbol : AllocSymbols, action : {"ENTER", "HOLD", "STAND_ASIDE"},
   side : {"LONG", "SHORT", "FLAT"}, strategy : AllocStrategies,
   snapshot : Snapshots, confidence : Confidences]

\* The strategies stand aside exactly when the observation has no direction.
Plausible(d) == (d.action = "STAND_ASIDE") = (d.side = "FLAT")

AllocInit == decisions = <<>> /\ proposals = {}

-----------------------------------------------------------------------------
signOf(side) == IF side = "LONG" THEN 1 ELSE -1

\* quantizeNotional: to the nearest unit, halves away from zero.
weightedNotional(d) ==
  signOf(d.side) * ((2 * Capital[d.strategy] * d.confidence + ConfidenceUnit)
                      \div (2 * ConfidenceUnit))

contribution(d) == [strategy |-> d.strategy, snapshot |-> d.snapshot, side |-> d.side,
                    confidence |-> d.confidence, notional |-> weightedNotional(d)]

Stake(c) == signOf(c.side) * c.notional

\* Mutant: contributions of the same size keep the order they came in.
compareContribution_SizeOnly(a, b) == Stake(a) > Stake(b)

\* The canonical total order: the larger first, then by lineage, side and confidence.
compareContribution(a, b) ==
  LET Key(c) == <<-Stake(c), c.snapshot, c.strategy, -signOf(c.side), c.confidence>>
      ka == Key(a)
      kb == Key(b)
  IN \E i \in 1..5 : ka[i] < kb[i] /\ \A j \in 1..(i - 1) : ka[j] = kb[j]

\* Only ENTER with a direction sizes capital.
contributors(ds, s) ==
  {i \in DOMAIN ds : ds[i].symbol = s /\ ds[i].action = "ENTER" /\ ds[i].side # "FLAT"}

\* The contributions to a symbol, sorted; equal ones stay in the order they came in.
Before(ds, i, j) ==
  LET first == contribution(ds[i])
      second == contribution(ds[j])
  IN compareContribution(first, second) \/ (~compareContribution(second, first) /\ i < j)
contributions(ds, s) ==
  LET mine == contributors(ds, s)
      Place(i) == Cardinality({j \in mine : Before(ds, j, i)}) + 1
  IN [k \in 1..Cardinality(mine) |-> contribution(ds[CHOOSE i \in mine : Place(i) = k])]

netSigned(cs) == FoldLeft(LAMBDA acc, c : acc + c.notional, 0, cs)

\* Mutant: the largest contributor owns the allocation, whatever its side.
primary_Largest(cs, side) == cs[1]

\* The owner is the first contributor on the net side.
primary(cs, side) ==
  cs[CHOOSE i \in DOMAIN cs : cs[i].side = side /\ \A j \in 1..(i - 1) : cs[j].side # side]

proposal(s, cs) ==
  LET net  == netSigned(cs)
      side == IF net > 0 THEN "LONG" ELSE "SHORT"
  IN [symbol |-> s, side |-> side, target |-> IF net > 0 THEN net ELSE -net,
      primary |-> primary(cs, side), contributions |-> cs]

\* One proposal per symbol whose net is outside the deadband.
aggregateDecisions(ds) ==
  {proposal(s, contributions(ds, s)) : s \in {r \in AllocSymbols :
     LET net == netSigned(contributions(ds, r))
     IN net > NetDeadband \/ net < -NetDeadband}}

\* A decision reaches the tick; what the stage would make of it now is kept beside it.
Arrives(d) ==
  /\ Len(decisions) < MaxDecisions /\ Plausible(d)
  /\ decisions' = Append(decisions, d)
  /\ proposals' = aggregateDecisions(decisions')

\* The stage has run and the next tick begins.
NextTick == decisions # <<>> /\ decisions' = <<>> /\ proposals' = {}

AllocNext == (\E d \in Decisions : Arrives(d)) \/ NextTick

AllocSpec == AllocInit /\ [][AllocNext]_allocVars

-----------------------------------------------------------------------------
Permuted(ds, p) == [i \in DOMAIN ds |-> ds[p[i]]]

\* The same decisions in another order make the same proposals, owner and list of
\* contributions included ("the sum and primary selection never depend on input order").
ArrivalOrderIrrelevant ==
  \A p \in Bijection(DOMAIN decisions, DOMAIN decisions) :
    aggregateDecisions(Permuted(decisions, p)) = proposals

\* The strategy a position is booked on, and whose limit it counts against, took the
\* net side and staked on it at least as much as any other on that side; and no more is
\* traded than those on the net side staked together.
OwnerBacksTheNet ==
  \A r \in proposals :
    LET backers == {i \in DOMAIN r.contributions : r.contributions[i].side = r.side}
        Staked(i) == Stake(r.contributions[i])
    IN /\ r.primary.side = r.side
       /\ \A i \in backers : Stake(r.primary) >= Staked(i)
       /\ r.target <= MapThenSumSet(Staked, backers)

\* Netting several strategies is fair: the result does not depend on who came first,
\* and the strategy that is charged for it is one that asked for it.
AllocationSound == ArrivalOrderIrrelevant /\ OwnerBacksTheNet

=============================================================================
