---------------------------- MODULE MCRiskEngine ----------------------------
(* Instances of RiskEngine for TLC.  The focus of a behaviour keeps the two  *)
(* dimensions apart: a book of two symbols with every size and price on a    *)
(* short journal that is never torn, or one kind of order and a longer       *)
(* journal with every way to tear it.  A cent is two units, so that a        *)
(* position can end on half a cent, and a margin too.                        *)
EXTENDS RiskEngine

SmallLimits ==
  [maxPositionSize |-> 5, maxPositionNotional |-> 8, maxLeverage |-> 3,
   dailyLossLimit |-> 1, allocation |-> 1, allocationOf |-> 1,
   drawdown |-> 1, drawdownOf |-> 4]

SmallProposals ==
  {[symbol |-> s, notional |-> n, price |-> p] :
     s \in Symbols, n \in {0, 2, 6, 8, 10}, p \in {1, 3}}

VARIABLE focus

GateBound    == NothingTorn /\ Len(file) <= 3
JournalBound == /\ order = NoOrder \/ (order.symbol = "a" /\ order.notional = 2 /\ order.qty = 2)
                /\ equity # 0

MCInit == /\ Init /\ focus \in {"gate", "journal"}
          /\ focus = "gate" \/ JournalBound
MCNext == /\ Next /\ UNCHANGED focus
          /\ IF focus = "gate" THEN GateBound' ELSE JournalBound'
MCSpec == MCInit /\ [][MCNext]_<<vars, focus>>
=============================================================================
