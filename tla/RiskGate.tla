------------------------------ MODULE RiskGate ------------------------------
(***************************************************************************)
(* The pure decisions of services/workers/src/risk: the capital snapshot,  *)
(* the global kill-switch triggers, the projection of an order and the     *)
(* fail-closed pre-trade gate.                                             *)
(*                                                                         *)
(* Money is an integer number of units, Cent of them to the cent the code  *)
(* rounds its sums to, and concentration a number of steps, Ratio of them  *)
(* to 1 (10^6 in the code).  A limit that is a fraction is num/den, and    *)
(* compared by cross-multiplication.  Equity 0 stands for any non-positive *)
(* equity.                                                                 *)
(***************************************************************************)
EXTENDS Integers, Sequences, FiniteSetsExt, Functions

CONSTANTS
  Symbols,
  Limits,        \* the record RiskLimits
  Leverage,      \* accountConfig.leverage
  Cent,          \* units of money to the cent
  Ratio          \* steps of a quantized ratio to 1

ASSUME LimitsAssumption ==
  /\ Limits \in [maxPositionSize : Nat, maxPositionNotional : Nat,
                 maxLeverage : Nat, dailyLossLimit : Nat,
                 allocation : Nat, allocationOf : Nat \ {0},
                 drawdown : Nat, drawdownOf : Nat \ {0}]
  /\ Leverage \in Nat \ {0}
  /\ Cent \in Nat \ {0}
  /\ Ratio \in Nat \ {0}
  /\ IsFiniteSet(Symbols)

\* x / d to the nearest integer, halves up: toFixed of a non-negative number.
quantize(x, d) == (2 * x + d) \div (2 * d)

\* The notionals of the positions at their marks, not rounded.
grossExposure(book) == SumFunction(book)

\* Gross exposure and used margin are rounded to the cent, each on its own.
buildCapitalSnapshot(book, equity) ==
  [equity    |-> equity,
   gross     |-> Cent * quantize(grossExposure(book), Cent),
   available |-> equity - Cent * quantize(grossExposure(book), Leverage * Cent)]

\* drawdown > maxDrawdown, where no positive peak means no drawdown.
drawdownBreached(peak, equity) ==
  peak > 0 /\ (peak - equity) * Limits.drawdownOf > Limits.drawdown * peak

dailyLossBreached(dailyPnL) == dailyPnL < -Limits.dailyLossLimit

leverageBreached(gross, equity) ==
  IF equity > 0 THEN gross > Limits.maxLeverage * equity ELSE gross > 0

\* The health triggers, in the order they are consulted.
HealthTriggers == <<"MARKET_DATA_STALE", "RECOVERY_FAILURE",
                    "JOURNAL_INTEGRITY_FAILURE", "EXCHANGE_CONNECTIVITY_FAILURE">>

Triggers == {"DAILY_LOSS_BREACH", "DRAWDOWN_BREACH", "LEVERAGE_BREACH"}
              \cup {HealthTriggers[i] : i \in DOMAIN HealthTriggers}

\* The first tripped trigger, "none" if none is.
evaluateTriggers(capital, dailyPnL, peak, failures) ==
  IF dailyLossBreached(dailyPnL) THEN "DAILY_LOSS_BREACH"
  ELSE IF drawdownBreached(peak, capital.equity) THEN "DRAWDOWN_BREACH"
  ELSE IF leverageBreached(capital.gross, capital.equity) THEN "LEVERAGE_BREACH"
  ELSE IF failures # {}
       THEN HealthTriggers[Min({i \in DOMAIN HealthTriggers :
                                  HealthTriggers[i] \in failures})]
  ELSE "none"

\* sizePosition in FIXED_NOTIONAL mode, the one the worker uses: a zero notional
\* gives a zero size, which the gate refuses.  A quantity counts steps of 10^-8, and
\* the price is that of one step.
sizePosition(proposal) ==
  [symbol |-> proposal.symbol, qty |-> quantize(proposal.notional, proposal.price),
   notional |-> proposal.notional, price |-> proposal.price]

\* The order's target replaces the position of its symbol, which is not rounded.
\* The gross after is the rounded gross changed and rounded again.
projectOrder(book, capital, order) ==
  LET prior == book[order.symbol]
  IN [grossAfter |-> Cent * quantize(capital.gross - prior + order.notional, Cent),
      requiredMargin |-> IF order.notional > prior
                         THEN Cent * quantize(order.notional - prior, Leverage * Cent)
                         ELSE 0,
      concentration |-> IF capital.equity > 0
                        THEN quantize(order.notional * Ratio, capital.equity)
                        ELSE 1000000000 * Ratio]

\* Mutant: the margin the book already uses is not counted.
evaluatePreTrade_WholeMargin(order, projection, capital, dailyPnL) ==
  IF ~(order.qty > 0 /\ order.notional > 0 /\ capital.equity > 0)
    THEN "FAIL_CLOSED"
  ELSE IF order.qty > Limits.maxPositionSize THEN "MAX_POSITION_SIZE"
  ELSE IF order.notional > Limits.maxPositionNotional THEN "MAX_NOTIONAL"
  ELSE IF projection.grossAfter > Limits.maxLeverage * capital.equity
    THEN "MAX_LEVERAGE"
  ELSE IF projection.requiredMargin > capital.equity THEN "MARGIN_UNAVAILABLE"
  ELSE IF dailyLossBreached(dailyPnL) THEN "DAILY_LOSS_LIMIT"
  ELSE IF projection.concentration * Limits.allocationOf > Limits.allocation * Ratio
    THEN "CONCENTRATION_LIMIT"
  ELSE "PASSED"

\* The first failing check, "PASSED" if none fails: what is compared with a limit is
\* the rounded figure.
evaluatePreTrade(order, projection, capital, dailyPnL) ==
  IF ~(order.qty > 0 /\ order.notional > 0 /\ capital.equity > 0)
    THEN "FAIL_CLOSED"
  ELSE IF order.qty > Limits.maxPositionSize THEN "MAX_POSITION_SIZE"
  ELSE IF order.notional > Limits.maxPositionNotional THEN "MAX_NOTIONAL"
  ELSE IF projection.grossAfter > Limits.maxLeverage * capital.equity
    THEN "MAX_LEVERAGE"
  ELSE IF projection.requiredMargin > capital.available THEN "MARGIN_UNAVAILABLE"
  ELSE IF dailyLossBreached(dailyPnL) THEN "DAILY_LOSS_LIMIT"
  ELSE IF projection.concentration * Limits.allocationOf > Limits.allocation * Ratio
    THEN "CONCENTRATION_LIMIT"
  ELSE "PASSED"

\* The specific event a rejection is journaled as, besides RISK_CHECK_FAILED.
breachEvent(reason) ==
  CASE reason \in {"MAX_POSITION_SIZE", "MAX_NOTIONAL"} -> "POSITION_LIMIT_BREACHED"
    [] reason = "MAX_LEVERAGE" -> "LEVERAGE_LIMIT_BREACHED"
    [] OTHER -> "RISK_CHECK_FAILED"

=============================================================================
