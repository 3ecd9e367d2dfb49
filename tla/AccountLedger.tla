---------------------------- MODULE AccountLedger ----------------------------
(***************************************************************************)
(* Cost basis, account and equity ledger of services/workers/src/market:   *)
(* every fill is folded into a position and an account, each quantized at  *)
(* its own precision, and after a tick the valuation is written to the     *)
(* PortfolioSnapshot series, from which a restart recovers the peak.       *)
(* A price counts in the finest unit (8 decimals in the code), money in    *)
(* units of price times quantity and is quantized to multiples of Cent.    *)
(***************************************************************************)
EXTENDS Integers, Sequences, FiniteSetsExt

CONSTANTS Held,               \* symbols
          FillPrices, FillQtys,
          InitialCash, Cent,
          DrawdownUnits,      \* a drawdown counts in units of 1 / DrawdownUnits
          MaxFills, MaxRows   \* bounds on the fills and on the rows

ASSUME LedgerAssumption ==
  /\ FillPrices \subseteq Nat /\ FillQtys \subseteq Nat \ {0}
  /\ IsFiniteSet(Held) /\ DrawdownUnits \in Nat
  /\ Cent \in Nat \ {0} /\ InitialCash \in Nat \ {0} /\ InitialCash % Cent = 0

VARIABLES book,        \* Position per symbol
          account,     \* cashBalance and realizedPnl
          portfolioId, \* FALSE before init() has resolved the Portfolio row
          peakEquity,
          stored,      \* the Portfolio row exists
          rows,        \* PortfolioSnapshot, in the order of ts
          fills,       \* how many fills were folded
          cashFlow,    \* history: what the fills cost and earned
          drift,       \* history: twice what quantization may have taken or given
          gaps         \* history: a row was refused

ledgerVars == <<book, account, portfolioId, peakEquity, stored, rows,
                fills, cashFlow, drift, gaps>>

Size(n)  == IF n < 0 THEN -n ELSE n
Sign(n)  == IF n < 0 THEN -1 ELSE IF n = 0 THEN 0 ELSE 1
Least(m, n) == IF m < n THEN m ELSE n
Most(m, n)  == IF m > n THEN m ELSE n

\* toFixed: n / d to the nearest integer, halves away from zero.
Nearest(n, d) == Sign(n) * ((2 * Size(n) + d) \div (2 * d))

quantizePnl(n) == Cent * Nearest(n, Cent)

NoPosition   == [netQty |-> 0, avgEntryPrice |-> 0, realizedPnl |-> 0, markPrice |-> 0]
emptyAccount == [cashBalance |-> quantizePnl(InitialCash), realizedPnl |-> 0]

LedgerInit ==
  /\ book = [s \in Held |-> NoPosition] /\ account = emptyAccount
  /\ portfolioId = FALSE /\ peakEquity = 0 /\ stored = FALSE /\ rows = <<>>
  /\ fills = 0 /\ cashFlow = 0 /\ drift = 0 /\ gaps = FALSE

-----------------------------------------------------------------------------
\* Mutant: a flipped position keeps the basis of the one it closed.
nextBasis_FlipKeeps(p, f, price) ==
  IF p.netQty = 0 THEN price
  ELSE IF Sign(p.netQty) = Sign(f)
       THEN Nearest(Size(p.netQty) * p.avgEntryPrice + Size(f) * price, Size(p.netQty + f))
       ELSE IF p.netQty + f = 0 THEN 0 ELSE p.avgEntryPrice

\* The cost basis: OPEN, ADD, then CLOSE, REDUCE and FLIP.
nextBasis(p, f, price) ==
  IF p.netQty = 0 THEN price
  ELSE IF Sign(p.netQty) = Sign(f)
       THEN Nearest(Size(p.netQty) * p.avgEntryPrice + Size(f) * price, Size(p.netQty + f))
       ELSE IF p.netQty + f = 0 THEN 0
            ELSE IF Size(f) < Size(p.netQty) THEN p.avgEntryPrice ELSE price

\* What an opposing fill realizes on the quantity it closes.
realizedBy(p, f, price) ==
  IF Sign(p.netQty) * Sign(f) # -1 THEN 0
  ELSE Least(Size(f), Size(p.netQty)) * (price - p.avgEntryPrice) * Sign(p.netQty)

applyFillToPosition(p, f, price) ==
  [netQty |-> p.netQty + f,
   avgEntryPrice |-> nextBasis(p, f, price),
   realizedPnl |-> quantizePnl(p.realizedPnl + realizedBy(p, f, price)),
   markPrice |-> price]

applyRealized(acc, delta) ==
  [cashBalance |-> quantizePnl(acc.cashBalance + delta),
   realizedPnl |-> quantizePnl(acc.realizedPnl + delta)]

unrealizedPnl(p) == p.netQty * (p.markPrice - p.avgEntryPrice)

\* Equity and gross exposure; nothing reads the margin figures.
valuateAccount(acc, positions) ==
  [equity |-> quantizePnl(acc.cashBalance
                + MapThenSumSet(LAMBDA s : unrealizedPnl(positions[s]), Held)),
   grossExposure |-> quantizePnl(MapThenSumSet(
                LAMBDA s : Size(positions[s].netQty) * positions[s].markPrice, Held))]

\* applyFillToMarketState: the position, then the account by the realized difference.
Fill(s, f, price) ==
  LET prior == book[s]
      next  == applyFillToPosition(prior, f, price)
  IN /\ portfolioId /\ fills < MaxFills
     /\ book' = [book EXCEPT ![s] = next]
     /\ account' = applyRealized(account, next.realizedPnl - prior.realizedPnl)
     /\ fills' = fills + 1
     /\ cashFlow' = cashFlow - f * price
     /\ drift' = drift + CASE Sign(prior.netQty) * Sign(f) = -1 -> Cent
                           [] Sign(prior.netQty) * Sign(f) = 0  -> 0
                           [] OTHER                             -> Size(next.netQty)
     /\ UNCHANGED <<portfolioId, peakEquity, stored, rows, gaps>>

-----------------------------------------------------------------------------
\* Mutant: the peak is not recovered from the series.
recoveredPeak_Initial == InitialCash

recoveredPeak == Max({InitialCash} \cup {rows[i].equity : i \in DOMAIN rows})

\* init(): find the Portfolio row or create it, then recover the peak.
init ==
  /\ ~portfolioId
  /\ portfolioId' = TRUE /\ stored' = TRUE /\ peakEquity' = recoveredPeak
  /\ UNCHANGED <<book, account, rows, fills, cashFlow, drift, gaps>>

\* The aggregate is refused after the row was created: execution stays unarmed.
InitRefused ==
  /\ ~portfolioId /\ ~stored
  /\ stored' = TRUE
  /\ UNCHANGED <<book, account, portfolioId, peakEquity, rows, fills, cashFlow, drift, gaps>>

quantizeDrawdown(peak, equity) ==
  Least(Nearest(DrawdownUnits * Most(peak - equity, 0), peak), DrawdownUnits)

\* record() raises the peak in memory before it writes the row; ok says whether the
\* row was written.  A refused row is a gap in the series: the next tick has its own ts.
record(ok) ==
  LET value == valuateAccount(account, book)
      peak  == Most(peakEquity, value.equity)
      row   == [equity |-> value.equity, exposure |-> value.grossExposure,
                drawdown |-> quantizeDrawdown(peak, value.equity)]
  IN /\ portfolioId /\ Len(rows) < MaxRows
     /\ peakEquity' = peak
     /\ rows' = IF ok THEN Append(rows, row) ELSE rows
     /\ gaps' = (gaps \/ ~ok)
     /\ UNCHANGED <<book, account, portfolioId, stored, fills, cashFlow, drift>>

\* The process ends; its successor rebuilds book and account from the journal.
Restart ==
  /\ portfolioId
  /\ portfolioId' = FALSE /\ peakEquity' = 0
  /\ UNCHANGED <<book, account, stored, rows, fills, cashFlow, drift, gaps>>

LedgerNext ==
  \/ \E s \in Held, q \in FillQtys, price \in FillPrices :
       Fill(s, q, price) \/ Fill(s, -q, price)
  \/ init \/ InitRefused
  \/ \E ok \in BOOLEAN : record(ok)
  \/ Restart

LedgerSpec == LedgerInit /\ [][LedgerNext]_ledgerVars

-----------------------------------------------------------------------------
\* Equity does not drift from the fills: it is the opening cash, plus what the fills
\* earned and cost, plus what is held at its marks, whatever order positions were
\* opened, added to, reduced, closed and flipped in, but for half a unit per
\* quantization on the way ("it can never drift out of sync with the positions").
BooksBalance ==
  LET owed == InitialCash + cashFlow
                + MapThenSumSet(LAMBDA s : book[s].netQty * book[s].markPrice, Held)
  IN 2 * Size(valuateAccount(account, book).equity - owed) <= drift + Cent

\* "Drawdown is continuous across process restarts": no row reports less than the
\* fall from the highest equity of the series before it, and as long as every row
\* was written it reports exactly that.
DrawdownContinuous ==
  \A i \in DOMAIN rows :
    LET before == Max({InitialCash} \cup {rows[j].equity : j \in 1..i})
        fall   == quantizeDrawdown(before, rows[i].equity)
    IN rows[i].drawdown >= fall /\ (~gaps => rows[i].drawdown = fall)

\* The account's figures follow from its fills and its own history alone, through
\* rounding, flips, refused rows and restarts.
LedgerSound == BooksBalance /\ DrawdownContinuous

=============================================================================
