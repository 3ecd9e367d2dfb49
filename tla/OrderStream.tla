---------------------------- MODULE OrderStream ----------------------------
(***************************************************************************)
(* The life of one broker order (services/workers/src/market): the event   *)
(* streams the brokers return (broker.ts, deribit-order-transport.ts) and  *)
(* the state machine every stream is folded through before a fill is       *)
(* applied (order.ts).  An event is named by the state it leads to; the    *)
(* position of an event in the stream is its seq.  Quantities are whole    *)
(* numbers of the smallest unit, so the tolerances of the code are exact   *)
(* comparisons.                                                            *)
(***************************************************************************)
EXTENDS Integers, Sequences, SequencesExt

Sides == {"BUY", "SELL"}
FillKinds == {"PARTIALLY_FILLED", "FILLED"}
TERMINAL  == {"FILLED", "CANCELLED", "REJECTED"}

LEGAL_FROM ==
  [REQUESTED        |-> {"START"},
   SUBMITTED        |-> {"REQUESTED"},
   ACCEPTED         |-> {"SUBMITTED"},
   PARTIALLY_FILLED |-> {"ACCEPTED", "PARTIALLY_FILLED"},
   FILLED           |-> {"ACCEPTED", "PARTIALLY_FILLED"},
   CANCELLED        |-> {"REQUESTED", "SUBMITTED", "ACCEPTED", "PARTIALLY_FILLED"},
   REJECTED         |-> {"REQUESTED", "SUBMITTED", "ACCEPTED"}]

isFillEvent(e) == e.kind \in FillKinds

\* A fill is consistent with the running total, never exceeds the order, and is
\* FILLED exactly when it completes it.
SoundFill(e, filled, ordered) ==
  /\ e.qty > 0
  /\ e.cum = filled + e.qty
  /\ e.cum <= ordered
  /\ e.kind = "FILLED" <=> e.cum = ordered

\* One step of reduceOrder; `sound` is FALSE once it would have thrown.
reduceEvent(ordered, acc, e) ==
  [state  |-> e.kind,
   filled |-> IF isFillEvent(e) THEN acc.filled + e.qty ELSE acc.filled,
   sound  |-> /\ acc.sound
              /\ acc.state \notin TERMINAL
              /\ acc.state \in LEGAL_FROM[e.kind]
              /\ isFillEvent(e) => SoundFill(e, acc.filled, ordered)]

reduceOrder(ordered, events) ==
  FoldLeft(LAMBDA acc, e : reduceEvent(ordered, acc, e),
           [state |-> "START", filled |-> 0, sound |-> events # <<>>], events)

fillsFrom(events) ==
  FoldLeft(LAMBDA fills, e : IF isFillEvent(e) THEN Append(fills, e) ELSE fills, <<>>, events)

-----------------------------------------------------------------------------
Step(kind) == [kind |-> kind, qty |-> 0, price |-> 0, cum |-> 0]
Submitted  == <<Step("REQUESTED"), Step("SUBMITTED")>>

\* What trades 1..i of an order add up to.
CumQty(trades, i) == FoldLeft(LAMBDA sum, t : sum + t.qty, 0, SubSeq(trades, 1, i))
TotalQty(trades)  == CumQty(trades, Len(trades))

\* Mutant: the trade that completes the order is not reported as FILLED.
FillEvents_NeverFilled(ordered, trades) ==
  [i \in DOMAIN trades |->
     [kind |-> "PARTIALLY_FILLED", qty |-> trades[i].qty,
      price |-> trades[i].price, cum |-> CumQty(trades, i)]]

FillEvents(ordered, trades) ==
  [i \in DOMAIN trades |->
     [kind  |-> IF i = Len(trades) /\ CumQty(trades, i) = ordered
                THEN "FILLED" ELSE "PARTIALLY_FILLED",
      qty   |-> trades[i].qty,
      price |-> trades[i].price,
      cum   |-> CumQty(trades, i)]]

\* PaperBroker: one full fill at the reference price.
PaperEvents(order) ==
  Submitted \o <<Step("ACCEPTED")>>
  \o FillEvents(order.qty, <<[qty |-> order.qty, price |-> order.price]>>)

\* The prices slippage can lead to: a BUY pays up, a SELL receives less.
SlippedPrices(order, prices) ==
  {p \in prices : IF order.side = "BUY" THEN p >= order.price ELSE p <= order.price}

\* SimulatedBroker's split into 1-3 chunks, the last one taking the remainder; a
\* split whose chunks round to nothing collapses to one fill.
Chunks(qty, parts) ==
  LET chunk == qty \div parts
      n     == IF chunk = 0 THEN 1 ELSE parts
  IN [i \in 1 .. n |-> IF i = n THEN qty - (n - 1) * chunk ELSE chunk]

\* The streams SimulatedBroker can return; the hash of the order id that picks one
\* is left open.
SimulatedStreams(order, prices) ==
  {Submitted \o <<Step("REJECTED")>>}
  \cup UNION {{Submitted \o <<Step("ACCEPTED")>>
               \o FillEvents(order.qty, [i \in DOMAIN Chunks(order.qty, parts) |->
                    [qty |-> Chunks(order.qty, parts)[i], price |-> slipped[i]]]) :
               slipped \in [DOMAIN Chunks(order.qty, parts) ->
                              SlippedPrices(order, prices)]} :
              parts \in 1 .. 3}

-----------------------------------------------------------------------------
\* The venue's trades add up to more than was ordered: buildEvents throws.
Overfilled(order, trades) == TotalQty(trades) > order.qty

\* buildEvents: what the Deribit transport makes of the venue's answer.  An order
\* the venue is done with and that did not execute in full ends CANCELLED.
buildEvents(order, outcome) ==
  IF outcome.state = "rejected" THEN Submitted \o <<Step("REJECTED")>>
  ELSE Submitted \o <<Step("ACCEPTED")>> \o FillEvents(order.qty, outcome.trades)
       \o (IF TotalQty(outcome.trades) = order.qty THEN <<>>
           ELSE <<Step("CANCELLED")>>)

\* The amount sent to the venue: the order rounded down to whole lots.
venueAmount(order, lot) == (order.qty \div lot) * lot

=============================================================================
