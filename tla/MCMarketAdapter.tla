-------------------------- MODULE MCMarketAdapter --------------------------
(* One instance of the market layer for TLC.  The focus of a behaviour says    *)
(* which part moves: the adapter, the transport of its quotes, its account and *)
(* ledger, or the aggregation of decisions in front of it.  The adapter is cut *)
(* to size by broker: the paper broker trades two symbols for two strategies,  *)
(* the brokers with a venue one symbol for one strategy.                       *)
EXTENDS MarketAdapter, QuoteTransport, AccountLedger, Allocation

CONSTANTS Traded, Trader,   \* the symbol and strategy of the brokers with a venue,
          VenueIntents,     \* how many decisions and
          VenueLines        \* how many executions they get

MCQuoteSymbols == <<"p", "q">>
MCCapital == [st \in {1, 2} |-> 2 * st]

VARIABLE focus
mcVars == <<focus, vars, quoteVars, ledgerVars, allocVars>>

\* Symbols and strategies are interchangeable: the first decision names the first of each.
Scope ==
  /\ intent.no = 1 \/ (intent.no > 1 /\ broker # "paper") =>
       intent.symbol = Traded /\ intent.strategy = Trader
  /\ broker # "paper" =>
       /\ intent.no <= VenueIntents
       /\ Len(file) <= VenueLines /\ Len(venue) <= VenueLines
       /\ ~Unterminated(file)

MCInit ==
  /\ Init /\ QuoteInit /\ LedgerInit /\ AllocInit
  /\ focus \in {"adapter", "quotes", "account", "allocation"}
  /\ focus # "adapter" => broker = "paper"

\* The bound on the time ends a behaviour.
TimeIsUp == focus = "quotes" /\ quoteClock = QuoteHorizon /\ UNCHANGED mcVars

MCNext ==
  \/ TimeIsUp
  \/ focus = "adapter" /\ Next /\ Scope' /\ UNCHANGED <<focus, quoteVars, ledgerVars, allocVars>>
  \/ focus = "quotes" /\ QuoteNext /\ UNCHANGED <<focus, vars, ledgerVars, allocVars>>
  \/ focus = "account" /\ LedgerNext /\ UNCHANGED <<focus, vars, quoteVars, allocVars>>
  \/ focus = "allocation" /\ AllocNext /\ UNCHANGED <<focus, vars, quoteVars, ledgerVars>>

MCSpec == MCInit /\ [][MCNext]_mcVars
=============================================================================
