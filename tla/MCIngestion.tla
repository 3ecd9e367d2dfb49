----------------------------- MODULE MCIngestion -----------------------------
(* One instance of the ingestion daemon's parts for TLC.  The focus of a     *)
(* behaviour says which part moves; the others stay where they start.        *)
EXTENDS Backfill, IngestionDaemon

MCLiveSymbols == <<"a", "b">>

VARIABLE focus
mcVars == <<focus, backfillVars, restVars, liveVars>>

Row(t, low, high, close) ==
  [ts |-> t, finite |-> TRUE, open |-> low, high |-> high, low |-> low, close |-> close, volume |-> 0]
Good(t) == Row(t, 1, 2, 2)
Kinds(t) == {Good(t), Row(t, 0, 1, 0), Row(t, 2, 1, 1)}

\* Short windows with every kind of row in them, on and off the grid, and one
\* of 25 bars in which one or two are missing.
ShortHistories ==
  {{}} \cup {{a} : a \in Kinds(2)} \cup {{a, c} : a \in Kinds(2), c \in Kinds(6)}
       \cup {{a, Good(4), c, Good(8)} : a \in Kinds(2), c \in Kinds(6)}
LongHistories == {{Good(2 * i) : i \in (0..24) \ gap} : gap \in {{}, {3}, {3, 4}}}
MCHistories == ShortHistories \cup LongHistories
MCWindows == {[from |-> 2, to |-> 8], [from |-> 1, to |-> 4], [from |-> 1, to |-> 9], [from |-> 5, to |-> 5],
              [from |-> 0, to |-> 50], [from |-> 1, to |-> 50]}
MCFindings == {[outliers |-> o, anomalies |-> 2, drift |-> o = 4] : o \in {0, 3, 4}}

\* Long histories go with long windows, and one configuration without options.
Sizes == /\ (window.to >= 50) = (history \in LongHistories)
         /\ "lsr" \in caps => ~startBar /\ ~quant
BackfillRests == /\ window = [from |-> 5, to |-> 5] /\ history = {} /\ ~startBar /\ ~quant
                 /\ "lsr" \in caps

MCInit ==
  /\ focus \in {"backfill", "rest", "socket", "trades", "quotes", "candles", "flow"}
  /\ BackfillInit /\ Sizes /\ (focus = "backfill" \/ BackfillRests)
  /\ RestInit
  /\ LiveInit /\ (focus \in {"candles", "flow"} \/ venue = "DERIBIT")

LiveOnly(A) == A /\ UNCHANGED <<focus, backfillVars, restVars>>

MCNext ==
  \/ focus = "backfill" /\ BackfillNext /\ UNCHANGED <<focus, restVars, liveVars>>
  \/ focus = "rest"     /\ RestNext /\ UNCHANGED <<focus, backfillVars, liveVars>>
  \/ focus = "socket" /\ LiveOnly(SocketSteps)
  \/ focus = "flow" /\ LiveOnly(SocketOpen)
  \/ focus \in {"trades", "quotes", "candles"} /\ LiveOnly(SocketOpen \/ HandshakeDone \/ Stop)
  \/ focus \in {"trades", "quotes"} /\ LiveOnly(TickSteps) /\ trades'["b"] < 2 /\ (focus = "trades" \/ trades' = Zero)
  \/ focus \in {"trades", "quotes"} /\ LiveOnly(QuoteSteps)
       /\ IF focus = "quotes" THEN quotes'["b"] < 2 /\ funding'["b"] = 0 /\ funding'["a"] + quotes'["a"] <= 2
          ELSE quotes' = Zero /\ funding' = Zero
  \/ focus = "candles" /\ LiveOnly(CandleSteps) /\ newest'["b"] = newest["b"]
  \/ focus = "flow" /\ ~oiRaced /\ LiveOnly(OiSteps)    \* a race ends what is promised of the rows

\* A started write, request or computation ends, and the loop around it goes
\* on: the database answers or fails, every request has a timeout.
Progress ==
  /\ \A r \in TickRuns : WF_mcVars(LiveOnly(SpliceBuffer(r) \/ TickRunDone(r) \/ InsertTicks(r, MaxTrades)))
  /\ WF_mcVars(LiveOnly(DrainQuotes))
  /\ \A r \in QuoteRuns : WF_mcVars(LiveOnly(
       ClearQuotes(r) \/ (\E s \in Syms : VisitQuote(r, s))
         \/ UpsertQuote(r, TRUE) \/ UpsertFunding(r, TRUE)))
  /\ \A s \in Syms : WF_mcVars(LiveOnly(RecomputeStep(s)))

MCSpec == MCInit /\ [][MCNext]_mcVars /\ Progress

=============================================================================
