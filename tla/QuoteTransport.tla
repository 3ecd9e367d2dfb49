---------------------------- MODULE QuoteTransport ----------------------------
(***************************************************************************)
(* DbQuoteTransport (services/workers/src/market): the worker polls the    *)
(* rows the ingestion daemon writes and caches one mark per symbol, which  *)
(* RealtimeProvider.quote serves to the execution stage.  A poll is a      *)
(* chain of queries; the interval does not wait for it, so polls overlap.  *)
(* Only the timestamp of a mark matters here.                              *)
(***************************************************************************)
EXTENDS Integers, Sequences

CONSTANTS QuoteSymbols,   \* the tracked symbols, in their order
          Refreshes,      \* polls that may be under way at once
          MaxAge, PollEvery,
          MaxLatency,     \* by when the queries of one symbol are in
          QuoteHorizon, MaxFeeds   \* bounds on the time and on the rows written

ASSUME QuoteAssumption ==
  /\ MaxAge \in Nat /\ PollEvery \in Nat \ {0} /\ MaxLatency \in Nat
  /\ QuoteHorizon \in Nat /\ MaxFeeds \in Nat
  /\ QuoteSymbols # <<>> /\ QuoteSymbols \in Seq({QuoteSymbols[i] : i \in DOMAIN QuoteSymbols})
  /\ \A i, j \in DOMAIN QuoteSymbols : QuoteSymbols[i] = QuoteSymbols[j] => i = j

VARIABLES quoteClock,
          feedRows,    \* per symbol and source the newest row: its time, and whether its price is one
          written,     \* how many rows were written
          cache,       \* per symbol <<>> or <<the time of the mark>>
          due,         \* when the interval fires next; <<>> before start() and after stop()
          refreshes,   \* the polls under way
          answered,    \* history: when the newest poll of the symbol began that has come in
          refused      \* history: a poll has failed

quoteVars == <<quoteClock, feedRows, written, cache, due, refreshes, answered, refused>>

Tracked == {QuoteSymbols[i] : i \in DOMAIN QuoteSymbols}
Sources == <<"book", "tick", "candle">>
NoRow   == [ts |-> 0, price |-> FALSE]
AtRest  == [pc |-> "done", nth |-> 1, source |-> 1, now |-> 0, found |-> <<>>]

QuoteInit ==
  /\ quoteClock = 0 /\ written = 0 /\ due = <<>> /\ refused = FALSE
  /\ feedRows = [s \in Tracked |-> [i \in 1..3 |-> NoRow]]
  /\ cache = [s \in Tracked |-> <<>>]
  /\ refreshes = [r \in Refreshes |-> AtRest]
  /\ answered = [s \in Tracked |-> 0]

-----------------------------------------------------------------------------
\* A row of the venue arrives; a zero or unreadable price is stored like any other.
FeedWrites(s, i, price) ==
  /\ written < MaxFeeds
  /\ written' = written + 1
  /\ feedRows' = [feedRows EXCEPT ![s][i] = [ts |-> quoteClock, price |-> price]]
  /\ UNCHANGED <<quoteClock, cache, due, refreshes, answered, refused>>

\* markFor looks at the clock once, before its first query.
markFor(n) == [AtRest EXCEPT !.pc = "query", !.nth = n, !.now = quoteClock]

\* Begin one poll at once and one per interval.
Begin(r) ==
  /\ refreshes[r].pc = "done"
  /\ refreshes' = [refreshes EXCEPT ![r] = markFor(1)]
  /\ UNCHANGED <<quoteClock, feedRows, written, cache, answered, refused>>

start(r)    == due = <<>> /\ quoteClock = 0 /\ due' = <<PollEvery>> /\ Begin(r)
Interval(r) == due = <<quoteClock>> /\ due' = <<quoteClock + PollEvery>> /\ Begin(r)

stop ==
  /\ due # <<>>
  /\ due' = <<>>
  /\ UNCHANGED <<quoteClock, feedRows, written, cache, refreshes, answered, refused>>

\* Mutant: the age of a row is not looked at.
fresh_Always(ts, now) == TRUE

fresh(ts, now) == now - ts <= MaxAge

\* One query: a fresh price ends the search, the next source is asked otherwise.
Query(r) ==
  LET run == refreshes[r]
      row == feedRows[QuoteSymbols[run.nth]][run.source]
      hit == row.price /\ fresh(row.ts, run.now)
  IN /\ run.pc = "query"
     /\ refreshes' = [refreshes EXCEPT
          ![r].found = IF hit THEN <<row.ts>> ELSE <<>>,
          ![r].pc = IF hit \/ run.source = Len(Sources) THEN "store" ELSE "query",
          ![r].source = IF hit \/ run.source = Len(Sources) THEN @ ELSE @ + 1]
     /\ UNCHANGED <<quoteClock, feedRows, written, cache, due, answered, refused>>

\* The mark is cached, or the entry cleared, and the next symbol is taken.
Store(r) ==
  LET run == refreshes[r]
      s   == QuoteSymbols[run.nth]
  IN /\ run.pc = "store"
     /\ cache' = [cache EXCEPT ![s] = run.found]
     /\ answered' = [answered EXCEPT ![s] = IF run.now > @ THEN run.now ELSE @]
     /\ refreshes' = [refreshes EXCEPT ![r] =
                        IF run.nth = Len(QuoteSymbols) THEN AtRest
                        ELSE markFor(run.nth + 1)]
     /\ UNCHANGED <<quoteClock, feedRows, written, due, refused>>

\* A failed query ends the poll: this symbol and those after it keep their entries.
Refused(r) ==
  /\ refreshes[r].pc = "query"
  /\ refreshes' = [refreshes EXCEPT ![r] = AtRest]
  /\ refused' = TRUE
  /\ UNCHANGED <<quoteClock, feedRows, written, cache, due, answered>>

\* Time does not pass a timer that is due, nor a query past its latency.
TimeGoes ==
  /\ quoteClock < QuoteHorizon
  /\ due # <<>> => due[1] > quoteClock
  /\ \A r \in Refreshes :
       refreshes[r].pc # "done" => quoteClock < refreshes[r].now + MaxLatency
  /\ quoteClock' = quoteClock + 1
  /\ UNCHANGED <<feedRows, written, cache, due, refreshes, answered, refused>>

QuoteNext ==
  \/ \E s \in Tracked, i \in 1..3, price \in BOOLEAN : FeedWrites(s, i, price)
  \/ \E r \in Refreshes : start(r) \/ Interval(r) \/ Query(r) \/ Store(r) \/ Refused(r)
  \/ stop
  \/ TimeGoes

QuoteSpec == QuoteInit /\ [][QuoteNext]_quoteVars

-----------------------------------------------------------------------------
\* latest, and RealtimeProvider.quote on top of it.
quote(s) == cache[s]

Nth(s) == CHOOSE n \in DOMAIN QuoteSymbols : QuoteSymbols[n] = s

\* A mark the execution stage sizes an order on ages out against the polls that are
\* answered.  Against the newest poll that has come in it is
\* at most MaxAge and one latency old, also when an older poll comes in last; and
\* while every poll is answered, at any moment at most an interval and the latencies
\* of the queries before it older than that.
MarkAgesOut ==
  \A s \in Tracked : quote(s) # <<>> =>
    /\ answered[s] - quote(s)[1] <= MaxAge + MaxLatency
    /\ ~refused /\ due # <<>> =>
         quoteClock - quote(s)[1] <= MaxAge + PollEvery + (Nth(s) + 1) * MaxLatency
=============================================================================
