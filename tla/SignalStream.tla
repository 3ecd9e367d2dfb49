---------------------------- MODULE SignalStream ----------------------------
(***************************************************************************)
(* The live signal feed: the server-sent event stream of EngineSignal rows *)
(* (apps/web/src/app/api/v1/signals/stream/route.ts over lib/signals.ts)   *)
(* and the component that shows it (components/signal-feed.tsx), with the  *)
(* database rows being written underneath and the connection coming and    *)
(* going between them.                                                     *)
(*                                                                         *)
(* Abstractions.  A row is its position in the keyset order (createdAt,    *)
(* id); rows get their position when their insert starts and may become    *)
(* visible in another order.  A malformed cursor is not sent by this       *)
(* client and left out, as is the hidden tab.                              *)
(***************************************************************************)
EXTENDS Naturals, Sequences, FiniteSets, SequencesExt

CONSTANTS
  MaxRow,      \* bound on rows written: positions 1..MaxRow
  Backlog,     \* BACKLOG, rows sent to a fresh client
  PageSize,    \* rows of one poll (100)
  RestRows,    \* rows of one REST load (100)
  MaxRender    \* MAX_RENDER, rows the feed keeps

ASSUME StreamAssumption ==
  {Backlog, PageSize, RestRows, MaxRender} \subseteq Nat \ {0} /\ MaxRow \in Nat

VARIABLES
  begun,     \* rows whose insert has started
  rows,      \* rows committed
  late,      \* rows committed after one with a later position
  session,   \* the server's side of the connection
  wire,      \* frames sent and not yet received
  es,        \* the browser's EventSource
  cursor,    \* its last event id
  seen,      \* rows this EventSource has delivered
  base,      \* where the rows it asked for begin
  poll,      \* the fallback poll runs
  feed,      \* rows shown
  dbUp

dbVars == <<begun, rows, late>>
feedVars == <<es, cursor, seen, base, poll, feed>>
streamVars == <<dbVars, session, wire, feedVars, dbUp>>

NoSession == [open |-> FALSE]
RowPositions == 1..MaxRow
NewestOf(S, n) == {r \in S : Cardinality({q \in S : q > r}) < n}
OldestOf(S, n) == {r \in S : Cardinality({q \in S : q < r}) < n}
Ascending(S) == CHOOSE s \in [1..Cardinality(S) -> S] :
                  /\ \A r \in S : \E k \in DOMAIN s : s[k] = r
                  /\ \A j, k \in DOMAIN s : j < k => s[j] < s[k]

StreamInit ==
  /\ begun = {} /\ rows = {} /\ late = {}
  /\ session = NoSession /\ wire = <<>>
  /\ es = "loading" /\ cursor = 0 /\ seen = {} /\ base = 1 /\ poll = FALSE /\ feed = {}
  /\ dbUp = TRUE

-----------------------------------------------------------------------------
(* the rows *)

BeginInsert(r) ==
  /\ r \notin begun /\ \A q \in begun : q < r
  /\ begun' = begun \cup {r}
  /\ UNCHANGED <<rows, late, session, wire, feedVars, dbUp>>

CommitRow(r) ==
  /\ r \in begun \ rows
  /\ rows' = rows \cup {r}
  /\ late' = IF \E q \in rows : q > r THEN late \cup {r} ELSE late
  /\ UNCHANGED <<begun, session, wire, feedVars, dbUp>>

DbChanges == dbUp' = ~dbUp /\ UNCHANGED <<dbVars, session, wire, feedVars>>

-----------------------------------------------------------------------------
(* GET /api/v1/signals/stream *)

\* Mutant: the page is taken from the newest end.
getSignalsAfterCursor_Newest(after) == NewestOf({r \in rows : r > after}, PageSize)

\* Rows strictly after the cursor, oldest first, one page.
getSignalsAfterCursor(after) == OldestOf({r \in rows : r > after}, PageSize)

\* Mutant: a reconnecting client is treated as a fresh one.
resumed_Never(id) == FALSE

resumed(id) == id # 0

\* The browser connects: with its last event id the stream resumes after it,
\* without one the backlog comes first.  `open' stops the fallback poll.
Connect ==
  /\ es \in {"new", "connecting"}
  /\ session' = [open |-> TRUE, pc |-> IF resumed(cursor) THEN "idle" ELSE "backlog",
                 at |-> IF resumed(cursor) THEN cursor ELSE 0, page |-> {}]
  /\ es' = "open" /\ poll' = FALSE
  /\ UNCHANGED <<dbVars, wire, cursor, seen, base, feed, dbUp>>

\* getLatestSignals(BACKLOG), sent oldest first; a failed read sends an error
\* frame and leaves the cursor where it was.
SendBacklog ==
  /\ session.open /\ session.pc = "backlog"
  /\ IF dbUp
     THEN LET new == NewestOf(rows, Backlog) IN
          /\ wire' = wire \o Ascending(new)
          /\ session' = [session EXCEPT !.pc = "idle",
                           !.at = IF new = {} THEN @ ELSE CHOOSE r \in new : \A q \in new : q <= r]
          /\ base' = IF new = {} THEN 1 ELSE CHOOSE r \in new : \A q \in new : r <= q
     ELSE session' = [session EXCEPT !.pc = "idle"] /\ base' = 1 /\ UNCHANGED wire
  /\ UNCHANGED <<dbVars, es, cursor, seen, poll, feed, dbUp>>

\* The interval: one query at a time; what it read is sent when it resolves.
PollDb ==
  /\ session.open /\ session.pc = "idle" /\ dbUp
  /\ getSignalsAfterCursor(session.at) # {}
  /\ session' = [session EXCEPT !.pc = "send", !.page = getSignalsAfterCursor(session.at)]
  /\ UNCHANGED <<dbVars, wire, feedVars, dbUp>>

\* sendSignal moves the cursor with every row.
Position(s) == CHOOSE r \in s.page : \A q \in s.page : q <= r

SendPage ==
  /\ session.open /\ session.pc = "send"
  /\ wire' = wire \o Ascending(session.page)
  /\ session' = [session EXCEPT !.pc = "idle", !.at = Position(session), !.page = {}]
  /\ UNCHANGED <<dbVars, feedVars, dbUp>>

-----------------------------------------------------------------------------
(* SignalFeed *)

\* Mutant: the oldest rows are kept.
merge_KeepsOldest(S) == OldestOf(feed \cup S, MaxRender)

\* merge: rows replace themselves by id, the newest MAX_RENDER are kept.
merge(S) == NewestOf(feed \cup S, MaxRender)

Receive ==
  /\ es = "open" /\ wire # <<>>
  /\ feed' = merge({Head(wire)})
  /\ seen' = seen \cup {Head(wire)} /\ cursor' = Head(wire)
  /\ wire' = Tail(wire)
  /\ UNCHANGED <<dbVars, session, es, base, poll, dbUp>>

\* The connection breaks, and what was on it is lost.  The browser reconnects
\* on its own ("connecting") or gives up for good ("closed").
Disconnect(how) ==
  /\ es \in {"new", "open", "connecting"} /\ how \in {"connecting", "closed"} /\ es # how
  /\ es' = how /\ poll' = TRUE
  /\ session' = NoSession /\ wire' = <<>>
  /\ UNCHANGED <<dbVars, cursor, seen, base, feed, dbUp>>

\* scheduleSseRetry: a new EventSource, which knows no last event id.
RetrySse ==
  /\ es = "closed"
  /\ es' = "new" /\ cursor' = 0 /\ seen' = {} /\ base' = 1
  /\ UNCHANGED <<dbVars, session, wire, poll, feed, dbUp>>

\* loadOnce as the fallback poll; a failed load shows a banner.
LoadOnce ==
  /\ poll /\ dbUp
  /\ feed' = merge(NewestOf(rows, RestRows))
  /\ UNCHANGED <<dbVars, session, wire, es, cursor, seen, base, poll, dbUp>>

\* The first load comes before the stream, which starts also when it fails.
FirstLoad ==
  /\ es = "loading" /\ es' = "new"
  /\ feed' = IF dbUp THEN merge(NewestOf(rows, RestRows)) ELSE feed
  /\ UNCHANGED <<dbVars, session, wire, cursor, seen, base, poll, dbUp>>

StreamNext ==
  \/ \E r \in RowPositions : BeginInsert(r) \/ CommitRow(r)
  \/ DbChanges \/ Connect \/ SendBacklog \/ PollDb \/ SendPage
  \/ Receive \/ RetrySse \/ FirstLoad \/ LoadOnce
  \/ \E how \in {"connecting", "closed"} : Disconnect(how)

StreamSpec == StreamInit /\ [][StreamNext]_streamVars

-----------------------------------------------------------------------------
\* No row is delivered twice to one EventSource, however often it reconnects:
\* nothing it has seen is on the wire, and nothing is there twice.
NoRedelivery ==
  /\ \A k \in DOMAIN wire : wire[k] \notin seen
  /\ \A j, k \in DOMAIN wire : wire[j] = wire[k] => j = k

\* Lost connections, lost frames and short pages lose no row: whatever lies
\* behind the last event id has been delivered, unless it was committed after
\* a row with a later position (its cursor place had been passed).
NoGap ==
  es # "new" /\ cursor # 0 => \A r \in rows : base <= r /\ r <= cursor => r \in seen \cup late

\* Once database and stream stay up, every row from where the stream began
\* that is among the newest MAX_RENDER is shown, but for the late ones.
FeedCatchesUp ==
  <>[](dbUp /\ es = "open")
     => <>[](\A r \in NewestOf(rows, MaxRender) \ late : base <= r => r \in feed)

\* The stream delivers exactly: no row twice to one EventSource, and none left out
\* behind its cursor but the late ones.
StreamExact == NoRedelivery /\ NoGap

=============================================================================
