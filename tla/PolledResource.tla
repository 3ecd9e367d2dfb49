--------------------------- MODULE PolledResource ---------------------------
(***************************************************************************)
(* The polling primitive behind the console's panels                       *)
(* (apps/web/src/lib/use-polled-resource.ts): one registry entry per URL,  *)
(* shared by the components that show it, with its timer, its request in   *)
(* flight, its failure backoff and its snapshot.  One URL is modelled.     *)
(*                                                                         *)
(* Abstractions.  Loads are kept in the order they were started; instead   *)
(* of comparing sequence numbers a load is `late' once a younger one has   *)
(* been applied.  The entry's controller is the one of the load marked     *)
(* `current'.  The payload is the number of the server state it was read   *)
(* from.  How long intervals and backoffs are does not matter here, only   *)
(* that they end.                                                          *)
(***************************************************************************)
EXTENDS Naturals, Sequences, SequencesExt

CONSTANTS
  Panels,      \* components that subscribe to the URL
  MaxLoads,    \* bound on unfinished loads, superseded ones included
  MaxServerState   \* bound on server states

ASSUME PollAssumption == {MaxLoads, MaxServerState} \subseteq Nat \ {0}

VARIABLES
  subs,      \* mounted panels; the entry exists while there is one
  settled,   \* a load of this entry was applied
  loads,     \* unfinished loads, oldest first
  shown,     \* the snapshot: [data, error, loading]; data 0 is none
  backoff,   \* inside the failure backoff window
  visible,   \* the tab
  up,        \* the server answers
  version    \* the server's state

pollVars == <<subs, settled, loads, shown, backoff, visible, up, version>>
serverVars == <<up, version>>

INITIAL == [data |-> 0, error |-> FALSE, loading |-> TRUE]

PollInit ==
  /\ subs = {} /\ settled = FALSE /\ loads = <<>> /\ shown = INITIAL /\ backoff = FALSE
  /\ visible = TRUE /\ up = TRUE /\ version = 1

InFlight == \E k \in DOMAIN loads : loads[k].current

\* Mutant: the request in flight is forgotten and not aborted.
Superseded_Forgets(ls) == [k \in DOMAIN ls |-> [ls[k] EXCEPT !.current = FALSE]]

\* load(): what is in flight is aborted and the new request takes its place.
Superseded(ls) == [k \in DOMAIN ls |-> IF ls[k].current
                                       THEN [ls[k] EXCEPT !.aborted = TRUE, !.current = FALSE]
                                       ELSE ls[k]]
NewLoad == [aborted |-> FALSE, current |-> TRUE, late |-> FALSE, answer |-> 0]
Started(ls) == Append(Superseded(ls), NewLoad)

\* subscribe: the first panel creates the entry; load unless one has settled
\* or is in flight.
Mount(p) ==
  /\ p \notin subs
  /\ subs' = subs \cup {p}
  /\ loads' = IF ~settled /\ ~InFlight THEN Started(loads) ELSE loads
  /\ UNCHANGED <<settled, shown, backoff, visible, serverVars>>

\* The last panel takes the entry with it: request aborted, timer cleared.
\* The loads of an entry that is out of the registry are not seen again.
Unmount(p) ==
  /\ p \in subs
  /\ subs' = subs \ {p}
  /\ IF subs = {p}
     THEN loads' = <<>> /\ settled' = FALSE /\ shown' = INITIAL /\ backoff' = FALSE
     ELSE UNCHANGED <<loads, settled, shown, backoff>>
  /\ UNCHANGED <<visible, serverVars>>

\* The interval of ensureTimer: skipped while hidden, in flight or backing off.
TimerFires ==
  /\ subs # {} /\ visible /\ ~InFlight /\ ~backoff
  /\ Len(loads) < MaxLoads
  /\ loads' = Started(loads)
  /\ UNCHANGED <<subs, settled, shown, backoff, visible, serverVars>>

\* refetch: supersedes whatever is in flight and ignores the backoff.
Refetch ==
  /\ subs # {}
  /\ Len(loads) < MaxLoads
  /\ loads' = Started(loads)
  /\ UNCHANGED <<subs, settled, shown, backoff, visible, serverVars>>

Hide ==
  /\ visible /\ visible' = FALSE
  /\ UNCHANGED <<subs, settled, loads, shown, backoff, serverVars>>

\* Becoming visible loads at once, unless a request is in flight.
Show ==
  /\ ~visible /\ visible' = TRUE
  /\ loads' = IF subs # {} /\ ~InFlight THEN Started(loads) ELSE loads
  /\ UNCHANGED <<subs, settled, shown, backoff, serverVars>>

\* Mutant: no guard against results out of order.
discarded_Never(l) == FALSE

\* An aborted request, or one older than what was applied, changes nothing.
discarded(l) == l.aborted \/ l.late

\* Mutant: a finished load leaves its controller behind.
Finished_Keeps(ls, k) == [ls EXCEPT ![k].answer = 0, ![k].aborted = TRUE]

\* finally: the load is over, and with it its controller.
Finished(ls, k) == RemoveAt(ls, k)

\* entry.applied = seq: older loads that still run are too late.
Applied(k) == Finished([j \in DOMAIN loads |-> IF j < k THEN [loads[j] EXCEPT !.late = TRUE]
                                              ELSE loads[j]], k)

ServerReads(k) ==
  /\ up /\ k \in DOMAIN loads /\ loads[k].answer = 0
  /\ loads' = [loads EXCEPT ![k].answer = version]
  /\ UNCHANGED <<subs, settled, shown, backoff, visible, serverVars>>

\* fetchEnvelope resolves.
Succeeds(k) ==
  /\ k \in DOMAIN loads /\ loads[k].answer # 0
  /\ IF discarded(loads[k])
     THEN loads' = Finished(loads, k) /\ UNCHANGED <<settled, shown, backoff>>
     ELSE /\ loads' = Applied(k) /\ settled' = TRUE /\ backoff' = FALSE
          /\ shown' = [data |-> loads[k].answer, error |-> FALSE, loading |-> FALSE]
  /\ UNCHANGED <<subs, visible, serverVars>>

\* It rejects: aborted, unreachable, an HTTP error, or the 15 s timeout of a
\* server that does not answer.  The data shown stays.
Fails(k) ==
  /\ k \in DOMAIN loads /\ (loads[k].aborted \/ ~up)
  /\ IF discarded(loads[k])
     THEN loads' = Finished(loads, k) /\ UNCHANGED <<settled, shown, backoff>>
     ELSE /\ loads' = Applied(k) /\ settled' = TRUE /\ backoff' = TRUE
          /\ shown' = [shown EXCEPT !.error = TRUE, !.loading = FALSE]
  /\ UNCHANGED <<subs, visible, serverVars>>

BackoffEnds ==
  /\ backoff /\ backoff' = FALSE
  /\ UNCHANGED <<subs, settled, loads, shown, visible, serverVars>>

ServerChanges ==
  \/ version < MaxServerState /\ version' = version + 1
       /\ UNCHANGED <<subs, settled, loads, shown, backoff, visible, up>>
  \/ up' = ~up /\ UNCHANGED <<subs, settled, loads, shown, backoff, visible, version>>

PollNext ==
  \/ \E p \in Panels : Mount(p) \/ Unmount(p)
  \/ TimerFires \/ Refetch \/ Hide \/ Show \/ BackoffEnds
  \/ \E k \in 1..MaxLoads : ServerReads(k) \/ Succeeds(k) \/ Fails(k)
  \/ ServerChanges

PollSpec == PollInit /\ [][PollNext]_pollVars

-----------------------------------------------------------------------------
\* What a panel shows never goes back to an older state of the server, though
\* requests are superseded and their answers still arrive.
NeverGoesBack == [][subs' # {} /\ shown.data # 0 => shown'.data >= shown.data]_pollVars

\* One request at a time counts for an entry, however timer, refetch, mount
\* and the tab's visibility interleave; superseded ones are all aborted.
OneLiveLoad ==
  \A j, k \in DOMAIN loads : ~loads[j].aborted /\ ~loads[k].aborted => j = k

\* A panel that stays mounted in a visible tab shows the server's current
\* state without an error once the server stays up and nobody refetches any
\* more: no sequence of failures, refetches, aborts, mounts or tab switches
\* leaves the entry without a next poll.
PanelRecovers ==
  <>[](up /\ visible /\ subs # {} /\ version = MaxServerState) /\ <>[][~Refetch]_pollVars
     => <>[](~shown.error /\ shown.data = MaxServerState)

\* Superseded requests do no harm: at most one that is not aborted is under way, and
\* what a panel shows never goes back.
PollingInOrder == []OneLiveLoad /\ NeverGoesBack

=============================================================================
