------------------------------ MODULE VenueRest ------------------------------
(* The REST plumbing the Deribit and Binance connectors share: one client    *)
(* per venue, a spacing of its requests kept in lastRequestAt, and retries   *)
(* of a transient failure with exponential backoff.  The warm-up of every    *)
(* symbol, the flow poll and the backfill call it concurrently.              *)
EXTENDS Integers, FiniteSets

CONSTANTS
  Callers,        \* concurrent calls of restGet
  RateInterval,   \* RATE_LIMIT_INTERVAL_MS
  RetryBase,      \* RETRY_BASE_DELAY_MS
  MaxRetries,     \* MAX_RETRIES
  Horizon         \* bound on the clock

ASSUME RestAssumption ==
  /\ RateInterval \in Nat \ {0} /\ RetryBase \in Nat /\ MaxRetries \in Nat /\ Horizon \in Nat
  /\ IsFiniteSet(Callers)

VARIABLES
  clock,           \* Date.now(), from the creation of the connector on
  lastRequestAt,   \* the last request slot handed out
  call,            \* per caller: where restGet stands
  requests         \* fetches issued so far

restVars == <<clock, lastRequestAt, call, requests>>

Transient == {"network", "429", "5xx", "badJson"}
Fatal     == {"rpcError", "4xx", "noResult"}
Outcomes  == Transient \cup Fatal \cup {"ok"}
Resting   == [pc |-> "idle", attempt |-> 0, wake |-> 0]

\* Nothing was asked yet: lastRequestAt is 0 and the clock far beyond it.
RestInit ==
  /\ clock = 0 /\ lastRequestAt = -RateInterval /\ requests = 0
  /\ call = [c \in Callers |-> Resting]

Later(a, b) == IF a > b THEN a ELSE b

\* Mutant: the slot is not reserved before the sleep.
Throttle_Unreserved(c, attempt) ==
  /\ lastRequestAt' = clock
  /\ call' = [call EXCEPT ![c] =
       [pc |-> "throttled", attempt |-> attempt, wake |-> lastRequestAt + RateInterval]]

\* throttle(): reserve the next slot before sleeping until it.
Throttle(c, attempt) ==
  LET earliest == lastRequestAt + RateInterval IN
  /\ lastRequestAt' = Later(clock, earliest)
  /\ call' = [call EXCEPT ![c] = [pc |-> "throttled", attempt |-> attempt, wake |-> earliest]]

RestGet(c) ==
  /\ call[c].pc = "idle"
  /\ Throttle(c, 0)
  /\ UNCHANGED <<clock, requests>>

\* A timer fires at its time or later, never before it.
Fetch(c) ==
  /\ call[c].pc = "throttled" /\ clock >= call[c].wake
  /\ call' = [call EXCEPT ![c].pc = "inflight"]
  /\ requests' = requests + 1
  /\ UNCHANGED <<clock, lastRequestAt>>

Answered(c, o) ==
  /\ call[c].pc = "inflight"
  /\ call' = [call EXCEPT ![c] =
       IF o \in Transient /\ call[c].attempt < MaxRetries
       THEN [@ EXCEPT !.pc = "backoff", !.wake = clock + RetryBase * 2 ^ call[c].attempt]
       ELSE Resting]                             \* the result, or the error thrown
  /\ UNCHANGED <<clock, lastRequestAt, requests>>

Retry(c) ==
  /\ call[c].pc = "backoff" /\ clock >= call[c].wake
  /\ Throttle(c, call[c].attempt + 1)
  /\ UNCHANGED <<clock, requests>>

ClockTick ==
  /\ clock < Horizon
  /\ clock' = clock + 1
  /\ UNCHANGED <<lastRequestAt, call, requests>>

RestNext ==
  \/ ClockTick
  \/ \E c \in Callers :
       RestGet(c) \/ Fetch(c) \/ Retry(c) \/ \E o \in Outcomes : Answered(c, o)

\* However the callers, their retries and late timers interleave, the venue
\* sees at most one request per interval of elapsed time, and one to start
\* with: throttle() hands out a slot before it sleeps, so two callers that
\* sleep together never wake for the same one.
VenueRateRespected == requests <= 1 + clock \div RateInterval
=============================================================================
