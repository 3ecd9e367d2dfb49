------------------------------ MODULE WebAuth ------------------------------
(***************************************************************************)
(* Getting into the operator console: POST /api/v1/auth/login with its     *)
(* failure limiter (lib/login-rate-limit.ts), the signed session           *)
(* (lib/session.ts) and the two checks every mutating request passes, the  *)
(* middleware and requireOperatorSession.                                  *)
(*                                                                         *)
(* Several login requests of one web process run at once; each awaits the  *)
(* limiter's check, its body, and the record of its outcome.  Every Redis  *)
(* exchange is answered, or not: refused, lost, or executed in part or in  *)
(* full with the answer lost, and then the process counts for itself.      *)
(*                                                                         *)
(* Abstractions.  A client identity is a model value (the header is only   *)
(* picked and hashed), a token is wrong, malformed or an operator's.  A    *)
(* window is not measured: it may end whenever the bucket has an expiry.   *)
(* A bucket also counts, for the properties only, in `own' the failures    *)
(* that were admitted by the same store that recorded them.                *)
(***************************************************************************)
EXTENDS Naturals, Sequences, FiniteSets, SequencesExt

CONSTANTS
  Clients,             \* client identities
  Requests,            \* login requests the process serves at once
  Principals,          \* operators, registered or not
  MaxFailures,         \* LOGIN_RATE_LIMIT_MAX_FAILURES
  GlobalMaxFailures,   \* LOGIN_RATE_LIMIT_GLOBAL_MAX_FAILURES, 0 disables
  MemoryMaxBuckets,    \* MEMORY_MAX_BUCKETS
  SessionTtl,          \* SESSION_TTL_SECONDS
  MaxAttempts,         \* bound on the wrong tokens presented
  MaxTime              \* bound on the clock

Global == "global"

ASSUME AuthAssumption ==
  /\ {MaxFailures, MemoryMaxBuckets, SessionTtl} \subseteq Nat \ {0}
  /\ {GlobalMaxFailures, MaxAttempts, MaxTime} \subseteq Nat
  /\ IsFiniteSet(Requests) /\ Requests # {} /\ Global \notin Clients

Buckets == Clients \cup {Global}
NoCookie == [sub |-> "nobody", exp |-> 0]

VARIABLES
  redis,      \* shared buckets: [n, own, ttl]
  memory,     \* this process's Map, in insertion order: [key, n, own, live]
  req,        \* login requests in progress
  attempts,   \* wrong tokens presented so far
  now,        \* clock
  registry,   \* operators configured in this process's environment
  cookie,     \* the last session issued to each operator's browser
  call        \* a mutating request and the session it acted under

limiterVars == <<redis, memory, req, attempts>>
sessionVars == <<now, registry, cookie, call>>
authVars == <<limiterVars, sessionVars>>

Empty == [n |-> 0, own |-> 0, ttl |-> FALSE]
Waiting == [pc |-> "idle"]

AuthInit ==
  /\ redis = [b \in Buckets |-> Empty]
  /\ memory = <<>>
  /\ req = [r \in Requests |-> Waiting]
  /\ attempts = 0
  /\ now = 0
  /\ registry \in SUBSET Principals
  /\ cookie = [o \in Principals |-> NoCookie]
  /\ call = [pc |-> "idle", by |-> NoCookie, done |-> NoCookie]

-----------------------------------------------------------------------------
(* the in-process store *)

Live(m, key) == {k \in DOMAIN m : m[k].key = key /\ m[k].live}

\* memoryGet; an expired entry is deleted on the way.
memoryGet(m, key) == IF Live(m, key) = {} THEN 0 ELSE m[CHOOSE k \in Live(m, key) : TRUE].n

\* The entries that are in E, in their order.
Kept(m, E) == LET kept[k \in 0..Len(m)] ==
                    IF k = 0 THEN <<>>
                    ELSE IF m[k] \in E THEN Append(kept[k - 1], m[k]) ELSE kept[k - 1]
              IN kept[Len(m)]
Swept(m, keys) == Kept(m, {e \in Range(m) : e.key \in keys => e.live})
Unexpired(m)   == Kept(m, {e \in Range(m) : e.live})

\* Mutant: only expired buckets make room.
MakeRoom_Prune(m) == IF Len(m) < MemoryMaxBuckets THEN m ELSE Unexpired(m)

\* At the cap, expired buckets go first, then the oldest one.
MakeRoom(m) ==
  LET fresh == Unexpired(m) IN
  IF Len(m) < MemoryMaxBuckets THEN m
  ELSE IF Len(fresh) < MemoryMaxBuckets THEN fresh ELSE Tail(fresh)

\* memoryIncr; setting a key that is still in the Map keeps its place.
memoryIncr(m, key, own) ==
  LET room == MakeRoom(m)
      first == [key |-> key, n |-> 1, own |-> own, live |-> TRUE]
      at == {k \in DOMAIN room : room[k].key = key}
  IN IF Live(m, key) # {}
     THEN [k \in DOMAIN m |-> IF m[k].key = key THEN [m[k] EXCEPT !.n = @ + 1, !.own = @ + own]
                              ELSE m[k]]
     ELSE IF at # {} THEN [k \in DOMAIN room |-> IF k \in at THEN first ELSE room[k]]
     ELSE Append(room, first)

\* Both buckets of a client.
countInMemory(m, c, own) ==
  LET mine == memoryIncr(m, c, own)
  IN IF GlobalMaxFailures > 0 THEN memoryIncr(mine, Global, own) ELSE mine

(* the shared store *)

\* Mutant: the expiry is a command of its own, which may be lost.
Incr_NoExpiry(b, own) == [n |-> b.n + 1, own |-> b.own + own, ttl |-> b.ttl]

\* INCR_SCRIPT: the first increment sets the expiry in the same step.
Incr(b, own) == [n |-> b.n + 1, own |-> b.own + own, ttl |-> b.n = 0 \/ b.ttl]

bucketKeys(c) == IF GlobalMaxFailures > 0 THEN {c, Global} ELSE {c}

-----------------------------------------------------------------------------
(* POST /api/v1/auth/login *)

\* A request of client c arrives; a declared length over the cap ends it.
LoginStart(r, c) ==
  /\ req[r].pc = "idle"
  /\ req' = [req EXCEPT ![r] = [pc |-> "check", client |-> c, store |-> "none",
                                session |-> NoCookie]]
  /\ UNCHANGED <<redis, memory, attempts, sessionVars>>

\* Mutant: the limit itself is still admitted.
limited_Late(clientCount, globalCount) ==
  \/ clientCount > MaxFailures
  \/ GlobalMaxFailures > 0 /\ globalCount > GlobalMaxFailures

limited(clientCount, globalCount) ==
  \/ clientCount >= MaxFailures
  \/ GlobalMaxFailures > 0 /\ globalCount >= GlobalMaxFailures

\* checkLoginAllowed: the counts of Redis when it answers, else the process's
\* own; over the limit the request ends with 429 before its body is read.
CheckLogin(r, answered) ==
  LET c == req[r].client
      n(b) == IF answered THEN redis[b].n ELSE memoryGet(memory, b)
  IN /\ req[r].pc = "check"
     /\ req' = [req EXCEPT ![r] =
                  IF limited(n(c), n(Global)) THEN Waiting
                  ELSE [@ EXCEPT !.pc = "body", !.store = IF answered THEN "redis" ELSE "memory"]]
     /\ memory' = IF answered THEN memory ELSE Swept(memory, bucketKeys(c))
     /\ UNCHANGED <<redis, attempts, sessionVars>>

\* No operators configured or no signing secret (503), or a body that is not
\* an object with a usable token (400): nothing is counted.
BodyRefused(r) ==
  /\ req[r].pc = "body"
  /\ req' = [req EXCEPT ![r] = Waiting]
  /\ UNCHANGED <<redis, memory, attempts, sessionVars>>

WrongToken(r) ==
  /\ req[r].pc = "body" /\ registry # {}
  /\ attempts < MaxAttempts
  /\ attempts' = attempts + 1
  /\ req' = [req EXCEPT ![r].pc = "fail"]
  /\ UNCHANGED <<redis, memory, sessionVars>>

\* recordLoginFailure, then 401.  `applied' are the increments Redis carried
\* out; unless it also answered, the process counts the failure itself.
RecordFailure(r, applied, answered) ==
  LET c == req[r].client
      own(store) == IF req[r].store = store THEN 1 ELSE 0
  IN /\ req[r].pc = "fail"
     /\ applied \subseteq bucketKeys(c)
     /\ answered => applied = bucketKeys(c)
     /\ redis' = [b \in Buckets |-> IF b \in applied THEN Incr(redis[b], own("redis")) ELSE redis[b]]
     /\ memory' = IF answered THEN memory ELSE countInMemory(memory, c, own("memory"))
     /\ req' = [req EXCEPT ![r] = Waiting]
     /\ UNCHANGED <<attempts, sessionVars>>

createSession(o) == [sub |-> o, exp |-> now + SessionTtl]

\* resolveOperator and createSession.
RightToken(r, o) ==
  /\ req[r].pc = "body"
  /\ o \in registry
  /\ req' = [req EXCEPT ![r].pc = "clear", ![r].session = createSession(o)]
  /\ UNCHANGED <<redis, memory, attempts, sessionVars>>

\* recordLoginSuccess, then the answer that sets the cookie.  The client's
\* bucket is deleted where Redis answers, else in the process.
RecordSuccess(r, applied, answered) ==
  LET c == req[r].client IN
  /\ req[r].pc = "clear"
  /\ answered => applied
  /\ redis' = IF applied THEN [redis EXCEPT ![c] = Empty] ELSE redis
  /\ memory' = IF answered THEN memory ELSE Kept(memory, {e \in Range(memory) : e.key # c})
  /\ cookie' = [cookie EXCEPT ![req[r].session.sub] = req[r].session]
  /\ req' = [req EXCEPT ![r] = Waiting]
  /\ UNCHANGED <<attempts, now, registry, call>>

\* A window ends, in Redis (only a bucket with an expiry) or in the process.
RedisExpires(b) ==
  /\ redis[b].ttl
  /\ redis' = [redis EXCEPT ![b] = Empty]
  /\ UNCHANGED <<memory, req, attempts, sessionVars>>

MemoryExpires(k) ==
  /\ k \in DOMAIN memory /\ memory[k].live
  /\ memory' = [memory EXCEPT ![k].live = FALSE]
  /\ UNCHANGED <<redis, req, attempts, sessionVars>>

LimiterNext ==
  \/ \E r \in Requests :
       \/ \E c \in Clients : LoginStart(r, c)
       \/ \E a \in BOOLEAN : CheckLogin(r, a)
       \/ BodyRefused(r) \/ WrongToken(r)
       \/ \E applied \in SUBSET Buckets, a \in BOOLEAN : RecordFailure(r, applied, a)
       \/ \E o \in Principals : RightToken(r, o)
       \/ \E applied, a \in BOOLEAN : RecordSuccess(r, applied, a)
  \/ \E b \in Buckets : RedisExpires(b)
  \/ \E k \in 1..MemoryMaxBuckets : MemoryExpires(k)

-----------------------------------------------------------------------------
(* Sessions *)

\* verifySession: signed by this deployment and not expired.
verifySession(s) == s.sub \in Principals /\ now < s.exp

\* Mutant: who is registered is decided when the session is issued.
isRegisteredOperatorId_AtLogin(o) == o \in Principals

isRegisteredOperatorId(o) == o \in registry

\* The middleware lets a request with a live session of a registered operator
\* pass (else 401, or the login page).
Middleware(o) ==
  /\ call.pc = "idle"
  /\ verifySession(cookie[o]) /\ isRegisteredOperatorId(o)
  /\ call' = [call EXCEPT !.pc = "handler", !.by = cookie[o]]
  /\ UNCHANGED <<limiterVars, now, registry, cookie>>

\* requireOperatorSession, first thing in the handler of every mutation.
RequireOperator ==
  /\ call.pc = "handler"
  /\ call' = [pc |-> "idle", by |-> NoCookie,
              done |-> IF verifySession(call.by) /\ isRegisteredOperatorId(call.by.sub)
                       THEN call.by ELSE call.done]
  /\ UNCHANGED <<limiterVars, now, registry, cookie>>

Clock ==
  /\ now < MaxTime
  /\ now' = now + 1
  /\ UNCHANGED <<limiterVars, registry, cookie, call>>

\* The registry is the environment: it changes with a restart, which drops
\* the requests in progress and the process's own counters.  Cookies stay.
Restart(ops) ==
  /\ registry' = ops
  /\ memory' = <<>>
  /\ req' = [r \in Requests |-> Waiting]
  /\ call' = [call EXCEPT !.pc = "idle", !.by = NoCookie]
  /\ UNCHANGED <<redis, attempts, now, cookie>>

\* Logging out clears the cookie in the browser; nothing is revoked.
Logout(o) ==
  /\ cookie[o] # NoCookie
  /\ cookie' = [cookie EXCEPT ![o] = NoCookie]
  /\ UNCHANGED <<limiterVars, now, registry, call>>

SessionNext ==
  \/ \E o \in Principals : Middleware(o) \/ Logout(o)
  \/ RequireOperator \/ Clock
  \/ \E ops \in SUBSET Principals : Restart(ops)

AuthSpec == AuthInit /\ [][LimiterNext \/ SessionNext]_authVars

-----------------------------------------------------------------------------
Limit(b) == IF b = Global THEN GlobalMaxFailures ELSE MaxFailures
Overlap == Cardinality(Requests) - 1

\* Check and record are separate exchanges, so requests that run at once can
\* pass together; still no window of a store admits more wrong tokens of one
\* client, or of all, than the limit and those that overlapped, whatever was
\* lost, expired, evicted or reset in between.  (A failure admitted by one
\* store and recorded by the other is not counted: see README.)
FailuresBounded ==
  /\ \A b \in Buckets : redis[b].own <= Limit(b) + Overlap
  /\ \A k \in DOMAIN memory : memory[k].own <= Limit(memory[k].key) + Overlap

\* However many identities fail while Redis is away, and however the windows
\* of their buckets end, the process's own map does not outgrow its cap.
MemoryBounded == Len(memory) <= MemoryMaxBuckets

\* No lost exchange, overlap, reset or expiry leaves a count in Redis without
\* an end to its window: a client over the limit is let in again.
CountersExpire == \A b \in Buckets : redis[b].n > 0 => redis[b].ttl

\* An operator taken out of the registry, or whose session has run out, no
\* longer acts, although the browser keeps presenting a well signed cookie.
ActorIsCurrent ==
  [][call'.done # call.done => call'.done.sub \in registry /\ now < call'.done.exp]_authVars

\* The limiter bounds what it is there to bound, with Redis and without: the wrong
\* tokens of a window, the memory it takes, and how long it keeps a client out.
LoginsBounded == FailuresBounded /\ MemoryBounded /\ CountersExpire

=============================================================================
