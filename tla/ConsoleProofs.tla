---------------------------- MODULE ConsoleProofs ----------------------------
(* Proofs about the operator console: what its panels show while requests   *)
(* are superseded, who acts under a session, what the login limiter bounds, *)
(* what racing governance transactions leave in the registry, which rows of *)
(* the signal stream reach a browser, and what the operations views say.    *)
EXTENDS Governance, WebAuth, PolledResource, SignalStream, OpsAlerts, FiniteSetTheorems,
        SequenceTheorems, NaturalsInduction, WellFoundedInduction, TLAPS

-----------------------------------------------------------------------------
(* Polling.  A load that is not aborted is the one whose controller the     *)
(* entry holds, so that starting another one aborts it; hence at most one   *)
(* is live, and nothing was applied since it was started that it could be   *)
(* older than.                                                              *)

LoadRecord == [aborted : BOOLEAN, current : BOOLEAN, late : BOOLEAN, answer : Nat]
Snapshot == [data : Nat, error : BOOLEAN, loading : BOOLEAN]

PollTypeOK ==
  /\ loads \in Seq(LoadRecord) /\ shown \in Snapshot
  /\ version \in Nat \ {0}

\* Holds of every load on its own.
LoadOK(l) ==
  /\ l.answer <= version
  /\ ~l.aborted => l.current
  /\ ~l.aborted /\ l.answer # 0 => l.answer >= shown.data

PollInv ==
  /\ PollTypeOK
  /\ shown.data <= version
  /\ \A k \in DOMAIN loads : LoadOK(loads[k])
  /\ OneLiveLoad

\* Sequences as functions, over an arbitrary set.
LEMMA ElementsOf ==
  ASSUME NEW S, NEW s \in Seq(S)
  PROVE  Len(s) \in Nat /\ DOMAIN s = 1..Len(s) /\ \A k \in DOMAIN s : s[k] \in S
OBVIOUS

LEMMA SequenceOf ==
  ASSUME NEW S, NEW n \in Nat, NEW f, f = [j \in 1..n |-> f[j]], \A j \in 1..n : f[j] \in S
  PROVE  f \in Seq(S) /\ Len(f) = n
<1>1. f \in [1..n -> S]
  OBVIOUS
<1>2. QED
  BY <1>1

\* What is left of a sequence without its k-th element.
LEMMA WithoutAt ==
  ASSUME NEW S, NEW s \in Seq(S), NEW k \in DOMAIN s
  PROVE  /\ RemoveAt(s, k) \in Seq(S)
         /\ Len(RemoveAt(s, k)) = Len(s) - 1
         /\ \A j \in 1..(Len(s) - 1) : RemoveAt(s, k)[j] = IF j < k THEN s[j] ELSE s[j + 1]
<1> DEFINE a == SubSeq(s, 1, k - 1)
           b == SubSeq(s, k + 1, Len(s))
<1>1. Len(s) \in Nat /\ k \in 1..Len(s)
  OBVIOUS
<1>2. a \in Seq(S) /\ Len(a) = k - 1 /\ \A i \in 1..(k - 1) : a[i] = s[i]
  BY <1>1, SubSeqProperties, Z3
<1>3. b \in Seq(S) /\ Len(b) = Len(s) - k /\ \A i \in 1..(Len(s) - k) : b[i] = s[k + i]
  BY <1>1, SubSeqProperties, Z3
<1>4. RemoveAt(s, k) = a \o b
  BY DEF RemoveAt
<1> HIDE DEF a, b
<1>5. QED
  BY <1>1, <1>2, <1>3, <1>4

\* A finished load is gone, and every other one is still there as it was.
LEMMA FinishedLoads ==
  ASSUME NEW ls \in Seq(LoadRecord), NEW k \in DOMAIN ls
  PROVE  /\ Finished(ls, k) \in Seq(LoadRecord)
         /\ \A j \in DOMAIN Finished(ls, k) :
              \E i \in DOMAIN ls : i = (IF j < k THEN j ELSE j + 1) /\ Finished(ls, k)[j] = ls[i]
<1>1. Finished(ls, k) = RemoveAt(ls, k)
  BY DEF Finished
<1>2. QED
  <2>1. Len(ls) \in Nat /\ DOMAIN ls = 1..Len(ls)
    BY ElementsOf
  <2>2. /\ Finished(ls, k) \in Seq(LoadRecord)
        /\ DOMAIN Finished(ls, k) = 1..(Len(ls) - 1)
        /\ \A j \in 1..(Len(ls) - 1) : Finished(ls, k)[j] = IF j < k THEN ls[j] ELSE ls[j + 1]
    <3>1. RemoveAt(ls, k) \in Seq(LoadRecord) /\ Len(RemoveAt(ls, k)) = Len(ls) - 1
      BY WithoutAt
    <3>2. DOMAIN RemoveAt(ls, k) = 1..(Len(ls) - 1)
      BY <3>1, ElementsOf
    <3>3. QED
      BY <1>1, <3>1, <3>2, WithoutAt
  <2>3. QED
    BY <2>1, <2>2

\* Starting a load aborts every load that counts.
LEMMA StartedLoads ==
  ASSUME NEW ls \in Seq(LoadRecord)
  PROVE  /\ Started(ls) \in Seq(LoadRecord)
         /\ Len(Started(ls)) = Len(ls) + 1
         /\ Started(ls)[Len(ls) + 1] = NewLoad
         /\ \A j \in DOMAIN ls : Started(ls)[j] =
              IF ls[j].current THEN [ls[j] EXCEPT !.aborted = TRUE, !.current = FALSE] ELSE ls[j]
<1>1. NewLoad \in LoadRecord
  BY DEF NewLoad, LoadRecord
<1>2. Superseded(ls) \in Seq(LoadRecord) /\ Len(Superseded(ls)) = Len(ls)
  <2>1. Len(ls) \in Nat /\ DOMAIN ls = 1..Len(ls) /\ \A j \in DOMAIN ls : ls[j] \in LoadRecord
    BY ElementsOf
  <2>2. \A l \in LoadRecord : [l EXCEPT !.aborted = TRUE, !.current = FALSE] \in LoadRecord
    BY DEF LoadRecord
  <2>3. \A j \in DOMAIN ls : Superseded(ls)[j] \in LoadRecord
    BY <2>1, <2>2 DEF Superseded
  <2>4. Superseded(ls) = [j \in 1..Len(ls) |-> Superseded(ls)[j]]
    BY <2>1 DEF Superseded
  <2>5. QED
    BY <2>1, <2>3, <2>4, SequenceOf
<1>3. /\ Started(ls) \in Seq(LoadRecord) /\ Len(Started(ls)) = Len(ls) + 1
      /\ Started(ls)[Len(ls) + 1] = NewLoad
      /\ \A j \in 1..Len(ls) : Started(ls)[j] = Superseded(ls)[j]
  <2> DEFINE sup == Superseded(ls)
  <2>1. Started(ls) = Append(sup, NewLoad)
    BY DEF Started
  <2>2. sup \in Seq(LoadRecord) /\ Len(sup) = Len(ls)
    BY <1>2
  <2> HIDE DEF sup
  <2>3. QED
    BY <1>1, <2>1, <2>2, AppendProperties DEF sup
<1>4. DOMAIN ls = 1..Len(ls)
  BY ElementsOf
<1>5. QED
  BY <1>3, <1>4 DEF Superseded

LEMMA PollStart == PollInit => PollInv
<1> SUFFICES ASSUME PollInit PROVE PollInv
  OBVIOUS
<1>1. PollTypeOK /\ shown.data <= version
  BY DEF PollInit, PollTypeOK, INITIAL, Snapshot
<1>2. loads = <<>>
  BY DEF PollInit
<1>3. QED
  BY <1>1, <1>2 DEF PollInv, OneLiveLoad

\* A step that starts a load and changes nothing a load is judged by.
LEMMA StartKeeps ==
  ASSUME PollInv, loads' = Started(loads), shown' = shown, version' = version
  PROVE  PollInv'
<1> USE DEF PollInv, PollTypeOK
<1>1. loads' \in Seq(LoadRecord) /\ DOMAIN loads' = 1..(Len(loads) + 1)
  BY StartedLoads, ElementsOf
<1>2. \A j \in DOMAIN loads : loads'[j].aborted /\ loads'[j].answer = loads[j].answer
  <2> TAKE j \in DOMAIN loads
  <2>1. loads[j] \in LoadRecord /\ LoadOK(loads[j])
    BY ElementsOf
  <2>2. loads'[j] = IF loads[j].current THEN [loads[j] EXCEPT !.aborted = TRUE, !.current = FALSE] ELSE loads[j]
    BY StartedLoads
  <2>3. QED
    BY <2>1, <2>2 DEF LoadOK, LoadRecord
<1>3. loads'[Len(loads) + 1] = NewLoad /\ Len(loads) \in Nat /\ DOMAIN loads = 1..Len(loads)
  BY StartedLoads, ElementsOf
<1>4. \A k \in DOMAIN loads' : LoadOK(loads'[k])
  <2>1. LoadOK(NewLoad)
    BY DEF LoadOK, NewLoad
  <2>2. \A j \in DOMAIN loads : LoadOK(loads'[j])
    BY <1>2 DEF LoadOK
  <2>3. QED
    BY <1>1, <1>3, <2>1, <2>2
<1>5. OneLiveLoad'
  BY <1>1, <1>2, <1>3 DEF OneLiveLoad, LoadRecord
<1>6. QED
  BY <1>1, <1>4, <1>5 DEF LoadOK

\* A discarded load leaves, and nothing else changes.
LEMMA DiscardKeeps ==
  ASSUME PollInv, NEW k \in DOMAIN loads, loads' = Finished(loads, k),
         shown' = shown, version' = version
  PROVE  PollInv'
<1> USE DEF PollInv, PollTypeOK
<1>1. /\ loads' \in Seq(LoadRecord)
      /\ \A j \in DOMAIN loads' : \E i \in DOMAIN loads :
           i = (IF j < k THEN j ELSE j + 1) /\ loads'[j] = loads[i]
  BY FinishedLoads
<1>2. \A j \in DOMAIN loads' : LoadOK(loads'[j])
  BY <1>1
<1>3. OneLiveLoad'
  BY <1>1 DEF OneLiveLoad
<1>4. QED
  BY <1>1, <1>2, <1>3 DEF LoadOK

\* An applied load was the live one: all that stays is aborted.
LEMMA ApplyKeeps ==
  ASSUME PollInv, NEW k \in DOMAIN loads, ~discarded(loads[k]), loads' = Applied(k),
         shown' \in Snapshot, shown'.data <= version, version' = version
  PROVE  PollInv'
<1> USE DEF PollInv, PollTypeOK
<1> DEFINE marked == [j \in DOMAIN loads |-> IF j < k THEN [loads[j] EXCEPT !.late = TRUE] ELSE loads[j]]
<1>1. marked \in Seq(LoadRecord) /\ DOMAIN marked = DOMAIN loads
  <2>1. Len(loads) \in Nat /\ DOMAIN loads = 1..Len(loads) /\ \A j \in DOMAIN loads : loads[j] \in LoadRecord
    BY ElementsOf
  <2>2. \A l \in LoadRecord : [l EXCEPT !.late = TRUE] \in LoadRecord
    BY DEF LoadRecord
  <2>3. \A j \in 1..Len(loads) : marked[j] \in LoadRecord
    BY <2>1, <2>2
  <2>4. marked = [j \in 1..Len(loads) |-> marked[j]] /\ DOMAIN marked = DOMAIN loads
    BY <2>1
  <2>5. QED
    BY <2>1, <2>3, <2>4, SequenceOf
<1>2. \A j \in DOMAIN loads : marked[j].aborted = loads[j].aborted /\ marked[j].answer = loads[j].answer
  BY ElementsOf DEF LoadRecord
<1>3. loads' = Finished(marked, k)
  BY DEF Applied
<1> HIDE DEF marked
<1>4. /\ loads' \in Seq(LoadRecord)
      /\ \A j \in DOMAIN loads' : \E i \in DOMAIN loads :
           i = (IF j < k THEN j ELSE j + 1) /\ loads'[j] = marked[i]
  BY <1>1, <1>3, FinishedLoads
<1>5. \A j \in DOMAIN loads' : loads'[j].aborted /\ loads'[j].answer <= version
  <2> TAKE j \in DOMAIN loads'
  <2>1. PICK i \in DOMAIN loads : i # k /\ loads'[j] = marked[i]
    BY <1>4
  <2>2. loads[i].aborted
    BY <2>1 DEF OneLiveLoad, discarded, LoadRecord
  <2>3. QED
    BY <1>2, <2>1, <2>2 DEF LoadOK
<1>6. QED
  BY <1>4, <1>5 DEF LoadOK, OneLiveLoad

LEMMA PollStep == PollInv /\ [PollNext]_pollVars => PollInv'
<1> SUFFICES ASSUME PollInv, [PollNext]_pollVars PROVE PollInv'
  OBVIOUS
<1> USE PollAssumption
<1>0. ASSUME loads' = loads, shown' = shown, version' = version PROVE PollInv'
  BY <1>0 DEF PollInv, PollTypeOK, LoadOK, OneLiveLoad
<1>1. ASSUME NEW p \in Panels, Mount(p) PROVE PollInv'
  BY <1>0, <1>1, StartKeeps DEF Mount, serverVars
<1>2. ASSUME NEW p \in Panels, Unmount(p) PROVE PollInv'
  <2>1. CASE subs = {p}
    <3>1. loads' = <<>> /\ shown' = INITIAL /\ version' = version
      BY <1>2, <2>1 DEF Unmount, serverVars
    <3>2. QED
      BY <3>1 DEF PollInv, PollTypeOK, OneLiveLoad, INITIAL, Snapshot
  <2>2. CASE subs # {p}
    BY <1>0, <1>2, <2>2 DEF Unmount, serverVars
  <2>3. QED
    BY <2>1, <2>2
<1>3. CASE TimerFires \/ Refetch
  BY <1>3, StartKeeps DEF TimerFires, Refetch, serverVars
<1>4. CASE Hide \/ BackoffEnds
  BY <1>0, <1>4 DEF Hide, BackoffEnds, serverVars
<1>5. CASE Show
  BY <1>0, <1>5, StartKeeps DEF Show, serverVars
<1>6. ASSUME NEW k \in 1..MaxLoads, ServerReads(k) PROVE PollInv'
  <2>1. /\ k \in DOMAIN loads /\ shown' = shown /\ version' = version
        /\ loads' = [loads EXCEPT ![k].answer = version]
    BY <1>6 DEF ServerReads, serverVars
  <2>2. loads' \in Seq(LoadRecord) /\ DOMAIN loads' = DOMAIN loads
    <3>1. Len(loads) \in Nat /\ DOMAIN loads = 1..Len(loads) /\ loads \in Seq(LoadRecord)
      BY ElementsOf DEF PollInv, PollTypeOK
    <3>2. \A j \in 1..Len(loads) : loads'[j] \in LoadRecord
      <4>1. \A l \in LoadRecord : [l EXCEPT !.answer = version] \in LoadRecord
        BY DEF PollInv, PollTypeOK, LoadRecord
      <4>2. QED
        BY <2>1, <3>1, <4>1, ElementsOf
    <3>3. loads' = [j \in 1..Len(loads) |-> loads'[j]] /\ DOMAIN loads' = DOMAIN loads
      BY <2>1, <3>1
    <3>4. QED
      BY <3>1, <3>2, <3>3, SequenceOf
  <2>3. /\ loads'[k].answer = version
        /\ \A j \in DOMAIN loads : /\ loads'[j].aborted = loads[j].aborted
                                   /\ loads'[j].current = loads[j].current
                                   /\ j # k => loads'[j] = loads[j]
    <3>1. \A j \in DOMAIN loads : loads[j] \in LoadRecord
      BY ElementsOf DEF PollInv, PollTypeOK
    <3>2. QED
      BY <2>1, <3>1 DEF LoadRecord
  <2>4. QED
    BY <2>1, <2>2, <2>3 DEF PollInv, PollTypeOK, LoadOK, OneLiveLoad, Snapshot
<1>7. ASSUME NEW k \in 1..MaxLoads, Succeeds(k) PROVE PollInv'
  <2>1. k \in DOMAIN loads /\ version' = version
    BY <1>7 DEF Succeeds, serverVars
  <2>2. CASE discarded(loads[k])
    BY <1>7, <2>1, <2>2, DiscardKeeps DEF Succeeds
  <2>3. CASE ~discarded(loads[k])
    <3>1. loads' = Applied(k) /\ shown' = [data |-> loads[k].answer, error |-> FALSE, loading |-> FALSE]
      BY <1>7, <2>3 DEF Succeeds
    <3>2. loads[k].answer \in Nat /\ loads[k].answer <= version
      <4>1. loads[k] \in LoadRecord /\ LoadOK(loads[k])
        BY <2>1, ElementsOf DEF PollInv, PollTypeOK
      <4>2. QED
        BY <4>1 DEF LoadRecord, LoadOK
    <3>3. QED
      BY <2>1, <2>3, <3>1, <3>2, ApplyKeeps DEF Snapshot
  <2>4. QED
    BY <2>2, <2>3
<1>8. ASSUME NEW k \in 1..MaxLoads, Fails(k) PROVE PollInv'
  <2>1. k \in DOMAIN loads /\ version' = version
    BY <1>8 DEF Fails, serverVars
  <2>2. CASE discarded(loads[k])
    BY <1>8, <2>1, <2>2, DiscardKeeps DEF Fails
  <2>3. CASE ~discarded(loads[k])
    <3>1. loads' = Applied(k) /\ shown' = [shown EXCEPT !.error = TRUE, !.loading = FALSE]
      BY <1>8, <2>3 DEF Fails
    <3>2. shown' \in Snapshot /\ shown'.data = shown.data
      BY <3>1 DEF PollInv, PollTypeOK, Snapshot
    <3>3. QED
      BY <2>1, <2>3, <3>1, <3>2, ApplyKeeps DEF PollInv
  <2>4. QED
    BY <2>2, <2>3
<1>9. CASE ServerChanges
  <2>1. loads' = loads /\ shown' = shown /\ version' \in Nat \ {0} /\ version' >= version
    BY <1>9 DEF ServerChanges, PollInv, PollTypeOK
  <2>2. \A k \in DOMAIN loads : loads[k].answer \in Nat
    <3>1. \A k \in DOMAIN loads : loads[k] \in LoadRecord
      BY ElementsOf DEF PollInv, PollTypeOK
    <3>2. QED
      BY <3>1 DEF LoadRecord
  <2>3. QED
    BY <2>1, <2>2 DEF PollInv, PollTypeOK, LoadOK, OneLiveLoad, Snapshot
<1>10. CASE UNCHANGED pollVars
  BY <1>0, <1>10 DEF pollVars
<1>11. QED
  BY <1>1, <1>2, <1>3, <1>4, <1>5, <1>6, <1>7, <1>8, <1>9, <1>10 DEF PollNext

\* What a panel shows is replaced only by the answer of the live load.
LEMMA PollMonotone ==
  ASSUME PollInv, [PollNext]_pollVars, subs' # {}, shown.data # 0
  PROVE  shown'.data >= shown.data
<1>0. shown \in Snapshot
  BY DEF PollInv, PollTypeOK
<1>1. CASE shown' = shown
  BY <1>0, <1>1 DEF Snapshot
<1>2. ASSUME NEW p \in Panels, Unmount(p) PROVE shown' = shown
  BY <1>2 DEF Unmount
<1>3. ASSUME NEW k \in 1..MaxLoads, Succeeds(k) PROVE shown'.data >= shown.data
  <2>1. CASE discarded(loads[k])
    BY <1>1, <1>3, <2>1 DEF Succeeds
  <2>2. CASE ~discarded(loads[k])
    BY <1>3, <2>2 DEF Succeeds, discarded, PollInv, LoadOK
  <2>3. QED
    BY <2>1, <2>2
<1>4. ASSUME NEW k \in 1..MaxLoads, Fails(k) PROVE shown'.data = shown.data
  BY <1>0, <1>4 DEF Fails, Snapshot
<1>5. QED
  BY <1>0, <1>1, <1>2, <1>3, <1>4
  DEF PollNext, pollVars, Mount, TimerFires, Refetch, Hide, Show, BackoffEnds, ServerReads,
      ServerChanges, Snapshot

\* However mounts, timers, refetches, tab switches, failures and late answers
\* of use-polled-resource.ts interleave, and for any number of panels and of
\* superseded requests, at most one request counts and what a panel shows
\* never goes back to an older state of the server.
THEOREM PanelsNeverGoBack == PollSpec => PollingInOrder
<1>1. PollSpec => []PollInv
  BY PollStart, PollStep, PTL DEF PollSpec
<1>2. PollInv => OneLiveLoad
  BY DEF PollInv
<1>3. PollInv /\ [PollNext]_pollVars =>
        [subs' # {} /\ shown.data # 0 => shown'.data >= shown.data]_pollVars
  BY PollMonotone DEF PollInv, PollTypeOK, Snapshot
<1>4. PollSpec => []OneLiveLoad
  BY <1>1, <1>2, PTL
<1>5. PollSpec => NeverGoesBack
  BY <1>1, <1>3, PTL DEF PollSpec, NeverGoesBack
<1>6. QED
  BY <1>4, <1>5, PTL DEF PollingInOrder

-----------------------------------------------------------------------------
(* Sessions.  The middleware's verdict is not carried over: the handler     *)
(* takes the session up again, and only what it then verifies is acted on.  *)

CallShape == call = [pc |-> call.pc, by |-> call.by, done |-> call.done]

LEMMA CallStart == AuthInit => CallShape
BY DEF AuthInit, CallShape

LEMMA CallStep == CallShape /\ [LimiterNext \/ SessionNext]_authVars => CallShape'
<1> SUFFICES ASSUME CallShape, [LimiterNext \/ SessionNext]_authVars PROVE CallShape'
  OBVIOUS
<1> USE DEF CallShape
<1>1. CASE call' = call
  BY <1>1
<1>2. CASE LimiterNext
  BY <1>1, <1>2 DEF LimiterNext, LoginStart, CheckLogin, BodyRefused, WrongToken, RecordFailure,
    RightToken, RecordSuccess, RedisExpires, MemoryExpires, sessionVars
<1>3. CASE SessionNext
  <2>1. ASSUME NEW o \in Principals, Middleware(o) PROVE CallShape'
    BY <2>1 DEF Middleware
  <2>2. CASE RequireOperator
    BY <2>2 DEF RequireOperator
  <2>3. ASSUME NEW ops \in SUBSET Principals, Restart(ops) PROVE CallShape'
    BY <2>3 DEF Restart
  <2>4. QED
    BY <1>1, <1>3, <2>1, <2>2, <2>3 DEF SessionNext, Logout, Clock
<1>4. CASE UNCHANGED authVars
  BY <1>1, <1>4 DEF authVars, sessionVars
<1>5. QED
  BY <1>2, <1>3, <1>4

LEMMA ActsWhenCurrent ==
  ASSUME CallShape, [LimiterNext \/ SessionNext]_authVars, call'.done # call.done
  PROVE  call'.done.sub \in registry /\ now < call'.done.exp
<1>1. call' # call
  OBVIOUS
<1>2. SessionNext
  BY <1>1 DEF authVars, sessionVars, LimiterNext, LoginStart, CheckLogin, BodyRefused, WrongToken,
    RecordFailure, RightToken, RecordSuccess, RedisExpires, MemoryExpires
<1>3. ASSUME NEW o \in Principals, Middleware(o) PROVE FALSE
  BY <1>3 DEF Middleware, CallShape
<1>4. ASSUME NEW ops \in SUBSET Principals, Restart(ops) PROVE FALSE
  BY <1>4 DEF Restart, CallShape
<1>5. RequireOperator
  BY <1>1, <1>2, <1>3, <1>4 DEF SessionNext, Logout, Clock
<1>6. QED
  BY <1>5 DEF RequireOperator, verifySession, isRegisteredOperatorId

\* For any operators, any lifetime of a session and any order of logins,
\* restarts with another registry, clock ticks and requests, a mutation acts
\* only under a session whose operator is registered and which has not run
\* out when requireOperatorSession looks (lib/operator-auth.ts).
THEOREM OnlyCurrentOperatorsAct == AuthSpec => ActorIsCurrent
<1>1. AuthSpec => []CallShape
  BY CallStart, CallStep, PTL DEF AuthSpec
<1>2. CallShape /\ [LimiterNext \/ SessionNext]_authVars =>
        [call'.done # call.done => call'.done.sub \in registry /\ now < call'.done.exp]_authVars
  BY ActsWhenCurrent
<1>3. QED
  BY <1>1, <1>2, PTL DEF AuthSpec, ActorIsCurrent

-----------------------------------------------------------------------------
(* The limiter.  A request that was let through still counts: what a bucket *)
(* has recorded and what may yet be recorded in it together exceed the      *)
(* limit by less than the requests that run at once.                        *)

LEMMA LeastNumber ==
  ASSUME NEW S \in SUBSET Nat, S # {}
  PROVE  \E m \in S : \A k \in S : m <= k
<1>1. IsWellFoundedOn(OpToRel(<, Nat), Nat)
  BY NatLessThanWellFounded
<1>2. PICK m \in S : \A k \in S : ~(<<k, m>> \in OpToRel(<, Nat))
  BY <1>1, WFMin
<1>3. \A k \in S : ~(k < m)
  BY <1>2 DEF OpToRel
<1> QED
  BY <1>3

Entry == [key : Buckets, n : Nat, own : Nat, live : BOOLEAN]

OneEach(m) == \A j, k \in DOMAIN m : m[j].key = m[k].key => j = k

\* The entry is within its limit while B[b] requests may yet count in bucket b.
EntryOK(e, B) ==
  /\ e.own <= e.n
  /\ e.key = Global => GlobalMaxFailures > 0
  /\ e.own <= Limit(e.key) + Overlap
  /\ e.live => e.own + B[e.key] <= Limit(e.key) + Overlap

MemoryOK(m, B) ==
  /\ m \in Seq(Entry) /\ OneEach(m) /\ Len(m) <= MemoryMaxBuckets
  /\ \A k \in DOMAIN m : EntryOK(m[k], B)

\* kept[k] is what is kept of the first k entries, up to the l-th.
KeepsTo(m, E, l, kept) ==
  kept = [k \in 0..l |-> IF k = 0 THEN <<>>
                         ELSE IF m[k] \in E THEN Append(kept[k - 1], m[k]) ELSE kept[k - 1]]

LEMMA KeepingExists ==
  ASSUME NEW m, NEW E, NEW l \in Nat
  PROVE  \E kept : KeepsTo(m, E, l, kept)
<1> DEFINE T == {k \in Nat : ~\E f : KeepsTo(m, E, k, f)}
<1>1. SUFFICES ASSUME T # {} PROVE FALSE
  OBVIOUS
<1>2. PICK k \in T : \A j \in T : k <= j
  BY <1>1, LeastNumber
<1>3. k # 0
  <2> DEFINE f == [j \in 0..0 |-> <<>>]
  <2>1. \A j \in 0..0 : j = 0
    OBVIOUS
  <2>2. KeepsTo(m, E, 0, f)
    BY <2>1 DEF KeepsTo
  <2> QED
    BY <2>2
<1>4. k - 1 \in Nat /\ k - 1 \notin T
  BY <1>2, <1>3
<1>5. PICK g : KeepsTo(m, E, k - 1, g)
  BY <1>4
<1> DEFINE last == IF m[k] \in E THEN Append(g[k - 1], m[k]) ELSE g[k - 1]
           f == [j \in 0..k |-> IF j = k THEN last ELSE g[j]]
<1>6. ASSUME NEW j \in 0..k
      PROVE  f[j] = IF j = 0 THEN <<>>
                    ELSE IF m[j] \in E THEN Append(f[j - 1], m[j]) ELSE f[j - 1]
  <2>1. CASE j = k
    <3>1. f[j] = last /\ f[j - 1] = g[k - 1]
      BY <1>3, <2>1
    <3> QED
      BY <1>3, <2>1, <3>1
  <2>2. CASE j # k
    <3>1. j \in 0..(k - 1) /\ f[j] = g[j]
      BY <2>2
    <3>2. g[j] = IF j = 0 THEN <<>>
                 ELSE IF m[j] \in E THEN Append(g[j - 1], m[j]) ELSE g[j - 1]
      BY <1>5, <3>1 DEF KeepsTo
    <3>3. j # 0 => j - 1 \in 0..k /\ j - 1 # k /\ f[j - 1] = g[j - 1]
      BY <3>1
    <3> QED
      BY <3>1, <3>2, <3>3
  <2> QED
    BY <2>1, <2>2
<1>7. f = [j \in 0..k |-> f[j]]
  OBVIOUS
<1> HIDE DEF f
<1>8. KeepsTo(m, E, k, f)
  BY <1>6, <1>7 DEF KeepsTo
<1> QED
  BY <1>8

\* t is part of the first l entries of m, in E.
PartOf(t, m, l, E) ==
  /\ t \in Seq(Entry) /\ Len(t) <= l /\ OneEach(t)
  /\ \A i \in DOMAIN t : \E j \in 1..l : t[i] = m[j] /\ m[j] \in E

LEMMA KeptIsPart ==
  ASSUME NEW m \in Seq(Entry), OneEach(m), NEW E
  PROVE  PartOf(Kept(m, E), m, Len(m), E)
<1> DEFINE L == Len(m)
           kept == CHOOSE f : KeepsTo(m, E, L, f)
<1>0. L \in Nat /\ DOMAIN m = 1..L
  BY ElementsOf
<1>1. KeepsTo(m, E, L, kept)
  BY <1>0, KeepingExists
<1>2. Kept(m, E) = kept[L]
  BY DEF Kept, KeepsTo
<1> HIDE DEF kept
<1> DEFINE T == {k \in 0..L : ~PartOf(kept[k], m, k, E)}
<1>3. SUFFICES ASSUME T # {} PROVE FALSE
  BY <1>0, <1>2
<1>4. PICK k \in T : \A j \in T : k <= j
  <2>1. T \in SUBSET Nat
    BY <1>0
  <2> QED
    BY <1>3, <2>1, LeastNumber
<1>5. k # 0
  <2>1. 0 \in 0..L
    BY <1>0
  <2>2. kept[0] = <<>>
    BY <1>1, <2>1 DEF KeepsTo
  <2>3. PartOf(<<>>, m, 0, E)
    BY DEF PartOf, OneEach
  <2> QED
    BY <1>4, <2>2, <2>3
<1>6. k - 1 \in 0..L /\ k \in 1..L /\ ~(k <= k - 1)
  BY <1>0, <1>4, <1>5
<1> DEFINE t == kept[k - 1]
<1>7. PartOf(t, m, k - 1, E)
  BY <1>4, <1>6
<1>8. kept[k] = IF m[k] \in E THEN Append(t, m[k]) ELSE t
  BY <1>1, <1>5, <1>6 DEF KeepsTo
<1>9. m[k] \in Entry
  BY <1>0, <1>6, ElementsOf
<1> HIDE DEF t
<1>10. t \in Seq(Entry) /\ Len(t) \in Nat /\ Len(t) <= k - 1 /\ DOMAIN t = 1..Len(t)
  BY <1>7, ElementsOf DEF PartOf
<1>11. CASE m[k] \notin E
  <2>1. \A i \in DOMAIN t : \E j \in 1..k : t[i] = m[j] /\ m[j] \in E
    <3>1. \A j \in 1..(k - 1) : j \in 1..k
      BY <1>6
    <3> QED
      BY <1>7, <3>1 DEF PartOf
  <2>2. PartOf(t, m, k, E)
    BY <1>6, <1>7, <1>10, <2>1 DEF PartOf
  <2> QED
    BY <1>4, <1>8, <1>11, <2>2
<1>12. CASE m[k] \in E
  <2> DEFINE u == Append(t, m[k])
  <2>1. /\ u \in Seq(Entry) /\ Len(u) = Len(t) + 1 /\ DOMAIN u = 1..(Len(t) + 1)
        /\ u[Len(t) + 1] = m[k] /\ \A i \in 1..Len(t) : u[i] = t[i]
    BY <1>9, <1>10, AppendProperties, ElementsOf
  <2> HIDE DEF u
  <2>2. \A i \in DOMAIN u : i = Len(t) + 1 \/ i \in DOMAIN t
    BY <1>10, <2>1
  <2>3. \A i \in DOMAIN t : u[i] = t[i] /\ \E j \in 1..(k - 1) : t[i] = m[j] /\ m[j] \in E
    BY <1>7, <1>10, <2>1 DEF PartOf
  <2>4. \A i \in DOMAIN u : \E j \in 1..k : u[i] = m[j] /\ m[j] \in E
    BY <1>6, <1>12, <2>1, <2>2, <2>3
  <2>5. \A i \in DOMAIN t : t[i].key # m[k].key
    <3> TAKE i \in DOMAIN t
    <3>1. PICK j \in 1..(k - 1) : t[i] = m[j]
      BY <2>3
    <3>2. j \in DOMAIN m /\ k \in DOMAIN m /\ j # k
      BY <1>0, <1>6
    <3> QED
      BY <3>1, <3>2 DEF OneEach
  <2>6. OneEach(u)
    <3> SUFFICES ASSUME NEW i \in DOMAIN u, NEW j \in DOMAIN u, u[i].key = u[j].key PROVE i = j
      BY DEF OneEach
    <3>1. CASE i \in DOMAIN t /\ j \in DOMAIN t
      BY <1>7, <2>3, <3>1 DEF PartOf, OneEach
    <3>2. CASE i \in DOMAIN t /\ j = Len(t) + 1
      BY <2>1, <2>3, <2>5, <3>2
    <3>3. CASE i = Len(t) + 1 /\ j \in DOMAIN t
      BY <2>1, <2>3, <2>5, <3>3
    <3> QED
      BY <2>2, <3>1, <3>2, <3>3
  <2>7. PartOf(u, m, k, E)
    BY <1>6, <1>10, <2>1, <2>4, <2>6 DEF PartOf
  <2> QED
    BY <1>4, <1>8, <1>12, <2>7 DEF u
<1> QED
  BY <1>11, <1>12

LEMMA OverlapIs == Overlap = Cardinality(Requests) - 1 /\ Cardinality(Requests) \in Nat \ {0} /\ Overlap \in Nat
<1>1. IsFiniteSet(Requests) /\ Requests # {}
  BY AuthAssumption
<1>2. Cardinality(Requests) \in Nat /\ Cardinality(Requests) # 0
  BY <1>1, FS_CardinalityType, FS_EmptySet
<1> QED
  BY <1>2 DEF Overlap

LEMMA LimitIs ==
  ASSUME NEW b \in Buckets
  PROVE  /\ Limit(b) \in Nat
         /\ b = Global => Limit(b) = GlobalMaxFailures
         /\ b # Global => Limit(b) = MaxFailures /\ Limit(b) > 0
BY AuthAssumption DEF Limit

Counts == [Buckets -> Nat]

LEMMA EntriesOf ==
  ASSUME NEW m \in Seq(Entry), NEW k \in DOMAIN m
  PROVE  m[k] \in Entry /\ m[k].key \in Buckets /\ m[k].n \in Nat /\ m[k].own \in Nat /\ m[k].live \in BOOLEAN
<1>1. m[k] \in Entry
  BY ElementsOf
<1>2. \A e \in Entry : e.key \in Buckets /\ e.n \in Nat /\ e.own \in Nat /\ e.live \in BOOLEAN
  BY DEF Entry
<1> QED
  BY <1>1, <1>2

\* Fewer requests under way, and part of the entries.
LEMMA PartKeeps ==
  ASSUME NEW B \in Counts, NEW C \in Counts, NEW m, MemoryOK(m, B), NEW t \in Seq(Entry),
         OneEach(t), Len(t) <= Len(m),
         \A i \in DOMAIN t : \E j \in DOMAIN m : t[i] = m[j] /\ (C[m[j].key] <= B[m[j].key] \/ EntryOK(m[j], C))
  PROVE  MemoryOK(t, C)
<1>1. Len(t) <= MemoryMaxBuckets
  <2>1. m \in Seq(Entry) /\ Len(m) <= MemoryMaxBuckets /\ MemoryMaxBuckets \in Nat
    BY AuthAssumption DEF MemoryOK
  <2>2. Len(m) \in Nat /\ Len(t) \in Nat
    BY <2>1, ElementsOf
  <2> QED
    BY <2>1, <2>2
<1>2. ASSUME NEW i \in DOMAIN t PROVE EntryOK(t[i], C)
  <2>1. PICK j \in DOMAIN m : t[i] = m[j] /\ (C[m[j].key] <= B[m[j].key] \/ EntryOK(m[j], C))
    OBVIOUS
  <2>2. m[j] \in Entry /\ EntryOK(m[j], B)
    BY ElementsOf DEF MemoryOK
  <2>3. /\ m[j].key \in Buckets /\ m[j].own \in Nat /\ Limit(m[j].key) \in Nat /\ Overlap \in Nat
        /\ B[m[j].key] \in Nat /\ C[m[j].key] \in Nat
    BY EntriesOf, LimitIs, OverlapIs DEF Counts, MemoryOK
  <2>4. CASE C[m[j].key] <= B[m[j].key]
    <3>1. m[j].own + B[m[j].key] <= Limit(m[j].key) + Overlap => m[j].own + C[m[j].key] <= Limit(m[j].key) + Overlap
      BY <2>3, <2>4
    <3> QED
      BY <2>1, <2>2, <3>1 DEF EntryOK
  <2> QED
    BY <2>1, <2>4
<1> QED
  BY <1>1, <1>2 DEF MemoryOK

\* Whatever is dropped, the rest is in order.
LEMMA KeptKeeps ==
  ASSUME NEW B \in Counts, NEW C \in Counts, NEW m, MemoryOK(m, B), NEW E,
         \A j \in DOMAIN m : m[j] \in E => C[m[j].key] <= B[m[j].key] \/ EntryOK(m[j], C)
  PROVE  MemoryOK(Kept(m, E), C) /\ Len(Kept(m, E)) <= Len(m)
<1> DEFINE t == Kept(m, E)
<1>1. m \in Seq(Entry) /\ OneEach(m)
  BY DEF MemoryOK
<1>2. PartOf(t, m, Len(m), E)
  BY <1>1, KeptIsPart
<1>3. DOMAIN m = 1..Len(m)
  BY <1>1, ElementsOf
<1> HIDE DEF t
<1>4. t \in Seq(Entry) /\ OneEach(t) /\ Len(t) <= Len(m)
  BY <1>2 DEF PartOf
<1>5. \A i \in DOMAIN t : \E j \in DOMAIN m : t[i] = m[j] /\ (C[m[j].key] <= B[m[j].key] \/ EntryOK(m[j], C))
  BY <1>2, <1>3 DEF PartOf
<1>6. MemoryOK(t, C)
  BY <1>4, <1>5, PartKeeps
<1> QED
  BY <1>4, <1>6 DEF t

LEMMA FewerKeeps ==
  ASSUME NEW B \in Counts, NEW C \in Counts, NEW m, MemoryOK(m, B), \A b \in Buckets : C[b] <= B[b]
  PROVE  MemoryOK(m, C)
<1>1. m \in Seq(Entry) /\ OneEach(m)
  BY DEF MemoryOK
<1>2. \A i \in DOMAIN m : m[i].key \in Buckets
  BY <1>1, EntriesOf
<1>3. Len(m) <= Len(m)
  BY <1>1, ElementsOf
<1> QED
  BY <1>1, <1>2, <1>3, PartKeeps

LEMMA RoomIsMade ==
  ASSUME NEW B \in Counts, NEW m, MemoryOK(m, B)
  PROVE  MemoryOK(MakeRoom(m), B) /\ Len(MakeRoom(m)) < MemoryMaxBuckets
<1> DEFINE fresh == Unexpired(m)
<1>0. /\ m \in Seq(Entry) /\ Len(m) \in Nat /\ Len(m) <= MemoryMaxBuckets
      /\ MemoryMaxBuckets \in Nat /\ MemoryMaxBuckets # 0
  BY ElementsOf, AuthAssumption DEF MemoryOK
<1>1. \A b \in Buckets : B[b] <= B[b]
  BY DEF Counts
<1>2. \A j \in DOMAIN m : m[j].key \in Buckets
  BY <1>0, EntriesOf
<1>3. MemoryOK(fresh, B) /\ Len(fresh) <= Len(m)
  BY <1>1, <1>2, KeptKeeps DEF Unexpired
<1>4. MakeRoom(m) = IF Len(m) < MemoryMaxBuckets THEN m
                    ELSE IF Len(fresh) < MemoryMaxBuckets THEN fresh ELSE Tail(fresh)
  BY DEF MakeRoom
<1> HIDE DEF fresh
<1>5. fresh \in Seq(Entry) /\ Len(fresh) \in Nat /\ DOMAIN fresh = 1..Len(fresh)
  BY <1>3, ElementsOf DEF MemoryOK
<1>6. CASE ~(Len(m) < MemoryMaxBuckets) /\ ~(Len(fresh) < MemoryMaxBuckets)
  <2> DEFINE t == Tail(fresh)
  <2>1. Len(fresh) = MemoryMaxBuckets /\ Len(fresh) # 0
    <3> DEFINE x == Len(fresh)
               y == Len(m)
    <3>1. x \in Nat /\ y \in Nat /\ x <= y /\ y <= MemoryMaxBuckets /\ ~(x < MemoryMaxBuckets)
      BY <1>0, <1>3, <1>5, <1>6
    <3> HIDE DEF x, y
    <3>2. x = MemoryMaxBuckets /\ x # 0
      BY <1>0, <3>1
    <3> QED
      BY <3>2 DEF x
  <2>2. fresh # <<>>
    BY <2>1
  <2>3. /\ t \in Seq(Entry) /\ Len(t) = Len(fresh) - 1 /\ DOMAIN t = 1..(Len(fresh) - 1)
        /\ \A i \in 1..(Len(fresh) - 1) : t[i] = fresh[i + 1]
    BY <1>5, <2>2, HeadTailProperties, ElementsOf
  <2>4. \A i \in DOMAIN t : i \in Nat /\ i + 1 \in DOMAIN fresh /\ t[i] = fresh[i + 1]
    BY <1>5, <2>1, <2>3
  <2> HIDE DEF t
  <2>5. OneEach(t)
    BY <1>3, <2>4 DEF OneEach, MemoryOK
  <2>6. \A i \in DOMAIN fresh : fresh[i].key \in Buckets
    BY <1>5, EntriesOf
  <2>7. MemoryOK(t, B)
    <3>1. Len(t) <= Len(fresh)
      BY <1>5, <2>3
    <3>2. \A i \in DOMAIN t : \E j \in DOMAIN fresh : t[i] = fresh[j] /\ (B[fresh[j].key] <= B[fresh[j].key] \/ EntryOK(fresh[j], B))
      BY <1>1, <2>4, <2>6
    <3> QED
      BY <1>3, <2>3, <2>5, <3>1, <3>2, PartKeeps
  <2> QED
    BY <1>0, <1>4, <1>6, <2>1, <2>3, <2>7 DEF t
<1> QED
  BY <1>3, <1>4, <1>6

\* A failure of a request that was let through by this store moves from those that may
\* yet count to those that do; one let through by the other store only counts.
LEMMA IncrKeeps ==
  ASSUME NEW B \in Counts, NEW m, MemoryOK(m, B), NEW key \in Buckets, NEW own \in {0, 1},
         own <= B[key], B[key] <= Cardinality(Requests), key = Global => GlobalMaxFailures > 0
  PROVE  /\ [B EXCEPT ![key] = B[key] - own] \in Counts
         /\ MemoryOK(memoryIncr(m, key, own), [B EXCEPT ![key] = B[key] - own])
<1> DEFINE C == [B EXCEPT ![key] = B[key] - own]
           room == MakeRoom(m)
           first == [key |-> key, n |-> 1, own |-> own, live |-> TRUE]
           at == {k \in DOMAIN room : room[k].key = key}
<1>1. B[key] \in Nat /\ B[key] - own \in Nat
  BY DEF Counts
<1>2. C \in Counts /\ C[key] = B[key] - own /\ \A b \in Buckets : b # key => C[b] = B[b]
  BY <1>1 DEF Counts
<1> HIDE DEF C
<1>3. Limit(key) \in Nat /\ Limit(key) > 0 /\ Overlap \in Nat /\ B[key] <= Overlap + 1
  <2>1. key = Global => Limit(key) = GlobalMaxFailures /\ GlobalMaxFailures \in Nat
    BY LimitIs, AuthAssumption
  <2> QED
    BY <1>1, <2>1, LimitIs, OverlapIs
<1>4. first \in Entry /\ EntryOK(first, C)
  <2>1. first \in Entry
    BY DEF Entry
  <2>2. first.own <= first.n /\ own <= Limit(key) + Overlap /\ own + C[key] <= Limit(key) + Overlap
    BY <1>1, <1>2, <1>3
  <2> QED
    BY <2>1, <2>2 DEF EntryOK
<1>5. m \in Seq(Entry) /\ Len(m) \in Nat /\ DOMAIN m = 1..Len(m) /\ OneEach(m) /\ Len(m) <= MemoryMaxBuckets
  BY ElementsOf DEF MemoryOK
<1>6. MemoryOK(room, B) /\ Len(room) < MemoryMaxBuckets
  BY RoomIsMade
<1>7. room \in Seq(Entry) /\ Len(room) \in Nat /\ DOMAIN room = 1..Len(room) /\ OneEach(room)
  BY <1>6, ElementsOf DEF MemoryOK
<1>8. \A e \in Entry : EntryOK(e, B) /\ e.key # key => EntryOK(e, C)
  <2> TAKE e \in Entry
  <2> HAVE EntryOK(e, B) /\ e.key # key
  <2>1. e.key \in Buckets
    BY DEF Entry
  <2>2. C[e.key] = B[e.key]
    BY <1>2, <2>1
  <2> QED
    BY <2>2 DEF EntryOK
<1>9. CASE Live(m, key) # {}
  <2> DEFINE new(e) == [e EXCEPT !.n = e.n + 1, !.own = e.own + own]
             t == [k \in DOMAIN m |-> IF m[k].key = key THEN new(m[k]) ELSE m[k]]
  <2>1. memoryIncr(m, key, own) = t
    BY <1>9 DEF memoryIncr
  <2>2. \A e \in Entry : /\ new(e) \in [key : {e.key}, n : {e.n + 1}, own : {e.own + own}, live : {e.live}]
                         /\ e.key \in Buckets /\ e.n \in Nat /\ e.own \in Nat /\ e.live \in BOOLEAN
    BY DEF Entry
  <2> HIDE DEF new
  <2>3. \A e \in Entry : new(e) \in Entry /\ new(e).key = e.key /\ new(e).n = e.n + 1
                         /\ new(e).own = e.own + own /\ new(e).live = e.live
    <3> TAKE e \in Entry
    <3>1. /\ new(e) \in [key : {e.key}, n : {e.n + 1}, own : {e.own + own}, live : {e.live}]
          /\ e.key \in Buckets /\ e.n + 1 \in Nat /\ e.own + own \in Nat /\ e.live \in BOOLEAN
      BY <2>2
    <3> QED
      BY <3>1 DEF Entry
  <2>4. PICK x \in DOMAIN m : m[x].key = key /\ m[x].live
    BY <1>9 DEF Live
  <2>5. ASSUME NEW k \in DOMAIN m
        PROVE  t[k] \in Entry /\ t[k].key = m[k].key /\ EntryOK(t[k], C)
    <3>1. m[k] \in Entry /\ EntryOK(m[k], B) /\ m[k].own \in Nat /\ m[k].n \in Nat
      BY <1>5, EntriesOf DEF MemoryOK
    <3>2. CASE m[k].key # key
      BY <1>8, <3>1, <3>2
    <3>3. CASE m[k].key = key
      <4>1. m[k].live
        BY <1>5, <2>4, <3>3 DEF OneEach
      <4>2. t[k] = new(m[k])
        BY <3>3
      <4>3. /\ m[k].own <= m[k].n /\ m[k].own + B[key] <= Limit(key) + Overlap
        BY <3>1, <3>3, <4>1 DEF EntryOK
      <4>4. /\ m[k].own + own <= m[k].n + 1 /\ m[k].own + own <= Limit(key) + Overlap
            /\ m[k].own + own + C[key] <= Limit(key) + Overlap
        BY <1>1, <1>2, <1>3, <3>1, <4>3
      <4>5. EntryOK(new(m[k]), C)
        BY <2>3, <3>1, <3>3, <4>4 DEF EntryOK
      <4> QED
        BY <2>3, <3>1, <4>2, <4>5
    <3> QED
      BY <3>2, <3>3
  <2>6. t \in Seq(Entry) /\ Len(t) = Len(m) /\ DOMAIN t = DOMAIN m
    <3>1. t = [k \in 1..Len(m) |-> t[k]]
      BY <1>5
    <3>2. \A k \in 1..Len(m) : t[k] \in Entry
      BY <1>5, <2>5
    <3> HIDE DEF t
    <3>3. t \in Seq(Entry) /\ Len(t) = Len(m)
      BY <1>5, <3>1, <3>2, SequenceOf
    <3> QED
      BY <1>5, <3>3, ElementsOf
  <2> HIDE DEF t
  <2>7. OneEach(t)
    BY <1>5, <2>5, <2>6 DEF OneEach
  <2>8. MemoryOK(t, C)
    BY <1>5, <2>5, <2>6, <2>7 DEF MemoryOK
  <2> QED
    BY <1>2, <2>1, <2>8 DEF C
<1>10. CASE Live(m, key) = {} /\ at # {}
  <2> DEFINE t == [k \in DOMAIN room |-> IF k \in at THEN first ELSE room[k]]
  <2>1. memoryIncr(m, key, own) = t
    BY <1>10 DEF memoryIncr
  <2> HIDE DEF first, room
  <2>2. first.key = key
    BY DEF first
  <2>3. ASSUME NEW k \in DOMAIN room
        PROVE  t[k] \in Entry /\ t[k].key = room[k].key /\ EntryOK(t[k], C)
    <3>1. room[k] \in Entry /\ EntryOK(room[k], B)
      BY <1>6, <1>7, EntriesOf DEF MemoryOK
    <3>2. CASE room[k].key = key
      BY <1>4, <2>2, <3>2
    <3>3. CASE room[k].key # key
      BY <1>8, <3>1, <3>3
    <3> QED
      BY <3>2, <3>3
  <2>4. t \in Seq(Entry) /\ Len(t) = Len(room) /\ DOMAIN t = DOMAIN room
    <3>1. t = [k \in 1..Len(room) |-> t[k]]
      BY <1>7
    <3>2. \A k \in 1..Len(room) : t[k] \in Entry
      BY <1>7, <2>3
    <3> HIDE DEF t
    <3>3. t \in Seq(Entry) /\ Len(t) = Len(room)
      BY <1>7, <3>1, <3>2, SequenceOf
    <3> QED
      BY <1>7, <3>3, ElementsOf
  <2> HIDE DEF t
  <2>5. OneEach(t)
    BY <1>7, <2>3, <2>4 DEF OneEach
  <2>6. MemoryOK(t, C)
    BY <1>6, <2>3, <2>4, <2>5 DEF MemoryOK
  <2> QED
    BY <1>2, <2>1, <2>6 DEF C
<1>11. CASE Live(m, key) = {} /\ at = {}
  <2> DEFINE t == Append(room, first)
  <2>1. memoryIncr(m, key, own) = t
    BY <1>11 DEF memoryIncr
  <2>0. \A k \in DOMAIN room : room[k].key # key
    BY <1>11
  <2> HIDE DEF first, room
  <2>2. first.key = key
    BY DEF first
  <2>3. /\ t \in Seq(Entry) /\ Len(t) = Len(room) + 1 /\ DOMAIN t = 1..(Len(room) + 1)
        /\ t[Len(room) + 1] = first /\ \A k \in 1..Len(room) : t[k] = room[k]
    BY <1>4, <1>7, AppendProperties, ElementsOf
  <2> HIDE DEF t
  <2>4. \A k \in DOMAIN t : k = Len(room) + 1 \/ (k \in DOMAIN room /\ t[k] = room[k])
    BY <1>7, <2>3
  <2>5. \A k \in DOMAIN room : EntryOK(room[k], C)
    BY <1>6, <1>7, <1>8, <2>0, EntriesOf DEF MemoryOK
  <2>6. \A k \in DOMAIN t : EntryOK(t[k], C)
    BY <1>4, <2>3, <2>4, <2>5
  <2>7. OneEach(t)
    <3> SUFFICES ASSUME NEW i \in DOMAIN t, NEW j \in DOMAIN t, t[i].key = t[j].key PROVE i = j
      BY DEF OneEach
    <3>1. CASE i = Len(room) + 1
      BY <2>0, <2>2, <2>3, <2>4, <3>1
    <3>2. CASE j = Len(room) + 1
      BY <2>0, <2>2, <2>3, <2>4, <3>2
    <3>3. CASE i # Len(room) + 1 /\ j # Len(room) + 1
      BY <1>7, <2>4, <3>3 DEF OneEach
    <3> QED
      BY <3>1, <3>2, <3>3
  <2>8. Len(t) <= MemoryMaxBuckets
    <3>1. MemoryMaxBuckets \in Nat
      BY AuthAssumption
    <3> QED
      BY <1>6, <1>7, <2>3, <3>1
  <2>9. MemoryOK(t, C)
    BY <2>3, <2>6, <2>7, <2>8 DEF MemoryOK
  <2> QED
    BY <1>2, <2>1, <2>9 DEF C
<1> QED
  BY <1>9, <1>10, <1>11

\* Request q was let through by the store and may yet count in bucket b.
Pending(q, b, store) == q.pc \in {"body", "fail"} /\ q.store = store /\ b \in bucketKeys(q.client)
Under(b, store) == Cardinality({r \in Requests : Pending(req[r], b, store)})
UnderMemory == [b \in Buckets |-> Under(b, "memory")]

Stores == {"redis", "memory"}
IsRequest(q) ==
  \/ q = Waiting
  \/ /\ q = [pc |-> q.pc, client |-> q.client, store |-> q.store, session |-> q.session]
     /\ q.pc \in {"check", "body", "fail", "clear"} /\ q.client \in Clients
     /\ q.pc \in {"body", "fail"} => q.store \in Stores

Bucket == [n : Nat, own : Nat, ttl : BOOLEAN]

LimiterTypeOK ==
  /\ redis \in [Buckets -> Bucket]
  /\ req = [r \in Requests |-> req[r]] /\ \A r \in Requests : IsRequest(req[r])

RedisOK(b) ==
  /\ redis[b].own <= redis[b].n
  /\ redis[b].n > 0 => redis[b].ttl
  /\ redis[b].own + Under(b, "redis") <= Limit(b) + Overlap

LimiterInv ==
  /\ LimiterTypeOK
  /\ \A b \in Buckets : RedisOK(b)
  /\ MemoryOK(memory, UnderMemory)

LEMMA UnderIs ==
  ASSUME NEW b, NEW store
  PROVE  Under(b, store) \in Nat /\ Under(b, store) <= Cardinality(Requests)
<1>1. {r \in Requests : Pending(req[r], b, store)} \in SUBSET Requests /\ IsFiniteSet(Requests)
  BY AuthAssumption
<1> QED
  BY <1>1, FS_Subset, FS_CardinalityType DEF Under

\* One request moves.
LEMMA UnderMoves ==
  ASSUME NEW r \in Requests, NEW q, req = [x \in Requests |-> req[x]],
         req' = [req EXCEPT ![r] = q], NEW b, NEW store
  PROVE  /\ Pending(req[r], b, store) /\ ~Pending(q, b, store) => Under(b, store)' = Under(b, store) - 1
         /\ ~Pending(q, b, store) \/ Pending(req[r], b, store) => Under(b, store)' <= Under(b, store)
         /\ Under(b, store)' \in Nat /\ Under(b, store)' <= Cardinality(Requests)
<1> DEFINE S == {x \in Requests : Pending(req[x], b, store)}
           T == {x \in Requests : Pending(req'[x], b, store)}
<1>1. req'[r] = q /\ \A x \in Requests : x # r => req'[x] = req[x]
  OBVIOUS
<1>2. Under(b, store) = Cardinality(S) /\ Under(b, store)' = Cardinality(T)
  BY DEF Under, Pending
<1>3. S \in SUBSET Requests /\ T \in SUBSET Requests /\ IsFiniteSet(Requests)
  BY AuthAssumption
<1>4. IsFiniteSet(S) /\ IsFiniteSet(T) /\ Cardinality(T) <= Cardinality(Requests)
      /\ Cardinality(S) \in Nat /\ Cardinality(T) \in Nat
  BY <1>3, FS_Subset, FS_CardinalityType
<1>5. Pending(req[r], b, store) /\ ~Pending(q, b, store) => T = S \ {r} /\ r \in S
  BY <1>1
<1>6. ~Pending(q, b, store) \/ Pending(req[r], b, store) => T \in SUBSET S
  BY <1>1
<1> HIDE DEF S, T
<1>7. r \in S => Cardinality(S \ {r}) = Cardinality(S) - 1
  BY <1>4, FS_RemoveElement
<1>8. T \in SUBSET S => Cardinality(T) <= Cardinality(S)
  BY <1>4, FS_Subset
<1> QED
  BY <1>2, <1>4, <1>5, <1>6, <1>7, <1>8

LEMMA UnderMemoryIs == UnderMemory \in Counts /\ UnderMemory' \in Counts
<1>1. \A b \in Buckets : Under(b, "memory") \in Nat
  BY UnderIs
<1>2. ASSUME NEW b \in Buckets PROVE Under(b, "memory")' \in Nat
  <2>1. {r \in Requests : Pending(req'[r], b, "memory")} \in SUBSET Requests /\ IsFiniteSet(Requests)
    BY AuthAssumption
  <2>2. Cardinality({r \in Requests : Pending(req'[r], b, "memory")}) \in Nat
    BY <2>1, FS_Subset, FS_CardinalityType
  <2> QED
    BY <2>2 DEF Under, Pending
<1> QED
  BY <1>1, <1>2 DEF UnderMemory, Counts

LEMMA KeysAre ==
  ASSUME NEW c \in Clients
  PROVE  /\ c \in Buckets /\ c # Global /\ c \in bucketKeys(c)
         /\ Global \in bucketKeys(c) <=> GlobalMaxFailures > 0
         /\ \A b \in bucketKeys(c) : b \in Buckets /\ (b = c \/ b = Global)
BY AuthAssumption DEF bucketKeys, Buckets

\* The whole limit is left in an empty bucket.
LEMMA EmptyIsOK ==
  ASSUME LimiterTypeOK, NEW b \in Buckets
  PROVE  Under(b, "redis") <= Limit(b) + Overlap
<1>1. /\ Under(b, "redis") \in Nat /\ Under(b, "redis") <= Overlap + 1
      /\ Limit(b) \in Nat /\ Overlap \in Nat
  BY UnderIs, OverlapIs, LimitIs
<1>2. CASE Limit(b) > 0
  BY <1>1, <1>2
<1>3. CASE Limit(b) = 0
  <2>1. b = Global /\ GlobalMaxFailures = 0
    BY <1>3, LimitIs
  <2>2. \A r \in Requests : ~Pending(req[r], b, "redis")
    <3> SUFFICES ASSUME NEW r \in Requests, Pending(req[r], b, "redis") PROVE FALSE
      OBVIOUS
    <3>1. IsRequest(req[r]) /\ req[r] # Waiting
      BY DEF LimiterTypeOK, Pending, Waiting
    <3>2. req[r].client \in Clients
      BY <3>1 DEF IsRequest
    <3> QED
      BY <2>1, <3>2, KeysAre DEF Pending
  <2>3. {r \in Requests : Pending(req[r], b, "redis")} = {}
    BY <2>2
  <2>4. Under(b, "redis") = 0
    BY <2>3, FS_EmptySet DEF Under
  <2> QED
    BY <1>1, <2>4
<1> QED
  BY <1>1, <1>2, <1>3

LEMMA LimiterStart == AuthInit => LimiterInv
<1> SUFFICES ASSUME AuthInit PROVE LimiterInv
  OBVIOUS
<1>1. LimiterTypeOK
  BY DEF AuthInit, LimiterTypeOK, Empty, Bucket, IsRequest
<1>2. ASSUME NEW b \in Buckets PROVE RedisOK(b)
  <2>1. redis[b] = Empty
    BY DEF AuthInit
  <2>2. Empty.own = 0 /\ Empty.n = 0
    BY DEF Empty
  <2>3. Under(b, "redis") \in Nat /\ Under(b, "redis") <= Limit(b) + Overlap
    BY <1>1, EmptyIsOK, UnderIs
  <2> QED
    BY <2>1, <2>2, <2>3 DEF RedisOK
<1>3. MemoryOK(memory, UnderMemory)
  <2>1. memory = <<>> /\ MemoryMaxBuckets \in Nat
    BY AuthAssumption DEF AuthInit
  <2> QED
    BY <2>1 DEF MemoryOK, OneEach
<1> QED
  BY <1>1, <1>2, <1>3 DEF LimiterInv

\* What holds of the requests after one of them moved.
LEMMA RequestType ==
  ASSUME LimiterInv, NEW r \in Requests, NEW q, IsRequest(q), req' = [req EXCEPT ![r] = q]
  PROVE  /\ req = [x \in Requests |-> req[x]] /\ req' = [x \in Requests |-> req'[x]]
         /\ \A x \in Requests : IsRequest(req'[x])
<1>1. req = [x \in Requests |-> req[x]] /\ \A x \in Requests : IsRequest(req[x])
  BY DEF LimiterInv, LimiterTypeOK
<1>2. req'[r] = q /\ \A x \in Requests : x # r => req'[x] = req[x]
  BY <1>1
<1> QED
  BY <1>1, <1>2

\* A bucket that keeps its count while no more requests are under way.
LEMMA RedisKeeps ==
  ASSUME LimiterInv, NEW b \in Buckets, redis'[b] = redis[b],
         Under(b, "redis")' \in Nat, Under(b, "redis")' <= Under(b, "redis")
  PROVE  RedisOK(b)'
<1>1. RedisOK(b) /\ redis[b].own \in Nat
  BY DEF LimiterInv, LimiterTypeOK, Bucket
<1>2. Under(b, "redis") \in Nat /\ Limit(b) \in Nat /\ Overlap \in Nat
  BY UnderIs, LimitIs, OverlapIs
<1>3. redis[b].own + Under(b, "redis")' <= Limit(b) + Overlap
  BY <1>1, <1>2 DEF RedisOK
<1> QED
  BY <1>1, <1>3 DEF RedisOK

\* A request moves on without having been let through.
LEMMA MoveKeeps ==
  ASSUME LimiterInv, NEW r \in Requests, NEW q, IsRequest(q), req' = [req EXCEPT ![r] = q],
         redis' = redis, memory' = memory,
         \A b \in Buckets, st \in Stores : ~Pending(q, b, st) \/ Pending(req[r], b, st)
  PROVE  LimiterInv'
<1>1. req = [x \in Requests |-> req[x]] /\ LimiterTypeOK'
  BY RequestType DEF LimiterInv, LimiterTypeOK
<1>2. \A b \in Buckets, st \in Stores : Under(b, st)' <= Under(b, st) /\ Under(b, st)' \in Nat
  BY <1>1, UnderMoves
<1>3. \A b \in Buckets : RedisOK(b)'
  BY <1>2, RedisKeeps DEF Stores
<1>4. \A b \in Buckets : UnderMemory'[b] <= UnderMemory[b]
  BY <1>2 DEF UnderMemory, Stores
<1>5. MemoryOK(memory, UnderMemory')
  BY <1>4, UnderMemoryIs, FewerKeeps DEF LimiterInv
<1>6. MemoryOK(memory, UnderMemory)'
  BY <1>5 DEF MemoryOK, EntryOK, OneEach, Limit, Overlap
<1> QED
  BY <1>1, <1>3, <1>6 DEF LimiterInv

LEMMA WaitingIs == IsRequest(Waiting) /\ \A b, st : ~Pending(Waiting, b, st)
BY DEF IsRequest, Waiting, Pending

LEMMA RequestIs ==
  ASSUME LimiterInv, NEW r \in Requests, req[r].pc # "idle"
  PROVE  /\ req[r] = [pc |-> req[r].pc, client |-> req[r].client, store |-> req[r].store,
                      session |-> req[r].session]
         /\ req[r].client \in Clients /\ req[r].pc \in {"check", "body", "fail", "clear"}
         /\ req[r].pc \in {"body", "fail"} => req[r].store \in Stores
<1>1. IsRequest(req[r]) /\ req[r] # Waiting
  BY DEF LimiterInv, LimiterTypeOK, Waiting
<1> QED
  BY <1>1 DEF IsRequest

LEMMA StartingKeeps ==
  ASSUME LimiterInv, NEW r \in Requests, NEW c \in Clients, LoginStart(r, c)
  PROVE  LimiterInv'
<1> DEFINE q == [pc |-> "check", client |-> c, store |-> "none", session |-> NoCookie]
<1>1. IsRequest(q) /\ \A b, st : ~Pending(q, b, st)
  BY DEF IsRequest, Pending
<1>2. req' = [req EXCEPT ![r] = q] /\ redis' = redis /\ memory' = memory
  BY DEF LoginStart
<1> QED
  BY <1>1, <1>2, MoveKeeps

LEMMA BodyKeeps ==
  ASSUME LimiterInv, NEW r \in Requests,
         BodyRefused(r) \/ WrongToken(r) \/ \E o \in Principals : RightToken(r, o)
  PROVE  LimiterInv'
<1>0. redis' = redis /\ memory' = memory /\ req[r].pc = "body"
  BY DEF BodyRefused, WrongToken, RightToken
<1>1. CASE BodyRefused(r)
  <2>1. req' = [req EXCEPT ![r] = Waiting]
    BY <1>1 DEF BodyRefused
  <2> QED
    BY <1>0, <2>1, WaitingIs, MoveKeeps
<1>2. CASE WrongToken(r)
  <2> DEFINE q == [pc |-> "fail", client |-> req[r].client, store |-> req[r].store, session |-> req[r].session]
  <2>1. req[r] = [pc |-> "body", client |-> req[r].client, store |-> req[r].store, session |-> req[r].session]
        /\ req[r].client \in Clients /\ req[r].store \in Stores
    BY <1>0, RequestIs
  <2>2. [req[r] EXCEPT !.pc = "fail"] = q
    BY <2>1
  <2>3. req' = [req EXCEPT ![r] = q]
    BY <1>2, <2>2 DEF WrongToken
  <2>4. IsRequest(q)
    BY <2>1 DEF IsRequest
  <2>5. \A b, st : Pending(q, b, st) => Pending(req[r], b, st)
    BY <1>0 DEF Pending
  <2> HIDE DEF q
  <2> QED
    BY <1>0, <2>3, <2>4, <2>5, MoveKeeps
<1>3. ASSUME NEW o \in Principals, RightToken(r, o) PROVE LimiterInv'
  <2> DEFINE cs == createSession(o)
             q == [req[r] EXCEPT !.pc = "clear", !.session = cs]
  <2>1. req[r] = [pc |-> "body", client |-> req[r].client, store |-> req[r].store, session |-> req[r].session]
        /\ req[r].client \in Clients /\ req[r].store \in Stores
    BY <1>0, RequestIs
  <2>2. req' = [req EXCEPT ![r] = q]
    BY <1>3 DEF RightToken, LimiterInv, LimiterTypeOK
  <2> HIDE DEF cs
  <2>3. q \in [pc : {"clear"}, client : {req[r].client}, store : {req[r].store}, session : {cs}]
    BY <2>1
  <2> HIDE DEF q
  <2>4. IsRequest(q) /\ \A b, st : ~Pending(q, b, st)
    BY <2>1, <2>3 DEF IsRequest, Pending
  <2> QED
    BY <1>0, <2>2, <2>4, MoveKeeps
<1> QED
  BY <1>1, <1>2, <1>3

LEMMA ExpiryKeeps ==
  ASSUME LimiterInv, NEW b \in Buckets, RedisExpires(b)
  PROVE  LimiterInv'
<1>1. redis' = [redis EXCEPT ![b] = Empty] /\ memory' = memory /\ req' = req
  BY DEF RedisExpires
<1>2. Empty \in Bucket /\ Empty.own = 0 /\ Empty.n = 0
  BY DEF Empty, Bucket
<1>3. LimiterTypeOK'
  BY <1>1, <1>2 DEF LimiterInv, LimiterTypeOK
<1>4. \A x, st : Under(x, st)' = Under(x, st)
  BY <1>1 DEF Under, Pending
<1>5. ASSUME NEW x \in Buckets PROVE RedisOK(x)'
  <2>0. redis \in [Buckets -> Bucket]
    BY DEF LimiterInv, LimiterTypeOK
  <2>1. CASE x = b
    <3>1. redis'[x] = Empty
      BY <1>1, <2>0, <2>1
    <3>2. Under(x, "redis") \in Nat /\ Under(x, "redis") <= Limit(x) + Overlap
      BY EmptyIsOK, UnderIs DEF LimiterInv
    <3> QED
      BY <1>2, <1>4, <3>1, <3>2 DEF RedisOK
  <2>2. CASE x # b
    <3>1. redis'[x] = redis[x]
      BY <1>1, <2>0, <2>2
    <3> QED
      BY <1>4, <3>1, RedisKeeps, UnderIs
  <2> QED
    BY <2>1, <2>2
<1>6. MemoryOK(memory, UnderMemory)'
  BY <1>1, <1>4 DEF LimiterInv, MemoryOK, EntryOK, OneEach, Limit, Overlap, UnderMemory
<1> QED
  BY <1>3, <1>5, <1>6 DEF LimiterInv

LEMMA MemoryExpiryKeeps ==
  ASSUME LimiterInv, NEW k, MemoryExpires(k)
  PROVE  LimiterInv'
<1> DEFINE old == [memory[k] EXCEPT !.live = FALSE]
<1>1. /\ redis' = redis /\ req' = req /\ k \in DOMAIN memory
      /\ memory' = [memory EXCEPT ![k] = old]
  BY DEF MemoryExpires
<1>2. /\ memory \in Seq(Entry) /\ Len(memory) \in Nat /\ DOMAIN memory = 1..Len(memory)
      /\ OneEach(memory) /\ Len(memory) <= MemoryMaxBuckets
  BY ElementsOf DEF LimiterInv, MemoryOK
<1>3. memory[k] \in Entry /\ EntryOK(memory[k], UnderMemory)
  BY <1>1, <1>2, EntriesOf DEF LimiterInv, MemoryOK
<1>4. old \in [key : {memory[k].key}, n : {memory[k].n}, own : {memory[k].own}, live : {FALSE}]
  BY <1>3 DEF Entry
<1> HIDE DEF old
<1>5. old \in Entry /\ old.key = memory[k].key /\ old.own = memory[k].own /\ old.n = memory[k].n /\ old.live = FALSE
  BY <1>3, <1>4 DEF Entry
<1>6. /\ memory'[k] = old /\ DOMAIN memory' = DOMAIN memory
      /\ \A j \in DOMAIN memory : j # k => memory'[j] = memory[j]
  BY <1>1, <1>2
<1>7. memory' \in Seq(Entry) /\ Len(memory') = Len(memory)
  <2>1. memory' = [j \in 1..Len(memory) |-> memory'[j]]
    BY <1>1, <1>2
  <2>2. \A j \in 1..Len(memory) : memory'[j] \in Entry
    BY <1>2, <1>5, <1>6, ElementsOf
  <2> QED
    BY <1>2, <2>1, <2>2, SequenceOf
<1>8. \A j \in DOMAIN memory : memory'[j].key = memory[j].key
  BY <1>5, <1>6
<1>9. OneEach(memory)'
  BY <1>2, <1>6, <1>8 DEF OneEach
<1>10. UnderMemory' = UnderMemory /\ \A x, st : Under(x, st)' = Under(x, st)
  BY <1>1 DEF UnderMemory, Under, Pending
<1>11. \A j \in DOMAIN memory : EntryOK(memory'[j], UnderMemory)
  BY <1>3, <1>5, <1>6 DEF EntryOK, LimiterInv, MemoryOK
<1>12. MemoryOK(memory', UnderMemory)
  BY <1>2, <1>6, <1>7, <1>9, <1>11 DEF MemoryOK, OneEach
<1>13. MemoryOK(memory, UnderMemory)'
  BY <1>10, <1>12 DEF MemoryOK, EntryOK, OneEach, Limit, Overlap
<1>14. \A b \in Buckets : RedisOK(b)'
  BY <1>1, <1>10, RedisKeeps, UnderIs
<1> QED
  BY <1>1, <1>13, <1>14 DEF LimiterInv, LimiterTypeOK

\* The count a store is asked for.
LEMMA AdmittedBelow ==
  ASSUME NEW c \in Clients, NEW x, NEW y, ~limited(x, y), NEW b \in bucketKeys(c)
  PROVE  IF b = Global THEN ~(y >= Limit(b)) ELSE ~(x >= Limit(b))
<1>1. b = Global => GlobalMaxFailures > 0
  BY KeysAre
<1> QED
  BY <1>1 DEF limited, Limit

LEMMA CheckKeeps ==
  ASSUME LimiterInv, NEW r \in Requests, NEW answered \in BOOLEAN, CheckLogin(r, answered)
  PROVE  LimiterInv'
<1> DEFINE c == req[r].client
           n(b) == IF answered THEN redis[b].n ELSE memoryGet(memory, b)
           st == IF answered THEN "redis" ELSE "memory"
           go == [req[r] EXCEPT !.pc = "body", !.store = st]
           q == IF limited(n(c), n(Global)) THEN Waiting ELSE go
           E == {e \in Range(memory) : e.key \in bucketKeys(c) => e.live}
<1>1. /\ req[r].pc = "check" /\ redis' = redis
      /\ req' = [req EXCEPT ![r] = q]
      /\ memory' = IF answered THEN memory ELSE Kept(memory, E)
  BY DEF CheckLogin, LimiterInv, LimiterTypeOK, Swept
<1>2. /\ req[r] = [pc |-> "check", client |-> c, store |-> req[r].store, session |-> req[r].session]
      /\ c \in Clients
  BY <1>1, RequestIs
<1>3. st \in Stores
  BY DEF Stores
<1> HIDE DEF st
<1>4. go \in [pc : {"body"}, client : {c}, store : {st}, session : {req[r].session}]
  BY <1>2
<1> HIDE DEF go
<1>5. IsRequest(go) /\ \A b, x : Pending(go, b, x) => x = st /\ b \in bucketKeys(c)
  BY <1>2, <1>3, <1>4 DEF IsRequest, Pending
<1>6. IsRequest(q) /\ \A b, x : Pending(q, b, x) =>
                         x = st /\ b \in bucketKeys(c) /\ ~limited(n(c), n(Global))
  BY <1>5, WaitingIs
<1>7. Global \in Buckets /\ c \in Buckets
  BY <1>2, KeysAre DEF Buckets
<1>8. \A b : Pending(q, b, st) => ~(n(b) >= Limit(b)) /\ b \in Buckets
  <2> SUFFICES ASSUME NEW b, Pending(q, b, st) PROVE ~(n(b) >= Limit(b)) /\ b \in Buckets
    OBVIOUS
  <2>1. b \in bucketKeys(c) /\ ~limited(n(c), n(Global))
    BY <1>6
  <2>2. b \in Buckets /\ (b = c \/ b = Global) /\ c # Global
    BY <1>2, <2>1, KeysAre
  <2> HIDE DEF n
  <2> QED
    BY <1>2, <2>1, <2>2, AdmittedBelow
<1> HIDE DEF q
<1>9. /\ req = [x \in Requests |-> req[x]] /\ LimiterTypeOK'
  BY <1>1, <1>6, RequestType DEF LimiterInv, LimiterTypeOK
<1>10. \A b, x : /\ Under(b, x)' \in Nat /\ Under(b, x)' <= Cardinality(Requests)
                 /\ ~Pending(q, b, x) => Under(b, x)' <= Under(b, x)
  BY <1>1, <1>9, UnderMoves
<1>11. ASSUME NEW b \in Buckets PROVE RedisOK(b)'
  <2>0. redis'[b] = redis[b] /\ redis[b].own \in Nat /\ redis[b].n \in Nat /\ RedisOK(b)
    BY <1>1 DEF LimiterInv, LimiterTypeOK, Bucket
  <2>1. CASE ~Pending(q, b, "redis")
    BY <1>10, <2>0, <2>1, RedisKeeps
  <2>2. CASE Pending(q, b, "redis")
    <3>1. answered
      BY <1>6, <2>2 DEF st
    <3>2. ~(redis[b].n >= Limit(b))
      BY <1>8, <2>2, <3>1 DEF st
    <3>3. /\ Limit(b) \in Nat /\ Overlap \in Nat /\ Under(b, "redis")' \in Nat
          /\ Under(b, "redis")' <= Overlap + 1
      BY <1>10, LimitIs, OverlapIs
    <3>4. redis[b].own + Under(b, "redis")' <= Limit(b) + Overlap
      BY <2>0, <3>2, <3>3 DEF RedisOK
    <3> QED
      BY <2>0, <3>4 DEF RedisOK
  <2> QED
    BY <2>1, <2>2
<1>12. memory \in Seq(Entry) /\ OneEach(memory) /\ MemoryOK(memory, UnderMemory)
  BY DEF LimiterInv, MemoryOK
<1>13. ASSUME ~answered, NEW j \in DOMAIN memory, memory[j] \in E
       PROVE  UnderMemory'[memory[j].key] <= UnderMemory[memory[j].key] \/ EntryOK(memory[j], UnderMemory')
  <2>0. PICK b \in Buckets : b = memory[j].key
    BY <1>12, EntriesOf
  <2>1. /\ b \in Buckets /\ memory[j].n \in Nat /\ memory[j].own \in Nat
        /\ EntryOK(memory[j], UnderMemory)
    BY <1>12, EntriesOf DEF MemoryOK
  <2>2. UnderMemory'[b] = Under(b, "memory")' /\ UnderMemory[b] = Under(b, "memory")
    BY <2>1 DEF UnderMemory
  <2>3. CASE ~Pending(q, b, "memory")
    BY <1>10, <2>0, <2>2, <2>3
  <2>4. CASE Pending(q, b, "memory")
    <3>1. st = "memory" /\ b \in bucketKeys(c)
      BY <1>6, <2>4
    <3>2. memory[j].live
      BY <1>13, <2>0, <3>1
    <3>3. Live(memory, b) = {j}
      BY <1>12, <2>0, <3>2 DEF Live, OneEach
    <3>4. memoryGet(memory, b) = memory[j].n
      BY <3>3 DEF memoryGet
    <3>5. ~(memory[j].n >= Limit(b))
      BY <1>8, <1>13, <2>4, <3>1, <3>4
    <3>6. /\ Limit(b) \in Nat /\ Overlap \in Nat /\ Under(b, "memory")' \in Nat
          /\ Under(b, "memory")' <= Overlap + 1
      BY <1>10, <2>1, LimitIs, OverlapIs
    <3>7. memory[j].own <= memory[j].n
      BY <2>1 DEF EntryOK
    <3>8. memory[j].own + Under(b, "memory")' <= Limit(b) + Overlap
      BY <2>1, <3>5, <3>6, <3>7
    <3> QED
      BY <2>0, <2>1, <2>2, <3>8 DEF EntryOK
  <2> QED
    BY <2>3, <2>4
<1> HIDE DEF E
<1>14. MemoryOK(memory', UnderMemory')
  <2>1. CASE answered
    <3>1. \A b \in Buckets : UnderMemory'[b] <= UnderMemory[b]
      BY <1>6, <1>10, <2>1 DEF UnderMemory, st
    <3> QED
      BY <1>1, <1>12, <2>1, <3>1, FewerKeeps, UnderMemoryIs
  <2>2. CASE ~answered
    BY <1>1, <1>12, <1>13, <2>2, KeptKeeps, UnderMemoryIs
  <2> QED
    BY <2>1, <2>2
<1>15. MemoryOK(memory, UnderMemory)'
  BY <1>14 DEF MemoryOK, EntryOK, OneEach, Limit, Overlap
<1> QED
  BY <1>9, <1>11, <1>15 DEF LimiterInv

\* The buckets of a failure in the process's own store, one after the other.
LEMMA CountKeeps ==
  ASSUME NEW B \in Counts, NEW C \in Counts, NEW m, MemoryOK(m, B), NEW c \in Clients, NEW own \in {0, 1},
         \A b \in bucketKeys(c) : own <= B[b] /\ B[b] <= Cardinality(Requests) /\ C[b] <= B[b] - own,
         \A b \in Buckets : C[b] <= B[b]
  PROVE  MemoryOK(countInMemory(m, c, own), C)
<1> DEFINE D == [B EXCEPT ![c] = B[c] - own]
           mine == memoryIncr(m, c, own)
<1>1. /\ c \in Buckets /\ c # Global /\ c \in bucketKeys(c) /\ Global \in Buckets
      /\ Global \in bucketKeys(c) <=> GlobalMaxFailures > 0
      /\ \A b \in bucketKeys(c) : b \in Buckets /\ (b = c \/ b = Global)
  BY KeysAre DEF Buckets
<1>2. D \in Counts /\ MemoryOK(mine, D)
  BY <1>1, IncrKeeps
<1>3. D[c] = B[c] - own /\ \A b \in Buckets : b # c => D[b] = B[b]
  BY <1>1 DEF Counts
<1> HIDE DEF D, mine
<1>4. CASE GlobalMaxFailures > 0
  <2> DEFINE F == [D EXCEPT ![Global] = D[Global] - own]
  <2>1. D[Global] = B[Global]
    BY <1>1, <1>3
  <2>2. F \in Counts /\ MemoryOK(memoryIncr(mine, Global, own), F)
    BY <1>1, <1>2, <1>4, <2>1, IncrKeeps
  <2>3. F[Global] = B[Global] - own /\ \A b \in Buckets : b # Global => F[b] = D[b]
    BY <1>1, <1>2, <2>1 DEF Counts
  <2> HIDE DEF F
  <2>4. \A b \in Buckets : C[b] <= F[b]
    BY <1>1, <1>3, <1>4, <2>3
  <2>5. MemoryOK(memoryIncr(mine, Global, own), C)
    BY <2>2, <2>4, FewerKeeps
  <2> QED
    BY <1>4, <2>5 DEF countInMemory, mine
<1>5. CASE ~(GlobalMaxFailures > 0)
  <2>1. \A b \in Buckets : C[b] <= D[b]
    BY <1>1, <1>3
  <2>2. MemoryOK(mine, C)
    BY <1>2, <2>1, FewerKeeps
  <2> QED
    BY <1>5, <2>2 DEF countInMemory, mine
<1> QED
  BY <1>4, <1>5

LEMMA FailureKeeps ==
  ASSUME LimiterInv, NEW r \in Requests, NEW applied \in SUBSET Buckets, NEW answered \in BOOLEAN,
         RecordFailure(r, applied, answered)
  PROVE  LimiterInv'
<1>1. PICK c \in Clients : c = req[r].client
  BY RequestIs DEF RecordFailure
<1> DEFINE own(store) == IF req[r].store = store THEN 1 ELSE 0
<1>2. /\ req[r].pc = "fail" /\ applied \subseteq bucketKeys(c)
      /\ req' = [req EXCEPT ![r] = Waiting]
      /\ redis' = [b \in Buckets |-> IF b \in applied THEN Incr(redis[b], own("redis")) ELSE redis[b]]
      /\ memory' = IF answered THEN memory ELSE countInMemory(memory, c, own("memory"))
  BY <1>1 DEF RecordFailure
<1>3. req = [x \in Requests |-> req[x]]
  BY DEF LimiterInv, LimiterTypeOK
<1>4. \A b, x : /\ Under(b, x)' \in Nat /\ Under(b, x)' <= Under(b, x)
                /\ Pending(req[r], b, x) => Under(b, x)' = Under(b, x) - 1
  BY <1>2, <1>3, UnderMoves, WaitingIs
<1>5. \A b \in bucketKeys(c) : \A x : own(x) \in {0, 1} /\ (own(x) = 1 => Pending(req[r], b, x))
  BY <1>1, <1>2 DEF Pending
<1> HIDE DEF own
<1>6. \A b \in bucketKeys(c), x \in Stores : Under(b, x)' + own(x) <= Under(b, x) /\ own(x) \in {0, 1}
  BY <1>4, <1>5, UnderIs
<1>7. redis \in [Buckets -> Bucket]
  BY DEF LimiterInv, LimiterTypeOK
<1>8. ASSUME NEW b \in Buckets PROVE redis'[b] \in Bucket /\ RedisOK(b)'
  <2>1. CASE b \notin applied
    <3>1. redis'[b] = redis[b]
      BY <1>2, <2>1
    <3> QED
      BY <1>4, <1>7, <3>1, RedisKeeps
  <2>2. CASE b \in applied
    <3> DEFINE o == own("redis")
               old == redis[b]
    <3>1. redis'[b] = [n |-> old.n + 1, own |-> old.own + o, ttl |-> old.n = 0 \/ old.ttl]
      BY <1>2, <2>2 DEF Incr
    <3>2. o \in {0, 1} /\ Under(b, "redis")' + o <= Under(b, "redis") /\ Under(b, "redis")' \in Nat
      BY <1>2, <1>4, <1>6, <2>2 DEF Stores
    <3>3. old.n \in Nat /\ old.own \in Nat /\ old.ttl \in BOOLEAN /\ RedisOK(b)
      BY <1>7 DEF Bucket, LimiterInv
    <3>4. Under(b, "redis") \in Nat /\ Limit(b) \in Nat /\ Overlap \in Nat
      BY UnderIs, LimitIs, OverlapIs
    <3>5. old.own <= old.n /\ (old.n > 0 => old.ttl) /\ old.own + Under(b, "redis") <= Limit(b) + Overlap
      BY <3>3 DEF RedisOK
    <3> HIDE DEF o, old
    <3>6. old.own + o <= old.n + 1 /\ (old.n = 0 \/ old.ttl)
          /\ old.own + o + Under(b, "redis")' <= Limit(b) + Overlap
      BY <3>2, <3>3, <3>4, <3>5
    <3>7. redis'[b].own = old.own + o /\ redis'[b].n = old.n + 1
          /\ old.own + o \in Nat /\ old.n + 1 \in Nat
      BY <3>1, <3>2, <3>3
    <3>8. redis'[b].ttl
      <4> DEFINE t == old.n = 0 \/ old.ttl
      <4>1. t = TRUE
        BY <3>6
      <4>2. redis'[b] = [n |-> old.n + 1, own |-> old.own + o, ttl |-> t]
        BY <3>1
      <4> HIDE DEF t
      <4>3. redis'[b].ttl = TRUE
        BY <4>1, <4>2
      <4> QED
        BY <4>3
    <3>9. redis'[b] \in Bucket
      BY <3>1, <3>7 DEF Bucket
    <3> QED
      BY <3>6, <3>7, <3>8, <3>9 DEF RedisOK
  <2> QED
    BY <2>1, <2>2
<1>9. LimiterTypeOK'
  <2>1. redis' \in [Buckets -> Bucket]
    BY <1>2, <1>8
  <2> QED
    BY <1>2, <2>1, RequestType, WaitingIs DEF LimiterTypeOK
<1>10. MemoryOK(memory, UnderMemory)
  BY DEF LimiterInv
<1>11. \A b \in Buckets : UnderMemory[b] = Under(b, "memory") /\ UnderMemory'[b] = Under(b, "memory")'
  BY DEF UnderMemory
<1>12. MemoryOK(memory', UnderMemory')
  <2>0. \A b \in Buckets : UnderMemory'[b] <= UnderMemory[b]
    BY <1>4, <1>11
  <2>1. CASE answered
    BY <1>2, <1>10, <2>0, <2>1, FewerKeeps, UnderMemoryIs
  <2>2. CASE ~answered
    <3> DEFINE o == own("memory")
    <3>1. \A b \in bucketKeys(c) : b \in Buckets
      BY KeysAre
    <3>2. ASSUME NEW b \in bucketKeys(c)
          PROVE  /\ o \in {0, 1} /\ o <= UnderMemory[b] /\ UnderMemory[b] <= Cardinality(Requests)
                 /\ UnderMemory'[b] <= UnderMemory[b] - o
      <4>1. UnderMemory[b] = Under(b, "memory") /\ UnderMemory'[b] = Under(b, "memory")'
        BY <1>11, <3>1
      <4>2. Under(b, "memory")' + o <= Under(b, "memory") /\ o \in {0, 1} /\ Under(b, "memory")' \in Nat
        BY <1>4, <1>6 DEF Stores
      <4>3. Under(b, "memory") \in Nat /\ Under(b, "memory") <= Cardinality(Requests)
        BY UnderIs
      <4> QED
        BY <4>1, <4>2, <4>3
    <3>3. o \in {0, 1}
      BY <3>2, KeysAre
    <3> HIDE DEF o
    <3>4. MemoryOK(countInMemory(memory, c, o), UnderMemory')
      BY <1>10, <2>0, <3>2, <3>3, CountKeeps, UnderMemoryIs
    <3> QED
      BY <1>2, <2>2, <3>4 DEF o
  <2> QED
    BY <2>1, <2>2
<1>13. MemoryOK(memory, UnderMemory)'
  BY <1>12 DEF MemoryOK, EntryOK, OneEach, Limit, Overlap
<1> QED
  BY <1>8, <1>9, <1>13 DEF LimiterInv

LEMMA SuccessKeeps ==
  ASSUME LimiterInv, NEW r \in Requests, NEW applied \in BOOLEAN, NEW answered \in BOOLEAN,
         RecordSuccess(r, applied, answered)
  PROVE  LimiterInv'
<1>1. PICK c \in Clients : c = req[r].client
  BY RequestIs DEF RecordSuccess
<1>2. /\ req' = [req EXCEPT ![r] = Waiting]
      /\ redis' = IF applied THEN [redis EXCEPT ![c] = Empty] ELSE redis
      /\ memory' = IF answered THEN memory ELSE Kept(memory, {e \in Range(memory) : e.key # c})
  BY <1>1 DEF RecordSuccess
<1>3. req = [x \in Requests |-> req[x]] /\ redis \in [Buckets -> Bucket]
  BY DEF LimiterInv, LimiterTypeOK
<1>4. \A b, x : Under(b, x)' \in Nat /\ Under(b, x)' <= Under(b, x)
  BY <1>2, <1>3, UnderMoves, WaitingIs
<1>5. Empty \in Bucket /\ Empty.own = 0 /\ Empty.n = 0
  BY DEF Empty, Bucket
<1>6. LimiterTypeOK'
  <2>1. redis' \in [Buckets -> Bucket]
    BY <1>2, <1>3, <1>5
  <2> QED
    BY <1>2, <2>1, RequestType, WaitingIs DEF LimiterTypeOK
<1>7. ASSUME NEW b \in Buckets PROVE RedisOK(b)'
  <2>1. redis'[b] = redis[b] \/ redis'[b] = Empty
    BY <1>2, <1>3
  <2>2. CASE redis'[b] = Empty
    <3>1. /\ Under(b, "redis")' \in Nat /\ Under(b, "redis")' <= Under(b, "redis")
          /\ Under(b, "redis") \in Nat /\ Under(b, "redis") <= Limit(b) + Overlap
          /\ Limit(b) \in Nat /\ Overlap \in Nat
      BY <1>4, EmptyIsOK, UnderIs, LimitIs, OverlapIs DEF LimiterInv
    <3>2. 0 + Under(b, "redis")' <= Limit(b) + Overlap
      BY <3>1
    <3> QED
      BY <1>5, <2>2, <3>2 DEF RedisOK
  <2> QED
    BY <1>4, <2>1, <2>2, RedisKeeps
<1>8. \A b \in Buckets : UnderMemory'[b] <= UnderMemory[b]
  BY <1>4 DEF UnderMemory
<1>9. MemoryOK(memory, UnderMemory)
  BY DEF LimiterInv
<1>10. \A j \in DOMAIN memory : memory[j].key \in Buckets
  BY <1>9, EntriesOf DEF MemoryOK
<1>11. MemoryOK(memory', UnderMemory')
  BY <1>2, <1>8, <1>9, <1>10, FewerKeeps, KeptKeeps, UnderMemoryIs
<1>12. MemoryOK(memory, UnderMemory)'
  BY <1>11 DEF MemoryOK, EntryOK, OneEach, Limit, Overlap
<1> QED
  BY <1>6, <1>7, <1>12 DEF LimiterInv

LEMMA RestartKeeps ==
  ASSUME LimiterInv, NEW ops, Restart(ops)
  PROVE  LimiterInv'
<1>1. redis' = redis /\ memory' = <<>> /\ req' = [r \in Requests |-> Waiting]
  BY DEF Restart
<1>2. LimiterTypeOK'
  BY <1>1, WaitingIs DEF LimiterInv, LimiterTypeOK
<1>3. ASSUME NEW b \in Buckets PROVE RedisOK(b)'
  <2>1. {r \in Requests : Pending(req'[r], b, "redis")} = {}
    BY <1>1, WaitingIs
  <2>2. Under(b, "redis")' = 0
    BY <2>1, FS_EmptySet DEF Under, Pending
  <2>3. Under(b, "redis") \in Nat
    BY UnderIs
  <2> QED
    BY <1>1, <2>2, <2>3, RedisKeeps
<1>4. MemoryOK(memory, UnderMemory)'
  <2>1. MemoryMaxBuckets \in Nat
    BY AuthAssumption
  <2> QED
    BY <1>1, <2>1 DEF MemoryOK, OneEach
<1> QED
  BY <1>2, <1>3, <1>4 DEF LimiterInv

LEMMA LimiterStep == LimiterInv /\ [LimiterNext \/ SessionNext]_authVars => LimiterInv'
<1> SUFFICES ASSUME LimiterInv, [LimiterNext \/ SessionNext]_authVars PROVE LimiterInv'
  OBVIOUS
<1>1. CASE LimiterNext
  BY <1>1, StartingKeeps, CheckKeeps, BodyKeeps, FailureKeeps, SuccessKeeps, ExpiryKeeps, MemoryExpiryKeeps
  DEF LimiterNext
<1>2. ASSUME UNCHANGED limiterVars PROVE LimiterInv'
  <2>1. redis' = redis /\ memory' = memory /\ req' = req
    BY <1>2 DEF limiterVars
  <2>2. UnderMemory' = UnderMemory /\ \A x, st : Under(x, st)' = Under(x, st)
    BY <2>1 DEF UnderMemory, Under, Pending
  <2>3. MemoryOK(memory, UnderMemory)'
    BY <2>1, <2>2 DEF LimiterInv, MemoryOK, EntryOK, OneEach, Limit, Overlap
  <2>4. \A b \in Buckets : RedisOK(b)'
    BY <2>1, <2>2, RedisKeeps, UnderIs
  <2> QED
    BY <2>1, <2>3, <2>4 DEF LimiterInv, LimiterTypeOK, IsRequest
<1>3. CASE SessionNext
  BY <1>2, <1>3, RestartKeeps DEF SessionNext, Middleware, Logout, RequireOperator, Clock
<1>4. CASE UNCHANGED authVars
  BY <1>2, <1>4 DEF authVars
<1> QED
  BY <1>1, <1>3, <1>4

LEMMA LimiterBounds == LimiterInv => LoginsBounded
<1> SUFFICES ASSUME LimiterInv PROVE LoginsBounded
  OBVIOUS
<1>1. ASSUME NEW b \in Buckets PROVE redis[b].own <= Limit(b) + Overlap
  <2>1. RedisOK(b) /\ redis[b].own \in Nat
    BY DEF LimiterInv, LimiterTypeOK, Bucket
  <2>2. Under(b, "redis") \in Nat /\ Limit(b) \in Nat /\ Overlap \in Nat
    BY UnderIs, LimitIs, OverlapIs
  <2> QED
    BY <2>1, <2>2 DEF RedisOK
<1>2. MemoryBounded /\ \A k \in DOMAIN memory : memory[k].own <= Limit(memory[k].key) + Overlap
  BY DEF LimiterInv, MemoryOK, EntryOK, MemoryBounded
<1>3. CountersExpire
  BY DEF LimiterInv, RedisOK, CountersExpire
<1> QED
  BY <1>1, <1>2, <1>3 DEF LoginsBounded, FailuresBounded

\* login-rate-limit.ts bounds what it is there to bound for any limits, clients and
\* number of requests at once, whatever Redis loses, executes without answering or
\* expires: the wrong tokens of a window, the entries in memory, and no count is left
\* in Redis without an end to its window.
THEOREM LimiterHolds == AuthSpec => []LoginsBounded
<1>1. AuthSpec => []LimiterInv
  BY LimiterStart, LimiterStep, PTL DEF AuthSpec
<1> QED
  BY <1>1, LimiterBounds, PTL

-----------------------------------------------------------------------------
(* Governance.  What an open transaction has read is not stale where it     *)
(* matters: a version that exists, the name of who asked for it and the     *)
(* operators who signed it are never taken back.  The rows it has written   *)
(* are its own until it ends, and of two open transactions only one has     *)
(* activated a version of a strategy, so what the unique index found when   *)
(* it activated still holds when it commits.                                *)

Pcs == {"findStrategy", "createStrategy", "findLatest", "createVersion", "readApproval", "readVersion",
        "decide", "findActive", "pause", "activate", "readRetired", "retire", "commit"}
TxRecord ==
  [pc : Pcs, actor : Operators, v : Strategies \X (0..MaxVersion),
   verdict : {"none", "PENDING"} \cup Decided, locked : BOOLEAN, create : BOOLEAN,
   others : SUBSET Vid, put : SUBSET [v : Vid, after : Statuses]]

GovTypeOK ==
  /\ strategies \subseteq Strategies
  /\ status \in [Vid -> Statuses]
  /\ approval \in [Vid -> [status : {"none", "PENDING"} \cup Decided, requestedBy : Operators \cup {Nobody}]]
  /\ signers \in [Vid -> SUBSET Operators]
  /\ tx \in [Txs -> TxRecord \cup {NoTx}]

\* Who asked for the version is not who signed it, and neither is forgotten.
Signed(w) == approval[w].status # "none" /\ signers[w] \ {approval[w].requestedBy} # {}

\* The reviewer is not the one who asked.
Asked(r) == approval[r.v].status # "none" /\ approval[r.v].requestedBy # r.actor

\* The rows an approval has paused on its way.
Pausing(r) ==
  \A a \in r.put : a.after = "PAUSED" /\ a.v # r.v /\ a.v \notin r.others /\ Signed(a.v)

\* What a transaction that is about to commit has done.
Registers(r) ==
  r.verdict = "PENDING" /\ r.locked /\ r.put = {[v |-> r.v, after |-> "DRAFT"]} /\ status[r.v] = "none"
Rejects(r) == r.verdict = "REJECTED" /\ r.locked /\ r.put = {} /\ Asked(r)
Retires(r) ==
  r.verdict = "none" /\ ~r.locked /\ r.put = {[v |-> r.v, after |-> "RETIRED"]} /\ status[r.v] # "none"
Approves(r) ==
  /\ r.verdict = "APPROVED" /\ r.locked /\ Asked(r)
  /\ [v |-> r.v, after |-> "ACTIVE"] \in r.put
  /\ \A a \in r.put : a.v # r.v => a.after = "PAUSED" /\ Signed(a.v)
  /\ \A w \in Vid : w[1] = r.v[1] /\ status[w] = "ACTIVE" => \E a \in r.put : a.v = w

\* What holds of an open transaction, by where it stands.
TxOK(r) ==
  /\ \A a, b \in r.put : a.v = b.v => a = b
  /\ r.pc \notin {"findStrategy", "createStrategy", "findLatest"} => r.v \in Vid
  /\ r.pc \notin {"pause", "activate", "commit"} => r.put = {}
  /\ r.pc \in {"findStrategy", "createStrategy", "findLatest", "createVersion", "readRetired", "retire"} =>
       r.verdict = "none" /\ ~r.locked
  /\ r.pc \in {"readApproval", "readVersion", "decide"} => r.verdict \in Decided /\ ~r.locked
  /\ r.pc \in {"readVersion", "decide", "findActive", "pause", "activate"} => Asked(r)
  /\ r.pc \in {"findActive", "pause", "activate"} => r.verdict = "APPROVED" /\ r.locked /\ Pausing(r)
  /\ r.pc = "pause" => \A w \in r.others : w # r.v /\ Signed(w)
  /\ r.pc = "retire" => status[r.v] # "none"
  /\ r.pc = "commit" => Registers(r) \/ Rejects(r) \/ Approves(r) \/ Retires(r)

\* Open transactions have written different rows, and activated versions of
\* different strategies.
Apart(r, q) ==
  \A a \in r.put, b \in q.put :
    a.v # b.v /\ (a.after = "ACTIVE" /\ b.after = "ACTIVE" => a.v[1] # b.v[1])

TablesOK ==
  /\ \A v \in Vid : (status[v] = "none") = (approval[v].status = "none")
  /\ SingleActive /\ FourEyes /\ DecisionIsWhole

GovInv ==
  /\ GovTypeOK /\ TablesOK
  /\ \A t \in Txs : TxOpen(t) => TxOK(tx[t])
  /\ \A t, u \in Txs : t # u /\ TxOpen(t) /\ TxOpen(u) => Apart(tx[t], tx[u])

\* An open transaction is a record, and a closed one is not.
LEMMA OpenIsRecord ==
  ASSUME GovInv, NEW t \in Txs
  PROVE  TxOpen(t) <=> tx[t] \in TxRecord
BY DEF GovInv, GovTypeOK, TxOpen, TxRecord, NoTx, Pcs

\* The tables stay, and one transaction goes on to r, or is closed.
LEMMA TxMoves ==
  ASSUME GovInv, NEW t \in Txs, NEW r \in TxRecord \cup {NoTx},
         tx' = [tx EXCEPT ![t] = r], UNCHANGED govTables,
         r # NoTx => /\ TxOK(r)
                     /\ \A u \in Txs \ {t} : TxOpen(u) => Apart(r, tx[u])
  PROVE  GovInv'
<1>1. GovTypeOK' /\ TablesOK'
  BY DEF GovInv, GovTypeOK, TablesOK, govTables, SingleActive, FourEyes, DecisionIsWhole
<1>2. /\ tx'[t] = r
      /\ \A u \in Txs \ {t} : tx'[u] = tx[u] /\ (TxOpen(u)' <=> TxOpen(u))
      /\ TxOpen(t)' => r # NoTx
  BY DEF GovInv, GovTypeOK, TxOpen, NoTx
<1>3. \A q : TxOK(q)' <=> TxOK(q)
  BY DEF govTables, TxOK, Asked, Pausing, Signed, Registers, Rejects, Approves, Retires
<1>4. \A u \in Txs : TxOpen(u)' => TxOK(tx'[u])
  BY <1>2 DEF GovInv
<1>5. \A u, w \in Txs : u # w /\ TxOpen(u)' /\ TxOpen(w)' => Apart(tx'[u], tx'[w])
  <2> TAKE u, w \in Txs
  <2> HAVE u # w /\ TxOpen(u)' /\ TxOpen(w)'
  <2>1. CASE u = t
    BY <1>2, <2>1
  <2>2. CASE w = t
    <3>1. Apart(r, tx[u])
      BY <1>2, <2>2
    <3>2. Apart(tx[u], r)
      BY <3>1 DEF Apart
    <3>3. QED
      BY <1>2, <2>2, <3>2
  <2>3. CASE u # t /\ w # t
    BY <1>2, <2>3 DEF GovInv
  <2>4. QED
    BY <2>1, <2>2, <2>3
<1>6. \A u \in Txs : TxOpen(u)' => TxOK(tx[u])'
  BY <1>3, <1>4
<1>7. \A u, w \in Txs : u # w /\ TxOpen(u)' /\ TxOpen(w)' => Apart(tx[u], tx[w])'
  BY <1>5 DEF Apart
<1>8. QED
  BY <1>1, <1>6, <1>7 DEF GovInv

LEMMA RollbackKeeps ==
  ASSUME GovInv, NEW t \in Txs, Rollback(t)
  PROVE  GovInv'
BY TxMoves DEF Rollback

\* A transaction that has written nothing is apart from every other.
LEMMA NothingPutIsApart ==
  ASSUME NEW r, NEW q, r.put = {}
  PROVE  Apart(r, q)
BY DEF Apart

\* A step that leaves the rows a transaction has written as they are.
LEMMA SamePutMoves ==
  ASSUME GovInv, NEW t \in Txs, TxOpen(t), NEW r \in TxRecord,
         tx' = [tx EXCEPT ![t] = r], UNCHANGED govTables,
         r.put = tx[t].put, TxOK(r)
  PROVE  GovInv'
<1>1. \A u \in Txs \ {t} : TxOpen(u) => Apart(r, tx[u])
  BY DEF GovInv, Apart
<1>2. QED
  BY <1>1, TxMoves

\* Row v is written next, which no other open transaction has.
LEMMA PutMoves ==
  ASSUME GovInv, NEW t \in Txs, TxOpen(t), NEW r \in TxRecord,
         tx' = [tx EXCEPT ![t] = r], UNCHANGED govTables, TxOK(r),
         NEW v, NEW after, ~VersionLocked(t, v),
         r.put = Put(t, v, after),
         after = "ACTIVE" => \A u \in Txs \ {t} : TxOpen(u) =>
            \A b \in tx[u].put : b.after = "ACTIVE" => b.v[1] # v[1]
  PROVE  GovInv'
<1>1. ASSUME NEW u \in Txs \ {t}, TxOpen(u) PROVE Apart(r, tx[u])
  <2> SUFFICES ASSUME NEW a \in r.put, NEW b \in tx[u].put
               PROVE  a.v # b.v /\ (a.after = "ACTIVE" /\ b.after = "ACTIVE" => a.v[1] # b.v[1])
    BY DEF Apart
  <2>1. CASE a \in tx[t].put
    BY <1>1, <2>1 DEF GovInv, Apart
  <2>2. CASE a = [v |-> v, after |-> after]
    <3>1. u \in Others(t)
      BY <1>1 DEF Others
    <3>2. b.v # v
      BY <3>1 DEF VersionLocked
    <3>3. QED
      BY <1>1, <2>2, <3>2
  <2>3. QED
    BY <2>1, <2>2 DEF Put
<1>2. QED
  BY <1>1, TxMoves

\* A transaction begins with nothing read and nothing written.
LEMMA BeginKeeps ==
  ASSUME GovInv, NEW t \in Txs, NEW pc \in {"findStrategy", "readApproval", "readRetired"},
         NEW o \in Operators, NEW v \in Strategies \X (0..MaxVersion), NEW verdict \in {"none"} \cup Decided,
         pc # "findStrategy" => v \in Vid, pc = "readApproval" <=> verdict \in Decided,
         Begin(t, pc, o, v, verdict)
  PROVE  GovInv'
<1> DEFINE r == [pc |-> pc, actor |-> o, v |-> v, verdict |-> verdict,
                 locked |-> FALSE, create |-> FALSE, others |-> {}, put |-> {}]
<1>1. tx' = [tx EXCEPT ![t] = r] /\ UNCHANGED govTables
  BY DEF Begin
<1>2. r \in TxRecord
  BY DEF TxRecord, Pcs
<1>3. TxOK(r)
  BY DEF TxOK, Decided
<1>4. r.put = {}
  OBVIOUS
<1> HIDE DEF r
<1>5. QED
  BY <1>1, <1>2, <1>3, <1>4, NothingPutIsApart, TxMoves

LEMMA VersionsOfVid == \A v \in Vid : v \in Strategies \X (0..MaxVersion)
BY GovernanceAssumption DEF Vid

\* There are at most MaxVersion versions of a strategy.
LEMMA LatestBounded ==
  ASSUME NEW s \in Strategies
  PROVE  Latest(s) \in 0..MaxVersion
<1> DEFINE held == {v \in Vid : v[1] = s /\ status[v] # "none"}
           nth == [v \in held |-> v[2]]
<1>1. nth \in [held -> 1..MaxVersion]
  BY DEF Vid
<1>2. \A v, w \in held : nth[v] = nth[w] => v = w
  BY DEF Vid
<1>3. nth \in Injection(held, 1..MaxVersion)
  BY <1>1, <1>2 DEF Injection, IsInjective
<1>4. IsFiniteSet(1..MaxVersion) /\ Cardinality(1..MaxVersion) = MaxVersion
  BY GovernanceAssumption, FS_Interval
<1> HIDE DEF held, nth
<1>5. IsFiniteSet(held) /\ Cardinality(held) <= MaxVersion
  BY <1>3, <1>4, FS_Injection
<1>6. Cardinality(held) \in Nat
  BY <1>5, FS_CardinalityType
<1>7. QED
  BY <1>5, <1>6, GovernanceAssumption DEF Latest, held

(* registerStrategyVersion *)

LEMMA RegisterKeeps ==
  ASSUME GovInv, NEW t \in Txs,
         FindStrategy(t) \/ CreateStrategy(t) \/ FindLatest(t) \/ CreateVersion(t)
  PROVE  GovInv'
<1>0. TxOpen(t)
  BY DEF FindStrategy, CreateStrategy, FindLatest, CreateVersion, TxOpen
<1>1. tx[t] \in TxRecord /\ TxOK(tx[t]) /\ tx \in [Txs -> TxRecord \cup {NoTx}]
  BY <1>0, OpenIsRecord DEF GovInv, GovTypeOK
<1>2. CASE FindStrategy(t)
  <2> DEFINE pc == IF tx[t].v[1] \in strategies THEN "findLatest" ELSE "createStrategy"
             r == [tx[t] EXCEPT !.pc = pc]
  <2>1. tx' = [tx EXCEPT ![t] = r] /\ UNCHANGED govTables /\ tx[t].pc = "findStrategy"
    BY <1>1, <1>2 DEF FindStrategy, Goto
  <2>2. r \in TxRecord
    BY <1>1 DEF TxRecord, Pcs
  <2>3. TxOK(r)
    BY <1>1, <2>1 DEF TxOK, TxRecord
  <2>4. r.put = tx[t].put
    BY <1>1 DEF TxRecord
  <2> HIDE DEF r
  <2>5. QED
    BY <1>0, <2>1, <2>2, <2>3, <2>4, SamePutMoves
<1>3. CASE CreateStrategy(t)
  <2>1. CASE tx[t].v[1] \in strategies
    BY <1>3, <2>1, RollbackKeeps DEF CreateStrategy
  <2>2. CASE tx[t].v[1] \notin strategies
    <3> DEFINE r == [tx[t] EXCEPT !.create = TRUE, !.pc = "findLatest"]
    <3>1. tx' = [tx EXCEPT ![t] = r] /\ UNCHANGED govTables /\ tx[t].pc = "createStrategy"
      BY <1>1, <1>3, <2>2 DEF CreateStrategy
    <3>2. r \in TxRecord
      BY <1>1 DEF TxRecord, Pcs
    <3>3. TxOK(r)
      BY <1>1, <3>1 DEF TxOK, TxRecord
    <3>4. r.put = tx[t].put
      BY <1>1 DEF TxRecord
    <3> HIDE DEF r
    <3>5. QED
      BY <1>0, <3>1, <3>2, <3>3, <3>4, SamePutMoves
  <2>3. QED
    BY <2>1, <2>2
<1>4. CASE FindLatest(t)
  <2> DEFINE s == tx[t].v[1]
             w == <<s, Latest(s) + 1>>
             r == [tx[t] EXCEPT !.v = w, !.pc = "createVersion"]
  <2>1. CASE Latest(s) = MaxVersion
    BY <1>4, <2>1, RollbackKeeps DEF FindLatest
  <2>2. CASE Latest(s) # MaxVersion
    <3>1. tx' = [tx EXCEPT ![t] = r] /\ UNCHANGED govTables /\ tx[t].pc = "findLatest"
      BY <1>1, <1>4, <2>2 DEF FindLatest
    <3>2. s \in Strategies
      BY <1>1 DEF TxRecord
    <3>3. Latest(s) + 1 \in 1..MaxVersion
      BY <2>2, <3>2, LatestBounded, GovernanceAssumption
    <3>4. w \in Vid
      BY <3>2, <3>3 DEF Vid
    <3> HIDE DEF w
    <3>5. r \in TxRecord
      BY <1>1, <3>4, VersionsOfVid DEF TxRecord, Pcs
    <3>6. TxOK(r)
      BY <1>1, <3>1, <3>4 DEF TxOK, TxRecord
    <3>7. r.put = tx[t].put
      BY <1>1 DEF TxRecord
    <3> HIDE DEF r
    <3>8. QED
      BY <1>0, <3>1, <3>5, <3>6, <3>7, SamePutMoves
  <2>3. QED
    BY <2>1, <2>2
<1>5. CASE CreateVersion(t)
  <2> DEFINE v == tx[t].v
             r == [tx[t] EXCEPT !.put = Put(t, v, "DRAFT"), !.locked = TRUE,
                                !.verdict = "PENDING", !.pc = "commit"]
  <2>1. CASE status[v] # "none"
    BY <1>5, <2>1, RollbackKeeps DEF CreateVersion
  <2>2. CASE status[v] = "none"
    <3>1. /\ tx' = [tx EXCEPT ![t] = r] /\ UNCHANGED govTables
          /\ tx[t].pc = "createVersion" /\ ~VersionLocked(t, v)
      BY <1>1, <1>5, <2>2 DEF CreateVersion
    <3>2. tx[t].put = {} /\ v \in Vid
      BY <1>1, <3>1 DEF TxOK
    <3>3. Put(t, v, "DRAFT") = {[v |-> v, after |-> "DRAFT"]}
      BY <3>2 DEF Put
    <3>4. /\ r.put = {[v |-> v, after |-> "DRAFT"]} /\ r.pc = "commit" /\ r.v = v
          /\ r.verdict = "PENDING" /\ r.locked
      BY <1>1, <3>3 DEF TxRecord
    <3>5. r \in TxRecord
      <4>1. Put(t, v, "DRAFT") \in SUBSET [v : Vid, after : Statuses]
        BY <3>2, <3>3 DEF Statuses
      <4>2. QED
        BY <1>1, <4>1 DEF TxRecord, Pcs
    <3>6. TxOK(r)
      BY <2>2, <3>2, <3>4 DEF TxOK, Registers
    <3>7. r.put = Put(t, v, "DRAFT")
      BY <3>3, <3>4
    <3> HIDE DEF r, v
    <3>8. QED
      BY <1>0, <3>1, <3>5, <3>6, <3>7, PutMoves
  <2>3. QED
    BY <2>1, <2>2
<1>6. QED
  BY <1>2, <1>3, <1>4, <1>5

(* reviewDeployApproval *)

LEMMA ReadsKeep ==
  ASSUME GovInv, NEW t \in Txs, ReadApproval(t) \/ ReadVersion(t) \/ Decide(t) \/ PausedAll(t)
  PROVE  GovInv'
<1>0. TxOpen(t)
  BY DEF ReadApproval, ReadVersion, Decide, PausedAll, TxOpen
<1>1. tx[t] \in TxRecord /\ TxOK(tx[t]) /\ tx \in [Txs -> TxRecord \cup {NoTx}]
  BY <1>0, OpenIsRecord DEF GovInv, GovTypeOK
<1>2. CASE ReadApproval(t)
  <2> DEFINE r == [tx[t] EXCEPT !.pc = "readVersion"]
  <2>1. CASE ~mayReview(t)
    BY <1>2, <2>1, RollbackKeeps DEF ReadApproval
  <2>2. CASE mayReview(t)
    <3>1. tx' = [tx EXCEPT ![t] = r] /\ UNCHANGED govTables /\ tx[t].pc = "readApproval"
      BY <1>1, <1>2, <2>2 DEF ReadApproval, Goto
    <3>2. r \in TxRecord
      BY <1>1 DEF TxRecord, Pcs
    <3>3. r.put = tx[t].put /\ r.v = tx[t].v /\ r.actor = tx[t].actor /\ r.verdict = tx[t].verdict
          /\ r.locked = tx[t].locked /\ r.pc = "readVersion"
      BY <1>1 DEF TxRecord
    <3> HIDE DEF r
    <3>4. Asked(r)
      BY <2>2, <3>3 DEF mayReview, Asked
    <3>5. TxOK(r)
      BY <1>1, <3>1, <3>3, <3>4 DEF TxOK
    <3>6. QED
      BY <1>0, <3>1, <3>2, <3>3, <3>5, SamePutMoves
  <2>3. QED
    BY <2>1, <2>2
<1>3. CASE ReadVersion(t)
  <2> DEFINE r == [tx[t] EXCEPT !.pc = "decide"]
  <2>1. CASE status[tx[t].v] # "DRAFT"
    BY <1>3, <2>1, RollbackKeeps DEF ReadVersion
  <2>2. CASE status[tx[t].v] = "DRAFT"
    <3>1. tx' = [tx EXCEPT ![t] = r] /\ UNCHANGED govTables /\ tx[t].pc = "readVersion"
      BY <1>1, <1>3, <2>2 DEF ReadVersion, Goto
    <3>2. r \in TxRecord
      BY <1>1 DEF TxRecord, Pcs
    <3>3. r.put = tx[t].put /\ r.v = tx[t].v /\ r.actor = tx[t].actor /\ r.verdict = tx[t].verdict
          /\ r.locked = tx[t].locked /\ r.pc = "decide"
      BY <1>1 DEF TxRecord
    <3> HIDE DEF r
    <3>5. TxOK(r)
      BY <1>1, <3>1, <3>3 DEF TxOK, Asked
    <3>6. QED
      BY <1>0, <3>1, <3>2, <3>3, <3>5, SamePutMoves
  <2>3. QED
    BY <2>1, <2>2
<1>4. CASE Decide(t)
  <2> DEFINE r == [tx[t] EXCEPT !.locked = TRUE,
                     !.pc = IF tx[t].verdict = "APPROVED" THEN "findActive" ELSE "commit"]
  <2>1. tx' = [tx EXCEPT ![t] = r] /\ UNCHANGED govTables /\ tx[t].pc = "decide"
    BY <1>1, <1>4 DEF Decide
  <2>2. r \in TxRecord
    BY <1>1 DEF TxRecord, Pcs
  <2>3. r.put = tx[t].put /\ r.v = tx[t].v /\ r.actor = tx[t].actor /\ r.verdict = tx[t].verdict
        /\ r.locked /\ r.pc = IF tx[t].verdict = "APPROVED" THEN "findActive" ELSE "commit"
    BY <1>1 DEF TxRecord
  <2> HIDE DEF r
  <2>4. r.put = {} /\ r.v \in Vid /\ Asked(r) /\ r.verdict \in Decided
    BY <1>1, <2>1, <2>3 DEF TxOK, Asked
  <2>5. r.verdict # "APPROVED" => Rejects(r)
    BY <2>3, <2>4 DEF Rejects, Decided
  <2>6. TxOK(r)
    BY <2>3, <2>4, <2>5 DEF TxOK, Pausing
  <2>7. QED
    BY <1>0, <2>1, <2>2, <2>3, <2>6, SamePutMoves
<1>5. CASE PausedAll(t)
  <2> DEFINE r == [tx[t] EXCEPT !.pc = "activate"]
  <2>1. tx' = [tx EXCEPT ![t] = r] /\ UNCHANGED govTables /\ tx[t].pc = "pause"
    BY <1>1, <1>5 DEF PausedAll, Goto
  <2>2. r \in TxRecord
    BY <1>1 DEF TxRecord, Pcs
  <2>3. r.put = tx[t].put /\ r.v = tx[t].v /\ r.actor = tx[t].actor /\ r.verdict = tx[t].verdict
        /\ r.locked = tx[t].locked /\ r.others = tx[t].others /\ r.pc = "activate"
    BY <1>1 DEF TxRecord
  <2> HIDE DEF r
  <2>4. TxOK(r)
    BY <1>1, <2>1, <2>3 DEF TxOK, Asked, Pausing
  <2>5. QED
    BY <1>0, <2>1, <2>2, <2>3, <2>4, SamePutMoves
<1>6. QED
  BY <1>2, <1>3, <1>4, <1>5

\* The versions that are ACTIVE now were signed, and stay signed.
LEMMA FindActiveKeeps ==
  ASSUME GovInv, NEW t \in Txs, FindActive(t)
  PROVE  GovInv'
<1> DEFINE others == {w \in Vid \ {tx[t].v} : w[1] = tx[t].v[1] /\ status[w] = "ACTIVE"}
           r == [tx[t] EXCEPT !.pc = "pause", !.others = others]
<1>0. TxOpen(t)
  BY DEF FindActive, TxOpen
<1>1. tx[t] \in TxRecord /\ TxOK(tx[t]) /\ tx \in [Txs -> TxRecord \cup {NoTx}]
  BY <1>0, OpenIsRecord DEF GovInv, GovTypeOK
<1>2. tx' = [tx EXCEPT ![t] = r] /\ UNCHANGED govTables /\ tx[t].pc = "findActive"
  BY <1>1 DEF FindActive
<1>3. \A w \in others : w # tx[t].v /\ Signed(w)
  BY DEF GovInv, GovTypeOK, TablesOK, FourEyes, Signed
<1>4. others \subseteq Vid
  OBVIOUS
<1> HIDE DEF others
<1>5. r \in TxRecord
  BY <1>1, <1>4 DEF TxRecord, Pcs
<1>6. r.put = tx[t].put /\ r.v = tx[t].v /\ r.actor = tx[t].actor /\ r.verdict = tx[t].verdict
      /\ r.locked = tx[t].locked /\ r.others = others /\ r.pc = "pause"
  BY <1>1 DEF TxRecord
<1> HIDE DEF r
<1>7. r.put = {} /\ r.v \in Vid /\ Asked(r) /\ r.verdict = "APPROVED" /\ r.locked
  BY <1>1, <1>2, <1>6 DEF TxOK, Asked
<1>8. TxOK(r)
  BY <1>3, <1>6, <1>7 DEF TxOK, Pausing
<1>9. QED
  BY <1>0, <1>2, <1>5, <1>6, <1>8, SamePutMoves

LEMMA PauseKeeps ==
  ASSUME GovInv, NEW t \in Txs, NEW w \in Vid, PauseOther(t, w)
  PROVE  GovInv'
<1> DEFINE r == [tx[t] EXCEPT !.others = @ \ {w}, !.put = Put(t, w, "PAUSED")]
<1>0. TxOpen(t)
  BY DEF PauseOther, TxOpen
<1>1. tx[t] \in TxRecord /\ TxOK(tx[t]) /\ tx \in [Txs -> TxRecord \cup {NoTx}]
  BY <1>0, OpenIsRecord DEF GovInv, GovTypeOK
<1>2. /\ tx' = [tx EXCEPT ![t] = r] /\ UNCHANGED govTables
      /\ tx[t].pc = "pause" /\ w \in tx[t].others /\ ~VersionLocked(t, w)
  BY <1>1 DEF PauseOther
<1>3. r.put = Put(t, w, "PAUSED") /\ r.v = tx[t].v /\ r.actor = tx[t].actor /\ r.verdict = tx[t].verdict
      /\ r.locked = tx[t].locked /\ r.others = tx[t].others \ {w} /\ r.pc = "pause"
  BY <1>1, <1>2 DEF TxRecord
<1>4. Put(t, w, "PAUSED") = tx[t].put \cup {[v |-> w, after |-> "PAUSED"]}
  BY DEF Put
<1>5. r \in TxRecord
  <2>1. Put(t, w, "PAUSED") \in SUBSET [v : Vid, after : Statuses]
    BY <1>1, <1>4 DEF TxRecord, Statuses
  <2>2. QED
    BY <1>1, <2>1 DEF TxRecord
<1> HIDE DEF r
<1>6. /\ r.v \in Vid /\ Asked(r) /\ r.verdict = "APPROVED" /\ r.locked
      /\ w # r.v /\ Signed(w) /\ Pausing(tx[t])
      /\ \A x \in tx[t].others : x # r.v /\ Signed(x)
      /\ \A a, b \in tx[t].put : a.v = b.v => a = b
  BY <1>1, <1>2, <1>3 DEF TxOK, Asked
<1>7. Pausing(r)
  BY <1>2, <1>3, <1>4, <1>6 DEF Pausing
<1>8. \A a, b \in r.put : a.v = b.v => a = b
  BY <1>2, <1>3, <1>4, <1>6 DEF Pausing
<1>9. TxOK(r)
  BY <1>3, <1>6, <1>7, <1>8 DEF TxOK
<1>10. QED
  BY <1>0, <1>2, <1>3, <1>5, <1>9, PutMoves

\* The unique index lets an activation through only when the transaction has
\* itself paused whatever else is ACTIVE, and no other has activated.
LEMMA ActivateKeeps ==
  ASSUME GovInv, NEW t \in Txs, Activate(t)
  PROVE  GovInv'
<1> DEFINE v == tx[t].v
           r == [tx[t] EXCEPT !.put = Put(t, v, "ACTIVE"), !.pc = "commit"]
<1>0. TxOpen(t)
  BY DEF Activate, TxOpen
<1>1. tx[t] \in TxRecord /\ TxOK(tx[t]) /\ tx \in [Txs -> TxRecord \cup {NoTx}]
  BY <1>0, OpenIsRecord DEF GovInv, GovTypeOK
<1>2. tx[t].pc = "activate" /\ ~VersionLocked(t, v) /\ ~IndexWaits(t)
  BY DEF Activate
<1>3. CASE ViolatesActiveIndex(t)
  BY <1>3, RollbackKeeps DEF Activate, Conflict
<1>4. CASE ~ViolatesActiveIndex(t)
  <2>1. tx' = [tx EXCEPT ![t] = r] /\ UNCHANGED govTables
    BY <1>1, <1>4 DEF Activate
  <2>2. /\ v \in Vid /\ Asked(tx[t]) /\ tx[t].verdict = "APPROVED" /\ tx[t].locked /\ Pausing(tx[t])
        /\ \A a, b \in tx[t].put : a.v = b.v => a = b
    BY <1>1, <1>2 DEF TxOK
  <2>3. Put(t, v, "ACTIVE") = tx[t].put \cup {[v |-> v, after |-> "ACTIVE"]}
    BY DEF Put
  <2>4. r.put = tx[t].put \cup {[v |-> v, after |-> "ACTIVE"]} /\ r.v = v /\ r.actor = tx[t].actor
        /\ r.verdict = tx[t].verdict /\ r.locked = tx[t].locked /\ r.pc = "commit"
    BY <1>1, <2>3 DEF TxRecord
  <2>5. r \in TxRecord
    <3>1. Put(t, v, "ACTIVE") \in SUBSET [v : Vid, after : Statuses]
      BY <1>1, <2>2, <2>3 DEF TxRecord, Statuses
    <3>2. QED
      BY <1>1, <3>1 DEF TxRecord, Pcs
  <2> HIDE DEF r
  <2>6. \A w \in Vid : w[1] = v[1] /\ status[w] = "ACTIVE" => \E a \in r.put : a.v = w
    <3> TAKE w \in Vid
    <3> HAVE w[1] = v[1] /\ status[w] = "ACTIVE"
    <3>1. w \in {v} \cup {p.v : p \in tx[t].put}
      BY <1>4 DEF ViolatesActiveIndex, Competing
    <3>2. CASE w = v
      <4>1. [v |-> v, after |-> "ACTIVE"] \in r.put
        BY <2>4
      <4>2. QED
        BY <3>2, <4>1
    <3>3. CASE \E p \in tx[t].put : p.v = w
      BY <2>4, <3>3
    <3>4. QED
      BY <3>1, <3>2, <3>3
  <2>7. Asked(r)
    BY <2>2, <2>4 DEF Asked
  <2>8. \A a \in r.put : a.v # r.v => a.after = "PAUSED" /\ Signed(a.v)
    BY <2>2, <2>4 DEF Pausing
  <2>9. Approves(r)
    BY <2>2, <2>4, <2>6, <2>7, <2>8 DEF Approves
  <2>10. \A a, b \in r.put : a.v = b.v => a = b
    BY <2>2, <2>4 DEF Pausing
  <2>11. TxOK(r)
    BY <2>2, <2>4, <2>9, <2>10 DEF TxOK
  <2>12. \A u \in Txs \ {t} : TxOpen(u) => \A b \in tx[u].put : b.after = "ACTIVE" => b.v[1] # v[1]
    <3> TAKE u \in Txs \ {t}
    <3> HAVE TxOpen(u)
    <3> TAKE b \in tx[u].put
    <3>1. u \in Others(t)
      BY DEF Others
    <3>2. b.v # v
      BY <1>2, <3>1 DEF VersionLocked
    <3>3. QED
      BY <1>2, <3>1, <3>2 DEF IndexWaits
  <2>13. QED
    BY <1>0, <1>2, <2>1, <2>3, <2>4, <2>5, <2>11, <2>12, PutMoves
<1>5. QED
  BY <1>3, <1>4

(* retireStrategyVersion *)

LEMMA RetireKeeps ==
  ASSUME GovInv, NEW t \in Txs, ReadRetired(t) \/ RetireVersion(t)
  PROVE  GovInv'
<1>0. TxOpen(t)
  BY DEF ReadRetired, RetireVersion, TxOpen
<1>1. tx[t] \in TxRecord /\ TxOK(tx[t]) /\ tx \in [Txs -> TxRecord \cup {NoTx}]
  BY <1>0, OpenIsRecord DEF GovInv, GovTypeOK
<1>2. CASE ReadRetired(t)
  <2> DEFINE r == [tx[t] EXCEPT !.pc = "retire"]
  <2>1. CASE status[tx[t].v] \in {"none", "RETIRED"}
    BY <1>2, <2>1, RollbackKeeps DEF ReadRetired
  <2>2. CASE status[tx[t].v] \notin {"none", "RETIRED"}
    <3>1. tx' = [tx EXCEPT ![t] = r] /\ UNCHANGED govTables /\ tx[t].pc = "readRetired"
      BY <1>1, <1>2, <2>2 DEF ReadRetired, Goto
    <3>2. r \in TxRecord
      BY <1>1 DEF TxRecord, Pcs
    <3>3. r.put = tx[t].put /\ r.v = tx[t].v /\ r.verdict = tx[t].verdict
          /\ r.locked = tx[t].locked /\ r.pc = "retire"
      BY <1>1 DEF TxRecord
    <3> HIDE DEF r
    <3>4. TxOK(r)
      BY <1>1, <2>2, <3>1, <3>3 DEF TxOK
    <3>5. QED
      BY <1>0, <3>1, <3>2, <3>3, <3>4, SamePutMoves
  <2>3. QED
    BY <2>1, <2>2
<1>3. CASE RetireVersion(t)
  <2> DEFINE v == tx[t].v
             r == [tx[t] EXCEPT !.put = Put(t, v, "RETIRED"), !.pc = "commit"]
  <2>1. /\ tx' = [tx EXCEPT ![t] = r] /\ UNCHANGED govTables /\ tx[t].pc = "retire"
        /\ ~VersionLocked(t, v)
    BY <1>1, <1>3 DEF RetireVersion
  <2>2. /\ tx[t].put = {} /\ v \in Vid /\ tx[t].verdict = "none" /\ ~tx[t].locked
        /\ status[v] # "none"
    BY <1>1, <2>1 DEF TxOK
  <2>3. Put(t, v, "RETIRED") = {[v |-> v, after |-> "RETIRED"]}
    BY <2>2 DEF Put
  <2>4. r.put = {[v |-> v, after |-> "RETIRED"]} /\ r.v = v /\ r.verdict = "none" /\ ~r.locked
        /\ r.pc = "commit"
    BY <1>1, <2>2, <2>3 DEF TxRecord
  <2>5. r \in TxRecord
    <3>1. Put(t, v, "RETIRED") \in SUBSET [v : Vid, after : Statuses]
      BY <2>2, <2>3 DEF Statuses
    <3>2. QED
      BY <1>1, <3>1 DEF TxRecord, Pcs
  <2> HIDE DEF r
  <2>6. TxOK(r)
    BY <2>2, <2>4 DEF TxOK, Retires
  <2>7. r.put = Put(t, v, "RETIRED")
    BY <2>3, <2>4
  <2> HIDE DEF v
  <2>8. QED
    BY <1>0, <2>1, <2>5, <2>6, <2>7, PutMoves
<1>4. QED
  BY <1>2, <1>3

(* The commit.  Of the four shapes only a registration writes a row that    *)
(* was not there, and only an approval makes one ACTIVE.                    *)

\* The facts about a commit that all of its consequences rest on.
LEMMA CommitFacts ==
  ASSUME GovInv, NEW t \in Txs, CommitTx(t)
  PROVE  /\ TxOpen(t) /\ tx[t] \in TxRecord /\ TxOK(tx[t]) /\ tx[t].v \in Vid
         /\ Registers(tx[t]) \/ Rejects(tx[t]) \/ Approves(tx[t]) \/ Retires(tx[t])
         /\ \A a \in tx[t].put : status'[a.v] = a.after
         /\ \A v \in Vid : (\A a \in tx[t].put : a.v # v) => status'[v] = status[v]
         /\ \A v \in Vid : v # tx[t].v => approval'[v] = approval[v] /\ signers'[v] = signers[v]
         /\ status' \in [Vid -> Statuses]
<1>1. tx[t].pc = "commit" /\ TxOpen(t)
  BY DEF CommitTx, TxOpen
<1>2. tx[t] \in TxRecord /\ TxOK(tx[t])
  BY <1>1, OpenIsRecord DEF GovInv
<1>3. /\ tx[t].v \in Vid /\ \A a, b \in tx[t].put : a.v = b.v => a = b
      /\ Registers(tx[t]) \/ Rejects(tx[t]) \/ Approves(tx[t]) \/ Retires(tx[t])
  BY <1>1, <1>2 DEF TxOK
<1>4. tx[t].put \subseteq [v : Vid, after : Statuses]
  BY <1>2 DEF TxRecord
<1>5. \A a \in tx[t].put : Written(t, a.v) /\ StatusAfter(t, a.v) = a.after
  <2> TAKE a \in tx[t].put
  <2>1. \A p \in tx[t].put : p.v = a.v => p = a
    BY <1>3
  <2>2. (CHOOSE p \in tx[t].put : p.v = a.v) = a
    BY <2>1
  <2>3. QED
    BY <2>2 DEF Written, StatusAfter
<1>6. status' = [v \in Vid |-> IF Written(t, v) THEN StatusAfter(t, v) ELSE status[v]]
  BY DEF CommitTx
<1>7. \A a \in tx[t].put : status'[a.v] = a.after
  BY <1>4, <1>5, <1>6
<1>8. \A v \in Vid : (\A a \in tx[t].put : a.v # v) => status'[v] = status[v]
  BY <1>6 DEF Written
<1>9. status' \in [Vid -> Statuses]
  <2>1. \A v \in Vid : status'[v] \in Statuses
    <3> TAKE v \in Vid
    <3>1. CASE \E a \in tx[t].put : a.v = v
      BY <1>4, <1>7, <3>1
    <3>2. CASE \A a \in tx[t].put : a.v # v
      BY <1>8, <3>2 DEF GovInv, GovTypeOK
    <3>3. QED
      BY <3>1, <3>2
  <2>2. QED
    BY <1>6, <2>1
<1>11. \A v \in Vid : v # tx[t].v => approval'[v] = approval[v] /\ signers'[v] = signers[v]
  BY <1>3 DEF CommitTx, GovInv, GovTypeOK
<1>12. QED
  BY <1>1, <1>2, <1>3, <1>7, <1>8, <1>9, <1>11

\* What the four shapes leave of the version's own rows.
LEMMA CommitShapes ==
  ASSUME GovInv, NEW t \in Txs, CommitTx(t), NEW r, r = tx[t]
  PROVE  /\ Registers(r) => /\ approval'[r.v] = [status |-> "PENDING", requestedBy |-> r.actor]
                            /\ signers'[r.v] = signers[r.v] /\ status'[r.v] = "DRAFT"
         /\ Rejects(r) => /\ approval'[r.v] = [approval[r.v] EXCEPT !.status = "REJECTED"]
                          /\ signers'[r.v] = signers[r.v] /\ status'[r.v] = status[r.v]
         /\ Approves(r) => /\ approval'[r.v] = [approval[r.v] EXCEPT !.status = "APPROVED"]
                           /\ signers'[r.v] = signers[r.v] \cup {r.actor} /\ status'[r.v] = "ACTIVE"
         /\ Retires(r) => /\ approval'[r.v] = approval[r.v]
                          /\ signers'[r.v] = signers[r.v] /\ status'[r.v] = "RETIRED"
<1>0. r.v \in Vid /\ approval \in [Vid -> [status : {"none", "PENDING"} \cup Decided, requestedBy : Operators \cup {Nobody}]]
      /\ signers \in [Vid -> SUBSET Operators]
  BY CommitFacts DEF GovInv, GovTypeOK
<1>1. /\ approval' = IF r.locked THEN [approval EXCEPT ![r.v] = Reviewed(t)] ELSE approval
      /\ signers' = IF r.verdict = "APPROVED" THEN [signers EXCEPT ![r.v] = @ \cup {r.actor}] ELSE signers
  BY DEF CommitTx
<1>2. ASSUME Registers(r)
      PROVE  /\ approval'[r.v] = [status |-> "PENDING", requestedBy |-> r.actor]
             /\ signers'[r.v] = signers[r.v] /\ status'[r.v] = "DRAFT"
  <2>1. [v |-> r.v, after |-> "DRAFT"] \in r.put
    BY <1>2 DEF Registers
  <2>2. status'[r.v] = "DRAFT"
    BY <2>1, CommitFacts
  <2>3. QED
    BY <1>0, <1>1, <1>2, <2>2 DEF Registers, Reviewed
<1>3. ASSUME Rejects(r)
      PROVE  /\ approval'[r.v] = [approval[r.v] EXCEPT !.status = "REJECTED"]
             /\ signers'[r.v] = signers[r.v] /\ status'[r.v] = status[r.v]
  <2>1. status'[r.v] = status[r.v]
    BY <1>0, <1>3, CommitFacts DEF Rejects
  <2>2. QED
    BY <1>0, <1>1, <1>3, <2>1 DEF Rejects, Reviewed
<1>4. ASSUME Approves(r)
      PROVE  /\ approval'[r.v] = [approval[r.v] EXCEPT !.status = "APPROVED"]
             /\ signers'[r.v] = signers[r.v] \cup {r.actor} /\ status'[r.v] = "ACTIVE"
  <2>1. [v |-> r.v, after |-> "ACTIVE"] \in r.put
    BY <1>4 DEF Approves
  <2>2. status'[r.v] = "ACTIVE"
    BY <2>1, CommitFacts
  <2>3. QED
    BY <1>0, <1>1, <1>4, <2>2 DEF Approves, Reviewed
<1>5. ASSUME Retires(r)
      PROVE  /\ approval'[r.v] = approval[r.v]
             /\ signers'[r.v] = signers[r.v] /\ status'[r.v] = "RETIRED"
  <2>1. [v |-> r.v, after |-> "RETIRED"] \in r.put
    BY <1>5 DEF Retires
  <2>2. status'[r.v] = "RETIRED"
    BY <2>1, CommitFacts
  <2>3. QED
    BY <1>0, <1>1, <1>5, <2>2 DEF Retires
<1>6. QED
  BY <1>2, <1>3, <1>4, <1>5

\* What a commit never takes back.
LEMMA CommitIsStable ==
  ASSUME GovInv, NEW t \in Txs, CommitTx(t)
  PROVE  \A v \in Vid :
           /\ status[v] # "none" => status'[v] # "none"
           /\ approval[v].status # "none" => /\ approval'[v].status # "none"
                                             /\ approval'[v].requestedBy = approval[v].requestedBy
           /\ signers[v] \subseteq signers'[v]
<1> TAKE v \in Vid
<1> DEFINE r == tx[t]
<1>0. /\ r \in TxRecord
      /\ approval[v] \in [status : {"none", "PENDING"} \cup Decided, requestedBy : Operators \cup {Nobody}]
      /\ (status[v] = "none") = (approval[v].status = "none")
  BY CommitFacts DEF GovInv, GovTypeOK, TablesOK
<1>1. status[v] # "none" => status'[v] # "none"
  <2>1. \A a \in r.put : a.after # "none"
    <3>1. Registers(r) \/ Rejects(r) \/ Approves(r) \/ Retires(r)
      BY CommitFacts
    <3>2. CASE Registers(r)
      BY <3>2 DEF Registers
    <3>3. CASE Rejects(r)
      BY <3>3 DEF Rejects
    <3>4. CASE Retires(r)
      BY <3>4 DEF Retires
    <3>5. CASE Approves(r)
      <4> TAKE a \in r.put
      <4>1. CASE a.v = r.v
        <5>1. a = [v |-> r.v, after |-> "ACTIVE"]
          BY <3>5, <4>1, CommitFacts DEF Approves, TxOK
        <5>2. QED
          BY <5>1
      <4>2. CASE a.v # r.v
        BY <3>5, <4>2 DEF Approves
      <4>3. QED
        BY <4>1, <4>2
    <3>6. QED
      BY <3>1, <3>2, <3>3, <3>4, <3>5
  <2>2. QED
    BY <2>1, CommitFacts
<1>2. CASE v # r.v
  BY <1>1, <1>2, CommitFacts
<1>3. CASE v = r.v
  <2>1. CASE Registers(r)
    <3>1. approval[v].status = "none"
      BY <1>0, <1>3, <2>1 DEF Registers
    <3>2. signers'[v] = signers[v]
      BY <1>3, <2>1, CommitShapes
    <3>3. QED
      BY <1>1, <3>1, <3>2
  <2>2. CASE Rejects(r)
    <3>1. approval'[v] = [approval[v] EXCEPT !.status = "REJECTED"] /\ signers'[v] = signers[v]
      BY <1>3, <2>2, CommitShapes
    <3>2. QED
      BY <1>0, <1>1, <3>1
  <2>3. CASE Approves(r)
    <3>1. approval'[v] = [approval[v] EXCEPT !.status = "APPROVED"] /\ signers'[v] = signers[v] \cup {r.actor}
      BY <1>3, <2>3, CommitShapes
    <3>2. QED
      BY <1>0, <1>1, <3>1
  <2>4. CASE Retires(r)
    BY <1>0, <1>1, <1>3, <2>4, CommitShapes
  <2>5. QED
    BY <2>1, <2>2, <2>3, <2>4, CommitFacts
<1>4. QED
  BY <1>2, <1>3

LEMMA CommitTypes ==
  ASSUME GovInv, NEW t \in Txs, CommitTx(t)
  PROVE  GovTypeOK'
<1> DEFINE r == tx[t]
<1>0. r \in TxRecord /\ r.v \in Vid /\ status' \in [Vid -> Statuses] /\ GovTypeOK
  BY CommitFacts DEF GovInv
<1>1. strategies' \subseteq Strategies
  BY <1>0 DEF GovTypeOK, CommitTx, TxRecord
<1>2. signers' \in [Vid -> SUBSET Operators]
  <2>1. r.actor \in Operators
    BY <1>0 DEF TxRecord
  <2>2. QED
    BY <1>0, <2>1 DEF GovTypeOK, CommitTx
<1>3. Reviewed(t) \in [status : {"none", "PENDING"} \cup Decided, requestedBy : Operators \cup {Nobody}]
  <2>1. r.actor \in Operators /\ r.verdict \in {"none", "PENDING"} \cup Decided
    BY <1>0 DEF TxRecord
  <2>2. approval[r.v] \in [status : {"none", "PENDING"} \cup Decided, requestedBy : Operators \cup {Nobody}]
    BY <1>0 DEF GovTypeOK
  <2>3. QED
    BY <2>1, <2>2 DEF Reviewed
<1>4. approval' \in [Vid -> [status : {"none", "PENDING"} \cup Decided, requestedBy : Operators \cup {Nobody}]]
  BY <1>0, <1>3 DEF GovTypeOK, CommitTx
<1>5. tx' \in [Txs -> TxRecord \cup {NoTx}]
  BY <1>0 DEF GovTypeOK, CommitTx
<1>6. QED
  BY <1>0, <1>1, <1>2, <1>4, <1>5 DEF GovTypeOK

\* Only an approval makes a version ACTIVE, and it has paused the others.
LEMMA CommitSingleActive ==
  ASSUME GovInv, NEW t \in Txs, CommitTx(t)
  PROVE  SingleActive'
<1> DEFINE r == tx[t]
<1>1. ASSUME NEW v \in Vid, status'[v] = "ACTIVE"
      PROVE  \/ status[v] = "ACTIVE" /\ \A a \in r.put : a.v # v
             \/ Approves(r) /\ v = r.v
  <2>1. CASE \A a \in r.put : a.v # v
    BY <1>1, <2>1, CommitFacts
  <2>2. CASE \E a \in r.put : a.v = v
    <3>1. PICK a \in r.put : a.v = v
      BY <2>2
    <3>2. a.after = "ACTIVE"
      BY <1>1, <3>1, CommitFacts
    <3>3. QED
      BY <3>1, <3>2, CommitFacts DEF Registers, Rejects, Approves, Retires
  <2>3. QED
    BY <2>1, <2>2
<1>2. SUFFICES ASSUME NEW v \in Vid, NEW w \in Vid, v[1] = w[1], status'[v] = "ACTIVE", status'[w] = "ACTIVE"
               PROVE  v = w
  BY DEF SingleActive
<1>3. CASE status[v] = "ACTIVE" /\ status[w] = "ACTIVE"
  BY <1>2, <1>3 DEF GovInv, TablesOK, SingleActive
<1>4. CASE Approves(r) /\ v = r.v
  BY <1>1, <1>2, <1>4 DEF Approves
<1>5. CASE Approves(r) /\ w = r.v
  BY <1>1, <1>2, <1>5 DEF Approves
<1>6. QED
  BY <1>1, <1>2, <1>3, <1>4, <1>5

LEMMA CommitTables ==
  ASSUME GovInv, NEW t \in Txs, CommitTx(t)
  PROVE  TablesOK'
<1> DEFINE r == tx[t]
<1>0. /\ \A v \in Vid : approval[v] \in [status : {"none", "PENDING"} \cup Decided, requestedBy : Operators \cup {Nobody}]
      /\ \A v \in Vid : (status[v] = "none") = (approval[v].status = "none")
      /\ FourEyes /\ DecisionIsWhole
  BY DEF GovInv, GovTypeOK, TablesOK
\* a row that is written and not the version's own is being paused
<1>1. \A v \in Vid \ {r.v} :
        \/ status'[v] = status[v]
        \/ status'[v] = "PAUSED" /\ Signed(v)
  <2> TAKE v \in Vid \ {r.v}
  <2>1. CASE \A a \in r.put : a.v # v
    BY <2>1, CommitFacts
  <2>2. CASE \E a \in r.put : a.v = v
    <3>1. PICK a \in r.put : a.v = v
      BY <2>2
    <3>2. a.after = "PAUSED" /\ Signed(a.v)
      <4>1. Registers(r) \/ Rejects(r) \/ Approves(r) \/ Retires(r)
        BY CommitFacts
      <4>2. ~Registers(r) /\ ~Rejects(r) /\ ~Retires(r)
        BY <3>1 DEF Registers, Rejects, Retires
      <4>3. QED
        BY <3>1, <4>1, <4>2 DEF Approves
    <3>3. QED
      BY <3>1, <3>2, CommitFacts
  <2>3. QED
    BY <2>1, <2>2
<1>2. \A v \in Vid : (status'[v] = "none") = (approval'[v].status = "none")
  <2> TAKE v \in Vid
  <2>1. CASE v # r.v
    BY <1>0, <1>1, <2>1, CommitFacts DEF Signed
  <2>2. CASE v = r.v /\ Registers(r)
    <3>1. status'[v] = "DRAFT" /\ approval'[v] = [status |-> "PENDING", requestedBy |-> r.actor]
      BY <2>2, CommitShapes
    <3>2. QED
      BY <3>1
  <2>3. CASE v = r.v /\ Rejects(r)
    <3>1. /\ approval'[v] = [approval[v] EXCEPT !.status = "REJECTED"]
          /\ status'[v] = status[v]
      BY <2>3, CommitShapes
    <3>2. status[v] # "none"
      BY <1>0, <2>3 DEF Rejects, Asked
    <3>3. approval'[v].status = "REJECTED"
      BY <1>0, <3>1
    <3>4. QED
      BY <3>1, <3>2, <3>3
  <2>4. CASE v = r.v /\ Approves(r)
    BY <1>0, <2>4, CommitShapes
  <2>5. CASE v = r.v /\ Retires(r)
    BY <1>0, <2>5, CommitShapes DEF Retires
  <2>6. QED
    BY <2>1, <2>2, <2>3, <2>4, <2>5, CommitFacts
<1>3. FourEyes'
  <2> SUFFICES ASSUME NEW v \in Vid, status'[v] \in {"ACTIVE", "PAUSED"}
               PROVE  signers'[v] \ {approval'[v].requestedBy} # {}
    BY DEF FourEyes
  <2>0. ASSUME Signed(v) PROVE signers'[v] \ {approval'[v].requestedBy} # {}
    BY <2>0, CommitIsStable DEF Signed
  <2>1. CASE v # r.v
    BY <1>0, <1>1, <2>0, <2>1 DEF Signed, FourEyes
  <2>2. CASE v = r.v /\ Registers(r)
    BY <2>2, CommitShapes
  <2>3. CASE v = r.v /\ Rejects(r)
    BY <1>0, <2>0, <2>3, CommitShapes DEF Rejects, Asked, Signed, FourEyes
  <2>4. CASE v = r.v /\ Approves(r)
    <3>1. /\ approval'[v] = [approval[v] EXCEPT !.status = "APPROVED"]
          /\ signers'[v] = signers[v] \cup {r.actor}
      BY <2>4, CommitShapes
    <3>2. approval'[v].requestedBy # r.actor
      BY <1>0, <2>4, <3>1 DEF Approves, Asked
    <3>3. QED
      BY <3>1, <3>2
  <2>5. CASE v = r.v /\ Retires(r)
    BY <2>5, CommitShapes
  <2>6. QED
    BY <2>1, <2>2, <2>3, <2>4, <2>5, CommitFacts
<1>4. DecisionIsWhole'
  <2> SUFFICES ASSUME NEW v \in Vid
               PROVE  /\ approval'[v].status = "APPROVED" \/ signers'[v] # {} =>
                           status'[v] \in {"ACTIVE", "PAUSED", "RETIRED"}
                      /\ status'[v] \in {"ACTIVE", "PAUSED"} \/ signers'[v] # {} =>
                           approval'[v].status \in Decided
    BY DEF DecisionIsWhole
  <2>0. /\ approval[v].status = "APPROVED" \/ signers[v] # {} =>
             status[v] \in {"ACTIVE", "PAUSED", "RETIRED"}
        /\ status[v] \in {"ACTIVE", "PAUSED"} \/ signers[v] # {} =>
             approval[v].status \in Decided
    BY <1>0 DEF DecisionIsWhole
  <2>1. CASE v # r.v
    <3>1. approval'[v] = approval[v] /\ signers'[v] = signers[v]
      BY <2>1, CommitFacts
    <3>2. CASE status'[v] = status[v]
      BY <2>0, <3>1, <3>2
    <3>3. CASE status'[v] = "PAUSED" /\ Signed(v)
      BY <2>0, <3>1, <3>3 DEF Signed
    <3> QED
      BY <1>1, <2>1, <3>2, <3>3
  <2>2. CASE v = r.v /\ Registers(r)
    <3>1. /\ approval'[v] = [status |-> "PENDING", requestedBy |-> r.actor]
          /\ signers'[v] = signers[v] /\ status'[v] = "DRAFT" /\ status[v] = "none"
      BY <2>2, CommitShapes DEF Registers
    <3> QED
      BY <2>0, <3>1
  <2>3. CASE v = r.v /\ Rejects(r)
    <3>1. /\ approval'[v] = [approval[v] EXCEPT !.status = "REJECTED"]
          /\ signers'[v] = signers[v] /\ status'[v] = status[v]
      BY <2>3, CommitShapes
    <3>2. approval'[v].status = "REJECTED"
      BY <1>0, <3>1
    <3> QED
      BY <2>0, <3>1, <3>2 DEF Decided
  <2>4. CASE v = r.v /\ Approves(r)
    <3>1. approval'[v] = [approval[v] EXCEPT !.status = "APPROVED"] /\ status'[v] = "ACTIVE"
      BY <2>4, CommitShapes
    <3>2. approval'[v].status = "APPROVED"
      BY <1>0, <3>1
    <3> QED
      BY <3>1, <3>2 DEF Decided
  <2>5. CASE v = r.v /\ Retires(r)
    <3>1. approval'[v] = approval[v] /\ signers'[v] = signers[v] /\ status'[v] = "RETIRED"
      BY <2>5, CommitShapes
    <3> QED
      BY <2>0, <3>1
  <2>6. QED
    BY <2>1, <2>2, <2>3, <2>4, <2>5, CommitFacts
<1>6. QED
  BY <1>2, <1>3, <1>4, CommitSingleActive DEF TablesOK

\* What another open transaction relies on survives the commit.
LEMMA CommitLeavesOthers ==
  ASSUME GovInv, NEW t \in Txs, CommitTx(t), NEW u \in Txs \ {t}, TxOpen(u)
  PROVE  TxOK(tx[u])'
<1> DEFINE q == tx[u]
<1>0. tx'[u] = q /\ TxOK(q) /\ q \in TxRecord /\ Apart(tx[t], q)
  BY CommitFacts, OpenIsRecord DEF CommitTx, GovInv, GovTypeOK
<1>1. \A w \in Vid : Signed(w) => Signed(w)'
  BY CommitIsStable DEF Signed
<1>2. q.v \in Vid /\ Asked(q) => Asked(q)'
  BY <1>0, CommitIsStable DEF Asked
<1>3. \A a \in q.put : a.v \in Vid
  BY <1>0 DEF TxRecord
<1>4. q.others \subseteq Vid
  BY <1>0 DEF TxRecord
<1>5. q.v \in Vid /\ status[q.v] # "none" => status'[q.v] # "none"
  BY CommitIsStable
<1>6. Pausing(q) => Pausing(q)'
  BY <1>0, <1>1, <1>3 DEF Pausing
<1>7. q.v \in Vid /\ Registers(q) => Registers(q)'
  <2> SUFFICES ASSUME q.v \in Vid, Registers(q) PROVE status'[q.v] = "none"
    BY <1>0 DEF Registers
  <2>1. [v |-> q.v, after |-> "DRAFT"] \in q.put
    BY DEF Registers
  <2>2. \A a \in tx[t].put : a.v # q.v
    BY <1>0, <2>1 DEF Apart
  <2>3. QED
    BY <2>2, CommitFacts DEF Registers
<1>8. q.v \in Vid /\ Rejects(q) => Rejects(q)'
  BY <1>0, <1>2 DEF Rejects
<1>9. q.v \in Vid /\ Retires(q) => Retires(q)'
  BY <1>0, <1>5 DEF Retires
<1>10. q.v \in Vid /\ Approves(q) => Approves(q)'
  <2> SUFFICES ASSUME q.v \in Vid, Approves(q) PROVE Approves(q)'
    OBVIOUS
  <2>1. \A w \in Vid : w[1] = q.v[1] /\ status'[w] = "ACTIVE" => \E a \in q.put : a.v = w
    <3> TAKE w \in Vid
    <3> HAVE w[1] = q.v[1] /\ status'[w] = "ACTIVE"
    <3>1. status[w] = "ACTIVE"
      <4>1. ASSUME NEW a \in tx[t].put, a.v = w PROVE FALSE
        <5>1. a.after = "ACTIVE"
          BY <4>1, CommitFacts
        <5>2. [v |-> q.v, after |-> "ACTIVE"] \in q.put
          BY DEF Approves
        <5>3. QED
          BY <1>0, <4>1, <5>1, <5>2 DEF Apart
      <4>2. QED
        BY <4>1, CommitFacts
    <3>2. QED
      BY <3>1 DEF Approves
  <2>2. \A a \in q.put : a.v # q.v => a.after = "PAUSED" /\ Signed(a.v)'
    BY <1>1, <1>3 DEF Approves
  <2>3. QED
    BY <1>0, <1>2, <2>1, <2>2 DEF Approves
<1>11. \A w \in q.others : Signed(w) => Signed(w)'
  BY <1>1, <1>4
<1> HIDE DEF q
<1>12. QED
  BY <1>0, <1>2, <1>5, <1>6, <1>7, <1>8, <1>9, <1>10, <1>11 DEF TxOK, q

LEMMA CommitKeeps ==
  ASSUME GovInv, NEW t \in Txs, CommitTx(t)
  PROVE  GovInv'
<1>1. \A u \in Txs : TxOpen(u)' => u # t /\ TxOpen(u) /\ tx'[u] = tx[u]
  BY DEF CommitTx, TxOpen, NoTx, GovInv, GovTypeOK
<1>2. \A u \in Txs : TxOpen(u)' => TxOK(tx[u])'
  BY <1>1, CommitLeavesOthers
<1>3. \A u, w \in Txs : u # w /\ TxOpen(u)' /\ TxOpen(w)' => Apart(tx[u], tx[w])'
  BY <1>1 DEF GovInv, Apart
<1>4. QED
  BY <1>2, <1>3, CommitTypes, CommitTables DEF GovInv

LEMMA GovStart == GovInit => GovInv
<1> SUFFICES ASSUME GovInit PROVE GovInv
  OBVIOUS
<1>1. GovTypeOK
  BY DEF GovInit, GovTypeOK, Statuses
<1>2. TablesOK
  BY DEF GovInit, TablesOK, SingleActive, FourEyes, DecisionIsWhole
<1>3. \A t \in Txs : ~TxOpen(t)
  BY DEF GovInit, TxOpen, NoTx
<1>4. QED
  BY <1>1, <1>2, <1>3 DEF GovInv

LEMMA GovStep == GovInv /\ [GovNext]_govVars => GovInv'
<1> SUFFICES ASSUME GovInv, [GovNext]_govVars PROVE GovInv'
  OBVIOUS
<1>1. ASSUME NEW t \in Txs, TxStep(t) PROVE GovInv'
  BY <1>1, RegisterKeeps, ReadsKeep, FindActiveKeeps, PauseKeeps, ActivateKeeps, RetireKeeps, CommitKeeps DEF TxStep
<1>2. ASSUME NEW t \in Txs, AbortTx(t) PROVE GovInv'
  BY <1>2, RollbackKeeps DEF AbortTx
<1>3. ASSUME NEW t \in Txs, NEW o \in Operators, NEW s \in Strategies, RegisterStart(t, o, s) PROVE GovInv'
  <2>1. <<s, 0>> \in Strategies \X (0..MaxVersion)
    BY GovernanceAssumption
  <2>2. Begin(t, "findStrategy", o, <<s, 0>>, "none")
    BY <1>3 DEF RegisterStart
  <2>3. QED
    BY <2>1, <2>2, BeginKeeps DEF Decided
<1>4. ASSUME NEW t \in Txs, NEW o \in Operators, NEW v \in Vid, NEW d \in Decided, ReviewStart(t, o, v, d) PROVE GovInv'
  <2>1. Begin(t, "readApproval", o, v, d)
    BY <1>4 DEF ReviewStart
  <2>2. QED
    BY <2>1, BeginKeeps, VersionsOfVid
<1>5. ASSUME NEW t \in Txs, NEW o \in Operators, NEW v \in Vid, RetireStart(t, o, v) PROVE GovInv'
  <2>1. Begin(t, "readRetired", o, v, "none")
    BY <1>5 DEF RetireStart
  <2>2. QED
    BY <2>1, BeginKeeps, VersionsOfVid DEF Decided
<1>6. CASE UNCHANGED govVars
  <2>1. GovTypeOK' /\ TablesOK'
    BY <1>6 DEF govVars, GovInv, GovTypeOK, TablesOK, SingleActive, FourEyes, DecisionIsWhole
  <2>2. \A u \in Txs : (TxOpen(u)' <=> TxOpen(u)) /\ (TxOK(tx[u])' <=> TxOK(tx[u]))
    BY <1>6 DEF govVars, TxOpen, TxOK, Asked, Pausing, Signed, Registers, Rejects, Approves, Retires
  <2>3. \A u, w \in Txs : Apart(tx[u], tx[w])' <=> Apart(tx[u], tx[w])
    BY <1>6 DEF govVars, Apart
  <2>4. QED
    BY <2>1, <2>2, <2>3 DEF GovInv
<1>7. QED
  BY <1>1, <1>2, <1>3, <1>4, <1>5, <1>6 DEF GovNext

\* For any strategies, operators and number of transactions open at once, and
\* whatever statements of theirs interleave or are rolled back, the registry
\* has at most one ACTIVE version per strategy, approved by somebody other
\* than who asked, no approval without its activation and no activation
\* without a decision (governance-actions.ts).
THEOREM RegistryIsSound == GovSpec => []RegistrySound
<1>1. GovInv => RegistrySound
  BY DEF GovInv, TablesOK, RegistrySound
<1>2. QED
  BY <1>1, GovStart, GovStep, PTL DEF GovSpec

-----------------------------------------------------------------------------
(* The signal stream.  What lies behind the client's cursor has been seen,   *)
(* what lies between it and the server's cursor is on the wire, in order,    *)
(* and the page the server has read takes up where that ends; only a row     *)
(* that was committed late may be missing from all three.                    *)

Rising(s) == \A j, k \in DOMAIN s : j < k => s[j] < s[k]
Covers(s, S) == \A r \in S : \E k \in DOMAIN s : s[k] = r

\* A set of positions can be put in order, one after another from the smallest.
LEMMA OrderExists ==
  ASSUME NEW m \in Nat
  PROVE  \A S \in SUBSET (1..m) :
           /\ IsFiniteSet(S) /\ Cardinality(S) \in Nat
           /\ \E s \in [1..Cardinality(S) -> S] : Covers(s, S) /\ Rising(s)
<1> DEFINE P(n) == \A S \in SUBSET (1..n) :
                     /\ IsFiniteSet(S) /\ Cardinality(S) \in Nat
                     /\ \E s \in [1..Cardinality(S) -> S] : Covers(s, S) /\ Rising(s)
           T == {n \in Nat : ~P(n)}
<1>1. SUFFICES ASSUME T # {} PROVE FALSE
  OBVIOUS
<1>2. PICK n \in T : \A i \in T : n <= i
  <2>1. T \in SUBSET Nat
    OBVIOUS
  <2> HIDE DEF T
  <2> QED
    BY <2>1, <1>1, LeastNumber
<1>3. n # 0
  <2>1. ASSUME NEW S \in SUBSET (1..0)
        PROVE  /\ IsFiniteSet(S) /\ Cardinality(S) \in Nat
               /\ \E s \in [1..Cardinality(S) -> S] : Covers(s, S) /\ Rising(s)
    <3>1. S = {} /\ 1..0 = {}
      OBVIOUS
    <3>2. Cardinality(S) = 0 /\ IsFiniteSet(S)
      BY <3>1, FS_EmptySet
    <3> DEFINE s == [i \in 1..0 |-> 0]
    <3>3. s \in [1..0 -> S] /\ DOMAIN s = {}
      BY <3>1
    <3>4. Covers(s, S) /\ Rising(s)
      BY <3>1, <3>3 DEF Covers, Rising
    <3> HIDE DEF s
    <3>5. \E x \in [1..0 -> S] : Covers(x, S) /\ Rising(x)
      BY <3>3, <3>4
    <3>6. Cardinality(S) \in Nat
      BY <3>2
    <3> QED
      BY <3>2, <3>5, <3>6, Zenon
  <2> QED
    BY <2>1, <1>2
<1>4. n - 1 \in Nat /\ n \in Nat /\ P(n - 1)
  <2>1. n \in Nat /\ n - 1 \in Nat /\ ~(n <= n - 1)
    BY <1>2, <1>3
  <2>2. n - 1 \notin T
    BY <2>1, <1>2
  <2> HIDE DEF P
  <2> QED
    BY <2>1, <2>2
<1>5. ASSUME NEW S \in SUBSET (1..n)
      PROVE  /\ IsFiniteSet(S) /\ Cardinality(S) \in Nat
             /\ \E s \in [1..Cardinality(S) -> S] : Covers(s, S) /\ Rising(s)
  <2> DEFINE R == S \ {n}
  <2>1. R \in SUBSET (1..(n - 1)) /\ n \notin R
    BY <1>4
  <2>2. IsFiniteSet(R) /\ Cardinality(R) \in Nat
    BY <2>1, <1>4
  <2>3. PICK s \in [1..Cardinality(R) -> R] : Covers(s, R) /\ Rising(s)
    BY <2>1, <1>4
  <2>4. CASE n \notin S
    BY <2>2, <2>3, <2>4
  <2>5. CASE n \in S
    <3> DEFINE c == Cardinality(R)
               t == [k \in 1..(c + 1) |-> IF k = c + 1 THEN n ELSE s[k]]
    <3>1. S = R \cup {n}
      BY <2>5
    <3> HIDE DEF R
    <3>2. IsFiniteSet(S) /\ Cardinality(S) = c + 1
      BY <2>1, <2>2, <3>1, FS_AddElement
    <3> HIDE DEF c
    <3>3. c \in Nat /\ s \in [1..c -> R]
      BY <2>2, <2>3 DEF c
    <3>4. /\ DOMAIN t = 1..(c + 1) /\ t[c + 1] = n
          /\ \A k \in 1..c : k \in 1..(c + 1) /\ t[k] = s[k] /\ s[k] \in R
          /\ \A k \in 1..(c + 1) : k \in 1..c \/ k = c + 1
      <4>1. c + 1 \in 1..(c + 1) /\ \A k \in 1..c : k \in 1..(c + 1) /\ k # c + 1
        BY <3>3
      <4>2. \A k \in 1..(c + 1) : k \in 1..c \/ k = c + 1
        BY <3>3
      <4>3. \A k \in 1..c : s[k] \in R
        BY <3>3
      <4> QED
        BY <4>1, <4>2, <4>3
    <3> HIDE DEF t
    <3>5. t = [k \in 1..(c + 1) |-> t[k]]
      BY DEF t
    <3>6. t \in [1..(c + 1) -> S]
      BY <3>1, <3>4, <3>5
    <3>7. Covers(t, S)
      <4>1. \A r \in R : \E k \in 1..c : s[k] = r
        BY <2>3, <3>3 DEF Covers
      <4>2. c + 1 \in 1..(c + 1)
        BY <3>3
      <4> QED
        BY <4>1, <4>2, <3>1, <3>4 DEF Covers
    <3>8. Rising(t)
      <4>1. SUFFICES ASSUME NEW j \in 1..(c + 1), NEW k \in 1..(c + 1), j < k
                     PROVE  t[j] < t[k]
        BY <3>4 DEF Rising
      <4>2. j \in 1..c
        BY <4>1, <3>3
      <4>3. CASE k \in 1..c
        BY <4>1, <4>2, <4>3, <2>3, <3>3, <3>4 DEF Rising
      <4>4. CASE k = c + 1
        <5>1. t[j] \in R /\ t[k] = n
          BY <4>2, <4>4, <3>4
        <5>2. t[j] \in 1..(n - 1)
          BY <5>1, <2>1
        <5> QED
          BY <5>1, <5>2, <1>4
      <4> QED
        BY <4>3, <4>4, <3>4
    <3> QED
      BY <3>2, <3>3, <3>6, <3>7, <3>8
  <2> QED
    BY <2>4, <2>5
<1>6. P(n)
  BY <1>5
<1> QED
  BY <1>2, <1>6

Ranges(s, S) ==
  /\ s \in Seq(Nat) /\ DOMAIN s = 1..Len(s) /\ Len(s) = Cardinality(S)
  /\ \A k \in DOMAIN s : s[k] \in S
  /\ Covers(s, S) /\ Rising(s)

\* Ascending is what its name says.
LEMMA AscendingIs ==
  ASSUME NEW S \in SUBSET RowPositions
  PROVE  IsFiniteSet(S) /\ Ranges(Ascending(S), S)
<1> DEFINE n == Cardinality(S)
           s == Ascending(S)
<1>1. /\ IsFiniteSet(S) /\ n \in Nat
      /\ \E x \in [1..n -> S] : Covers(x, S) /\ Rising(x)
  BY OrderExists, StreamAssumption DEF RowPositions
<1>2. s \in [1..n -> S] /\ Covers(s, S) /\ Rising(s)
  BY <1>1 DEF Ascending, Covers, Rising
<1> HIDE DEF s, n
<1>3. S \subseteq Nat
  BY StreamAssumption DEF RowPositions
<1>4. s \in [1..n -> Nat] /\ DOMAIN s = 1..n /\ \A k \in 1..n : s[k] \in S
  BY <1>2, <1>3
<1>5. s \in Seq(Nat) /\ Len(s) = n
  BY <1>1, <1>4, SeqDef, LenProperties
<1> QED
  BY <1>1, <1>2, <1>4, <1>5 DEF Ranges, s, n

\* So a set of positions that is not empty has a first and a last one.
LEMMA EndsOf ==
  ASSUME NEW S \in SUBSET RowPositions, S # {}
  PROVE  LET s == Ascending(S) IN
         /\ Len(s) \in Nat \ {0}
         /\ s[Len(s)] \in S /\ \A q \in S : q <= s[Len(s)]
         /\ s[1] \in S /\ \A q \in S : s[1] <= q
<1> DEFINE s == Ascending(S)
<1>1. IsFiniteSet(S) /\ Ranges(s, S)
  BY AscendingIs
<1> HIDE DEF s
<1>2. Len(s) \in Nat /\ DOMAIN s = 1..Len(s) /\ (\A k \in DOMAIN s : s[k] \in S /\ s[k] \in Nat)
      /\ Covers(s, S) /\ Rising(s)
  BY <1>1, StreamAssumption DEF Ranges, RowPositions
<1>3. Len(s) # 0
  BY <1>2 DEF Covers
<1>4. 1 \in DOMAIN s /\ Len(s) \in DOMAIN s
  BY <1>2, <1>3
<1>5. ASSUME NEW q \in S
      PROVE  q <= s[Len(s)] /\ s[1] <= q
  <2>1. PICK k \in DOMAIN s : s[k] = q
    BY <1>2 DEF Covers
  <2>2. k = Len(s) \/ s[k] < s[Len(s)]
    BY <2>1, <1>2, <1>4 DEF Rising
  <2>3. k = 1 \/ s[1] < s[k]
    BY <2>1, <1>2, <1>4 DEF Rising
  <2> QED
    BY <2>1, <2>2, <2>3, <1>2, <1>4
<1> QED
  BY <1>2, <1>3, <1>4, <1>5 DEF s

LEMMA SmallerSet ==
  ASSUME NEW S, IsFiniteSet(S), NEW T, T \subseteq S
  PROVE  Cardinality(T) \in Nat /\ Cardinality(S) \in Nat /\ Cardinality(T) <= Cardinality(S)
  BY FS_Subset, FS_CardinalityType

\* With a row the newest ones include every later row, the oldest every earlier one.
LEMMA PagesHaveNoHoles ==
  ASSUME NEW S \in SUBSET RowPositions, NEW n \in Nat, NEW r \in S, NEW p \in S
  PROVE  /\ p \in NewestOf(S, n) /\ p <= r => r \in NewestOf(S, n)
         /\ p \in OldestOf(S, n) /\ r <= p => r \in OldestOf(S, n)
<1>1. IsFiniteSet(S) /\ S \subseteq Nat
  BY AscendingIs, StreamAssumption DEF RowPositions
<1> DEFINE above(x) == {q \in S : q > x}
           below(x) == {q \in S : q < x}
<1>2. ASSUME p <= r
      PROVE  /\ Cardinality(above(r)) \in Nat /\ Cardinality(above(p)) \in Nat
             /\ Cardinality(above(r)) <= Cardinality(above(p))
  <2>1. above(r) \subseteq above(p)
    <3>1. \A q \in S : q > r => q > p
      BY <1>1, <1>2
    <3> QED
      BY <3>1
  <2>2. IsFiniteSet(above(p))
    BY <1>1, FS_Subset
  <2> HIDE DEF above
  <2> QED
    BY <2>1, <2>2, SmallerSet
<1>3. ASSUME r <= p
      PROVE  /\ Cardinality(below(r)) \in Nat /\ Cardinality(below(p)) \in Nat
             /\ Cardinality(below(r)) <= Cardinality(below(p))
  <2>1. below(r) \subseteq below(p)
    <3>1. \A q \in S : q < r => q < p
      BY <1>1, <1>3
    <3> QED
      BY <3>1
  <2>2. IsFiniteSet(below(p))
    BY <1>1, FS_Subset
  <2> HIDE DEF below
  <2> QED
    BY <2>1, <2>2, SmallerSet
<1>4. ASSUME p \in NewestOf(S, n), p <= r PROVE r \in NewestOf(S, n)
  <2>1. Cardinality(above(p)) < n
    BY <1>4 DEF NewestOf
  <2>2. Cardinality(above(r)) < n
    <3> HIDE DEF above
    <3> QED
      BY <2>1, <1>2, <1>4
  <2> QED
    BY <2>2 DEF NewestOf
<1>5. ASSUME p \in OldestOf(S, n), r <= p PROVE r \in OldestOf(S, n)
  <2>1. Cardinality(below(p)) < n
    BY <1>5 DEF OldestOf
  <2>2. Cardinality(below(r)) < n
    <3> HIDE DEF below
    <3> QED
      BY <2>1, <1>3, <1>5
  <2> QED
    BY <2>2 DEF OldestOf
<1> QED
  BY <1>4, <1>5

-----------------------------------------------------------------------------
Sessions == [open : {TRUE}, pc : {"backlog", "idle", "send"}, at : Nat, page : SUBSET RowPositions]

StreamTypeOK ==
  /\ begun \subseteq RowPositions /\ rows \subseteq begun
  /\ session \in {NoSession} \cup Sessions
  /\ wire \in Seq(Nat) /\ cursor \in Nat /\ base \in Nat

\* The client's side: what lies behind its cursor c, in the rows R, has been seen.
SeenTo(c, b, sn, R, L) ==
  /\ c # 0 => c \in R
  /\ \A r \in sn : r \in Nat /\ r <= c
  /\ \A r \in R : b <= r /\ r <= c => r \in sn \cup L

\* The wire continues from the client's cursor c to the server's, a.
Carries(w, c, a, b, R, L) ==
  /\ a # 0 => a \in R
  /\ w = <<>> => a = c
  /\ w # <<>> => a = w[Len(w)]
  /\ Rising(w) /\ \A k \in DOMAIN w : w[k] \in R /\ c < w[k]
  /\ \A r \in R : b <= r /\ c < r /\ r <= a => r \in L \/ \E k \in DOMAIN w : w[k] = r

\* The page continues from the server's cursor.
Continues(page, a, R, L) ==
  /\ page # {} /\ page \subseteq R /\ \A r \in page : a < r
  /\ \A r \in R, p \in page : a < r /\ r <= p => r \in page \cup L

StreamInv ==
  /\ StreamTypeOK
  /\ session.open <=> es = "open"
  /\ ~session.open => wire = <<>>
  /\ SeenTo(cursor, base, seen, rows, late)
  /\ es \in {"new", "loading"} => cursor = 0
  /\ session.open =>
       /\ Carries(wire, cursor, session.at, base, rows, late)
       /\ session.pc = "backlog" => wire = <<>> /\ session.at = 0 /\ cursor = 0
       /\ session.pc = "send" => Continues(session.page, session.at, rows, late)

LEMMA StreamInvIsExact == StreamInv => StreamExact
<1> SUFFICES ASSUME StreamInv PROVE StreamExact
  OBVIOUS
<1>1. NoGap
  BY DEF StreamInv, SeenTo, NoGap
<1>2. wire \in Seq(Nat) /\ cursor \in Nat /\ DOMAIN wire = 1..Len(wire) /\ Len(wire) \in Nat
      /\ \A k \in DOMAIN wire : wire[k] \in Nat
  BY DEF StreamInv, StreamTypeOK
<1>3. NoRedelivery
  <2>1. CASE wire = <<>>
    BY <2>1 DEF NoRedelivery
  <2>2. CASE wire # <<>>
    <3>1. Rising(wire) /\ (\A k \in DOMAIN wire : cursor < wire[k]) /\ (\A r \in seen : r <= cursor)
      BY <2>2 DEF StreamInv, Carries, SeenTo
    <3>2. ASSUME NEW k \in DOMAIN wire PROVE wire[k] \notin seen
      BY <3>1, <1>2
    <3>3. ASSUME NEW j \in DOMAIN wire, NEW k \in DOMAIN wire, wire[j] = wire[k] PROVE j = k
      <4>1. ~(j < k) /\ ~(k < j)
        BY <3>1, <3>3, <1>2 DEF Rising
      <4> QED
        BY <4>1, <1>2
    <3> QED
      BY <3>2, <3>3 DEF NoRedelivery
  <2> QED
    BY <2>1, <2>2
<1> QED
  BY <1>1, <1>3 DEF StreamExact

LEMMA StreamInvInit == StreamInit => StreamInv
  BY DEF StreamInit, StreamInv, StreamTypeOK, NoSession, SeenTo

\* A row that is committed where a cursor has passed already is late.
LEMMA RowCommits ==
  ASSUME NEW R \in SUBSET (Nat \ {0}), NEW L, NEW r \in Nat \ {0},
         NEW R2, R2 = R \cup {r}, NEW L2,
         L2 = IF \E q \in R : q > r THEN L \cup {r} ELSE L,
         r \notin R,
         NEW c \in Nat, NEW b \in Nat, NEW a \in Nat
  PROVE  /\ \A sn : SeenTo(c, b, sn, R, L) => SeenTo(c, b, sn, R2, L2)
         /\ \A w \in Seq(Nat) : Carries(w, c, a, b, R, L) => Carries(w, c, a, b, R2, L2)
         /\ \A page : Continues(page, a, R, L) => Continues(page, a, R2, L2)
<1>1. L \subseteq L2 /\ R \subseteq R2 /\ \A x \in R2 : x \in R \/ x = r
  OBVIOUS
<1>2. \A q \in R : r <= q => r \in L2
  <2>1. \A q \in R : r <= q => q > r
    OBVIOUS
  <2> QED
    BY <2>1
<1>3. \A d \in Nat : (d # 0 => d \in R) /\ r <= d => r \in L2
  BY <1>2
<1>4. ASSUME NEW sn, SeenTo(c, b, sn, R, L) PROVE SeenTo(c, b, sn, R2, L2)
  BY <1>1, <1>3, <1>4 DEF SeenTo
<1>5. ASSUME NEW w \in Seq(Nat), Carries(w, c, a, b, R, L) PROVE Carries(w, c, a, b, R2, L2)
  <2>1. \A x \in R2 : b <= x /\ c < x /\ x <= a => x \in L2 \/ \E k \in DOMAIN w : w[k] = x
    BY <1>1, <1>3, <1>5 DEF Carries
  <2>2. \A k \in DOMAIN w : w[k] \in R2 /\ c < w[k]
    BY <1>1, <1>5 DEF Carries
  <2> QED
    BY <2>1, <2>2, <1>1, <1>5 DEF Carries
<1>6. ASSUME NEW page, Continues(page, a, R, L) PROVE Continues(page, a, R2, L2)
  BY <1>1, <1>2, <1>6 DEF Continues
<1> QED
  BY <1>4, <1>5, <1>6

LEMMA OpenSession ==
  ASSUME session \in {NoSession} \cup Sessions, session.open
  PROVE  /\ session \in Sessions /\ session.at \in Nat /\ session.page \in SUBSET RowPositions
         /\ session.pc \in {"backlog", "idle", "send"}
<1>1. session # NoSession
  BY DEF NoSession
<1>2. session \in Sessions
  BY <1>1
<1> QED
  BY <1>2 DEF Sessions

LEMMA RowCommitKeeps ==
  ASSUME StreamInv, NEW r \in RowPositions, CommitRow(r)
  PROVE  StreamInv'
<1>1. /\ begun \subseteq RowPositions /\ rows \subseteq begun /\ cursor \in Nat /\ base \in Nat
      /\ wire \in Seq(Nat) /\ session \in {NoSession} \cup Sessions
  BY DEF StreamInv, StreamTypeOK
<1>2. /\ r \in begun /\ r \notin rows /\ rows' = rows \cup {r}
      /\ late' = IF \E q \in rows : q > r THEN late \cup {r} ELSE late
      /\ UNCHANGED <<begun, session, wire, es, cursor, seen, base, poll, feed>>
  BY DEF CommitRow, feedVars
<1>3. StreamTypeOK'
  BY <1>1, <1>2 DEF StreamTypeOK
<1>4. rows \in SUBSET (Nat \ {0}) /\ r \in Nat \ {0}
  BY <1>1, StreamAssumption DEF RowPositions
<1>5. SeenTo(cursor, base, seen, rows', late')
  BY <1>1, <1>2, <1>4, RowCommits DEF StreamInv
<1>6. CASE session.open
  <2>1. session.at \in Nat
    BY <1>1, <1>6, OpenSession
  <2>2. Carries(wire, cursor, session.at, base, rows', late')
    BY <2>1, <1>1, <1>2, <1>4, <1>6, RowCommits DEF StreamInv
  <2>3. session.pc = "send" => Continues(session.page, session.at, rows', late')
    BY <2>1, <1>1, <1>2, <1>4, <1>6, RowCommits DEF StreamInv
  <2> QED
    BY <2>2, <2>3, <1>2, <1>3, <1>5, <1>6 DEF StreamInv
<1>7. CASE ~session.open
  BY <1>2, <1>3, <1>5, <1>7 DEF StreamInv
<1> QED
  BY <1>6, <1>7

\* Appending what is in order beyond the end.
LEMMA WireGrows ==
  ASSUME NEW w \in Seq(Nat), NEW S \in SUBSET RowPositions, S # {},
         NEW c \in Nat, NEW a \in Nat, NEW b \in Nat, NEW R \in SUBSET Nat, S \subseteq R, NEW L,
         Carries(w, c, a, b, R, L), \A r \in S : a < r,
         NEW m \in S, \A q \in S : q <= m,
         \A r \in R : b <= r /\ a < r /\ r <= m => r \in S \cup L
  PROVE  w \o Ascending(S) \in Seq(Nat) /\ Carries(w \o Ascending(S), c, m, b, R, L)
<1> DEFINE s == Ascending(S)
           v == w \o s
<1>1. Ranges(s, S)
  BY AscendingIs
<1>2. Len(s) \in Nat \ {0} /\ s[Len(s)] \in S /\ \A q \in S : q <= s[Len(s)]
  BY EndsOf
<1> HIDE DEF s
<1>3. /\ s \in Seq(Nat) /\ DOMAIN s = 1..Len(s) /\ (\A k \in DOMAIN s : s[k] \in S)
      /\ Covers(s, S) /\ Rising(s)
  BY <1>1 DEF Ranges
<1>4. /\ v \in Seq(Nat) /\ Len(v) = Len(w) + Len(s) /\ DOMAIN v = 1..(Len(w) + Len(s))
      /\ Len(w) \in Nat /\ DOMAIN w = 1..Len(w)
      /\ \A k \in 1..Len(w) : v[k] = w[k]
      /\ \A k \in (Len(w) + 1)..(Len(w) + Len(s)) : v[k] = s[k - Len(w)]
  BY <1>3
<1> HIDE DEF v
<1>5. S \subseteq Nat /\ m \in Nat /\ m = s[Len(s)]
  <2>1. S \subseteq Nat
    BY StreamAssumption DEF RowPositions
  <2>2. m \in Nat /\ s[Len(s)] \in Nat /\ m <= s[Len(s)] /\ s[Len(s)] <= m
    BY <2>1, <1>2
  <2> QED
    BY <2>1, <2>2
<1>6. \A k \in DOMAIN w : w[k] \in Nat /\ w[k] <= a /\ c < w[k] /\ w[k] \in R
  <2>1. \A k \in DOMAIN w : w[k] \in Nat
    BY <1>4
  <2>2. ASSUME NEW k \in DOMAIN w PROVE w[k] <= a
    <3>1. w # <<>> /\ a = w[Len(w)] /\ Rising(w)
      BY DEF Carries
    <3>2. k = Len(w) \/ (k < Len(w) /\ Len(w) \in DOMAIN w)
      BY <1>4
    <3>3. w[k] \in Nat /\ (k = Len(w) \/ w[k] < w[Len(w)])
      BY <2>1, <3>1, <3>2 DEF Rising
    <3> QED
      BY <3>1, <3>3
  <2> QED
    BY <2>1, <2>2 DEF Carries
<1>7. c <= a
  <2>1. CASE w = <<>>
    BY <2>1 DEF Carries
  <2>2. CASE w # <<>>
    <3>1. Len(w) \in DOMAIN w /\ a = w[Len(w)]
      BY <2>2, <1>4 DEF Carries
    <3> QED
      BY <3>1, <1>6
  <2> QED
    BY <2>1, <2>2
<1>8. \A k \in DOMAIN v : k \in DOMAIN w \/ (k - Len(w) \in DOMAIN s /\ k > Len(w))
  BY <1>2, <1>3, <1>4
<1>9. /\ \A k \in DOMAIN w : k \in DOMAIN v /\ v[k] = w[k]
      /\ \A k \in DOMAIN s : k + Len(w) \in DOMAIN v /\ v[k + Len(w)] = s[k]
      /\ \A k \in DOMAIN v : k > Len(w) => v[k] = s[k - Len(w)]
  <2>1. \A k \in DOMAIN w : k \in DOMAIN v /\ v[k] = w[k]
    BY <1>2, <1>4
  <2>2. ASSUME NEW k \in DOMAIN s
        PROVE  k + Len(w) \in DOMAIN v /\ v[k + Len(w)] = s[k]
    <3>1. /\ k + Len(w) \in (Len(w) + 1)..(Len(w) + Len(s)) /\ (k + Len(w)) - Len(w) = k
          /\ k + Len(w) \in 1..(Len(w) + Len(s))
      BY <1>2, <1>3, <1>4
    <3> QED
      BY <3>1, <1>4
  <2>3. ASSUME NEW k \in DOMAIN v, k > Len(w) PROVE v[k] = s[k - Len(w)]
    <3>1. k \in (Len(w) + 1)..(Len(w) + Len(s))
      BY <2>3, <1>2, <1>4
    <3> QED
      BY <3>1, <1>4
  <2> QED
    BY <2>1, <2>2, <2>3
<1>10. \A k \in DOMAIN v : v[k] \in R /\ c < v[k]
  <2>1. SUFFICES ASSUME NEW k \in DOMAIN v PROVE v[k] \in R /\ c < v[k]
    OBVIOUS
  <2>2. CASE k \in DOMAIN w
    BY <2>2, <1>6, <1>9
  <2>3. CASE k - Len(w) \in DOMAIN s /\ k > Len(w)
    <3>1. v[k] = s[k - Len(w)] /\ v[k] \in S
      BY <2>3, <1>3, <1>9
    <3>2. v[k] \in Nat /\ a < v[k] /\ v[k] \in R
      BY <3>1, <1>5
    <3> QED
      BY <3>2, <1>7
  <2> QED
    BY <2>2, <2>3, <1>8
<1>11. Rising(v)
  <2>1. SUFFICES ASSUME NEW j \in DOMAIN v, NEW k \in DOMAIN v, j < k
                 PROVE  v[j] < v[k]
    BY DEF Rising
  <2>2. CASE k \in DOMAIN w
    <3>1. j \in DOMAIN w
      BY <2>1, <2>2, <1>2, <1>4
    <3> QED
      BY <2>1, <2>2, <3>1, <1>9 DEF Carries, Rising
  <2>3. CASE k - Len(w) \in DOMAIN s /\ k > Len(w)
    <3>1. v[k] = s[k - Len(w)] /\ v[k] \in S /\ v[k] \in Nat /\ a < v[k]
      BY <2>3, <1>3, <1>5, <1>9
    <3>2. CASE j \in DOMAIN w
      BY <3>1, <3>2, <1>6, <1>9
    <3>3. CASE j - Len(w) \in DOMAIN s /\ j > Len(w)
      <4>1. v[j] = s[j - Len(w)] /\ j - Len(w) < k - Len(w)
        BY <2>1, <3>3, <1>2, <1>4, <1>9
      <4> QED
        BY <4>1, <3>1, <3>3, <2>3, <1>3 DEF Rising
    <3> QED
      BY <3>2, <3>3, <1>8
  <2> QED
    BY <2>2, <2>3, <1>8
<1>12. v # <<>> /\ m = v[Len(v)]
  <2>1. Len(s) \in DOMAIN s
    BY <1>2, <1>3
  <2>2. v[Len(s) + Len(w)] = s[Len(s)] /\ Len(v) = Len(s) + Len(w) /\ Len(v) # 0
    BY <2>1, <1>2, <1>4, <1>9
  <2> QED
    BY <2>2, <1>4, <1>5
<1>13. ASSUME NEW r \in R, b <= r, c < r, r <= m
       PROVE  r \in L \/ \E k \in DOMAIN v : v[k] = r
  <2>1. CASE r <= a
    BY <2>1, <1>9, <1>13 DEF Carries
  <2>2. CASE a < r
    BY <2>2, <1>3, <1>9, <1>13 DEF Covers
  <2> QED
    BY <2>1, <2>2
<1> QED
  BY <1>4, <1>10, <1>11, <1>12, <1>13 DEF Carries, v, s

LEMMA BacklogKeeps ==
  ASSUME StreamInv, SendBacklog
  PROVE  StreamInv'
<1> DEFINE new == NewestOf(rows, Backlog)
<1>1. /\ begun \subseteq RowPositions /\ rows \subseteq begun /\ cursor \in Nat /\ base \in Nat
      /\ wire \in Seq(Nat) /\ session \in {NoSession} \cup Sessions /\ session.open
      /\ session.pc = "backlog" /\ wire = <<>> /\ session.at = 0 /\ cursor = 0
      /\ SeenTo(cursor, base, seen, rows, late) /\ es = "open"
      /\ Carries(wire, cursor, session.at, base, rows, late)
  BY DEF StreamInv, StreamTypeOK, SendBacklog
<1>2. session \in Sessions
  BY <1>1, OpenSession
<1>3. UNCHANGED <<begun, rows, late, es, cursor, seen, poll, feed>>
  BY DEF SendBacklog, dbVars
<1>4. rows \in SUBSET RowPositions /\ rows \subseteq Nat \ {0} /\ new \subseteq rows
      /\ Backlog \in Nat
  BY <1>1, StreamAssumption DEF RowPositions, NewestOf
<1>5. \A x \in Nat : SeenTo(cursor, x, seen, rows, late)
  BY <1>1, <1>4 DEF SeenTo
<1>6. \A x \in Nat : Carries(<<>>, 0, 0, x, rows, late)
  BY <1>1, <1>4 DEF Carries
<1>7. CASE dbUp /\ new # {}
  <2> DEFINE m == CHOOSE r \in new : \A q \in new : q <= r
             f == CHOOSE r \in new : \A q \in new : r <= q
  <2>1. /\ m \in new /\ \A q \in new : q <= m
        /\ f \in new /\ \A q \in new : f <= q
    BY <1>4, <1>7, EndsOf
  <2>2. /\ wire' = wire \o Ascending(new) /\ base' = f
        /\ session' = [session EXCEPT !.pc = "idle", !.at = m]
    BY <1>7 DEF SendBacklog
  <2> HIDE DEF m, f
  <2>3. m \in Nat /\ f \in Nat
    BY <2>1, <1>4
  <2>4. \A r \in rows : f <= r => r \in new
    BY <2>1, <1>4, PagesHaveNoHoles
  <2> HIDE DEF new
  <2>5. wire' \in Seq(Nat) /\ Carries(wire', 0, m, f, rows, late)
    <3>1. /\ new \in SUBSET RowPositions /\ new # {} /\ rows \in SUBSET Nat /\ new \subseteq rows
          /\ \A r \in new : 0 < r
      BY <1>4, <1>7
    <3>2. Carries(<<>>, 0, 0, f, rows, late) /\ <<>> \in Seq(Nat) /\ 0 \in Nat
      BY <2>3, <1>6
    <3>3. \A r \in rows : f <= r /\ 0 < r /\ r <= m => r \in new \cup late
      BY <2>4
    <3>4. LET w == <<>> \o Ascending(new)
          IN w \in Seq(Nat) /\ Carries(w, 0, m, f, rows, late)
      BY <2>1, <2>3, <3>1, <3>2, <3>3, WireGrows
    <3> QED
      BY <3>4, <2>2, <1>1
  <2>6. session' \in Sessions /\ session'.open /\ session'.pc = "idle" /\ session'.at = m
    BY <2>2, <2>3, <1>2 DEF Sessions
  <2>7. StreamTypeOK'
    BY <2>2, <2>3, <2>5, <2>6, <1>1, <1>3 DEF StreamTypeOK
  <2> QED
    BY <2>2, <2>3, <2>5, <2>6, <2>7, <1>1, <1>3, <1>5 DEF StreamInv
<1>8. CASE ~(dbUp /\ new # {})
  <2>1. base' = 1 /\ session' = [session EXCEPT !.pc = "idle", !.at = session.at]
        /\ wire' = <<>>
    <3>1. CASE ~dbUp
      <4>1. session' = [session EXCEPT !.pc = "idle"] /\ base' = 1 /\ wire' = wire
        BY <3>1 DEF SendBacklog
      <4>2. [session EXCEPT !.pc = "idle"] = [session EXCEPT !.pc = "idle", !.at = session.at]
        BY <1>2 DEF Sessions
      <4> QED
        BY <4>1, <4>2, <1>1
    <3>2. CASE dbUp /\ new = {}
      <4>1. /\ session' = [session EXCEPT !.pc = "idle", !.at = session.at] /\ base' = 1
            /\ wire' = wire \o Ascending(new)
        BY <3>2 DEF SendBacklog
      <4>2. Ranges(Ascending(new), new) /\ Cardinality(new) = 0
        BY <3>2, <1>4, AscendingIs, FS_EmptySet
      <4>3. Ascending(new) = <<>>
        BY <4>2 DEF Ranges
      <4> QED
        BY <4>1, <4>3, <1>1
    <3> QED
      BY <3>1, <3>2, <1>8
  <2>2. session' \in Sessions /\ session'.open /\ session'.pc = "idle" /\ session'.at = 0
    BY <2>1, <1>1, <1>2 DEF Sessions
  <2>3. StreamTypeOK'
    BY <2>1, <2>2, <1>1, <1>3 DEF StreamTypeOK
  <2>4. SeenTo(cursor', base', seen', rows', late')
    BY <2>1, <1>3, <1>5
  <2>5. Carries(wire', cursor', session'.at, base', rows', late')
    BY <2>1, <2>2, <1>1, <1>3, <1>6
  <2> QED
    BY <2>1, <2>2, <2>3, <2>4, <2>5, <1>1, <1>3 DEF StreamInv
<1> QED
  BY <1>7, <1>8

LEMMA PageKeeps ==
  ASSUME StreamInv, PollDb \/ SendPage
  PROVE  StreamInv'
<1>1. /\ begun \subseteq RowPositions /\ rows \subseteq begun /\ cursor \in Nat /\ base \in Nat
      /\ wire \in Seq(Nat) /\ session \in {NoSession} \cup Sessions /\ session.open
      /\ SeenTo(cursor, base, seen, rows, late) /\ es = "open"
      /\ Carries(wire, cursor, session.at, base, rows, late)
      /\ session.pc = "send" => Continues(session.page, session.at, rows, late)
  BY DEF StreamInv, StreamTypeOK, PollDb, SendPage
<1>2. /\ session \in Sessions /\ session.at \in Nat /\ session.page \in SUBSET RowPositions
  BY <1>1, OpenSession
<1>3. UNCHANGED <<begun, rows, late, es, cursor, seen, base, poll, feed>>
  BY DEF PollDb, SendPage, dbVars, feedVars
<1>4. rows \in SUBSET RowPositions /\ rows \in SUBSET Nat
  BY <1>1, StreamAssumption DEF RowPositions
<1>5. CASE PollDb
  <2> DEFINE after == {r \in rows : r > session.at}
             page == OldestOf(after, PageSize)
  <2>1. /\ page # {} /\ wire' = wire
        /\ session' = [session EXCEPT !.pc = "send", !.page = page]
    BY <1>5 DEF PollDb, getSignalsAfterCursor
  <2>2. page \subseteq after /\ after \in SUBSET RowPositions /\ PageSize \in Nat
    BY <1>4, StreamAssumption DEF OldestOf
  <2>3. \A r \in after, p \in page : r <= p => r \in page
    BY <2>2, PagesHaveNoHoles
  <2>4. \A r \in page : r \in rows /\ session.at < r
    BY <2>2, <1>2, <1>4
  <2>5. Continues(page, session.at, rows, late)
    <3>1. \A r \in rows : session.at < r => r \in after
      BY <1>2, <1>4
    <3> HIDE DEF page, after
    <3> QED
      BY <2>1, <2>3, <2>4, <3>1 DEF Continues
  <2>6. page \in SUBSET RowPositions
    BY <2>4, <1>4
  <2> HIDE DEF page
  <2>7. /\ session' \in Sessions /\ session'.open /\ session'.pc = "send"
        /\ session'.at = session.at /\ session'.page = page
    BY <2>1, <2>6, <1>2 DEF Sessions
  <2>8. StreamTypeOK'
    BY <2>1, <2>7, <1>1, <1>3 DEF StreamTypeOK
  <2> QED
    BY <2>1, <2>5, <2>7, <2>8, <1>1, <1>3 DEF StreamInv
<1>6. CASE SendPage
  <2> DEFINE S == session.page
             m == Position(session)
  <2>1. /\ wire' = wire \o Ascending(S) /\ session.pc = "send"
        /\ session' = [session EXCEPT !.pc = "idle", !.at = m, !.page = {}]
    BY <1>6 DEF SendPage
  <2>2. /\ S # {} /\ S \subseteq rows /\ (\A r \in S : session.at < r)
        /\ \A r \in rows, p \in S : session.at < r /\ r <= p => r \in S \cup late
    BY <2>1, <1>1 DEF Continues
  <2>3. m \in S /\ \A q \in S : q <= m
    BY <2>2, <1>2, EndsOf DEF Position
  <2> HIDE DEF m
  <2>4. m \in Nat
    BY <2>2, <2>3, <1>4
  <2>5. wire' \in Seq(Nat) /\ Carries(wire', cursor, m, base, rows, late)
    <3> HIDE DEF S
    <3>1. S \in SUBSET RowPositions
      BY <1>2 DEF S
    <3> DEFINE at == session.at
    <3>2. /\ at \in Nat /\ Carries(wire, cursor, at, base, rows, late)
          /\ \A r \in S : at < r
          /\ \A r \in rows : base <= r /\ at < r /\ r <= m => r \in S \cup late
      BY <2>2, <2>3, <1>1, <1>2
    <3> HIDE DEF at
    <3>3. LET w == wire \o Ascending(S)
          IN w \in Seq(Nat) /\ Carries(w, cursor, m, base, rows, late)
      BY <3>1, <3>2, <2>2, <2>3, <1>1, <1>4, WireGrows
    <3> QED
      BY <3>3, <2>1
  <2>6. session' \in Sessions /\ session'.open /\ session'.pc = "idle" /\ session'.at = m
    BY <2>1, <2>4, <1>2 DEF Sessions
  <2>7. StreamTypeOK'
    BY <2>5, <2>6, <1>1, <1>3 DEF StreamTypeOK
  <2> QED
    BY <2>5, <2>6, <2>7, <1>1, <1>3 DEF StreamInv
<1> QED
  BY <1>5, <1>6

LEMMA ReceiveKeeps ==
  ASSUME StreamInv, Receive
  PROVE  StreamInv'
<1> DEFINE h == Head(wire)
           a == session.at
<1>1. /\ begun \subseteq RowPositions /\ rows \subseteq begun /\ cursor \in Nat /\ base \in Nat
      /\ wire \in Seq(Nat) /\ session \in {NoSession} \cup Sessions /\ session.open
      /\ SeenTo(cursor, base, seen, rows, late) /\ es = "open" /\ wire # <<>>
      /\ Carries(wire, cursor, a, base, rows, late)
      /\ session.pc # "backlog"
      /\ session.pc = "send" => Continues(session.page, a, rows, late)
  BY DEF StreamInv, StreamTypeOK, Receive
<1>2. /\ seen' = seen \cup {h} /\ cursor' = h /\ wire' = Tail(wire)
      /\ UNCHANGED <<begun, rows, late, session, es, base>>
  BY DEF Receive, dbVars
<1>3. /\ Len(wire) \in Nat \ {0} /\ DOMAIN wire = 1..Len(wire) /\ h = wire[1]
      /\ Tail(wire) \in Seq(Nat) /\ Len(Tail(wire)) = Len(wire) - 1
      /\ DOMAIN Tail(wire) = 1..(Len(wire) - 1)
      /\ \A k \in 1..(Len(wire) - 1) : Tail(wire)[k] = wire[k + 1]
      /\ \A k \in DOMAIN wire : wire[k] \in Nat
  BY <1>1
<1> DEFINE t == Tail(wire)
<1> HIDE DEF h, t, a
<1>4. rows \in SUBSET Nat
  <2>1. RowPositions \subseteq Nat
    BY StreamAssumption DEF RowPositions
  <2> QED
    BY <2>1, <1>1
<1>5. /\ a # 0 => a \in rows
      /\ a = wire[Len(wire)] /\ Rising(wire)
      /\ \A k \in DOMAIN wire : wire[k] \in rows /\ cursor < wire[k]
      /\ \A r \in rows : base <= r /\ cursor < r /\ r <= a => r \in late \/ \E k \in DOMAIN wire : wire[k] = r
  BY <1>1 DEF Carries
<1>6. 1 \in DOMAIN wire /\ h \in rows /\ h \in Nat /\ cursor < h
  BY <1>3, <1>5
<1>7. \A k \in DOMAIN wire : k = 1 \/ (h < wire[k] /\ k - 1 \in DOMAIN t /\ t[k - 1] = wire[k])
  <2>1. ASSUME NEW k \in DOMAIN wire, k # 1
        PROVE  h < wire[k] /\ k - 1 \in DOMAIN t /\ t[k - 1] = wire[k]
    <3>1. 1 < k /\ k - 1 \in 1..(Len(wire) - 1) /\ (k - 1) + 1 = k
      BY <2>1, <1>3
    <3> QED
      BY <3>1, <1>3, <1>5, <1>6 DEF Rising, t
  <2> QED
    BY <2>1
<1>8. \A k \in DOMAIN t : k + 1 \in DOMAIN wire /\ t[k] = wire[k + 1] /\ k + 1 # 1
  BY <1>3 DEF t
<1>9. SeenTo(h, base, seen \cup {h}, rows, late)
  <2>1. \A r \in seen \cup {h} : r \in Nat /\ r <= h
    <3>1. ASSUME NEW r \in seen PROVE r \in Nat /\ r <= h
      <4>1. r \in Nat /\ r <= cursor
        BY <1>1 DEF SeenTo
      <4> QED
        BY <4>1, <1>1, <1>6
    <3> QED
      BY <3>1, <1>6
  <2>2. ASSUME NEW r \in rows, base <= r, r <= h PROVE r \in (seen \cup {h}) \cup late
    <3>1. CASE r <= cursor
      BY <3>1, <2>2, <1>1 DEF SeenTo
    <3>2. CASE cursor < r
      <4>1. h <= a
        BY <1>3, <1>5, <1>6 DEF Rising
      <4>2. r <= a
        BY <4>1, <2>2, <1>3, <1>4, <1>5, <1>6
      <4>3. r \in late \/ \E k \in DOMAIN wire : wire[k] = r
        BY <4>2, <3>2, <2>2, <1>5
      <4> QED
        BY <4>3, <2>2, <1>3, <1>4, <1>6, <1>7
    <3> QED
      BY <3>1, <3>2, <1>1, <1>4
  <2> QED
    BY <2>1, <2>2, <1>6 DEF SeenTo
<1>10. Carries(t, h, a, base, rows, late)
  <2>1. t = <<>> => a = h
    BY <1>3, <1>5 DEF t
  <2>2. t # <<>> => a = t[Len(t)]
    <3>1. SUFFICES ASSUME t # <<>> PROVE a = t[Len(t)]
      OBVIOUS
    <3>2. Len(t) # 0
      BY <3>1, <1>3 DEF t
    <3>3. Len(wire) \in DOMAIN wire /\ Len(wire) # 1 /\ Len(wire) - 1 = Len(t)
      BY <3>2, <1>3 DEF t
    <3> QED
      BY <3>3, <1>5, <1>7
  <2>3. Rising(t)
    <3>1. SUFFICES ASSUME NEW j \in DOMAIN t, NEW k \in DOMAIN t, j < k PROVE t[j] < t[k]
      BY DEF Rising
    <3>2. j + 1 < k + 1
      BY <3>1, <1>3 DEF t
    <3> QED
      BY <3>1, <3>2, <1>5, <1>8 DEF Rising
  <2>4. \A k \in DOMAIN t : t[k] \in rows /\ h < t[k]
    BY <1>5, <1>7, <1>8
  <2>5. ASSUME NEW r \in rows, base <= r, h < r, r <= a
        PROVE  r \in late \/ \E k \in DOMAIN t : t[k] = r
    <3>1. cursor < r
      BY <2>5, <1>1, <1>4, <1>6
    <3>2. r \in late \/ \E k \in DOMAIN wire : wire[k] = r
      BY <3>1, <2>5, <1>5
    <3> QED
      BY <3>2, <2>5, <1>4, <1>6, <1>3, <1>7
  <2> QED
    BY <2>1, <2>2, <2>3, <2>4, <2>5, <1>5 DEF Carries
<1>11. StreamTypeOK'
  BY <1>1, <1>2, <1>3, <1>6 DEF StreamTypeOK
<1> QED
  BY <1>1, <1>2, <1>9, <1>10, <1>11 DEF StreamInv, t, a

LEMMA StreamInvStep == StreamInv /\ [StreamNext]_streamVars => StreamInv'
<1> SUFFICES ASSUME StreamInv, [StreamNext]_streamVars PROVE StreamInv'
  OBVIOUS
<1>1. /\ StreamTypeOK /\ (session.open <=> es = "open") /\ (~session.open => wire = <<>>)
      /\ SeenTo(cursor, base, seen, rows, late)
      /\ es \in {"new", "loading"} => cursor = 0
      /\ session.open =>
           /\ Carries(wire, cursor, session.at, base, rows, late)
           /\ session.pc = "backlog" => wire = <<>> /\ session.at = 0 /\ cursor = 0
           /\ session.pc = "send" => Continues(session.page, session.at, rows, late)
  BY DEF StreamInv
<1>2. CASE \E r \in RowPositions : BeginInsert(r)
  <2>1. PICK r \in RowPositions : BeginInsert(r)
    BY <1>2
  <2>2. begun' = begun \cup {r}
        /\ UNCHANGED <<rows, late, session, wire, es, cursor, seen, base>>
    BY <2>1 DEF BeginInsert, feedVars
  <2>3. StreamTypeOK'
    BY <2>2, <1>1 DEF StreamTypeOK
  <2> QED
    BY <2>2, <2>3, <1>1 DEF StreamInv
<1>3. CASE \E r \in RowPositions : CommitRow(r)
  BY <1>3, RowCommitKeeps
<1>4. CASE DbChanges \/ LoadOnce \/ UNCHANGED streamVars
  <2>1. UNCHANGED <<begun, rows, late, session, wire, es, cursor, seen, base>>
    BY <1>4 DEF DbChanges, LoadOnce, streamVars, dbVars, feedVars
  <2>2. StreamTypeOK'
    BY <2>1, <1>1 DEF StreamTypeOK
  <2> QED
    BY <2>1, <2>2, <1>1 DEF StreamInv
<1>5. CASE Connect
  <2> DEFINE at == IF cursor # 0 THEN cursor ELSE 0
             pc == IF cursor # 0 THEN "idle" ELSE "backlog"
  <2>1. /\ session' = [open |-> TRUE, pc |-> pc, at |-> at, page |-> {}]
        /\ es' = "open" /\ wire = <<>>
        /\ UNCHANGED <<begun, rows, late, wire, cursor, seen, base>>
    BY <1>1, <1>5 DEF Connect, resumed, dbVars
  <2>2. at = cursor /\ cursor \in Nat /\ pc \in {"idle", "backlog"}
        /\ (pc = "backlog" => cursor = 0)
    BY <1>1 DEF StreamTypeOK
  <2> HIDE DEF at, pc
  <2>3. /\ session' \in Sessions /\ session'.open /\ session'.at = cursor /\ session'.pc = pc
    BY <2>1, <2>2 DEF Sessions
  <2>4. StreamTypeOK'
    BY <2>1, <2>3, <1>1 DEF StreamTypeOK
  <2>5. Carries(wire, cursor, cursor, base, rows, late)
    <3>1. RowPositions \subseteq Nat
      BY StreamAssumption DEF RowPositions
    <3>2. \A r \in rows : ~(cursor < r /\ r <= cursor)
      BY <3>1, <2>2, <1>1 DEF StreamTypeOK
    <3> QED
      BY <2>1, <3>2, <1>1 DEF Carries, SeenTo, Rising
  <2> QED
    BY <2>1, <2>2, <2>3, <2>4, <2>5, <1>1 DEF StreamInv
<1>6. CASE SendBacklog
  BY <1>6, BacklogKeeps
<1>7. CASE PollDb \/ SendPage
  BY <1>7, PageKeeps
<1>8. CASE Receive
  BY <1>8, ReceiveKeeps
<1>9. CASE RetrySse
  <2>1. /\ es' = "new" /\ cursor' = 0 /\ seen' = {} /\ base' = 1 /\ ~session.open
        /\ UNCHANGED <<begun, rows, late, session, wire>>
    BY <1>1, <1>9 DEF RetrySse, dbVars
  <2>2. StreamTypeOK'
    BY <2>1, <1>1 DEF StreamTypeOK
  <2>3. SeenTo(0, 1, {}, rows, late)
    <3>1. RowPositions \subseteq Nat
      BY StreamAssumption DEF RowPositions
    <3>2. \A r \in rows : ~(1 <= r /\ r <= 0)
      BY <3>1, <1>1 DEF StreamTypeOK
    <3> QED
      BY <3>2 DEF SeenTo
  <2> QED
    BY <2>1, <2>2, <2>3, <1>1 DEF StreamInv
<1>10. CASE FirstLoad
  <2>1. /\ es = "loading" /\ es' = "new" /\ ~session.open
        /\ UNCHANGED <<begun, rows, late, session, wire, cursor, seen, base>>
    BY <1>1, <1>10 DEF FirstLoad, dbVars
  <2>2. StreamTypeOK'
    BY <2>1, <1>1 DEF StreamTypeOK
  <2> QED
    BY <2>1, <2>2, <1>1 DEF StreamInv
<1>11. CASE \E how \in {"connecting", "closed"} : Disconnect(how)
  <2>1. /\ es' \in {"connecting", "closed"} /\ session' = NoSession /\ wire' = <<>>
        /\ UNCHANGED <<begun, rows, late, cursor, seen, base>>
    BY <1>11 DEF Disconnect, dbVars
  <2>2. session'.open = FALSE
    BY <2>1 DEF NoSession
  <2>3. StreamTypeOK'
    BY <2>1, <1>1 DEF StreamTypeOK
  <2> QED
    BY <2>1, <2>2, <2>3, <1>1 DEF StreamInv
<1> QED
  BY <1>2, <1>3, <1>4, <1>5, <1>6, <1>7, <1>8, <1>9, <1>10, <1>11 DEF StreamNext

\* However often the connection breaks, whatever was lost with it and in whatever order
\* rows are committed, no row is delivered twice to one EventSource, and none that lies
\* behind its last event id was left out, but for those committed late.
THEOREM StreamDeliversExactly == StreamSpec => []StreamExact
  BY StreamInvInit, StreamInvStep, StreamInvIsExact, PTL DEF StreamSpec

-----------------------------------------------------------------------------
(* The operations views.  What they say of a world is a matter of the       *)
(* thresholds and of the least and the worst of a few values.  What an      *)
(* answer leaves out is a matter of the overlapping requests: what a        *)
(* request saw firing is either still to be written, in the table, or       *)
(* resolved meanwhile by a request that saw it quiet.                       *)


Rules == {"database", "redis", "quant", "marketTick", "featureSnapshot", "engineSignal", "execution"}
Streams == {"marketTick", "orderbookSnapshot", "marketCandle", "featureSnapshot", "engineSignal", "execution"}
Watched == {"marketTick", "featureSnapshot", "engineSignal", "execution"}

LEMMA StreamsAre ==
  /\ StreamKeys = Streams /\ DOMAIN STALE_RULES = Watched
  /\ MarketStreams \subseteq Streams /\ Watched \subseteq Streams
BY DEF StreamKeys, STREAM_THRESHOLDS, Streams, STALE_RULES, Watched, MarketStreams

\* A list of rules and its members.
LEMMA Joins ==
  ASSUME NEW a \in Seq(Rules), NEW b \in Seq(Rules)
  PROVE  a \o b \in Seq(Rules) /\ Members(a \o b) = Members(a) \cup Members(b)
<1>1. a \o b \in Seq(Rules) /\ Len(a \o b) = Len(a) + Len(b) /\ Len(a) \in Nat /\ Len(b) \in Nat
  OBVIOUS
<1>2. \A k \in 1 .. Len(a) : (a \o b)[k] = a[k] /\ k \in 1 .. Len(a \o b)
  BY <1>1
<1>3. \A k \in 1 .. Len(b) : (a \o b)[Len(a) + k] = b[k] /\ Len(a) + k \in 1 .. Len(a \o b)
  BY <1>1
<1>4. \A k \in 1 .. Len(a \o b) : k \in 1 .. Len(a) \/ (k - Len(a) \in 1 .. Len(b) /\ k = Len(a) + (k - Len(a)))
  BY <1>1
<1>5. DOMAIN (a \o b) = 1 .. Len(a \o b) /\ DOMAIN a = 1 .. Len(a) /\ DOMAIN b = 1 .. Len(b)
  OBVIOUS
<1>6. ASSUME NEW x \in Members(a \o b) PROVE x \in Members(a) \cup Members(b)
  <2>1. PICK k \in 1 .. Len(a \o b) : x = (a \o b)[k]
    BY <1>5 DEF Members
  <2>2. CASE k \in 1 .. Len(a)
    BY <1>2, <1>5, <2>1, <2>2 DEF Members
  <2>3. CASE k - Len(a) \in 1 .. Len(b) /\ k = Len(a) + (k - Len(a))
    <3>1. x = b[k - Len(a)]
      BY <1>3, <2>1, <2>3
    <3> QED
      BY <1>5, <2>3, <3>1 DEF Members
  <2> QED
    BY <1>4, <2>2, <2>3
<1>7. Members(a) \subseteq Members(a \o b)
  BY <1>2, <1>5 DEF Members
<1>8. Members(b) \subseteq Members(a \o b)
  <2>1. \A k \in DOMAIN b : \E i \in DOMAIN (a \o b) : b[k] = (a \o b)[i]
    BY <1>3, <1>5
  <2> QED
    BY <2>1 DEF Members
<1> QED
  BY <1>1, <1>6, <1>7, <1>8

LEMMA RulesAre ==
  ASSUME NEW c, NEW lag, NEW flow
  PROVE  /\ evaluateAlertRules(c, lag, flow) \in Seq(Rules)
         /\ Members(evaluateAlertRules(c, lag, flow)) = {r \in Rules : fires(c, lag, flow, r)}
<1> DEFINE push(r) == IF fires(c, lag, flow, r) THEN <<r>> ELSE <<>>
           has(r) == IF fires(c, lag, flow, r) THEN {r} ELSE {}
<1>1. ASSUME NEW r \in Rules PROVE push(r) \in Seq(Rules) /\ Members(push(r)) = has(r)
  <2>1. CASE fires(c, lag, flow, r)
    <3>1. <<r>> \in Seq(Rules) /\ DOMAIN <<r>> = {1} /\ <<r>>[1] = r
      OBVIOUS
    <3>2. Members(<<r>>) = {r}
      BY <3>1 DEF Members
    <3> QED
      BY <2>1, <3>1, <3>2
  <2>2. CASE ~fires(c, lag, flow, r)
    <3>1. <<>> \in Seq(Rules) /\ DOMAIN <<>> = {}
      OBVIOUS
    <3>2. Members(<<>>) = {}
      BY <3>1 DEF Members
    <3> QED
      BY <2>2, <3>1, <3>2
  <2> QED
    BY <2>1, <2>2
<1>2. /\ "database" \in Rules /\ "redis" \in Rules /\ "quant" \in Rules /\ "marketTick" \in Rules
      /\ "featureSnapshot" \in Rules /\ "engineSignal" \in Rules /\ "execution" \in Rules
  BY DEF Rules
<1>3. evaluateAlertRules(c, lag, flow)
        = push("database") \o push("redis") \o push("quant")
          \o push("marketTick") \o push("featureSnapshot") \o push("engineSignal") \o push("execution")
  BY Zenon DEF evaluateAlertRules
<1> DEFINE a2 == push("database") \o push("redis")
           a3 == a2 \o push("quant")
           a4 == a3 \o push("marketTick")
           a5 == a4 \o push("featureSnapshot")
           a6 == a5 \o push("engineSignal")
           a7 == a6 \o push("execution")
<1>4. evaluateAlertRules(c, lag, flow) = a7
  BY Zenon, <1>3
<1>5. a2 \in Seq(Rules) /\ Members(a2) = has("database") \cup has("redis")
  <2> HIDE DEF push, has
  <2> QED
    BY <1>1, <1>2, Joins
<1> HIDE DEF a2
<1>6. a3 \in Seq(Rules) /\ Members(a3) = Members(a2) \cup has("quant")
  <2> HIDE DEF push, has
  <2> QED
    BY <1>1, <1>2, <1>5, Joins
<1> HIDE DEF a3
<1>7. a4 \in Seq(Rules) /\ Members(a4) = Members(a3) \cup has("marketTick")
  <2> HIDE DEF push, has
  <2> QED
    BY <1>1, <1>2, <1>6, Joins
<1> HIDE DEF a4
<1>8. a5 \in Seq(Rules) /\ Members(a5) = Members(a4) \cup has("featureSnapshot")
  <2> HIDE DEF push, has
  <2> QED
    BY <1>1, <1>2, <1>7, Joins
<1> HIDE DEF a5
<1>9. a6 \in Seq(Rules) /\ Members(a6) = Members(a5) \cup has("engineSignal")
  <2> HIDE DEF push, has
  <2> QED
    BY <1>1, <1>2, <1>8, Joins
<1> HIDE DEF a6
<1>10. a7 \in Seq(Rules) /\ Members(a7) = Members(a6) \cup has("execution")
  <2> HIDE DEF push, has
  <2> QED
    BY <1>1, <1>2, <1>9, Joins
<1> HIDE DEF a7, push
<1>11. Members(a7) = has("database") \cup has("redis") \cup has("quant") \cup has("marketTick")
                     \cup has("featureSnapshot") \cup has("engineSignal") \cup has("execution")
  <2> HIDE DEF has
  <2> QED
    BY <1>5, <1>6, <1>7, <1>8, <1>9, <1>10
<1>12. {r \in Rules : fires(c, lag, flow, r)} = Members(a7)
  BY <1>11 DEF Rules
<1> QED
  BY <1>4, <1>10, <1>12

\* The newest of some ages.
LEMMA NewestIs ==
  ASSUME NEW S \in SUBSET Ages
  PROVE  /\ Newest(S) = Never => S \subseteq {Never}
         /\ Newest(S) # Never => /\ Newest(S) \in S /\ Newest(S) \in Nat
                                 /\ \A a \in S : a # Never => Newest(S) <= a
<1> DEFINE T == S \ {Never}
<1>1. CASE T = {}
  BY <1>1 DEF Newest
<1>2. CASE T # {}
  <2>1. T \in SUBSET Nat
    BY DEF Ages
  <2>2. \E m \in T : \A k \in T : m <= k
    BY <1>2, <2>1, LeastNumber
  <2>3. Least(T) \in T /\ \A k \in T : Least(T) <= k
    BY <2>2 DEF Least
  <2>4. Newest(S) = Least(T)
    BY <1>2 DEF Newest
  <2>5. Never \notin T
    OBVIOUS
  <2> QED
    BY <2>1, <2>3, <2>4, <2>5
<1> QED
  BY <1>1, <1>2

LEMMA WorldIs ==
  ASSUME NEW w \in Observable
  PROVE  /\ w.db \in {"fast", "slow", "down"} /\ w.redis \in {"unset", "pong", "refused"}
         /\ w.quant \in {"unset", "pong", "error", "refused"}
         /\ \A s \in Streams : w.lag[s] \in Ages
         /\ w.job.age \in Ages /\ w.job.failed \in BOOLEAN
BY StreamsAre DEF Observable

LEMMA ComponentsAre ==
  ASSUME NEW w
  PROVE  LET c == components(w)
         IN /\ DOMAIN c = {"web", "database", "redis", "quant", "ingestion", "workers"}
            /\ c["web"] = "healthy" /\ c["database"] = probeDatabase(w) /\ c["redis"] = probeRedis(w)
            /\ c["quant"] = probeQuant(w) /\ c["ingestion"] = probeIngestion(w)
            /\ c["workers"] = probeWorkers(w)
BY DEF components

LEMMA ProbesAre ==
  ASSUME NEW w \in Observable
  PROVE  /\ probeDatabase(w) = "healthy" <=> w.db = "fast"
         /\ probeDatabase(w) = "failing" <=> w.db = "down"
         /\ probeDatabase(w) \in {"healthy", "degraded", "failing"}
         /\ probeRedis(w) = "failing" <=> w.redis = "refused"
         /\ probeRedis(w) \in {"healthy", "unknown", "failing"}
         /\ probeRedis(w) = "healthy" <=> w.redis = "pong"
         /\ probeQuant(w) \in {"healthy", "unknown"} <=> w.quant \in {"unset", "pong"}
         /\ probeQuant(w) \in {"healthy", "unknown", "degraded", "failing"}
         /\ probeQuant(w) = "failing" <=> w.quant = "refused"
BY WorldIs DEF probeDatabase, probeRedis, probeQuant

\* The verdict, from the components.
LEMMA HealthIs ==
  ASSUME NEW w \in Observable
  PROVE  /\ getSystemHealth(w) = "critical" <=> (w.db = "down" \/ w.redis = "refused")
         /\ getSystemHealth(w) = "healthy" =>
              /\ w.db = "fast" /\ w.redis \in {"unset", "pong"} /\ w.quant \in {"unset", "pong"}
              /\ probeIngestion(w) \notin {"failing", "degraded"}
              /\ probeWorkers(w) \notin {"failing", "degraded"}
<1> DEFINE c == components(w)
           need == required(w)
<1>1. /\ DOMAIN c = {"web", "database", "redis", "quant", "ingestion", "workers"}
      /\ c["database"] = probeDatabase(w) /\ c["redis"] = probeRedis(w)
      /\ c["quant"] = probeQuant(w) /\ c["ingestion"] = probeIngestion(w)
      /\ c["workers"] = probeWorkers(w)
  BY ComponentsAre
<1>2. getSystemHealth(w) = reduceOverall(c, need)
  BY DEF getSystemHealth
<1> HIDE DEF c
<1>3. getSystemHealth(w) = "critical" <=> "failing" \in {c["database"], c["redis"]}
  BY <1>2 DEF reduceOverall
<1>4. getSystemHealth(w) = "healthy" =>
        /\ "failing" \notin {c["database"], c["redis"]}
        /\ \A k \in DOMAIN c : c[k] \notin {"failing", "degraded"}
        /\ \A k \in need : c[k] # "unknown"
  BY <1>2 DEF reduceOverall
<1>5. getSystemHealth(w) = "critical" <=> (w.db = "down" \/ w.redis = "refused")
  BY <1>1, <1>3, ProbesAre
<1>6. ASSUME getSystemHealth(w) = "healthy"
      PROVE  /\ probeDatabase(w) \notin {"failing", "degraded"} /\ probeRedis(w) \notin {"failing", "degraded"}
             /\ probeQuant(w) \notin {"failing", "degraded"}
             /\ probeIngestion(w) \notin {"failing", "degraded"}
             /\ probeWorkers(w) \notin {"failing", "degraded"}
  BY <1>1, <1>4, <1>6
<1>7. ASSUME getSystemHealth(w) = "healthy"
      PROVE  w.db = "fast" /\ w.redis \in {"unset", "pong"} /\ w.quant \in {"unset", "pong"}
  BY <1>6, <1>7, ProbesAre, WorldIs
<1> QED
  BY <1>5, <1>6, <1>7

\* A heartbeat of the last five minutes.
LEMMA RecentIsHealthy ==
  ASSUME NEW age \in 0 .. 5 * Minute
  PROVE  statusFromAge(age, 5 * Minute, Hour) = "healthy"
<1> DEFINE near == 5 * Minute
           far == Hour
<1>1. age \in Int /\ 0 <= age /\ age <= near /\ near \in Int /\ far \in Int
  BY DEF Minute, Hour
<1> HIDE DEF near, far
<1>2. age # Never /\ age \in 0 .. near /\ ~(age \in near + 1 .. far)
  BY <1>1 DEF Never
<1>3. statusFromAge(age, near, far) = "healthy"
  BY <1>2 DEF statusFromAge
<1> QED
  BY <1>3 DEF near, far

LEMMA HealthClosed ==
  ASSUME world \in Observable
  PROVE  HealthFailsClosed
<1> SUFFICES ASSUME getSystemHealth(world) = "healthy"
             PROVE  /\ world.db = "fast" /\ world.redis \in {"unset", "pong"} /\ world.quant \in {"unset", "pong"}
                    /\ \A k \in MarketStreams : world.lag[k] > 2 * Minute => \E j \in MarketStreams : world.lag[j] \in 0..2 * Minute
                    /\ ~(world.job.failed /\ world.job.age \in 0..5 * Minute)
  BY DEF HealthFailsClosed
<1>1. /\ world.db = "fast" /\ world.redis \in {"unset", "pong"} /\ world.quant \in {"unset", "pong"}
      /\ probeIngestion(world) \notin {"failing", "degraded"}
      /\ probeWorkers(world) \notin {"failing", "degraded"}
  BY HealthIs
<1>2. world.db # "down"
  BY <1>1
<1>3. ASSUME NEW k \in MarketStreams, world.lag[k] > 2 * Minute
      PROVE  \E j \in MarketStreams : world.lag[j] \in 0..2 * Minute
  <2> DEFINE S == {world.lag[s] : s \in MarketStreams}
             m == Newest(S)
  <2>1. S \in SUBSET Ages /\ world.lag[k] \in S /\ world.lag[k] \in Ages
    BY WorldIs, StreamsAre
  <2>2. world.lag[k] # Never
    BY <1>3, <2>1 DEF Never, Minute, Ages
  <2>3. m # Never
    BY <2>1, <2>2, NewestIs
  <2>4. m \in S /\ m \in Nat
    BY <2>1, <2>3, NewestIs
  <2>5. probeIngestion(world) = statusFromAge(m, 2 * Minute, Hour)
    BY <1>2 DEF probeIngestion, MarketAge
  <2> HIDE DEF m
  <2>6. m \in 0 .. 2 * Minute
    <3>1. ASSUME ~(m \in 0 .. 2 * Minute) PROVE FALSE
      <4>1. statusFromAge(m, 2 * Minute, Hour) \in {"degraded", "failing"}
        BY <2>3, <2>4, <3>1 DEF statusFromAge, Minute, Hour
      <4> QED
        BY <1>1, <2>5, <4>1
    <3> QED
      BY <3>1
  <2> QED
    BY <2>4, <2>6
<1>4. ASSUME world.job.failed, world.job.age \in 0..5 * Minute
      PROVE  FALSE
  <2> DEFINE S == {world.job.age, world.lag["engineSignal"]}
             m == Newest(S)
             recent == statusFromAge(m, 5 * Minute, Hour)
  <2>1. S \in SUBSET Ages /\ world.job.age \in S
    BY WorldIs DEF Streams
  <2>2. world.job.age # Never /\ world.job.age \in Nat
    BY <1>4 DEF Never, Minute
  <2>3. m # Never
    BY <2>1, <2>2, NewestIs
  <2>4. m \in Nat /\ m <= world.job.age
    BY <2>1, <2>2, <2>3, NewestIs
  <2> HIDE DEF m
  <2>5. m \in 0 .. 5 * Minute
    BY <1>4, <2>4 DEF Minute
  <2>6. recent = "healthy"
    BY <2>3, <2>5, RecentIsHealthy
  <2>7. probeWorkers(world) = "degraded"
    BY <1>2, <1>4, <2>2, <2>6 DEF probeWorkers, m
  <2> QED
    BY <1>1, <2>7
<1> QED
  BY <1>1, <1>3, <1>4

\* The worst of a set under an order of distinct values: nothing in the set
\* comes after it.
LEMMA WorstIs ==
  ASSUME NEW T, NEW order \in Seq(T), NEW S \in SUBSET Members(order), S # {},
         \A i, j \in DOMAIN order : order[i] = order[j] => i = j
  PROVE  \E k \in DOMAIN order : /\ Worst(order, S) = order[k]
                                 /\ \A u \in S : \E i \in 1 .. k : order[i] = u
<1> DEFINE rank(v) == CHOOSE k \in DOMAIN order : order[k] = v
           K == {Len(order) - rank(v) : v \in S}
<1>1. \A v \in S : rank(v) \in DOMAIN order /\ order[rank(v)] = v
  BY DEF Members
<1>2. DOMAIN order = 1 .. Len(order) /\ Len(order) \in Nat
  OBVIOUS
<1>3. \A v \in S : rank(v) \in Nat /\ 1 <= rank(v) /\ rank(v) <= Len(order)
  BY <1>1, <1>2
<1>4. Worst(order, S) = CHOOSE v \in S : \A u \in S : rank(u) <= rank(v)
  BY Zenon DEF Worst
<1> HIDE DEF rank
<1>5. K \in SUBSET Nat /\ K # {}
  BY <1>2, <1>3
<1>6. PICK m \in K : \A k \in K : m <= k
  BY <1>5, LeastNumber
<1>7. PICK v \in S : m = Len(order) - rank(v)
  BY <1>6
<1>8. \A u \in S : rank(u) <= rank(v)
  <2>1. \A u \in S : Len(order) - rank(v) <= Len(order) - rank(u)
    BY <1>6, <1>7
  <2> QED
    BY <1>2, <1>3, <2>1
<1>9. Worst(order, S) \in S /\ \A u \in S : rank(u) <= rank(Worst(order, S))
  BY <1>4, <1>8
<1> DEFINE top == rank(Worst(order, S))
<1>10. top \in DOMAIN order /\ Worst(order, S) = order[top]
  BY <1>1, <1>9
<1>11. \A u \in S : rank(u) \in 1 .. top /\ order[rank(u)] = u
  BY <1>1, <1>3, <1>9
<1> QED
  BY <1>10, <1>11

\* What the data flow monitor says of a stream.
LEMMA FlowIs ==
  ASSUME NEW lag, \A s \in Streams : lag[s] \in Ages
  PROVE  LET flow == freshnessOf(lag)
         IN /\ DOMAIN flow = Streams
            /\ \A s \in Streams : flow[s] \in {"fresh", "unknown", "warning", "stale"}
            /\ \A s \in Watched :
                 /\ flow[s] = "stale" => flow[s] # "unknown" /\ lag[s] > STALE_RULES[s]
                 /\ flow[s] = "fresh" => lag[s] # Never /\ ~(lag[s] > STALE_RULES[s])
<1> DEFINE flow == freshnessOf(lag)
<1>1. /\ DOMAIN flow = Streams
      /\ \A s \in Streams : flow[s] = freshnessFromLag(lag[s], STREAM_THRESHOLDS[s].warning, STREAM_THRESHOLDS[s].stale)
  BY StreamsAre DEF freshnessOf
<1> HIDE DEF flow
<1>2. \A s \in Streams : flow[s] \in {"fresh", "unknown", "warning", "stale"}
  BY <1>1 DEF freshnessFromLag
<1>3. \A s \in Watched : /\ STREAM_THRESHOLDS[s].warning \in Nat /\ STREAM_THRESHOLDS[s].stale \in Nat /\ STALE_RULES[s] \in Nat
                         /\ STREAM_THRESHOLDS[s].warning <= STALE_RULES[s]
                         /\ STALE_RULES[s] <= STREAM_THRESHOLDS[s].stale
  BY DEF Watched, STREAM_THRESHOLDS, STALE_RULES
<1>4. ASSUME NEW s \in Watched, flow[s] = "stale"
      PROVE  flow[s] # "unknown" /\ lag[s] > STALE_RULES[s]
  <2>1. /\ s \in Streams /\ lag[s] \in Ages
        /\ flow[s] = freshnessFromLag(lag[s], STREAM_THRESHOLDS[s].warning, STREAM_THRESHOLDS[s].stale)
    BY <1>1, StreamsAre
  <2>2. lag[s] # Never /\ ~(lag[s] <= STREAM_THRESHOLDS[s].stale)
    BY <1>4, <2>1 DEF freshnessFromLag
  <2>3. lag[s] \in Nat
    BY <2>1, <2>2 DEF Ages
  <2> QED
    BY <1>3, <1>4, <2>2, <2>3
<1>5. ASSUME NEW s \in Watched, flow[s] = "fresh"
      PROVE  lag[s] # Never /\ ~(lag[s] > STALE_RULES[s])
  <2>1. /\ s \in Streams /\ lag[s] \in Ages
        /\ flow[s] = freshnessFromLag(lag[s], STREAM_THRESHOLDS[s].warning, STREAM_THRESHOLDS[s].stale)
    BY <1>1, StreamsAre
  <2>2. lag[s] # Never /\ lag[s] <= STREAM_THRESHOLDS[s].warning
    BY <1>5, <2>1 DEF freshnessFromLag
  <2>3. lag[s] \in Nat
    BY <2>1, <2>2 DEF Ages
  <2> QED
    BY <1>3, <2>2, <2>3
<1> QED
  BY <1>1, <1>2, <1>4, <1>5 DEF flow

\* All fresh means every stream.
LEMMA WorstFresh ==
  ASSUME NEW f, DOMAIN f = Streams, \A s \in Streams : f[s] \in {"fresh", "unknown", "warning", "stale"},
         worstFreshness(f) = "fresh"
  PROVE  \A s \in Streams : f[s] = "fresh"
<1> DEFINE order == <<"fresh", "unknown", "warning", "stale">>
           S == {"fresh"} \cup {f[s] : s \in DOMAIN f}
<1>1. /\ order \in Seq({"fresh", "unknown", "warning", "stale"}) /\ Len(order) = 4 /\ DOMAIN order = 1 .. Len(order)
      /\ order[1] = "fresh" /\ order[2] = "unknown" /\ order[3] = "warning" /\ order[4] = "stale"
  OBVIOUS
<1>2. worstFreshness(f) = Worst(order, S)
  BY DEF worstFreshness
<1> HIDE DEF order
<1>3. \A k \in DOMAIN order : k = 1 \/ k = 2 \/ k = 3 \/ k = 4
  BY <1>1
<1>4. Members(order) = {"fresh", "unknown", "warning", "stale"}
  <2>1. 1 \in DOMAIN order /\ 2 \in DOMAIN order /\ 3 \in DOMAIN order /\ 4 \in DOMAIN order
    BY <1>1
  <2> QED
    BY <1>1, <1>3, <2>1 DEF Members
<1>5. S \in SUBSET Members(order) /\ S # {}
  BY <1>4
<1>6. \A i, j \in DOMAIN order : order[i] = order[j] => i = j
  BY <1>1, <1>3
<1>7. PICK k \in DOMAIN order : Worst(order, S) = order[k] /\ \A u \in S : \E i \in 1 .. k : order[i] = u
  <2> HIDE DEF S
  <2> QED
    BY <1>1, <1>5, <1>6, WorstIs
<1>8. k = 1
  BY <1>1, <1>2, <1>3, <1>7
<1>9. \A i \in 1 .. k : i = 1
  BY <1>8
<1>10. \A u \in S : u = "fresh"
  BY <1>1, <1>7, <1>9
<1> QED
  BY <1>10

\* The state of a stage.
LEMMA StageIs ==
  ASSUME NEW age \in Ages, NEW stage, NEW F, NEW near, NEW far
  PROVE  deriveStageState(age, stage \in F, near, far) \in {"active", "idle", "empty", "unknown", "degraded", "failing"}
<1>1. CASE age = Never
  BY <1>1 DEF deriveStageState
<1>2. CASE age # Never /\ stage \in F
  BY <1>2 DEF deriveStageState
<1>3. CASE age # Never /\ stage \notin F
  BY <1>3 DEF deriveStageState
<1> QED
  BY <1>1, <1>2, <1>3

\* A quiet pipeline has a quiet risk stage.
LEMMA WorstQuiet ==
  ASSUME NEW w \in Observable, worstStageState(stages(w)) \in {"active", "idle"}
  PROVE  riskStage(w) \in {"active", "idle"}
<1> DEFINE order == <<"active", "idle", "empty", "unknown", "degraded", "failing">>
           st == stages(w)
           S == {"active"} \cup {st[k] : k \in DOMAIN st}
           States == {"active", "idle", "empty", "unknown", "degraded", "failing"}
<1>1. /\ order \in Seq(States) /\ Len(order) = 6 /\ DOMAIN order = 1 .. Len(order)
      /\ order[1] = "active" /\ order[2] = "idle" /\ order[3] = "empty" /\ order[4] = "unknown"
      /\ order[5] = "degraded" /\ order[6] = "failing"
  OBVIOUS
<1>2. worstStageState(st) = Worst(order, S) /\ worstStageState(st) \in {"active", "idle"}
  BY DEF worstStageState
<1> HIDE DEF order
<1>3. \A k \in DOMAIN order : k = 1 \/ k = 2 \/ k = 3 \/ k = 4 \/ k = 5 \/ k = 6
  BY <1>1
<1>4. Members(order) = States
  <2>1. 1 \in DOMAIN order /\ 2 \in DOMAIN order /\ 3 \in DOMAIN order /\ 4 \in DOMAIN order /\ 5 \in DOMAIN order /\ 6 \in DOMAIN order
    BY <1>1
  <2> QED
    BY <1>1, <1>3, <2>1 DEF Members
<1>5. /\ DOMAIN st = {"exchange", "ingestion", "dataQuality", "featureGeneration", "signalEngine", "riskEngine", "execution", "persistence"}
      /\ st["riskEngine"] = riskStage(w)
      /\ \A k \in DOMAIN st : st[k] \in States
  <2>1. /\ w.dq \in Ages /\ w.lag["featureSnapshot"] \in Ages /\ w.lag["engineSignal"] \in Ages /\ w.exec \in Ages
    BY WorldIs DEF Observable, Streams
  <2>2. MarketAge(w) \in Ages
    <3> DEFINE M == {w.lag[s] : s \in MarketStreams}
    <3>1. M \in SUBSET Ages
      BY WorldIs, StreamsAre
    <3>2. Newest(M) = Never \/ Newest(M) \in M
      BY <3>1, NewestIs
    <3> QED
      BY <3>1, <3>2 DEF MarketAge, Ages
  <2>4. /\ deriveStageState(MarketAge(w), "exchange" \in w.failed, 60, 600) \in States
        /\ deriveStageState(MarketAge(w), "ingestion" \in w.failed, 60, 600) \in States
        /\ deriveStageState(w.dq, "dataQuality" \in w.failed, 300, 3600) \in States
        /\ deriveStageState(w.lag["featureSnapshot"], "featureGeneration" \in w.failed, 120, 1800) \in States
        /\ deriveStageState(w.lag["engineSignal"], "signalEngine" \in w.failed, 60, 600) \in States
        /\ deriveStageState(w.exec, "execution" \in w.failed, 120, 600) \in States
    BY <2>1, <2>2, StageIs
  <2>5. riskStage(w) \in States /\ executionStage(w) \in States /\ persistenceStage(w) \in States
    BY <2>4 DEF riskStage, executionStage, persistenceStage
  <2> QED
    BY <2>4, <2>5 DEF stages
<1> HIDE DEF st
<1>6. S \in SUBSET Members(order) /\ S # {}
  BY <1>4, <1>5
<1>7. \A i, j \in DOMAIN order : order[i] = order[j] => i = j
  BY <1>1, <1>3
<1>8. PICK k \in DOMAIN order : Worst(order, S) = order[k] /\ \A u \in S : \E i \in 1 .. k : order[i] = u
  <2> HIDE DEF S
  <2> QED
    BY <1>1, <1>6, <1>7, WorstIs
<1>9. k = 1 \/ k = 2
  BY <1>1, <1>2, <1>3, <1>8
<1>10. \A i \in 1 .. k : i = 1 \/ i = 2
  BY <1>9
<1>11. \A u \in S : u \in {"active", "idle"}
  BY <1>1, <1>8, <1>10
<1> QED
  BY <1>5, <1>11

\* Which rules a world fires.
LEMMA FiringIs ==
  ASSUME NEW w \in Observable
  PROVE  LET c == components(w)
             flow == freshnessOf(w.lag)
             firing == Members(evaluateAlertRules(c, w.lag, flow))
         IN /\ firing \subseteq Rules
            /\ \A r \in {"database", "redis", "quant"} :
                 /\ severity(r) = "CRITICAL" /\ r \in Rules
                 /\ r \in firing <=> c[r] = "failing"
            /\ \A r \in Watched :
                 /\ severity(r) = "WARNING" /\ r \in Rules
                 /\ r \in firing <=> staleRule(flow, w.lag, r)
<1> DEFINE c == components(w)
           flow == freshnessOf(w.lag)
           firing == Members(evaluateAlertRules(c, w.lag, flow))
<1>1. firing = {r \in Rules : fires(c, w.lag, flow, r)}
  BY RulesAre
<1> HIDE DEF c, flow, firing
<1>2. ASSUME NEW r \in {"database", "redis", "quant"}
      PROVE  r \notin DOMAIN STALE_RULES /\ r \in Rules
  BY StreamsAre DEF Rules, Watched
<1>3. ASSUME NEW r \in Watched
      PROVE  r \in DOMAIN STALE_RULES /\ r \in Rules
  BY StreamsAre DEF Rules, Watched
<1>4. ASSUME NEW r \in {"database", "redis", "quant"}
      PROVE  /\ severity(r) = "CRITICAL" /\ r \in Rules
             /\ r \in firing <=> c[r] = "failing"
  BY <1>1, <1>2 DEF severity, fires
<1>5. ASSUME NEW r \in Watched
      PROVE  /\ severity(r) = "WARNING" /\ r \in Rules
             /\ r \in firing <=> staleRule(flow, w.lag, r)
  BY <1>1, <1>3 DEF severity, fires
<1> QED
  BY <1>1, <1>4, <1>5 DEF c, flow, firing

\* What the views answer while the database does, and that none of them does
\* without it.
LEMMA ViewsAre ==
  ASSUME NEW w
  PROVE  /\ w.db = "down" => /\ getDataFlowMonitor(w) = Rejected /\ firingIn(w) = Rejected
                             /\ getOpsPipeline(w) = Rejected
         /\ w.db # "down" =>
              /\ getDataFlowMonitor(w)[1] = freshnessOf(w.lag)
              /\ firingIn(w)[1] = Members(evaluateAlertRules(components(w), w.lag, freshnessOf(w.lag)))
              /\ getOpsPipeline(w)[1] = worstStageState(stages(w))
<1> DEFINE f == freshnessOf(w.lag)
           m == Members(evaluateAlertRules(components(w), w.lag, f))
           p == worstStageState(stages(w))
           flow == getDataFlowMonitor(w)
<1>1. /\ w.db = "down" => flow = <<>>
      /\ w.db # "down" => flow = <<f>>
  BY DEF getDataFlowMonitor, Rejected
<1>2. firingIn(w) = IF flow = Rejected THEN Rejected ELSE <<Members(evaluateAlertRules(components(w), w.lag, flow[1]))>>
  BY DEF firingIn
<1>3. /\ w.db = "down" => getOpsPipeline(w) = <<>>
      /\ w.db # "down" => getOpsPipeline(w) = <<p>>
  BY DEF getOpsPipeline, Rejected
<1> HIDE DEF flow, f
<1>4. <<f>>[1] = f /\ <<f>> # <<>>
  OBVIOUS
<1>5. w.db = "down" => firingIn(w) = Rejected
  BY <1>1, <1>2 DEF Rejected
<1>6. w.db # "down" => firingIn(w) = <<m>>
  BY <1>1, <1>2, <1>4 DEF Rejected
<1> HIDE DEF m, p
<1>7. <<m>>[1] = m /\ <<p>>[1] = p
  OBVIOUS
<1>8. w.db = "down" => flow = Rejected /\ firingIn(w) = Rejected /\ getOpsPipeline(w) = Rejected
  BY <1>1, <1>3, <1>5 DEF Rejected
<1>9. w.db # "down" => flow[1] = f /\ firingIn(w)[1] = m /\ getOpsPipeline(w)[1] = p
  BY <1>1, <1>3, <1>4, <1>6, <1>7
<1> QED
  BY <1>8, <1>9 DEF flow, f, m, p

LEMMA ViewsDoAgree ==
  ASSUME world \in Observable
  PROVE  ViewsAgree
<1> DEFINE health == getSystemHealth(world)
           flow == freshnessOf(world.lag)
           c == components(world)
           firing == Members(evaluateAlertRules(c, world.lag, flow))
           critical == {r \in firing : severity(r) = "CRITICAL"}
           pipeline == worstStageState(stages(world))
<1>1. /\ firing \subseteq Rules
      /\ \A r \in {"database", "redis", "quant"} : severity(r) = "CRITICAL" /\ (r \in firing <=> c[r] = "failing")
      /\ \A r \in Watched : severity(r) = "WARNING" /\ (r \in firing <=> staleRule(flow, world.lag, r))
  BY FiringIs
<1>2. \A s \in Streams : world.lag[s] \in Ages
  BY WorldIs
<1>3. /\ DOMAIN flow = Streams
      /\ \A s \in Streams : flow[s] \in {"fresh", "unknown", "warning", "stale"}
      /\ \A s \in Watched : /\ flow[s] = "stale" => flow[s] # "unknown" /\ world.lag[s] > STALE_RULES[s]
                            /\ flow[s] = "fresh" => world.lag[s] # Never /\ ~(world.lag[s] > STALE_RULES[s])
  BY <1>2, FlowIs
<1>4. c["database"] = probeDatabase(world) /\ c["redis"] = probeRedis(world) /\ c["quant"] = probeQuant(world)
  BY ComponentsAre
<1>5. Rules = {"database", "redis", "quant"} \cup Watched
  BY DEF Rules, Watched
<1> HIDE DEF health, firing, flow, c, pipeline
<1>6. \A r \in critical : r \in {"database", "redis", "quant"} /\ c[r] = "failing"
  BY <1>1, <1>5
<1>7. health = "healthy" => critical = {}
  <2> SUFFICES ASSUME health = "healthy" PROVE critical = {}
    OBVIOUS
  <2>1. world.db = "fast" /\ world.redis \in {"unset", "pong"} /\ world.quant \in {"unset", "pong"}
    BY HealthIs DEF health
  <2>2. c["database"] # "failing" /\ c["redis"] # "failing" /\ c["quant"] # "failing"
    BY <1>4, <2>1 DEF probeDatabase, probeRedis, probeQuant
  <2> QED
    BY <1>6, <2>2
<1>8. health = "critical" => critical # {}
  <2> SUFFICES ASSUME health = "critical" PROVE critical # {}
    OBVIOUS
  <2>1. world.db = "down" \/ world.redis = "refused"
    BY HealthIs DEF health
  <2>2. c["database"] = "failing" \/ c["redis"] = "failing"
    BY <1>4, <2>1, ProbesAre
  <2> QED
    BY <1>1, <2>2
<1>9. \A s \in DOMAIN STALE_RULES : flow[s] = "stale" => s \in firing
  BY <1>1, <1>3, StreamsAre DEF staleRule
<1>10. worstFreshness(flow) = "fresh" => firing = critical
  <2> SUFFICES ASSUME worstFreshness(flow) = "fresh" PROVE firing \subseteq critical
    OBVIOUS
  <2>1. \A s \in Streams : flow[s] = "fresh"
    BY <1>3, WorstFresh
  <2>2. \A s \in Watched : s \notin firing
    BY <1>1, <1>3, <2>1, StreamsAre DEF staleRule
  <2> QED
    BY <1>1, <1>5, <2>2
<1>11. pipeline \in {"active", "idle"} => ~world.risk.open /\ world.risk.mode \in {"none", "NORMAL"}
  BY WorstQuiet DEF riskStage, pipeline
<1>12. CASE world.db = "down"
  <2>1. health = "critical"
    BY <1>12, HealthIs DEF health
  <2> QED
    BY <1>12, <2>1, ViewsAre DEF ViewsAgree, health
<1>13. CASE world.db # "down"
  <2> DEFINE F == getDataFlowMonitor(world)
             R == firingIn(world)
             P == getOpsPipeline(world)
  <2>1. F[1] = flow /\ R[1] = firing /\ P[1] = pipeline
    BY <1>13, ViewsAre DEF flow, firing, pipeline, c
  <2> HIDE DEF F, R, P
  <2>2. /\ health = "healthy" => {r \in R[1] : severity(r) = "CRITICAL"} = {}
        /\ health = "critical" => {r \in R[1] : severity(r) = "CRITICAL"} # {}
        /\ \A s \in DOMAIN STALE_RULES : F[1][s] = "stale" => s \in R[1]
        /\ worstFreshness(F[1]) = "fresh" => R[1] = {r \in R[1] : severity(r) = "CRITICAL"}
        /\ P[1] \in {"active", "idle"} => ~world.risk.open /\ world.risk.mode \in {"none", "NORMAL"}
    BY <1>7, <1>8, <1>9, <1>10, <1>11, <2>1
  <2> QED
    BY <1>13, <2>2 DEF ViewsAgree, health, F, R, P
<1> QED
  BY <1>12, <1>13

-----------------------------------------------------------------------------
GetFields == {"pc", "health", "flow", "todo", "firing", "resolve", "excused"}
Persisting == {"update", "create", "bump", "list", "resolve", "answer"}

\* A request in progress: what it still has to write is part of what fires,
\* what it has written is in the table unless excused, and it resolves nothing
\* that it saw firing.
GetSound(q, table) ==
  \/ q = NoGet
  \/ /\ DOMAIN q = GetFields
     /\ q.pc \in Persisting \cup {"probe"}
     /\ q.todo \in Seq(Rules) /\ q.firing \subseteq Rules
     /\ Members(q.todo) \subseteq q.firing
     /\ q.resolve \cap q.firing = {}
     /\ q.pc = "probe" => q.firing = {} /\ q.resolve = {}
     /\ q.pc \in {"update", "create", "bump"} => q.todo # <<>>
     /\ q.pc \in {"list", "resolve", "answer"} => q.todo = <<>>
     /\ (q.firing \ q.excused) \ Members(q.todo) \subseteq table
     /\ q.pc = "bump" => Head(q.todo) \in table \cup q.excused

OpsInv ==
  /\ world \in Observable
  /\ DOMAIN get = Gets
  /\ \A g \in Gets : GetSound(get[g], active)

LEMMA OpsInvHonest ==
  ASSUME OpsInv
  PROVE  ViewsHonest
<1>1. HealthFailsClosed /\ ViewsAgree
  BY HealthClosed, ViewsDoAgree DEF OpsInv
<1>2. ASSUME NEW g \in Gets, get[g].pc = "answer"
      PROVE  get[g].firing \ get[g].excused \subseteq active
  <2>1. GetSound(get[g], active)
    BY DEF OpsInv
  <2>2. get[g] # NoGet
    BY <1>2 DEF NoGet
  <2>3. get[g].todo = <<>> /\ (get[g].firing \ get[g].excused) \ Members(get[g].todo) \subseteq active
    BY <1>2, <2>1, <2>2 DEF GetSound
  <2>4. Members(<<>>) = {}
    BY DEF Members
  <2> QED
    BY <2>3, <2>4
<1> QED
  BY <1>1, <1>2 DEF ViewsHonest, AnswersAreComplete

LEMMA TodoIs ==
  ASSUME NEW todo \in Seq(Rules), todo # <<>>
  PROVE  /\ Tail(todo) \in Seq(Rules) /\ Head(todo) \in Rules
         /\ Members(todo) = {Head(todo)} \cup Members(Tail(todo))
<1>1. /\ Tail(todo) \in Seq(Rules) /\ Head(todo) \in Rules /\ Head(todo) = todo[1]
      /\ Len(todo) \in Nat /\ Len(todo) >= 1 /\ Len(Tail(todo)) = Len(todo) - 1
      /\ \A k \in 1 .. Len(todo) - 1 : Tail(todo)[k] = todo[k + 1]
  OBVIOUS
<1>2. DOMAIN todo = 1 .. Len(todo) /\ DOMAIN Tail(todo) = 1 .. Len(Tail(todo))
  BY <1>1
<1>3. ASSUME NEW x \in Members(todo) PROVE x \in {Head(todo)} \cup Members(Tail(todo))
  <2>1. PICK k \in 1 .. Len(todo) : x = todo[k]
    BY <1>2 DEF Members
  <2>2. CASE k = 1
    BY <1>1, <2>1, <2>2
  <2>3. CASE k # 1
    <3>1. k - 1 \in 1 .. Len(todo) - 1 /\ (k - 1) + 1 = k
      BY <1>1, <2>3
    <3>2. Tail(todo)[k - 1] = x
      BY <1>1, <2>1, <3>1
    <3> QED
      BY <1>1, <1>2, <3>1, <3>2 DEF Members
  <2> QED
    BY <2>2, <2>3
<1>4. Head(todo) \in Members(todo)
  BY <1>1, <1>2 DEF Members
<1>5. ASSUME NEW x \in Members(Tail(todo)) PROVE x \in Members(todo)
  <2>1. PICK k \in 1 .. Len(todo) - 1 : x = Tail(todo)[k]
    BY <1>1, <1>2, <1>5 DEF Members
  <2>2. x = todo[k + 1] /\ k + 1 \in 1 .. Len(todo)
    BY <1>1, <2>1
  <2> QED
    BY <1>2, <2>2 DEF Members
<1> QED
  BY <1>1, <1>3, <1>4, <1>5

\* More rows leave a request sound.
LEMMA MoreRows ==
  ASSUME NEW q, NEW table, NEW more, GetSound(q, table), table \subseteq more
  PROVE  GetSound(q, more)
BY DEF GetSound

\* A step of one request that resolves nothing.
LEMMA OneGet ==
  ASSUME OpsInv, NEW g \in Gets, NEW q, get' = [get EXCEPT ![g] = q],
         active \subseteq active', GetSound(q, active'), world' = world
  PROVE  OpsInv'
<1>1. world' \in Observable /\ DOMAIN get' = Gets
  BY DEF OpsInv
<1>2. ASSUME NEW h \in Gets PROVE GetSound(get'[h], active')
  <2>1. CASE h = g
    BY <2>1 DEF OpsInv
  <2>2. CASE h # g
    <3>1. get'[h] = get[h] /\ GetSound(get[h], active)
      BY <2>2 DEF OpsInv
    <3> QED
      BY <3>1, MoreRows
  <2> QED
    BY <2>1, <2>2
<1> QED
  BY <1>1, <1>2 DEF OpsInv

\* What a request in progress looks like.
LEMMA GetIs ==
  ASSUME OpsInv, NEW g \in Gets, get[g].pc # "idle"
  PROVE  /\ DOMAIN get[g] = GetFields
         /\ get[g].pc \in Persisting \cup {"probe"}
         /\ get[g].todo \in Seq(Rules) /\ get[g].firing \subseteq Rules
         /\ Members(get[g].todo) \subseteq get[g].firing
         /\ get[g].resolve \cap get[g].firing = {}
         /\ get[g].pc = "probe" => get[g].firing = {} /\ get[g].resolve = {}
         /\ get[g].pc \in {"update", "create", "bump"} => get[g].todo # <<>>
         /\ get[g].pc \in {"list", "resolve", "answer"} => get[g].todo = <<>>
         /\ (get[g].firing \ get[g].excused) \ Members(get[g].todo) \subseteq active
         /\ get[g].pc = "bump" => Head(get[g].todo) \in active \cup get[g].excused
<1>1. GetSound(get[g], active) /\ get[g] # NoGet
  BY DEF OpsInv, NoGet
<1> QED
  BY <1>1 DEF GetSound

LEMMA NoGetSound ==
  ASSUME NEW table
  PROVE  GetSound(NoGet, table)
BY DEF GetSound

LEMMA GetStartSound ==
  ASSUME OpsInv, NEW g \in Gets, GetStart(g)
  PROVE  OpsInv'
<1> DEFINE q == [pc |-> "probe", health |-> Unread, flow |-> Unread, todo |-> <<>>,
                 firing |-> {}, resolve |-> {}, excused |-> {}]
<1>1. get' = [get EXCEPT ![g] = q] /\ active' = active /\ world' = world
  BY DEF GetStart
<1>2. Members(<<>>) = {} /\ <<>> \in Seq(Rules)
  BY DEF Members
<1>3. GetSound(q, active')
  BY <1>2 DEF GetSound, GetFields, Persisting
<1> HIDE DEF q
<1> QED
  BY <1>1, <1>3, OneGet

LEMMA ReadSound ==
  ASSUME OpsInv, NEW g \in Gets, ReadHealth(g) \/ ReadFlow(g)
  PROVE  OpsInv'
<1>1. get[g].pc = "probe" /\ active' = active /\ world' = world
  BY DEF ReadHealth, ReadFlow
<1>2. PICK q : /\ get' = [get EXCEPT ![g] = q]
               /\ q = NoGet \/ (\E v : q = [get[g] EXCEPT !.health = v] \/ q = [get[g] EXCEPT !.flow = v])
  BY DEF ReadHealth, ReadFlow
<1>3. GetSound(q, active')
  <2>1. CASE q = NoGet
    BY <2>1, NoGetSound
  <2>2. CASE \E v : q = [get[g] EXCEPT !.health = v] \/ q = [get[g] EXCEPT !.flow = v]
    <3>1. DOMAIN get[g] = GetFields
      BY <1>1, GetIs
    <3>2. /\ DOMAIN q = GetFields /\ q.pc = get[g].pc /\ q.todo = get[g].todo /\ q.firing = get[g].firing
          /\ q.resolve = get[g].resolve /\ q.excused = get[g].excused
      BY <2>2, <3>1 DEF GetFields
    <3> QED
      BY <1>1, <3>2, GetIs DEF GetSound
  <2> QED
    BY <1>2, <2>1, <2>2
<1> QED
  BY <1>1, <1>2, <1>3, OneGet

LEMMA EvaluateSound ==
  ASSUME OpsInv, NEW g \in Gets, Evaluate(g)
  PROVE  OpsInv'
<1> DEFINE lag == get[g].flow[1]
           rules == evaluateAlertRules(get[g].health[1], lag, freshnessOf(lag))
           q == [get[g] EXCEPT !.pc = AfterRule(rules), !.todo = rules, !.firing = Members(rules),
                               !.health = Unread, !.flow = Unread]
<1>1. get[g].pc = "probe" /\ active' = active /\ world' = world
  BY DEF Evaluate
<1>2. get' = [get EXCEPT ![g] = q]
  BY DEF Evaluate, OpsInv
<1>3. rules \in Seq(Rules) /\ Members(rules) \subseteq Rules
  BY RulesAre
<1> HIDE DEF rules
<1>4. DOMAIN get[g] = GetFields /\ get[g].resolve = {}
  BY <1>1, GetIs
<1>5. /\ DOMAIN q = GetFields /\ q.pc = AfterRule(rules) /\ q.todo = rules /\ q.firing = Members(rules)
      /\ q.resolve = {} /\ q.excused = get[g].excused
  BY <1>4 DEF GetFields
<1> HIDE DEF q
<1>6. GetSound(q, active')
  BY <1>3, <1>5 DEF GetSound, AfterRule, Persisting
<1> QED
  BY <1>1, <1>2, <1>6, OneGet

\* A rule that is dealt with: its row is there, or another request saw the
\* rule quiet and resolved it.
LEMMA RuleDoneSound ==
  ASSUME OpsInv, NEW g \in Gets, get[g].pc \in {"update", "create", "bump"},
         get' = RuleDone(g), active \subseteq active', world' = world,
         Head(get[g].todo) \in active' \cup get[g].excused
  PROVE  OpsInv'
<1> DEFINE rest == Tail(get[g].todo)
           q == [get[g] EXCEPT !.todo = rest, !.pc = AfterRule(rest)]
<1>1. get' = [get EXCEPT ![g] = q]
  BY DEF RuleDone, OpsInv
<1>2. /\ DOMAIN get[g] = GetFields
      /\ get[g].todo \in Seq(Rules) /\ get[g].todo # <<>> /\ get[g].firing \subseteq Rules
      /\ Members(get[g].todo) \subseteq get[g].firing
      /\ get[g].resolve \cap get[g].firing = {}
      /\ (get[g].firing \ get[g].excused) \ Members(get[g].todo) \subseteq active
  BY GetIs
<1>3. rest \in Seq(Rules) /\ Members(get[g].todo) = {Head(get[g].todo)} \cup Members(rest)
  BY <1>2, TodoIs
<1> HIDE DEF rest
<1>4. /\ DOMAIN q = GetFields /\ q.pc = AfterRule(rest) /\ q.todo = rest /\ q.firing = get[g].firing
      /\ q.resolve = get[g].resolve /\ q.excused = get[g].excused
  BY <1>2 DEF GetFields
<1> HIDE DEF q
<1>5. (q.firing \ q.excused) \ Members(q.todo) \subseteq active'
  BY <1>2, <1>3, <1>4
<1>6. GetSound(q, active')
  BY <1>2, <1>3, <1>4, <1>5 DEF GetSound, AfterRule, Persisting
<1> QED
  BY <1>1, <1>6, OneGet

\* A request that only moves on.
LEMMA MovesOn ==
  ASSUME OpsInv, NEW g \in Gets, get[g].pc # "idle", NEW pc \in Persisting,
         get' = [get EXCEPT ![g].pc = pc], active' = active, world' = world,
         pc \in {"update", "create", "bump"} => get[g].todo # <<>>,
         pc \in {"list", "resolve", "answer"} => get[g].todo = <<>>,
         pc = "bump" => Head(get[g].todo) \in active
  PROVE  OpsInv'
<1> DEFINE q == [get[g] EXCEPT !.pc = pc]
<1>1. get' = [get EXCEPT ![g] = q]
  OBVIOUS
<1>2. /\ DOMAIN q = GetFields /\ q.pc = pc /\ q.todo = get[g].todo /\ q.firing = get[g].firing
      /\ q.resolve = get[g].resolve /\ q.excused = get[g].excused
  BY GetIs DEF GetFields
<1> HIDE DEF q
<1>3. GetSound(q, active')
  BY <1>2, GetIs DEF GetSound, Persisting
<1> QED
  BY <1>1, <1>3, OneGet

LEMMA UpdateSound ==
  ASSUME OpsInv, NEW g \in Gets, UpdateFirst(g)
  PROVE  OpsInv'
<1>1. get[g].pc = "update" /\ active' = active /\ world' = world
  BY DEF UpdateFirst, DbAnswers
<1>2. CASE Head(get[g].todo) \in active
  BY <1>1, <1>2, RuleDoneSound DEF UpdateFirst
<1>3. CASE Head(get[g].todo) \notin active
  <2>1. get' = [get EXCEPT ![g].pc = "create"]
    BY <1>3 DEF UpdateFirst
  <2>2. get[g].todo # <<>>
    BY <1>1, GetIs
  <2>3. "create" \in Persisting
    BY DEF Persisting
  <2> QED
    BY <1>1, <2>1, <2>2, <2>3, MovesOn
<1> QED
  BY <1>2, <1>3

LEMMA CreateSound ==
  ASSUME OpsInv, NEW g \in Gets, CreateAlert(g)
  PROVE  OpsInv'
<1>1. get[g].pc = "create" /\ world' = world
  BY DEF CreateAlert, DbAnswers
<1>2. CASE Head(get[g].todo) \in active
  <2>1. get' = [get EXCEPT ![g].pc = "bump"] /\ active' = active
    BY <1>2 DEF CreateAlert
  <2>2. get[g].todo # <<>>
    BY <1>1, GetIs
  <2>3. "bump" \in Persisting
    BY DEF Persisting
  <2> QED
    BY <1>1, <1>2, <2>1, <2>2, <2>3, MovesOn
<1>3. CASE Head(get[g].todo) \notin active
  <2>1. get' = RuleDone(g) /\ active' = active \cup {Head(get[g].todo)}
    BY <1>3 DEF CreateAlert
  <2> QED
    BY <1>1, <2>1, RuleDoneSound
<1> QED
  BY <1>2, <1>3

LEMMA BumpSound ==
  ASSUME OpsInv, NEW g \in Gets, Bump(g)
  PROVE  OpsInv'
<1>1. get[g].pc = "bump" /\ active' = active /\ world' = world /\ get' = RuleDone(g)
  BY DEF Bump, DbAnswers
<1>2. Head(get[g].todo) \in active \cup get[g].excused
  BY <1>1, GetIs
<1> QED
  BY <1>1, <1>2, RuleDoneSound

LEMMA ListSound ==
  ASSUME OpsInv, NEW g \in Gets, ListActive(g)
  PROVE  OpsInv'
<1> DEFINE pc == IF toResolve(g) = {} THEN "answer" ELSE "resolve"
           q == [get[g] EXCEPT !.resolve = toResolve(g), !.pc = pc]
<1>1. get[g].pc = "list" /\ active' = active /\ world' = world
  BY DEF ListActive, DbAnswers
<1>2. get' = [get EXCEPT ![g] = q]
  BY DEF ListActive, OpsInv
<1>3. pc \in {"answer", "resolve"} /\ toResolve(g) \cap get[g].firing = {}
  BY DEF toResolve
<1> HIDE DEF pc
<1>4. DOMAIN get[g] = GetFields
  BY <1>1, GetIs
<1>5. /\ DOMAIN q = GetFields /\ q.pc = pc /\ q.todo = get[g].todo /\ q.firing = get[g].firing
      /\ q.resolve = toResolve(g) /\ q.excused = get[g].excused
  BY <1>4 DEF GetFields
<1> HIDE DEF q
<1>6. GetSound(q, active')
  BY <1>1, <1>3, <1>5, GetIs DEF GetSound, Persisting
<1> QED
  BY <1>1, <1>2, <1>6, OneGet

LEMMA ResolveSound ==
  ASSUME OpsInv, NEW g \in Gets, ResolveAlerts(g)
  PROVE  OpsInv'
<1> DEFINE gone == active \ Resolved(g)
<1>1. /\ get[g].pc = "resolve" /\ active' = active \ get[g].resolve /\ world' = world
      /\ gone = active \cap get[g].resolve
  BY DEF ResolveAlerts, DbAnswers, Resolved
<1>2. get' = [h \in Gets |->
               IF h = g THEN [get[g] EXCEPT !.pc = "answer", !.resolve = {}]
               ELSE IF get[h].pc = "idle" THEN get[h]
               ELSE [get[h] EXCEPT !.resolve = @ \ gone, !.excused = @ \cup (gone \cap get[h].firing)]]
  BY DEF ResolveAlerts
<1> HIDE DEF gone
<1>3. GetSound(get'[g], active')
  <2>1. get'[g] = [get[g] EXCEPT !.pc = "answer", !.resolve = {}]
    BY <1>2
  <2>2. DOMAIN get[g] = GetFields
    BY <1>1, GetIs
  <2>3. /\ DOMAIN get'[g] = GetFields /\ get'[g].pc = "answer" /\ get'[g].todo = get[g].todo
        /\ get'[g].firing = get[g].firing /\ get'[g].resolve = {} /\ get'[g].excused = get[g].excused
    BY <2>1, <2>2 DEF GetFields
  <2>4. /\ get[g].todo \in Seq(Rules) /\ get[g].firing \subseteq Rules /\ get[g].todo = <<>>
        /\ Members(get[g].todo) \subseteq get[g].firing
        /\ get[g].resolve \cap get[g].firing = {}
        /\ (get[g].firing \ get[g].excused) \ Members(get[g].todo) \subseteq active
    BY <1>1, GetIs
  <2>5. (get[g].firing \ get[g].excused) \ Members(get[g].todo) \subseteq active'
    BY <1>1, <2>4
  <2> QED
    BY <2>3, <2>4, <2>5 DEF GetSound, Persisting
<1>4. ASSUME NEW h \in Gets, h # g PROVE GetSound(get'[h], active')
  <2>1. CASE get[h].pc = "idle"
    <3>1. get'[h] = get[h] /\ GetSound(get[h], active)
      BY <1>2, <1>4, <2>1 DEF OpsInv
    <3>2. get[h] = NoGet
      BY <2>1, <3>1 DEF GetSound, Persisting
    <3> QED
      BY <3>1, <3>2, NoGetSound
  <2>2. CASE get[h].pc # "idle"
    <3>1. get'[h] = [get[h] EXCEPT !.resolve = @ \ gone, !.excused = @ \cup (gone \cap get[h].firing)]
      BY <1>2, <1>4, <2>2
    <3>2. DOMAIN get[h] = GetFields
      BY <2>2, GetIs
    <3>3. /\ DOMAIN get'[h] = GetFields /\ get'[h].pc = get[h].pc /\ get'[h].todo = get[h].todo
          /\ get'[h].firing = get[h].firing /\ get'[h].resolve = get[h].resolve \ gone
          /\ get'[h].excused = get[h].excused \cup (gone \cap get[h].firing)
      BY <3>1, <3>2 DEF GetFields
    <3>4. active \ gone = active'
      BY <1>1
    <3>5. (get'[h].firing \ get'[h].excused) \ Members(get'[h].todo) \subseteq active'
      <4>1. (get[h].firing \ get[h].excused) \ Members(get[h].todo) \subseteq active
        BY <2>2, GetIs
      <4> QED
        BY <3>3, <3>4, <4>1
    <3>6. get'[h].pc = "bump" => Head(get'[h].todo) \in active' \cup get'[h].excused
      <4> SUFFICES ASSUME get[h].pc = "bump" PROVE Head(get[h].todo) \in active' \cup get'[h].excused
        BY <3>3
      <4>1. /\ Head(get[h].todo) \in active \cup get[h].excused /\ get[h].todo \in Seq(Rules) /\ get[h].todo # <<>>
            /\ Members(get[h].todo) \subseteq get[h].firing
        BY <2>2, GetIs
      <4>2. Head(get[h].todo) \in get[h].firing
        BY <4>1, TodoIs
      <4> QED
        BY <3>3, <3>4, <4>1, <4>2
    <3>7. get'[h].resolve \cap get'[h].firing = {} /\ (get'[h].pc = "probe" => get'[h].firing = {} /\ get'[h].resolve = {})
      BY <2>2, <3>3, GetIs
    <3> QED
      BY <2>2, <3>3, <3>5, <3>6, <3>7, GetIs DEF GetSound
  <2> QED
    BY <2>1, <2>2
<1>5. DOMAIN get' = Gets /\ world' \in Observable
  BY <1>1, <1>2 DEF OpsInv
<1> QED
  BY <1>3, <1>4, <1>5 DEF OpsInv

LEMMA AnswerSound ==
  ASSUME OpsInv, NEW g \in Gets, Answer(g) \/ AnswerLive(g)
  PROVE  OpsInv'
<1>1. get' = [get EXCEPT ![g] = NoGet] /\ active' = active /\ world' = world
  BY DEF Answer, AnswerLive
<1> QED
  BY <1>1, NoGetSound, OneGet

LEMMA OpsInitSound == OpsInit => OpsInv
BY OpsAssumption, NoGetSound DEF OpsInit, NothingAsked, OpsInv

LEMMA OpsStep == OpsInv /\ [OpsNext]_opsVars => OpsInv'
<1> SUFFICES ASSUME OpsInv, [OpsNext]_opsVars PROVE OpsInv'
  OBVIOUS
<1>1. CASE WorldChanges
  BY <1>1, OpsAssumption DEF WorldChanges, OpsInv
<1>2. ASSUME NEW g \in Gets, GetStart(g) \/ GetStep(g) PROVE OpsInv'
  BY <1>2, GetStartSound, ReadSound, EvaluateSound, UpdateSound, CreateSound, BumpSound, ListSound,
     ResolveSound, AnswerSound DEF GetStep
<1>3. CASE UNCHANGED opsVars
  BY <1>3 DEF OpsInv, opsVars
<1> QED
  BY <1>1, <1>2, <1>3 DEF OpsNext

\* The operations views are honest however the requests overlap, the world
\* changes and the database comes and goes: the health verdict, the data flow
\* monitor, the pipeline and the rules never contradict each other where they
\* answer (health alone does on a dead database), and an answer persisted by getAlerts leaves out no rule its own snapshot fired.
THEOREM ViewsAreHonest == OpsSpec => []ViewsHonest
<1>1. OpsInit => OpsInv
  BY OpsInitSound
<1>2. OpsInv /\ [OpsNext]_opsVars => OpsInv'
  BY OpsStep
<1>3. OpsInv => ViewsHonest
  BY OpsInvHonest
<1> QED
  BY <1>1, <1>2, <1>3, PTL DEF OpsSpec
=============================================================================
