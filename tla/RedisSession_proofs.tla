------------------------ MODULE RedisSession_proofs -------------------------
(***************************************************************************)
(* Proofs about RedisSession, for every set of processes and every value   *)
(* of the timers.  The argument rests on one fact, LeaseIsLock: while a    *)
(* process's own lease runs, the lock key in Redis still holds its value   *)
(* and has exactly as long to live.  Exclusion follows, and from exclusion *)
(* follows that the second look at the cache is enough.                    *)
(***************************************************************************)
EXTENDS RedisSession, TLAPS

\* While p's lease runs, the lock key is p's and ends with it.
LeaseIsLock ==
  \A p \in Procs : lease[p] > 0 => lock.owner = p /\ lock.ttl = lease[p]

\* What a carried token has left and the time since it was judged valid add
\* up to more than the skew.
SkewInHand ==
  \A p \in Procs : Carrying(p) => tok[p] + age[p] > RefreshSkew

\* Steps on which neither the lock nor any lease changes.
LockKept == UNCHANGED <<lock, lease>>

-----------------------------------------------------------------------------
\* Type correctness of the Redis cache (ibkr/cache.go): the timers never go
\* below zero and the TTL given to SET is never negative.
THEOREM Typing == Spec => []TypeOK
<1> USE NobodyAssumption, LockTTLAssumption, RefreshSkewAssumption,
        LifetimesAssumption
<1>1. Init => TypeOK
  BY DEF Init, TypeOK, Stages, Guarded, Unlocked, NoSession
<1>2. TypeOK /\ [Next]_vars => TypeOK'
  <2> SUFFICES ASSUME TypeOK, [Next]_vars
               PROVE  TypeOK'
    OBVIOUS
  <2> USE DEF TypeOK, Stages, Guarded, Goto, Carry, carried, Move, TakeCached
  <2>1. ASSUME NEW p \in Procs,
               Start(p) \/ ReadMiss(p) \/ ReadError(p) \/ LockBusy(p)
        PROVE  TypeOK'
    BY <2>1 DEF Start, ReadMiss, ReadError, LockBusy, WaitBudget
  <2>2. ASSUME NEW p \in Procs, ReadHit(p) \/ RecheckHit(p) \/ WaitHit(p)
        PROVE  TypeOK'
    BY <2>2 DEF ReadHit, RecheckHit, WaitHit
  <2>3. ASSUME NEW p \in Procs, LockAcquired(p)
        PROVE  TypeOK'
    BY <2>3 DEF LockAcquired
  <2>4. ASSUME NEW p \in Procs, LockError(p)
        PROVE  TypeOK'
    BY <2>4 DEF LockError
  <2>5. ASSUME NEW p \in Procs,
               RecheckMiss(p) \/ RecheckError(p) \/ HandshakeFailed(p)
        PROVE  TypeOK'
    BY <2>5 DEF RecheckMiss, RecheckError, HandshakeFailed
  <2>6. ASSUME NEW p \in Procs, HandshakeOk(p)
        PROVE  TypeOK'
    BY <2>6 DEF HandshakeOk, Cacheable
  <2>7. ASSUME NEW p \in Procs, StoreOk(p) \/ StoreError(p)
        PROVE  TypeOK'
    <3>1. Stored(p) \in [ttl : Nat, life : Nat, late : BOOLEAN]
      BY DEF Stored
    <3>2. cache' \in [ttl : Nat, life : Nat, late : BOOLEAN]
      BY <2>7, <3>1 DEF StoreOk, StoreError
    <3> QED
      BY <2>7, <3>2 DEF StoreOk, StoreError
  <2>8. ASSUME NEW p \in Procs, UnlockOk(p) \/ UnlockError(p)
        PROVE  TypeOK'
    <3>1. AfterUnlock(p) \in [owner : Procs \cup {Nobody}, ttl : Nat]
      BY DEF AfterUnlock, Unlocked
    <3>2. Orphaned(p) \in [owner : Procs \cup {Nobody}, ttl : Nat]
      BY DEF Orphaned
    <3> QED
      BY <2>8, <3>1, <3>2 DEF UnlockOk, UnlockError
  <2>9. ASSUME NEW p \in Procs, WaitTimeout(p) \/ WaitError(p) \/ Send(p)
        PROVE  TypeOK'
    BY <2>9 DEF WaitTimeout, WaitError, Send
  <2>10. ASSUME NEW p \in Procs, Crash(p)
         PROVE  TypeOK'
    BY <2>10 DEF Crash, Orphaned
  <2>11. ASSUME Tick
         PROVE  TypeOK'
    <3>1. lock' \in [owner : Procs \cup {Nobody}, ttl : Nat]
      BY <2>11 DEF Tick, LockAfterTick, Unlocked
    <3>2. cache' \in [ttl : Nat, life : Nat, late : BOOLEAN]
      <4>1. Countdown(cache.life) \in Nat
        BY DEF Countdown
      <4>2. CASE cache.ttl > 1
        <5>1. cache.ttl - 1 \in Nat
          BY <4>2
        <5>2. cache' = [cache EXCEPT !.ttl = @ - 1, !.life = Countdown(@)]
          BY <2>11, <4>2 DEF Tick, CacheAfterTick
        <5> QED
          BY <4>1, <5>1, <5>2
      <4>3. CASE ~(cache.ttl > 1)
        BY <2>11, <4>3 DEF Tick, CacheAfterTick, NoSession
      <4> QED
        BY <4>2, <4>3
    <3>3. lease' \in [Procs -> Nat] /\ tok' \in [Procs -> Nat]
            /\ wait' \in [Procs -> Nat]
      BY <2>11 DEF Tick, Countdown
    <3>4. age' \in [Procs -> 0 .. RefreshSkew + 1]
      BY <2>11 DEF Tick
    <3> QED
      BY <2>11, <3>1, <3>2, <3>3, <3>4 DEF Tick
  <2>12. CASE UNCHANGED vars
    BY <2>12 DEF vars
  <2> QED
    BY <2>1, <2>2, <2>3, <2>4, <2>5, <2>6, <2>7, <2>8, <2>9, <2>10, <2>11,
       <2>12 DEF Next, Continue
<1> QED
  BY <1>1, <1>2, PTL DEF Spec

-----------------------------------------------------------------------------
\* A holder's lease and the lock key run down together: SETNX sets both, the
\* unlock and a crash end the lease, and a foreign unlock deletes nothing.
LEMMA LeaseFollowsLock == Spec => []LeaseIsLock
<1> USE NobodyAssumption, LockTTLAssumption
<1>1. Init => LeaseIsLock
  BY DEF Init, LeaseIsLock
<1>2. TypeOK /\ LeaseIsLock /\ [Next]_vars => LeaseIsLock'
  <2> SUFFICES ASSUME TypeOK, LeaseIsLock, [Next]_vars
               PROVE  LeaseIsLock'
    OBVIOUS
  <2> USE DEF TypeOK, LeaseIsLock
  <2>1. ASSUME LockKept
        PROVE  LeaseIsLock'
    BY <2>1 DEF LockKept
  <2>2. ASSUME NEW p \in Procs, LockAcquired(p)
        PROVE  LeaseIsLock'
    BY <2>2 DEF LockAcquired
  <2>3. ASSUME NEW p \in Procs, LockError(p)
        PROVE  LeaseIsLock'
    BY <2>3 DEF LockError
  <2>4. ASSUME NEW p \in Procs, UnlockOk(p) \/ UnlockError(p) \/ Crash(p)
        PROVE  LeaseIsLock'
    <3>1. /\ lease' = [lease EXCEPT ![p] = 0]
          /\ lock' \in {AfterUnlock(p), Orphaned(p)}
      BY <2>4 DEF UnlockOk, UnlockError, Crash
    <3>2. ASSUME NEW q \in Procs, q # p, lock.owner = q
          PROVE  lock' = lock
      BY <3>1, <3>2 DEF AfterUnlock, Orphaned
    <3> QED
      BY <3>1, <3>2
  <2>5. ASSUME Tick
        PROVE  LeaseIsLock'
    <3> SUFFICES ASSUME NEW p \in Procs, lease'[p] > 0
                 PROVE  lock'.owner = p /\ lock'.ttl = lease'[p]
      OBVIOUS
    <3>1. lease[p] > 1 /\ lease'[p] = lease[p] - 1
      BY <2>5 DEF Tick, Countdown
    <3>2. lock.owner = p /\ lock.ttl = lease[p]
      BY <3>1
    <3>3. lock' = [lock EXCEPT !.ttl = @ - 1]
      BY <2>5, <3>1, <3>2 DEF Tick, LockAfterTick
    <3> QED
      BY <3>1, <3>2, <3>3
  <2>6. ASSUME UNCHANGED vars
        PROVE  LockKept
    BY <2>6 DEF vars, LockKept
  <2>7. ASSUME NEW p \in Procs,
               \/ Start(p) \/ ReadHit(p) \/ ReadMiss(p) \/ ReadError(p)
               \/ LockBusy(p) \/ RecheckHit(p) \/ RecheckMiss(p)
               \/ RecheckError(p) \/ HandshakeOk(p) \/ HandshakeFailed(p)
               \/ StoreOk(p) \/ StoreError(p) \/ WaitHit(p)
               \/ WaitTimeout(p) \/ WaitError(p) \/ Send(p)
        PROVE  LockKept
    BY <2>7 DEF Start, ReadHit, ReadMiss, ReadError, LockBusy, RecheckHit,
                RecheckMiss, RecheckError, HandshakeOk, HandshakeFailed,
                StoreOk, StoreError, WaitHit, WaitTimeout, WaitError, Send,
                Move, TakeCached, LockKept
  <2> QED
    BY <2>1, <2>2, <2>3, <2>4, <2>5, <2>6, <2>7 DEF Next, Continue
<1> QED
  BY <1>1, <1>2, Typing, PTL DEF Spec

\* Two processes inside their leases would both own the one lock.
LEMMA LeaseImpliesExclusion == LeaseIsLock => LeaseExclusion
BY DEF LeaseIsLock, LeaseExclusion, InLease

\* The compare-and-delete of cache.go:76 keeps the refresh exclusive for as
\* long as the holder's lock TTL runs, whatever the number of processes, their
\* crashes and the failures of Redis.
THEOREM Exclusion == Spec => []LeaseExclusion
BY LeaseFollowsLock, LeaseImpliesExclusion, PTL

-----------------------------------------------------------------------------
\* Every return path of getRedisSession after the SETNX, and only those, has
\* the deferred unlock: outside of them no process's value is in the lock.
THEOREM NoLockLeftBehind == Spec => []LockHeldOnlyInside
<1> USE NobodyAssumption
<1>1. Init => LockHeldOnlyInside
  BY DEF Init, LockHeldOnlyInside, Unlocked
<1>2. TypeOK /\ LockHeldOnlyInside /\ [Next]_vars => LockHeldOnlyInside'
  <2> SUFFICES ASSUME TypeOK, LockHeldOnlyInside, [Next]_vars
               PROVE  LockHeldOnlyInside'
    OBVIOUS
  <2> USE DEF TypeOK, LockHeldOnlyInside, Guarded, Goto, Move, TakeCached
  <2>1. ASSUME NEW p \in Procs,
               \/ Start(p) \/ ReadHit(p) \/ ReadMiss(p) \/ ReadError(p)
               \/ LockBusy(p) \/ WaitHit(p) \/ WaitTimeout(p)
               \/ WaitError(p) \/ Send(p)
        PROVE  LockHeldOnlyInside'
    <3>1. pc[p] \notin Guarded /\ lock' = lock
            /\ \A q \in Procs : q # p => pc'[q] = pc[q]
      BY <2>1 DEF Start, ReadHit, ReadMiss, ReadError, LockBusy, WaitHit,
                  WaitTimeout, WaitError, Send
    <3> QED
      BY <3>1
  <2>2. ASSUME NEW p \in Procs, LockAcquired(p)
        PROVE  LockHeldOnlyInside'
    BY <2>2 DEF LockAcquired
  <2>3. ASSUME NEW p \in Procs, LockError(p)
        PROVE  LockHeldOnlyInside'
    BY <2>3 DEF LockError
  <2>4. ASSUME NEW p \in Procs,
               \/ RecheckHit(p) \/ RecheckMiss(p) \/ RecheckError(p)
               \/ HandshakeOk(p) \/ HandshakeFailed(p)
               \/ StoreOk(p) \/ StoreError(p)
        PROVE  LockHeldOnlyInside'
    BY <2>4 DEF RecheckHit, RecheckMiss, RecheckError, HandshakeOk,
                HandshakeFailed, StoreOk, StoreError
  <2>5. ASSUME NEW p \in Procs, UnlockOk(p) \/ UnlockError(p) \/ Crash(p)
        PROVE  LockHeldOnlyInside'
    <3>1. /\ lock' \in {AfterUnlock(p), Orphaned(p)}
          /\ \A q \in Procs : q # p => pc'[q] = pc[q]
      BY <2>5 DEF UnlockOk, UnlockError, Crash
    <3>2. lock'.owner # p
      BY <3>1 DEF AfterUnlock, Orphaned, Unlocked
    <3>3. lock'.owner \in {lock.owner, Nobody}
      BY <3>1 DEF AfterUnlock, Orphaned, Unlocked
    <3> QED
      BY <3>1, <3>2, <3>3
  <2>6. ASSUME Tick
        PROVE  LockHeldOnlyInside'
    <3>1. pc' = pc /\ lock'.owner \in {lock.owner, Nobody}
      BY <2>6 DEF Tick, LockAfterTick, Unlocked
    <3> QED
      BY <3>1
  <2>7. CASE UNCHANGED vars
    BY <2>7 DEF vars
  <2> QED
    BY <2>1, <2>2, <2>3, <2>4, <2>5, <2>6, <2>7 DEF Next, Continue
<1> QED
  BY <1>1, <1>2, Typing, PTL DEF Spec

-----------------------------------------------------------------------------
\* The second look at the cache (cache.go:81) is enough: under a running lease
\* no handshake and no SET competes with a valid session stored under a lease.
THEOREM NoRedundantRefresh == Spec => []RefreshNotRedundant
<1>1. Init => RefreshNotRedundant
  BY DEF Init, RefreshNotRedundant, InLease, Guarded
<1>2. /\ TypeOK /\ LeaseIsLock /\ LeaseExclusion /\ RefreshNotRedundant
      /\ [Next]_vars
      => RefreshNotRedundant'
  <2> SUFFICES ASSUME TypeOK, LeaseIsLock, LeaseExclusion,
                      RefreshNotRedundant, [Next]_vars,
                      NEW q \in Procs, InLease(q)',
                      pc'[q] \in {"handshake", "store"}, CacheHit'
               PROVE  cache'.late
    BY DEF RefreshNotRedundant
  <2> USE DEF TypeOK, Guarded, Stages, InLease, Move, TakeCached
  \* Nothing q depends on changes: q was refreshing before the step.
  <2>1. ASSUME cache' = cache, pc'[q] = pc[q], lease'[q] = lease[q]
        PROVE  cache'.late
    BY <2>1 DEF RefreshNotRedundant, CacheHit
  \* q itself moves, and the only ways in keep the cache a miss or q refreshing.
  <2>2. ASSUME Continue(q) \/ Start(q) \/ WaitError(q) \/ Crash(q)
        PROVE  cache'.late
    <3>1. CASE RecheckMiss(q)
      BY <3>1 DEF RecheckMiss, CacheHit
    <3>2. CASE HandshakeOk(q)
      <4>1. pc[q] = "handshake" /\ cache' = cache /\ lease' = lease
        BY <3>2 DEF HandshakeOk
      <4> QED
        BY <4>1 DEF RefreshNotRedundant, CacheHit
    <3>3. CASE ~RecheckMiss(q) /\ ~HandshakeOk(q)
      <4>1. pc'[q] \notin {"handshake", "store"}
        BY <2>2, <3>3
           DEF Continue, Start, WaitError, Crash, ReadHit, ReadMiss, ReadError,
               LockAcquired, LockBusy, LockError, RecheckHit, RecheckError,
               HandshakeFailed, StoreOk, StoreError, UnlockOk, UnlockError,
               WaitHit, WaitTimeout, Send, Goto
      <4> QED
        BY <4>1
    <3> QED
      BY <3>1, <3>2, <3>3
  \* Another process stores: it is out of lease, for q is in its own.
  <2>3. ASSUME NEW p \in Procs, p # q, StoreOk(p) \/ StoreError(p)
        PROVE  cache'.late
    <3>1. /\ pc[p] = "store" /\ pc'[q] = pc[q] /\ lease' = lease
          /\ cache' \in {cache, Stored(p)}
      BY <2>3 DEF StoreOk, StoreError, Goto
    <3>2. ~(lease[p] > 0)
      BY <2>3, <3>1 DEF LeaseExclusion
    <3>3. lease[p] = 0
      BY <3>2
    <3>4. CASE cache' = cache
      BY <3>1, <3>4, <2>1
    <3>5. CASE cache' = Stored(p)
      BY <3>3, <3>5 DEF Stored
    <3> QED
      BY <3>1, <3>4, <3>5
  <2>4. ASSUME NEW p \in Procs, p # q,
               Start(p) \/ Continue(p) \/ WaitError(p) \/ Crash(p),
               ~(StoreOk(p) \/ StoreError(p))
        PROVE  cache'.late
    <3>1. cache' = cache /\ pc'[q] = pc[q] /\ lease'[q] = lease[q]
      BY <2>4
         DEF Continue, Start, WaitError, Crash, ReadHit, ReadMiss, ReadError,
             LockAcquired, LockBusy, LockError, RecheckHit, RecheckMiss,
             RecheckError, HandshakeOk, HandshakeFailed, UnlockOk,
             UnlockError, WaitHit, WaitTimeout, Send, Goto
    <3> QED
      BY <3>1, <2>1
  \* Time only makes the session staler and the lease shorter.
  <2>5. ASSUME Tick
        PROVE  cache'.late
    <3>1. pc' = pc /\ lease[q] > 0
      BY <2>5 DEF Tick, Countdown
    <3>2. cache'.ttl > 0
      BY DEF CacheHit
    <3>3. cache.ttl > 1
      BY <2>5, <3>2 DEF Tick, CacheAfterTick, NoSession
    <3>4. /\ cache'.life = Countdown(cache.life)
          /\ cache'.late = cache.late
      BY <2>5, <3>3 DEF Tick, CacheAfterTick
    <3>5. cache.life > RefreshSkew
      <4>1. Countdown(cache.life) > RefreshSkew
        BY <3>4 DEF CacheHit, Valid
      <4>2. cache.life \in Nat
        OBVIOUS
      <4> QED
        BY <4>1, <4>2, RefreshSkewAssumption DEF Countdown
    <3> QED
      BY <3>1, <3>3, <3>4, <3>5 DEF RefreshNotRedundant, CacheHit, Valid
  <2>6. CASE UNCHANGED vars
    BY <2>1, <2>6 DEF vars
  <2> QED
    BY <2>2, <2>3, <2>4, <2>5, <2>6 DEF Next
<1> QED
  BY <1>1, <1>2, Typing, LeaseFollowsLock, Exclusion, PTL DEF Spec

-----------------------------------------------------------------------------
\* Every token a call carries, from the moment it was judged (valid at
\* session.go:25, or the positive TTL of cache.go:89), has the skew in hand.
LEMMA CarriedTokens == Spec => []SkewInHand
<1> USE RefreshSkewAssumption, LifetimesAssumption
<1>1. Init => SkewInHand
  BY DEF Init, SkewInHand, Carrying
<1>2. TypeOK /\ SkewInHand /\ [Next]_vars => SkewInHand'
  <2> SUFFICES ASSUME TypeOK, SkewInHand, [Next]_vars
               PROVE  SkewInHand'
    OBVIOUS
  <2> USE DEF TypeOK, SkewInHand, Carrying, Goto, Move, TakeCached
  <2>1. ASSUME NEW p \in Procs, ReadHit(p) \/ RecheckHit(p) \/ WaitHit(p)
        PROVE  SkewInHand'
    BY <2>1 DEF ReadHit, RecheckHit, WaitHit, CacheHit, Valid, Carry
  <2>2. ASSUME NEW p \in Procs, HandshakeOk(p)
        PROVE  SkewInHand'
    BY <2>2 DEF HandshakeOk, Cacheable, Carry
  <2>3. ASSUME NEW p \in Procs, StoreOk(p)
        PROVE  SkewInHand'
    BY <2>3 DEF StoreOk
  <2>4. ASSUME NEW p \in Procs, UnlockOk(p)
        PROVE  SkewInHand'
    BY <2>4 DEF UnlockOk, carried
  <2>5. ASSUME NEW p \in Procs,
               StoreError(p) \/ UnlockError(p) \/ Send(p) \/ Crash(p)
        PROVE  SkewInHand'
    BY <2>5 DEF StoreError, UnlockError, Send, Crash, Carry
  <2>6. ASSUME NEW p \in Procs,
               \/ Start(p) \/ ReadMiss(p) \/ ReadError(p)
               \/ LockAcquired(p) \/ LockBusy(p) \/ LockError(p)
               \/ RecheckMiss(p) \/ RecheckError(p) \/ HandshakeFailed(p)
               \/ WaitTimeout(p) \/ WaitError(p)
        PROVE  SkewInHand'
    <3>1. /\ UNCHANGED carried
          /\ pc'[p] \notin {"store", "release", "send"}
          /\ \A q \in Procs : q # p => pc'[q] = pc[q]
      BY <2>6 DEF Start, ReadMiss, ReadError, LockAcquired, LockBusy,
                  LockError, RecheckMiss, RecheckError, HandshakeFailed,
                  WaitTimeout, WaitError
    <3> QED
      BY <3>1 DEF carried
  <2>7. ASSUME Tick
        PROVE  SkewInHand'
    <3> SUFFICES ASSUME NEW p \in Procs, Carrying(p)
                 PROVE  tok'[p] + age'[p] > RefreshSkew
      BY <2>7 DEF Tick
    <3>1. CASE age[p] <= RefreshSkew
      <4>1. age'[p] = age[p] + 1 /\ tok'[p] = Countdown(tok[p])
        BY <2>7, <3>1 DEF Tick
      <4>2. tok[p] > 0 /\ Countdown(tok[p]) = tok[p] - 1
        BY <3>1 DEF Countdown
      <4> QED
        BY <4>1, <4>2
    <3>2. CASE age[p] > RefreshSkew
      <4>1. age'[p] = age[p] /\ tok'[p] = Countdown(tok[p])
        BY <2>7, <3>2 DEF Tick
      <4>2. Countdown(tok[p]) \in Nat
        BY DEF Countdown
      <4> QED
        BY <4>1, <4>2, <3>2
    <3> QED
      BY <3>1, <3>2
  <2>8. CASE UNCHANGED vars
    BY <2>8 DEF vars
  <2> QED
    BY <2>1, <2>2, <2>3, <2>4, <2>5, <2>6, <2>7, <2>8 DEF Next, Continue
<1> QED
  BY <1>1, <1>2, Typing, PTL DEF Spec

\* A token found valid stays usable for the whole refresh skew, by whichever
\* path getRedisSession came to return it.
THEOREM SkewIsAvailable == Spec => []UsableForSkew
<1>1. TypeOK /\ SkewInHand => UsableForSkew
  BY RefreshSkewAssumption DEF TypeOK, SkewInHand, UsableForSkew, Carrying
<1> QED
  BY <1>1, Typing, CarriedTokens, PTL

-----------------------------------------------------------------------------
\* A step of one process leaves the tokens and the places of the others.
OthersStay(p) == \A q \in Procs \ {p} : pc'[q] = pc[q] /\ tok'[q] = tok[q]

\* As TokenService sees it, only that process moves, and the tokens that may
\* be shared are those from before and its own.
LEMMA StepOfOne ==
  ASSUME TypeOK, TypeOK', NEW p \in Procs, OthersStay(p)
  PROVE  /\ Service!Become(p, Stage(p)', Held(p)')
         /\ Shared' \subseteq Shared \cup Cached' \cup {Held(p)'}
         /\ ~Carrying(p)' => Shared' \subseteq Shared \cup Cached'
<1> USE DEF TypeOK, Carrying, Held, OthersStay
<1>1. \A q \in Procs \ {p} : Stage(q)' = Stage(q) /\ Held(q)' = Held(q)
  BY DEF Stage
<1>2. Service!Become(p, Stage(p)', Held(p)')
  BY <1>1 DEF Service!Become
<1>3. \A q \in Procs \ {p} : Carrying(q)' => tok'[q] \in Shared
  BY DEF Shared
<1> QED
  BY <1>2, <1>3 DEF Shared

\* Redis mode implements TokenService (getRedisSession, ibkr/cache.go): each
\* step of a call is a step of the abstract service or leaves it as it is.
THEOREM RedisImplementsTokenService == Spec => ImplementsTokenService
<1> USE NobodyAssumption, LockTTLAssumption, RefreshSkewAssumption,
        LifetimesAssumption
<1>1. Init => Service!Init
  <2> SUFFICES ASSUME Init
               PROVE  Service!Init
    OBVIOUS
  <2>1. \A p \in Procs : Stage(p) = "idle" /\ ~Carrying(p) /\ Held(p) = 0
    BY DEF Init, Stage, Carrying, Held
  <2>2. Shared = {}
    BY <2>1 DEF Init, Shared, Cached, NoSession
  <2> QED
    BY <2>1, <2>2 DEF Service!Init
<1>2. TypeOK /\ TypeOK' /\ [Next]_vars => [Service!Next]_Service!vars
  <2> SUFFICES ASSUME TypeOK, TypeOK', [Next]_vars
               PROVE  Service!Next \/ UNCHANGED Service!vars
    OBVIOUS
  <2> USE DEF Goto, Carry, carried, Move, TakeCached
  <2>1. ASSUME NEW p \in Procs,
               Start(p) \/ Continue(p) \/ WaitError(p) \/ Crash(p)
        PROVE  OthersStay(p)
    BY <2>1 DEF TypeOK, OthersStay, Start, Continue, ReadHit, ReadMiss,
                ReadError, LockAcquired, LockBusy, LockError, RecheckHit,
                RecheckMiss, RecheckError, HandshakeOk, HandshakeFailed,
                StoreOk, StoreError, UnlockOk, UnlockError, WaitHit,
                WaitTimeout, WaitError, Send, Crash
  <2>2. ASSUME NEW p \in Procs, Start(p)
        PROVE  Service!Ask(p)
    <3>1. Stage(p) = "idle" /\ Stage(p)' = "asking" /\ Held(p)' = 0
            /\ ~Carrying(p)' /\ Cached' = Cached
      BY <2>2 DEF TypeOK, Start, Stage, Held, Carrying, Cached
    <3> QED
      BY <2>1, <2>2, <3>1, StepOfOne DEF Service!Ask, Service!Sharing, Shared
  <2>3. ASSUME NEW p \in Procs,
               ReadMiss(p) \/ LockAcquired(p) \/ LockBusy(p) \/ RecheckMiss(p)
        PROVE  UNCHANGED Service!vars
    <3>1. /\ tok' = tok /\ cache' = cache
          /\ \A q \in Procs \ {p} : pc'[q] = pc[q]
          /\ {pc[p], pc'[p]} \subseteq {"read", "lock", "wait", "recheck", "handshake"}
      BY <2>3 DEF TypeOK, ReadMiss, LockAcquired, LockBusy, RecheckMiss
    <3>2. \A q \in Procs : /\ Stage(q)' = Stage(q)
                          /\ Held(q)' = Held(q)
                          /\ Carrying(q)' = Carrying(q)
      BY <3>1 DEF Stage, Held, Carrying
    <3>3. Shared' = Shared
      BY <3>1, <3>2 DEF Shared, Cached, Carrying
    <3> QED
      BY <3>2, <3>3 DEF Service!vars, Stage, Held, Carrying
  <2>4. ASSUME NEW p \in Procs, ReadHit(p) \/ RecheckHit(p) \/ WaitHit(p)
        PROVE  Service!Share(p)
    <3>1. /\ cache.ttl > 0 /\ cache.life > RefreshSkew
          /\ Cached' = Cached /\ cache.life \in Cached
      BY <2>4 DEF ReadHit, RecheckHit, WaitHit, CacheHit, Valid, Cached
    <3>2. /\ Stage(p) = "asking" /\ Stage(p)' \in {"found", "holding"}
          /\ Held(p)' = cache.life
      BY <2>4 DEF TypeOK, ReadHit, RecheckHit, WaitHit, Stage, Held, Carrying
    <3>3. Service!Become(p, Stage(p)', cache.life)
      BY <2>1, <2>4, <3>2, StepOfOne DEF Continue
    <3>4. Service!Sharing(Shared)
      BY <2>1, <2>4, <3>1, <3>2, StepOfOne DEF Continue, Service!Sharing, Shared
    <3> QED
      BY <3>1, <3>2, <3>3, <3>4 DEF Service!Share, Shared
  <2>5. ASSUME NEW p \in Procs, HandshakeOk(p)
        PROVE  Service!Issue(p)
    <3>1. /\ Stage(p) = "asking" /\ Stage(p)' = "found"
          /\ Held(p)' \in {life \in Lifetimes : life > RefreshSkew}
          /\ Cached' = Cached
      BY <2>5 DEF TypeOK, HandshakeOk, Cacheable, Stage, Held, Carrying, Cached
    <3>2. Service!Become(p, Stage(p)', Held(p)')
      BY <2>1, <2>5, StepOfOne DEF Continue
    <3>3. Service!Sharing(Shared \cup {Held(p)'})
      BY <2>1, <2>5, <3>1, StepOfOne DEF Continue, Service!Sharing, Shared
    <3> QED
      BY <3>1, <3>2, <3>3 DEF Service!Issue
  <2>6. ASSUME NEW p \in Procs, StoreOk(p)
        PROVE  Service!Forget
    <3>1. /\ tok' = tok /\ cache' = Stored(p)
          /\ \A q \in Procs \ {p} : pc'[q] = pc[q]
          /\ pc[p] = "store" /\ pc'[p] = "release"
      BY <2>6 DEF TypeOK, StoreOk
    <3>2. \A q \in Procs : Stage(q)' = Stage(q) /\ Carrying(q)' = Carrying(q)
      BY <3>1 DEF Stage, Held, Carrying
    <3>3. Cached' \subseteq {tok[p]}
      BY <3>1 DEF Cached, Stored
    <3>4. tok[p] \in Shared
      BY <3>1 DEF Shared, Carrying
    <3>5. Shared' \subseteq Shared
      BY <3>1, <3>2, <3>3, <3>4 DEF Shared, Carrying
    <3>6. \A q \in Procs : Held(q)' = Held(q)
      BY <3>1, <3>2 DEF Held, Carrying
    <3> QED
      BY <3>2, <3>5, <3>6
      DEF Service!Forget, Service!Sharing, Stage, Held, Carrying
  <2>7. ASSUME NEW p \in Procs, StoreError(p) \/ Send(p)
        PROVE  Service!Return(p)
    <3>1. /\ Stage(p) # "idle" /\ Stage(p)' = "idle" /\ Held(p)' = 0
          /\ ~Carrying(p)' /\ Carrying(p) /\ Cached' \subseteq Cached \cup {tok[p]}
      BY <2>7 DEF TypeOK, StoreError, Stored, Send, Stage, Held, Carrying, Cached
    <3> QED
      BY <2>1, <2>7, <3>1, StepOfOne
      DEF Continue, Service!Return, Service!Sharing, Shared
  <2>8. ASSUME NEW p \in Procs,
               ReadError(p) \/ LockError(p) \/ RecheckError(p)
                 \/ HandshakeFailed(p) \/ WaitTimeout(p) \/ WaitError(p)
        PROVE  Service!Return(p)
    <3>1. /\ Stage(p) # "idle" /\ Stage(p)' = "idle" /\ Held(p)' = 0
          /\ ~Carrying(p)' /\ Cached' = Cached
      BY <2>8 DEF TypeOK, ReadError, LockError, RecheckError, HandshakeFailed,
                  WaitTimeout, WaitError, Stage, Held, Carrying, Cached
    <3> QED
      BY <2>1, <2>8, <3>1, StepOfOne
      DEF Continue, Service!Return, Service!Sharing, Shared
  <2>9. ASSUME NEW p \in Procs, UnlockOk(p), pc[p] = "release"
        PROVE  Service!Deliver(p)
    <3>1. /\ Stage(p) = "found" /\ Stage(p)' = "holding" /\ Held(p)' = Held(p)
          /\ Carrying(p) /\ Cached' = Cached /\ tok[p] = Held(p)
      BY <2>9 DEF TypeOK, UnlockOk, Stage, Held, Carrying, Cached
    <3>2. Service!Become(p, "holding", Held(p))
      BY <2>1, <2>9, <3>1, StepOfOne DEF Continue
    <3>3. Service!Sharing(Shared)
      BY <2>1, <2>9, <3>1, StepOfOne DEF Continue, Service!Sharing, Shared
    <3> QED
      BY <3>1, <3>2, <3>3 DEF Service!Deliver
  <2>10. ASSUME NEW p \in Procs, UnlockOk(p) \/ UnlockError(p) \/ Crash(p),
                pc[p] = "abort"
         PROVE  UNCHANGED Service!vars
    <3>1. /\ \A q \in Procs \ {p} : pc'[q] = pc[q] /\ tok'[q] = tok[q]
          /\ pc[p] = "abort" /\ pc'[p] = "idle" /\ cache' = cache
      BY <2>10 DEF TypeOK, UnlockOk, UnlockError, Crash
    <3>2. \A q \in Procs : /\ Stage(q)' = Stage(q)
                          /\ Held(q)' = Held(q)
                          /\ Carrying(q)' = Carrying(q)
      BY <3>1 DEF Stage, Held, Carrying
    <3>3. ASSUME NEW q \in Procs, Carrying(q)
          PROVE  Carrying(q)' /\ tok'[q] = tok[q]
      BY <3>1, <3>3 DEF Held, Carrying
    <3>4. Shared' = Shared
      BY <3>1, <3>2, <3>3 DEF Shared, Cached, Held, Carrying
    <3> QED
      BY <3>2, <3>4 DEF Service!vars, Stage, Held, Carrying
  <2>11. ASSUME NEW p \in Procs, UnlockError(p) \/ Crash(p), pc[p] # "abort"
         PROVE  Service!Return(p)
    <3>1. pc[p] \in Stages \ {"idle", "abort"} /\ pc'[p] = "idle" /\ cache' = cache
      BY <2>11 DEF TypeOK, UnlockError, Crash
    <3>2. /\ Stage(p) # "idle" /\ Stage(p)' = "idle" /\ Held(p)' = 0
          /\ ~Carrying(p)' /\ Cached' = Cached
      BY <3>1 DEF Stages, Guarded, Stage, Held, Carrying, Cached
    <3> QED
      BY <2>1, <2>11, <3>2, StepOfOne
      DEF Continue, Service!Return, Service!Sharing, Shared
  <2>12. ASSUME Tick
         PROVE  Service!Elapse
    <3>1. \A q \in Procs : /\ Stage(q)' = Stage(q)
                          /\ Carrying(q)' = Carrying(q)
                          /\ tok'[q] = Countdown(tok[q])
      BY <2>12 DEF TypeOK, Tick, Stage, Held, Carrying
    <3>2. Cached' \subseteq {Countdown(life) : life \in Cached}
      <4>1. CASE cache.ttl > 1
        <5>1. cache'.life = Countdown(cache.life)
          BY <2>12, <4>1 DEF TypeOK, Tick, CacheAfterTick
        <5> QED
          BY <4>1, <5>1 DEF TypeOK, Cached
      <4>2. CASE ~(cache.ttl > 1)
        BY <2>12, <4>2 DEF TypeOK, Tick, CacheAfterTick, NoSession, Cached
      <4> QED
        BY <4>1, <4>2
    <3>3. [q \in Procs |-> Held(q)]' = [q \in Procs |-> Countdown(Held(q))]
      BY <3>1 DEF Held, Carrying, Countdown
    <3>4. Shared' \subseteq {Countdown(life) : life \in Shared}
      <4> SUFFICES ASSUME NEW life \in Shared'
                   PROVE  \E old \in Shared : life = Countdown(old)
        OBVIOUS
      <4>1. CASE life \in Cached'
        BY <3>2, <4>1 DEF Shared
      <4>2. ASSUME NEW q \in Procs, Carrying(q)', life = tok'[q]
            PROVE  \E old \in Shared : life = Countdown(old)
        <5>1. Carrying(q) /\ life = Countdown(tok[q])
          BY <3>1, <4>2 DEF Carrying
        <5> QED
          BY <5>1 DEF Shared
      <4> QED
        BY <4>1, <4>2 DEF Shared, Carrying
    <3> QED
      BY <3>1, <3>3, <3>4
      DEF Service!Elapse, Service!Sharing, Service!Remaining, Countdown
  <2>13. ASSUME UNCHANGED vars
         PROVE  UNCHANGED Service!vars
    BY <2>13 DEF vars, Service!vars, Stage, Held, Carrying, Cached, Shared
  <2> QED
    BY <2>2, <2>3, <2>4, <2>5, <2>6, <2>7, <2>8, <2>9, <2>10, <2>11, <2>12,
       <2>13 DEF Next, Continue, UnlockOk, Crash, Service!Next
<1> QED
  BY <1>1, <1>2, Typing, PTL DEF Spec, ImplementsTokenService, Service!Spec

=============================================================================
