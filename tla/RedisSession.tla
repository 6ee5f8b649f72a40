---------------------------- MODULE RedisSession ----------------------------
(***************************************************************************)
(* The live-session-token cache in "redis" mode (ibkr/cache.go): several   *)
(* short-lived CLI processes share one token through a Redis key and guard *)
(* its refresh with a Redis lock that has an owner value and a TTL.        *)
(*                                                                         *)
(* One call of getRedisSession, followed by the protected request it signs *)
(* (RequestJSON in ibkr/client.go), is a walk through pc[p]:               *)
(*                                                                         *)
(*   idle -> read -> lock -> recheck -> handshake -> store -> release      *)
(*                     \-> wait                                  -> send   *)
(*                                                                         *)
(* with "abort" for the deferred unlock of a call that already failed.     *)
(* Time is a set of countdown timers moved by Tick, so the model needs no  *)
(* clock: the TTL of the two Redis keys, the life of the tokens, the       *)
(* budget of the wait loop.  One unit of time is at most the second that   *)
(* waitRedisSession adds to the lock TTL.                                  *)
(*                                                                         *)
(* A Redis command that fails may or may not have been applied; one that   *)
(* is applied is applied before the call that sent it moves on.            *)
(***************************************************************************)
EXTENDS Integers

CONSTANTS
  Procs,        \* CLI processes that share one cache key
  Nobody,       \* the owner of a lock whose call is over
  LockTTL,      \* IBKR_LST_LOCK_TTL_SECONDS
  RefreshSkew,  \* IBKR_LST_REFRESH_SKEW_SECONDS
  Lifetimes     \* lifetimes of the tokens IBKR issues; 0 is one already expired

ASSUME NobodyAssumption == Nobody \notin Procs
ASSUME LockTTLAssumption == LockTTL \in Nat \ {0}
ASSUME RefreshSkewAssumption == RefreshSkew \in Nat
ASSUME LifetimesAssumption == Lifetimes \subseteq Nat

VARIABLES
  pc,     \* where each process is in its call
  lock,   \* the lock key: its owner value and its TTL; absent when ttl = 0
  lease,  \* what is left of LockTTL since p's own SETNX
  cache,  \* the session key: its TTL, the token's life, written out of lease?
  tok,    \* life of the token p carries
  age,    \* time since p found that token valid, up to RefreshSkew + 1
  ttl,    \* the TTL p computed for its SET
  wait    \* budget left in p's wait loop

vars == <<pc, lock, lease, cache, tok, age, ttl, wait>>
carried == <<tok, age, ttl>>

WaitBudget == LockTTL + 1

\* The calls that run with the deferred unlock registered.
Guarded == {"recheck", "handshake", "store", "release", "abort"}
Stages == {"idle", "read", "lock", "wait", "send"} \cup Guarded

\* No payload, or one that does not parse: readRedisSession reports a miss.
NoSession == [ttl |-> 0, life |-> 0, late |-> FALSE]
Unlocked == [owner |-> Nobody, ttl |-> 0]

Countdown(n) == IF n > 0 THEN n - 1 ELSE 0

Init ==
  /\ pc = [p \in Procs |-> "idle"]
  /\ lock = Unlocked
  /\ lease = [p \in Procs |-> 0]
  /\ cache = NoSession
  /\ tok = [p \in Procs |-> 0]
  /\ age = [p \in Procs |-> 0]
  /\ ttl = [p \in Procs |-> 0]
  /\ wait = [p \in Procs |-> 0]

-----------------------------------------------------------------------------
(* Validity and what a call carries with it.                               *)

\* The bug of a cache that trusts Redis to have expired the key in time.
ValidUntilExpiry(life) == life > 0

\* liveSession.valid: the expiry less the skew is still in the future.
Valid(life) == life > RefreshSkew

CacheHit == cache.ttl > 0 /\ Valid(cache.life)

\* The bug of storing whatever the handshake returned.
CacheableAny(life) == TRUE

\* The TTL computed for the SET must be positive.
Cacheable(life) == life - RefreshSkew > 0

Goto(p, stage) == pc' = [pc EXCEPT ![p] = stage]

\* A step that only moves p on.
Move(p, from, to) ==
  /\ pc[p] = from
  /\ Goto(p, to)
  /\ UNCHANGED <<lock, lease, cache, carried, wait>>

Carry(p, life, keep) ==
  /\ tok' = [tok EXCEPT ![p] = life]
  /\ age' = [age EXCEPT ![p] = 0]
  /\ ttl' = [ttl EXCEPT ![p] = keep]

\* A GET that finds a valid session: the call returns it.
TakeCached(p, from, to) ==
  /\ pc[p] = from
  /\ CacheHit
  /\ Carry(p, cache.life, 0)
  /\ wait' = [wait EXCEPT ![p] = 0]
  /\ Goto(p, to)
  /\ UNCHANGED <<lock, lease, cache>>

\* The lock of a call that ends without deleting it belongs to nobody.
Orphaned(p) == IF lock.owner = p THEN [lock EXCEPT !.owner = Nobody] ELSE lock

-----------------------------------------------------------------------------
(* Before the lock: lines 58 to 72.                                        *)

Start(p) == Move(p, "idle", "read")

ReadHit(p) == TakeCached(p, "read", "send")

ReadMiss(p) == ~CacheHit /\ Move(p, "read", "lock")

\* A failed GET ends the call: there is no fallback to a direct handshake.
ReadError(p) == Move(p, "read", "idle")

LockAcquired(p) ==
  /\ pc[p] = "lock"
  /\ lock.ttl = 0
  /\ lock' = [owner |-> p, ttl |-> LockTTL]
  /\ lease' = [lease EXCEPT ![p] = LockTTL]
  /\ Goto(p, "recheck")
  /\ UNCHANGED <<cache, carried, wait>>

LockBusy(p) ==
  /\ pc[p] = "lock"
  /\ lock.ttl > 0
  /\ wait' = [wait EXCEPT ![p] = WaitBudget]
  /\ Goto(p, "wait")
  /\ UNCHANGED <<lock, lease, cache, carried>>

\* SETNX fails; when Redis had applied it, the lock stays until its TTL ends,
\* for the unlock is registered only after this return.
LockError(p) ==
  /\ pc[p] = "lock"
  /\ \/ UNCHANGED lock
     \/ lock.ttl = 0 /\ lock' = [owner |-> Nobody, ttl |-> LockTTL]
  /\ Goto(p, "idle")
  /\ UNCHANGED <<lease, cache, carried, wait>>

-----------------------------------------------------------------------------
(* With the lock, and its deferred unlock: lines 73 to 98.                 *)

\* The bug of an early return that skips the deferred unlock.
RecheckHitNoUnlock(p) == TakeCached(p, "recheck", "send")

RecheckHit(p) == TakeCached(p, "recheck", "release")

\* The bug of going to the handshake without a second look at the cache.
RecheckMissBlind(p) == Move(p, "recheck", "handshake")

RecheckMiss(p) == ~CacheHit /\ Move(p, "recheck", "handshake")

RecheckError(p) == Move(p, "recheck", "abort")

HandshakeOk(p) ==
  /\ pc[p] = "handshake"
  /\ \E life \in Lifetimes :
       Cacheable(life) /\ Carry(p, life, life - RefreshSkew)
  /\ Goto(p, "store")
  /\ UNCHANGED <<lock, lease, cache, wait>>

\* A key, transport, status or signature error, a context that is done, or a
\* token that is no longer worth caching.
HandshakeFailed(p) == Move(p, "handshake", "abort")

\* The bug of restoring the expiry from the TTL when the SET is sent.
StoredAnew(p) ==
  [ttl |-> ttl[p], life |-> ttl[p] + RefreshSkew, late |-> lease[p] = 0]

Stored(p) == [ttl |-> ttl[p], life |-> tok[p], late |-> lease[p] = 0]

StoreOk(p) ==
  /\ pc[p] = "store"
  /\ cache' = Stored(p)
  /\ ttl' = [ttl EXCEPT ![p] = 0]
  /\ Goto(p, "release")
  /\ UNCHANGED <<lock, lease, tok, age, wait>>

\* SET fails, applied or not, and the token in hand is given up with it.
StoreError(p) ==
  /\ pc[p] = "store"
  /\ cache' \in {cache, Stored(p)}
  /\ Carry(p, 0, 0)
  /\ Goto(p, "abort")
  /\ UNCHANGED <<lock, lease, wait>>

\* The bug of a plain DEL, the race the lock value exists to avoid.
AfterUnlockPlainDel(p) == Unlocked

\* The script deletes the lock only while it holds this call's value.
AfterUnlock(p) == IF lock.owner = p THEN Unlocked ELSE lock

UnlockOk(p) ==
  /\ pc[p] \in {"release", "abort"}
  /\ lock' = AfterUnlock(p)
  /\ lease' = [lease EXCEPT ![p] = 0]
  /\ Goto(p, IF pc[p] = "release" THEN "send" ELSE "idle")
  /\ UNCHANGED <<cache, carried, wait>>

\* The error of the unlock is joined to the call's: even a call that has its
\* token fails.
UnlockError(p) ==
  /\ pc[p] \in {"release", "abort"}
  /\ lock' \in {AfterUnlock(p), Orphaned(p)}
  /\ lease' = [lease EXCEPT ![p] = 0]
  /\ Carry(p, 0, 0)
  /\ Goto(p, "idle")
  /\ UNCHANGED <<cache, wait>>

-----------------------------------------------------------------------------
(* Waiting for the holder: waitRedisSession, lines 99 to 117.              *)

WaitHit(p) == TakeCached(p, "wait", "send")

\* The bug of giving up only while somebody still holds the lock.
WaitTimeoutIfLocked(p) == wait[p] = 0 /\ lock.ttl > 0 /\ Move(p, "wait", "idle")

WaitTimeout(p) == wait[p] = 0 /\ Move(p, "wait", "idle")

\* A failed GET, or a context that is done.
WaitError(p) ==
  /\ pc[p] = "wait"
  /\ wait' = [wait EXCEPT ![p] = 0]
  /\ Goto(p, "idle")
  /\ UNCHANGED <<lock, lease, cache, carried>>

-----------------------------------------------------------------------------
(* The protected request, the death of a process, and time.                *)

\* signProtected and sendJSON use the token once and the call is over.
Send(p) ==
  /\ pc[p] = "send"
  /\ Carry(p, 0, 0)
  /\ Goto(p, "idle")
  /\ UNCHANGED <<lock, lease, cache, wait>>

\* A process killed outright runs no deferred call; it may be started again.
Crash(p) ==
  /\ pc[p] # "idle"
  /\ lock' = Orphaned(p)
  /\ lease' = [lease EXCEPT ![p] = 0]
  /\ Carry(p, 0, 0)
  /\ wait' = [wait EXCEPT ![p] = 0]
  /\ Goto(p, "idle")
  /\ UNCHANGED cache

\* Redis drops a key when its TTL ends.
LockAfterTick ==
  IF lock.ttl > 1 THEN [lock EXCEPT !.ttl = @ - 1] ELSE Unlocked

CacheAfterTick ==
  IF cache.ttl > 1
    THEN [cache EXCEPT !.ttl = @ - 1, !.life = Countdown(@)]
    ELSE NoSession

Carrying(p) == pc[p] \in {"store", "release", "send"}

Tick ==
  /\ lock' = LockAfterTick
  /\ cache' = CacheAfterTick
  /\ lease' = [p \in Procs |-> Countdown(lease[p])]
  /\ tok' = [p \in Procs |-> Countdown(tok[p])]
  /\ age' = [p \in Procs |->
               IF Carrying(p) /\ age[p] <= RefreshSkew THEN age[p] + 1
                                                       ELSE age[p]]
  /\ wait' = [p \in Procs |-> Countdown(wait[p])]
  /\ UNCHANGED <<pc, ttl>>

\* The steps a running process takes by itself.
Continue(p) ==
  \/ ReadHit(p) \/ ReadMiss(p) \/ ReadError(p)
  \/ LockAcquired(p) \/ LockBusy(p) \/ LockError(p)
  \/ RecheckHit(p) \/ RecheckMiss(p) \/ RecheckError(p)
  \/ HandshakeOk(p) \/ HandshakeFailed(p)
  \/ StoreOk(p) \/ StoreError(p)
  \/ UnlockOk(p) \/ UnlockError(p)
  \/ WaitHit(p) \/ WaitTimeout(p)
  \/ Send(p)

Next ==
  \/ \E p \in Procs : Start(p) \/ Continue(p) \/ WaitError(p) \/ Crash(p)
  \/ Tick

\* Every Redis command and HTTP request has a timeout, so each step of a call
\* ends one way or the other; the ticker polls and the timer fires.  Nothing
\* is assumed of failures inside the wait loop, of crashes or of new calls.
Fairness == WF_vars(Tick) /\ \A p \in Procs : WF_vars(Continue(p))

Spec == Init /\ [][Next]_vars
FairSpec == Spec /\ Fairness

-----------------------------------------------------------------------------
(* Properties.                                                             *)

\* Type invariant: every timer is a natural number, and in particular no call
\* hands Redis a TTL it computed as negative (the refusal at cache.go:89).
TypeOK ==
  /\ pc \in [Procs -> Stages]
  /\ lock \in [owner : Procs \cup {Nobody}, ttl : Nat]
  /\ lease \in [Procs -> Nat]
  /\ cache \in [ttl : Nat, life : Nat, late : BOOLEAN]
  /\ tok \in [Procs -> Nat]
  /\ age \in [Procs -> 0 .. RefreshSkew + 1]
  /\ ttl \in [Procs -> Nat]
  /\ wait \in [Procs -> Nat]

InLease(p) == pc[p] \in Guarded /\ lease[p] > 0

\* At most one process is between its SETNX and its unlock with its lock TTL
\* not yet over: an unlock that arrives late never frees the lock of the next
\* holder (the compare-and-delete of cache.go:76).
LeaseExclusion ==
  \A p, q \in Procs : InLease(p) /\ InLease(q) => p = q

\* No return path of getRedisSession leaves the lock behind: once a call is
\* outside the guarded section the lock does not hold its value (the deferred
\* unlock of cache.go:73 covers the early returns too).
LockHeldOnlyInside ==
  \A p \in Procs : lock.owner = p => pc[p] \in Guarded

\* A process whose lease is running never asks IBKR for a token, or stores one,
\* while the cache holds a valid session that was itself stored under a running
\* lease: the second look at the cache (cache.go:81) saves the handshake, and
\* only a holder that outlived its lock can get in between.
RefreshNotRedundant ==
  \A p \in Procs :
    InLease(p) /\ pc[p] \in {"handshake", "store"} /\ CacheHit => cache.late

\* The refresh skew is a promise to the protected request: whichever path the
\* token came by (hit, second look, wait, handshake), and however long the SET
\* was delayed, it is alive for RefreshSkew after it was found valid.
UsableForSkew ==
  \A p \in Procs : pc[p] = "send" /\ age[p] <= RefreshSkew => tok[p] > 0

\* Every call ends: with a request sent, an error or a crash.  In particular a
\* waiter whose holder failed or died does not wait for ever.
CallsReturn == \A p \in Procs : pc[p] # "idle" ~> pc[p] = "idle"

\* README.md:346, as documented: a stored session's TTL ends before the token
\* expires.  The code computes the TTL relative to the time of cache.go:88 and
\* Redis counts it from the time the SET is applied.
TtlEndsBeforeExpiry == cache.ttl > 0 => cache.ttl <= cache.life

-----------------------------------------------------------------------------
(* Redis mode keeps the promise of TokenService, and keeps it better than   *)
(* the other modes: a new token inside the skew is refused.                *)

\* A call that has its token finds it at the store or on its way to release.
Stage(p) ==
  IF Carrying(p) THEN IF pc[p] = "send" THEN "holding" ELSE "found"
                 ELSE IF pc[p] \in {"idle", "abort"} THEN "idle" ELSE "asking"

Held(p) == IF Carrying(p) THEN tok[p] ELSE 0

Cached == IF cache.ttl > 0 THEN {cache.life} ELSE {}
Shared == Cached \cup {tok[p] : p \in {q \in Procs : Carrying(q)}}

Service == INSTANCE TokenService WITH
  Callers <- Procs,
  Grantable <- {life \in Lifetimes : life > RefreshSkew},
  st <- [p \in Procs |-> Stage(p)],
  tok <- [p \in Procs |-> Held(p)],
  pool <- Shared

\* Every step of this module is a step that TokenService allows: no delay,
\* crash or lost reply makes Redis hand out a token that nobody was issued, or
\* for longer than it was issued.
ImplementsTokenService == Service!Spec

=============================================================================
