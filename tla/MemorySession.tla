--------------------------- MODULE MemorySession ----------------------------
(***************************************************************************)
(* The live-session-token cache in "memory" and "disabled" mode            *)
(* (getLiveSession, ibkr/cache.go): the goroutines that share one Client.  *)
(* In memory mode the Client's mutex is held across the whole handshake;   *)
(* in disabled mode every call makes a handshake of its own and nothing is *)
(* kept.  Time is a set of countdown timers moved by Tick.                 *)
(***************************************************************************)
EXTENDS Integers

CONSTANTS
  Callers,      \* goroutines
  Nobody,       \* the mutex is free
  RefreshSkew,  \* IBKR_LST_REFRESH_SKEW_SECONDS
  Lifetimes     \* lifetimes of the tokens IBKR issues; 0 is one already expired

ASSUME NobodyAssumption == Nobody \notin Callers
ASSUME RefreshSkewAssumption == RefreshSkew \in Nat
ASSUME LifetimesAssumption == Lifetimes \subseteq Nat

VARIABLES
  mode,     \* IBKR_LST_CACHE_MODE
  pc,       \* where each goroutine is in its call
  mutex,    \* who holds client.mutex
  session,  \* life of client.session; 0 when there is none, or it is over
  tok       \* life of the token each goroutine was given

vars == <<mode, pc, mutex, session, tok>>

Countdown(n) == IF n > 0 THEN n - 1 ELSE 0

Init ==
  /\ mode \in {"memory", "disabled"}
  /\ pc = [p \in Callers |-> "idle"]
  /\ mutex = Nobody
  /\ session = 0
  /\ tok = [p \in Callers |-> 0]

-----------------------------------------------------------------------------
Goto(p, stage) == pc' = [pc EXCEPT ![p] = stage]

Receive(p, life) == tok' = [tok EXCEPT ![p] = life]

\* The bug of accepting any session that has not expired yet.
ValidUntilExpiry(life) == life > 0

\* liveSession.valid: the expiry less the skew is still in the future.
Valid(life) == life > RefreshSkew

Unlock(p) == mutex' = IF mutex = p THEN Nobody ELSE mutex

Start(p) ==
  /\ pc[p] = "idle"
  /\ Goto(p, IF mode = "memory" THEN "lock" ELSE "handshake")
  /\ UNCHANGED <<mode, mutex, session, tok>>

\* The bug of a look at the session without the mutex.
LookUnlocked(p) ==
  /\ pc[p] = "lock"
  /\ mutex = Nobody
  /\ Goto(p, "check")
  /\ UNCHANGED <<mode, mutex, session, tok>>

\* A goroutine waits for the mutex whether or not its context is done.
Lock(p) ==
  /\ pc[p] = "lock"
  /\ mutex = Nobody
  /\ mutex' = p
  /\ Goto(p, "check")
  /\ UNCHANGED <<mode, session, tok>>

Hit(p) ==
  /\ pc[p] = "check"
  /\ Valid(session)
  /\ Receive(p, session)
  /\ Unlock(p)
  /\ Goto(p, "send")
  /\ UNCHANGED <<mode, session>>

Miss(p) ==
  /\ pc[p] = "check"
  /\ ~Valid(session)
  /\ Goto(p, "handshake")
  /\ UNCHANGED <<mode, mutex, session, tok>>

\* The bug of keeping the time to refresh in place of the expiry.
KeptLessSkew(life) == IF mode = "memory" THEN life - RefreshSkew ELSE session

Kept(life) == IF mode = "memory" THEN life ELSE session

\* The new session is kept and returned without a look at its expiry.
HandshakeOk(p) ==
  /\ pc[p] = "handshake"
  /\ \E life \in Lifetimes : Receive(p, life) /\ session' = Kept(life)
  /\ Unlock(p)
  /\ Goto(p, "send")
  /\ UNCHANGED mode

\* The bug of an early return that skips the unlock.
HandshakeFailedLocked(p) ==
  /\ pc[p] = "handshake"
  /\ Goto(p, "idle")
  /\ UNCHANGED <<mode, mutex, session, tok>>

\* A key, transport, status or signature error, or a context that is done;
\* the earlier session stays.
HandshakeFailed(p) ==
  /\ pc[p] = "handshake"
  /\ Unlock(p)
  /\ Goto(p, "idle")
  /\ UNCHANGED <<mode, session, tok>>

\* signProtected and sendJSON use the token once and the call is over.
Send(p) ==
  /\ pc[p] = "send"
  /\ Receive(p, 0)
  /\ Goto(p, "idle")
  /\ UNCHANGED <<mode, mutex, session>>

Tick ==
  /\ session' = Countdown(session)
  /\ tok' = [p \in Callers |-> Countdown(tok[p])]
  /\ UNCHANGED <<mode, pc, mutex>>

Continue(p) == Hit(p) \/ Miss(p) \/ HandshakeOk(p) \/ HandshakeFailed(p) \/ Send(p)

Next ==
  \/ \E p \in Callers : Start(p) \/ Lock(p) \/ Continue(p)
  \/ Tick

\* Requests have a timeout, and sync.Mutex passes itself on to a goroutine
\* that has waited long.
Fairness == \A p \in Callers : WF_vars(Continue(p)) /\ SF_vars(Lock(p))

Spec == Init /\ [][Next]_vars
FairSpec == Spec /\ Fairness

-----------------------------------------------------------------------------
(* Properties.                                                             *)

\* Type invariant.
TypeOK ==
  /\ mode \in {"memory", "disabled"}
  /\ pc \in [Callers -> {"idle", "lock", "check", "handshake", "send"}]
  /\ mutex \in Callers \cup {Nobody}
  /\ session \in Nat
  /\ tok \in [Callers -> Nat]

\* However many goroutines ask at once, in memory mode one of them at most is
\* at its handshake, and only while the session it would replace is unusable
\* (TestConcurrentMemoryCacheHasSingleHandshake, client_test.go:35).
HandshakeOnlyWhenNeeded ==
  mode = "memory" =>
    \A p \in Callers : pc[p] = "handshake" =>
      /\ ~Valid(session)
      /\ \A q \in Callers : pc[q] = "handshake" => q = p

\* Every call ends, with a request or an error, also one that waits for the
\* mutex while another goroutine's handshake fails.
CallsReturn == \A p \in Callers : pc[p] # "idle" ~> pc[p] = "idle"

-----------------------------------------------------------------------------
(* Memory and disabled mode keep the promise of TokenService.  A token that *)
(* comes straight from the handshake is handed out whatever its life.      *)

Stage(p) ==
  CASE pc[p] = "idle" -> "idle"
    [] pc[p] \in {"lock", "check", "handshake"} -> "asking"
    [] pc[p] = "send" -> "holding"

Service == INSTANCE TokenService WITH
  Grantable <- Lifetimes,
  st <- [p \in Callers |-> Stage(p)],
  tok <- [p \in Callers |-> IF pc[p] = "send" THEN tok[p] ELSE 0],
  pool <- {session} \ {0}

\* Every step of this module is a step that TokenService allows.
ImplementsTokenService == Service!Spec

=============================================================================
