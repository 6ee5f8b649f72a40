------------------------ MODULE MemorySession_proofs ------------------------
(***************************************************************************)
(* Proofs about MemorySession, for every set of goroutines, skew and token *)
(* lifetimes.  The argument: in memory mode whoever looks at the session   *)
(* or refreshes it holds the mutex, so that nobody else changes it.        *)
(***************************************************************************)
EXTENDS MemorySession, TLAPS

\* Who is between Lock and Unlock holds the mutex.
Holding ==
  mode = "memory" =>
    \A p \in Callers : pc[p] \in {"check", "handshake"} => mutex = p

\* Whoever refreshes the session has found it unusable.
Needed ==
  mode = "memory" =>
    \A p \in Callers : pc[p] = "handshake" => ~Valid(session)

-----------------------------------------------------------------------------
\* Type correctness of the memory cache (getLiveSession, ibkr/cache.go).
THEOREM Typing == Spec => []TypeOK
<1> USE NobodyAssumption, RefreshSkewAssumption, LifetimesAssumption
<1>1. Init => TypeOK
  BY DEF Init, TypeOK
<1>2. TypeOK /\ [Next]_vars => TypeOK'
  <2> SUFFICES ASSUME TypeOK, [Next]_vars
               PROVE  TypeOK'
    OBVIOUS
  <2> USE DEF TypeOK, Goto, Receive, Unlock
  <2>1. ASSUME NEW p \in Callers, Start(p) \/ Lock(p) \/ Miss(p)
        PROVE  TypeOK'
    BY <2>1 DEF Start, Lock, Miss
  <2>2. ASSUME NEW p \in Callers, Hit(p) \/ HandshakeFailed(p) \/ Send(p)
        PROVE  TypeOK'
    BY <2>2 DEF Hit, HandshakeFailed, Send
  <2>3. ASSUME NEW p \in Callers, HandshakeOk(p)
        PROVE  TypeOK'
    BY <2>3 DEF HandshakeOk, Kept
  <2>4. ASSUME Tick
        PROVE  TypeOK'
    BY <2>4 DEF Tick, Countdown
  <2>5. CASE UNCHANGED vars
    BY <2>5 DEF vars
  <2> QED
    BY <2>1, <2>2, <2>3, <2>4, <2>5 DEF Next, Continue
<1> QED
  BY <1>1, <1>2, PTL DEF Spec

-----------------------------------------------------------------------------
\* The mutex is held from the look at the session to the end of the refresh
\* (the deferred Unlock of cache.go:32), and a session that is being refreshed
\* is not made usable by anybody else.
LEMMA RefreshUnderMutex == Spec => [](Holding /\ Needed)
<1> USE NobodyAssumption, RefreshSkewAssumption, LifetimesAssumption
<1>1. Init => Holding /\ Needed
  BY DEF Init, Holding, Needed
<1>2. TypeOK /\ Holding /\ Needed /\ [Next]_vars => Holding' /\ Needed'
  <2> SUFFICES ASSUME TypeOK, Holding, Needed, [Next]_vars
               PROVE  Holding' /\ Needed'
    OBVIOUS
  <2> USE DEF TypeOK, Holding, Needed, Goto, Receive, Unlock, Valid
  <2>1. ASSUME NEW p \in Callers, Start(p) \/ Lock(p) \/ Miss(p)
        PROVE  Holding' /\ Needed'
    BY <2>1 DEF Start, Lock, Miss
  <2>2. ASSUME NEW p \in Callers, Hit(p) \/ HandshakeFailed(p) \/ Send(p)
        PROVE  Holding' /\ Needed'
    BY <2>2 DEF Hit, HandshakeFailed, Send
  <2>3. ASSUME NEW p \in Callers, HandshakeOk(p)
        PROVE  Holding' /\ Needed'
    BY <2>3 DEF HandshakeOk, Kept
  <2>4. ASSUME Tick
        PROVE  Holding' /\ Needed'
    BY <2>4 DEF Tick, Countdown
  <2>5. CASE UNCHANGED vars
    BY <2>5 DEF vars
  <2> QED
    BY <2>1, <2>2, <2>3, <2>4, <2>5 DEF Next, Continue
<1>3. Spec => []TypeOK
  BY Typing
<1> QED
  BY <1>1, <1>2, <1>3, PTL DEF Spec

\* In memory mode at most one goroutine is at its handshake, and only while
\* the session is unusable.
THEOREM SingleHandshake == Spec => []HandshakeOnlyWhenNeeded
<1>1. Holding /\ Needed => HandshakeOnlyWhenNeeded
  BY DEF Holding, Needed, HandshakeOnlyWhenNeeded
<1> QED
  BY <1>1, RefreshUnderMutex, PTL

-----------------------------------------------------------------------------
\* The two modes implement TokenService: a token in use was issued by IBKR, to
\* this call or to an earlier one that left it in the session.
THEOREM MemoryImplementsTokenService == Spec => ImplementsTokenService
<1> USE NobodyAssumption, RefreshSkewAssumption, LifetimesAssumption
<1> USE DEF Service!Become, Service!Sharing
<1>1. Init => Service!Init
  BY DEF Init, Service!Init, Stage
<1>2. TypeOK /\ [Next]_vars => [Service!Next]_Service!vars
  <2> SUFFICES ASSUME TypeOK, [Next]_vars
               PROVE  Service!Next \/ UNCHANGED Service!vars
    OBVIOUS
  <2> USE DEF TypeOK, Goto, Receive, Stage
  <2>1. ASSUME NEW p \in Callers, Start(p)
        PROVE  Service!Ask(p)
    BY <2>1 DEF Start, Service!Ask
  <2>2. ASSUME NEW p \in Callers, Lock(p) \/ Miss(p)
        PROVE  UNCHANGED Service!vars
    BY <2>2 DEF Lock, Miss, Service!vars
  <2>3. ASSUME NEW p \in Callers, Hit(p)
        PROVE  Service!Share(p)
    <3>1. session > RefreshSkew /\ session # 0 /\ session' = session
      BY <2>3 DEF Hit, Valid
    <3>2. Service!Become(p, "holding", session)
      BY <2>3 DEF Hit
    <3>3. [q \in Callers |-> Stage(q)][p] = "asking"
      BY <2>3 DEF Hit
    <3> QED
      BY <3>1, <3>2, <3>3 DEF Service!Share
  <2>4. ASSUME NEW p \in Callers, HandshakeOk(p)
        PROVE  Service!Issue(p)
    BY <2>4 DEF HandshakeOk, Kept, Service!Issue
  <2>5. ASSUME NEW p \in Callers, HandshakeFailed(p) \/ Send(p)
        PROVE  Service!Return(p)
    BY <2>5 DEF HandshakeFailed, Send, Service!Return
  <2>6. ASSUME Tick
        PROVE  Service!Elapse
    BY <2>6 DEF Tick, Countdown, Service!Elapse, Service!Remaining
  <2>7. CASE UNCHANGED vars
    BY <2>7 DEF vars, Service!vars
  <2> QED
    BY <2>1, <2>2, <2>3, <2>4, <2>5, <2>6, <2>7 DEF Next, Continue, Service!Next
<1>3. Spec => []TypeOK
  BY Typing
<1> QED
  BY <1>1, <1>2, <1>3, PTL DEF Spec, ImplementsTokenService, Service!Spec

=============================================================================
