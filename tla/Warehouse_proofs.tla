--------------------------- MODULE Warehouse_proofs ---------------------------
(***************************************************************************)
(* Proofs about Warehouse, for every set of processes, contracts, bars and *)
(* every bound on the bars of a response.                                  *)
(***************************************************************************)
EXTENDS Warehouse, WellFoundedInduction, TLAPS

-----------------------------------------------------------------------------
(* The least element of a set of numbers, from the library's well-founded  *)
(* relation on Nat.                                                        *)

Below == OpToRel(<, Nat)

LEMMA BelowIsLess == Below = {p \in Nat \X Nat : p[1] < p[2]}
  BY Zenon DEF Below, OpToRel

LEMMA BelowIsWellFounded == IsWellFoundedOn(Below, Nat)
  BY NatLessThanWellFounded, Zenon DEF Below

LEMMA LeastNumber ==
  ASSUME NEW S \in SUBSET Nat, S # {}
  PROVE  \E m \in S : \A x \in S : m <= x
<1>1. PICK m \in S : \A x \in S : ~(<<x, m>> \in Below)
  BY BelowIsWellFounded, WFMin
<1>2. \A x \in S : ~(x < m)
  BY <1>1, BelowIsLess
<1> QED
  BY <1>2

-----------------------------------------------------------------------------
(* Responses and their statements.                                         *)

LEMMA ResponsesAreTyped ==
  ASSUME NEW c, NEW r \in Responses(c)
  PROVE  r \in PeriodResponses
BY DEF Responses, RangeResponses, PeriodResponses

LEMMA RowsOfResponse ==
  ASSUME NEW r \in PeriodResponses
  PROVE  \E n \in 0 .. MaxRows : r \in [1 .. n -> Keys] /\ DOMAIN r = 1 .. n
BY DEF PeriodResponses

\* Of the rows with one key, the last one is in the statement.
LEMMA LastRow ==
  ASSUME NEW r \in PeriodResponses, NEW j \in DOMAIN r
  PROVE  \E i \in Statement(r) : r[i] = r[j]
<1> USE BarsAssumption
<1>1. PICK n \in 0 .. MaxRows : r \in [1 .. n -> Keys] /\ DOMAIN r = 1 .. n
  BY RowsOfResponse
<1> DEFINE Same == {i \in 1 .. n : r[i] = r[j]}
<1> DEFINE After == {n - i : i \in Same}
<1>2. After \in SUBSET Nat /\ After # {}
  BY <1>1
<1>3. PICK m \in After : \A x \in After : m <= x
  BY <1>2, LeastNumber
<1>4. PICK i \in Same : m = n - i
  BY <1>3
<1>5. ASSUME NEW l \in Same
      PROVE  l <= i
  <2>1. n - l \in After
    OBVIOUS
  <2>2. m <= n - l
    BY <1>3, <2>1
  <2>3. n \in Int /\ l \in Int /\ i \in Int
    OBVIOUS
  <2> HIDE DEF Same, After
  <2> QED
    BY <1>4, <2>2, <2>3
<1> QED
  BY <1>1, <1>4, <1>5 DEF Statement

\* The row a statement comes to next.
LEMMA FirstLeft ==
  ASSUME TypeOK, NEW c \in Commands, Left(c) # {}
  PROVE  /\ NextBar(c) \in Left(c)
         /\ \A j \in Left(c) : NextBar(c) <= j
         /\ NextBar(c) \in Statement(rows[c]) /\ next[c] <= NextBar(c)
         /\ NextBar(c) \in 1 .. MaxRows /\ NextBar(c) \in DOMAIN rows[c]
         /\ NextKey(c) \in Keys
<1> USE BarsAssumption
<1>1. PICK n \in 0 .. MaxRows : rows[c] \in [1 .. n -> Keys] /\ DOMAIN rows[c] = 1 .. n
  BY RowsOfResponse DEF TypeOK
<1>2. Left(c) \in SUBSET Nat /\ Left(c) \subseteq DOMAIN rows[c]
  BY <1>1 DEF Left, Statement
<1>3. \E i \in Left(c) : \A j \in Left(c) : i <= j
  BY <1>2, LeastNumber
<1>4. NextBar(c) \in Left(c) /\ \A j \in Left(c) : NextBar(c) <= j
  BY <1>3 DEF NextBar
<1> QED
  BY <1>1, <1>2, <1>4 DEF Left, NextKey

-----------------------------------------------------------------------------
\* Only stock-conid works on the table of contracts, and what it stores is what
\* IBKR answered it.
LookupIsOwn ==
  \A c \in Commands :
    /\ pc[c] \in {"find", "store"} => job[c] \in StockJobs
    /\ pc[c] = "store" =>
         /\ result[c] \in [conid : Conids, exchange : Exchanges \cup {NoExchange}, by : {c}]
         /\ job[c].filtered => Market[result[c].conid].us

Results == {NoResult} \cup [conid : Conids, exchange : Exchanges \cup {NoExchange},
                           by : Commands \cup {NoOne}]

LEMMA QuietLookups ==
  ASSUME LookupIsOwn, UNCHANGED <<job, result>>,
         \A c \in Commands : pc'[c] \in {"find", "store"} => pc'[c] = pc[c]
  PROVE  LookupIsOwn'
BY DEF LookupIsOwn

LEMMA TypingAndLookups == Spec => [](TypeOK /\ LookupIsOwn)
<1> DEFINE Inv == TypeOK /\ LookupIsOwn
<1>1. Init => Inv
  <2> SUFFICES ASSUME Init PROVE Inv
    OBVIOUS
  <2>1. <<>> \in PeriodResponses
    <3>1. <<>> \in [1 .. 0 -> Keys] /\ 0 \in 0 .. MaxRows
      BY BarsAssumption
    <3> QED
      BY <3>1 DEF PeriodResponses
  <2>2. conids \in [Conids -> {Absent} \cup StoredRows]
    BY OldRowsAssumption DEF Init, StoredRows
  <2>3. job \in [Commands -> StockJobs \cup HistoryJobs]
    BY DEF Init
  <2> QED
    BY <2>1, <2>2, <2>3, BarsAssumption DEF Init, TypeOK, LookupIsOwn
<1>2. Inv /\ [Next]_vars => Inv'
  <2> SUFFICES ASSUME Inv, [Next]_vars
               PROVE  Inv'
    OBVIOUS
  <2> USE DEF Go, UsePool, Exit, Return
  <2>1. ASSUME NEW c \in Commands, Connect(c) \/ Close(c) \/ Kill(c)
        PROVE  Inv'
    <3>1. TypeOK'
      <4>1. /\ pc' \in [Commands -> {"connect", "find", "request", "store", "upsert", "exec",
                                   "close", "done"}]
            /\ pool' \in [Commands -> {"none", "idle", "busy"}]
            /\ exit' \in [Commands -> {"running", "ok", "ibkr", "ambiguous", "killed"}]
        BY <2>1 DEF Connect, Close, Kill, TypeOK
      <4>2. UNCHANGED <<job, rows, result, conids, server>>
        BY <2>1 DEF Connect, Close, Kill
      <4> QED
        BY <4>1, <4>2 DEF server, TypeOK
    <3>2. CASE Connect(c)
      <4>1. UNCHANGED <<job, result>> /\ pc'[c] # "store"
            /\ \A d \in Commands \ {c} : pc'[d] = pc[d]
        BY <3>2 DEF Connect, TypeOK
      <4>2. pc'[c] = "find" => job[c] \in StockJobs
        BY <3>2 DEF Connect, TypeOK, Stock, HistoryJobs
      <4> QED
        BY <3>1, <4>1, <4>2 DEF LookupIsOwn
    <3>3. CASE Close(c) \/ Kill(c)
      BY <2>1, <3>1, <3>3, QuietLookups DEF Close, Kill, TypeOK
    <3> QED
      BY <2>1, <3>2, <3>3
  <2>2. ASSUME NEW c \in Commands, Find(c)
        PROVE  Inv'
    <3>1. \A n \in ActiveRows(c) : n \in Conids /\ conids[n] \in StoredRows
      BY DEF ActiveRows, Absent, TypeOK
    <3>2. result' \in [Commands -> Results]
      BY <2>2, <3>1 DEF Find, StoredRows, TypeOK, Results
    <3>3. TypeOK'
      BY <2>2, <3>2 DEF Find, Queried, server, TypeOK, Results
    <3>4. /\ UNCHANGED job /\ pc'[c] \in {"close", "request"}
          /\ \A d \in Commands \ {c} : pc'[d] = pc[d] /\ result'[d] = result[d]
      <4>1. /\ result' = result \/ \E x : result' = [result EXCEPT ![c] = x]
            /\ pc' = [pc EXCEPT ![c] = "close"] \/ pc' = [pc EXCEPT ![c] = "request"]
            /\ UNCHANGED job
        BY <2>2 DEF Find
      <4> QED
        BY <4>1 DEF TypeOK
    <3>5. LookupIsOwn'
      BY <3>4 DEF LookupIsOwn
    <3> QED
      BY <3>3, <3>5
  <2>3. ASSUME NEW c \in Commands, LookupStock(c)
        PROVE  Inv'
    <3>1. CASE Return(c, "ibkr") /\ UNCHANGED result
      BY <2>3, <3>1 DEF LookupStock, server, TypeOK, LookupIsOwn
    <3>2. CASE ~UNCHANGED result \/ ~Return(c, "ibkr")
      <4>1. PICK listed \in SUBSET Conids, n \in Conids :
              /\ Selected(c, listed) = {n}
              /\ result' = [result EXCEPT ![c] =
                   [conid |-> n, exchange |-> Market[n].exchange, by |-> c]]
              /\ IF pool[c] = "none" THEN Return(c, "ok") ELSE Go(c, "store") /\ UNCHANGED exit
        BY <2>3, <3>2 DEF LookupStock
      <4>2. job[c] \in StockJobs
        BY <2>3 DEF LookupStock, Stock, TypeOK, HistoryJobs
      <4>3. job[c].filtered => Market[n].us
        BY <4>1 DEF Selected
      <4>4. result' \in [Commands -> Results]
        BY <4>1, MarketAssumption DEF TypeOK, Results
      <4>5. /\ pc' \in {[pc EXCEPT ![c] = "close"], [pc EXCEPT ![c] = "store"]}
            /\ exit' \in {exit, [exit EXCEPT ![c] = "ok"]}
            /\ UNCHANGED <<job, pool, rows, conids, server>>
        BY <2>3, <4>1 DEF LookupStock
      <4>6. TypeOK'
        BY <4>4, <4>5 DEF server, TypeOK, Results
      <4>7. /\ result'[c] = [conid |-> n, exchange |-> Market[n].exchange, by |-> c]
            /\ \A d \in Commands \ {c} : pc'[d] = pc[d] /\ result'[d] = result[d]
        BY <4>1, <4>5 DEF TypeOK
      <4>8. LookupIsOwn'
        BY <4>2, <4>3, <4>5, <4>7, MarketAssumption DEF LookupIsOwn
      <4> QED
        BY <4>6, <4>8
    <3> QED
      BY <3>1, <3>2
  <2>4. ASSUME NEW c \in Commands, StoreConid(c)
        PROVE  Inv'
    <3> DEFINE row == [symbol |-> job[c].symbol, exchange |-> result[c].exchange,
                       active |-> TRUE, by |-> c]
    <3>1. row \in StoredRows /\ result[c].conid \in Conids
      BY <2>4 DEF StoreConid, LookupIsOwn, StockJobs, StoredRows
    <3>2. conids' \in [Conids -> {Absent} \cup StoredRows]
      BY <2>4, <3>1 DEF StoreConid, TypeOK
    <3>3. TypeOK'
      BY <2>4, <3>2 DEF StoreConid, server, TypeOK
    <3>4. LookupIsOwn'
      BY <2>4, QuietLookups DEF StoreConid, TypeOK
    <3> QED
      BY <3>3, <3>4
  <2>5. ASSUME NEW c \in Commands, FetchHistory(c)
        PROVE  Inv'
    <3>1. rows' = rows \/ \E r \in Responses(c) : rows' = [rows EXCEPT ![c] = r]
      BY <2>5 DEF FetchHistory
    <3>a. rows' \in [Commands -> PeriodResponses]
      BY <3>1, ResponsesAreTyped DEF TypeOK
    <3>2. TypeOK'
      BY <2>5, <3>a DEF FetchHistory, server, TypeOK
    <3>3. LookupIsOwn'
      BY <2>5, QuietLookups DEF FetchHistory, TypeOK
    <3> QED
      BY <3>2, <3>3
  <2>6. ASSUME NEW c \in Commands, Upsert(c) \/ Reply(c) \/ LoseConnection(c)
        PROVE  Inv'
    <3>1. TypeOK'
      BY <2>6 DEF Upsert, Reply, LoseConnection, ExecReturns, server, TypeOK
    <3>2. LookupIsOwn'
      BY <2>6, QuietLookups DEF Upsert, Reply, LoseConnection, ExecReturns, TypeOK
    <3> QED
      BY <3>1, <3>2
  <2>7. ASSUME NEW c \in Commands, LockRow(c)
        PROVE  Inv'
    <3>1. /\ NextBar(c) \in 1 .. MaxRows /\ NextKey(c) \in Keys
          /\ NextBar(c) + 1 \in 1 .. MaxRows + 1
      BY <2>7, FirstLeft, BarsAssumption DEF LockRow, HasNext
    <3>2. Version(c, NextBar(c)) \in Versions
      BY <3>1 DEF Version, Versions
    <3>3. TypeOK'
      BY <2>7, <3>1, <3>2 DEF LockRow, client, TypeOK
    <3>4. LookupIsOwn'
      BY <2>7, QuietLookups DEF LockRow, client
    <3> QED
      BY <3>3, <3>4
  <2>8. ASSUME NEW c \in Commands, Commit(c)
        PROVE  Inv'
    <3>1. TypeOK'
      BY <2>8, BarsAssumption DEF Commit, Released, client, TypeOK
    <3>2. LookupIsOwn'
      BY <2>8, QuietLookups DEF Commit, client
    <3> QED
      BY <3>1, <3>2
  <2>9. ASSUME NEW c \in Commands, NEW reason \in {"refused", "deadlock", "failed"},
               Abort(c, reason)
        PROVE  Inv'
    <3>1. TypeOK'
      BY <2>9, BarsAssumption DEF Abort, Released, client, TypeOK
    <3>2. LookupIsOwn'
      BY <2>9, QuietLookups DEF Abort, client
    <3> QED
      BY <3>1, <3>2
  <2>10. ASSUME NEW c \in Commands, BreakCircle(c) \/ FailStatement(c)
        PROVE  Inv'
    BY <2>9, <2>10 DEF BreakCircle, FailStatement
  <2>11. CASE UNCHANGED vars
    BY <2>11 DEF vars, client, server, TypeOK, LookupIsOwn
  <2> QED
    BY <2>1, <2>2, <2>3, <2>4, <2>5, <2>6, <2>7, <2>8, <2>10, <2>11
       DEF Next, Program, Local, Answered, Server
<1> QED
  BY <1>1, <1>2, PTL DEF Spec

\* Types of the processes, the tables and the locks.
THEOREM Typing == Spec => []TypeOK
BY TypingAndLookups, PTL

-----------------------------------------------------------------------------
\* What is stored by a filtered lookup is a US contract.
StoredIsJustified ==
  \A n \in Conids :
    conids[n].by # NoOne => (job[conids[n].by].filtered => Market[n].us)

JustifiedInv == AnswersAreJustified /\ StoredIsJustified

LEMMA QuietKeepsJustified ==
  ASSUME JustifiedInv, UNCHANGED <<job, conids, result>>
  PROVE  JustifiedInv'
BY DEF JustifiedInv, AnswersAreJustified, StoredIsJustified, ExchangeFits

\* Every answer of stock-conid is on the exchange asked for, and a filtered
\* lookup is answered by a contract abroad only if another program or an
\* unfiltered lookup stored it (market_data.go:59-91).
THEOREM AnswersJustified == Spec => []AnswersAreJustified
<1>1. Init => JustifiedInv
  <2> SUFFICES ASSUME Init PROVE JustifiedInv
    OBVIOUS
  <2>1. \A n \in Conids : conids[n].by = NoOne
    BY OldRowsAssumption DEF Init, Absent
  <2> QED
    BY <2>1 DEF Init, JustifiedInv, AnswersAreJustified, StoredIsJustified
<1>2. TypeOK /\ LookupIsOwn /\ JustifiedInv /\ [Next]_vars => JustifiedInv'
  <2> SUFFICES ASSUME TypeOK, LookupIsOwn, JustifiedInv, [Next]_vars
               PROVE  JustifiedInv'
    OBVIOUS
  <2>1. ASSUME NEW c \in Commands,
               \/ Connect(c) \/ Close(c) \/ Kill(c) \/ FetchHistory(c) \/ Upsert(c)
               \/ Reply(c) \/ LoseConnection(c)
        PROVE  JustifiedInv'
    BY <2>1, QuietKeepsJustified
       DEF Connect, Close, Kill, FetchHistory, Upsert, Reply, LoseConnection, ExecReturns,
           Return, Exit
  <2>2. ASSUME NEW c \in Commands, Find(c)
        PROVE  JustifiedInv'
    <3>1. UNCHANGED <<job, conids>>
      BY <2>2 DEF Find
    <3>2. CASE UNCHANGED result
      BY <3>1, <3>2, QuietKeepsJustified
    <3>3. CASE \E n \in Conids :
            /\ ActiveRows(c) = {n}
            /\ result' = [result EXCEPT ![c] =
                 [conid |-> n, exchange |-> conids[n].exchange, by |-> conids[n].by]]
      <4>1. PICK n \in Conids :
              /\ ActiveRows(c) = {n}
              /\ result' = [result EXCEPT ![c] =
                   [conid |-> n, exchange |-> conids[n].exchange, by |-> conids[n].by]]
        BY <3>3
      <4>2. ExchangeFits(c, conids[n].exchange)
        BY <4>1 DEF ActiveRows
      <4>3. conids[n].by = NoOne \/ (job[conids[n].by].filtered => Market[n].us)
        BY DEF JustifiedInv, StoredIsJustified
      <4>4. /\ result'[c] = [conid |-> n, exchange |-> conids[n].exchange, by |-> conids[n].by]
            /\ \A d \in Commands \ {c} : result'[d] = result[d]
        BY <4>1 DEF TypeOK
      <4>5. AnswersAreJustified'
        BY <3>1, <4>2, <4>3, <4>4 DEF JustifiedInv, AnswersAreJustified, ExchangeFits
      <4>6. StoredIsJustified'
        BY <3>1 DEF JustifiedInv, StoredIsJustified
      <4> QED
        BY <4>5, <4>6 DEF JustifiedInv
    <3> QED
      BY <2>2, <3>2, <3>3 DEF Find
  <2>3. ASSUME NEW c \in Commands, LookupStock(c)
        PROVE  JustifiedInv'
    <3>1. UNCHANGED <<job, conids>>
      BY <2>3 DEF LookupStock
    <3>2. CASE UNCHANGED result
      BY <3>1, <3>2, QuietKeepsJustified
    <3>3. CASE ~UNCHANGED result
      <4>1. PICK listed \in SUBSET Conids, n \in Conids :
              /\ Selected(c, listed) = {n}
              /\ result' = [result EXCEPT ![c] =
                   [conid |-> n, exchange |-> Market[n].exchange, by |-> c]]
        BY <2>3, <3>3 DEF LookupStock
      <4>2. /\ ExchangeFits(c, Market[n].exchange)
            /\ job[c].filtered => Market[n].us
        BY <4>1 DEF Selected
      <4>3. /\ result'[c] = [conid |-> n, exchange |-> Market[n].exchange, by |-> c]
            /\ \A d \in Commands \ {c} : result'[d] = result[d]
        BY <4>1 DEF TypeOK
      <4>4. AnswersAreJustified'
        BY <3>1, <4>2, <4>3 DEF JustifiedInv, AnswersAreJustified, ExchangeFits
      <4>5. StoredIsJustified'
        BY <3>1 DEF JustifiedInv, StoredIsJustified
      <4> QED
        BY <4>4, <4>5 DEF JustifiedInv
    <3> QED
      BY <3>2, <3>3
  <2>4. ASSUME NEW c \in Commands, StoreConid(c)
        PROVE  JustifiedInv'
    <3>1. UNCHANGED <<job, result>>
      BY <2>4 DEF StoreConid
    <3>2. result[c].conid \in Conids /\ (job[c].filtered => Market[result[c].conid].us)
      BY <2>4 DEF StoreConid, LookupIsOwn
    <3>3. \A n \in Conids :
            conids'[n].by = conids[n].by \/ (n = result[c].conid /\ conids'[n].by = c)
      <4>1. \/ UNCHANGED conids
            \/ conids' = [conids EXCEPT ![result[c].conid] =
                 [symbol |-> job[c].symbol, exchange |-> result[c].exchange,
                  active |-> TRUE, by |-> c]]
        BY <2>4 DEF StoreConid
      <4> QED
        BY <3>2, <4>1 DEF TypeOK
    <3>4. StoredIsJustified'
      BY <3>1, <3>2, <3>3 DEF JustifiedInv, StoredIsJustified
    <3>5. AnswersAreJustified'
      BY <3>1 DEF JustifiedInv, AnswersAreJustified, ExchangeFits
    <3> QED
      BY <3>4, <3>5 DEF JustifiedInv
  <2>5. ASSUME NEW c \in Commands, Server(c) \/ FailStatement(c)
        PROVE  JustifiedInv'
    BY <2>5, QuietKeepsJustified
       DEF Server, LockRow, Commit, BreakCircle, FailStatement, Abort, client
  <2>6. CASE UNCHANGED vars
    BY <2>6, QuietKeepsJustified DEF vars, client
  <2> QED
    BY <2>1, <2>2, <2>3, <2>4, <2>5, <2>6 DEF Next, Program, Local, Answered
<1>3. JustifiedInv => AnswersAreJustified
  BY DEF JustifiedInv
<1> QED
  BY <1>1, <1>2, <1>3, TypingAndLookups, PTL DEF Spec

-----------------------------------------------------------------------------
\* A row is locked by a running statement that has come past that row.
LocksAreHeld ==
  \A k \in Keys : lock[k] # NoVersion =>
    /\ status[lock[k].by] = "running"
    /\ lock[k].row \in Statement(rows[lock[k].by]) /\ rows[lock[k].by][lock[k].row] = k
    /\ lock[k].row < next[lock[k].by]

\* A running statement holds every row it has come past.
LocksAreComplete ==
  \A c \in Commands : status[c] = "running" =>
    \A i \in Statement(rows[c]) : i < next[c] => lock[rows[c][i]] = Version(c, i)

\* A process has one statement, after its response.
StatementComesOnce ==
  /\ \A c \in Commands :
       /\ pc[c] \notin {"exec", "close", "done"} => status[c] = "none"
       /\ status[c] = "none" => next[c] = 1
  /\ \A i \in DOMAIN commits : status[commits[i]] = "committed"

\* By range, the bars are in the order of time.
RangesAscend ==
  \A c \in Commands : job[c].kind # "period" =>
    \A i, j \in DOMAIN rows[c] : i < j => rows[c][i] < rows[c][j]

LockInv == LocksAreHeld /\ LocksAreComplete /\ StatementComesOnce /\ RangesAscend

TableInv == LockInv /\ WholeStatements /\ NoAvoidableAbort

\* Steps of a client that neither fetch bars nor start a statement.
LEMMA QuietKeepsTable ==
  ASSUME TableInv, UNCHANGED <<job, rows, server>>,
         \A c \in Commands : pc'[c] \notin {"exec", "close", "done"} =>
                              pc[c] \notin {"exec", "close", "done"}
  PROVE  TableInv'
<1> USE DEF TableInv, LockInv, server
<1>1. LocksAreHeld' /\ LocksAreComplete'
  BY DEF LocksAreHeld, LocksAreComplete
<1>2. StatementComesOnce' /\ RangesAscend'
  BY DEF StatementComesOnce, RangesAscend
<1>3. WholeStatements'
  BY DEF WholeStatements, Writers, IsLastWrite
<1>4. NoAvoidableAbort'
  BY DEF NoAvoidableAbort
<1> QED
  BY <1>1, <1>2, <1>3, <1>4

\* In a circle of statements, nobody waits for itself, and two that store by
\* range cannot both be in it: each waits for a later bar than the one before.
LEMMA WaitsForLater ==
  ASSUME TypeOK, LockInv, NEW c \in Commands, Waits(c)
  PROVE  /\ WaitsFor(c) \in Commands /\ WaitsFor(c) # c
         /\ Waits(WaitsFor(c)) /\ job[WaitsFor(c)].kind # "period"
              => NextKey(c) < NextKey(WaitsFor(c))
<1>1. Left(c) # {} /\ lock[NextKey(c)] # NoVersion
  BY DEF Waits, HasNext
<1>2. /\ NextKey(c) \in Keys /\ NextBar(c) \in Statement(rows[c])
      /\ next[c] <= NextBar(c) /\ NextBar(c) \in DOMAIN rows[c]
  BY <1>1, FirstLeft
<1> DEFINE d == WaitsFor(c)
<1> DEFINE i == lock[NextKey(c)].row
<1>3. d \in Commands /\ i \in 1 .. MaxRows
  BY <1>1, <1>2 DEF TypeOK, WaitsFor, Versions
<1>4. i \in Statement(rows[d]) /\ rows[d][i] = NextKey(c) /\ i < next[d]
  BY <1>1, <1>2 DEF LockInv, LocksAreHeld, WaitsFor
<1>5. \A e \in Commands : next[e] \in Nat /\ \A j \in DOMAIN rows[e] : j \in Nat
  BY RowsOfResponse, BarsAssumption DEF TypeOK
<1>6. d # c
  <2> SUFFICES ASSUME d = c PROVE FALSE
    OBVIOUS
  <2>1. rows[c][i] = rows[c][NextBar(c)]
    BY <1>4 DEF NextKey
  <2>2. i \in DOMAIN rows[c] /\ NextBar(c) <= i
    BY <1>2, <1>4, <2>1 DEF Statement
  <2> HIDE DEF d, i
  <2> QED
    BY <1>2, <1>3, <1>4, <1>5, <2>2
<1>7. ASSUME Waits(d), job[d].kind # "period"
      PROVE  NextKey(c) < NextKey(d)
  <2>1. /\ NextBar(d) \in DOMAIN rows[d] /\ next[d] <= NextBar(d)
    BY <1>3, <1>7, FirstLeft DEF Waits, HasNext
  <2>2. i \in DOMAIN rows[d]
    BY <1>4 DEF Statement
  <2>3. i < NextBar(d)
    <3> HIDE DEF d, i
    <3> QED
      BY <1>3, <1>4, <1>5, <2>1, <2>2
  <2>4. rows[d][i] < rows[d][NextBar(d)]
    BY <1>3, <1>7, <2>1, <2>2, <2>3 DEF LockInv, RangesAscend
  <2> QED
    BY <1>4, <2>4 DEF NextKey
<1> QED
  BY <1>3, <1>6, <1>7

LEMMA CirclesNeedPeriods ==
  ASSUME TypeOK, LockInv, NEW S \in SUBSET Commands, S # {}, Circle(S)
  PROVE  /\ \A c \in S : S # {c}
         /\ \E d \in S : job[d].kind = "period"
<1>1. ASSUME NEW c \in S, S = {c}
      PROVE  FALSE
  BY <1>1, WaitsForLater DEF Circle
<1>2. ASSUME \A d \in S : job[d].kind # "period"
      PROVE  FALSE
  <2> DEFINE Sought == {NextKey(d) : d \in S}
  <2>1. \A d \in S : Waits(d) /\ NextKey(d) \in Nat
    BY FirstLeft, BarsAssumption DEF Circle, Waits, HasNext
  <2>2. Sought \in SUBSET Nat /\ Sought # {}
    BY <2>1
  <2>3. PICK m \in Sought : \A x \in Sought : m <= x
    BY <2>2, LeastNumber
  <2>4. PICK e \in S : m = NextKey(e)
    BY <2>3
  <2>5. PICK c \in S : WaitsFor(c) = e
    BY DEF Circle
  <2>6. NextKey(c) < NextKey(e)
    BY <1>2, <2>1, <2>5, WaitsForLater
  <2>7. m <= NextKey(c)
    BY <2>3
  <2> QED
    BY <2>1, <2>4, <2>6, <2>7
<1> QED
  BY <1>1, <1>2

\* A statement that ends releases its rows, and those of the others stay.
LEMMA LocksSurvive ==
  ASSUME TypeOK, LocksAreHeld, LocksAreComplete, NEW c \in Commands,
         UNCHANGED rows, status'[c] # "running",
         \A d \in Commands \ {c} : status'[d] = status[d] /\ next'[d] = next[d],
         lock' = [k \in Keys |-> IF lock[k].by = c THEN NoVersion ELSE lock[k]]
  PROVE  LocksAreHeld' /\ LocksAreComplete'
<1>1. LocksAreHeld'
  <2> SUFFICES ASSUME NEW k \in Keys, lock'[k] # NoVersion
               PROVE  /\ status'[lock'[k].by] = "running"
                      /\ lock'[k].row \in Statement(rows[lock'[k].by])
                      /\ rows[lock'[k].by][lock'[k].row] = k
                      /\ lock'[k].row < next'[lock'[k].by]
    BY DEF LocksAreHeld
  <2>1. lock'[k] = lock[k] /\ lock[k].by \in Commands \ {c}
    BY DEF TypeOK, Versions
  <2> QED
    BY <2>1 DEF LocksAreHeld
<1>2. LocksAreComplete'
  <2> SUFFICES ASSUME NEW d \in Commands \ {c}, status[d] = "running",
                      NEW i \in Statement(rows[d]), i < next[d]
               PROVE  lock'[rows[d][i]] = Version(d, i)
    BY DEF LocksAreComplete
  <2>1. rows[d][i] \in Keys
    BY RowsOfResponse DEF TypeOK, Statement
  <2>2. lock[rows[d][i]] = Version(d, i)
    BY DEF LocksAreComplete
  <2> QED
    BY <2>1, <2>2 DEF Version
<1> QED
  BY <1>1, <1>2

LEMMA TableInvariant == Spec => []TableInv
<1>1. Init => TableInv
  <2> SUFFICES ASSUME Init PROVE TableInv
    OBVIOUS
  <2>1. LocksAreHeld /\ LocksAreComplete
    BY DEF Init, LocksAreHeld, LocksAreComplete
  <2>2. StatementComesOnce /\ RangesAscend
    BY DEF Init, StatementComesOnce, RangesAscend
  <2>3. WholeStatements /\ NoAvoidableAbort
    BY DEF Init, WholeStatements, Writers, NoAvoidableAbort
  <2> QED
    BY <2>1, <2>2, <2>3 DEF TableInv, LockInv
<1>2. TypeOK /\ TableInv /\ [Next]_vars => TableInv'
  <2> SUFFICES ASSUME TypeOK, TableInv, [Next]_vars
               PROVE  TableInv'
    OBVIOUS
  <2>0. /\ LocksAreHeld /\ LocksAreComplete /\ StatementComesOnce /\ RangesAscend
        /\ WholeStatements /\ NoAvoidableAbort
    BY DEF TableInv, LockInv
  <2>1. ASSUME NEW c \in Commands,
               \/ Connect(c) \/ Close(c) \/ Kill(c) \/ Find(c) \/ LookupStock(c)
               \/ StoreConid(c) \/ Reply(c) \/ LoseConnection(c)
        PROVE  TableInv'
    <3>1. UNCHANGED <<job, rows, server>>
      BY <2>1 DEF Connect, Close, Kill, Find, LookupStock, StoreConid, Reply, LoseConnection,
                  ExecReturns
    <3>2. \A d \in Commands : pc'[d] \notin {"exec", "close", "done"} =>
                            pc[d] \notin {"exec", "close", "done"}
      BY <2>1 DEF Connect, Close, Kill, Find, LookupStock, StoreConid, Reply,
                  LoseConnection, ExecReturns, Return, Go, TypeOK
    <3> QED
      BY <3>1, <3>2, QuietKeepsTable
  <2>2. ASSUME NEW c \in Commands, FetchHistory(c)
        PROVE  TableInv'
    <3>1. /\ UNCHANGED <<job, server>> /\ status[c] = "none"
          /\ \A d \in Commands \ {c} : rows'[d] = rows[d] /\ pc'[d] = pc[d]
      <4>1. /\ pc[c] = "request" /\ UNCHANGED <<job, server>>
            /\ rows' = rows \/ \E r : rows' = [rows EXCEPT ![c] = r]
            /\ \E label : pc' = [pc EXCEPT ![c] = label]
        BY <2>2 DEF FetchHistory, Return, Go
      <4>2. status[c] = "none"
        BY <2>0, <4>1 DEF StatementComesOnce
      <4> QED
        BY <4>1, <4>2 DEF TypeOK
    <3>2. \A k \in Keys : lock[k] # NoVersion => lock[k].by # c /\ lock[k].by \in Commands
      BY <2>0, <3>1 DEF LocksAreHeld, TypeOK, Versions
    <3>3. \A i \in DOMAIN commits : commits[i] # c /\ commits[i] \in Commands
      BY <2>0, <3>1 DEF StatementComesOnce, TypeOK
    <3>4. LocksAreHeld'
      BY <2>0, <3>1, <3>2 DEF LocksAreHeld, server
    <3>5. LocksAreComplete'
      BY <2>0, <3>1 DEF LocksAreComplete, server
    <3>6. StatementComesOnce'
      BY <2>0, <3>1 DEF StatementComesOnce, server
    <3>7. RangesAscend'
      <4>1. CASE rows'[c] = rows[c]
        BY <2>0, <3>1, <4>1 DEF RangesAscend
      <4>2. CASE rows'[c] # rows[c]
        <5>1. rows'[c] \in Responses(c)
          BY <2>2, <4>2 DEF FetchHistory, TypeOK
        <5>2. job[c].kind # "period" => rows'[c] \in RangeResponses
          BY <2>2, <5>1 DEF FetchHistory, Stock, Responses, TypeOK, StockJobs, HistoryJobs
        <5>3. job[c].kind # "period" =>
                \A i, j \in DOMAIN rows'[c] : i < j => rows'[c][i] < rows'[c][j]
          BY <5>2 DEF RangeResponses
        <5> QED
          BY <2>0, <3>1, <5>3 DEF RangesAscend
      <4> QED
        BY <4>1, <4>2
    <3>8. WholeStatements' /\ NoAvoidableAbort'
      <4>1. \A i \in DOMAIN commits : rows'[commits[i]] = rows[commits[i]]
        BY <3>1, <3>3
      <4>2. UNCHANGED <<job, bars, status, commits>>
        BY <3>1 DEF server
      <4>3. WholeStatements'
        BY <2>0, <4>1, <4>2 DEF WholeStatements, Writers, IsLastWrite
      <4>4. NoAvoidableAbort'
        BY <2>0, <4>2 DEF NoAvoidableAbort
      <4> QED
        BY <4>3, <4>4
    <3> QED
      BY <3>4, <3>5, <3>6, <3>7, <3>8 DEF TableInv, LockInv
  <2>3. ASSUME NEW c \in Commands, Upsert(c)
        PROVE  TableInv'
    <3>1. CASE UNCHANGED status
      <4>1. UNCHANGED <<job, rows, server>>
        BY <2>3, <3>1 DEF Upsert, server
      <4>2. \A d \in Commands : pc'[d] \notin {"exec", "close", "done"} =>
                              pc[d] \notin {"exec", "close", "done"}
        BY <2>3 DEF Upsert, Return, Go, TypeOK
      <4> QED
        BY <4>1, <4>2, QuietKeepsTable
    <3>2. CASE ~UNCHANGED status
      <4>1. /\ status[c] = "none" /\ next[c] = 1
            /\ UNCHANGED <<job, rows, bars, lock, next, commits>>
            /\ status'[c] = "running" /\ pc'[c] = "exec"
            /\ \A d \in Commands \ {c} : status'[d] = status[d] /\ pc'[d] = pc[d]
        <5>1. /\ pc[c] = "upsert" /\ status' = [status EXCEPT ![c] = "running"]
              /\ pc' = [pc EXCEPT ![c] = "exec"]
              /\ UNCHANGED <<job, rows, bars, lock, next, commits>>
          BY <2>3, <3>2 DEF Upsert, Return, Go
        <5>2. status[c] = "none" /\ next[c] = 1
          BY <2>0, <5>1 DEF StatementComesOnce
        <5> QED
          BY <5>1, <5>2 DEF TypeOK
      <4>2. \A k \in Keys : lock[k] # NoVersion => lock[k].by # c /\ lock[k].by \in Commands
        BY <2>0, <4>1 DEF LocksAreHeld, TypeOK, Versions
      <4>3. \A i \in DOMAIN commits : commits[i] # c /\ commits[i] \in Commands
        BY <2>0, <4>1 DEF StatementComesOnce, TypeOK
      <4>4. LocksAreHeld'
        BY <2>0, <4>1, <4>2 DEF LocksAreHeld
      <4>5. LocksAreComplete'
        <5>1. \A i \in Statement(rows[c]) : ~(i < 1)
          BY RowsOfResponse DEF Statement, TypeOK
        <5> QED
          BY <2>0, <4>1, <5>1 DEF LocksAreComplete
      <4>6. StatementComesOnce' /\ RangesAscend'
        BY <2>0, <4>1, <4>3 DEF StatementComesOnce, RangesAscend
      <4>7. WholeStatements' /\ NoAvoidableAbort'
        BY <2>0, <4>1 DEF WholeStatements, Writers, IsLastWrite, NoAvoidableAbort
      <4> QED
        BY <4>4, <4>5, <4>6, <4>7 DEF TableInv, LockInv
    <3> QED
      BY <3>1, <3>2
  <2>4. ASSUME NEW c \in Commands, LockRow(c)
        PROVE  TableInv'
    <3> DEFINE i == NextBar(c)
    <3>1. /\ status[c] = "running" /\ Left(c) # {} /\ lock[NextKey(c)] = NoVersion
          /\ lock' = [lock EXCEPT ![NextKey(c)] = Version(c, i)]
          /\ next' = [next EXCEPT ![c] = i + 1]
          /\ UNCHANGED <<job, pc, rows, bars, status, commits>>
      BY <2>4 DEF LockRow, HasNext, Running, client
    <3>2. /\ i \in Statement(rows[c]) /\ next[c] <= i /\ i \in 1 .. MaxRows
          /\ NextKey(c) \in Keys /\ NextKey(c) = rows[c][i]
          /\ \A j \in Left(c) : i <= j
      BY <3>1, FirstLeft DEF NextKey
    <3>3. /\ lock'[NextKey(c)] = Version(c, i)
          /\ \A k \in Keys : k # NextKey(c) => lock'[k] = lock[k]
          /\ next'[c] = i + 1 /\ \A d \in Commands \ {c} : next'[d] = next[d]
          /\ i \in Int /\ next[c] \in Int
      BY <3>1, <3>2 DEF TypeOK
    <3> HIDE DEF i
    <3>4. LocksAreHeld'
      <4> SUFFICES ASSUME NEW k \in Keys, lock'[k] # NoVersion
                   PROVE  /\ status[lock'[k].by] = "running"
                          /\ lock'[k].row \in Statement(rows[lock'[k].by])
                          /\ rows[lock'[k].by][lock'[k].row] = k
                          /\ lock'[k].row < next'[lock'[k].by]
        BY <3>1 DEF LocksAreHeld
      <4>1. CASE k = NextKey(c)
        BY <3>1, <3>2, <3>3, <4>1 DEF Version
      <4>2. CASE k # NextKey(c)
        <5>1. lock'[k] = lock[k] /\ lock[k].by \in Commands /\ lock[k].row \in 1 .. MaxRows
          BY <3>3, <4>2 DEF TypeOK, Versions
        <5>2. lock[k].row < next[lock[k].by]
          BY <2>0, <5>1 DEF LocksAreHeld
        <5>3. lock[k].row < next'[lock[k].by]
          BY <3>2, <3>3, <5>1, <5>2
        <5> QED
          BY <2>0, <5>1, <5>3 DEF LocksAreHeld
      <4> QED
        BY <4>1, <4>2
    <3>5. LocksAreComplete'
      <4> SUFFICES ASSUME NEW d \in Commands, status[d] = "running",
                          NEW j \in Statement(rows[d]), j < next'[d]
                   PROVE  lock'[rows[d][j]] = Version(d, j)
        BY <3>1 DEF LocksAreComplete
      <4>1. j \in Int /\ rows[d][j] \in Keys
        BY RowsOfResponse DEF TypeOK, Statement
      <4>2. CASE d = c /\ ~(j < next[c])
        <5>1. j \in Left(c)
          BY <3>3, <4>1, <4>2 DEF Left
        <5>2. j = i
          BY <3>2, <3>3, <4>1, <4>2, <5>1
        <5> QED
          BY <3>2, <3>3, <4>2, <5>2
      <4>3. CASE j < next[d]
        <5>1. lock[rows[d][j]] = Version(d, j)
          BY <2>0, <4>3 DEF LocksAreComplete
        <5>2. Version(d, j) # NoVersion
          BY NoOneAssumption DEF Version, NoVersion
        <5> QED
          BY <3>1, <3>3, <4>1, <5>1, <5>2
      <4> QED
        BY <3>3, <4>2, <4>3
    <3>6. StatementComesOnce' /\ RangesAscend'
      BY <2>0, <3>1, <3>3 DEF StatementComesOnce, RangesAscend
    <3>7. WholeStatements' /\ NoAvoidableAbort'
      BY <2>0, <3>1 DEF WholeStatements, Writers, IsLastWrite, NoAvoidableAbort
    <3> QED
      BY <3>4, <3>5, <3>6, <3>7 DEF TableInv, LockInv
  <2>5. ASSUME NEW c \in Commands, Commit(c)
        PROVE  TableInv'
    <3>1. /\ status[c] = "running" /\ Left(c) = {}
          /\ UNCHANGED <<job, pc, rows>>
          /\ commits' = Append(commits, c)
          /\ bars' = [k \in Keys |-> IF lock[k].by = c THEN lock[k] ELSE bars[k]]
          /\ lock' = [k \in Keys |-> IF lock[k].by = c THEN NoVersion ELSE lock[k]]
          /\ status' = [status EXCEPT ![c] = "committed"]
          /\ next' = [next EXCEPT ![c] = 1]
      BY <2>5 DEF Commit, Running, Released, client
    <3>2. /\ status'[c] = "committed"
          /\ \A d \in Commands \ {c} : status'[d] = status[d] /\ next'[d] = next[d]
      BY <3>1 DEF TypeOK
    <3>3. LocksAreHeld' /\ LocksAreComplete'
      BY <2>0, <3>1, <3>2, LocksSurvive
    <3>4. /\ \A i \in DOMAIN commits : commits'[i] = commits[i] /\ commits[i] # c
                                     /\ commits[i] \in Commands
          /\ Len(commits) \in Nat /\ DOMAIN commits = 1 .. Len(commits)
          /\ DOMAIN commits' = 1 .. Len(commits) + 1 /\ commits'[Len(commits) + 1] = c
      BY <2>0, <3>1 DEF StatementComesOnce, TypeOK
    <3>5. StatementComesOnce' /\ RangesAscend'
      <4>1. StatementComesOnce'
        BY <2>0, <3>1, <3>2, <3>4 DEF StatementComesOnce
      <4>2. RangesAscend'
        BY <2>0, <3>1 DEF RangesAscend
      <4> QED
        BY <4>1, <4>2
    <3>6. NoAvoidableAbort'
      BY <2>0, <3>1, <3>2 DEF NoAvoidableAbort
    <3>7. WholeStatements'
      <4> DEFINE Serial(k) ==
            \/ Writers(k) = {} /\ bars[k] = NoVersion
            \/ \E i \in Writers(k) : \E j \in DOMAIN rows[commits[i]] :
                 IsLastWrite(k, i, j) /\ bars[k] = Version(commits[i], j)
      <4> SUFFICES ASSUME NEW k \in Keys
                   PROVE  Serial(k)'
        BY DEF WholeStatements
      <4>0. PICK new, last : new = Len(commits) + 1 /\ last = lock[k].row
        OBVIOUS
      <4>1. CASE lock[k].by = c
        <5>1. lock[k] # NoVersion /\ lock[k] = Version(c, last)
          BY <4>0, <4>1, NoOneAssumption DEF TypeOK, Versions, Version, NoVersion
        <5>2. last \in Statement(rows[c]) /\ rows[c][last] = k
          BY <2>0, <4>0, <4>1, <5>1 DEF LocksAreHeld
        <5>3. /\ last \in DOMAIN rows[c]
              /\ \A l \in DOMAIN rows[c] : rows[c][l] = k => l <= last
          BY <5>2 DEF Statement
        <5>4. bars'[k] = Version(c, last)
          BY <3>1, <4>1, <5>1
        <5>5. /\ new \in DOMAIN commits' /\ commits'[new] = c
              /\ \A w \in DOMAIN commits' : w <= new
          BY <3>4, <4>0
        <5>6. new \in Writers(k)'
          BY <3>1, <5>2, <5>3, <5>5 DEF Writers
        <5>7. IsLastWrite(k, new, last)'
          BY <3>1, <5>2, <5>3, <5>5 DEF IsLastWrite, Writers
        <5> QED
          BY <3>1, <5>3, <5>4, <5>5, <5>6, <5>7
      <4>2. CASE lock[k].by # c
        <5>1. \A j \in DOMAIN rows[c] : rows[c][j] # k
          <6> SUFFICES ASSUME NEW j \in DOMAIN rows[c], rows[c][j] = k
                       PROVE  FALSE
            OBVIOUS
          <6>1. PICK i \in Statement(rows[c]) : rows[c][i] = k
            BY LastRow DEF TypeOK
          <6>2. i \in Int /\ next[c] \in Int
            BY RowsOfResponse DEF Statement, TypeOK
          <6>3. i < next[c]
            BY <3>1, <6>1, <6>2 DEF Left
          <6>4. lock[k] = Version(c, i)
            BY <2>0, <3>1, <6>1, <6>3 DEF LocksAreComplete
          <6> QED
            BY <4>2, <6>4 DEF Version
        <5>2. bars'[k] = bars[k]
          BY <3>1, <4>2
        <5>3. Writers(k)' = Writers(k)
          <6>1. Len(commits) + 1 \notin Writers(k)'
            BY <3>1, <3>4, <5>1 DEF Writers
          <6>2. \A i \in DOMAIN commits : i \in Writers(k)' <=> i \in Writers(k)
            BY <3>1, <3>4 DEF Writers
          <6>3. Writers(k) \subseteq DOMAIN commits /\ Writers(k)' \subseteq DOMAIN commits'
            BY DEF Writers
          <6>4. DOMAIN commits' = DOMAIN commits \cup {Len(commits) + 1}
            BY <3>4
          <6> QED
            BY <6>1, <6>2, <6>3, <6>4
        <5>4. \A i \in Writers(k) : commits'[i] = commits[i]
          BY <3>4 DEF Writers
        <5>5. Serial(k)
          BY <2>0 DEF WholeStatements
        <5>6. ASSUME NEW i \in Writers(k), NEW j, IsLastWrite(k, i, j)
              PROVE  IsLastWrite(k, i, j)'
          BY <3>1, <5>3, <5>4, <5>6 DEF IsLastWrite
        <5> QED
          BY <3>1, <5>2, <5>3, <5>4, <5>5, <5>6
      <4> QED
        BY <4>1, <4>2
    <3> QED
      BY <3>3, <3>5, <3>6, <3>7 DEF TableInv, LockInv
  <2>6. ASSUME NEW c \in Commands, NEW reason \in {"refused", "deadlock", "failed"},
               Abort(c, reason), reason # "refused",
               reason = "deadlock" => \E d \in Commands : job[d].kind = "period"
        PROVE  TableInv'
    <3>1. /\ status[c] = "running" /\ UNCHANGED <<job, pc, rows, bars, commits>>
          /\ lock' = [k \in Keys |-> IF lock[k].by = c THEN NoVersion ELSE lock[k]]
          /\ status' = [status EXCEPT ![c] = reason]
          /\ next' = [next EXCEPT ![c] = 1]
      BY <2>6 DEF Abort, Running, Released, client
    <3>2. /\ status'[c] = reason
          /\ \A d \in Commands \ {c} : status'[d] = status[d] /\ next'[d] = next[d]
      BY <3>1 DEF TypeOK
    <3>3. LocksAreHeld' /\ LocksAreComplete'
      BY <2>0, <2>6, <3>1, <3>2, LocksSurvive
    <3>4. StatementComesOnce'
      BY <2>0, <2>6, <3>1, <3>2 DEF StatementComesOnce, TypeOK
    <3>5. RangesAscend'
      BY <2>0, <3>1 DEF RangesAscend
    <3>6. WholeStatements' /\ NoAvoidableAbort'
      <4>1. WholeStatements'
        <5>1. UNCHANGED <<rows, bars, commits>>
          BY <3>1
        <5> QED
          BY <2>0, <5>1 DEF WholeStatements, Writers, IsLastWrite
      <4>2. NoAvoidableAbort'
        BY <2>0, <2>6, <3>1, <3>2 DEF NoAvoidableAbort
      <4> QED
        BY <4>1, <4>2
    <3> QED
      BY <3>3, <3>4, <3>5, <3>6 DEF TableInv, LockInv
  <2>7. ASSUME NEW c \in Commands, BreakCircle(c)
        PROVE  TableInv'
    <3>1. PICK S \in SUBSET Commands :
            /\ c \in S /\ Circle(S)
            /\ Abort(c, IF S = {c} THEN "refused" ELSE "deadlock")
      BY <2>7 DEF BreakCircle
    <3>2. S # {c} /\ \E d \in S : job[d].kind = "period"
      BY <3>1, CirclesNeedPeriods DEF TableInv
    <3> QED
      BY <2>6, <3>1, <3>2
  <2>8. ASSUME NEW c \in Commands, FailStatement(c)
        PROVE  TableInv'
    BY <2>6, <2>8 DEF FailStatement
  <2>9. CASE UNCHANGED vars
    BY <2>9, QuietKeepsTable DEF vars, client
  <2> QED
    BY <2>1, <2>2, <2>3, <2>4, <2>5, <2>7, <2>8, <2>9 DEF Next, Program, Local, Answered, Server
<1> QED
  BY <1>1, <1>2, Typing, PTL DEF Spec

\* The table of bars is what the committed statements leave when they run one
\* after another, and the last of two bars with one key counts (bars.go:73-92,
\* upsert.go:61).
THEOREM TableIsSerial == Spec => []WholeStatements
<1>1. TableInv => WholeStatements
  BY DEF TableInv
<1> QED
  BY <1>1, TableInvariant, PTL

\* No statement is refused for two rows with one key, and no number of
\* statements that store bars by range is ever caught in a deadlock
\* (bars.go:73-92; history_range.go:146 sorts the bars).
THEOREM RangesNeverDeadlock == Spec => []NoAvoidableAbort
<1>1. TableInv => NoAvoidableAbort
  BY DEF TableInv
<1> QED
  BY <1>1, TableInvariant, PTL

=============================================================================
