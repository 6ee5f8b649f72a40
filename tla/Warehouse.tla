------------------------------ MODULE Warehouse ------------------------------
(***************************************************************************)
(* The optional database (--database) behind two commands:                 *)
(*   stock-conid    looks a symbol up in warehouse.conids, falls back to   *)
(*                  IBKR and stores what IBKR answered                     *)
(*                  (internal/cli/market_data.go, database/conids.go);     *)
(*   fetch-history  fetches bars and then upserts them into                *)
(*                  warehouse.ibkr_bars with one statement                 *)
(*                  (internal/cli/history.go, database/bars.go, upsert.go).*)
(* Several processes run at once.  The database is external: a statement   *)
(* locks its rows one by one in the order they are given, waits for rows   *)
(* that another statement has locked, commits as a whole or not at all,    *)
(* and is aborted when it is part of a deadlock.  Each step may fail; the  *)
(* client may lose its connection while its statement goes on.             *)
(*                                                                         *)
(* A bar is named by the process that fetched it and its place in the      *)
(* response; prices are left out.  A symbol or an exchange stands for its  *)
(* spellings in upper and lower case, which both sides compare alike.      *)
(***************************************************************************)
EXTENDS Integers, Sequences, FiniteSets

CONSTANTS
  Commands,    \* processes
  NoOne,       \* writer of what other programs stored, holder of a free lock
  Symbols, Exchanges,
  NoExchange,  \* a contract without an exchange; a request without --exchange
  Conids,
  Market,      \* IBKR's contracts: exchange and isUS of each conid
  OldRows,     \* rows that other programs may have stored in warehouse.conids
  Keys,        \* (conid, bar_start, bar_end) of a bar, in the order of time
  MaxRows      \* bound on the bars of one response

ASSUME NoOneAssumption == NoOne \notin Commands
ASSUME MarketAssumption ==
  Market \in [Conids -> [exchange : Exchanges \cup {NoExchange}, us : BOOLEAN]]
ASSUME OldRowsAssumption ==
  OldRows \subseteq [symbol : Symbols, exchange : Exchanges \cup {NoExchange},
                     active : BOOLEAN, by : {NoOne}]
ASSUME BarsAssumption == Keys \subseteq Nat /\ MaxRows \in Nat

VARIABLES
  job,      \* the command line of each process
  pc,       \* where it is
  pool,     \* its pool of one connection: "none", "idle" or "busy"
  rows,     \* keys of the bars that IBKR returned, in that order
  result,   \* the contract that stock-conid returns
  exit,     \* "running", "ok" or why it failed
  conids,   \* warehouse.conids
  bars,     \* warehouse.ibkr_bars: the last committed version of each row
  lock,     \* the uncommitted version of each row, with its writer
  status,   \* the statement of each process, at the server
  next,     \* where it continues in the response, while it runs
  commits   \* processes in the order their statements were committed

client == <<pc, pool, rows, result, exit>>
server == <<bars, lock, status, next, commits>>
vars == <<job, client, conids, server>>

-----------------------------------------------------------------------------

StockJobs == [kind : {"stock"}, symbol : Symbols,
              exchange : Exchanges \cup {NoExchange}, filtered : BOOLEAN]
\* By date range (FetchHistoryRange) or by period (IBKR's response as it is).
HistoryJobs == [kind : {"range", "period"}]

NoResult == [conid |-> 0, exchange |-> NoExchange, by |-> NoOne]
Absent == [symbol |-> NoExchange, exchange |-> NoExchange, active |-> FALSE,
           by |-> NoOne]
StoredRows == [symbol : Symbols, exchange : Exchanges \cup {NoExchange},
               active : BOOLEAN, by : Commands \cup {NoOne}]

\* A version of a bar: row i of the response of process c.
Version(c, i) == [by |-> c, row |-> i]
NoVersion == Version(NoOne, 0)
Versions == [by : Commands, row : 1 .. MaxRows]

\* The two commands use different tables, so a run has one or the other.
Init ==
  /\ \/ job \in [Commands -> StockJobs]
        /\ pc = [c \in Commands |-> "connect"]
        /\ conids \in [Conids -> {Absent} \cup OldRows]
     \/ job \in [Commands -> HistoryJobs]
        /\ pc = [c \in Commands |-> "request"]
        /\ conids = [n \in Conids |-> Absent]
  /\ pool = [c \in Commands |-> "none"]
  /\ rows = [c \in Commands |-> <<>>]
  /\ result = [c \in Commands |-> NoResult]
  /\ exit = [c \in Commands |-> "running"]
  /\ bars = [k \in Keys |-> NoVersion]
  /\ lock = [k \in Keys |-> NoVersion]
  /\ status = [c \in Commands |-> "none"]
  /\ next = [c \in Commands |-> 1]
  /\ commits = <<>>

Stock(c) == job[c].kind = "stock"

Go(c, label) == pc' = [pc EXCEPT ![c] = label]
UsePool(c, state) == pool' = [pool EXCEPT ![c] = state]
Exit(c, reason) == exit' = [exit EXCEPT ![c] = reason]

\* RunE has its value or its error; what is left is to close the pool, if any.
Return(c, reason) == Exit(c, reason) /\ Go(c, "close")

-----------------------------------------------------------------------------
(* Both commands: the pool.                                                *)

\* connectOptionalDatabase: the flag is off, IBKR_DATABASE is unset or wrong,
\* the server does not answer within 15 seconds, or there is a pool.
Connect(c) ==
  /\ pc[c] = "connect"
  /\ \/ /\ UsePool(c, "idle")
        /\ Go(c, IF Stock(c) THEN "find" ELSE "upsert")
        /\ UNCHANGED exit
     \/ /\ IF Stock(c) THEN Go(c, "request") /\ UNCHANGED exit ELSE Return(c, "ok")
        /\ UNCHANGED pool
  /\ UNCHANGED <<job, rows, result, conids, server>>

\* The deferred pool.Close waits until the connection has come back.
Close(c) ==
  /\ pc[c] = "close"
  /\ pool[c] # "busy"
  /\ UsePool(c, "none")
  /\ Go(c, "done")
  /\ UNCHANGED <<job, rows, result, exit, conids, server>>

\* The process is killed; the server may still work on its statement.
Kill(c) ==
  /\ pc[c] # "done"
  /\ Go(c, "done")
  /\ UsePool(c, "none")
  /\ Exit(c, "killed")
  /\ UNCHANGED <<job, rows, result, conids, server>>

-----------------------------------------------------------------------------
(* stock-conid.                                                            *)

ExchangeFits(c, exchange) == job[c].exchange \in {NoExchange, exchange}

\* The rows of FindActiveConid.
ActiveRows(c) ==
  {n \in Conids : /\ conids[n].active
                  /\ conids[n].symbol = job[c].symbol
                  /\ ExchangeFits(c, conids[n].exchange)}

\* The bug of rows left open when one cannot be scanned: they keep the connection.
QueriedUnclosed(c) ==
  UsePool(c, "idle") \/ (pc'[c] = "request" /\ UsePool(c, "busy"))

\* rows.Close, deferred, gives the connection back on every path.
Queried(c) == UsePool(c, "idle")

\* FindActiveConid: one row is the answer, several are an error; none, or a
\* query that fails whatever the table holds, falls back to IBKR.
Find(c) ==
  /\ pc[c] = "find"
  /\ \/ \E n \in Conids :
          /\ ActiveRows(c) = {n}
          /\ result' = [result EXCEPT ![c] =
               [conid |-> n, exchange |-> conids[n].exchange, by |-> conids[n].by]]
          /\ Return(c, "ok")
     \/ Cardinality(ActiveRows(c)) > 1 /\ Return(c, "ambiguous") /\ UNCHANGED result
     \/ Go(c, "request") /\ UNCHANGED <<result, exit>>
  /\ Queried(c)
  /\ UNCHANGED <<job, rows, conids, server>>

\* The bug of filtering only when no exchange is given.
SelectedUnlessNamed(c, listed) ==
  {n \in listed : /\ job[c].filtered /\ job[c].exchange = NoExchange => Market[n].us
                  /\ ExchangeFits(c, Market[n].exchange)}

\* SelectStock on the contracts that IBKR lists for the symbol.
Selected(c, listed) ==
  {n \in listed : /\ job[c].filtered => Market[n].us
                  /\ ExchangeFits(c, Market[n].exchange)}

\* LookupStock: the request fails, or its answer has no single contract, or one.
LookupStock(c) ==
  /\ pc[c] = "request" /\ Stock(c)
  /\ \/ Return(c, "ibkr") /\ UNCHANGED result
     \/ \E listed \in SUBSET Conids, n \in Conids :
          /\ Selected(c, listed) = {n}
          /\ result' = [result EXCEPT ![c] =
               [conid |-> n, exchange |-> Market[n].exchange, by |-> c]]
          /\ IF pool[c] = "none" THEN Return(c, "ok") ELSE Go(c, "store") /\ UNCHANGED exit
  /\ UNCHANGED <<job, pool, rows, conids, server>>

\* UpsertConid needs the connection; it is applied or not, and its answer may
\* be lost after it was: the result is the same.
StoreConid(c) ==
  /\ pc[c] = "store"
  /\ pool[c] = "idle"
  /\ \/ conids' = [conids EXCEPT ![result[c].conid] =
          [symbol |-> job[c].symbol, exchange |-> result[c].exchange,
           active |-> TRUE, by |-> c]]
     \/ UNCHANGED conids
  /\ Return(c, "ok")
  /\ UNCHANGED <<job, pool, rows, result, server>>

-----------------------------------------------------------------------------
(* fetch-history.                                                          *)

\* The bug of bars left in the order of the windows they came from.
RangeResponsesUnsorted ==
  UNION {{r \in [1 .. n -> Keys] : \A i, j \in 1 .. n : i # j => r[i] # r[j]} :
           n \in 0 .. MaxRows}

\* FetchHistoryRange sorts the merged bars and has one of each time.
RangeResponses ==
  UNION {{r \in [1 .. n -> Keys] : \A i, j \in 1 .. n : i < j => r[i] < r[j]} :
           n \in 0 .. MaxRows}

\* FetchHistory passes on what IBKR returns.
PeriodResponses == UNION {[1 .. n -> Keys] : n \in 0 .. MaxRows}

Responses(c) == IF job[c].kind = "range" THEN RangeResponses ELSE PeriodResponses

FetchHistory(c) ==
  /\ pc[c] = "request" /\ ~Stock(c)
  /\ \/ Return(c, "ibkr") /\ UNCHANGED rows
     \/ /\ \E r \in Responses(c) : rows' = [rows EXCEPT ![c] = r]
        /\ Go(c, "connect")
        /\ UNCHANGED exit
  /\ UNCHANGED <<job, pool, result, conids, server>>

\* The bug of keeping the first of two bars with the same key.
StatementFirstWins(r) == {i \in DOMAIN r : \A j \in DOMAIN r : r[j] = r[i] => i <= j}

\* DeduplicateBars keeps the last bar of each key, in the order of the response.
Statement(r) == {i \in DOMAIN r : \A j \in DOMAIN r : r[j] = r[i] => j <= i}

\* ParseHistoryBars refuses a bar without numeric fields; no bars, no statement.
Upsert(c) ==
  /\ pc[c] = "upsert"
  /\ \/ Return(c, "ok") /\ UNCHANGED <<pool, status>>
     \/ /\ rows[c] # <<>>
        /\ status' = [status EXCEPT ![c] = "running"]
        /\ UsePool(c, "busy")
        /\ Go(c, "exec")
        /\ UNCHANGED exit
  /\ UNCHANGED <<job, rows, result, conids, bars, lock, next, commits>>

\* Whatever Exec returns, the bars are the result; an error is only a warning.
ExecReturns(c) ==
  /\ pc[c] = "exec"
  /\ Return(c, "ok")
  /\ UsePool(c, "idle")
  /\ UNCHANGED <<job, rows, result, conids, server>>

\* The bug of failing the command with its statement.
ReplyFatal(c) ==
  /\ pc[c] = "exec" /\ status[c] # "running"
  /\ Return(c, IF status[c] = "committed" THEN "ok" ELSE "database")
  /\ UsePool(c, "idle")
  /\ UNCHANGED <<job, rows, result, conids, server>>

\* The statement has ended, well or not, and its reply arrives.
Reply(c) == status[c] # "running" /\ ExecReturns(c)

\* The connection breaks or the command is interrupted; the server may go on
\* with the statement.
LoseConnection(c) == status[c] = "running" /\ ExecReturns(c)

-----------------------------------------------------------------------------
(* The server's side of the statement.                                     *)

Running(c) == status[c] = "running"
\* The rows the statement of process c has not come to, and the first of them.
Left(c) == {i \in Statement(rows[c]) : next[c] <= i}
HasNext(c) == Running(c) /\ Left(c) # {}
NextBar(c) == CHOOSE i \in Left(c) : \A j \in Left(c) : i <= j
NextKey(c) == rows[c][NextBar(c)]

Released(c) == [k \in Keys |-> IF lock[k].by = c THEN NoVersion ELSE lock[k]]

LockRow(c) ==
  /\ HasNext(c)
  /\ lock[NextKey(c)] = NoVersion
  /\ lock' = [lock EXCEPT ![NextKey(c)] = Version(c, NextBar(c))]
  /\ next' = [next EXCEPT ![c] = NextBar(c) + 1]
  /\ UNCHANGED <<job, client, conids, bars, status, commits>>

Commit(c) ==
  /\ Running(c) /\ Left(c) = {}
  /\ bars' = [k \in Keys |-> IF lock[k].by = c THEN lock[k] ELSE bars[k]]
  /\ lock' = Released(c)
  /\ status' = [status EXCEPT ![c] = "committed"]
  /\ commits' = Append(commits, c)
  /\ next' = [next EXCEPT ![c] = 1]
  /\ UNCHANGED <<job, client, conids>>

Abort(c, reason) ==
  /\ Running(c)
  /\ lock' = Released(c)
  /\ status' = [status EXCEPT ![c] = reason]
  /\ next' = [next EXCEPT ![c] = 1]
  /\ UNCHANGED <<job, client, conids, bars, commits>>

Waits(c) == HasNext(c) /\ lock[NextKey(c)] # NoVersion
WaitsFor(c) == lock[NextKey(c)].by

\* A circle of statements, each waiting for a row of the next one.
Circle(S) == (\A d \in S : Waits(d)) /\ {WaitsFor(d) : d \in S} = S

\* One statement of a deadlock is aborted; a statement that comes to a row it
\* has already written is refused ("cannot affect row a second time").
BreakCircle(c) ==
  \E S \in SUBSET Commands :
    /\ c \in S /\ Circle(S)
    /\ Abort(c, IF S = {c} THEN "refused" ELSE "deadlock")

\* A value out of range, a lost connection, a cancelled query, a restart.
FailStatement(c) == Abort(c, "failed")

\* What the process does by itself or within a timeout: 15 seconds to connect,
\* the HTTP client's for a request to IBKR.
Local(c) == Connect(c) \/ LookupStock(c) \/ FetchHistory(c) \/ Upsert(c) \/ Close(c)

\* What it does when the database answers a statement; nothing limits the wait.
Answered(c) == Find(c) \/ StoreConid(c) \/ Reply(c)

Program(c) == Local(c) \/ Answered(c)

Server(c) == LockRow(c) \/ Commit(c) \/ BreakCircle(c)

Next ==
  \E c \in Commands :
    Program(c) \/ Server(c) \/ LoseConnection(c) \/ FailStatement(c) \/ Kill(c)

\* Each process runs; the database may stall for ever, with any statement.
Spec == Init /\ [][Next]_vars
FairSpec == Spec /\ \A c \in Commands : WF_vars(Local(c))

-----------------------------------------------------------------------------
(* Properties.                                                             *)

\* The statements, by their place in commits, that store a bar of this key.
Writers(k) == {i \in DOMAIN commits : \E j \in DOMAIN rows[commits[i]] : rows[commits[i]][j] = k}

\* The last of them, with its last bar of this key.
IsLastWrite(k, i, j) ==
  /\ \A w \in Writers(k) : w <= i
  /\ rows[commits[i]][j] = k
  /\ \A l \in DOMAIN rows[commits[i]] : rows[commits[i]][l] = k => l <= j

\* Type invariant.
TypeOK ==
  /\ job \in [Commands -> StockJobs \cup HistoryJobs]
  /\ pc \in [Commands -> {"connect", "find", "request", "store", "upsert", "exec",
                          "close", "done"}]
  /\ pool \in [Commands -> {"none", "idle", "busy"}]
  /\ rows \in [Commands -> PeriodResponses]
  /\ result \in [Commands ->
       {NoResult} \cup [conid : Conids, exchange : Exchanges \cup {NoExchange},
                        by : Commands \cup {NoOne}]]
  /\ exit \in [Commands -> {"running", "ok", "ibkr", "ambiguous", "killed"}]
  /\ conids \in [Conids -> {Absent} \cup StoredRows]
  /\ bars \in [Keys -> {NoVersion} \cup Versions]
  /\ lock \in [Keys -> {NoVersion} \cup Versions]
  /\ status \in [Commands -> {"none", "running", "committed", "refused",
                              "deadlock", "failed"}]
  /\ next \in [Commands -> 1 .. MaxRows + 1]
  /\ commits \in Seq(Commands)

\* A contract that --default-filtering would not have selected answers a
\* filtered request only from the database, where somebody else or an
\* unfiltered lookup put it (market_data.go:72), and every answer is on the
\* exchange asked for.
AnswersAreJustified ==
  \A c \in Commands : result[c] # NoResult =>
    /\ ExchangeFits(c, result[c].exchange)
    /\ job[c].filtered /\ ~Market[result[c].conid].us =>
         result[c].by = NoOne \/ ~job[result[c].by].filtered

\* Whatever the interleaving, lost replies, failures and kills, the table is
\* what the committed statements leave when they run one after another, and
\* of bars with one key the last one of a response counts (bars.go:73-92 and
\* the single statement of upsert.go:61).
WholeStatements ==
  \A k \in Keys :
    \/ Writers(k) = {} /\ bars[k] = NoVersion
    \/ \E i \in Writers(k) : \E j \in DOMAIN rows[commits[i]] :
         IsLastWrite(k, i, j) /\ bars[k] = Version(commits[i], j)

\* No statement is refused for two rows with one key (the purpose of
\* DeduplicateBars), and two statements are never caught in a deadlock unless
\* one of them stores bars by period, in the order IBKR gave them.
NoAvoidableAbort ==
  \A c \in Commands :
    /\ status[c] # "refused"
    /\ status[c] = "deadlock" => \E d \in Commands : job[d].kind = "period"

\* A command that had its answer, from IBKR or from the table, ends with it.
Ended(c) ==
  /\ pc[c] = "done"
  /\ rows[c] # <<>> \/ result[c] # NoResult => exit[c] \in {"ok", "killed"}

\* The connection is with the server, which has a statement to answer.
AtDatabase(c) == pc[c] \in {"find", "exec"} \/ (pc[c] = "store" /\ pool[c] = "idle")

\* The server goes on with a statement that can go on, breaks deadlocks, and its
\* answers arrive.
DatabaseAnswers == \A c \in Commands : WF_vars(Answered(c)) /\ WF_vars(Server(c))

\* Nothing but a statement that the database never answers keeps a command from
\* its end: the pool's one connection comes back on every path, and neither a
\* lookup that falls back nor pool.Close waits for one that is lost. Where the
\* database does answer, every command ends, with the answer that it had
\* (README.md:99), however the statements of the others are in its way. The
\* statements themselves run without a deadline (conids.go:21, conids.go:49,
\* upsert.go:61): a stalled server keeps the command waiting.
CommandsReturn ==
  /\ <>[](\A c \in Commands : Ended(c) \/ AtDatabase(c))
  /\ DatabaseAnswers => <>(\A c \in Commands : Ended(c))

=============================================================================
