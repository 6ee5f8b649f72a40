# A TLA+ model of `ibkr`

`ibkr` is a command-line client of the Interactive Brokers Web API: every
command is a short-lived process that obtains a live session token, signs one
or more requests with it and prints the answer. This directory models the parts
of it in which several actors, failures or boundaries meet, checks them with
TLC and proves the main results with TLAPS.

    tlc -config RedisSession.cfg MCRedisSession      # a run (see the table below)
    tlapm RedisSession_proofs.tla                    # the proofs of a component

## 1. Inventory

| Component | State | Operations | What is hard | What makes it correct |
|---|---|---|---|---|
| Token cache, redis mode (`ibkr/cache.go`, `session.go`) | two Redis keys (session, lock) with TTLs; per call: lock value, token, timers | read, SETNX, second read, handshake, SET, unlock script, wait loop | processes interleave; a lock expires under its holder; replies are lost; processes die; time passes between computing a TTL and applying it | one holder per lease, no leaked lock, no needless handshake, tokens alive when used, every call returns |
| Token cache, memory and disabled modes (`cache.go:24-42`) | one session under a mutex | check, handshake, assign | the mutex is held across the handshake | at most one handshake at a time, valid tokens |
| Order submission (`cli/orders.go`, `cli/vwap.go`, `ibkr/confirmations.go`) | last response, reply count, the decision; at the broker: the order and its open question | POST, parse prompt, decide, reply, limit, print | IBKR places the order although the command fails; answers are matched per message, replies are per prompt | nothing is confirmed without a decision for it; exit status and order agree |
| Warning answers (`cli/answers.go`, `Find`) | map from key to yes or no | layered merge, search | overlapping substrings, search order, Go's random map order | later layers win; a warning is accepted only by the key that should decide it |
| OAuth materials (`internal/materials`) | the output directory, a staging directory per run | look, stage, openssl steps, publish file by file, clean up | concurrent runs between look and publish; failures and kills in the middle | no overwriting without `--force`, no mixture of key sets, no keys left in staging |
| Configuration (`cli/configure.go`, `internal/config`) | `.env`, `materials-*` generations | ask, copy, validate, rename, clean up; load by other commands | sources change while they are copied; failures; commands that still use the previous generation | the active configuration is complete and validated at every moment |
| History ranges (`ibkr/history_range.go`) | cursor, merged rows, merged metadata | plan windows, fetch, check, merge | gaps at window edges, days of 23 or 25 hours, silent truncation, scale changes | exactly the bars of the range, on one scale |
| Warehouse (`internal/database`, `cli/market_data.go`, `cli/history.go`) | tables `conids`, `ibkr_bars`; a pool of one connection per process | connect, lookup, upsert, dedupe, close | several processes on one table: row locks, deadlocks, lost replies, a server that stalls; duplicate keys in one statement; rows that other lookups stored | a command ends with the answer it had, however the database fails, as long as it answers, and waits for nothing else; the table is what whole statements leave |
| Prompts (`cli/prompt.go`, `terminal_prompt.go`) | a buffer and a reader goroutine per line | text, confirm, number | cancellation while a read is pending, lines written ahead of the questions | an unanswered question is never a yes; an abandoned command ends |
| HTTP and signing (`client.go`, `signing.go`) | none between requests | sign, send | a failed request may have been handled; nothing is retried | at most one effect per request |
| Order building, fee plan (`ibkr/orders.go`, `ibkr/vwap.go`) | the order being parsed | aliases, nulls, exclusions, types | one field under two names, visited in random order | the outcome does not depend on the order of visits |
| REST passthrough (`rest.go`, `accounts.go`), command line and logging | none | parse, send one request, print | formats | unit tests cover them |

How they interact: every command loads the configuration once, asks the token
cache for a session per request, signs and sends. Order and history commands
are loops over such requests. `generate-materials` writes files that `configure`
imports and the token handshake reads.

## 2. Modules

| Module | Models | Composition |
|---|---|---|
| `RedisSession` | `getRedisSession`, `waitRedisSession`, the Redis keys, the signed request | checked through `MCRedisSession`; proofs in `RedisSession_proofs` |
| `MemorySession` | `getLiveSession` in memory and disabled mode: goroutines that share one `Client` | proofs in `MemorySession_proofs` |
| `TokenService` | the promise of `getLiveSession` in every mode (abstract) | `RedisSession` and `MemorySession` implement it (`Service == INSTANCE TokenService WITH ...` at the end of each) |
| `OrderReplies` | the loops of `HandleConfirmations` and `vwap-order`, with the broker | `OrderCommand` and `VwapOrder` implement it; proofs in `OrderCommand_proofs` |
| `OrderInput` | `ParseOrders`, `ParseOrder`, the refusals of fee-plan, `readAnswers`, `Find` | part of `OrderCommand` |
| `OrderCommand` | `order place`, `modify`, `whatif` and `fee-plan` from the command line to the broker | EXTENDS `OrderInput` and `OrderReplies`, implements the latter (`Replies == INSTANCE OrderReplies WITH ...`); `MCOrderCommand`, `OrderCommand_proofs` |
| `Materials` | `GenerateWithRunner`, several runs on one directory | `MCMaterials`, `Materials_proofs` |
| `Configure` | `saveValidatedConfiguration`, and commands that load what it activates | `MCConfigure`, `Configure_proofs` |
| `VwapOrder` | one `vwap-order` session: questions, `readLine`, the terminal prompt, lookup, payload, submission, warnings, the signal | implements `OrderReplies` (`Replies == INSTANCE OrderReplies WITH ...`); proofs in `VwapOrder_proofs` |
| `HistoryRange` | `Bounds`, `planHistoryWindows`, `FetchHistoryRange` | `MCHistoryRange`, `HistoryRange_proofs`; `Warehouse` takes what it returns (`RangeResponses`: sorted, one bar of each time) |
| `Warehouse` | `stock-conid` and `fetch-history` with `--database`: pool, lookup, upserts, and the database | `MCWarehouse`, `Warehouse_proofs` |

### RedisSession

`pc[p]` is the line a process is at: `read` (58), `lock` (66), `recheck` (81),
`handshake` (84), `store` (96), `release`/`abort` (the deferred unlock, with or
without a token), `wait` (99-117), `send` (the protected request). `lock` is the
lock key: owner and TTL; the random 128-bit value is the process, and becomes
`Nobody` when the call that set it is over. `cache` is the session key: its TTL,
the life left in the token and, for one property, whether it was stored by a
holder whose lock was over (`late`). There is no clock: `Tick` moves all
timers down by one. `lease[p]` is what is left of the lock TTL since p's own
SETNX, `tok[p]` the life of the token in p's hands, `age[p]` how long ago it
was found valid. A handshake can take any number of ticks, so the lock may end
under it: the defaults (`Timeout` 30 s, `LockTTL` 15 s) allow this.

Each Redis command may fail, applied or not (`LockError`, `StoreError`,
`UnlockError`); a process may die anywhere (`Crash`) and start again. A command
is applied before its sender moves on, or never: an application after the
timeout of its sender is not modelled. The life of a token is what its
expiration says on the common clock of the processes and Redis' TTLs; clocks do
not drift.

### TokenService and MemorySession

`TokenService` knows a token by the life it has left. A caller asks, finds a
token, holds it, and returns; `pool` has the tokens that may still be shared. A
token is issued with one of the lives in `Grantable`, it is shared only while
more than the skew is left of it, and the pool only shrinks otherwise: no cache
makes a token, makes one last longer, or returns one after it was forgotten.

`MemorySession` follows `cache.go:24-42`. `mutex` is the `Client`'s, held from
`check` to the end of the handshake; `session` is the life left in the kept
session; `mode` is constant. The `Client` is safe for concurrent use and
`TestConcurrentMemoryCacheHasSingleHandshake` uses it so.

The modes differ, and the refinement mappings say how. Redis mode refuses a new
token inside the skew, so its `Grantable` is the lifetimes above the skew; the
other two hand out, and memory mode keeps, whatever the handshake brought. In
redis mode a call is `found` at `store` and `release`, `holding` at `send` and
already `idle` at `abort`; the pool is the session key and the tokens being
carried to it, because the SET of a slow holder can bring back a token that the
key no longer has.

### OrderReplies

`mode` chooses the loop; `answers` is what `Find` says of each warning, any
table; in vwap mode the operator decides (`OperatorYes/No/Gone`). `Request`
stands for a signed request: the broker handles it or not, and its answer
arrives or not. What the broker does is `Turns`: it places the order, refuses
it with something that is not a prompt, or asks with a prompt of one or more
messages. `approved` and `confirmed` record decisions of the program and what
reached the broker. One response holds one prompt (`items[0]` of a one-element
array): a batch of unrelated orders is not modelled. A refusal is an answer the
parser does not accept, as IBKR's `{"error": ...}` is.

### VwapOrder

`at` is where the command is, `question` which question it is at, in the order
of `promptVwapInput` (`Following`), then `submit` and `warning`. `given` says
whether the flags and the environment give the initial values, and whether those
are usable. Behind a pipe, `Ask` starts the goroutine of `readLine` (`reader`);
`ReaderTakes` is its `ReadString`: it fills the `bufio.Reader` (`buffer`) with
all that is in the pipe (`stdin`) and gives one line to `channel`. An interrupt
(`cancelled`) makes `readLine` return at once; the goroutine may go on and take
a line afterwards. At a terminal a line is typed into the prompt of its question
(`Enter`), and one that is entered after the interrupt does not count. When both
the line and the interrupt are there, `select` takes either.

Of a line only what the questions tell apart is kept: blank, a yes, one that
every form of question accepts, one that none does. `last` is the last line that
answered anything: `OrdersNeedAYes` compares each change at the broker with it.
A request is one step, from the check of the context to the broker; one that is
on its way when the interrupt comes counts as sent before it, and its answer as
lost. The lookup of the contract and `BuildVwapOrder` succeed or fail; the
percentage is the one value that only `BuildVwapOrder` looks at (`sound`).

The refinement maps all of the questions before the submission to `review` and
the question for a warning to the open `loop`, where `OrderReplies` lets an
operator decide at any moment.

### OrderInput

An order is a function from field names, aliases included, to absent, null, good
or bad. `Rename` visits the aliases and `Merge` the answers of a layer one by one
in any order, which is what Go's `range` over a map does; a refusal stops the
loop in the middle (`DuplicateField`, `NotBoolean`). `layers` has the three
sources in their order; only the first, from the environment, may be missing.
Answer keys are numbers in the order of `sortedKeys`, and a warning is its
message id and the keys that its text contains.

`Preparation` is this module's own specification, from `stage = "parse"` to
`"send"` (or `"planned"`, `"refused"`); its names are its own because
`OrderCommand` has it side by side with `OrderReplies`.

What this shows of the code besides its properties: a message id decides before
any text, so that a text rejected with `--answers-json` has no effect on a
warning whose id a default accepts (`o163` and the others); among several texts
the least key decides, whatever layer it comes from.

### OrderCommand

`PrepareOrder` is a step of `OrderInput`, before any of `OrderReplies`.
`HandOver` is the call of `withClient`: it makes of each warning what `Find` says
of it (`VerdictOn`: true, false, no answer), and from then on the `Program` of
`OrderReplies` runs in mode `auto` (`Dialogue`). A client that cannot be made is
a request that never reaches the broker. fee-plan ends at `"planned"` and whatif
at `"send"`, because the dialogue is not for them.

`ConfirmationsAreJustified` is the promise to the user from end to end, and does
not mention the table: what the broker was told is what the layers say
(`Justified`). In the refinement of `OrderReplies`, where the answers are there
from the start, they are those that the layers are going to give (`Foreseen`).

### Warehouse

Each process has a command line (`job`), a place (`pc`), its pool of one
connection (`pool`), and what it got from IBKR (`rows`, keys of bars in the order
of the response, or `result`). The two commands write different tables, so that
a behaviour has lookups only or bars only.

`conids` starts with rows of other programs. `Find` is the query and what
`stock-conid` makes of it; a query may fail whatever the table has, and then the
command asks IBKR, which lists any contracts for the symbol. `by` in a row is who
stored it, for `AnswersAreJustified`: the table does not know which filter a row
was found with, so a contract outside the US that an unfiltered lookup stored
answers a later filtered one, and rows that accumulate can make a lookup
ambiguous. The property says how far this goes.

The upsert of bars is one `Exec`. The server is modelled as far as its locks
matter: `LockRow` writes the next row of the statement, or waits while another
statement has it; `Commit` and `Abort` end the statement and free its rows;
`BreakCircle` is the deadlock detection and, for a circle of one, the refusal of
a row written twice by one statement. `Statement` is `DeduplicateBars`. A client
may lose its connection, be interrupted (`LoseConnection`) or killed while its
statement runs on. `rows` of a period request are any keys in any order, of a
range request sorted without repetition (`FetchHistoryRange`). `commits` records
the order of commits for `WholeStatements`.

### Materials

`dir[f]` is who made file f: a generator, somebody earlier, something that is
not a regular file, or nothing. `Look` is the `Lstat` loop, one file per step;
`Publish` one `Rename` (forced) or `Link`; everything after `MkdirTemp` returns
through `Return`, which removes the staging directory. Only generators change
the directory, and `RemoveAll` succeeds.

### Configure

A generation is the `materials-*` directory of one run. `Copy` reads a file of
the operator, which `EditSource` may change at any time; `Validate` stands for
the three validations of the copies and the writing of the temporary `.env`;
`Activate` is the rename. `Load`/`Leave` are other commands.

### HistoryRange

Time is an integer in a unit that divides the steps; `Midnight` gives the
local midnights of consecutive days, so a day with a clock change is longer or
shorter than `Day`. `market` is the set of bars IBKR has. A request for the
period p ending at e returns the bars in [e - p, e), possibly the ones on either
edge outside it, and an arbitrary selection of `RowLimit` of them if there are
more. `Merged` keeps the first row for a timestamp.

## 3. Runs

| Run | Bounds | Shows |
|---|---|---|
| `redis_safety` | 3 processes, lock TTL 2, skew 1, lifetimes {0, 1, 3}; symmetric | `LeaseExclusion`, `LockHeldOnlyInside`, `RefreshNotRedundant`, `UsableForSkew`, `ImplementsTokenService` |
| `memory_session` | 3 goroutines, both modes, skew 2, lifetimes {0, 1, 4}, `FairSpec` | `HandshakeOnlyWhenNeeded`, `CallsReturn`, `ImplementsTokenService` |
| `redis_liveness` | 2 processes, lock TTL 1, `FairSpec` | `CallsReturn` |
| `redis_ttl` | 2 processes, lifetime 3 | violation of `TtlEndsBeforeExpiry` (finding 1) |
| `order_replies` | 2 warnings, 2 replies, prompts of up to 2 messages | `ConfirmedWereDecided`, `SuccessIsSettled`, `LiveAfterFailure`, `AutoEnds` |
| `order_every_warning` | the same | violation of `EveryWarningDecided`, which the README documents (finding 2) |
| `vwap_order` | terminal and pipe, 2 lines ahead, 2 replies of one message, `FairSpec` | `OrdersNeedAYes`, `ImplementsOrderReplies`, `EndsWhenAbandoned` |
| `order_command` | 4 fields, 2 aliases: every order, arrays of up to 2; 3 keys, 2 of them defaults, 3 layers: every file; 3 warnings, 2 replies, prompts of 1 message | `PreparationIsDeterministic`, `ConfirmationsAreJustified` |
| `warehouse` | 2 processes, 2 contracts, 2 exchanges, 3 old rows; 2 keys, responses of up to 3 bars; `FairSpec` | `AnswersAreJustified`, `WholeStatements`, `NoAvoidableAbort`, `CommandsReturn` |
| `materials` | 3 generators, 2 files; symmetric | `OnlyForceReplaces`, `UnforcedNeverMix`, `SuccessIsWhole`, `StagingRemoved` |
| `configure` | 2 runs, 1 command, 2 files; symmetric | `ActiveUsable`, `LoadedStaysUsable`, `FailureLeavesNothing` |
| `history_range` | days of 2, 3 and 1 units with `Day` = 2, all ranges, all sets of bars, row limit 3, 2 scales | `RangeIsComplete`, `OneScale` |

Why the bounds are enough. *Redis*: two processes suffice for every pair
property; the third takes the lock between an expiry and a late unlock while
another waits. TTL 2 lets a lock be fresh, half over and over; the lifetimes are
an expired token, one inside the skew, and one that can be cached and runs out
during the run. Lock and cache can both expire under any pc. *Memory*: one
goroutine at its handshake, one waiting and one that holds an older token; a
life of 2 is inside the skew and is not one that IBKR issues, so only a cache
that shares too late can hand it out. *Orders*: two
replies give a first, a following and an excess prompt; two messages are the
first and one that is not. *Sessions*: two lines ahead are one that answers the
present question and one left in the buffer for the next; the two replies are as
above, and prompts of several messages are the matter of `order_replies`. *Order
inputs*: the two aliases belong to a field that excludes another and to one that
needs another, so every early return can race the visits; a key with a lower and
one with a higher default, and an id with and without an answer, decide every
order of search. The dialogue behind them needs a first and a second prompt;
several messages are the matter of `order_replies`, where the answers are any. *Warehouse*: two processes make a deadlock with two keys, three
bars a repeated key with another between; two contracts, one of the US and one
not, make a filtered and an ambiguous lookup. *Materials*: a mixture needs two files and two
publishers, the third is the forcing one. *History*: the range of six units
takes up to six windows of the short step, and `MaxDays` = 2 makes ranges that
need two of the long one; `MinDays` and `MinDaysMonthly` differ; all subsets of
bars include ones at each edge and longer than the limit.

Deadlock is checked where the system never stops (`RedisSession`, `MemorySession`, `Configure`);
an order command, the generators, a history or lookup command end, so their runs say
`CHECK_DEADLOCK FALSE`.

Fairness. `RedisSession` assumes that time passes and that each process takes
its enabled step eventually: every Redis command and request has a timeout,
after which the step ends in its error action; polling ticker and wait timer
fire (`waitRedisSession`). No fairness on crashes, on errors of the wait loop or
on new calls. `MemorySession` assumes the same of a goroutine that runs, and
strong fairness of `Lock`: in its starvation mode Go's `sync.Mutex` is handed to
the goroutine that has waited longest, so one that waits gets it in spite of
others that keep taking it. `OrderReplies` assumes it of the program's own steps (each request
ends by its timeout); not of the operator, so only the unattended mode is claimed
to end (`AutoEnds`). `VwapOrder` assumes fairness of the program and of its
goroutine; nobody has to type, close the input or interrupt. `EndsWhenAbandoned`
says what follows when they do one of the last two. `Warehouse` assumes
fairness only of what a process does by itself or within a timeout (`Local`):
connecting has 15 seconds, a request to IBKR the HTTP client's. Its statements run
with the context of the command, which has no deadline (`conids.go:21`,
`conids.go:49`, `upsert.go:61`), so that nothing is assumed of `Find`, `StoreConid`,
`Reply` or the server: a database that stalls, or a row that another program keeps
locked, holds the command until it is interrupted or killed. `CommandsReturn` says
that this is the only way not to end, and that a command ends with its answer where
the database does answer. That is its premise, `DatabaseAnswers`: the server goes on
with a statement that can go on, deadlock detection runs, and answers arrive. No
connection needs to be lost, no statement to fail and no process to be killed.

Each property has a mutant in `PROJECT.json`: a definition next to the one it
mutates, introduced by "The bug of ...", under which the run finds the property
violated. No definition of a specification uses them.

## 4. Findings

1. `redis_ttl`: the TTL of the session key is computed relative to `cache.go:88`
   and counted by Redis from the SET; delayed longer than the skew (which may be
   0), the key outlives the token, against README.md:346. Harmless to readers,
   which check the expiry again: that `UsableForSkew` holds shows it.
2. `order_every_warning`: a prompt with several messages is judged by the first
   (`confirmations.go:64`), and the reply confirms the whole prompt: in `order
   place` and `modify` a message that the answers do not accept, against
   README.md:143, in `vwap-order` one that the operator was not shown, against
   README.md:225.

Not a finding, but worth knowing: a stalled database keeps `fetch-history` from
printing bars that it already has, although persistence is meant to be best-effort
(README.md:99), because a statement has no deadline (see Fairness above).

## 5. Proofs

All theorems hold for every value of the constants under the assumptions named
in the modules (`LockTTL` positive, `RefreshSkew` a natural number: `Validate`
refuses others; `MaxReplies` a natural number, at least one message to a prompt and one file; local midnights
that increase; the marker values differ from the processes).

*RedisSession_proofs.* `Typing` is inductive by itself; its one delicate
conjunct is that the TTL of `HandshakeOk` is natural, which is what the refusal
at `cache.go:89` is for. `LeaseExclusion` is not inductive: an unlock may delete
a lock, and nothing in it says whose. The strengthening `LeaseIsLock` ties a
running lease to the lock itself: its owner is that process and its TTL is the
lease; two running leases then have one owner (`LeaseImpliesExclusion`). `NoLockLeftBehind` is inductive with the types alone.
`RefreshNotRedundant` follows along the same steps, since a session stored under
a running lease contradicts another running lease. `UsableForSkew` needs
`SkewInHand`: the life left in a token that is carried plus its age is more than
the skew, from the moment it was found valid.

`RedisImplementsTokenService` maps every step of the code to one step of
`TokenService` or to none: the three hits to `Share`, the handshake to `Issue`,
the unlock to `Deliver`, the SET to `Forget` (it drops the session it
overwrites), every failure, a crash and the request to `Return`,
`Tick` to `Elapse`, and the lock and the misses to a stutter. The lemma
`StepOfOne` carries the common part: a step in which only one process changes its
place and token changes only that process in the abstraction, and adds nothing
to the pool but that process's token and the new value of the key.

*MemorySession_proofs.* `SingleHandshake` needs the mutex: in memory mode a
goroutine at `check` or `handshake` holds it (`RefreshUnderMutex`), and at
`handshake` the kept session is unusable; a session that is not usable does not
become so by waiting. `MemoryImplementsTokenService` is by cases on the actions,
like the one above.

*OrderCommand_proofs, the dialogue.* `RepliesAreDecided` strengthens the property with
what holds at `pc = "confirm"`: the prompt in `response` is the one just approved.
`SuccessSettles` and `FailureExplained` need the relation between the last
response and the order (`OrderIsKnown`: a final response means placed, an open
prompt means not placed). `RepliesAreBounded` needs `PromptIsNext`: an open prompt
has the number after the replies so far.

*OrderCommand_proofs, the preparation.* `PreparationIsDeterministic` says nothing
of the loops in their middle. `RenamedSoFar` does, for the aliases: those visited
are gone, and a field has the value of the one spelling among those visited, the
field's own name counted as visited; a visit to an alias that does not clash keeps
this (`RenameGoesOn`), a clash shows two spellings, whatever was visited before
(`ClashIsAFault`), and when nothing is left to visit the order is the plain one of
its entry (`RenamedIsPlain`). `MergingInv` does it for the answers: a key visited
has the answer of the layers up to this one, a key not visited of those before
(`IsLayered`, `OneMoreLayer`); after three layers that is `Layered`. With
`RefusedIsFaulty`, which holds because each refusal points at a fault of the input
itself, these are inductive (`InputInv`) and give `PreparationDecides`. The
assumptions: aliases stand for fields and are none, a value on the command line
is there, keys are natural numbers, so that of the candidates that answer a
warning there is a first one (`LeastKey`), however many keys there are.

*OrderCommand_proofs, the command.* `CommandInv` has both inductive invariants,
and two facts to join them: until the hand-over the dialogue has not begun, and
after it the answers are what `Find` says with a table that no longer changes.
`ExitTells` adds that a command which gave up over an answer still has that
prompt in hand. `FoundIsJustified` turns what `Find` says into what the layers
say, and `ConfirmationsFollowInput` follows (a text in a message is a key:
`WarningsAssumption`). `CommandDecides`, `CommandInputTyped` and
`CommandKeepsReplies` are the invariants of the parts in the whole.
`CommandImplementsReplies` maps every step of the preparation and the hand-over
to a stutter and every step of the dialogue to itself; it needs the same
invariant, for the answers are the foreseen ones only because nothing changes
the layers and the table becomes what they say. It is proved and not a run.

*VwapOrder_proofs.* `SessionInv` says that a warning is asked about only while
its prompt is the last response and the loop is open, and that the last line is a
yes where something is about to be sent. `OrdersHaveAYes` follows. For
`SessionImplementsReplies` each action of the session maps to one action of
`OrderReplies` or to a stutter: the questions before the submission to the
operator's review or nothing, an answer to a warning to `OperatorYes`,
`OperatorNo` or `OperatorGone`, and the goroutine, the pipe and the signal to
nothing. Since `OrderReplies` has its invariants for every value of the constants
(`RepliesAreDecided` and the others), so has the session, under the refinement.
`LinesAreKept` is inductive; it counts lines modulo a window that is one larger
than what may be written ahead, so that a lost or repeated line shows.

*Warehouse_proofs.* `AnswersJustified` needs the same of the stored rows
(`StoredIsJustified`): what a filtered lookup stores is a US contract.
`TableIsSerial` needs `LockInv`: the rows a statement has locked are exactly the
last bars of their keys that it has come to, so that a commit writes all of them.
For `RangesNeverDeadlock`, a statement of a sorted response waits for a key above
all those it holds (`WaitsForLater`); in a circle of such statements take the one
that waits for the least key (`LeastNumber`, from the well-foundedness of < on
the naturals): somebody in the circle waits for it, and so for a key it holds,
which is less still. No bound on the number of processes is needed.

*HistoryRange_proofs.* `FetchedSoFar` is the invariant of paging backwards: all
bars of the range from the cursor on are there, and nothing else is. It rests on
`PeriodCoversWindow`: the period asked for reaches from the cursor over the whole
window or to the start, whatever rounding the days need; and on a response that
is not too long being whole.

*Materials_proofs.* `UnforcedNeverMix` is not inductive without a prefix
property: the files an unforced generator has published are its first ones, so
whoever owns file 1 among the unforced owns every one of theirs.
`SuccessIsWhole` follows from the published prefix being full. `KeysAreCleanedUp`
is inductive: every return passes the removal.

*Configure_proofs.* A generation that is about to be activated, is active, or
is loaded has good files; steps of other runs do not touch it, for the clean-up of
a run removes its own generation only. `FailuresCleanUp` is inductive with the types.

Only model-checked: liveness (`CallsReturn`, `AutoEnds`, `CommandsReturn`,
`EndsWhenAbandoned`), which is out of the prover's reach. Every invariant and every
action property that a run checks is proved.

## 6. Plan

Done, in this order: `RedisSession`, `OrderReplies`, `Materials`, `Configure`,
`HistoryRange`, `TokenService` with `MemorySession` and the two refinements,
`Warehouse`, `VwapOrder` with its refinement of `OrderReplies`, `OrderInput`,
`OrderCommand` as its composition with `OrderReplies`, and the proofs above. What
could follow:

1. The invariants of `OrderReplies` stated of the session of `VwapOrder` itself,
   by way of the refinement.
2. A promise of the warehouse stated abstractly (a table that changes by whole
   statements), which `Warehouse` implements.
3. The dialogue of `configure` and the questions of `fetch-history` on top of the
   `readLine` of `VwapOrder`, as one module of prompts.

## 7. Not modelled

Texts, formats, signatures and key arithmetic (reduced to success or failure);
the threshold of the fee plan and the client order id (arithmetic and formatting
without state); prices and volumes of bars, and values that PostgreSQL refuses
(a statement that fails); a batch of unrelated orders whose responses have
several elements (`confirmations.go:53`); the REST commands that send one request
and print it; flag definitions, logging and help; the commands `reply`, `cancel`
and `status`, which are one request each; line editing at the terminal; the
questions of `configure` and `fetch-history`. The order of elements in JSON objects
matters where Go visits a map, and is modelled there. Redis replication and
failover, clock drift, the collision of random lock values and writers of the
warehouse that are not this program while it runs are outside the model.
