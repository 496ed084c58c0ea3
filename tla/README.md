# Verification of archive-at-home

archive-at-home turns a gallery id into an archive URL.  A server takes parse
requests over HTTP, collapses duplicates, prices the task, reserves GP of the
user and announces the task to worker nodes over WebSocket; a node claims it,
asks E-Hentai for the URL and reports back; the server settles and answers.
This directory holds TLA+ models of that path, the TLC runs that check them and
the TLAPS proofs about them.

## Inventory

| Component | State | Operations | Talks to | Hard behaviour | What makes it correct |
|---|---|---|---|---|---|
| Task scheduler (`server/internal/scheduler`) | Redis: `task:{t}` (hash, TTL), `inflight:{U}:{G}` (sentinel), `cache:{U}:{G}`, list `queue:pending` | five Lua scripts, `UpdateTaskCost`, watchdog scan every 30 s | parse service, hub | scripts interleave with single Redis calls; TTLs; replies lost | a sentinel always has a live task behind it; a finished task stays finished; queue entries go away |
| Parse service (`service/gallery.go`, `handler/handler.go`) | one goroutine per request: trace, creator or collapsed, price, context deadline | `ParseGallery`, `setupCreatedTask` | scheduler, hub, waiter, balance | deadline against result, failing setup steps | pays once and only for a completed task; gives back what it reserved; always answers |
| ResultWaiter (`ws/hub.go`) | trace → channels of one slot | Register, Unregister, Notify | parse service, hub | send after unlock, late registration | no registered request loses a result |
| Hub (`ws/hub.go`, `ws/client.go`) | node id → connection, send buffers | registry, broadcast, FETCH_TASK, TASK_RESULT, pumps | nodes, scheduler, waiter | full buffers, duplicate connections, late and stale results | one node owns a claim; stale results change nothing |
| Balance service (`balance`) | rows `accounts`, `transactions` in PostgreSQL | GetAccount, Deposit, FreezeGP, SettleTask, RefundTask | parse service, check-in, admin | read-modify-write in READ COMMITTED | account and ledger agree |
| User accounts, API keys (`auth`, `middleware/apikey.go`) | row `users` | Register, logins, ResetAPIKey, SetStatus, UpdateLastCheckin | all handlers | `Save` of a whole stale row | a ban stays a ban |
| Daily check-in, admin (`handler/user.go`, `admin.go`) | - | check, deposit, store the date | users, balance | check then act | one reward a day |
| Price lookup (`service/ehentai.go`) | - | `ResolveParseParams` | E-Hentai | - | at least 1 GP |
| Task log (`store/store.go`) | channel of 1024 closures | LogTaskCreated, LogTaskCompleted | parse service | blocks when full | logs in order |
| Node connection (`node/internal/ws`) | current connection and channel, reconnect loop | connect, Reconnect, Close, send, pumps | server, node worker | two connects at once, stale channel | one connection, reconnects at last |
| Node worker (`node/internal/node`, `ehentai`, `database`) | task queue, workers, balance and cost of the day, the SQLite log | announcement, assigned, process, refresh, daily reset, Stop | node connection, E-Hentai, dashboard | send on a closed queue, stale budget, restarts | one result a task, charges within the daily limit from one reset of its counter to the next |
| Authenticators, login, configuration, dashboards | - | - | - | none in the task path | see "Not modelled" |

## Modules

| Module | Models | Code |
|---|---|---|
| `Tasks` | the identities and task statuses | `model/model.go` |
| `TaskLifecycle` | abstract: what the scheduler promises, without time, queue, watchdog and messages | the effect of each Lua script |
| `Scheduler` | the scheduler with TTLs, queue, watchdog, setup of a task and claims | `scheduler/*`, the handlers of `ws/hub.go`, `setupCreatedTask` |
| `SchedulerProofs` | theorems about `Scheduler`, among them that it implements `TaskLifecycle` | |
| `QueueProofs` | theorems about the queue, its entries and the scan of `Scheduler`; extends `SchedulerProofs` | |
| `Gallery` | parse requests, result waiter, node results and the account, over `TaskLifecycle` | `service/gallery.go`, `ws/hub.go` |
| `GalleryProofs` | theorems about `Gallery`, among them that it uses `TaskLifecycle` and `Account` as they are | |
| `Account` | abstract: an account whose operations are atomic | the interface in `balance/balance.go` |
| `Balance` | the operations as database transactions | `balance/service.go` |
| `BalanceProofs` | theorems about `Balance`, among them that it implements `Account` | |
| `NodeClient` | a node's connection: who dials, reconnect loops, pumps, shutdown, and the server's registry | `node/internal/ws/client.go`, `ws/hub.go`, `ws/client.go` |
| `NodeClientProofs` | theorems about `NodeClient` | |
| `NodeRole` | abstract: what the server may rely on in a node, task by task | the effect of the handlers in `node/node.go` |
| `NodeWorker` | a node's claims, queue, workers, purchases, budget and shutdown | `node/node.go`, `ehentai/client.go`, `database/database.go` |
| `NodeWorkerProofs` | theorems about `NodeWorker`, among them that it implements `NodeRole` | |
| `Users` | one user's row: sign-in, middleware, check-in, reset of the key, SetStatus | `auth/service.go`, `handler/user.go`, `middleware/apikey.go` |
| `UsersProofs` | theorems about `Users` | |
| `MCScheduler` | for TLC: the symmetry set, and a check of `LRem` against the library's `Remove` | |

`Gallery` and `Scheduler` meet in `TaskLifecycle`: `Gallery` is proved to change
the tasks by its actions only, `Scheduler` to implement it.  `Gallery` and
`Balance` meet in `Account` in the same way, up to overlaps: `Balance`
implements it as long as transactions do not overlap, and `Gallery` uses it as
long as none writes over what another has changed.  `NodeRole` is what
`Scheduler` and `Gallery` take a node for (told, working, a result, or lost
without one), and `NodeWorker` is proved to be such a node.  `Users` treats a
deposit, which `Balance` opens up, as one step.

An operator whose comment calls it a mutant is a plausible mistake in the
operator that follows.  No specification uses it; putting it in the place of
the other makes TLC report a property, which shows that the property depends on
that code.

### State and actions

**Scheduler.**  A Lua script is atomic in Redis and is one operator (`LuaFetch`,
`LuaReclaim`, ...); an action is one script or one Redis call with what its
caller does about the answer.  `status`, `owner`, `ttl` are the hash, with
`status = "NONE"` when the key is gone and `ttl = -1` for a key without expiry;
`key` stands for the stored `collapse_key` and `cache_key`, and outlives the
hash so that a property can speak of the past.  `creator[t]` is where the
request that created `t` is in its setup and `ctxLeft` what is left of its
deadline.  `claim[t][n]` is what node `n`, with everything in transit to and
from it, does about `t`: told, working, or refused between the two scripts of
`HandleTaskResult`.  `LoseClaim` covers each way a node drops out: it declines,
dies, loses the connection or never gets the reply.  The watchdog is one action
per Redis call, except that TTL and HGET of one pipeline are read together.
One scan runs at a time, as in the code, where one goroutine scans.  A single server
process uses the database, which is what the in-process waiters require.
`RedisFaults` lets a call report an error, executed or not.  `misread` is
history: a scan has taken the error of a read for the end of a live task
(`scheduler.go:251-255`) and will drop its entry.

**Gallery.**  A request is a process with a program counter; the actions follow
the statements of `ParseGallery` between two points where another goroutine can
interfere.  The scheduler is `TaskLifecycle`, in which any key may expire at any
time; that `Scheduler` implements it is proved, so what holds here holds for
every setting of the TTLs.  An operation of the
account is two steps, as in `balance/service.go`: `ReadAccount` is its SELECT and
puts the row into `memo[r]`; `Freeze`, `Settle` and `Refund` compute from that
copy and save the whole row, over whatever is there by now.  `overwritten` is
history: a save has written over a row that had changed since it was read.  The
ledger rows of an operation appear with its save; the order in which they do is
a question to `Balance`.  Nodes and their connections are not fair, so that a
node that dies, or whose message is lost, is one that takes no more steps about
the task.  Redis errors are not repeated here.

**Balance.**  A call goes through `first` (the SELECT), `create` (the INSERT
of a missing row), `save` (the UPDATE of the row), `insert` (the INSERT of its
ledger row) and `commit`.  A settlement inserts its two rows (`unfreeze`,
`insert`) before it saves, as `service.go:156-177` does, and so before it has
the row lock.  The lock of PostgreSQL is `locker`; a SELECT and the INSERT of a
ledger row do not wait for it.  The ledger is a table: a row gets the next id of
a sequence (`nextId`) at its INSERT, is `rows[c]` of the open transaction until
the commit, and a rolled-back id is never used again.  `overtaken` is history:
the last commit was of a settlement, and another transaction has committed a
newer row since the settlement inserted its own.  `Connections` is the size of the pool
(25 in the code).  `GetAccount` is not a transaction and its statements commit
one by one.

**NodeClient.**  The fields of `Client` are variables; channels, cancel
functions and the closures of a connection are named by the connection, and the
reconnect loop by the connection whose loss started it.  Whoever calls `connect`
(main, the loops, a click on the dashboard) is a caller: it dials, which can
take long, and then establishes, which is the section under the mutex with the
start of the pumps; a pump that is not scheduled yet and one that is not started
look the same.  A caller that has dialed is the window of the races.  `up` is a
connection that carries data; each end notices the loss of it by itself, the
server by its read deadline.  `connected`, `reconnectAttempts` and the
callbacks `OnConnected` and `OnDisconnected` only show or time something.

**NodeWorker.**  `main` is the life of the process: running, context cancelled,
queue closed, down; a crash may come at any time, and a start finds only
E-Hentai as it was left.  The database is of no help: `NewClient` loads the
day's cost with `DATE(created_at) = ?` (`database.go:151-156`), but the driver,
opened without `_time_format` (`database.go:41`), stores a Go time as text that
SQLite's `DATE` cannot parse, so that the sum is over no rows; `TodayGP` is 0.
`stage` is what has become of each task; a claim waits, is sent and answered as
"claimed", and any of its messages may be lost, as `NodeClient` describes.  A
worker's `phase` stops it where another goroutine can interfere: before the GET
that shows the price, between it and the POST that is charged, between the
charge and the count, between the count and the report, before the refresh, and
between reading a status page and storing it.  A task of the free tier may be
shown as free and charged, or the reverse, as other workers use the quota in
between.  Pollers are the ticker, the dashboard's button and the refresh at the
start.  A send to the closed queue panics, and so ends the process.  `spent` is
what E-Hentai has charged since the node's counter was last set to 0, by a start
or by `dailyResetLoop`; the node does not see it.  `unseen`, `missed` and
`onCredit` are history: a charge above the price shown or whose answer was lost,
a refresh that failed, a claim that the balance known need not cover.  Assumed
of E-Hentai: it takes no more than there is.

**Users.**  The row is `[key, status, checkin]`; a key is named by the request
that generated it and a time is its day.  Each statement is a step, and
`row[r]` is the copy in the request's memory: the one the middleware read,
and for a reset the one `ResetAPIKey` reads again and saves whole.  `undone`
and `excused` remember the overlaps that the code does not defend against, so
that the invariants say that there are no others: `undone` when a status is
set between the two statements of a reset; `excused` when check-ins overlap,
when a reset has read the row before the date is written, or when a check-in
fails on the way.

## Runs

| Run | Result | What it asks |
|---|---|---|
| `SchedSafety` | pass | with failing Redis calls, do sentinel, queue, cache and claims stay consistent, and is the scheduler a `TaskLifecycle` |
| `SchedLiveness` | pass | do queue entries and sentinels go away without help of nodes |
| `ReclaimRetry` | violated | is a reclaimed task claimed again |
| `SentinelOutlives` | violated | is the task that a sentinel names alive |
| `Gallery` | pass | who pays, who is told what, what stays reserved, what of it holds when account transactions overlap; is everybody answered |
| `FrozenLeaks` | violated | is GP frozen only for requests in flight |
| `NodeClient` | pass | is there one reconnect loop, does the node get back, is all closed in the end |
| `NodeTwoConns` | violated | does it get back after a click on reconnect |
| `NodeWorker` | pass | do charges and counted costs stay within the limit, does the node keep its role, does it work off its queue and stop |
| `Users` | pass | is a replaced key dead, does a ban stay, is a day paid for once |
| `Balance` | pass | is everything atomic until transactions overlap, and what holds when they do |
| `BalanceRace` | violated | does the ledger add up to the balance |

### What the violations show

* `ReclaimRetry`: the watchdog re-enqueues a stuck task, but nobody announces it
  and no node reads the queue.  The task waits for its hash to expire while its
  sentinel makes new requests collapse into it, against `lua.go:220-223` and the
  README of the server ("超时自动过期，Watchdog 重新入队").
* `SentinelOutlives`: `LuaFetchTask` gives the key's sentinel the TTL of the task
  it fetches, whichever task the sentinel names (`lua.go:40-41`).  The sentinel of
  an unclaimed task ends before its hash, so a second task of the key may be
  published; when it is fetched first and the older one later, the sentinel of
  the newer gets the longer lease of the older and outlives the hash it names.
  This is against "guaranteed to still be alive" (`lua.go:189-191`) and "so it
  never outlives the task hash" (`lua.go:39`).  What does hold, and is checked and
  proved as `SentinelCovered`, is weaker: some live task of the key outlives the
  sentinel.
* `FrozenLeaks`: the refund of a request that timed out runs under the context
  that timed out; the GP stays frozen (`gallery.go:165`, `handler.go:84`),
  against "GP reserved by in-flight tasks" (`balance.go:20`).
* `NodeTwoConns`: the context of a reconnect loop does not reach its dial, and
  `connect` does not close what it overwrites (`client.go:73-91`).  A click
  that runs meanwhile leaves two connections; when the server has registered
  the one that is stored first, the node sends on the other, loses it and is
  refused for ever ("node already connected"), against "Reconnect closes the
  current connection and establishes a new one" (`client.go:136`).
* `BalanceRace`: two transactions that overlap lose an update
  (`service.go:70-73`), against "Deposit adds GP to a user's balance".

One disagreement has no run, as it needs no interleaving.  "Load today's GP cost
from database so daily limit survives restarts" (`node/internal/ehentai/client.go:69`):
a restarted node begins the day at 0, for the reason given under *NodeWorker*
above.  The models take the code as it is, and no property says that the limit
holds for a calendar day; `ChargesWithinLimit` is about the time from one start
or reset to the next.

### Bounds

* Two tasks of one key and two nodes: an older and a newer task of the same
  user and gallery, and a claim that passes from one node to another.  Keys
  meet only in the queue, so one key keeps every interaction of sentinels.  With
  a node fewer (`SchedLiveness`, `ReclaimRetry` has one task) the question is
  about time, not about ownership.
* `LeaseTTL = 4` is the default of 2 min in units of 30 s; the sentinel of a new
  task then lives 8, its hash 12 and the reclaim threshold is 2.  `WaitTimeout`
  is 3 (90 s) in the default configuration.  `SchedSafety` takes 11, the longest
  wait below three leases, so that a setup can last until its hash is about to
  end (that it is below is an assumption, as the configuration does not check it); the other runs of `Scheduler` take 3.  `DoneTTL` and `CacheTTL` are
  shortened, as only their end matters.
* `SchedSafety` lets every Redis call fail, executed or not; the runs about
  liveness and the violations do without.
* `ScanLimit` 1 or 2 stands for 100 and is below the length the queue reaches.
* `MaxCrashes` bounds restarts: one, where a run has any.
* `Gallery`: two requests (a creator with one that collapses, or two
  creators by `force`), GP for one and a half tasks, so that the second freeze
  is refused unless the first has been given back.  `FrozenLeaks` has enough
  for both.  One fault (`MaxFaults`): a balance operation that fails with time
  left, or a restart.  An announcement reaches one node or both (`Reach`), and
  `MaxOffers` has at most two of them open at a time: with two tasks, one node
  late on each, or two nodes on one.
* `Balance`: a deposit, two tasks and a reader on two connections (25 in the
  code); amounts 3 and 2, so that a task can be afforded or not.  `BalanceRace`
  has two deposits.
* `NodeClient`: three connections (one current, one dialed meanwhile, one the
  server has not noticed the end of), reused when nothing refers to them; a
  dial waits while none is free, which ends, as the server notices.  One click,
  one message under way, and two events (`MaxEvents`) among clicks, cuts, failed
  dials and server restarts: a race needs one of them, a failure during the
  recovery the other.  A full send buffer refuses a message and changes nothing,
  so one message is enough.
* `NodeWorker`: two workers (5 in the code), one poller, a queue of one (100),
  two tasks of which one may be free: one in work, one in the queue or refused
  by it.  The price 2 is within estimate and reserve (1 + 1), the limit 3 below
  two prices, the account 4 above the limit.  `MaxUpsets` counts starts, lost
  answers and unread pages: two are a start and one of the others, or a restart.
  Daily resets are not bounded.
* `Users`: two requests of each kind, as every overlap is one of two; two days,
  two settings of the status (a ban and its end), one failing check-in.
* Deadlock is not checked: a run ends when all its tasks, requests or calls are
  used up.

### Fairness

* `Scheduler!Fairness`: time passes, and the watchdog, a goroutine with a
  ticker for the life of the process, goes on.  Nodes and requests may stop for
  good.  `NodeFairness`, only for `ReclaimRetry`, adds that messages are handled and working
  nodes report: even then the claim does not hold.
* `Gallery!Fairness`: some request goes on as long as one can, and a context that
  does not end by itself is ended (`handler.go:84` gives every request a
  deadline).  That is less than fairness for each goroutine, and enough, as a
  request passes its places once: `EveryRequestReturns` says that again and again
  nobody is waiting.  No step of a node is fair, nor is the watchdog.
* `NodeClient!Fairness`: goroutines that can go on do, a dial returns, and the
  server notices a dead connection (read deadline of 60 s).  Clicks, signals
  and faults need not happen, and `BackOnlineAlone` speaks of runs without
  clicks.
* `NodeWorker!Fairness`: the workers go on (every HTTP request has a timeout of
  30 s), main goes on to close the queue and to wait, a poller that has read a
  page stores it.  Messages, signals, faults and the daily reset need not come.
* `Users` has no liveness: a request that stops is one that failed.
* `Balance!Fairness`: statements return and the lock queue is served; that any
  transaction fails is not assumed.

## Proofs

`SchedulerProofs` proves for any sets of tasks, nodes and keys and any TTLs that
satisfy the assumptions of `Tasks` (the null values are no members) and
`Scheduler` (TTLs are positive; the wait timeout is below three leases, used
only by `SetupLeavesNoGhost`):

* `RedisInvariant`: `RedisInv` is inductive: the types, `KeysOK` (a key is there
  with all its fields or not at all), `SentinelCovered`,
  `CollapseTargetUnfinished` and `CachedTaskStaysCompleted`.  The conjuncts need
  each other: that a completion deletes only a sentinel whose cover may go needs
  to know that the sentinel of a key covers that key's tasks.
* `SentinelIsCovered`, `CollapseTargetIsUnfinished`, `CompletionIsFinal`: its
  parts.
* `SetupLeavesNoGhost`: by `SetupInv`: while a request is in its setup, its
  hash has more time left than the request's context, because nobody can claim
  a task that was not announced.
* `ReclaimIsNotStale`: by `ObservationInv`: between the watchdog's read and its
  script the lease can only shrink, because a claim starts from `PENDING`.
* `SchedulerImplementsLifecycle`: every step is a step of `TaskLifecycle` or
  changes none of its variables.  A `Tick` is an `Expire`, which needs
  `SentinelCovered` after the step; an expired sentinel is not the only one
  that matters, as its cover's TTL must not end first.

`NodeClientProofs` proves for any sets of connections, clicks and messages:

* `NodeInvariant`: `NodeInv` is inductive: types, `OneLoop`, `RegistryMatches`,
  `NeverIdle`, and what they rest on: a dialed connection is new and one
  caller's (`DialedIsNew`), a loop is stopped only after its connection was lost
  (`StopAfterLoss`), the current connection has a pump that will notice its end
  (`CurrentIsWatched`).  `OneLoop` needs that no loop runs while a connection is
  current, as the end of that connection starts one; `NeverIdle` needs that this
  new loop cannot have been stopped already.
* `NodeTypes`, `OneLoopAtATime`, `RegistryIsExact`, `NodeIsNeverIdle`: its
  parts.

`NodeWorkerProofs` proves for any sets of tasks, workers and pollers, any queue
size, limit, reserve and prices (`NodeWorkerAssumption`: natural numbers,
workers are no pollers):

* `WorkerTypes`: types, no task twice in the queue, one worker a task.
* `BalanceWithinLimit` and `LimitKeptAlone` by `WorkerInv`, which adds three
  things: what the workers' jobs are in each phase (`JobsMatch`), that the
  balance is at most what is left of the day unless a cost was counted and its
  worker has not stored a newer page (`BalanceIsFresh`), and that a task that
  was claimed alone still fits under the limit (`RoomForTask`).  The limit does
  not follow from the balance at the claim: pollers may store old pages in
  between, and the argument is that a page can only replace the balance by what
  is left at the time it is stored.
* `ChargesKeepLimit`, about what E-Hentai charges and not what the node counts:
  by `ChargesCounted`, on top of `WorkerInv`.  The charges are within the limit,
  and all of them have been counted but for the one of a worker that is about to
  count.  That there is only one such worker, and room for its charge, is
  `RoomForTask`; a crash between charge and count loses the memory of it, but then
  the next start begins a new count of both.
* `NodeKeepsRole`: every step is a step of `NodeRole` or changes nothing there;
  one worker a task is what makes the purchase and the result unique.

`UsersProofs` proves for any sets of requests and any number of days, settings
and faults that satisfy `UsersAssumption`: `UsersTypes`, `ReplacedKeysStayDead`,
`StatusStays`, `OnceADay`, by `UsersInv`.  It adds that only requests that are
over have given the row its key (`KeysAreSpent`), that the copies of the resets
agree with the row in what is not excused (`CopiesAgree`), and where the one
check-in under way is when a reward has been paid (`OneAtATime`).

`GalleryProofs` proves for any sets of requests (traces), nodes and keys, any
price and balance and any number of faults that satisfy `GalleryAssumption` and
the assumptions of `Tasks` all safety properties of `Gallery`: `GalleryTypes`,
`AccountAlwaysMatches`, `NeverOverspends`, `OnlyCompletedIsPaid`,
`UrlsAreReal`, `NoResultDropped` and `ReservationsAreClosed`.  They follow from
`GalleryInv`:

* `Past(t)`: t was completed.  No script makes anything else of such a task
  (`LifeStepKeeps`, `PublishKeeps`), so that what was once true of a result
  stays true: in the hands of a node's handler (`WorkTrue`), in a channel, in an
  answer and in the ledger (`Truthful`).
* `Mail`: a registered channel is empty and its request waits for that task;
  with it, a result reaches only requests of its task.
* `Books`: what the ledger holds of a request and whether it owes a refund, at
  each place of the program.  It is needed because a refund is only right if
  the freeze was recorded and nothing else was.
* `Sums`: the balance and what is frozen, against the cardinality of the sets of
  settled and of reserved tasks.  Each step adds to such a set or removes from
  it at most one task; that these tasks are finitely many is part of the
  invariant, so that the set of traces need not be finite.  The copies in `memo`
  are part of it, too: a copy may be as old as it likes, and still its balance
  is not below the start less one price for each settled task (settlements since
  only lower that bound), which is why the bound survives the saves of stale rows.  That the balance and
  the reservations are exact, and covered, holds until a save overwrites; before
  the first such save, a row saved is a row just read.

Two theorems tie `Gallery` to what it builds on.  `GalleryKeepsLifecycle`: it
is a `TaskLifecycle` over the same variables.  `OnlyAccountOperations`: every
change of balance and reservation, those of a commit whose answer is lost and of
the refund of a failed freeze included, is a freeze that `Account` permits, a
settlement or a refund, with the amounts `Account` says, until one writes over a
row that has changed since it was read.  (The ledgers differ:
`Gallery` keeps for each task the set of its entries, `Account` their sequence.)

`QueueProofs` proves what `Scheduler` promises of `queue:pending`, for queues
and scans of any length:

* `SchedulerTypes`, `FinishedTasksAreDequeued`: by `QueueInv` and `ScanInv`, on
  top of `RedisInv` and `SetupInv`.  A finished task stays out of the queue,
  whatever fails, because a finish removes all entries (`LREM` with count 0) and
  only a publication or a reclaim, which a finished task cannot undergo, adds
  one.
* `LiveTasksStayQueued`, `OneWorkerPerEntry`: by `ServedInv`.  Neither statement
  is inductive; what is: a pending task has one entry more than nodes at work on
  it, a processing one at least as many.  The spare entry is the one a reclaim
  appends, and the next claim uses it up.  `DropInv` covers the stale read: the
  watchdog removes an entry (`LREM` with count 1) some time after it saw the
  task gone, and a task that is gone does not come back, as traces are drawn
  once.  Both are stated up to `misread`, and need it: any error of its reads
  looks to the watchdog like a task that is gone (`scheduler.go:251-255`), and it
  then drops the entry of a live one.  All other calls may fail.
* The lemmas before them say what `RPUSH`, `LREM 0` and `LREM 1` do to the
  number of entries of each task (`Appended`, `AllRemoved`, `FirstRemoved`).
  They rest on `PlaceIsRank`: `Place` numbers a finite set of indices, in order
  and without gaps.  `LRem` is written with it because the library's `Remove`
  is `SelectSeq`, a recursive definition about which nothing can be proved here;
  `LRemIsRemove`, an assumption of `MCScheduler` that TLC evaluates in every
  run of `Scheduler`, says on all queues of up to five entries that the two are the same.

`BalanceProofs` proves for any sets of calls, any amounts and any number of
connections that satisfy `BalanceAssumption` (the null values are no members; a
reader is not also a deposit or a task):

* `BalanceTypes`, `LastEntryAlwaysShows`: by `BalanceInv`.  However transactions
  overlap, row and ledger entry of a commit come from the same memory.  A deposit,
  a freeze and a refund insert their row under the lock, so that it is newer than
  all committed ones; a settlement inserts its rows before, and the theorem
  excepts the case that it was `overtaken` meanwhile.
* `BalanceImplementsAccount`: until two transactions have overlapped, every step
  is a step of `Account` or changes nothing.  The argument is `Serial`: the only
  open transaction holds in its memory the committed row (`UpToDate`), or the
  empty row it is creating, so that what it saves is `Apply` of the row that is
  there at its commit, and the ids of its rows are the last drawn (`InRow`), so
  that they follow those of the ledger.  `GetAccount` is not a transaction and may create the row
  in between.  It can do so only while there is none and nobody has the lock, and
  then a transaction past its first statement is about to create the row too, and
  fails on the unique index.

The proofs about `Scheduler` have one lemma per script and one step per action.
Every invariant, action property and refinement that a passing run checks is
stated by a theorem.  Model-checked only is all liveness (`QueueDrains`,
`SentinelReleased`, `EveryRequestReturns`, `TransactionsEnd`, `BackOnlineAlone`,
`ClosesAtLast`, `AcceptedIsDelivered`, `QueuedIsWorkedOff`, `StopEnds`), as the
prover's treatment of `ENABLED`, and with it of fairness, is not sufficient.

## Not modelled

* Time in the node: how long a claim waits (`calculateBalanceBasedDelay`) only
  orders claims of different nodes, and any order is in `Scheduler`.  The
  node's `haveFreeQuota` may have either value at any announcement.
* Some things that go wrong in the code are in the models, and the properties
  say only that nothing else goes wrong.  Two claims at once exceed the daily
  limit, as `shouldClaimTask` does not count what was claimed and not bought
  (`node.go:196`; `onCredit`), and a restart forgets the day's cost.  Check-ins
  that overlap are paid twice (`user.go:125`), and a ban that meets a reset of the
  key is undone (`auth/service.go:207`; `excused`, `undone`).  Two overlapping
  freezes are both granted, and one is lost (`balance/service.go:97-111`;
  `overwritten`).  The watchdog drops a live task whose read failed (`misread`).
  A settlement's ledger rows can be older than a deposit's that it has not seen
  (`overtaken`).
* `Notify` takes the channels out and sends to them in one step; in the code the
  sends follow the unlock.  Nobody else has the channels by then but their
  requests, which only receive or leave.
* That a failing freeze hurts other tasks: its refund (`gallery.go:143-146`, whose
  comment speaks of a freeze that succeeded) releases what another task has
  reserved.  Of runs with such an error only `frozen >= 0` and the sum of what was
  spent are stated.
* The server's send buffers, of which the models have the effect, a lost
  message; the log queue of `store.go`, whose one writer always comes back and
  whose rows nothing reads; the price formula, of which only matters that it
  yields at least 1 GP.
* Passwords, Telegram's hash, the nodes' signatures, request plumbing,
  configuration, counters and display of the dashboards: no state that any of
  the modelled parts depends on.  The wire formats are data.
* `LuaCancelTask`, which the server's README lists, does not exist in the code.

## Plan

1. Proofs of which updates overlapping transactions can lose, beyond
   `LastEntryShowsBalance` and the bound of `AccountMatchesLedger`.
2. Proofs of the step from a restart of the server to its effect on `NodeClient`
   and `Gallery` together.
