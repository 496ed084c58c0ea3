----------------------------- MODULE Scheduler -----------------------------
(***************************************************************************)
(* The task scheduler: the Lua scripts over Redis, the request that        *)
(* creates a task and prepares it, the nodes that claim it and report on   *)
(* it, and the lease watchdog.                                             *)
(*                                                                         *)
(* A Lua script is atomic in Redis, so each is one operator.  Everything   *)
(* between two Redis calls can be interleaved: the setup of a created task *)
(* (publish, cost, broadcast, reject), the two scripts of a failed         *)
(* completion, and every LINDEX, TTL+HGET, LREM and reclaim of a scan.     *)
(* A key's TTL is the number of Ticks it has left.                         *)
(***************************************************************************)
EXTENDS Tasks, Sequences, SequencesExt

CONSTANTS
  LeaseTTL,     \* TASK_LEASE_TTL
  DoneTTL,      \* the 300 s a finished hash is kept
  CacheTTL,     \* CACHE_TTL
  WaitTimeout,  \* TASK_WAIT_TIMEOUT: the lifetime of a request's context
  ScanLimit,    \* queue entries the watchdog looks at in one scan (100)
  RedisFaults,  \* TRUE: a Redis call may report an error to its caller
  MaxCrashes    \* bound of the model: how often the server process restarts

\* The setup of a task must end before its hash can expire; otherwise
\* UpdateTaskCost recreates the hash as one without status or TTL.
ASSUME SchedulerAssumption ==
  /\ LeaseTTL \in Nat \ {0} /\ DoneTTL \in Nat \ {0} /\ CacheTTL \in Nat \ {0}
  /\ WaitTimeout \in Nat /\ WaitTimeout < 3 * LeaseTTL
  /\ ScanLimit \in Nat \ {0}
  /\ RedisFaults \in BOOLEAN
  /\ MaxCrashes \in Nat

VARIABLES
  status, owner, ttl,     \* task:{t}: fields status and node_id, and TTL
                          \* (0: no such key, -1: a key that never expires)
  key,                    \* the (user, gallery) of t: fields collapse_key and cache_key
  sentinel, sentinelTTL,  \* inflight:{U}:{G}
  cache, cacheTTL,        \* cache:{U}:{G}: the task that produced the URL
  queue,                  \* queue:pending
  creator,                \* creator[t]: where the request that created t is
  ctxLeft,                \* Ticks left of that request's context
  claim,                  \* claim[t][n]: what node n and its connection do about t
  wdPc, wdLimit, wdIds,   \* the watchdog's scan
  misread,                \* a scan has taken an error for the end of a live task
  crashes                 \* restarts so far

hash == <<status, owner, ttl>>
sentinels == <<sentinel, sentinelTTL>>
caches == <<cache, cacheTTL>>
redis == <<hash, key, sentinels, caches, queue>>
request == <<creator, ctxLeft>>
watchdog == <<wdPc, wdLimit, wdIds, misread>>
vars == <<redis, request, claim, watchdog, crashes>>

CreatorState == {"none", "resolving", "costed", "done"}
InSetup == {"resolving", "costed"}

\* "offered": told of t, FETCH_TASK not handled yet; "working": assigned t, its
\* result not handled yet; "refused": CompleteTask returned an error and the
\* handler has still to call FailTask.
ClaimState == {"none", "offered", "working", "refused"}

Init ==
  /\ status = [t \in Trace |-> "NONE"]
  /\ owner = [t \in Trace |-> NoNode]
  /\ ttl = [t \in Trace |-> 0]
  /\ key = [t \in Trace |-> NoKey]
  /\ sentinel = [k \in Key |-> NoTrace]
  /\ sentinelTTL = [k \in Key |-> 0]
  /\ cache = [k \in Key |-> NoTrace]
  /\ cacheTTL = [k \in Key |-> 0]
  /\ queue = <<>>
  /\ creator = [t \in Trace |-> "none"]
  /\ ctxLeft = [t \in Trace |-> 0]
  /\ claim = [t \in Trace |-> [n \in Node |-> "none"]]
  /\ wdPc = "idle" /\ wdLimit = 0 /\ wdIds = <<>> /\ misread = FALSE
  /\ crashes = 0

-----------------------------------------------------------------------------
(* The Lua scripts: guards and effects on the keys of the database.        *)

\* How many members of kept, a set of indices, are at or before i.
Place(kept, i) == Cardinality({h \in kept : h <= i})

\* LREM with count 0: what is left of q, in its order.  (The Remove of
\* SequencesExt; it is built on SelectSeq, which no proof can look into.)
LRem(q, t) ==
  LET kept == {i \in DOMAIN q : q[i] # t}
  IN [p \in 1..Cardinality(kept) |-> q[CHOOSE i \in kept : Place(kept, i) = p]]

SetHash(t, st, n, left) ==
  /\ status' = [status EXCEPT ![t] = st]
  /\ owner' = [owner EXCEPT ![t] = n]
  /\ ttl' = [ttl EXCEPT ![t] = left]

SetSentinel(k, t, left) ==
  /\ sentinel' = [sentinel EXCEPT ![k] = t]
  /\ sentinelTTL' = [sentinelTTL EXCEPT ![k] = left]

DelSentinel(k) == SetSentinel(k, NoTrace, 0)

\* EXPIRE of a key that does not exist does nothing.
ExpireSentinel(k, left) ==
  /\ sentinelTTL' = [sentinelTTL EXCEPT ![k] = IF sentinel[k] = NoTrace THEN 0 ELSE left]
  /\ UNCHANGED sentinel

\* Mutants of LuaPublish: the hash, or the sentinel, gets no TTL.
LuaPublishNoExpire(t, k) ==
  /\ sentinel[k] = NoTrace
  /\ key' = [key EXCEPT ![t] = k]
  /\ SetHash(t, "PENDING", NoNode, -1)
  /\ SetSentinel(k, t, 2 * LeaseTTL)
  /\ queue' = Append(queue, t)
  /\ UNCHANGED caches

LuaPublishNoEx(t, k) ==
  /\ sentinel[k] = NoTrace
  /\ key' = [key EXCEPT ![t] = k]
  /\ SetHash(t, "PENDING", NoNode, 3 * LeaseTTL)
  /\ SetSentinel(k, t, -1)
  /\ queue' = Append(queue, t)
  /\ UNCHANGED caches

\* LuaPublishTask, the branch that creates.  Its other branches answer from
\* the cache or the sentinel and write nothing; force only decides whether
\* the cache is asked.
LuaPublish(t, k) ==
  /\ sentinel[k] = NoTrace
  /\ key' = [key EXCEPT ![t] = k]
  /\ SetHash(t, "PENDING", NoNode, 3 * LeaseTTL)
  /\ SetSentinel(k, t, 2 * LeaseTTL)
  /\ queue' = Append(queue, t)
  /\ UNCHANGED caches

\* Mutants of LuaFetch: the sentinel's TTL is not synced; the entry is popped
\* from the queue; a task that is being worked on is given away.
LuaFetchNoSync(t, n) ==
  /\ status[t] = "PENDING"
  /\ SetHash(t, "PROCESSING", n, LeaseTTL)
  /\ UNCHANGED <<key, sentinels, caches, queue>>

LuaFetchPops(t, n) ==
  /\ status[t] = "PENDING"
  /\ SetHash(t, "PROCESSING", n, LeaseTTL)
  /\ ExpireSentinel(key[t], LeaseTTL)
  /\ queue' = RemoveFirst(queue, t)
  /\ UNCHANGED <<key, caches>>

LuaFetchLive(t, n) ==
  /\ status[t] \in Live
  /\ SetHash(t, "PROCESSING", n, LeaseTTL)
  /\ ExpireSentinel(key[t], LeaseTTL)
  /\ UNCHANGED <<key, caches, queue>>

LuaFetch(t, n) ==
  /\ status[t] = "PENDING"
  /\ SetHash(t, "PROCESSING", n, LeaseTTL)
  /\ ExpireSentinel(key[t], LeaseTTL)
  /\ UNCHANGED <<key, caches, queue>>

MayComplete(t, n) == status[t] = "PROCESSING" /\ owner[t] = n

\* Mutants of LuaComplete: the sentinel stays; LREM with count 1.
LuaCompleteKeepsSentinel(t, n) ==
  /\ MayComplete(t, n)
  /\ SetHash(t, "COMPLETED", n, DoneTTL)
  /\ cache' = [cache EXCEPT ![key[t]] = t]
  /\ cacheTTL' = [cacheTTL EXCEPT ![key[t]] = CacheTTL]
  /\ queue' = LRem(queue, t)
  /\ UNCHANGED <<key, sentinels>>

LuaCompleteRemovesOne(t, n) ==
  /\ MayComplete(t, n)
  /\ SetHash(t, "COMPLETED", n, DoneTTL)
  /\ cache' = [cache EXCEPT ![key[t]] = t]
  /\ cacheTTL' = [cacheTTL EXCEPT ![key[t]] = CacheTTL]
  /\ DelSentinel(key[t])
  /\ queue' = RemoveFirst(queue, t)
  /\ UNCHANGED key

LuaComplete(t, n) ==
  /\ MayComplete(t, n)
  /\ SetHash(t, "COMPLETED", n, DoneTTL)
  /\ cache' = [cache EXCEPT ![key[t]] = t]
  /\ cacheTTL' = [cacheTTL EXCEPT ![key[t]] = CacheTTL]
  /\ DelSentinel(key[t])
  /\ queue' = LRem(queue, t)
  /\ UNCHANGED key

\* A mutant of MayFinalize: any task that exists.
MayFinalizeAny(t, n) == status[t] # "NONE"

\* LuaFailTask with node_id n ("" is NoNode, which owns nothing).
MayFinalize(t, n) ==
  \/ status[t] = "PENDING"
  \/ status[t] = "PROCESSING" /\ owner[t] = n

LuaFail(t, n, mode) ==
  /\ MayFinalize(t, n)
  /\ DelSentinel(key[t])
  /\ queue' = LRem(queue, t)
  /\ IF mode = "REJECT"
       THEN SetHash(t, "NONE", NoNode, 0)
       ELSE SetHash(t, "FAILED", owner[t], DoneTTL)
  /\ UNCHANGED <<key, caches>>

\* A mutant of LuaReclaim: whatever exists is enqueued again.
LuaReclaimAny(t) ==
  /\ status[t] # "NONE"
  /\ SetHash(t, "PENDING", NoNode, 3 * LeaseTTL)
  /\ queue' = Append(queue, t)
  /\ SetSentinel(key[t], t, 2 * LeaseTTL)
  /\ UNCHANGED <<key, caches>>

LuaReclaim(t) ==
  /\ status[t] = "PROCESSING"
  /\ SetHash(t, "PENDING", NoNode, 3 * LeaseTTL)
  /\ queue' = Append(queue, t)
  /\ SetSentinel(key[t], t, 2 * LeaseTTL)
  /\ UNCHANGED <<key, caches>>

-----------------------------------------------------------------------------
(* The request that creates a task (ParseGallery, setupCreatedTask).       *)

Leave(t) ==
  /\ creator' = [creator EXCEPT ![t] = "done"]
  /\ ctxLeft' = [ctxLeft EXCEPT ![t] = 0]

\* The reply may be lost after the script has run: the request then ends.
PublishTask(t, k) ==
  /\ key[t] = NoKey
  /\ LuaPublish(t, k)
  /\ \/ /\ creator' = [creator EXCEPT ![t] = "resolving"]
        /\ ctxLeft' = [ctxLeft EXCEPT ![t] = WaitTimeout]
     \/ RedisFaults /\ Leave(t)
  /\ UNCHANGED <<claim, watchdog, crashes>>

\* A mutant of UpdateTaskCost: a context of its own.
UpdateTaskCostDetached(t) ==
  /\ creator[t] = "resolving"
  /\ ttl' = [ttl EXCEPT ![t] = IF @ = 0 THEN -1 ELSE @]
  /\ creator' = [creator EXCEPT ![t] = "costed"]
  /\ UNCHANGED <<status, owner, key, sentinels, caches, queue, ctxLeft, claim, watchdog, crashes>>

\* HSET creates the hash when it is gone.
UpdateTaskCost(t) ==
  /\ creator[t] = "resolving"
  /\ ctxLeft[t] > 0
  /\ ttl' = [ttl EXCEPT ![t] = IF @ = 0 THEN -1 ELSE @]
  /\ creator' = [creator EXCEPT ![t] = "costed"]
  /\ UNCHANGED <<status, owner, key, sentinels, caches, queue, ctxLeft, claim, watchdog, crashes>>

\* The broadcast does not look at the context.  It fails if nobody gets it.
BroadcastTaskAnnouncement(t) ==
  /\ creator[t] = "costed"
  /\ \E told \in SUBSET Node \ {{}} :
       claim' = [claim EXCEPT ![t] =
                   [n \in Node |-> IF n \in told THEN "offered" ELSE "none"]]
  /\ Leave(t)
  /\ UNCHANGED <<redis, watchdog, crashes>>

\* Any step of the setup failed: the price lookup, the freeze, the cost
\* update, or the broadcast.
RejectTask(t) ==
  /\ creator[t] \in InSetup
  /\ ctxLeft[t] > 0
  /\ \/ LuaFail(t, NoNode, "REJECT")
     \/ ~MayFinalize(t, NoNode) /\ UNCHANGED redis
  /\ Leave(t)
  /\ UNCHANGED <<claim, watchdog, crashes>>

\* A setup that fails once its context is over (or Redis is unreachable)
\* cannot reject the task either.
AbandonSetup(t) ==
  /\ creator[t] \in InSetup
  /\ ctxLeft[t] = 0 \/ RedisFaults
  /\ Leave(t)
  /\ UNCHANGED <<redis, claim, watchdog, crashes>>

-----------------------------------------------------------------------------
(* The nodes, through the hub's message handlers.                          *)

SetClaim(t, n, c) == claim' = [claim EXCEPT ![t][n] = c]

HandleFetchTask(t, n) ==
  /\ claim[t][n] = "offered"
  /\ \/ LuaFetch(t, n) /\ SetClaim(t, n, "working")
     \/ status[t] # "PENDING" /\ SetClaim(t, n, "none") /\ UNCHANGED redis
  /\ UNCHANGED <<request, watchdog, crashes>>

\* The node declines the announcement, dies, loses its connection, or the
\* hub drops the reply because the send buffer is full.
LoseClaim(t, n) ==
  /\ claim[t][n] \in {"offered", "working"}
  /\ SetClaim(t, n, "none")
  /\ UNCHANGED <<redis, request, watchdog, crashes>>

\* HandleTaskResult of a success: CompleteTask, and if that returns an error
\* (refused, not executed, or executed without a reply) FailTask follows.
CompleteTask(t, n) ==
  /\ claim[t][n] = "working"
  /\ \/ LuaComplete(t, n) /\ SetClaim(t, n, "none")
     \/ LuaComplete(t, n) /\ RedisFaults /\ SetClaim(t, n, "refused")
     \/ /\ ~MayComplete(t, n) \/ RedisFaults
        /\ SetClaim(t, n, "refused")
        /\ UNCHANGED redis
  /\ UNCHANGED <<request, watchdog, crashes>>

FailTask(t, n) ==
  /\ claim[t][n] \in {"working", "refused"}
  /\ SetClaim(t, n, "none")
  /\ \/ LuaFail(t, n, "FAIL")
     \/ (~MayFinalize(t, n) \/ RedisFaults) /\ UNCHANGED redis
  /\ UNCHANGED <<request, watchdog, crashes>>

-----------------------------------------------------------------------------
(* The lease watchdog (reclaimExpiredTasks), one Redis call per action.    *)

ReclaimThreshold == LeaseTTL \div 2

StartScan ==
  /\ wdPc = "idle" /\ queue # <<>>
  /\ wdPc' = "collect"
  /\ wdLimit' = IF Len(queue) > ScanLimit THEN ScanLimit ELSE Len(queue)
  /\ UNCHANGED <<redis, request, claim, wdIds, misread, crashes>>

\* LINDEX i, where i is the number of ids collected; the queue may have
\* shrunk or shifted since the last one.
CollectId ==
  /\ wdPc = "collect"
  /\ \/ /\ Len(wdIds) < wdLimit /\ Len(wdIds) < Len(queue)
        /\ wdIds' = Append(wdIds, queue[Len(wdIds) + 1])
        /\ UNCHANGED wdPc
     \/ /\ \/ Len(wdIds) >= wdLimit
           \/ Len(wdIds) >= Len(queue)
           \/ RedisFaults
        /\ wdPc' = "inspect"
        /\ UNCHANGED wdIds
  /\ UNCHANGED <<redis, request, claim, wdLimit, misread, crashes>>

NextId(pc) == wdPc' = pc /\ wdIds' = Tail(wdIds) /\ UNCHANGED <<wdLimit, misread>>

EndScan ==
  /\ wdPc = "inspect" /\ wdIds = <<>>
  /\ wdPc' = "idle" /\ wdLimit' = 0
  /\ UNCHANGED <<redis, request, claim, wdIds, misread, crashes>>

NextUp(t) == wdIds # <<>> /\ Head(wdIds) = t

\* Mutants of InspectTask: the TTL is not looked at; a missing task is skipped.
InspectTaskAnyLease(t) ==
  /\ wdPc = "inspect" /\ NextUp(t)
  /\ \/ /\ status[t] = "PROCESSING"
        /\ wdPc' = "reclaim" /\ UNCHANGED <<wdIds, wdLimit, misread>>
     \/ /\ status[t] # "PROCESSING"
        /\ NextId("inspect")
  /\ UNCHANGED <<redis, request, claim, crashes>>

InspectTaskSkips(t) ==
  /\ wdPc = "inspect" /\ NextUp(t)
  /\ NextId("inspect")
  /\ UNCHANGED <<redis, request, claim, crashes>>

\* TTL and HGET in one pipeline: a missing status field is an error, and any
\* error counts as a missing task.
InspectTask(t) ==
  /\ wdPc = "inspect" /\ NextUp(t)
  /\ LET low == status[t] = "PROCESSING" /\ 0 < ttl[t] /\ ttl[t] < ReclaimThreshold
     IN \/ /\ status[t] = "NONE" \/ RedisFaults
           /\ wdPc' = "drop" /\ UNCHANGED <<wdIds, wdLimit>>
           /\ misread' = (misread \/ status[t] \in Live)
        \/ /\ low
           /\ wdPc' = "reclaim" /\ UNCHANGED <<wdIds, wdLimit, misread>>
        \/ /\ status[t] # "NONE" /\ ~low
           /\ NextId("inspect")
  /\ UNCHANGED <<redis, request, claim, crashes>>

DropEntry(t) ==
  /\ wdPc = "drop" /\ NextUp(t)
  /\ queue' = RemoveFirst(queue, t) \/ (RedisFaults /\ UNCHANGED queue)
  /\ NextId("inspect")
  /\ UNCHANGED <<hash, key, sentinels, caches, request, claim, crashes>>

ReclaimTask(t) ==
  /\ wdPc = "reclaim" /\ NextUp(t)
  /\ \/ LuaReclaim(t)
     \/ (status[t] # "PROCESSING" \/ RedisFaults) /\ UNCHANGED redis
  /\ NextId("inspect")
  /\ UNCHANGED <<request, claim, crashes>>

Watchdog ==
  \/ StartScan \/ CollectId \/ EndScan
  \/ \E t \in Trace : InspectTask(t) \/ DropEntry(t) \/ ReclaimTask(t)

-----------------------------------------------------------------------------
(* Time, and the restart of the server process.                            *)

OneLess(left) == IF left > 0 THEN left - 1 ELSE left

\* One unit of time; a key whose last unit it is disappears.
Tick ==
  /\ \/ \E t \in Trace : ttl[t] > 0 \/ ctxLeft[t] > 0
     \/ \E k \in Key : sentinelTTL[k] > 0 \/ cacheTTL[k] > 0
  /\ ttl' = [t \in Trace |-> OneLess(ttl[t])]
  /\ status' = [t \in Trace |-> IF ttl[t] = 1 THEN "NONE" ELSE status[t]]
  /\ owner' = [t \in Trace |-> IF ttl[t] = 1 THEN NoNode ELSE owner[t]]
  /\ sentinelTTL' = [k \in Key |-> OneLess(sentinelTTL[k])]
  /\ sentinel' = [k \in Key |-> IF sentinelTTL[k] = 1 THEN NoTrace ELSE sentinel[k]]
  /\ cacheTTL' = [k \in Key |-> OneLess(cacheTTL[k])]
  /\ cache' = [k \in Key |-> IF cacheTTL[k] = 1 THEN NoTrace ELSE cache[k]]
  /\ ctxLeft' = [t \in Trace |-> OneLess(ctxLeft[t])]
  /\ UNCHANGED <<key, queue, creator, claim, watchdog, crashes>>

\* Requests, handlers and the scan die with the process; Redis and what the
\* nodes are doing survive it.
ServerCrash ==
  /\ crashes < MaxCrashes
  /\ crashes' = crashes + 1
  /\ creator' = [t \in Trace |-> IF creator[t] \in InSetup THEN "done" ELSE creator[t]]
  /\ ctxLeft' = [t \in Trace |-> 0]
  /\ claim' = [t \in Trace |-> [n \in Node |->
                IF claim[t][n] = "refused" THEN "none" ELSE claim[t][n]]]
  /\ wdPc' = "idle" /\ wdLimit' = 0 /\ wdIds' = <<>>
  /\ UNCHANGED <<redis, misread>>

Next ==
  \/ \E t \in Trace, k \in Key : PublishTask(t, k)
  \/ \E t \in Trace : \/ UpdateTaskCost(t) \/ BroadcastTaskAnnouncement(t)
                      \/ RejectTask(t) \/ AbandonSetup(t)
  \/ \E t \in Trace, n \in Node : \/ HandleFetchTask(t, n) \/ LoseClaim(t, n)
                                  \/ CompleteTask(t, n) \/ FailTask(t, n)
  \/ Watchdog
  \/ Tick
  \/ ServerCrash

Spec == Init /\ [][Next]_vars

-----------------------------------------------------------------------------
(* Properties.                                                             *)

RedisTypeOK ==
  /\ status \in [Trace -> Status]
  /\ owner \in [Trace -> Node \cup {NoNode}]
  /\ ttl \in [Trace -> Int]
  /\ key \in [Trace -> Key \cup {NoKey}]
  /\ sentinel \in [Key -> Trace \cup {NoTrace}]
  /\ sentinelTTL \in [Key -> Nat]
  /\ cache \in [Key -> Trace \cup {NoTrace}]
  /\ cacheTTL \in [Key -> Nat]

\* What a missing key looks like in the variables that model it.
KeysOK ==
  /\ \A t \in Trace : status[t] # "NONE" => ttl[t] > 0 /\ key[t] \in Key
  /\ \A t \in Trace : status[t] = "NONE" => owner[t] = NoNode
  /\ \A k \in Key : sentinel[k] = NoTrace <=> sentinelTTL[k] = 0
  /\ \A k \in Key : cache[k] = NoTrace <=> cacheTTL[k] = 0

\* Every variable has its type, and a key is either whole or missing.
TypeOK ==
  /\ RedisTypeOK
  /\ KeysOK
  /\ queue \in Seq(Trace)
  /\ creator \in [Trace -> CreatorState]
  /\ ctxLeft \in [Trace -> Nat]
  /\ claim \in [Trace -> [Node -> ClaimState]]
  /\ wdPc \in {"idle", "collect", "inspect", "drop", "reclaim"}
  /\ wdLimit \in Nat
  /\ wdIds \in Seq(Trace) /\ misread \in BOOLEAN
  /\ crashes \in Nat

Occurrences(t) == Cardinality({i \in DOMAIN queue : queue[i] = t})
InQueue(t) == \E i \in DOMAIN queue : queue[i] = t

\* A user is locked out of a gallery only by a task that is alive: as long as a
\* sentinel exists, some task of its user and gallery does, and outlives it.
\* That need not be the task the sentinel names (SentinelNamesLiveTask).
SentinelCovered ==
  \A k \in Key : sentinel[k] # NoTrace =>
    \E u \in Trace : /\ key[u] = k
                     /\ status[u] \in Live
                     /\ sentinelTTL[k] <= ttl[u]

\* A request never collapses into a task that has already been answered: no
\* interleaving of completions, failures and reclaims leaves a sentinel that
\* names a finished task, or a task of another key.
CollapseTargetUnfinished ==
  \A k \in Key : sentinel[k] # NoTrace =>
    key[sentinel[k]] = k /\ status[sentinel[k]] \notin Finished

\* The watchdog can find every live task: whatever scripts report errors, and
\* however long ago a scan has looked at what it drops, no live task loses its
\* last queue entry, as long as a scan's own reads do not fail.
LiveTaskQueued ==
  ~misread => \A t \in Trace : status[t] \in Live => InQueue(t)

\* A finished task leaves nothing behind in the queue, however often it was
\* reclaimed and enqueued again (LREM with count 0).
FinishedTaskLeavesQueue ==
  \A t \in Trace : status[t] \in Finished => ~InQueue(t)

\* A task is worked on by as many nodes at once as it was enqueued times:
\* only a reclaim ever gives a claimed task to a second node.
OneWorkerPerEnqueue ==
  ~misread => \A t \in Trace : status[t] \in Live =>
    Cardinality({n \in Node : claim[t][n] = "working"}) <= Occurrences(t)

\* A URL in the cache came from a task of that user and gallery, and nothing
\* that happens later (a late failure, the FailTask after an unanswered
\* CompleteTask, a reclaim) takes the completion back.
CachedTaskStaysCompleted ==
  \A k \in Key : cache[k] # NoTrace =>
    key[cache[k]] = k /\ status[cache[k]] \in {"COMPLETED", "NONE"}

\* UpdateTaskCost, a plain HSET, never recreates an expired hash: such a key
\* would have no status and no TTL and stay in Redis for ever.
NoGhostTask ==
  \A t \in Trace : status[t] = "NONE" => ttl[t] = 0

\* The scan decides on what it read some Redis calls earlier; the task may
\* have been finished, fetched or have expired since.  Still only a lease
\* that is nearly over is taken away, with the task not fetched anew.
ReclaimTakesLowLease ==
  [][\A t \in Trace : status[t] = "PROCESSING" /\ status'[t] = "PENDING" =>
       0 < ttl[t] /\ ttl[t] < ReclaimThreshold]_vars

\* The scheduler implements the untimed task lifecycle.
Lifecycle == INSTANCE TaskLifecycle
LifecycleSpec == Lifecycle!Spec

-----------------------------------------------------------------------------
(* Time passes, and the watchdog's goroutine keeps scanning.  Nothing is   *)
(* assumed of nodes and requests: they may stop at any point.              *)

Fairness == WF_vars(Tick) /\ WF_vars(Watchdog)

FairSpec == Spec /\ Fairness

\* The queue does not fill up with dead tasks: whatever becomes of a task, its
\* entries are gone in the end (a scan looks at the first ScanLimit only).
QueueDrains == \A t \in Trace : InQueue(t) ~> ~InQueue(t)

\* A user is not locked out of a gallery by a task that hangs: each sentinel
\* is replaced or goes away, even if server and nodes stop serving the task.
SentinelReleased ==
  \A k \in Key, t \in Trace : sentinel[k] = t ~> sentinel[k] # t

-----------------------------------------------------------------------------
(* What a comment and the README say and the code does not do.             *)

\* "If collapseKey exists, the task is guaranteed to still be alive": the task a
\* new request collapses into.  LuaFetchTask syncs the TTL of the sentinel of
\* the key with the task it fetches, whichever task the sentinel names: when an
\* older task of the key is fetched late, the sentinel outlives its own task.
SentinelNamesLiveTask ==
  \A k \in Key : sentinel[k] # NoTrace => status[sentinel[k]] \in Live

\* Every node that can answers, in the end: a message in transit is handled
\* and a node that works reports.
NodeFairness ==
  \A t \in Trace, n \in Node :
    /\ WF_vars(HandleFetchTask(t, n))
    /\ WF_vars(CompleteTask(t, n) \/ FailTask(t, n))

FairNodesSpec == FairSpec /\ NodeFairness

\* LuaReclaimTask "handles timeout/failure recovery": a task that was taken
\* from a node that failed is claimed again.  No announcement is sent for it
\* and no node reads the queue, so it waits until its hash expires.
ReclaimedTaskIsRetried ==
  \A t \in Trace : (status[t] = "PENDING" /\ Occurrences(t) > 1)
                     ~> status[t] \in {"PROCESSING", "COMPLETED", "FAILED"}
=============================================================================
