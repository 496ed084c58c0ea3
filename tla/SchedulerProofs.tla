-------------------------- MODULE SchedulerProofs --------------------------
(***************************************************************************)
(* Theorems about the scheduler, for any number of traces, nodes, keys,    *)
(* restarts and any lease.  Every script is atomic, so the proofs go       *)
(* script by script: one lemma says what a script does to the invariant of *)
(* the database, and the step of each action is that of its script.        *)
(***************************************************************************)
EXTENDS Scheduler, TLAPS

\* The invariant of the Redis database alone.
RedisInv ==
  /\ RedisTypeOK
  /\ KeysOK
  /\ SentinelCovered
  /\ CollapseTargetUnfinished
  /\ CachedTaskStaysCompleted

USE NullAssumption, SchedulerAssumption DEF Live, Finished, Status

LEMMA RedisInvInit == Init => RedisInv
  BY DEF Init, RedisInv, RedisTypeOK, KeysOK, SentinelCovered,
         CollapseTargetUnfinished, CachedTaskStaysCompleted

\* A step that leaves hashes, sentinels and cache alone.
LEMMA RedisInvIdle ==
  ASSUME RedisInv, UNCHANGED <<hash, key, sentinels, caches>>
  PROVE  RedisInv'
  BY DEF RedisInv, RedisTypeOK, KeysOK, SentinelCovered, CollapseTargetUnfinished,
         CachedTaskStaysCompleted, hash, sentinels, caches

\* LuaPublishTask: the new task covers its sentinel, 3 leases to 2.
LEMMA PublishKeepsRedisInv ==
  ASSUME RedisInv, NEW t \in Trace, NEW k \in Key, key[t] = NoKey, LuaPublish(t, k)
  PROVE  RedisInv'
  <1> USE DEF LuaPublish, SetHash, SetSentinel, caches
  <1>1. RedisTypeOK'
    BY DEF RedisInv, RedisTypeOK
  <1>2. KeysOK'
    BY DEF RedisInv, RedisTypeOK, KeysOK
  <1>3. SentinelCovered'
    <2> SUFFICES ASSUME NEW j \in Key, sentinel'[j] # NoTrace
                 PROVE  \E u \in Trace : /\ key'[u] = j
                                         /\ status'[u] \in Live
                                         /\ sentinelTTL'[j] <= ttl'[u]
      BY DEF SentinelCovered
    <2>1. CASE j = k
      <3>1. sentinelTTL'[j] = 2 * LeaseTTL /\ ttl'[t] = 3 * LeaseTTL
        BY <2>1 DEF RedisInv, RedisTypeOK
      <3> QED
        BY <2>1, <3>1 DEF RedisInv, RedisTypeOK
    <2>2. CASE j # k
      BY <2>2 DEF RedisInv, RedisTypeOK, SentinelCovered
    <2> QED
      BY <2>1, <2>2
  <1>4. CollapseTargetUnfinished'
    BY DEF RedisInv, RedisTypeOK, CollapseTargetUnfinished
  <1>5. CachedTaskStaysCompleted'
    BY DEF RedisInv, RedisTypeOK, CachedTaskStaysCompleted
  <1> QED
    BY <1>1, <1>2, <1>3, <1>4, <1>5 DEF RedisInv
\* LuaFetchTask: whatever task the sentinel names, the fetched one covers it now.
LEMMA FetchKeepsRedisInv ==
  ASSUME RedisInv, NEW t \in Trace, NEW n \in Node, LuaFetch(t, n)
  PROVE  RedisInv'
  <1> USE DEF LuaFetch, SetHash, ExpireSentinel, caches
  <1>0. status[t] = "PENDING" /\ key[t] \in Key
    BY DEF RedisInv, RedisTypeOK, KeysOK
  <1>1. RedisTypeOK'
    BY <1>0 DEF RedisInv, RedisTypeOK
  <1>2. KeysOK'
    BY <1>0 DEF RedisInv, RedisTypeOK, KeysOK
  <1>3. SentinelCovered'
    <2> SUFFICES ASSUME NEW j \in Key, sentinel'[j] # NoTrace
                 PROVE  \E u \in Trace : /\ key'[u] = j
                                         /\ status'[u] \in Live
                                         /\ sentinelTTL'[j] <= ttl'[u]
      BY DEF SentinelCovered
    <2>1. CASE j = key[t]
      <3>1. sentinelTTL'[j] = LeaseTTL /\ ttl'[t] = LeaseTTL
        BY <1>0, <2>1 DEF RedisInv, RedisTypeOK
      <3> QED
        BY <1>0, <2>1, <3>1 DEF RedisInv, RedisTypeOK
    <2>2. CASE j # key[t]
      BY <1>0, <2>2 DEF RedisInv, RedisTypeOK, SentinelCovered
    <2> QED
      BY <2>1, <2>2
  <1>4. CollapseTargetUnfinished'
    BY <1>0 DEF RedisInv, RedisTypeOK, KeysOK, CollapseTargetUnfinished
  <1>5. CachedTaskStaysCompleted'
    BY <1>0 DEF RedisInv, RedisTypeOK, KeysOK, CachedTaskStaysCompleted
  <1> QED
    BY <1>1, <1>2, <1>3, <1>4, <1>5 DEF RedisInv

\* LuaCompleteTask: the sentinel of the key goes, whomever it names.
LEMMA CompleteKeepsRedisInv ==
  ASSUME RedisInv, NEW t \in Trace, NEW n \in Node, LuaComplete(t, n)
  PROVE  RedisInv'
  <1> USE DEF LuaComplete, MayComplete, SetHash, DelSentinel, SetSentinel
  <1>0. status[t] = "PROCESSING" /\ key[t] \in Key
    BY DEF RedisInv, RedisTypeOK, KeysOK
  <1>1. RedisTypeOK'
    BY <1>0 DEF RedisInv, RedisTypeOK
  <1>2. KeysOK'
    BY <1>0 DEF RedisInv, RedisTypeOK, KeysOK
  <1>3. SentinelCovered'
    BY <1>0 DEF RedisInv, RedisTypeOK, SentinelCovered
  <1>4. CollapseTargetUnfinished'
    BY <1>0 DEF RedisInv, RedisTypeOK, KeysOK, CollapseTargetUnfinished
  <1>5. CachedTaskStaysCompleted'
    BY <1>0 DEF RedisInv, RedisTypeOK, KeysOK, CachedTaskStaysCompleted
  <1> QED
    BY <1>1, <1>2, <1>3, <1>4, <1>5 DEF RedisInv

\* LuaFailTask, as FAIL or REJECT.
LEMMA FailKeepsRedisInv ==
  ASSUME RedisInv, NEW t \in Trace, NEW n \in Node \cup {NoNode}, NEW mode, LuaFail(t, n, mode)
  PROVE  RedisInv'
  <1> USE DEF LuaFail, MayFinalize, SetHash, DelSentinel, SetSentinel, caches
  <1>0. status[t] \in Live /\ key[t] \in Key
    BY DEF RedisInv, RedisTypeOK, KeysOK
  <1>1. RedisTypeOK'
    BY <1>0 DEF RedisInv, RedisTypeOK
  <1>2. KeysOK'
    BY <1>0 DEF RedisInv, RedisTypeOK, KeysOK
  <1>3. SentinelCovered'
    BY <1>0 DEF RedisInv, RedisTypeOK, SentinelCovered
  <1>4. CollapseTargetUnfinished'
    BY <1>0 DEF RedisInv, RedisTypeOK, KeysOK, CollapseTargetUnfinished
  <1>5. CachedTaskStaysCompleted'
    BY <1>0 DEF RedisInv, RedisTypeOK, KeysOK, CachedTaskStaysCompleted
  <1> QED
    BY <1>1, <1>2, <1>3, <1>4, <1>5 DEF RedisInv

\* LuaReclaimTask: the reclaimed task takes the sentinel over.
LEMMA ReclaimKeepsRedisInv ==
  ASSUME RedisInv, NEW t \in Trace, LuaReclaim(t)
  PROVE  RedisInv'
  <1> USE DEF LuaReclaim, SetHash, SetSentinel, caches
  <1>0. status[t] = "PROCESSING" /\ key[t] \in Key
    BY DEF RedisInv, RedisTypeOK, KeysOK
  <1>1. RedisTypeOK'
    BY <1>0 DEF RedisInv, RedisTypeOK
  <1>2. KeysOK'
    BY <1>0 DEF RedisInv, RedisTypeOK, KeysOK
  <1>3. SentinelCovered'
    <2> SUFFICES ASSUME NEW j \in Key, sentinel'[j] # NoTrace
                 PROVE  \E u \in Trace : /\ key'[u] = j
                                         /\ status'[u] \in Live
                                         /\ sentinelTTL'[j] <= ttl'[u]
      BY DEF SentinelCovered
    <2>1. CASE j = key[t]
      <3>1. sentinelTTL'[j] = 2 * LeaseTTL /\ ttl'[t] = 3 * LeaseTTL
        BY <1>0, <2>1 DEF RedisInv, RedisTypeOK
      <3> QED
        BY <1>0, <2>1, <3>1 DEF RedisInv, RedisTypeOK
    <2>2. CASE j # key[t]
      BY <1>0, <2>2 DEF RedisInv, RedisTypeOK, SentinelCovered
    <2> QED
      BY <2>1, <2>2
  <1>4. CollapseTargetUnfinished'
    BY <1>0 DEF RedisInv, RedisTypeOK, KeysOK, CollapseTargetUnfinished
  <1>5. CachedTaskStaysCompleted'
    BY <1>0 DEF RedisInv, RedisTypeOK, KeysOK, CachedTaskStaysCompleted
  <1> QED
    BY <1>1, <1>2, <1>3, <1>4, <1>5 DEF RedisInv

\* UpdateTaskCost touches the TTL of a missing hash only.
LEMMA CostKeepsRedisInv ==
  ASSUME RedisInv, NEW t \in Trace, UpdateTaskCost(t)
  PROVE  RedisInv'
  <1> USE DEF UpdateTaskCost, sentinels, caches
  <1>1. RedisTypeOK'
    BY DEF RedisInv, RedisTypeOK
  <1>2. \A u \in Trace : ttl[u] # 0 => ttl'[u] = ttl[u]
    BY DEF RedisInv, RedisTypeOK
  <1>3. KeysOK'
    BY <1>2 DEF RedisInv, RedisTypeOK, KeysOK
  <1>4. SentinelCovered'
    BY <1>2 DEF RedisInv, RedisTypeOK, KeysOK, SentinelCovered
  <1>5. CollapseTargetUnfinished' /\ CachedTaskStaysCompleted'
    BY DEF RedisInv, CollapseTargetUnfinished, CachedTaskStaysCompleted
  <1> QED
    BY <1>1, <1>3, <1>4, <1>5 DEF RedisInv

\* Tick: a task that covers a sentinel has at least as much time left.
LEMMA TickKeepsRedisInv ==
  ASSUME RedisInv, Tick
  PROVE  RedisInv'
  <1> USE DEF Tick, OneLess
  <1>1. RedisTypeOK'
    BY DEF RedisInv, RedisTypeOK
  <1>2. KeysOK'
    BY DEF RedisInv, RedisTypeOK, KeysOK
  <1>3. SentinelCovered'
    <2> SUFFICES ASSUME NEW j \in Key, sentinel'[j] # NoTrace
                 PROVE  \E u \in Trace : /\ key'[u] = j
                                         /\ status'[u] \in Live
                                         /\ sentinelTTL'[j] <= ttl'[u]
      BY DEF SentinelCovered
    <2>1. sentinel[j] # NoTrace /\ sentinelTTL[j] > 1
      BY DEF RedisInv, RedisTypeOK, KeysOK
    <2>2. PICK u \in Trace : key[u] = j /\ status[u] \in Live /\ sentinelTTL[j] <= ttl[u]
      BY <2>1 DEF RedisInv, SentinelCovered
    <2>3. ttl'[u] = ttl[u] - 1 /\ status'[u] = status[u] /\ sentinelTTL'[j] = sentinelTTL[j] - 1
      BY <2>1, <2>2 DEF RedisInv, RedisTypeOK
    <2> QED
      BY <2>1, <2>2, <2>3 DEF RedisInv, RedisTypeOK
  <1>4. CollapseTargetUnfinished'
    BY DEF RedisInv, RedisTypeOK, CollapseTargetUnfinished
  <1>5. CachedTaskStaysCompleted'
    BY DEF RedisInv, RedisTypeOK, CachedTaskStaysCompleted
  <1> QED
    BY <1>1, <1>2, <1>3, <1>4, <1>5 DEF RedisInv
-----------------------------------------------------------------------------
(* The database under every action.                                        *)

LEMMA NextKeepsRedisInv ==
  ASSUME RedisInv, [Next]_vars
  PROVE  RedisInv'
  <1> USE DEF redis
  <1>1. CASE UNCHANGED vars
    BY <1>1, RedisInvIdle DEF vars
  <1>2. ASSUME NEW t \in Trace, NEW k \in Key, PublishTask(t, k)
        PROVE  RedisInv'
    BY <1>2, PublishKeepsRedisInv DEF PublishTask
  <1>3. ASSUME NEW t \in Trace, UpdateTaskCost(t)
        PROVE  RedisInv'
    BY <1>3, CostKeepsRedisInv
  <1>4. ASSUME NEW t \in Trace, BroadcastTaskAnnouncement(t) \/ AbandonSetup(t)
        PROVE  RedisInv'
    BY <1>4, RedisInvIdle DEF BroadcastTaskAnnouncement, AbandonSetup
  <1>5. ASSUME NEW t \in Trace, RejectTask(t)
        PROVE  RedisInv'
    BY <1>5, RedisInvIdle, FailKeepsRedisInv DEF RejectTask
  <1>6. ASSUME NEW t \in Trace, NEW n \in Node, HandleFetchTask(t, n)
        PROVE  RedisInv'
    BY <1>6, RedisInvIdle, FetchKeepsRedisInv DEF HandleFetchTask
  <1>7. ASSUME NEW t \in Trace, NEW n \in Node, LoseClaim(t, n)
        PROVE  RedisInv'
    BY <1>7, RedisInvIdle DEF LoseClaim
  <1>8. ASSUME NEW t \in Trace, NEW n \in Node, CompleteTask(t, n)
        PROVE  RedisInv'
    BY <1>8, RedisInvIdle, CompleteKeepsRedisInv DEF CompleteTask
  <1>9. ASSUME NEW t \in Trace, NEW n \in Node, FailTask(t, n)
        PROVE  RedisInv'
    BY <1>9, RedisInvIdle, FailKeepsRedisInv DEF FailTask
  <1>10. CASE StartScan \/ CollectId \/ EndScan
    BY <1>10, RedisInvIdle DEF StartScan, CollectId, EndScan
  <1>11. ASSUME NEW t \in Trace, InspectTask(t) \/ DropEntry(t)
         PROVE  RedisInv'
    BY <1>11, RedisInvIdle DEF InspectTask, DropEntry
  <1>12. ASSUME NEW t \in Trace, ReclaimTask(t)
         PROVE  RedisInv'
    BY <1>12, RedisInvIdle, ReclaimKeepsRedisInv DEF ReclaimTask
  <1>13. CASE Tick
    BY <1>13, TickKeepsRedisInv
  <1>14. CASE ServerCrash
    BY <1>14, RedisInvIdle DEF ServerCrash
  <1> QED
    BY <1>1, <1>2, <1>3, <1>4, <1>5, <1>6, <1>7, <1>8, <1>9, <1>10, <1>11, <1>12,
       <1>13, <1>14 DEF Next, Watchdog

\* The Redis keys always satisfy their invariant, through every interleaving
\* of requests, nodes, scans, restarts and the passing of time.
THEOREM RedisInvariant == Spec => []RedisInv
  <1>1. Init => RedisInv
    BY RedisInvInit
  <1>2. RedisInv /\ [Next]_vars => RedisInv'
    BY NextKeepsRedisInv
  <1> QED
    BY <1>1, <1>2, PTL DEF Spec

\* Every sentinel has a live task of its key behind it that outlives it
\* (lua.go, "so it never outlives the task hash").
THEOREM SentinelIsCovered == Spec => []SentinelCovered
  <1>1. RedisInv => SentinelCovered
    BY DEF RedisInv
  <1> QED
    BY <1>1, RedisInvariant, PTL

\* No request collapses into a task that was already completed or failed.
THEOREM CollapseTargetIsUnfinished == Spec => []CollapseTargetUnfinished
  <1>1. RedisInv => CollapseTargetUnfinished
    BY DEF RedisInv
  <1> QED
    BY <1>1, RedisInvariant, PTL

\* A completion that filled the cache is final.
THEOREM CompletionIsFinal == Spec => []CachedTaskStaysCompleted
  <1>1. RedisInv => CachedTaskStaysCompleted
    BY DEF RedisInv
  <1> QED
    BY <1>1, RedisInvariant, PTL
-----------------------------------------------------------------------------
(* The setup of a created task against the TTL of its hash.                *)

SetupTypeOK ==
  /\ creator \in [Trace -> CreatorState]
  /\ ctxLeft \in [Trace -> Nat]
  /\ claim \in [Trace -> [Node -> ClaimState]]
  /\ \A t \in Trace : key[t] = NoKey => creator[t] = "none"

\* Nobody knows a task before it is broadcast.
NotYetOffered ==
  \A t \in Trace : creator[t] # "done" =>
    /\ status[t] \in {"NONE", "PENDING"}
    /\ \A n \in Node : claim[t][n] = "none"

\* While its request can still write the cost, the hash has what is left of
\* the context to live, and the difference of the two initial TTLs on top.
HashOutlivesSetup ==
  \A t \in Trace : creator[t] = "resolving" /\ ctxLeft[t] > 0 =>
    /\ status[t] = "PENDING"
    /\ ttl[t] >= ctxLeft[t] + (3 * LeaseTTL - WaitTimeout)

SetupInv == SetupTypeOK /\ NotYetOffered /\ HashOutlivesSetup /\ NoGhostTask

LEMMA SetupInvInit == Init => SetupInv
  BY DEF Init, SetupInv, SetupTypeOK, NotYetOffered, HashOutlivesSetup, NoGhostTask,
         CreatorState, ClaimState

LEMMA SetClaimType ==
  ASSUME SetupTypeOK, NEW t \in Trace, NEW n \in Node, NEW c \in ClaimState,
         SetClaim(t, n, c)
  PROVE  /\ claim' \in [Trace -> [Node -> ClaimState]]
         /\ \A u \in Trace \ {t} : claim'[u] = claim[u]
  BY DEF SetupTypeOK, SetClaim

\* What the handlers and the watchdog do is about one task whose setup is over.
LEMMA ServingKeepsSetupInv ==
  ASSUME SetupInv, NEW t \in Trace, creator[t] = "done",
         UNCHANGED <<key, request>>,
         claim' \in [Trace -> [Node -> ClaimState]],
         \A u \in Trace \ {t} : /\ status'[u] = status[u]
                                /\ ttl'[u] = ttl[u]
                                /\ claim'[u] = claim[u],
         status'[t] = "NONE" => ttl'[t] = 0
  PROVE  SetupInv'
  <1> USE DEF SetupInv, request
  <1>1. SetupTypeOK'
    BY DEF SetupTypeOK
  <1>2. NotYetOffered' /\ HashOutlivesSetup' /\ NoGhostTask'
    BY DEF NotYetOffered, HashOutlivesSetup, NoGhostTask
  <1> QED
    BY <1>1, <1>2

LEMMA NextKeepsSetupInv ==
  ASSUME RedisInv, SetupInv, [Next]_vars
  PROVE  SetupInv'
  <1> USE DEF redis, request, hash
  <1>0. RedisTypeOK /\ SetupTypeOK /\ NotYetOffered /\ HashOutlivesSetup /\ NoGhostTask
    BY DEF RedisInv, SetupInv
  <1>1. CASE UNCHANGED vars
    BY <1>0, <1>1 DEF vars, SetupInv, SetupTypeOK, NotYetOffered, HashOutlivesSetup, NoGhostTask
  <1>2. ASSUME NEW t \in Trace, NEW k \in Key, PublishTask(t, k)
        PROVE  SetupInv'
    <2> USE <1>0, <1>2 DEF PublishTask, LuaPublish, Leave, RedisTypeOK, SetupTypeOK
    <2>1. creator' \in [Trace -> CreatorState] /\ ctxLeft' \in [Trace -> Nat]
      <3>1. PICK c \in CreatorState, left \in Nat :
               creator' = [creator EXCEPT ![t] = c] /\ ctxLeft' = [ctxLeft EXCEPT ![t] = left]
        BY DEF CreatorState
      <3> QED
        BY <3>1
    <2>2. key'[t] # NoKey /\ \A u \in Trace \ {t} : key'[u] = key[u] /\ creator'[u] = creator[u]
      OBVIOUS
    <2>3. SetupTypeOK'
      BY <2>1, <2>2
    <2>4. NotYetOffered'
      BY DEF NotYetOffered, SetHash
    <2>5. HashOutlivesSetup' /\ NoGhostTask'
      BY DEF HashOutlivesSetup, NoGhostTask, SetHash
    <2> QED
      BY <2>3, <2>4, <2>5 DEF SetupInv
  <1>3. ASSUME NEW t \in Trace, UpdateTaskCost(t)
        PROVE  SetupInv'
    BY <1>0, <1>3 DEF UpdateTaskCost, SetupInv, SetupTypeOK, NotYetOffered, HashOutlivesSetup,
                      NoGhostTask, RedisTypeOK, CreatorState
  <1>4. ASSUME NEW t \in Trace, BroadcastTaskAnnouncement(t)
        PROVE  SetupInv'
    BY <1>0, <1>4 DEF BroadcastTaskAnnouncement, Leave, SetupInv, SetupTypeOK, NotYetOffered,
                      HashOutlivesSetup, NoGhostTask, CreatorState, ClaimState
  <1>5. ASSUME NEW t \in Trace, RejectTask(t)
        PROVE  SetupInv'
    <2>1. \A u \in Trace \ {t} : status'[u] = status[u] /\ ttl'[u] = ttl[u]
      BY <1>0, <1>5 DEF RejectTask, LuaFail, SetHash, RedisTypeOK
    <2>2. status'[t] = "NONE" => ttl'[t] = 0
      BY <1>0, <1>5 DEF RejectTask, LuaFail, SetHash, RedisTypeOK, NoGhostTask
    <2>3. Leave(t) /\ UNCHANGED <<key, claim>> /\ creator[t] # "none"
      BY <1>5 DEF RejectTask, LuaFail, InSetup
    <2>4. SetupTypeOK'
      BY <1>0, <2>3 DEF Leave, SetupTypeOK, CreatorState
    <2>5. /\ creator'[t] = "done"
          /\ \A u \in Trace \ {t} : creator'[u] = creator[u] /\ ctxLeft'[u] = ctxLeft[u]
      BY <1>0, <2>3 DEF Leave, SetupTypeOK
    <2>6. NotYetOffered'
      BY <1>0, <2>1, <2>3, <2>5 DEF NotYetOffered
    <2>7. HashOutlivesSetup'
      BY <1>0, <2>1, <2>5 DEF HashOutlivesSetup
    <2>8. NoGhostTask'
      BY <1>0, <2>1, <2>2 DEF NoGhostTask
    <2> QED
      BY <2>4, <2>6, <2>7, <2>8 DEF SetupInv
  <1>6. ASSUME NEW t \in Trace, AbandonSetup(t)
        PROVE  SetupInv'
    BY <1>0, <1>6 DEF AbandonSetup, Leave, InSetup, SetupInv, SetupTypeOK, NotYetOffered,
                      HashOutlivesSetup, NoGhostTask, CreatorState
  <1>7. ASSUME NEW t \in Trace, NEW n \in Node, claim[t][n] # "none"
        PROVE  creator[t] = "done"
    BY <1>0, <1>7 DEF NotYetOffered
  <1>8. ASSUME NEW t \in Trace, NEW n \in Node, HandleFetchTask(t, n)
        PROVE  SetupInv'
    BY <1>0, <1>7, <1>8, SetClaimType, ServingKeepsSetupInv
       DEF HandleFetchTask, LuaFetch, SetHash, ClaimState, RedisTypeOK, NoGhostTask
  <1>9. ASSUME NEW t \in Trace, NEW n \in Node, LoseClaim(t, n)
        PROVE  SetupInv'
    BY <1>0, <1>7, <1>9, SetClaimType, ServingKeepsSetupInv
       DEF LoseClaim, ClaimState, NoGhostTask
  <1>10. ASSUME NEW t \in Trace, NEW n \in Node, CompleteTask(t, n)
         PROVE  SetupInv'
    BY <1>0, <1>7, <1>10, SetClaimType, ServingKeepsSetupInv
       DEF CompleteTask, LuaComplete, SetHash, ClaimState, RedisTypeOK, NoGhostTask
  <1>11. ASSUME NEW t \in Trace, NEW n \in Node, FailTask(t, n)
         PROVE  SetupInv'
    BY <1>0, <1>7, <1>11, SetClaimType, ServingKeepsSetupInv
       DEF FailTask, LuaFail, SetHash, ClaimState, RedisTypeOK, NoGhostTask
  <1>12. CASE StartScan \/ CollectId \/ EndScan
    BY <1>0, <1>12 DEF StartScan, CollectId, EndScan, SetupInv, SetupTypeOK, NotYetOffered,
                       HashOutlivesSetup, NoGhostTask
  <1>13. ASSUME NEW t \in Trace, InspectTask(t) \/ DropEntry(t)
         PROVE  SetupInv'
    BY <1>0, <1>13 DEF InspectTask, DropEntry, SetupInv, SetupTypeOK, NotYetOffered,
                       HashOutlivesSetup, NoGhostTask
  <1>14. ASSUME NEW t \in Trace, ReclaimTask(t)
         PROVE  SetupInv'
    <2>1. CASE LuaReclaim(t)
      <3>1. creator[t] = "done"
        BY <1>0, <2>1 DEF LuaReclaim, NotYetOffered
      <3>2. UNCHANGED <<key, request, claim>> /\ status'[t] = "PENDING"
        BY <1>0, <1>14, <2>1 DEF ReclaimTask, LuaReclaim, SetHash, RedisTypeOK, request
      <3>3. \A u \in Trace \ {t} : status'[u] = status[u] /\ ttl'[u] = ttl[u]
        BY <1>0, <1>14, <2>1 DEF ReclaimTask, LuaReclaim, SetHash, RedisTypeOK, request
      <3> QED
        BY <3>1, <3>2, <3>3, ServingKeepsSetupInv DEF SetupInv, SetupTypeOK
    <2>2. CASE UNCHANGED redis
      BY <1>0, <1>14, <2>2 DEF ReclaimTask, redis, hash, request, SetupInv, SetupTypeOK,
                              NotYetOffered, HashOutlivesSetup, NoGhostTask
    <2> QED
      BY <1>14, <2>1, <2>2 DEF ReclaimTask
  <1>15. CASE Tick
    BY <1>0, <1>15 DEF Tick, OneLess, SetupInv, SetupTypeOK, NotYetOffered, HashOutlivesSetup,
                       NoGhostTask, RedisTypeOK
  <1>16. CASE ServerCrash
    BY <1>0, <1>16 DEF ServerCrash, InSetup, SetupInv, SetupTypeOK, NotYetOffered,
                       HashOutlivesSetup, NoGhostTask, CreatorState, ClaimState
  <1> QED
    BY <1>1, <1>2, <1>3, <1>4, <1>5, <1>6, <1>8, <1>9, <1>10, <1>11, <1>12,
       <1>13, <1>14, <1>15, <1>16 DEF Next, Watchdog

\* UpdateTaskCost never recreates an expired hash, as long as the context of
\* a request is shorter than the three leases a pending hash lives.
THEOREM SetupLeavesNoGhost == Spec => []NoGhostTask
  <1>1. Init => SetupInv
    BY SetupInvInit
  <1>2. RedisInv /\ SetupInv /\ [Next]_vars => SetupInv'
    BY NextKeepsSetupInv
  <1>3. SetupInv => NoGhostTask
    BY DEF SetupInv
  <1> QED
    BY <1>1, <1>2, <1>3, RedisInvariant, PTL DEF Spec
-----------------------------------------------------------------------------
(* The watchdog's stale read.                                              *)

\* Between the read and the reclaim the task may expire or be finished, but
\* it cannot become pending, so its lease cannot be renewed either.
ObservationInv ==
  wdPc = "reclaim" => \A t \in Trace : NextUp(t) =>
    /\ key[t] # NoKey
    /\ status[t] # "PENDING"
    /\ status[t] = "PROCESSING" => ttl[t] < ReclaimThreshold

LEMMA NextKeepsObservationInv ==
  ASSUME RedisInv, ObservationInv, [Next]_vars
  PROVE  ObservationInv'
  <1> USE DEF redis, hash, watchdog, NextUp, ReclaimThreshold
  <1>0. RedisTypeOK /\ KeysOK
    BY DEF RedisInv
  <1>1. CASE UNCHANGED vars
    BY <1>1 DEF vars, ObservationInv
  <1>2. ASSUME NEW t \in Trace, NEW k \in Key, PublishTask(t, k)
        PROVE  ObservationInv'
    BY <1>0, <1>2 DEF PublishTask, LuaPublish, SetHash, ObservationInv, RedisTypeOK
  <1>3. ASSUME NEW t \in Trace, UpdateTaskCost(t)
        PROVE  ObservationInv'
    BY <1>0, <1>3 DEF UpdateTaskCost, ObservationInv, RedisTypeOK, KeysOK
  <1>4. ASSUME NEW t \in Trace, BroadcastTaskAnnouncement(t) \/ AbandonSetup(t)
        PROVE  ObservationInv'
    BY <1>4 DEF BroadcastTaskAnnouncement, AbandonSetup, ObservationInv
  <1>5. ASSUME NEW t \in Trace, RejectTask(t)
        PROVE  ObservationInv'
    BY <1>0, <1>5 DEF RejectTask, LuaFail, SetHash, ObservationInv, RedisTypeOK
  <1>6. ASSUME NEW t \in Trace, NEW n \in Node, HandleFetchTask(t, n)
        PROVE  ObservationInv'
    BY <1>0, <1>6 DEF HandleFetchTask, LuaFetch, SetHash, ObservationInv, RedisTypeOK
  <1>7. ASSUME NEW t \in Trace, NEW n \in Node, LoseClaim(t, n)
        PROVE  ObservationInv'
    BY <1>7 DEF LoseClaim, ObservationInv
  <1>8. ASSUME NEW t \in Trace, NEW n \in Node, CompleteTask(t, n)
        PROVE  ObservationInv'
    BY <1>0, <1>8 DEF CompleteTask, LuaComplete, SetHash, ObservationInv, RedisTypeOK
  <1>9. ASSUME NEW t \in Trace, NEW n \in Node, FailTask(t, n)
        PROVE  ObservationInv'
    BY <1>0, <1>9 DEF FailTask, LuaFail, SetHash, ObservationInv, RedisTypeOK
  <1>10. CASE StartScan \/ CollectId \/ EndScan
    BY <1>10 DEF StartScan, CollectId, EndScan, ObservationInv
  <1>11. ASSUME NEW t \in Trace, InspectTask(t)
         PROVE  ObservationInv'
    BY <1>0, <1>11 DEF InspectTask, NextId, ObservationInv, RedisTypeOK, KeysOK
  <1>12. ASSUME NEW t \in Trace, DropEntry(t) \/ ReclaimTask(t)
         PROVE  ObservationInv'
    BY <1>12 DEF DropEntry, ReclaimTask, NextId, ObservationInv
  <1>13. CASE Tick
    BY <1>0, <1>13 DEF Tick, OneLess, ObservationInv, RedisTypeOK
  <1>14. CASE ServerCrash
    BY <1>14 DEF ServerCrash, ObservationInv
  <1> QED
    BY <1>1, <1>2, <1>3, <1>4, <1>5, <1>6, <1>7, <1>8, <1>9, <1>10, <1>11, <1>12,
       <1>13, <1>14 DEF Next, Watchdog

\* Only the watchdog's reclaim turns a claimed task into a pending one.
LEMMA StepTakesLowLease ==
  ASSUME RedisInv, ObservationInv, [Next]_vars, NEW t \in Trace,
         status[t] = "PROCESSING", status'[t] = "PENDING"
  PROVE  0 < ttl[t] /\ ttl[t] < ReclaimThreshold
  <1> USE DEF redis, hash
  <1>0. RedisTypeOK /\ KeysOK
    BY DEF RedisInv
  <1>1. PICK u \in Trace : ReclaimTask(u)
    <2>1. ~UNCHANGED status
      OBVIOUS
    <2>2. ASSUME NEW u \in Trace, NEW k \in Key, PublishTask(u, k)
          PROVE  FALSE
      BY <1>0, <2>2 DEF PublishTask, LuaPublish, SetHash, RedisTypeOK, KeysOK
    <2>3. ASSUME NEW u \in Trace,
                 UpdateTaskCost(u) \/ BroadcastTaskAnnouncement(u) \/ AbandonSetup(u)
          PROVE  FALSE
      BY <2>1, <2>3 DEF UpdateTaskCost, BroadcastTaskAnnouncement, AbandonSetup
    <2>4. ASSUME NEW u \in Trace, RejectTask(u)
          PROVE  FALSE
      BY <1>0, <2>1, <2>4 DEF RejectTask, LuaFail, SetHash, RedisTypeOK
    <2>5. ASSUME NEW u \in Trace, NEW n \in Node, HandleFetchTask(u, n) \/ LoseClaim(u, n)
          PROVE  FALSE
      BY <1>0, <2>1, <2>5 DEF HandleFetchTask, LoseClaim, LuaFetch, SetHash, RedisTypeOK
    <2>6. ASSUME NEW u \in Trace, NEW n \in Node, CompleteTask(u, n) \/ FailTask(u, n)
          PROVE  FALSE
      BY <1>0, <2>1, <2>6
         DEF CompleteTask, LuaComplete, FailTask, LuaFail, SetHash, RedisTypeOK
    <2>7. CASE StartScan \/ CollectId \/ EndScan \/ ServerCrash
      BY <2>1, <2>7 DEF StartScan, CollectId, EndScan, ServerCrash
    <2>8. ASSUME NEW u \in Trace, InspectTask(u) \/ DropEntry(u)
          PROVE  FALSE
      BY <2>1, <2>8 DEF InspectTask, DropEntry
    <2>9. CASE Tick
      BY <1>0, <2>9 DEF Tick, RedisTypeOK
    <2> QED
      BY <2>1, <2>2, <2>3, <2>4, <2>5, <2>6, <2>7, <2>8, <2>9 DEF Next, Watchdog, vars
  <1>2. t = u
    BY <1>0, <1>1 DEF ReclaimTask, LuaReclaim, SetHash, RedisTypeOK
  <1> QED
    BY <1>0, <1>1, <1>2 DEF ReclaimTask, ObservationInv, KeysOK

\* A reclaim acts on a lease that is still as low as the scan had read it.
THEOREM ReclaimIsNotStale == Spec => ReclaimTakesLowLease
  <1>1. Init => ObservationInv
    BY DEF Init, ObservationInv
  <1>2. RedisInv /\ ObservationInv /\ [Next]_vars => ObservationInv'
    BY NextKeepsObservationInv
  <1>3. RedisInv /\ ObservationInv /\ [Next]_vars =>
          [\A t \in Trace : status[t] = "PROCESSING" /\ status'[t] = "PENDING" =>
             0 < ttl[t] /\ ttl[t] < ReclaimThreshold]_vars
    BY StepTakesLowLease
  <1> QED
    BY <1>1, <1>2, <1>3, RedisInvariant, PTL DEF Spec, ReclaimTakesLowLease
-----------------------------------------------------------------------------
(* The scheduler implements the task lifecycle.                            *)

\* Outside the scripts nothing the lifecycle speaks of changes.
LEMMA RedisIdleIsStutter ==
  ASSUME UNCHANGED redis
  PROVE  UNCHANGED Lifecycle!vars
  BY DEF redis, hash, sentinels, caches, Lifecycle!vars

LEMMA PublishImplements ==
  ASSUME RedisInv, NEW t \in Trace, NEW k \in Key, key[t] = NoKey, LuaPublish(t, k)
  PROVE  Lifecycle!Publish(t, k)
  <1>1. owner[t] = NoNode /\ owner' = owner
    BY DEF RedisInv, RedisTypeOK, KeysOK, LuaPublish, SetHash
  <1> QED
    BY <1>1 DEF LuaPublish, SetHash, SetSentinel, caches, Lifecycle!Publish

LEMMA FetchImplements ==
  ASSUME NEW t \in Trace, NEW n \in Node, LuaFetch(t, n)
  PROVE  Lifecycle!Fetch(n, t)
  BY DEF LuaFetch, SetHash, ExpireSentinel, caches, Lifecycle!Fetch

LEMMA CompleteImplements ==
  ASSUME RedisInv, NEW t \in Trace, NEW n \in Node, LuaComplete(t, n)
  PROVE  Lifecycle!Complete(n, t)
  <1>1. owner' = owner
    BY DEF RedisInv, RedisTypeOK, LuaComplete, MayComplete, SetHash
  <1> QED
    BY <1>1 DEF LuaComplete, MayComplete, SetHash, DelSentinel, SetSentinel, Lifecycle!Complete

LEMMA FailImplements ==
  ASSUME RedisInv, NEW t \in Trace, NEW n \in Node, LuaFail(t, n, "FAIL")
  PROVE  Lifecycle!Fail(n, t)
  <1>1. owner' = owner
    BY DEF RedisInv, RedisTypeOK, LuaFail, SetHash
  <1> QED
    BY <1>1 DEF LuaFail, MayFinalize, SetHash, DelSentinel, SetSentinel, caches,
                Lifecycle!Fail, Lifecycle!MayFinalize

LEMMA RejectImplements ==
  ASSUME NEW t \in Trace, LuaFail(t, NoNode, "REJECT")
  PROVE  Lifecycle!Reject(t)
  BY DEF LuaFail, MayFinalize, SetHash, DelSentinel, SetSentinel, caches,
         Lifecycle!Reject, Lifecycle!MayFinalize

LEMMA ReclaimImplements ==
  ASSUME NEW t \in Trace, LuaReclaim(t)
  PROVE  Lifecycle!Reclaim(t)
  BY DEF LuaReclaim, SetHash, SetSentinel, caches, Lifecycle!Reclaim

\* A Tick drops the keys that had one unit left, and RedisInv holds after it.
LEMMA TickImplements ==
  ASSUME RedisInv, RedisInv', Tick
  PROVE  Lifecycle!Expire
  <1> DEFINE gone == {t \in Trace : ttl[t] = 1}
             unlocked == {k \in Key : sentinelTTL[k] = 1}
             evicted == {k \in Key : cacheTTL[k] = 1}
  <1>1. Lifecycle!Covered'
    BY DEF RedisInv, SentinelCovered, Lifecycle!Covered, Lifecycle!Live
  <1>2. /\ status' = [t \in Trace |-> IF t \in gone THEN "NONE" ELSE status[t]]
        /\ owner' = [t \in Trace |-> IF t \in gone THEN NoNode ELSE owner[t]]
        /\ sentinel' = [k \in Key |-> IF k \in unlocked THEN NoTrace ELSE sentinel[k]]
        /\ cache' = [k \in Key |-> IF k \in evicted THEN NoTrace ELSE cache[k]]
        /\ UNCHANGED key
    BY DEF Tick
  <1>3. gone \in SUBSET Trace /\ unlocked \in SUBSET Key /\ evicted \in SUBSET Key
    OBVIOUS
  <1> HIDE DEF gone, unlocked, evicted
  <1> QED
    BY <1>1, <1>2, <1>3 DEF Lifecycle!Expire

LEMMA StepImplements ==
  ASSUME RedisInv, [Next]_vars
  PROVE  [Lifecycle!Next]_(Lifecycle!vars)
  <1> USE DEF Lifecycle!Next
  <1>1. CASE UNCHANGED vars
    BY <1>1, RedisIdleIsStutter DEF vars
  <1>2. ASSUME NEW t \in Trace, NEW k \in Key, PublishTask(t, k)
        PROVE  Lifecycle!Next
    BY <1>2, PublishImplements DEF PublishTask
  <1>3. ASSUME NEW t \in Trace, UpdateTaskCost(t)
        PROVE  UNCHANGED Lifecycle!vars
    BY <1>3 DEF UpdateTaskCost, sentinels, caches, Lifecycle!vars
  <1>4. ASSUME NEW t \in Trace, BroadcastTaskAnnouncement(t) \/ AbandonSetup(t)
        PROVE  UNCHANGED Lifecycle!vars
    BY <1>4, RedisIdleIsStutter DEF BroadcastTaskAnnouncement, AbandonSetup
  <1>5. ASSUME NEW t \in Trace, RejectTask(t)
        PROVE  [Lifecycle!Next]_(Lifecycle!vars)
    BY <1>5, RejectImplements, RedisIdleIsStutter DEF RejectTask
  <1>6. ASSUME NEW t \in Trace, NEW n \in Node, HandleFetchTask(t, n)
        PROVE  [Lifecycle!Next]_(Lifecycle!vars)
    BY <1>6, FetchImplements, RedisIdleIsStutter DEF HandleFetchTask
  <1>7. ASSUME NEW t \in Trace, NEW n \in Node, LoseClaim(t, n)
        PROVE  UNCHANGED Lifecycle!vars
    BY <1>7, RedisIdleIsStutter DEF LoseClaim
  <1>8. ASSUME NEW t \in Trace, NEW n \in Node, CompleteTask(t, n)
        PROVE  [Lifecycle!Next]_(Lifecycle!vars)
    BY <1>8, CompleteImplements, RedisIdleIsStutter DEF CompleteTask
  <1>9. ASSUME NEW t \in Trace, NEW n \in Node, FailTask(t, n)
        PROVE  [Lifecycle!Next]_(Lifecycle!vars)
    BY <1>9, FailImplements, RedisIdleIsStutter DEF FailTask
  <1>10. CASE StartScan \/ CollectId \/ EndScan
    BY <1>10, RedisIdleIsStutter DEF StartScan, CollectId, EndScan
  <1>11. ASSUME NEW t \in Trace, InspectTask(t) \/ DropEntry(t)
         PROVE  UNCHANGED Lifecycle!vars
    BY <1>11 DEF InspectTask, DropEntry, redis, hash, sentinels, caches, Lifecycle!vars
  <1>12. ASSUME NEW t \in Trace, ReclaimTask(t)
         PROVE  [Lifecycle!Next]_(Lifecycle!vars)
    BY <1>12, ReclaimImplements, RedisIdleIsStutter DEF ReclaimTask
  <1>13. CASE Tick
    BY <1>13, TickKeepsRedisInv, TickImplements
  <1>14. CASE ServerCrash
    BY <1>14, RedisIdleIsStutter DEF ServerCrash
  <1> QED
    BY <1>1, <1>2, <1>3, <1>4, <1>5, <1>6, <1>7, <1>8, <1>9, <1>10, <1>11, <1>12,
       <1>13, <1>14 DEF Next, Watchdog

\* The Redis scheduler with its TTLs, queue, watchdog and failures implements
\* the untimed lifecycle that callers can rely on.
THEOREM SchedulerImplementsLifecycle == Spec => LifecycleSpec
  <1>1. Init => Lifecycle!Init
    BY DEF Init, Lifecycle!Init
  <1>2. RedisInv /\ [Next]_vars => [Lifecycle!Next]_(Lifecycle!vars)
    BY StepImplements
  <1> QED
    BY <1>1, <1>2, RedisInvariant, PTL DEF Spec, LifecycleSpec, Lifecycle!Spec
=============================================================================
