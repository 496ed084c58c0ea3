--------------------------- MODULE TaskLifecycle ---------------------------
(***************************************************************************)
(* What the scheduler promises its callers, without time, queue, watchdog  *)
(* or messages: the life of a task hash, the collapsing sentinel and the   *)
(* per-user cache of one Redis database.  Each action is the effect of one *)
(* Lua script that succeeds; a script that refuses changes nothing and is  *)
(* a stuttering step.  Scheduler.tla implements this specification.        *)
(***************************************************************************)
EXTENDS Tasks

VARIABLES
  status,    \* status[t]: field "status" of task:{t}
  owner,     \* owner[t]: field "node_id"
  key,       \* key[t]: the (user, gallery) t was published for, kept for ever
  sentinel,  \* sentinel[k]: value of inflight:{U}:{G}
  cache      \* cache[k]: the task whose URL is in cache:{U}:{G}

vars == <<status, owner, key, sentinel, cache>>

Init ==
  /\ status = [t \in Trace |-> "NONE"]
  /\ owner = [t \in Trace |-> NoNode]
  /\ key = [t \in Trace |-> NoKey]
  /\ sentinel = [k \in Key |-> NoTrace]
  /\ cache = [k \in Key |-> NoTrace]

\* A sentinel never stands alone: some live task of its key is behind it.
Covered ==
  \A k \in Key : sentinel[k] # NoTrace =>
    \E u \in Trace : key[u] = k /\ status[u] \in Live

\* Scripts that a node's message may finish t with: a pending task by anybody,
\* a claimed one only by its owner.
MayFinalize(t, n) ==
  \/ status[t] = "PENDING"
  \/ status[t] = "PROCESSING" /\ owner[t] = n

Publish(t, k) ==
  /\ key[t] = NoKey
  /\ sentinel[k] = NoTrace
  /\ key' = [key EXCEPT ![t] = k]
  /\ status' = [status EXCEPT ![t] = "PENDING"]
  /\ sentinel' = [sentinel EXCEPT ![k] = t]
  /\ UNCHANGED <<owner, cache>>

Fetch(n, t) ==
  /\ status[t] = "PENDING"
  /\ status' = [status EXCEPT ![t] = "PROCESSING"]
  /\ owner' = [owner EXCEPT ![t] = n]
  /\ UNCHANGED <<key, sentinel, cache>>

Complete(n, t) ==
  /\ status[t] = "PROCESSING" /\ owner[t] = n
  /\ status' = [status EXCEPT ![t] = "COMPLETED"]
  /\ cache' = [cache EXCEPT ![key[t]] = t]
  /\ sentinel' = [sentinel EXCEPT ![key[t]] = NoTrace]
  /\ UNCHANGED <<owner, key>>

Fail(n, t) ==
  /\ MayFinalize(t, n)
  /\ status' = [status EXCEPT ![t] = "FAILED"]
  /\ sentinel' = [sentinel EXCEPT ![key[t]] = NoTrace]
  /\ UNCHANGED <<owner, key, cache>>

Reject(t) ==
  /\ MayFinalize(t, NoNode)
  /\ status' = [status EXCEPT ![t] = "NONE"]
  /\ owner' = [owner EXCEPT ![t] = NoNode]
  /\ sentinel' = [sentinel EXCEPT ![key[t]] = NoTrace]
  /\ UNCHANGED <<key, cache>>

Reclaim(t) ==
  /\ status[t] = "PROCESSING"
  /\ status' = [status EXCEPT ![t] = "PENDING"]
  /\ owner' = [owner EXCEPT ![t] = NoNode]
  /\ sentinel' = [sentinel EXCEPT ![key[t]] = t]
  /\ UNCHANGED <<key, cache>>

\* Redis drops any set of keys at once, but never leaves a sentinel uncovered.
Expire ==
  \E gone \in SUBSET Trace, unlocked \in SUBSET Key, evicted \in SUBSET Key :
    /\ status' = [t \in Trace |-> IF t \in gone THEN "NONE" ELSE status[t]]
    /\ owner' = [t \in Trace |-> IF t \in gone THEN NoNode ELSE owner[t]]
    /\ sentinel' = [k \in Key |-> IF k \in unlocked THEN NoTrace ELSE sentinel[k]]
    /\ cache' = [k \in Key |-> IF k \in evicted THEN NoTrace ELSE cache[k]]
    /\ UNCHANGED key
    /\ Covered'

Next ==
  \/ \E t \in Trace, k \in Key : Publish(t, k)
  \/ \E n \in Node, t \in Trace : Fetch(n, t) \/ Complete(n, t) \/ Fail(n, t)
  \/ \E t \in Trace : Reject(t) \/ Reclaim(t)
  \/ Expire

Spec == Init /\ [][Next]_vars
=============================================================================
