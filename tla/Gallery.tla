------------------------------ MODULE Gallery ------------------------------
(***************************************************************************)
(* Parse requests of one user: GalleryService.ParseGallery over the task   *)
(* lifecycle, the ResultWaiter that turns a node's result into the HTTP    *)
(* response, and the GP that a created task reserves.  Every request is a  *)
(* goroutine; a request draws a trace id and keeps it if it creates the    *)
(* task, so requests are named by their traces.                            *)
(*                                                                         *)
(* The scheduler is its abstract specification TaskLifecycle, so there is  *)
(* no time here: a lease, a sentinel or a context may end at any moment.   *)
(* A balance operation reads the account in one step and writes the whole  *)
(* row back in another, with no lock between the two; Balance.tla has its  *)
(* statements one by one.                                                  *)
(***************************************************************************)
EXTENDS Tasks

CONSTANTS
  EstimatedGP,   \* the price of a task
  StartGP,       \* the user's balance at the start
  Reach,         \* the sets of nodes that an announcement may reach
  ContextEnds,   \* TRUE: the context of a request may end before its work
  MaxFaults,     \* bound of the model: how many balance operations report an
                 \* error with time left, and restarts of the server, together
  MaxOffers      \* bound of the model: how many announcements of a task to a node
                 \* are open at a time

ASSUME GalleryAssumption ==
  /\ EstimatedGP \in Nat \ {0} /\ StartGP \in Nat
  /\ Reach \subseteq SUBSET Node \ {{}}
  /\ ContextEnds \in BOOLEAN
  /\ MaxFaults \in Nat /\ MaxOffers \in Nat

VARIABLES
  status, owner, key, sentinel, cache,  \* the scheduler, see TaskLifecycle
  work,      \* work[t][n]: what node n and its connection do about t
  pc,        \* pc[r]: where request r is
  actual,    \* actual[r]: the trace r waits for; r itself if it created the task
  ctxOver,   \* ctxOver[r]: the context of r has reached its deadline
  owes,      \* owes[r]: r will release the reservation of its task
  reply,     \* reply[r]: what r answers
  waiters,   \* waiters[t]: the requests whose channel is registered for t
  inbox,     \* inbox[r]: the buffered channel of r
  balance,   \* the account: Balance, including what is reserved
  frozen,    \* the account: Frozen
  ledger,    \* ledger[t]: types of the transactions recorded for t
  memo,      \* memo[r]: the row that the open transaction of r has read; {} if none
  overwritten, \* some transaction has written over a row that changed after it was read
  dbFaults,  \* errors of balance operations so far
  crashes    \* restarts so far

scheduler == <<status, owner, key, sentinel, cache>>
books == <<balance, frozen, ledger, overwritten>>
account == <<books, memo>>
mailbox == <<waiters, inbox>>
locals == <<pc, actual, owes, reply>>
faults == <<dbFaults, crashes>>
vars == <<scheduler, work, locals, ctxOver, mailbox, account, faults>>

Life == INSTANCE TaskLifecycle

PC == {"idle", "published", "collapsed", "resolving", "frozen", "rejecting",
       "notifying", "waiting", "settling", "refunding", "done"}
InProgress == PC \ {"idle", "done"}

\* "refused": CompleteTask failed and FailTask is next; "ok", "bad": the
\* scripts are done and the waiters are still to be notified.
Work == {"none", "offered", "working", "refused", "ok", "bad"}

Init ==
  /\ Life!Init
  /\ work = [t \in Trace |-> [n \in Node |-> "none"]]
  /\ pc = [r \in Trace |-> "idle"]
  /\ actual = [r \in Trace |-> NoTrace]
  /\ ctxOver = [r \in Trace |-> FALSE]
  /\ owes = [r \in Trace |-> FALSE]
  /\ reply = [r \in Trace |-> "none"]
  /\ waiters = [t \in Trace |-> {}]
  /\ inbox = [r \in Trace |-> "none"]
  /\ balance = StartGP /\ frozen = 0
  /\ ledger = [t \in Trace |-> {}]
  /\ memo = [r \in Trace |-> {}]
  /\ overwritten = FALSE
  /\ dbFaults = 0 /\ crashes = 0

-----------------------------------------------------------------------------
(* ResultWaiter.                                                           *)

\* A mutant of Notify: the channels stay registered.
NotifyKeepsWaiters(t, result) ==
  /\ UNCHANGED waiters
  /\ inbox' = [r \in Trace |-> IF r \in waiters[t] /\ inbox[r] = "none"
                               THEN result ELSE inbox[r]]

\* Removes the channels of t and sends to each without blocking.
Notify(t, result) ==
  /\ waiters' = [waiters EXCEPT ![t] = {}]
  /\ inbox' = [r \in Trace |-> IF r \in waiters[t] /\ inbox[r] = "none"
                               THEN result ELSE inbox[r]]

-----------------------------------------------------------------------------
(* The balance service.                                                    *)

Row == [balance |-> balance, frozen |-> frozen]

\* The row is written whole, over whatever is there by now.
Save(r, row) ==
  /\ balance' = row.balance
  /\ frozen' = row.frozen
  /\ overwritten' = (overwritten \/ memo[r] # {Row})

Record(t, types) == ledger' = [ledger EXCEPT ![t] = @ \cup types]

Available(row) == row.balance - row.frozen

\* A mutant of FreezeGP: what is reserved counts as available.
FreezeGPOfBalance(r) ==
  \E row \in memo[r] :
    /\ row.balance >= EstimatedGP
    /\ Save(r, [row EXCEPT !.frozen = @ + EstimatedGP])
    /\ Record(r, {"FREEZE"})

FreezeGP(r) ==
  \E row \in memo[r] :
    /\ Available(row) >= EstimatedGP
    /\ Save(r, [row EXCEPT !.frozen = @ + EstimatedGP])
    /\ Record(r, {"FREEZE"})

\* A mutant of Unfreeze: no clamp.
UnfreezeUnclamped(row) == row.frozen - EstimatedGP

\* Frozen is clamped at zero.
Unfreeze(row) == IF row.frozen < EstimatedGP THEN 0 ELSE row.frozen - EstimatedGP

SettleTask(r) ==
  \E row \in memo[r] :
    /\ Save(r, [balance |-> row.balance - EstimatedGP, frozen |-> Unfreeze(row)])
    /\ Record(r, {"UNFREEZE", "DEDUCT"})

RefundTask(r) ==
  \E row \in memo[r] :
    /\ Save(r, [row EXCEPT !.frozen = Unfreeze(row)])
    /\ Record(r, {"REFUND"})

\* An operation reports an error: its context is over, or the database failed.
DbError(r) ==
  IF ctxOver[r] THEN UNCHANGED dbFaults
                ELSE dbFaults + crashes < MaxFaults /\ dbFaults' = dbFaults + 1

CommitOrRollBack(r, settle) ==
  \/ /\ ~ctxOver[r] /\ UNCHANGED dbFaults
     /\ IF settle THEN SettleTask(r) ELSE RefundTask(r)
  \/ DbError(r) /\ UNCHANGED books

EndTransaction(r) == memo' = [memo EXCEPT ![r] = {}]

-----------------------------------------------------------------------------
(* The request.                                                            *)

Goto(r, p) == pc' = [pc EXCEPT ![r] = p]

\* The deferred Unregister runs when the request returns, and nobody will read
\* its channel any more.
Return(r) ==
  /\ Goto(r, "done")
  /\ waiters' = [t \in Trace |-> waiters[t] \ {r}]
  /\ inbox' = [inbox EXCEPT ![r] = "none"]

\* A mutant of Refunds: collapsed requests refund too.
RefundsAll(r) == TRUE

\* Only the request that created the task refunds, and only what may be frozen.
Refunds(r) == owes[r]

\* The request has failed.
Leave(r) ==
  \/ /\ Refunds(r) /\ Goto(r, "refunding")
     /\ inbox' = [inbox EXCEPT ![r] = "none"]
     /\ UNCHANGED waiters
  \/ ~Refunds(r) /\ Return(r)

PublishTask(r, k, force) ==
  /\ pc[r] = "idle"
  /\ \/ /\ ~force /\ cache[k] # NoTrace
        /\ Goto(r, "done")
        /\ reply' = [reply EXCEPT ![r] = "url"]
        /\ UNCHANGED <<scheduler, actual, owes>>
     \/ /\ force \/ cache[k] = NoTrace
        /\ sentinel[k] # NoTrace
        /\ Goto(r, "collapsed")
        /\ actual' = [actual EXCEPT ![r] = sentinel[k]]
        /\ UNCHANGED <<scheduler, reply, owes>>
     \/ /\ force \/ cache[k] = NoTrace
        /\ Life!Publish(r, k)
        /\ Goto(r, "published")
        /\ actual' = [actual EXCEPT ![r] = r]
        /\ UNCHANGED <<reply, owes>>
  /\ UNCHANGED <<work, ctxOver, mailbox, account, faults>>

Register(r) ==
  /\ pc[r] \in {"published", "collapsed"}
  /\ Goto(r, IF pc[r] = "published" THEN "resolving" ELSE "waiting")
  /\ waiters' = [waiters EXCEPT ![actual[r]] = @ \cup {r}]
  /\ UNCHANGED <<scheduler, work, actual, owes, reply, ctxOver, inbox, account, faults>>

\* A mutant of GiveUp: nothing is ever refunded.
GiveUpNoRefund(r, refund) ==
  /\ Goto(r, "rejecting")
  /\ owes' = [owes EXCEPT ![r] = FALSE]

\* A setup step failed: reject, notify, and refund if anything may be frozen.
GiveUp(r, refund) ==
  /\ Goto(r, "rejecting")
  /\ owes' = [owes EXCEPT ![r] = refund]

ResolveFails(r) ==
  /\ pc[r] = "resolving" /\ memo[r] = {}
  /\ GiveUp(r, FALSE)
  /\ UNCHANGED <<scheduler, work, actual, reply, ctxOver, mailbox, account, faults>>

\* The SELECT of FreezeGP, of SettleTask and of RefundTask.
ReadAccount(r) ==
  /\ pc[r] \in {"resolving", "settling", "refunding"}
  /\ ~ctxOver[r] /\ memo[r] = {}
  /\ memo' = [memo EXCEPT ![r] = {Row}]
  /\ UNCHANGED <<scheduler, work, locals, ctxOver, mailbox, books, faults>>

\* The price is known; freeze it.  An error other than too little balance
\* leads to a refund, whether or not the freeze was committed.
Freeze(r) ==
  /\ pc[r] = "resolving"
  /\ \/ /\ ~ctxOver[r] /\ FreezeGP(r)
        /\ Goto(r, "frozen")
        /\ owes' = [owes EXCEPT ![r] = TRUE]
        /\ UNCHANGED dbFaults
     \/ /\ ~ctxOver[r] /\ \E row \in memo[r] : Available(row) < EstimatedGP
        /\ GiveUp(r, FALSE)
        /\ UNCHANGED <<books, dbFaults>>
     \/ /\ DbError(r)
        /\ GiveUp(r, TRUE)
        /\ FreezeGP(r) \/ UNCHANGED books
  /\ EndTransaction(r)
  /\ UNCHANGED <<scheduler, work, actual, reply, ctxOver, mailbox, crashes>>

OpenOffers == Cardinality({offer \in Trace \X Node : work[offer[1]][offer[2]] # "none"})

\* UpdateTaskCost and the broadcast, to the nodes that are connected.
Announce(r) ==
  /\ pc[r] = "frozen" /\ ~ctxOver[r]
  /\ \E told \in Reach :
       /\ OpenOffers + Cardinality(told) <= MaxOffers
       /\ work' = [work EXCEPT ![r] = [n \in Node |-> IF n \in told THEN "offered" ELSE "none"]]
  /\ Goto(r, "waiting")
  /\ UNCHANGED <<scheduler, actual, owes, reply, ctxOver, mailbox, account, faults>>

AnnounceFails(r) ==
  /\ pc[r] = "frozen"
  /\ GiveUp(r, TRUE)
  /\ UNCHANGED <<scheduler, work, actual, reply, ctxOver, mailbox, account, faults>>

RejectTask(r) ==
  /\ pc[r] = "rejecting"
  /\ \/ ~ctxOver[r] /\ Life!Reject(r)
     \/ (ctxOver[r] \/ ~Life!MayFinalize(r, NoNode)) /\ UNCHANGED scheduler
  /\ Goto(r, "notifying")
  /\ UNCHANGED <<work, actual, owes, reply, ctxOver, mailbox, account, faults>>

NotifyRejected(r) ==
  /\ pc[r] = "notifying"
  /\ Notify(r, "failure")
  /\ Goto(r, IF Refunds(r) THEN "refunding" ELSE "done")
  /\ reply' = [reply EXCEPT ![r] = "error"]
  /\ UNCHANGED <<scheduler, work, actual, owes, ctxOver, account, faults>>

ReceiveResult(r) ==
  /\ pc[r] = "waiting" /\ inbox[r] # "none"
  /\ reply' = [reply EXCEPT ![r] = IF inbox[r] = "success" THEN "url" ELSE "error"]
  /\ IF actual[r] = r /\ inbox[r] = "success"
     THEN /\ Goto(r, "settling")
          /\ inbox' = [inbox EXCEPT ![r] = "none"]
          /\ UNCHANGED waiters
     ELSE Leave(r)
  /\ UNCHANGED <<scheduler, work, actual, owes, ctxOver, account, faults>>

\* A mutant of TimeOut: only the creator's wait is bounded.
TimeOutCreator(r) ==
  /\ pc[r] = "waiting" /\ ctxOver[r] /\ actual[r] = r
  /\ reply' = [reply EXCEPT ![r] = "error"]
  /\ Leave(r)
  /\ UNCHANGED <<scheduler, work, actual, owes, ctxOver, account, faults>>

\* The context has the same deadline as the wait, and started first.
TimeOut(r) ==
  /\ pc[r] = "waiting" /\ ctxOver[r]
  /\ reply' = [reply EXCEPT ![r] = "error"]
  /\ Leave(r)
  /\ UNCHANGED <<scheduler, work, actual, owes, ctxOver, account, faults>>

Settle(r) ==
  /\ pc[r] = "settling"
  /\ CommitOrRollBack(r, TRUE)
  /\ EndTransaction(r)
  /\ Return(r)
  /\ UNCHANGED <<scheduler, work, actual, owes, reply, ctxOver, crashes>>

Refund(r) ==
  /\ pc[r] = "refunding"
  /\ CommitOrRollBack(r, FALSE)
  /\ EndTransaction(r)
  /\ Return(r)
  /\ UNCHANGED <<scheduler, work, actual, owes, reply, ctxOver, crashes>>

EndContext(r) ==
  /\ ContextEnds /\ pc[r] \in InProgress /\ ~ctxOver[r]
  /\ ctxOver' = [ctxOver EXCEPT ![r] = TRUE]
  /\ UNCHANGED <<scheduler, work, locals, mailbox, account, faults>>

-----------------------------------------------------------------------------
(* The nodes, through the hub's message handlers.  A node that dies, or     *)
(* whose connection loses an announcement or an answer, takes no more       *)
(* steps about the task: no step of a node is fair.                         *)

SetWork(t, n, w) == work' = [work EXCEPT ![t][n] = w]

HandleFetchTask(t, n) ==
  /\ work[t][n] = "offered"
  /\ \/ Life!Fetch(n, t) /\ SetWork(t, n, "working")
     \/ status[t] # "PENDING" /\ SetWork(t, n, "none") /\ UNCHANGED scheduler
  /\ UNCHANGED <<locals, ctxOver, mailbox, account, faults>>

\* A mutant of HandleSuccess: the error of CompleteTask is ignored.
HandleSuccessAnyway(t, n) ==
  /\ work[t][n] = "working"
  /\ \/ Life!Complete(n, t)
     \/ ~(status[t] = "PROCESSING" /\ owner[t] = n) /\ UNCHANGED scheduler
  /\ SetWork(t, n, "ok")
  /\ UNCHANGED <<locals, ctxOver, mailbox, account, faults>>

HandleSuccess(t, n) ==
  /\ work[t][n] = "working"
  /\ \/ Life!Complete(n, t) /\ SetWork(t, n, "ok")
     \/ /\ ~(status[t] = "PROCESSING" /\ owner[t] = n)
        /\ SetWork(t, n, "refused")
        /\ UNCHANGED scheduler
  /\ UNCHANGED <<locals, ctxOver, mailbox, account, faults>>

\* A reported failure, or FailTask after a refused completion.
HandleFailure(t, n) ==
  /\ work[t][n] \in {"working", "refused"}
  /\ \/ Life!Fail(n, t)
     \/ ~Life!MayFinalize(t, n) /\ UNCHANGED scheduler
  /\ SetWork(t, n, "bad")
  /\ UNCHANGED <<locals, ctxOver, mailbox, account, faults>>

\* The waiters hear of every result, also of one the scripts refused.
NotifyResult(t, n) ==
  /\ work[t][n] \in {"ok", "bad"}
  /\ Notify(t, IF work[t][n] = "ok" THEN "success" ELSE "failure")
  /\ SetWork(t, n, "none")
  /\ UNCHANGED <<scheduler, locals, ctxOver, account, faults>>

\* The watchdog, and the TTLs.
Recover ==
  /\ (\E t \in Trace : Life!Reclaim(t)) \/ Life!Expire
  /\ UNCHANGED <<work, locals, ctxOver, mailbox, account, faults>>

\* The goroutines of the requests and of the connections are gone.
ServerCrash ==
  /\ dbFaults + crashes < MaxFaults
  /\ crashes' = crashes + 1
  /\ LET Forget(f, value) == [r \in Trace |-> IF pc[r] \in InProgress THEN value ELSE f[r]]
     IN /\ pc' = Forget(pc, "done")
        /\ actual' = Forget(actual, NoTrace)
        /\ owes' = Forget(owes, FALSE)
        /\ reply' = Forget(reply, "none")
        /\ ctxOver' = Forget(ctxOver, FALSE)
  /\ waiters' = [t \in Trace |-> {}]
  /\ inbox' = [r \in Trace |-> "none"]
  /\ work' = [t \in Trace |-> [n \in Node |->
                IF work[t][n] \in {"offered", "working"} THEN work[t][n] ELSE "none"]]
  /\ memo' = [r \in Trace |-> {}]
  /\ UNCHANGED <<scheduler, books, dbFaults>>

\* What the goroutine of a request does by itself.
Proceed(r) ==
  \/ Register(r) \/ ResolveFails(r) \/ ReadAccount(r) \/ Freeze(r)
  \/ Announce(r) \/ AnnounceFails(r) \/ RejectTask(r) \/ NotifyRejected(r)
  \/ ReceiveResult(r) \/ TimeOut(r) \/ Settle(r) \/ Refund(r)

Next ==
  \/ \E r \in Trace, k \in Key, force \in BOOLEAN : PublishTask(r, k, force)
  \/ \E r \in Trace : Proceed(r) \/ EndContext(r)
  \/ \E t \in Trace, n \in Node : \/ HandleFetchTask(t, n) \/ HandleSuccess(t, n)
                                  \/ HandleFailure(t, n) \/ NotifyResult(t, n)
  \/ Recover
  \/ ServerCrash

Spec == Init /\ [][Next]_vars

-----------------------------------------------------------------------------
(* Properties.                                                             *)

\* Every variable has its type.
TypeOK ==
  /\ status \in [Trace -> Status]
  /\ owner \in [Trace -> Node \cup {NoNode}]
  /\ key \in [Trace -> Key \cup {NoKey}]
  /\ sentinel \in [Key -> Trace \cup {NoTrace}]
  /\ cache \in [Key -> Trace \cup {NoTrace}]
  /\ work \in [Trace -> [Node -> Work]]
  /\ pc \in [Trace -> PC]
  /\ actual \in [Trace -> Trace \cup {NoTrace}]
  /\ ctxOver \in [Trace -> BOOLEAN]
  /\ owes \in [Trace -> BOOLEAN]
  /\ reply \in [Trace -> {"none", "url", "error"}]
  /\ waiters \in [Trace -> SUBSET Trace]
  /\ inbox \in [Trace -> {"none", "success", "failure"}]
  /\ balance \in Int /\ frozen \in Nat
  /\ ledger \in [Trace -> SUBSET {"FREEZE", "UNFREEZE", "DEDUCT", "REFUND"}]
  /\ memo \in [Trace -> SUBSET [balance : Int, frozen : Nat]]
  /\ overwritten \in BOOLEAN
  /\ dbFaults \in Nat /\ crashes \in Nat

\* The reservation of t was made and neither spent nor given back.
Reserved(t) == "FREEZE" \in ledger[t] /\ ledger[t] \cap {"DEDUCT", "REFUND"} = {}

Count(S) == Cardinality(S)

\* No interleaving of requests refunds twice, or settles and refunds.  However
\* their transactions overlap, the user never pays more than once for each
\* settled task.  Until one of them writes over a row that another has changed
\* since it was read, the account says what the ledger says: exactly the
\* settled tasks are paid, and GP is frozen for the tasks that were frozen and
\* neither settled nor refunded.  (A freeze that fails in the database is
\* refunded all the same, out of what another task has reserved.)
AccountMatchesLedger ==
  LET paid == EstimatedGP * Count({t \in Trace : "DEDUCT" \in ledger[t]})
      reserved == EstimatedGP * Count({t \in Trace : Reserved(t)})
  IN /\ balance >= StartGP - paid
     /\ ~overwritten => balance = StartGP - paid
     /\ ~overwritten /\ dbFaults = 0 => frozen = reserved

\* The user never spends GP that is not there, however requests share the
\* account one transaction after the other.  Not so once two transactions
\* have overlapped, which may both have frozen the same GP, nor after a freeze
\* has failed in the database: its refund releases what another task has
\* reserved, which a third request may then spend.
NeverOverdrawn ==
  ~overwritten /\ dbFaults = 0 => 0 <= frozen /\ frozen <= balance

\* The user pays only for a task that a node has completed, and that stays so:
\* whatever other nodes report on it, late or refused.
PaidOnlyIfCompleted ==
  \A t \in Trace : "DEDUCT" \in ledger[t] => status[t] \in {"COMPLETED", "NONE"}

\* A request answers with a URL only if its task was completed, collapsed or
\* not.
SuccessIsTrue ==
  \A r \in Trace : inbox[r] = "success" \/ (reply[r] = "url" /\ actual[r] # NoTrace) =>
    status[actual[r]] \in {"COMPLETED", "NONE"}

\* The non-blocking send of Notify never finds a full buffer, so that no
\* result is dropped: a registered channel is empty.
NotifyNeverDrops ==
  \A t \in Trace : \A r \in waiters[t] :
    /\ inbox[r] = "none"
    /\ actual[r] = t
    /\ pc[r] \in InProgress

\* A request that ends in time, without a fault, has settled or returned what it
\* reserved, on whichever of its paths it ends.
ReservationClosed ==
  crashes = 0 /\ dbFaults = 0 =>
    \A r \in Trace : pc[r] = "done" /\ ~ctxOver[r] => ~Reserved(r)

\* A request is answered at last, if its context ends some day: as requests go
\* through their places once, at some time all that have begun have returned.
\* It is enough that one of the steps that requests can take is taken.
Fairness == WF_vars(\E r \in Trace : Proceed(r) \/ EndContext(r))
FairSpec == Spec /\ Fairness
EveryRequestReturns == []<>(\A r \in Trace : pc[r] \notin InProgress)

-----------------------------------------------------------------------------
(* What a comment says and the code does not do.                           *)

\* "Frozen: GP reserved by in-flight tasks": when a request is over, nothing
\* is reserved for it any more.  The refund of a request that timed out runs
\* under the context that timed out, and fails.
FrozenOnlyInFlight ==
  \A r \in Trace : pc[r] = "done" => ~Reserved(r)
=============================================================================
