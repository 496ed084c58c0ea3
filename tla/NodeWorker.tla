----------------------------- MODULE NodeWorker -----------------------------
(***************************************************************************)
(* What a worker node does about the messages it gets: which tasks it      *)
(* claims, the queue its workers serve, buying an archive at E-Hentai and  *)
(* keeping count of the GP, and its shutdown.  Of the connection           *)
(* (NodeClient.tla) only the effect is here, that it may lose any message. *)
(* The server assigns a task that was asked for, or says that it is gone.  *)
(*                                                                         *)
(* Waiting before a claim only delays it; time is not modelled.  Nor is    *)
(* the node's haveFreeQuota: it may have either value at any announcement. *)
(***************************************************************************)
EXTENDS Integers, Sequences

CONSTANTS
  Task,          \* the tasks the server announces, each once
  FreeTier,      \* those that E-Hentai may give away, within its free quota
  Worker,        \* WorkerCount goroutines
  Poller,        \* who else refreshes: start, ticker, dashboard
  NoTask,
  TaskQueueSize,
  MaxGPCost,     \* the GP a day may cost, NoLimit for any amount
  GPReserve,
  EstimatedGP,   \* the price the server announces
  Price,         \* the price on E-Hentai's page
  StartGP,       \* the GP of the node's account at E-Hentai
  MaxUpsets      \* bound of the model: how many starts, lost answers and
                 \* unread pages there are in all

NoLimit == -1

ASSUME NodeWorkerAssumption ==
  /\ FreeTier \subseteq Task /\ NoTask \notin Task
  /\ Worker \cap Poller = {}
  /\ TaskQueueSize \in Nat
  /\ MaxGPCost \in Nat \cup {NoLimit}
  /\ GPReserve \in Nat /\ EstimatedGP \in Nat /\ Price \in Nat /\ StartGP \in Nat
  /\ MaxUpsets \in Nat

VARIABLES
  main,          \* "down", "running", "cancelled" (the context), "closed" (the queue)
  stage,         \* stage[t]: what has become of t
  taskQueue,
  phase,         \* phase[p]: where a worker or poller is
  job,           \* job[w]: the task of w
  actualGP,      \* actualGP[w]: what the gallery's page says it costs
  page,          \* page[p]: the GP that p has read from E-Hentai's page
  gpBalance, todayGPCost,  \* the client's fields
  remoteGP,      \* the GP left at E-Hentai
  spent,         \* what E-Hentai has charged since todayGPCost was last set to 0
  unseen,        \* of that, the node was not told some
  missed,        \* the refresh after a task failed, and none succeeded since
  onCredit,      \* a task was claimed that the balance known need not cover
  upsets

work == <<phase, job, actualGP, page>>
known == <<gpBalance, todayGPCost>>
account == <<spent, unseen>>
history == <<missed, onCredit>>
vars == <<main, stage, taskQueue, work, known, remoteGP, account, history, upsets>>

Stage == {"none", "claimed", "queued", "working", "success", "failure", "over"}
InHand == {"claimed", "queued", "working"}

Init ==
  /\ main = "down"
  /\ stage = [t \in Task |-> "none"]
  /\ taskQueue = <<>>
  /\ phase = [p \in Worker \cup Poller |-> "idle"]
  /\ job = [w \in Worker |-> NoTask]
  /\ actualGP = [w \in Worker |-> 0]
  /\ page = [p \in Worker \cup Poller |-> 0]
  /\ gpBalance = 0 /\ todayGPCost = 0
  /\ remoteGP = StartGP
  /\ spent = 0 /\ unseen = FALSE
  /\ missed = FALSE /\ onCredit = FALSE
  /\ upsets = 0

Upset == upsets < MaxUpsets /\ upsets' = upsets + 1

Goto(p, ph) == phase' = [phase EXCEPT ![p] = ph]
Put(t, s) == stage' = [stage EXCEPT ![t] = s]

\* A worker has bought an archive and not reported it yet.
Bought(w) == phase[w] \in {"count", "log"}

-----------------------------------------------------------------------------
(* Start and end of the process.                                           *)

\* GetAggregateStats: the GP of the rows whose DATE(created_at) is today.  The
\* driver writes created_at as the text of a Go time ("... +0800 CST m=+1.5"),
\* of which SQLite's DATE makes NULL: no row, however new, is of today.
TodayGP == 0

\* NewClient loads the day's cost (0 also if the query fails); Start connects.
Start ==
  /\ main = "down" /\ Upset
  /\ main' = "running"
  /\ todayGPCost' = TodayGP /\ spent' = 0 /\ unseen' = FALSE
  /\ missed' = FALSE
  /\ UNCHANGED <<stage, taskQueue, work, gpBalance, remoteGP, onCredit>>

\* Everything in memory is gone; todayGPCost is written anew by Start.
Die ==
  /\ main' = "down"
  /\ stage' = [t \in Task |-> IF stage[t] \in InHand THEN "over" ELSE stage[t]]
  /\ taskQueue' = <<>>
  /\ phase' = [p \in Worker \cup Poller |-> "idle"]
  /\ job' = [w \in Worker |-> NoTask]
  /\ actualGP' = [w \in Worker |-> 0]
  /\ page' = [p \in Worker \cup Poller |-> 0]
  /\ gpBalance' = 0
  /\ UNCHANGED <<todayGPCost, remoteGP, account, history>>

Crash == main # "down" /\ Die /\ UNCHANGED upsets

Cancel ==
  /\ main = "running" /\ main' = "cancelled"
  /\ UNCHANGED <<stage, taskQueue, work, known, remoteGP, account, history, upsets>>

\* Stop: close(taskQueue), wg.Wait, Close of the connection.
CloseQueue ==
  /\ main = "cancelled" /\ main' = "closed"
  /\ UNCHANGED <<stage, taskQueue, work, known, remoteGP, account, history, upsets>>

Exit ==
  /\ main = "closed"
  /\ \A w \in Worker : phase[w] = "exited"
  /\ \A p \in Poller : phase[p] = "idle"
  /\ Die /\ UNCHANGED upsets

-----------------------------------------------------------------------------
(* The messages of the server.                                             *)

\* A mutant of Affordable: the reserve is not kept.
AffordableNoReserve == gpBalance >= EstimatedGP

Affordable == gpBalance >= EstimatedGP + GPReserve

ShouldClaim(t, haveFree) == (t \in FreeTier /\ haveFree) \/ Affordable

\* The node has no other claim out, no task in hand, and its balance is the
\* one after the last task.
NothingElse(t) ==
  /\ ~missed
  /\ \A u \in Task \ {t} : stage[u] \notin InHand
  /\ \A w \in Worker : phase[w] = "idle"

\* A claim waits, is sent and gets an answer: the task is "claimed" meanwhile.
OnTaskAnnouncement(t) ==
  /\ main # "down" /\ stage[t] = "none"
  /\ \E haveFree \in BOOLEAN :
       IF ShouldClaim(t, haveFree)
         THEN /\ Put(t, "claimed")
              /\ onCredit' = (onCredit \/ ~Affordable \/ ~NothingElse(t))
         ELSE Put(t, "over") /\ UNCHANGED onCredit
  /\ UNCHANGED <<main, taskQueue, work, known, remoteGP, account, missed, upsets>>

\* The server's refusal, or no answer, or the claim could not be sent.
OnTaskGone(t) ==
  /\ main # "down" /\ stage[t] = "claimed"
  /\ Put(t, "over")
  /\ UNCHANGED <<main, taskQueue, work, known, remoteGP, account, history, upsets>>

\* A send to the queue that never waits; on the closed queue it panics.
OnTaskAssigned(t) ==
  /\ main # "down" /\ stage[t] = "claimed"
  /\ IF main = "closed"
       THEN Die /\ UNCHANGED upsets
       ELSE /\ IF Len(taskQueue) < TaskQueueSize
                 THEN taskQueue' = Append(taskQueue, t) /\ Put(t, "queued")
                 ELSE UNCHANGED taskQueue /\ Put(t, "over")
            /\ UNCHANGED <<main, work, known, remoteGP, account, history, upsets>>

-----------------------------------------------------------------------------
(* A worker: taskProcessor, processTask, GetArchiveURL.                    *)

\* A mutant of TakeTask: the task stays in the queue.
TakeTaskStays(w) ==
  /\ main # "down" /\ phase[w] = "idle" /\ taskQueue # <<>>
  /\ job' = [job EXCEPT ![w] = Head(taskQueue)]
  /\ Put(Head(taskQueue), "working")
  /\ Goto(w, "request")
  /\ UNCHANGED <<main, taskQueue, actualGP, page, known, remoteGP, account, history, upsets>>

\* With the context done and a task there, select takes either.
TakeTask(w) ==
  /\ main # "down" /\ phase[w] = "idle" /\ taskQueue # <<>>
  /\ job' = [job EXCEPT ![w] = Head(taskQueue)]
  /\ taskQueue' = Tail(taskQueue)
  /\ Put(Head(taskQueue), "working")
  /\ Goto(w, "request")
  /\ UNCHANGED <<main, actualGP, page, known, remoteGP, account, history, upsets>>

\* A mutant of Refreshes: after its task a worker does not come back.
RefreshesNever(p) == p \notin Worker /\ main = "running" /\ phase[p] = "idle"

\* A mutant of WorkerReturns: a worker does not look at the context and is
\* not told that the queue is closed.
WorkerReturnsNever(w) == FALSE /\ UNCHANGED vars

WorkerReturns(w) ==
  /\ main \in {"cancelled", "closed"} /\ phase[w] = "idle"
  /\ Goto(w, "exited")
  /\ UNCHANGED <<main, stage, taskQueue, job, actualGP, page,
                 known, remoteGP, account, history, upsets>>

\* Whether free quota is left only E-Hentai knows.
Costs(t) == IF t \in FreeTier THEN {0, Price} ELSE {Price}

\* The end of processTask: the result goes out, unless it is lost.
SendTaskResult(w, result) ==
  /\ Put(job[w], result) \/ Put(job[w], "over")
  /\ job' = [job EXCEPT ![w] = NoTask]
  /\ actualGP' = [actualGP EXCEPT ![w] = 0]
  /\ Goto(w, "refresh")

\* A mutant of RequestFails: a request without a URL is reported as done.
RequestFailsUnseen(w) ==
  /\ phase[w] \in {"request", "buy"}
  /\ SendTaskResult(w, "success")
  /\ UNCHANGED <<main, taskQueue, page, known, remoteGP, account, history, upsets>>

\* No page, no price on it, no URL in the answer to the POST.
RequestFails(w) ==
  /\ phase[w] \in {"request", "buy"}
  /\ SendTaskResult(w, "failure")
  /\ UNCHANGED <<main, taskQueue, page, known, remoteGP, account, history, upsets>>

\* The GET that shows the price.
AskPrice(w) ==
  /\ phase[w] = "request"
  /\ \E cost \in Costs(job[w]) : actualGP' = [actualGP EXCEPT ![w] = cost]
  /\ Goto(w, "buy")
  /\ UNCHANGED <<main, stage, taskQueue, job, page,
                 known, remoteGP, account, history, upsets>>

\* The POST that E-Hentai deducts the GP for, which may be another price now
\* that other workers have used the quota; the answer with the URL may be lost.
Purchase(w) ==
  \E charge \in Costs(job[w]) :
    /\ phase[w] = "buy" /\ remoteGP >= charge
    /\ remoteGP' = remoteGP - charge
    /\ spent' = spent + charge
    /\ \/ /\ Goto(w, "count")
          /\ unseen' = (unseen \/ charge > actualGP[w])
          /\ UNCHANGED <<stage, job, actualGP, upsets>>
       \/ /\ SendTaskResult(w, "failure")
          /\ unseen' = (unseen \/ charge > 0)
          /\ Upset
    /\ UNCHANGED <<main, taskQueue, page, known, history>>

\* A mutant of CountCost: a task of the free tier is taken to be free.
CountCostOfPaid(w) ==
  /\ phase[w] = "count"
  /\ todayGPCost' = todayGPCost + (IF job[w] \in FreeTier THEN 0 ELSE actualGP[w])
  /\ Goto(w, "log")
  /\ UNCHANGED <<main, stage, taskQueue, job, actualGP, page,
                 gpBalance, remoteGP, account, history, upsets>>

CountCost(w) ==
  /\ phase[w] = "count"
  /\ todayGPCost' = todayGPCost + actualGP[w]
  /\ Goto(w, "log")
  /\ UNCHANGED <<main, stage, taskQueue, job, actualGP, page,
                 gpBalance, remoteGP, account, history, upsets>>

\* The row is written, or an error logged (TodayGP does not see it), and the
\* success reported.
LogAndReport(w) ==
  /\ phase[w] = "log"
  /\ SendTaskResult(w, "success")
  /\ UNCHANGED <<main, taskQueue, page, known, remoteGP, account, history, upsets>>

-----------------------------------------------------------------------------
(* RefreshStatus: a page is read and then, under the lock, stored.         *)

Refreshes(p) ==
  IF p \in Worker THEN phase[p] = "refresh" ELSE main = "running" /\ phase[p] = "idle"

ReadStatus(p) ==
  /\ Refreshes(p)
  /\ page' = [page EXCEPT ![p] = remoteGP]
  /\ Goto(p, "store")
  /\ UNCHANGED <<main, stage, taskQueue, job, actualGP,
                 known, remoteGP, account, history, upsets>>

ReadStatusFails(w) ==
  /\ phase[w] = "refresh" /\ Upset
  /\ missed' = TRUE
  /\ Goto(w, "idle")
  /\ UNCHANGED <<main, stage, taskQueue, job, actualGP, page,
                 known, remoteGP, account, onCredit>>

Smaller(a, b) == IF a < b THEN a ELSE b
Remaining == IF MaxGPCost < todayGPCost THEN 0 ELSE MaxGPCost - todayGPCost

\* A mutant of AvailableBalance: the limit is compared with the GP there is,
\* not with what is left of it today.
AvailableBalanceOfLimit(totalGP) ==
  IF MaxGPCost = NoLimit THEN totalGP ELSE Smaller(totalGP, MaxGPCost)

AvailableBalance(totalGP) ==
  IF MaxGPCost = NoLimit THEN totalGP ELSE Smaller(totalGP, Remaining)

\* A page that does not show the GP (an upset) counts as none left.
StoreStatus(p) ==
  /\ phase[p] = "store"
  /\ \/ gpBalance' = AvailableBalance(page[p]) /\ UNCHANGED upsets
     \/ gpBalance' = 0 /\ Upset
  /\ missed' = FALSE
  /\ page' = [page EXCEPT ![p] = 0]
  /\ Goto(p, "idle")
  /\ UNCHANGED <<main, stage, taskQueue, job, actualGP, todayGPCost,
                 remoteGP, account, onCredit>>

-----------------------------------------------------------------------------
(* Days.                                                                   *)

\* dailyResetLoop: 24 hours after the start, and again.
DailyReset ==
  /\ main # "down"
  /\ todayGPCost' = 0 /\ spent' = 0 /\ unseen' = FALSE
  /\ UNCHANGED <<main, stage, taskQueue, work, gpBalance, remoteGP, history, upsets>>

WorkerStep(w) ==
  \/ TakeTask(w) \/ WorkerReturns(w) \/ AskPrice(w) \/ RequestFails(w) \/ Purchase(w)
  \/ CountCost(w) \/ LogAndReport(w) \/ ReadStatusFails(w)

Next ==
  \/ Start \/ Crash \/ Cancel \/ CloseQueue \/ Exit
  \/ \E t \in Task : OnTaskAnnouncement(t) \/ OnTaskGone(t) \/ OnTaskAssigned(t)
  \/ \E w \in Worker : WorkerStep(w)
  \/ \E p \in Worker \cup Poller : ReadStatus(p) \/ StoreStatus(p)
  \/ DailyReset

Spec == Init /\ [][Next]_vars

\* Goroutines that can go on do (HTTP requests have a timeout); messages,
\* signals, faults and the reset need not come.
Fairness ==
  /\ WF_vars(CloseQueue) /\ WF_vars(Exit)
  /\ \A w \in Worker : WF_vars(WorkerStep(w) \/ ReadStatus(w) \/ StoreStatus(w))
  /\ \A p \in Poller : WF_vars(StoreStatus(p))

FairSpec == Spec /\ Fairness

-----------------------------------------------------------------------------
(* Properties.                                                             *)

Phase == {"idle", "request", "buy", "count", "log", "refresh", "store", "exited"}
WorkTypeOK ==
  /\ phase \in [Worker \cup Poller -> Phase]
  /\ job \in [Worker -> Task \cup {NoTask}]
  /\ actualGP \in [Worker -> Nat]
  /\ page \in [Worker \cup Poller -> Nat]

ScalarsOK ==
  /\ main \in {"down", "running", "cancelled", "closed"}
  /\ gpBalance \in Nat /\ todayGPCost \in Nat /\ remoteGP \in Nat
  /\ spent \in Nat

FlagsOK ==
  unseen \in BOOLEAN /\ missed \in BOOLEAN /\ onCredit \in BOOLEAN

QueuedOnce ==
  \A i, j \in 1..Len(taskQueue) :
    stage[taskQueue[i]] = "queued" /\ (taskQueue[i] = taskQueue[j] => i = j)

OneWorkerPerTask ==
  \A v, w \in Worker :
    job[w] # NoTask => stage[job[w]] = "working" /\ (job[v] = job[w] => v = w)

\* Every variable has its type; a task in the queue is there once, and one
\* being worked on has one worker.
TypeOK ==
  /\ stage \in [Task -> Stage]
  /\ taskQueue \in Seq(Task) /\ Len(taskQueue) <= TaskQueueSize
  /\ WorkTypeOK
  /\ ScalarsOK /\ FlagsOK
  /\ QueuedOnce
  /\ OneWorkerPerTask

\* Between tasks the node does not believe it may spend more than is left of
\* the day's limit, in whatever order workers, ticker and dashboard have read
\* and stored the status: the balance a worker stores is newer than its cost.
BudgetIsHonest ==
  MaxGPCost # NoLimit /\ ~missed
    /\ (\A w \in Worker : phase[w] \in {"idle", "request", "buy", "count", "exited"})
  => gpBalance <= Remaining

\* Prices stay within what a claim leaves room for.
PriceFits == MaxGPCost # NoLimit /\ Price <= EstimatedGP + GPReserve

\* What E-Hentai really charges, between two times that todayGPCost is set to
\* 0, stays within the limit of a node that claims only what it can pay and is
\* told of every charge: also between GET, POST and count, and with a reset or
\* a crash in the middle of a purchase.  A start is one of these times.
ChargesWithinLimit ==
  PriceFits /\ ~onCredit /\ ~unseen => spent <= MaxGPCost

\* What a node may do that takes one task after the other: it counts no cost
\* beyond the limit, if prices stay within estimate and reserve.
NoOverspendAlone ==
  [][\A w \in Worker :
       CountCost(w) /\ ~onCredit /\ actualGP[w] > 0 /\ PriceFits
       => todayGPCost' <= MaxGPCost]_vars

\* The node keeps to its role towards the server: per task one claim, one
\* purchase, one result, and success only for a purchase.
RoleOf(t) ==
  CASE stage[t] = "queued" -> "assigned"
    [] stage[t] = "working" ->
         IF \E w \in Worker : job[w] = t /\ Bought(w)
         THEN "bought" ELSE "assigned"
    [] OTHER -> stage[t]

NR == INSTANCE NodeRole WITH role <- [t \in Task |-> RoleOf(t)]
RoleSpec == NR!Spec

\* A task that is in the queue is worked off: its result is sent, or at least
\* tried, unless the process ends.
QueuedIsWorkedOff == \A t \in Task : stage[t] = "queued" ~> stage[t] \notin InHand

\* A node that is told to stop does: no worker waits for ever on the queue or
\* on E-Hentai, no message makes it start anew.
StopEnds == main = "cancelled" ~> main = "down"
=============================================================================
