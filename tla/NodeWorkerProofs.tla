-------------------------- MODULE NodeWorkerProofs --------------------------
(***************************************************************************)
(* Theorems about a worker node, for any number of tasks, workers and      *)
(* upsets, any prices and any limit.                                       *)
(***************************************************************************)
EXTENDS NodeWorker, TLAPS

\* A worker has a task from taking it until its result is sent, and while the
\* process is down nobody does anything.
JobsMatch ==
  /\ \A w \in Worker :
       /\ job[w] # NoTask <=> phase[w] \in {"request", "buy", "count", "log"}
       /\ actualGP[w] \in {0, Price}
  /\ main = "down" => /\ gpBalance = 0
                      /\ \A t \in Task : stage[t] \notin InHand
                      /\ \A p \in Worker \cup Poller : phase[p] = "idle"

\* BudgetIsHonest, with the phases it does not speak of.
BalanceIsFresh ==
  MaxGPCost # NoLimit /\ ~missed
    /\ (\A w \in Worker : phase[w] \notin {"log", "refresh", "store"})
  => gpBalance <= Remaining

Counted(t) == \E w \in Worker : job[w] = t /\ phase[w] = "log"

\* A node that never claimed on credit has one task in hand, and until its
\* cost is counted there is room for it.
RoomForTask ==
  MaxGPCost # NoLimit /\ ~onCredit /\ Price > 0 /\ Price <= EstimatedGP + GPReserve =>
    \A t \in Task : stage[t] \in InHand =>
      /\ \A u \in Task : stage[u] \in InHand => u = t
      /\ Counted(t) \/ todayGPCost + Price <= MaxGPCost

WorkerInv == TypeOK /\ JobsMatch /\ BalanceIsFresh /\ RoomForTask

USE NodeWorkerAssumption
    DEF NodeWorkerAssumption, work, known, account, history, InHand, Stage, Phase, NoLimit, Put,
        Goto

LEMMA WorkerInvInit == Init => WorkerInv
  <1> USE DEF Init
  <1>1. Init => TypeOK
    <2>1. Init => FlagsOK
      BY DEF FlagsOK
    <2>2. Init => taskQueue \in Seq(Task) /\ Len(taskQueue) <= TaskQueueSize /\ QueuedOnce
      BY DEF QueuedOnce
    <2>3. Init => WorkTypeOK /\ ScalarsOK /\ OneWorkerPerTask
      BY DEF WorkTypeOK, ScalarsOK, OneWorkerPerTask
    <2>4. Init => stage \in [Task -> Stage]
      OBVIOUS
    <2> QED
      BY <2>1, <2>2, <2>3, <2>4 DEF TypeOK
  <1>2. Init => JobsMatch
    BY DEF JobsMatch
  <1>3. Init => BalanceIsFresh /\ RoomForTask
    BY DEF BalanceIsFresh, RoomForTask, Remaining
  <1> QED
    BY <1>1, <1>2, <1>3 DEF WorkerInv

LEMMA DieKeeps ==
  ASSUME WorkerInv, Die, upsets' = upsets
  PROVE  WorkerInv'
  <1> USE DEF Die
  <1>1. TypeOK'
    <2>1. (WorkTypeOK /\ ScalarsOK)' /\ stage' \in [Task -> Stage]
      BY DEF WorkerInv, TypeOK, WorkTypeOK, ScalarsOK, OneWorkerPerTask, Bought
    <2>2. QueuedOnce' /\ taskQueue' \in Seq(Task) /\ Len(taskQueue') <= TaskQueueSize
      BY DEF WorkerInv, TypeOK, WorkTypeOK, ScalarsOK, OneWorkerPerTask, Bought, QueuedOnce
    <2>3. OneWorkerPerTask'
      BY DEF WorkerInv, TypeOK, WorkTypeOK, ScalarsOK, OneWorkerPerTask, Bought
    <2>4. FlagsOK'
      BY DEF WorkerInv, TypeOK, FlagsOK
    <2> QED
      BY <2>1, <2>2, <2>3, <2>4 DEF TypeOK
  <1>2. JobsMatch'
    BY DEF WorkerInv, TypeOK, WorkTypeOK, ScalarsOK, OneWorkerPerTask, JobsMatch
  <1>3. BalanceIsFresh'
    BY DEF WorkerInv, TypeOK, WorkTypeOK, ScalarsOK, OneWorkerPerTask, BalanceIsFresh, Remaining
  <1>4. RoomForTask'
    BY DEF WorkerInv, TypeOK, WorkTypeOK, ScalarsOK, OneWorkerPerTask, RoomForTask
  <1> QED
    BY <1>1, <1>2, <1>3, <1>4 DEF WorkerInv

LEMMA StartKeeps ==
  ASSUME WorkerInv, Start
  PROVE  WorkerInv'
  <1> USE DEF Start, TodayGP, Upset
  <1>1. TypeOK'
    <2>1. (WorkTypeOK /\ ScalarsOK)' /\ stage' \in [Task -> Stage]
      BY DEF WorkerInv, TypeOK, WorkTypeOK, ScalarsOK, OneWorkerPerTask
    <2>2. QueuedOnce' /\ taskQueue' \in Seq(Task) /\ Len(taskQueue') <= TaskQueueSize
      BY DEF WorkerInv, TypeOK, WorkTypeOK, ScalarsOK, OneWorkerPerTask, QueuedOnce
    <2>3. OneWorkerPerTask'
      BY DEF WorkerInv, TypeOK, WorkTypeOK, ScalarsOK, OneWorkerPerTask
    <2>4. FlagsOK'
      BY DEF WorkerInv, TypeOK, FlagsOK
    <2> QED
      BY <2>1, <2>2, <2>3, <2>4 DEF TypeOK
  <1>2. JobsMatch'
    BY DEF WorkerInv, TypeOK, WorkTypeOK, ScalarsOK, OneWorkerPerTask, JobsMatch
  <1>3. BalanceIsFresh'
    BY DEF WorkerInv, TypeOK, WorkTypeOK, ScalarsOK, OneWorkerPerTask, JobsMatch, BalanceIsFresh,
        Remaining
  <1>4. RoomForTask'
    BY DEF WorkerInv, TypeOK, WorkTypeOK, ScalarsOK, OneWorkerPerTask, JobsMatch, RoomForTask
  <1> QED
    BY <1>1, <1>2, <1>3, <1>4 DEF WorkerInv

\* A claim that is not on credit finds the balance fresh, so there is room.
LEMMA AnnouncementKeeps ==
  ASSUME WorkerInv, NEW t \in Task, OnTaskAnnouncement(t)
  PROVE  WorkerInv'
  <1> USE DEF OnTaskAnnouncement
  <1>1. TypeOK'
    <2>1. (WorkTypeOK /\ ScalarsOK)' /\ stage' \in [Task -> Stage]
      BY DEF WorkerInv, TypeOK, WorkTypeOK, ScalarsOK, OneWorkerPerTask
    <2>2. QueuedOnce' /\ taskQueue' \in Seq(Task) /\ Len(taskQueue') <= TaskQueueSize
      BY DEF WorkerInv, TypeOK, WorkTypeOK, ScalarsOK, OneWorkerPerTask, QueuedOnce
    <2>3. OneWorkerPerTask'
      BY DEF WorkerInv, TypeOK, WorkTypeOK, ScalarsOK, OneWorkerPerTask
    <2>4. FlagsOK'
      BY DEF WorkerInv, TypeOK, FlagsOK
    <2> QED
      BY <2>1, <2>2, <2>3, <2>4 DEF TypeOK
  <1>2. JobsMatch'
    BY DEF WorkerInv, TypeOK, WorkTypeOK, ScalarsOK, OneWorkerPerTask, JobsMatch
  <1>3. BalanceIsFresh'
    BY DEF WorkerInv, TypeOK, WorkTypeOK, ScalarsOK, OneWorkerPerTask, BalanceIsFresh, Remaining
  <1>4. RoomForTask'
    <2> SUFFICES ASSUME MaxGPCost # NoLimit, ~onCredit', Price > 0,
                        Price <= EstimatedGP + GPReserve,
                        NEW v \in Task, stage'[v] \in InHand
                 PROVE  /\ \A u \in Task : stage'[u] \in InHand => u = v
                        /\ Counted(v)' \/ todayGPCost' + Price <= MaxGPCost
      BY DEF RoomForTask
    <2>1. CASE stage'[t] = "claimed"
      <3>1. ~onCredit /\ Affordable /\ NothingElse(t)
        BY <2>1 DEF WorkerInv, TypeOK
      <3>2. \A u \in Task : stage'[u] \in InHand => u = t
        BY <3>1 DEF NothingElse, WorkerInv, TypeOK
      <3>3. gpBalance <= Remaining /\ gpBalance > 0
        BY <3>1 DEF NothingElse, Affordable, WorkerInv, TypeOK, ScalarsOK, BalanceIsFresh
      <3>4. todayGPCost + Price <= MaxGPCost
        BY <3>1, <3>3 DEF Affordable, Remaining, WorkerInv, TypeOK, ScalarsOK
      <3> QED
        BY <3>2, <3>4
    <2>2. CASE stage'[t] # "claimed"
      BY <2>2 DEF WorkerInv, TypeOK, RoomForTask, Counted
    <2> QED
      BY <2>1, <2>2
  <1> QED
    BY <1>1, <1>2, <1>3, <1>4 DEF WorkerInv

LEMMA GoneKeeps ==
  ASSUME WorkerInv, NEW t \in Task, OnTaskGone(t)
  PROVE  WorkerInv'
  <1> USE DEF OnTaskGone
  <1>1. TypeOK'
    <2>1. (WorkTypeOK /\ ScalarsOK)' /\ stage' \in [Task -> Stage]
      BY DEF WorkerInv, TypeOK, WorkTypeOK, ScalarsOK, OneWorkerPerTask
    <2>2. QueuedOnce' /\ taskQueue' \in Seq(Task) /\ Len(taskQueue') <= TaskQueueSize
      BY DEF WorkerInv, TypeOK, WorkTypeOK, ScalarsOK, OneWorkerPerTask, QueuedOnce
    <2>3. OneWorkerPerTask'
      BY DEF WorkerInv, TypeOK, WorkTypeOK, ScalarsOK, OneWorkerPerTask
    <2>4. FlagsOK'
      BY DEF WorkerInv, TypeOK, FlagsOK
    <2> QED
      BY <2>1, <2>2, <2>3, <2>4 DEF TypeOK
  <1>2. JobsMatch'
    BY DEF WorkerInv, TypeOK, WorkTypeOK, ScalarsOK, OneWorkerPerTask, JobsMatch
  <1>3. BalanceIsFresh'
    BY DEF WorkerInv, TypeOK, WorkTypeOK, ScalarsOK, OneWorkerPerTask, BalanceIsFresh, Remaining
  <1>4. RoomForTask'
    BY DEF WorkerInv, TypeOK, WorkTypeOK, ScalarsOK, OneWorkerPerTask, RoomForTask, Counted
  <1> QED
    BY <1>1, <1>2, <1>3, <1>4 DEF WorkerInv

LEMMA AssignedKeeps ==
  ASSUME WorkerInv, NEW t \in Task, OnTaskAssigned(t)
  PROVE  WorkerInv'
  <1>1. CASE main = "closed"
    BY <1>1, DieKeeps DEF OnTaskAssigned
  <1>2. CASE main # "closed"
    <2> USE <1>2 DEF OnTaskAssigned
    <2>1. TypeOK'
      <3>1. (WorkTypeOK /\ ScalarsOK)' /\ stage' \in [Task -> Stage]
        BY DEF WorkerInv, TypeOK, WorkTypeOK, ScalarsOK, OneWorkerPerTask
      <3>2. QueuedOnce' /\ taskQueue' \in Seq(Task) /\ Len(taskQueue') <= TaskQueueSize
        <4>1. CASE Len(taskQueue) < TaskQueueSize
          <5>1. /\ taskQueue' \in Seq(Task) /\ Len(taskQueue') = Len(taskQueue) + 1
                /\ \A i \in 1..Len(taskQueue) : taskQueue'[i] = taskQueue[i]
                /\ taskQueue'[Len(taskQueue) + 1] = t
            BY <4>1 DEF WorkerInv, TypeOK
          <5> QED
            BY <4>1, <5>1 DEF WorkerInv, TypeOK, QueuedOnce
        <4>2. CASE ~(Len(taskQueue) < TaskQueueSize)
          BY <4>2 DEF WorkerInv, TypeOK, QueuedOnce
        <4> QED
          BY <4>1, <4>2
      <3>3. OneWorkerPerTask'
        BY DEF WorkerInv, TypeOK, WorkTypeOK, ScalarsOK, OneWorkerPerTask
      <3>4. FlagsOK'
        BY DEF WorkerInv, TypeOK, FlagsOK
      <3> QED
        BY <3>1, <3>2, <3>3, <3>4 DEF TypeOK
    <2>2. JobsMatch'
      BY DEF WorkerInv, TypeOK, WorkTypeOK, ScalarsOK, OneWorkerPerTask, JobsMatch
    <2>3. BalanceIsFresh'
      BY DEF WorkerInv, TypeOK, WorkTypeOK, ScalarsOK, OneWorkerPerTask, BalanceIsFresh, Remaining
    <2>4. RoomForTask'
      BY DEF WorkerInv, TypeOK, WorkTypeOK, ScalarsOK, OneWorkerPerTask, RoomForTask, Counted
    <2> QED
      BY <2>1, <2>2, <2>3, <2>4 DEF WorkerInv
  <1> QED
    BY <1>1, <1>2

LEMMA TakeTaskKeeps ==
  ASSUME WorkerInv, NEW w \in Worker, TakeTask(w)
  PROVE  WorkerInv'
  <1> USE DEF TakeTask
  <1>0. Head(taskQueue) \in Task /\ stage[Head(taskQueue)] = "queued"
    BY DEF WorkerInv, TypeOK, QueuedOnce
  <1>1. TypeOK'
    <2>1. (WorkTypeOK /\ ScalarsOK)' /\ stage' \in [Task -> Stage]
      BY DEF WorkerInv, TypeOK, WorkTypeOK, ScalarsOK, OneWorkerPerTask
    <2>2. QueuedOnce' /\ taskQueue' \in Seq(Task) /\ Len(taskQueue') <= TaskQueueSize
      BY DEF WorkerInv, TypeOK, WorkTypeOK, ScalarsOK, OneWorkerPerTask, QueuedOnce
    <2>3. OneWorkerPerTask'
      BY <1>0 DEF WorkerInv, TypeOK, WorkTypeOK, OneWorkerPerTask
    <2>4. FlagsOK'
      BY DEF WorkerInv, TypeOK, FlagsOK
    <2> QED
      BY <2>1, <2>2, <2>3, <2>4 DEF TypeOK
  <1>2. JobsMatch'
    BY DEF WorkerInv, TypeOK, WorkTypeOK, ScalarsOK, OneWorkerPerTask, JobsMatch
  <1>3. BalanceIsFresh'
    BY DEF WorkerInv, TypeOK, WorkTypeOK, ScalarsOK, OneWorkerPerTask, BalanceIsFresh, Remaining
  <1>4. RoomForTask'
    <2>1. \A u \in Task : Counted(u) => Counted(u)'
      BY DEF WorkerInv, TypeOK, WorkTypeOK, Counted
    <2> QED
      BY <1>0, <2>1 DEF WorkerInv, TypeOK, RoomForTask
  <1> QED
    BY <1>1, <1>2, <1>3, <1>4 DEF WorkerInv

\* The result is sent: the task is no longer in hand.
LEMMA ResultKeeps ==
  ASSUME WorkerInv, NEW w \in Worker, phase[w] \in {"request", "buy", "log"},
         NEW r \in {"success", "failure"}, SendTaskResult(w, r),
         UNCHANGED <<main, taskQueue, page, known, history>>,
         remoteGP' \in Nat, spent' \in Nat, unseen' \in BOOLEAN
  PROVE  WorkerInv'
  <1> USE DEF SendTaskResult
  <1>0. job[w] \in Task /\ stage[job[w]] = "working"
    BY DEF WorkerInv, TypeOK, WorkTypeOK, OneWorkerPerTask, JobsMatch
  <1>1. TypeOK'
    <2>1. (WorkTypeOK /\ ScalarsOK)' /\ stage' \in [Task -> Stage]
      <3>1. stage' \in [Task -> Stage]
        BY <1>0 DEF WorkerInv, TypeOK
      <3>2. WorkTypeOK'
        BY DEF WorkerInv, TypeOK, WorkTypeOK
      <3>3. ScalarsOK'
        BY DEF WorkerInv, TypeOK, ScalarsOK
      <3> QED
        BY <3>1, <3>2, <3>3
    <2>2. QueuedOnce' /\ taskQueue' \in Seq(Task) /\ Len(taskQueue') <= TaskQueueSize
      BY DEF WorkerInv, TypeOK, WorkTypeOK, ScalarsOK, OneWorkerPerTask, JobsMatch, QueuedOnce
    <2>3. OneWorkerPerTask'
      BY DEF WorkerInv, TypeOK, WorkTypeOK, ScalarsOK, OneWorkerPerTask, JobsMatch
    <2>4. FlagsOK'
      BY DEF WorkerInv, TypeOK, FlagsOK
    <2> QED
      BY <2>1, <2>2, <2>3, <2>4 DEF TypeOK
  <1>2. JobsMatch'
    BY DEF WorkerInv, TypeOK, WorkTypeOK, ScalarsOK, OneWorkerPerTask, JobsMatch
  <1>3. BalanceIsFresh'
    BY DEF WorkerInv, TypeOK, WorkTypeOK, ScalarsOK, OneWorkerPerTask, BalanceIsFresh, Remaining
  <1>4. RoomForTask'
    <2>1. \A u \in Task : stage'[u] \in InHand => stage[u] \in InHand /\ u # job[w]
      BY <1>0 DEF WorkerInv, TypeOK
    <2>2. \A u \in Task \ {job[w]} : Counted(u) => Counted(u)'
      BY <1>0 DEF WorkerInv, TypeOK, WorkTypeOK, Counted
    <2> QED
      BY <2>1, <2>2 DEF RoomForTask, WorkerInv
  <1> QED
    BY <1>1, <1>2, <1>3, <1>4 DEF WorkerInv

LEMMA AskPriceKeeps ==
  ASSUME WorkerInv, NEW w \in Worker, AskPrice(w)
  PROVE  WorkerInv'
  <1>1. PICK cost \in {0, Price} :
          /\ phase[w] = "request" /\ phase' = [phase EXCEPT ![w] = "buy"]
          /\ actualGP' = [actualGP EXCEPT ![w] = cost]
          /\ UNCHANGED <<main, stage, taskQueue, job, page, known, remoteGP, account, history>>
    BY DEF AskPrice, Costs
  <1>2. TypeOK'
    <2>1. (WorkTypeOK /\ ScalarsOK)' /\ stage' \in [Task -> Stage]
      BY <1>1 DEF WorkerInv, TypeOK, WorkTypeOK, ScalarsOK
    <2>2. QueuedOnce' /\ taskQueue' \in Seq(Task) /\ Len(taskQueue') <= TaskQueueSize
      BY <1>1 DEF WorkerInv, TypeOK, QueuedOnce
    <2>3. OneWorkerPerTask'
      BY <1>1 DEF WorkerInv, TypeOK, WorkTypeOK, OneWorkerPerTask
    <2>4. FlagsOK'
      BY <1>1 DEF WorkerInv, TypeOK, FlagsOK
    <2> QED
      BY <2>1, <2>2, <2>3, <2>4 DEF TypeOK
  <1>3. JobsMatch'
    BY <1>1 DEF WorkerInv, TypeOK, WorkTypeOK, JobsMatch
  <1>4. BalanceIsFresh'
    BY <1>1 DEF WorkerInv, TypeOK, WorkTypeOK, BalanceIsFresh, Remaining
  <1>5. RoomForTask'
    BY <1>1 DEF WorkerInv, TypeOK, WorkTypeOK, RoomForTask, Counted
  <1> QED
    BY <1>2, <1>3, <1>4, <1>5 DEF WorkerInv

LEMMA PurchaseKeeps ==
  ASSUME WorkerInv, NEW w \in Worker, Purchase(w)
  PROVE  WorkerInv'
  <1>1. PICK charge \in {0, Price} :
          /\ phase[w] = "buy" /\ remoteGP >= charge
          /\ remoteGP' = remoteGP - charge
          /\ spent' = spent + charge
          /\ \/ /\ Goto(w, "count")
                /\ unseen' = (unseen \/ charge > actualGP[w])
                /\ UNCHANGED <<stage, job, actualGP, upsets>>
             \/ SendTaskResult(w, "failure") /\ unseen' = (unseen \/ charge > 0)
          /\ UNCHANGED <<main, taskQueue, page, known, history>>
    BY DEF Purchase, Costs
  <1>2. remoteGP' \in Nat /\ spent' \in Nat
    BY <1>1 DEF WorkerInv, TypeOK, ScalarsOK
  <1>3. unseen' \in BOOLEAN
    BY <1>1
  <1>4. CASE SendTaskResult(w, "failure")
    BY <1>1, <1>2, <1>3, <1>4, ResultKeeps
  <1>5. CASE Goto(w, "count") /\ UNCHANGED <<stage, job, actualGP, upsets>>
    <2>1. TypeOK'
      <3>1. (WorkTypeOK /\ ScalarsOK)' /\ stage' \in [Task -> Stage]
        BY <1>1, <1>2, <1>5 DEF WorkerInv, TypeOK, WorkTypeOK, ScalarsOK
      <3>2. QueuedOnce' /\ taskQueue' \in Seq(Task) /\ Len(taskQueue') <= TaskQueueSize
        BY <1>1, <1>5 DEF WorkerInv, TypeOK, QueuedOnce
      <3>3. OneWorkerPerTask'
        BY <1>1, <1>5 DEF WorkerInv, TypeOK, OneWorkerPerTask
      <3>4. FlagsOK'
        BY <1>1, <1>3 DEF WorkerInv, TypeOK, FlagsOK
      <3> QED
        BY <3>1, <3>2, <3>3, <3>4 DEF TypeOK
    <2>2. JobsMatch'
      BY <1>1, <1>5 DEF WorkerInv, TypeOK, WorkTypeOK, JobsMatch
    <2>3. BalanceIsFresh'
      BY <1>1, <1>5 DEF WorkerInv, TypeOK, WorkTypeOK, BalanceIsFresh, Remaining
    <2>4. RoomForTask'
      BY <1>1, <1>5 DEF WorkerInv, TypeOK, WorkTypeOK, RoomForTask, Counted
    <2> QED
      BY <2>1, <2>2, <2>3, <2>4 DEF WorkerInv
  <1> QED
    BY <1>1, <1>4, <1>5

\* Counting a cost there was room for.
LEMMA CountKeeps ==
  ASSUME WorkerInv, NEW w \in Worker, CountCost(w)
  PROVE  WorkerInv'
  <1> USE DEF CountCost
  <1>1. TypeOK'
    <2>1. (WorkTypeOK /\ ScalarsOK)' /\ stage' \in [Task -> Stage]
      BY DEF WorkerInv, TypeOK, WorkTypeOK, ScalarsOK, OneWorkerPerTask
    <2>2. QueuedOnce' /\ taskQueue' \in Seq(Task) /\ Len(taskQueue') <= TaskQueueSize
      BY DEF WorkerInv, TypeOK, WorkTypeOK, ScalarsOK, OneWorkerPerTask, QueuedOnce
    <2>3. OneWorkerPerTask'
      BY DEF WorkerInv, TypeOK, WorkTypeOK, ScalarsOK, OneWorkerPerTask
    <2>4. FlagsOK'
      BY DEF WorkerInv, TypeOK, FlagsOK
    <2> QED
      BY <2>1, <2>2, <2>3, <2>4 DEF TypeOK
  <1>2. JobsMatch'
    BY DEF WorkerInv, TypeOK, WorkTypeOK, ScalarsOK, OneWorkerPerTask, JobsMatch
  <1>3. BalanceIsFresh'
    BY DEF WorkerInv, TypeOK, WorkTypeOK, ScalarsOK, OneWorkerPerTask, BalanceIsFresh, Remaining
  <1>4. RoomForTask'
    BY DEF WorkerInv, TypeOK, WorkTypeOK, ScalarsOK, OneWorkerPerTask, JobsMatch, RoomForTask,
        Counted
  <1> QED
    BY <1>1, <1>2, <1>3, <1>4 DEF WorkerInv

LEMMA LogKeeps ==
  ASSUME WorkerInv, NEW w \in Worker, LogAndReport(w)
  PROVE  WorkerInv'
  BY ResultKeeps DEF LogAndReport, WorkerInv, TypeOK, ScalarsOK, FlagsOK

LEMMA RefreshKeeps ==
  ASSUME WorkerInv, NEW p \in Worker \cup Poller,
         ReadStatus(p) \/ (p \in Worker /\ (ReadStatusFails(p) \/ WorkerReturns(p)))
  PROVE  WorkerInv'
  <1> USE DEF ReadStatus, ReadStatusFails, WorkerReturns, Refreshes
  <1>1. TypeOK'
    <2>1. (WorkTypeOK /\ ScalarsOK)' /\ stage' \in [Task -> Stage]
      <3>1. stage' \in [Task -> Stage]
        BY DEF WorkerInv, TypeOK
      <3>2. WorkTypeOK'
        <4>1. CASE ReadStatus(p)
          <5>1. remoteGP \in Nat
            BY DEF WorkerInv, TypeOK, ScalarsOK
          <5> QED
            BY <4>1, <5>1 DEF WorkerInv, TypeOK, WorkTypeOK
        <4>2. CASE p \in Worker /\ (ReadStatusFails(p) \/ WorkerReturns(p))
          BY <4>2 DEF WorkerInv, TypeOK, WorkTypeOK
        <4> QED
          BY <4>1, <4>2
      <3>3. ScalarsOK'
        BY DEF WorkerInv, TypeOK, ScalarsOK
      <3> QED
        BY <3>1, <3>2, <3>3
    <2>2. QueuedOnce' /\ taskQueue' \in Seq(Task) /\ Len(taskQueue') <= TaskQueueSize
      BY DEF WorkerInv, TypeOK, WorkTypeOK, ScalarsOK, OneWorkerPerTask, QueuedOnce
    <2>3. OneWorkerPerTask'
      BY DEF WorkerInv, TypeOK, WorkTypeOK, ScalarsOK, OneWorkerPerTask
    <2>4. FlagsOK'
      BY DEF WorkerInv, TypeOK, FlagsOK
    <2> QED
      BY <2>1, <2>2, <2>3, <2>4 DEF TypeOK
  <1>2. JobsMatch'
    BY DEF WorkerInv, TypeOK, WorkTypeOK, ScalarsOK, OneWorkerPerTask, JobsMatch
  <1>3. BalanceIsFresh'
    BY DEF WorkerInv, TypeOK, WorkTypeOK, ScalarsOK, OneWorkerPerTask, BalanceIsFresh, Remaining
  <1>4. RoomForTask'
    BY DEF WorkerInv, TypeOK, WorkTypeOK, ScalarsOK, OneWorkerPerTask, JobsMatch, RoomForTask,
        Counted
  <1> QED
    BY <1>1, <1>2, <1>3, <1>4 DEF WorkerInv

\* Whoever stores the status compares with the cost counted by then.
LEMMA StoreKeeps ==
  ASSUME WorkerInv, NEW p \in Worker \cup Poller, StoreStatus(p)
  PROVE  WorkerInv'
  <1> USE DEF StoreStatus
  <1>1. gpBalance' \in Nat /\ (MaxGPCost # NoLimit => gpBalance' <= Remaining)
    BY DEF WorkerInv, TypeOK, WorkTypeOK, ScalarsOK, OneWorkerPerTask, AvailableBalance, Smaller,
        Remaining
  <1>2. TypeOK'
    <2>1. (WorkTypeOK /\ ScalarsOK)' /\ stage' \in [Task -> Stage]
      BY <1>1 DEF WorkerInv, TypeOK, WorkTypeOK, ScalarsOK, OneWorkerPerTask
    <2>2. QueuedOnce' /\ taskQueue' \in Seq(Task) /\ Len(taskQueue') <= TaskQueueSize
      BY <1>1 DEF WorkerInv, TypeOK, WorkTypeOK, ScalarsOK, OneWorkerPerTask, QueuedOnce
    <2>3. OneWorkerPerTask'
      BY <1>1 DEF WorkerInv, TypeOK, WorkTypeOK, ScalarsOK, OneWorkerPerTask
    <2>4. FlagsOK'
      BY DEF WorkerInv, TypeOK, FlagsOK
    <2> QED
      BY <2>1, <2>2, <2>3, <2>4 DEF TypeOK
  <1>3. JobsMatch'
    BY DEF WorkerInv, TypeOK, WorkTypeOK, ScalarsOK, OneWorkerPerTask, JobsMatch
  <1>4. BalanceIsFresh'
    BY <1>1
    DEF WorkerInv, TypeOK, WorkTypeOK, ScalarsOK, OneWorkerPerTask, BalanceIsFresh, Remaining
  <1>5. RoomForTask'
    BY DEF WorkerInv, TypeOK, WorkTypeOK, ScalarsOK, OneWorkerPerTask, JobsMatch, RoomForTask,
        Counted
  <1> QED
    BY <1>2, <1>3, <1>4, <1>5 DEF WorkerInv

LEMMA OtherStepKeeps ==
  ASSUME WorkerInv,
         UNCHANGED vars \/ Cancel \/ CloseQueue \/ DailyReset
  PROVE  WorkerInv'
  <1> USE DEF vars, Cancel, CloseQueue, DailyReset
  <1>1. TypeOK'
    <2>1. (WorkTypeOK /\ ScalarsOK)' /\ stage' \in [Task -> Stage]
      BY DEF WorkerInv, TypeOK, WorkTypeOK, ScalarsOK, OneWorkerPerTask
    <2>2. QueuedOnce' /\ taskQueue' \in Seq(Task) /\ Len(taskQueue') <= TaskQueueSize
      BY DEF WorkerInv, TypeOK, WorkTypeOK, ScalarsOK, OneWorkerPerTask, QueuedOnce
    <2>3. OneWorkerPerTask'
      BY DEF WorkerInv, TypeOK, WorkTypeOK, ScalarsOK, OneWorkerPerTask
    <2>4. FlagsOK'
      BY DEF WorkerInv, TypeOK, FlagsOK
    <2> QED
      BY <2>1, <2>2, <2>3, <2>4 DEF TypeOK
  <1>2. JobsMatch'
    BY DEF WorkerInv, TypeOK, WorkTypeOK, ScalarsOK, OneWorkerPerTask, JobsMatch
  <1>3. BalanceIsFresh'
    BY DEF WorkerInv, TypeOK, WorkTypeOK, ScalarsOK, OneWorkerPerTask, BalanceIsFresh, Remaining
  <1>4. RoomForTask'
    BY DEF WorkerInv, TypeOK, WorkTypeOK, ScalarsOK, OneWorkerPerTask, RoomForTask, Counted
  <1> QED
    BY <1>1, <1>2, <1>3, <1>4 DEF WorkerInv

\* WorkerInv is inductive.
LEMMA WorkerInvStep == WorkerInv /\ [Next]_vars => WorkerInv'
  <1> SUFFICES ASSUME WorkerInv, [Next]_vars PROVE WorkerInv'
    OBVIOUS
  <1>1. CASE \E w \in Worker : WorkerStep(w)
    <2>1. PICK w \in Worker : WorkerStep(w)
      BY <1>1
    <2>2. CASE RequestFails(w)
      BY <2>2, ResultKeeps DEF RequestFails, WorkerInv, TypeOK, ScalarsOK, FlagsOK
    <2> QED
      BY <2>1, <2>2, TakeTaskKeeps, AskPriceKeeps, PurchaseKeeps, CountKeeps, LogKeeps, RefreshKeeps
         DEF WorkerStep
  <1>2. CASE Crash \/ Exit
    BY <1>2, DieKeeps DEF Crash, Exit
  <1> QED
    BY <1>1, <1>2, StartKeeps, AnnouncementKeeps, GoneKeeps, AssignedKeeps,
       RefreshKeeps, StoreKeeps, OtherStepKeeps DEF Next

\* The node's variables keep their types; a task is queued once and worked on
\* by one worker (OnTaskAssigned, taskProcessor).
THEOREM WorkerTypes == Spec => []TypeOK
  <1>1. WorkerInv => TypeOK
    BY DEF WorkerInv
  <1> QED
    BY WorkerInvInit, WorkerInvStep, <1>1, PTL DEF Spec

LEMMA WorkerInvariant == Spec => []WorkerInv
  BY WorkerInvInit, WorkerInvStep, PTL DEF Spec

\* RefreshStatus and calculateAvailableBalance: whoever stores the status,
\* between tasks the balance is no more than what is left of the day's limit.
THEOREM BalanceWithinLimit == Spec => []BudgetIsHonest
  <1>1. WorkerInv => BudgetIsHonest
    BY DEF WorkerInv, BalanceIsFresh, BudgetIsHonest, TypeOK, WorkTypeOK, ScalarsOK,
        OneWorkerPerTask
  <1> QED
    BY WorkerInvariant, <1>1, PTL

\* shouldClaimTask keeps the daily limit for a node that takes one task after
\* the other: GPReserve covers what the estimate is short of.
THEOREM LimitKeptAlone == Spec => NoOverspendAlone
  <1>1. ASSUME WorkerInv, [Next]_vars, NEW w \in Worker, CountCost(w), ~onCredit,
               actualGP[w] > 0, PriceFits
        PROVE  todayGPCost' <= MaxGPCost
    <2>1. job[w] \in Task /\ stage[job[w]] = "working" /\ ~Counted(job[w])
      BY <1>1
      DEF WorkerInv, TypeOK, WorkTypeOK, ScalarsOK, OneWorkerPerTask, JobsMatch, Counted, CountCost
    <2>2. actualGP[w] = Price /\ Price > 0
      BY <1>1 DEF WorkerInv, JobsMatch
    <2>3. todayGPCost + Price <= MaxGPCost
      BY <1>1, <2>1, <2>2 DEF WorkerInv, RoomForTask, PriceFits
    <2> QED
      BY <1>1, <2>2, <2>3 DEF CountCost
  <1>2. WorkerInv /\ [Next]_vars =>
          [\A w \in Worker :
             CountCost(w) /\ ~onCredit /\ actualGP[w] > 0 /\ PriceFits
             => todayGPCost' <= MaxGPCost]_vars
    BY <1>1
  <1> QED
    BY WorkerInvariant, <1>2, PTL DEF Spec, NoOverspendAlone

-----------------------------------------------------------------------------
(* What E-Hentai charges and what the node counts.                         *)

\* Every charge is counted, but for that of a worker about to count it; and it
\* stays within the limit.
ChargesCounted ==
  PriceFits /\ ~onCredit /\ ~unseen =>
    /\ spent <= MaxGPCost
    /\ main # "down" =>
         \/ spent <= todayGPCost
         \/ \E w \in Worker : phase[w] = "count" /\ spent <= todayGPCost + actualGP[w]

\* A step that neither charges nor counts, and takes no worker from its count.
LEMMA ChargesStay ==
  ASSUME ChargesCounted, UNCHANGED <<todayGPCost, account>>, onCredit => onCredit',
         main = "down" => main' = "down",
         \A w \in Worker : phase[w] = "count" => phase'[w] = "count" /\ actualGP'[w] = actualGP[w]
  PROVE  ChargesCounted'
  BY DEF ChargesCounted, PriceFits

LEMMA PurchaseCharges ==
  ASSUME WorkerInv, ChargesCounted, NEW w \in Worker, Purchase(w)
  PROVE  ChargesCounted'
  <1> SUFFICES ASSUME PriceFits, ~onCredit, ~unseen'
               PROVE  /\ spent' <= MaxGPCost
                      /\ \/ spent' <= todayGPCost'
                         \/ \E v \in Worker :
                              phase'[v] = "count" /\ spent' <= todayGPCost' + actualGP'[v]
    BY DEF ChargesCounted, PriceFits, Purchase
  <1>0. /\ spent \in Nat /\ todayGPCost \in Nat /\ todayGPCost' = todayGPCost
        /\ phase[w] = "buy" /\ main # "down" /\ ~unseen
        /\ phase \in [Worker \cup Poller -> Phase] /\ actualGP \in [Worker -> Nat]
    BY DEF Purchase, WorkerInv, TypeOK, WorkTypeOK, ScalarsOK, JobsMatch
  <1>1. PICK charge \in {0, Price} :
          /\ spent' = spent + charge
          /\ \/ /\ phase' = [phase EXCEPT ![w] = "count"]
                /\ actualGP' = actualGP /\ charge <= actualGP[w]
             \/ SendTaskResult(w, "failure") /\ charge = 0
    <2>1. PICK charge \in {0, Price} :
            /\ spent' = spent + charge
            /\ \/ /\ phase' = [phase EXCEPT ![w] = "count"]
                  /\ actualGP' = actualGP /\ ~(charge > actualGP[w])
               \/ SendTaskResult(w, "failure") /\ ~(charge > 0)
      BY DEF Purchase, Costs
    <2>2. charge <= actualGP[w] <=> ~(charge > actualGP[w])
      BY <1>0
    <2>3. ~(charge > 0) => charge = 0
      OBVIOUS
    <2> QED
      BY <2>1, <2>2, <2>3
  <1>2. ASSUME NEW v \in Worker, phase[v] = "count"
        PROVE  v # w /\ phase'[v] = "count" /\ actualGP'[v] = actualGP[v]
    BY <1>0, <1>1, <1>2 DEF SendTaskResult
  <1>3. CASE charge = 0
    <2>1. spent' = spent /\ spent <= MaxGPCost
      BY <1>0, <1>1, <1>3 DEF ChargesCounted
    <2> QED
      BY <1>0, <1>2, <2>1 DEF ChargesCounted
  <1>4. CASE charge # 0
    <2>1. charge = Price /\ Price > 0
      BY <1>4
    <2>2. job[w] \in Task /\ stage[job[w]] \in InHand /\ ~Counted(job[w])
      BY <1>0 DEF WorkerInv, TypeOK, WorkTypeOK, OneWorkerPerTask, JobsMatch, Counted
    <2>3. todayGPCost + Price <= MaxGPCost
      BY <2>1, <2>2 DEF WorkerInv, RoomForTask, PriceFits
    <2>4. \A v \in Worker : phase[v] # "count"
      <3> SUFFICES ASSUME NEW v \in Worker, phase[v] = "count"
                   PROVE  FALSE
        OBVIOUS
      <3>1. job[v] \in Task /\ stage[job[v]] \in InHand
        BY DEF WorkerInv, TypeOK, WorkTypeOK, OneWorkerPerTask, JobsMatch
      <3>2. job[v] = job[w]
        BY <2>1, <2>2, <3>1 DEF WorkerInv, RoomForTask, PriceFits
      <3> QED
        BY <1>0, <2>2, <3>2 DEF WorkerInv, TypeOK, OneWorkerPerTask
    <2>5. spent <= todayGPCost
      BY <1>0, <2>4 DEF ChargesCounted
    <2>6. spent' <= MaxGPCost
      BY <1>0, <1>1, <2>1, <2>3, <2>5 DEF PriceFits
    <2>7. phase'[w] = "count" /\ spent' <= todayGPCost' + actualGP'[w]
      BY <1>0, <1>1, <1>4, <2>5
    <2> QED
      BY <2>6, <2>7
  <1> QED
    BY <1>3, <1>4

LEMMA CountCharges ==
  ASSUME WorkerInv, ChargesCounted, NEW w \in Worker, CountCost(w)
  PROVE  ChargesCounted'
  <1>0. /\ spent \in Nat /\ todayGPCost \in Nat /\ actualGP \in [Worker -> Nat]
        /\ phase \in [Worker \cup Poller -> Phase]
        /\ todayGPCost' = todayGPCost + actualGP[w]
        /\ phase' = [phase EXCEPT ![w] = "log"]
        /\ UNCHANGED <<main, spent, unseen, onCredit, actualGP>>
    BY DEF CountCost, WorkerInv, TypeOK, WorkTypeOK, ScalarsOK
  <1>1. CASE spent <= todayGPCost
    BY <1>0, <1>1 DEF ChargesCounted, PriceFits
  <1>2. ASSUME NEW v \in Worker, phase[v] = "count", spent <= todayGPCost + actualGP[v]
        PROVE  \/ spent' <= todayGPCost'
               \/ \E u \in Worker : phase'[u] = "count" /\ spent' <= todayGPCost' + actualGP'[u]
    <2>1. CASE v = w
      BY <1>0, <1>2, <2>1
    <2>2. CASE v # w
      <3>1. phase'[v] = "count"
        BY <1>0, <1>2, <2>2
      <3>2. actualGP[v] \in Nat /\ actualGP[w] \in Nat /\ actualGP'[v] = actualGP[v]
        BY <1>0
      <3>3. spent' <= todayGPCost' + actualGP'[v]
        BY <1>0, <1>2, <3>2
      <3> QED
        BY <3>1, <3>3
    <2> QED
      BY <2>1, <2>2
  <1> QED
    BY <1>0, <1>1, <1>2 DEF ChargesCounted, PriceFits

LEMMA ChargesCountedStep ==
  ASSUME WorkerInv, ChargesCounted, [Next]_vars
  PROVE  ChargesCounted'
  <1>0. phase \in [Worker \cup Poller -> Phase] /\ actualGP \in [Worker -> Nat]
    BY DEF WorkerInv, TypeOK, WorkTypeOK
  <1>1. ASSUME Die
        PROVE  ChargesCounted'
    BY <1>1 DEF Die, ChargesCounted, PriceFits
  <1>2. CASE Crash \/ Exit
    BY <1>1, <1>2 DEF Crash, Exit
  <1>3. CASE Start \/ DailyReset
    BY <1>3 DEF Start, DailyReset, TodayGP, ChargesCounted, PriceFits
  <1>4. CASE UNCHANGED vars \/ Cancel \/ CloseQueue
    BY <1>4, ChargesStay DEF vars, Cancel, CloseQueue
  <1>5. ASSUME NEW t \in Task, OnTaskAnnouncement(t) \/ OnTaskGone(t) \/ OnTaskAssigned(t)
        PROVE  ChargesCounted'
    BY <1>1, <1>5, ChargesStay DEF OnTaskAnnouncement, OnTaskGone, OnTaskAssigned
  <1>6. ASSUME NEW w \in Worker, TakeTask(w) \/ WorkerReturns(w) \/ ReadStatusFails(w)
        PROVE  ChargesCounted'
    BY <1>0, <1>6, ChargesStay DEF TakeTask, WorkerReturns, ReadStatusFails
  <1>7. ASSUME NEW w \in Worker, AskPrice(w)
        PROVE  ChargesCounted'
    BY <1>0, <1>7, ChargesStay DEF AskPrice
  <1>8. ASSUME NEW w \in Worker, RequestFails(w) \/ LogAndReport(w)
        PROVE  ChargesCounted'
    <2>1. phase[w] # "count" /\ UNCHANGED <<main, known, account, history>>
      BY <1>8 DEF RequestFails, LogAndReport
    <2>2. \E r \in {"success", "failure"} : SendTaskResult(w, r)
      BY <1>8 DEF RequestFails, LogAndReport
    <2>3. \A v \in Worker : phase[v] = "count" =>
            phase'[v] = "count" /\ actualGP'[v] = actualGP[v]
      BY <1>0, <2>1, <2>2 DEF SendTaskResult
    <2> QED
      BY <2>1, <2>3, ChargesStay
  <1>9. ASSUME NEW p \in Worker \cup Poller, ReadStatus(p) \/ StoreStatus(p)
        PROVE  ChargesCounted'
    BY <1>0, <1>9, ChargesStay DEF ReadStatus, StoreStatus, Refreshes
  <1> QED
    BY <1>2, <1>3, <1>4, <1>5, <1>6, <1>7, <1>8, <1>9, PurchaseCharges, CountCharges
       DEF Next, WorkerStep

\* GetArchiveURL and shouldClaimTask: what E-Hentai really charges a node that
\* claims only what it can pay stays within the limit, from one time the
\* counter is set to 0 to the next, unless a charge was hidden from the node.
THEOREM ChargesKeepLimit == Spec => []ChargesWithinLimit
  <1>1. Init => ChargesCounted
    BY DEF Init, ChargesCounted, PriceFits
  <1>2. ChargesCounted => ChargesWithinLimit
    BY DEF ChargesCounted, ChargesWithinLimit
  <1> QED
    BY WorkerInvariant, ChargesCountedStep, <1>1, <1>2, PTL DEF Spec
-----------------------------------------------------------------------------
(* The refinement of NodeRole.                                             *)

LEMMA OneBecomes ==
  ASSUME NEW t \in Task, NEW from, NEW to, RoleOf(t) = from, RoleOf(t)' = to,
         \A u \in Task \ {t} : RoleOf(u)' = RoleOf(u)
  PROVE  NR!Become(t, from, to)
  BY DEF NR!Become

LEMMA OneForgotten ==
  ASSUME NEW t \in Task, RoleOf(t) \notin {"success", "failure", "over"}, RoleOf(t)' = "over",
         \A u \in Task \ {t} : RoleOf(u)' = RoleOf(u)
  PROVE  NR!Forget({t})
  BY DEF NR!Forget, NR!Final

LEMMA AllForgotten ==
  ASSUME WorkerInv, Die
  PROVE  NR!Forget({t \in Task : stage[t] \in InHand})
  <1>1. \A t \in Task : stage[t] \in InHand =>
          RoleOf(t) \notin {"success", "failure", "over"} /\ RoleOf(t)' = "over"
    BY DEF Die, RoleOf, WorkerInv, TypeOK
  <1>2. \A t \in Task : stage[t] \notin InHand => RoleOf(t)' = RoleOf(t)
    BY DEF Die, RoleOf, WorkerInv, TypeOK
  <1> QED
    BY <1>1, <1>2 DEF NR!Forget, NR!Final

\* The role of a task changes only with its stage or the phase of its worker.
LEMMA SameRole ==
  ASSUME WorkerInv, NEW u \in Task, stage'[u] = stage[u],
         \A w \in Worker : (job[w] = u \/ job'[w] = u) =>
                            job'[w] = job[w] /\ Bought(w)' = Bought(w)
  PROVE  RoleOf(u)' = RoleOf(u)
  BY DEF RoleOf

\* A step that leaves the stages and jobs alone, and who has bought.
LEMMA RolesStay ==
  ASSUME WorkerInv, UNCHANGED <<stage, job>>,
         \A w \in Worker : job[w] # NoTask => Bought(w)' = Bought(w)
  PROVE  UNCHANGED [t \in Task |-> RoleOf(t)]
  <1>1. \A u \in Task : RoleOf(u)' = RoleOf(u)
    BY SameRole
  <1> QED
    BY <1>1

LEMMA MessageRefines ==
  ASSUME WorkerInv, NEW t \in Task,
         OnTaskAnnouncement(t) \/ OnTaskGone(t) \/ OnTaskAssigned(t)
  PROVE  NR!Next
  <1>1. CASE Die
    BY <1>1, AllForgotten DEF NR!Next
  <1>2. CASE ~Die
    <2> USE <1>2 DEF OnTaskAnnouncement, OnTaskGone, OnTaskAssigned
    <2>1. /\ job' = job /\ phase' = phase
          /\ \A u \in Task \ {t} : stage'[u] = stage[u]
          /\ \/ stage[t] = "none" /\ stage'[t] = "claimed"
             \/ stage[t] = "claimed" /\ stage'[t] = "queued"
             \/ stage[t] \in {"none", "claimed"} /\ stage'[t] = "over"
      BY DEF WorkerInv, TypeOK
    <2>2. \A u \in Task \ {t} : RoleOf(u)' = RoleOf(u)
      BY <2>1, SameRole DEF Bought
    <2>3. CASE stage[t] = "none" /\ stage'[t] = "claimed"
      BY <2>2, <2>3, OneBecomes DEF RoleOf, NR!Next, NR!Claim
    <2>4. CASE stage[t] = "claimed" /\ stage'[t] = "queued"
      BY <2>2, <2>4, OneBecomes DEF RoleOf, NR!Next, NR!Accept
    <2>5. CASE stage[t] \in {"none", "claimed"} /\ stage'[t] = "over"
      BY <2>2, <2>5, OneForgotten DEF RoleOf, NR!Next
    <2> QED
      BY <2>1, <2>3, <2>4, <2>5
  <1> QED
    BY <1>1, <1>2

LEMMA TakeTaskRefines ==
  ASSUME WorkerInv, NEW w \in Worker, TakeTask(w)
  PROVE  UNCHANGED [t \in Task |-> RoleOf(t)]
  <1>1. PICK h \in Task : /\ h = Head(taskQueue) /\ stage[h] = "queued"
                          /\ stage' = [stage EXCEPT ![h] = "working"]
                          /\ job' = [job EXCEPT ![w] = h]
                          /\ phase' = [phase EXCEPT ![w] = "request"]
    <2>1. Head(taskQueue) \in Task /\ stage[Head(taskQueue)] = "queued"
      BY DEF TakeTask, WorkerInv, TypeOK, QueuedOnce
    <2> QED
      BY <2>1 DEF TakeTask
  <1>2. job[w] = NoTask /\ \A v \in Worker : job[v] # h
    BY <1>1 DEF TakeTask, WorkerInv, TypeOK, JobsMatch, OneWorkerPerTask
  <1>3. RoleOf(h)' = RoleOf(h)
    BY <1>1, <1>2 DEF RoleOf, Bought, WorkerInv, TypeOK, WorkTypeOK
  <1>4. \A u \in Task \ {h} : RoleOf(u)' = RoleOf(u)
    BY <1>1, <1>2, SameRole DEF Bought, WorkerInv, TypeOK, WorkTypeOK
  <1> QED
    BY <1>3, <1>4

\* A result, from a task that was bought or not.
LEMMA ResultRefines ==
  ASSUME WorkerInv, NEW w \in Worker, NEW r, SendTaskResult(w, r),
         (phase[w] \in {"request", "buy"} /\ r = "failure") \/ (phase[w] = "log" /\ r = "success")
  PROVE  NR!Next
  <1>0. PICK t \in Task : t = job[w]
    BY DEF WorkerInv, TypeOK, WorkTypeOK, JobsMatch
  <1>1. stage[t] = "working" /\ (\A v \in Worker : job[v] = t => v = w)
    BY <1>0 DEF WorkerInv, TypeOK, WorkTypeOK, JobsMatch, OneWorkerPerTask
  <1>2. RoleOf(t) = IF phase[w] = "log" THEN "bought" ELSE "assigned"
    BY <1>0, <1>1 DEF RoleOf, Bought
  <1>3. \A u \in Task \ {t} : RoleOf(u)' = RoleOf(u)
    BY <1>0, <1>1, SameRole DEF SendTaskResult, Bought, WorkerInv, TypeOK, WorkTypeOK
  <1>4. CASE stage'[t] = r
    <2>1. RoleOf(t)' = r
      BY <1>4 DEF RoleOf
    <2>2. NR!Report(t)
      BY <1>1, <1>2, <1>3, <2>1, OneBecomes DEF NR!Report
    <2> QED
      BY <1>1, <2>2 DEF NR!Next
  <1>5. CASE stage'[t] = "over"
    <2>1. RoleOf(t)' = "over"
      BY <1>5 DEF RoleOf
    <2> QED
      BY <1>1, <1>2, <1>3, <2>1, OneForgotten DEF NR!Next
  <1> QED
    BY <1>0, <1>4, <1>5 DEF SendTaskResult, WorkerInv, TypeOK

LEMMA PurchaseRefines ==
  ASSUME WorkerInv, NEW w \in Worker, Purchase(w)
  PROVE  NR!Next
  <1>1. CASE SendTaskResult(w, "failure")
    BY <1>1, ResultRefines DEF Purchase
  <1>2. CASE ~SendTaskResult(w, "failure")
    <2>0. PICK t \in Task : t = job[w]
      BY <1>2 DEF Purchase, WorkerInv, TypeOK, WorkTypeOK, JobsMatch
    <2>1. phase[w] = "buy" /\ phase' = [phase EXCEPT ![w] = "count"]
          /\ job' = job /\ stage' = stage
      BY <1>2 DEF Purchase
    <2>2. stage[t] = "working" /\ (\A v \in Worker : job[v] = t => v = w)
      BY <2>0, <2>1 DEF WorkerInv, TypeOK, WorkTypeOK, JobsMatch, OneWorkerPerTask
    <2>3. RoleOf(t) = "assigned" /\ RoleOf(t)' = "bought"
      BY <2>0, <2>1, <2>2 DEF RoleOf, Bought, WorkerInv, TypeOK, WorkTypeOK
    <2>4. \A u \in Task \ {t} : RoleOf(u)' = RoleOf(u)
      BY <2>0, <2>1, <2>2, SameRole DEF Bought, WorkerInv, TypeOK, WorkTypeOK
    <2>5. NR!Buy(t)
      BY <2>2, <2>3, <2>4, OneBecomes DEF NR!Buy
    <2> QED
      BY <2>2, <2>5 DEF NR!Next
  <1> QED
    BY <1>1, <1>2

\* The other steps of a worker or poller.
LEMMA OtherStepRefines ==
  ASSUME WorkerInv, NEW p \in Worker \cup Poller,
         \/ ReadStatus(p) \/ StoreStatus(p)
         \/ p \in Worker /\ (AskPrice(p) \/ CountCost(p) \/ ReadStatusFails(p) \/ WorkerReturns(p))
  PROVE  UNCHANGED [t \in Task |-> RoleOf(t)]
  <1>1. UNCHANGED <<stage, job>>
    BY DEF ReadStatus, StoreStatus, AskPrice, CountCost, ReadStatusFails, WorkerReturns
  <1>2. ASSUME NEW w \in Worker, job[w] # NoTask
        PROVE  Bought(w)' = Bought(w)
    <2>1. CASE ReadStatus(p) \/ StoreStatus(p)
      BY <1>2, <2>1 DEF ReadStatus, StoreStatus, Refreshes, Bought, WorkerInv, TypeOK,
                        WorkTypeOK, JobsMatch
    <2>2. CASE p \in Worker /\ (AskPrice(p) \/ CountCost(p) \/ ReadStatusFails(p) \/ WorkerReturns(p))
      BY <1>2, <2>2 DEF AskPrice, CountCost, ReadStatusFails, WorkerReturns, Bought, WorkerInv, TypeOK,
                        WorkTypeOK, JobsMatch
    <2> QED
      BY <2>1, <2>2
  <1> QED
    BY <1>1, <1>2, RolesStay

\* A node does towards the server what NodeRole allows: of taskProcessor,
\* processTask and the handlers, every step is one of it or none.
THEOREM NodeKeepsRole == Spec => RoleSpec
  <1>1. Init => NR!Init
    BY DEF Init, NR!Init, RoleOf
  <1>2. WorkerInv /\ [Next]_vars => [NR!Next]_([t \in Task |-> RoleOf(t)])
    <2> SUFFICES ASSUME WorkerInv, [Next]_vars
                 PROVE  NR!Next \/ UNCHANGED [t \in Task |-> RoleOf(t)]
      OBVIOUS
    <2>1. CASE \E w \in Worker : WorkerStep(w)
      <3>1. PICK w \in Worker : WorkerStep(w)
        BY <2>1
      <3> QED
        BY <3>1, TakeTaskRefines, PurchaseRefines, ResultRefines, OtherStepRefines
           DEF WorkerStep, RequestFails, LogAndReport
    <2>2. CASE Crash \/ Exit
      BY <2>2, AllForgotten DEF Crash, Exit, NR!Next
    <2>3. CASE \E t \in Task : OnTaskAnnouncement(t) \/ OnTaskGone(t) \/ OnTaskAssigned(t)
      BY <2>3, MessageRefines
    <2>4. CASE \E p \in Worker \cup Poller : ReadStatus(p) \/ StoreStatus(p)
      BY <2>4, OtherStepRefines
    <2>5. CASE UNCHANGED vars \/ Start \/ Cancel \/ CloseQueue \/ DailyReset
      <3>1. stage' = stage /\ job' = job /\ phase' = phase
        BY <2>5 DEF vars, Start, Cancel, CloseQueue, DailyReset
      <3> QED
        BY <3>1, RolesStay DEF Bought
    <2> QED
      BY <2>1, <2>2, <2>3, <2>4, <2>5 DEF Next
  <1> QED
    BY <1>1, <1>2, WorkerInvariant, PTL DEF Spec, RoleSpec, NR!Spec
=============================================================================
