--------------------------- MODULE GalleryProofs ---------------------------
(***************************************************************************)
(* The safety invariants of Gallery.tla for any number of requests, nodes, *)
(* keys and faults, and any price and balance.                             *)
(***************************************************************************)
EXTENDS Gallery, FiniteSetTheorems, TLAPS

-----------------------------------------------------------------------------
(* The scheduler's variables.                                              *)

SchedulerTypes ==
  /\ status \in [Trace -> Status]
  /\ owner \in [Trace -> Node \cup {NoNode}]
  /\ key \in [Trace -> Key \cup {NoKey}]
  /\ sentinel \in [Key -> Trace \cup {NoTrace}]
  /\ cache \in [Key -> Trace \cup {NoTrace}]

\* A task that is there was published, and a sentinel names a task of its key.
KeysMatch ==
  /\ \A t \in Trace : status[t] # "NONE" => key[t] # NoKey
  /\ \A k \in Key : sentinel[k] # NoTrace => key[sentinel[k]] = k

\* A task that was completed; its hash may have expired since.  No step of the
\* scheduler makes anything else of it.
Past(t) == key[t] # NoKey /\ status[t] \in {"COMPLETED", "NONE"}

SchedulerInv == SchedulerTypes /\ KeysMatch

\* Each script but the one that publishes.
LifeStep ==
  \/ \E n \in Node, t \in Trace : Life!Fetch(n, t) \/ Life!Complete(n, t) \/ Life!Fail(n, t)
  \/ \E t \in Trace : Life!Reject(t) \/ Life!Reclaim(t)
  \/ Life!Expire
  \/ UNCHANGED scheduler

LEMMA LifeStepKeeps ==
  ASSUME SchedulerInv, LifeStep
  PROVE  SchedulerInv' /\ key' = key /\ \A t \in Trace : Past(t) => Past(t)'
<1> USE NullAssumption DEF SchedulerInv, SchedulerTypes, KeysMatch, Past, Status, Live, Finished
<1>1. ASSUME NEW n \in Node, NEW t \in Trace, Life!Fetch(n, t)
      PROVE  SchedulerInv' /\ key' = key /\ \A u \in Trace : Past(u) => Past(u)'
  BY <1>1 DEF Life!Fetch
<1>2. ASSUME NEW n \in Node, NEW t \in Trace, Life!Complete(n, t)
      PROVE  SchedulerInv' /\ key' = key /\ \A u \in Trace : Past(u) => Past(u)'
  BY <1>2 DEF Life!Complete
<1>3. ASSUME NEW n \in Node, NEW t \in Trace, Life!Fail(n, t)
      PROVE  SchedulerInv' /\ key' = key /\ \A u \in Trace : Past(u) => Past(u)'
  BY <1>3 DEF Life!Fail, Life!MayFinalize
<1>4. ASSUME NEW t \in Trace, Life!Reject(t)
      PROVE  SchedulerInv' /\ key' = key /\ \A u \in Trace : Past(u) => Past(u)'
  BY <1>4 DEF Life!Reject, Life!MayFinalize
<1>5. ASSUME NEW t \in Trace, Life!Reclaim(t)
      PROVE  SchedulerInv' /\ key' = key /\ \A u \in Trace : Past(u) => Past(u)'
  BY <1>5 DEF Life!Reclaim
<1>6. ASSUME Life!Expire
      PROVE  SchedulerInv' /\ key' = key /\ \A u \in Trace : Past(u) => Past(u)'
  BY <1>6 DEF Life!Expire
<1>7. ASSUME UNCHANGED scheduler
      PROVE  SchedulerInv' /\ key' = key /\ \A u \in Trace : Past(u) => Past(u)'
  BY <1>7 DEF scheduler
<1>8. QED
  BY <1>1, <1>2, <1>3, <1>4, <1>5, <1>6, <1>7 DEF LifeStep

LEMMA PublishKeeps ==
  ASSUME SchedulerInv, NEW r \in Trace, NEW k \in Key, Life!Publish(r, k)
  PROVE  /\ SchedulerInv'
         /\ \A t \in Trace : (t # r => key'[t] = key[t]) /\ (Past(t) => Past(t)')
  BY NullAssumption
  DEF SchedulerInv, SchedulerTypes, KeysMatch, Past, Status, Live, Finished, Life!Publish

-----------------------------------------------------------------------------
(* The inductive invariant.                                                *)

RequestTypes ==
  /\ pc \in [Trace -> PC]
  /\ actual \in [Trace -> Trace \cup {NoTrace}]
  /\ ctxOver \in [Trace -> BOOLEAN]
  /\ owes \in [Trace -> BOOLEAN]
  /\ reply \in [Trace -> {"none", "url", "error"}]
  /\ waiters \in [Trace -> SUBSET Trace]
  /\ inbox \in [Trace -> {"none", "success", "failure"}]
  /\ dbFaults \in Nat /\ crashes \in Nat

Entry == {"FREEZE", "UNFREEZE", "DEDUCT", "REFUND"}
Account == [balance : Int, frozen : Nat]
AccountTypes ==
  /\ balance \in Int /\ frozen \in Nat /\ ledger \in [Trace -> SUBSET Entry]
  /\ memo \in [Trace -> SUBSET Account] /\ overwritten \in BOOLEAN

\* From Register to the return: when its channel may be registered.
Registered == {"resolving", "frozen", "rejecting", "notifying", "waiting", "settling",
               "refunding"}

\* What a channel and an answer say is true, and so is a settlement.
Truthful(r) ==
  /\ inbox[r] # "none" => pc[r] \in Registered \cup {"done"} /\ actual[r] # NoTrace
  /\ inbox[r] = "success" => Past(actual[r])
  /\ reply[r] = "url" /\ actual[r] # NoTrace => Past(actual[r])
  /\ pc[r] = "settling" => Past(r)
  /\ "DEDUCT" \in ledger[r] => Past(r)

\* A request that has not begun has left no trace.
IdleIsNew(r) ==
  pc[r] = "idle" => /\ key[r] = NoKey /\ actual[r] = NoTrace
                    /\ ledger[r] = {} /\ reply[r] = "none" /\ ~owes[r]

\* What is in the ledger and what is owed, at each place of a request.
Books(r) ==
  /\ pc[r] \in InProgress => actual[r] # NoTrace /\ ledger[r] \subseteq {"FREEZE"}
  /\ pc[r] \in {"published", "resolving"} => actual[r] = r /\ ledger[r] = {}
  /\ pc[r] = "collapsed" => actual[r] # r /\ ledger[r] = {} /\ ~owes[r]
  /\ pc[r] = "frozen" => actual[r] = r /\ "FREEZE" \in ledger[r] /\ owes[r]
  /\ pc[r] = "waiting" /\ actual[r] = r => "FREEZE" \in ledger[r] /\ owes[r]
  /\ pc[r] = "waiting" /\ actual[r] # r => ledger[r] = {} /\ ~owes[r]
  /\ pc[r] = "settling" => "FREEZE" \in ledger[r]
  /\ pc[r] \in {"rejecting", "notifying"} => actual[r] = r
  /\ pc[r] = "refunding" => owes[r]
  /\ pc[r] \in {"rejecting", "notifying", "refunding"} =>
       /\ "FREEZE" \in ledger[r] => owes[r]
       /\ dbFaults = 0 /\ owes[r] /\ ~ctxOver[r] => "FREEZE" \in ledger[r]
  /\ pc[r] = "done" /\ crashes = 0 /\ dbFaults = 0 /\ ~ctxOver[r] => ~Reserved(r)

Local(r) == Truthful(r) /\ IdleIsNew(r) /\ Books(r)

\* A registered channel is empty, and its request is waiting for that task.
Mail ==
  \A t \in Trace : \A r \in waiters[t] :
    inbox[r] = "none" /\ actual[r] = t /\ pc[r] \in Registered

\* A node's success is passed on only after CompleteTask has accepted it.
WorkTrue ==
  /\ work \in [Trace -> [Node -> Work]]
  /\ \A t \in Trace, n \in Node : work[t][n] = "ok" => Past(t)

Deducted == {t \in Trace : "DEDUCT" \in ledger[t]}
ReservedTasks == {t \in Trace : Reserved(t)}

\* The account against the ledger; only tasks that have been published count,
\* which are finitely many.  A row that a transaction has read may be old, but
\* what was paid since only lowers the bound.
Paid == EstimatedGP * Cardinality(Deducted)

Sums ==
  /\ IsFiniteSet(Deducted) /\ IsFiniteSet(ReservedTasks)
  /\ balance >= StartGP - Paid
  /\ \A r \in Trace : \A row \in memo[r] : row.balance >= StartGP - Paid
  /\ ~overwritten => balance = StartGP - Paid
  /\ ~overwritten /\ dbFaults = 0 => /\ frozen = EstimatedGP * Cardinality(ReservedTasks)
                                     /\ frozen <= balance

GalleryInv ==
  /\ SchedulerInv /\ RequestTypes /\ AccountTypes
  /\ \A r \in Trace : Local(r)
  /\ Mail /\ WorkTrue /\ Sums

LEMMA GalleryInvInit == Init => GalleryInv
<1> SUFFICES ASSUME Init PROVE GalleryInv
  OBVIOUS
<1>1. SchedulerInv
  BY NullAssumption DEF Init, Life!Init, SchedulerInv, SchedulerTypes, KeysMatch, Status
<1>2. RequestTypes /\ Mail
  BY DEF Init, RequestTypes, PC, Mail
<1>3. AccountTypes
  <2>1. ledger \in [Trace -> SUBSET Entry] /\ memo \in [Trace -> SUBSET Account]
    BY Zenon DEF Init
  <2>2. overwritten = FALSE /\ balance = StartGP /\ frozen = 0
    BY DEF Init
  <2>3. balance \in Int /\ frozen \in Nat
    BY <2>2, GalleryAssumption
  <2>4. QED
    BY <2>1, <2>2, <2>3, Zenon DEF AccountTypes
<1>4. \A r \in Trace : Local(r)
  BY DEF Init, Life!Init, Local, Truthful, IdleIsNew, Books, Reserved, InProgress, PC, Registered
<1>5. WorkTrue
  BY DEF Init, WorkTrue, Work
<1>6. Sums
  <2>1. Deducted = {} /\ ReservedTasks = {}
    BY DEF Init, Deducted, ReservedTasks, Reserved
  <2>2. IsFiniteSet(Deducted) /\ Cardinality(Deducted) = 0
        /\ IsFiniteSet(ReservedTasks) /\ Cardinality(ReservedTasks) = 0
    BY <2>1, FS_EmptySet
  <2>3. QED
    BY <2>2, GalleryAssumption DEF Init, Sums, Paid
<1>7. QED
  BY <1>1, <1>2, <1>3, <1>4, <1>5, <1>6 DEF GalleryInv

-----------------------------------------------------------------------------
(* What a step leaves alone.                                               *)

\* A request that nobody touches keeps its place while others go on.
LEMMA Untouched ==
  ASSUME NEW r \in Trace, GalleryInv, actual[r] \in Trace \cup {NoTrace},
         pc'[r] = pc[r], actual'[r] = actual[r], owes'[r] = owes[r], reply'[r] = reply[r],
         inbox'[r] = inbox[r], ledger'[r] = ledger[r], key'[r] = key[r], ctxOver'[r] = ctxOver[r],
         dbFaults' = 0 => dbFaults = 0, crashes' = 0 => crashes = 0,
         \A t \in Trace : Past(t) => Past(t)'
  PROVE  Local(r)'
<1> USE DEF GalleryInv
<1>1. Truthful(r)'
  BY DEF Local, Truthful
<1>2. IdleIsNew(r)'
  BY DEF Local, IdleIsNew
<1>3. Books(r)'
  BY DEF Local, Books, Reserved
<1>4. QED
  BY <1>1, <1>2, <1>3 DEF Local

\* Steps that write nothing: transactions may begin, with the row that is there,
\* and end.
LEMMA BooksKept ==
  ASSUME GalleryInv, UNCHANGED books, dbFaults' = 0 => dbFaults = 0,
         memo' \in [Trace -> SUBSET Account],
         \A r \in Trace : \A row \in memo'[r] : row \in memo[r] \/ row = Row
  PROVE  AccountTypes' /\ Sums'
<1>1. UNCHANGED <<balance, frozen, ledger, overwritten>>
  BY DEF books
<1>2. Deducted' = Deducted /\ ReservedTasks' = ReservedTasks /\ Paid' = Paid
  BY <1>1 DEF Deducted, ReservedTasks, Reserved, Paid
<1>3. \A r \in Trace : \A row \in memo'[r] : row.balance >= StartGP - Paid
  BY DEF GalleryInv, Sums, Row
<1>4. AccountTypes'
  BY <1>1 DEF GalleryInv, AccountTypes
<1>5. QED
  BY <1>1, <1>2, <1>3, <1>4 DEF GalleryInv, Sums

\* Steps that leave the account alone keep it in order.
LEMMA SumsKept ==
  ASSUME GalleryInv, UNCHANGED account, dbFaults' = 0 => dbFaults = 0
  PROVE  AccountTypes' /\ Sums'
<1>1. UNCHANGED books /\ memo' = memo
  BY DEF account
<1>2. memo' \in [Trace -> SUBSET Account]
  BY <1>1 DEF GalleryInv, AccountTypes
<1>3. QED
  BY <1>1, <1>2, BooksKept

LEMMA TransactionEnds ==
  ASSUME GalleryInv, NEW r \in Trace, EndTransaction(r)
  PROVE  /\ memo' \in [Trace -> SUBSET Account]
         /\ \A q \in Trace : \A row \in memo'[q] : row \in memo[q]
  BY DEF GalleryInv, AccountTypes, EndTransaction

LEMMA WorkKept ==
  ASSUME GalleryInv, work' = work, \A t \in Trace : Past(t) => Past(t)'
  PROVE  WorkTrue'
  BY DEF GalleryInv, WorkTrue

\* A step of one request r, whatever it is, if the others' fields stay.
LEMMA OthersUntouched ==
  ASSUME NEW r \in Trace, GalleryInv,
         \A q \in Trace \ {r} :
           /\ pc'[q] = pc[q] /\ actual'[q] = actual[q] /\ owes'[q] = owes[q]
           /\ reply'[q] = reply[q] /\ inbox'[q] = inbox[q] /\ ledger'[q] = ledger[q]
           /\ key'[q] = key[q] /\ ctxOver'[q] = ctxOver[q],
         dbFaults' = 0 => dbFaults = 0, crashes' = 0 => crashes = 0,
         \A t \in Trace : Past(t) => Past(t)', Local(r)'
  PROVE  \A q \in Trace : Local(q)'
<1> SUFFICES ASSUME NEW q \in Trace, q # r PROVE Local(q)'
  OBVIOUS
<1>1. actual[q] \in Trace \cup {NoTrace}
  BY DEF GalleryInv, RequestTypes
<1>2. QED
  BY <1>1, Untouched

\* A step of one request that leaves channels and account alone.
LEMMA QuietRequest ==
  ASSUME NEW r \in Trace, GalleryInv, LifeStep, WorkTrue', Local(r)',
         pc' \in [Trace -> PC], \A q \in Trace \ {r} : pc'[q] = pc[q],
         owes' \in [Trace -> BOOLEAN], \A q \in Trace \ {r} : owes'[q] = owes[q],
         reply' \in [Trace -> {"none", "url", "error"}],
         \A q \in Trace \ {r} : reply'[q] = reply[q],
         ctxOver' \in [Trace -> BOOLEAN], \A q \in Trace \ {r} : ctxOver'[q] = ctxOver[q],
         pc[r] \in Registered => pc'[r] \in Registered,
         UNCHANGED <<actual, mailbox, account, faults>>
  PROVE  GalleryInv'
<1>1. SchedulerInv' /\ key' = key /\ \A t \in Trace : Past(t) => Past(t)'
  BY LifeStepKeeps DEF GalleryInv
<1>2. UNCHANGED <<actual, waiters, inbox, ledger, account, dbFaults, crashes>>
  BY DEF mailbox, account, books, faults
<1>3. RequestTypes'
  BY <1>2 DEF GalleryInv, RequestTypes
<1>4. \A q \in Trace : Local(q)'
  BY <1>1, <1>2, OthersUntouched
<1>5. Mail'
  BY <1>2 DEF GalleryInv, RequestTypes, Mail
<1>6. AccountTypes' /\ Sums'
  BY <1>2, SumsKept DEF account
<1>7. QED
  BY <1>1, <1>3, <1>4, <1>5, <1>6 DEF GalleryInv

\* A step of a node, or of the scheduler by itself.
LEMMA QuietNode ==
  ASSUME GalleryInv, LifeStep, WorkTrue',
         UNCHANGED <<locals, ctxOver, mailbox, account, faults>>
  PROVE  GalleryInv'
<1>1. SchedulerInv' /\ key' = key /\ \A t \in Trace : Past(t) => Past(t)'
  BY LifeStepKeeps DEF GalleryInv
<1>2. UNCHANGED <<pc, actual, owes, reply, ctxOver, waiters, inbox, ledger, account,
                  dbFaults, crashes>>
  BY DEF locals, mailbox, account, books, faults
<1>3. RequestTypes' /\ Mail'
  BY <1>2 DEF GalleryInv, RequestTypes, Mail
<1>4. ASSUME NEW r \in Trace PROVE Local(r)'
  <2>1. actual[r] \in Trace \cup {NoTrace}
    BY DEF GalleryInv, RequestTypes
  <2>2. QED
    BY <1>1, <1>2, <2>1, Untouched
<1>5. AccountTypes' /\ Sums'
  BY <1>2, SumsKept DEF account
<1>6. QED
  BY <1>1, <1>3, <1>4, <1>5 DEF GalleryInv

LEMMA UnchangedIsLifeStep == ASSUME UNCHANGED scheduler PROVE LifeStep
  BY DEF LifeStep

-----------------------------------------------------------------------------
(* The nodes.                                                              *)

\* The work of n about t becomes w.
LEMMA SetWorkKeeps ==
  ASSUME NEW t \in Trace, NEW n \in Node, NEW w \in Work, GalleryInv, LifeStep,
         SetWork(t, n, w), w = "ok" => Past(t)'
  PROVE  WorkTrue'
<1>1. \A u \in Trace : Past(u) => Past(u)'
  BY LifeStepKeeps DEF GalleryInv
<1>2. QED
  BY <1>1 DEF GalleryInv, WorkTrue, SetWork

LEMMA NodeKeeps ==
  ASSUME NEW t \in Trace, NEW n \in Node, GalleryInv,
         HandleFetchTask(t, n) \/ HandleSuccess(t, n) \/ HandleFailure(t, n)
  PROVE  GalleryInv'
<1> USE DEF Work
<1>1. CASE HandleFetchTask(t, n)
  <2>1. LifeStep /\ (SetWork(t, n, "working") \/ SetWork(t, n, "none"))
    BY <1>1 DEF HandleFetchTask, LifeStep
  <2>2. QED
    BY <1>1, <2>1, SetWorkKeeps, QuietNode DEF HandleFetchTask
<1>2. CASE HandleSuccess(t, n)
  <2>1. LifeStep
    BY <1>2 DEF HandleSuccess, LifeStep
  <2>2. CASE Life!Complete(n, t) /\ SetWork(t, n, "ok")
    <3>1. Past(t)'
      BY <2>2 DEF GalleryInv, SchedulerInv, SchedulerTypes, KeysMatch, Past, Life!Complete
    <3>2. QED
      BY <1>2, <2>1, <2>2, <3>1, SetWorkKeeps, QuietNode DEF HandleSuccess
  <2>3. CASE SetWork(t, n, "refused")
    BY <1>2, <2>1, <2>3, SetWorkKeeps, QuietNode DEF HandleSuccess
  <2>4. QED
    BY <1>2, <2>2, <2>3 DEF HandleSuccess
<1>3. CASE HandleFailure(t, n)
  <2>1. LifeStep /\ SetWork(t, n, "bad")
    BY <1>3 DEF HandleFailure, LifeStep
  <2>2. QED
    BY <1>3, <2>1, SetWorkKeeps, QuietNode DEF HandleFailure
<1>4. QED
  BY <1>1, <1>2, <1>3

LEMMA RecoverKeeps == GalleryInv /\ Recover => GalleryInv'
<1> SUFFICES ASSUME GalleryInv, Recover PROVE GalleryInv'
  OBVIOUS
<1>1. LifeStep
  BY DEF Recover, LifeStep
<1>2. WorkTrue'
  BY <1>1, LifeStepKeeps, WorkKept DEF Recover, GalleryInv
<1>3. QED
  BY <1>1, <1>2, QuietNode DEF Recover

-----------------------------------------------------------------------------
(* The steps of a request that leave channels and account alone.           *)

LEMMA QuietStepsKeep ==
  ASSUME NEW r \in Trace, GalleryInv,
         \/ ResolveFails(r) \/ AnnounceFails(r) \/ EndContext(r)
         \/ RejectTask(r) \/ Announce(r)
  PROVE  GalleryInv'
<1> USE DEF Registered, InProgress, PC
<1>1. LifeStep
  BY DEF ResolveFails, AnnounceFails, EndContext, RejectTask, Announce, LifeStep, scheduler
<1>2. SchedulerInv' /\ key' = key /\ \A t \in Trace : Past(t) => Past(t)'
  BY <1>1, LifeStepKeeps DEF GalleryInv
<1>3. Local(r) /\ RequestTypes
  BY DEF GalleryInv
<1>4. UNCHANGED <<actual, waiters, inbox, ledger, account, dbFaults, crashes>>
  BY DEF ResolveFails, AnnounceFails, EndContext, RejectTask, Announce, GiveUp,
         mailbox, account, books, faults, locals
<1>5. CASE ResolveFails(r) \/ AnnounceFails(r)
  <2>1. /\ pc[r] \in {"resolving", "frozen"} /\ UNCHANGED <<reply, ctxOver, work>>
        /\ pc' = [pc EXCEPT ![r] = "rejecting"]
        /\ owes' = [owes EXCEPT ![r] = IF pc[r] = "frozen" THEN TRUE ELSE FALSE]
    BY <1>5 DEF ResolveFails, AnnounceFails, GiveUp, Goto
  <2>2. Local(r)'
    BY <1>2, <1>3, <1>4, <2>1
    DEF Local, Truthful, IdleIsNew, Books, Reserved, RequestTypes
  <2>3. QED
    BY <1>1, <1>2, <1>3, <1>4, <2>1, <2>2, WorkKept, QuietRequest
    DEF RequestTypes, mailbox, account, faults
<1>6. CASE EndContext(r)
  <2>1. /\ pc[r] \in InProgress /\ UNCHANGED <<pc, owes, reply, work>>
        /\ ctxOver' = [ctxOver EXCEPT ![r] = TRUE]
    BY <1>6 DEF EndContext, locals
  <2>2. Local(r)'
    BY <1>2, <1>3, <1>4, <2>1
    DEF Local, Truthful, IdleIsNew, Books, Reserved, RequestTypes
  <2>3. QED
    BY <1>1, <1>2, <1>3, <1>4, <2>1, <2>2, WorkKept, QuietRequest
    DEF RequestTypes, mailbox, account, faults
<1>7. CASE RejectTask(r)
  <2>1. /\ pc[r] = "rejecting" /\ UNCHANGED <<owes, reply, ctxOver, work>>
        /\ pc' = [pc EXCEPT ![r] = "notifying"]
    BY <1>7 DEF RejectTask, Goto
  <2>2. Local(r)'
    BY <1>2, <1>3, <1>4, <2>1
    DEF Local, Truthful, IdleIsNew, Books, Reserved, RequestTypes
  <2>3. QED
    BY <1>1, <1>2, <1>3, <1>4, <2>1, <2>2, WorkKept, QuietRequest
    DEF RequestTypes, mailbox, account, faults
<1>8. CASE Announce(r)
  <2>1. /\ pc[r] = "frozen" /\ UNCHANGED <<owes, reply, ctxOver>>
        /\ pc' = [pc EXCEPT ![r] = "waiting"]
    BY <1>8 DEF Announce, Goto
  <2>2. Local(r)'
    BY <1>2, <1>3, <1>4, <2>1
    DEF Local, Truthful, IdleIsNew, Books, Reserved, RequestTypes
  <2>3. PICK told \in Reach : work' = [work EXCEPT ![r] =
                 [n \in Node |-> IF n \in told THEN "offered" ELSE "none"]]
    BY <1>8 DEF Announce
  <2>4. WorkTrue'
    BY <1>2, <2>3 DEF GalleryInv, WorkTrue, Work
  <2>5. QED
    BY <1>1, <1>2, <1>3, <1>4, <2>1, <2>2, <2>4, QuietRequest
    DEF RequestTypes, mailbox, account, faults
<1>9. QED
  BY <1>5, <1>6, <1>7, <1>8

-----------------------------------------------------------------------------
(* Publishing, and the channels.                                           *)

LEMMA PublishTaskKeeps ==
  ASSUME NEW r \in Trace, NEW k \in Key, NEW force \in BOOLEAN, GalleryInv,
         PublishTask(r, k, force)
  PROVE  GalleryInv'
<1> USE DEF Registered, InProgress, PC
<1>1. SchedulerInv /\ RequestTypes /\ Local(r)
  BY DEF GalleryInv
<1>2. UNCHANGED <<work, owes, ctxOver, waiters, inbox, ledger, account,
                  dbFaults, crashes>>
  BY DEF PublishTask, mailbox, account, books, faults
<1>3. pc[r] = "idle"
  BY DEF PublishTask
<1>4. /\ SchedulerInv' /\ \A t \in Trace : Past(t) => Past(t)'
      /\ \A t \in Trace : t # r => key'[t] = key[t]
  <2>1. CASE UNCHANGED scheduler
    BY <1>1, <2>1, LifeStepKeeps, UnchangedIsLifeStep
  <2>2. CASE Life!Publish(r, k)
    BY <1>1, <2>2, PublishKeeps
  <2>3. QED
    BY <2>1, <2>2 DEF PublishTask
<1>5. /\ pc' \in [Trace -> PC] /\ actual' \in [Trace -> Trace \cup {NoTrace}]
      /\ reply' \in [Trace -> {"none", "url", "error"}]
      /\ \A q \in Trace \ {r} : pc'[q] = pc[q] /\ actual'[q] = actual[q] /\ reply'[q] = reply[q]
      /\ \/ pc'[r] = "done" /\ actual'[r] = NoTrace /\ reply'[r] = "url"
         \/ pc'[r] = "collapsed" /\ actual'[r] \notin {r, NoTrace} /\ reply'[r] = "none"
         \/ pc'[r] = "published" /\ actual'[r] = r /\ reply'[r] = "none"
  <2>1. CASE Goto(r, "done") /\ reply' = [reply EXCEPT ![r] = "url"] /\ UNCHANGED actual
    BY <1>1, <1>3, <2>1 DEF RequestTypes, Local, IdleIsNew, Goto
  <2>2. CASE /\ sentinel[k] # NoTrace /\ Goto(r, "collapsed") /\ UNCHANGED reply
             /\ actual' = [actual EXCEPT ![r] = sentinel[k]]
    <3>1. sentinel[k] \in Trace /\ sentinel[k] # r
      BY <1>1, <1>3, <2>2, NullAssumption
      DEF SchedulerInv, SchedulerTypes, KeysMatch, Local, IdleIsNew
    <3>2. QED
      BY <1>1, <1>3, <2>2, <3>1 DEF RequestTypes, Local, IdleIsNew, Goto
  <2>3. CASE Goto(r, "published") /\ UNCHANGED reply /\ actual' = [actual EXCEPT ![r] = r]
    BY <1>1, <1>3, <2>3, NullAssumption DEF RequestTypes, Local, IdleIsNew, Goto
  <2>4. QED
    BY <2>1, <2>2, <2>3 DEF PublishTask
<1>6. Local(r)'
  <2>1. ledger'[r] = {} /\ ~owes'[r] /\ inbox'[r] = "none"
    BY <1>1, <1>2, <1>3 DEF RequestTypes, Local, Truthful, IdleIsNew
  <2>2. QED
    BY <1>5, <2>1, NullAssumption DEF Local, Truthful, IdleIsNew, Books, Reserved
<1>7. RequestTypes'
  BY <1>1, <1>2, <1>5 DEF RequestTypes
<1>8. \A q \in Trace : Local(q)'
  BY <1>2, <1>4, <1>5, <1>6, OthersUntouched
<1>9. Mail'
  BY <1>1, <1>2, <1>3, <1>5 DEF GalleryInv, RequestTypes, Mail
<1>10. QED
  BY <1>2, <1>4, <1>7, <1>8, <1>9, SumsKept, WorkKept DEF GalleryInv, account

LEMMA RegisterKeeps ==
  ASSUME NEW r \in Trace, GalleryInv, Register(r)
  PROVE  GalleryInv'
<1> USE DEF Registered, InProgress, PC
<1>1. SchedulerInv /\ RequestTypes /\ Local(r)
  BY DEF GalleryInv
<1>2. UNCHANGED <<actual, work, owes, reply, ctxOver, inbox, ledger, account,
                  dbFaults, crashes>>
  BY DEF Register, account, books, faults
<1>3. SchedulerInv' /\ key' = key /\ \A t \in Trace : Past(t) => Past(t)'
  BY <1>1, LifeStepKeeps, UnchangedIsLifeStep DEF Register
<1>4. /\ pc[r] \in {"published", "collapsed"} /\ actual[r] \in Trace /\ inbox[r] = "none"
      /\ pc' = [pc EXCEPT ![r] = IF pc[r] = "published" THEN "resolving" ELSE "waiting"]
      /\ waiters' = [waiters EXCEPT ![actual[r]] = @ \cup {r}]
  BY <1>1 DEF Register, Goto, RequestTypes, Local, Truthful, Books
<1>5. RequestTypes'
  BY <1>1, <1>2, <1>4 DEF RequestTypes
<1>6. Local(r)'
  BY <1>1, <1>2, <1>3, <1>4 DEF RequestTypes, Local, Truthful, IdleIsNew, Books, Reserved
<1>7. \A q \in Trace : Local(q)'
  BY <1>1, <1>2, <1>3, <1>4, <1>6, OthersUntouched DEF RequestTypes
<1>8. Mail'
  BY <1>1, <1>2, <1>4 DEF GalleryInv, RequestTypes, Mail
<1>9. QED
  BY <1>2, <1>3, <1>5, <1>7, <1>8, SumsKept, WorkKept DEF GalleryInv, account

-----------------------------------------------------------------------------
(* The account.                                                            *)

\* Whoever writes back the row that is still there writes over nothing.
LEMMA SavedRow ==
  ASSUME NEW r \in Trace, AccountTypes, NEW row \in memo[r], NEW new, Save(r, new)
  PROVE  /\ row.balance \in Int /\ row.frozen \in Nat /\ overwritten' \in BOOLEAN
         /\ ~overwritten' => ~overwritten /\ row.balance = balance /\ row.frozen = frozen
<1>1. row \in Account
  BY DEF AccountTypes
<1>2. ~overwritten' => ~overwritten /\ row = Row
  BY DEF Save
<1>3. overwritten' \in BOOLEAN
  BY DEF Save
<1>4. QED
  BY <1>1, <1>2, <1>3 DEF Account, Row

LEMMA FreezeKeepsSums ==
  ASSUME NEW r \in Trace, GalleryInv, ledger[r] = {}, FreezeGP(r), EndTransaction(r),
         dbFaults' = 0 => dbFaults = 0
  PROVE  /\ AccountTypes' /\ Sums'
         /\ ledger' = [ledger EXCEPT ![r] = {"FREEZE"}]
<1> USE DEF GalleryInv
<1>1. PICK row \in memo[r] : /\ Available(row) >= EstimatedGP
                             /\ Save(r, [row EXCEPT !.frozen = @ + EstimatedGP])
                             /\ Record(r, {"FREEZE"})
  BY DEF FreezeGP
<1>2. /\ row.balance \in Int /\ row.frozen \in Nat /\ overwritten' \in BOOLEAN
      /\ ~overwritten' => ~overwritten /\ row.balance = balance /\ row.frozen = frozen
  BY <1>1, SavedRow
<1>3. row \in Account
  BY DEF AccountTypes
<1>4. /\ balance' = row.balance /\ frozen' = row.frozen + EstimatedGP
      /\ row.balance - row.frozen >= EstimatedGP
  BY <1>1, <1>3 DEF Save, Available, Account
<1>5. ledger' = [ledger EXCEPT ![r] = {"FREEZE"}]
  BY <1>1 DEF Record, AccountTypes
<1>6. Deducted' = Deducted /\ ReservedTasks' = ReservedTasks \cup {r} /\ r \notin ReservedTasks
  BY <1>5 DEF AccountTypes, Deducted, ReservedTasks, Reserved
<1>7. /\ IsFiniteSet(Deducted') /\ IsFiniteSet(ReservedTasks') /\ Paid' = Paid
      /\ Cardinality(ReservedTasks') = Cardinality(ReservedTasks) + 1
      /\ Cardinality(ReservedTasks) \in Nat
  BY <1>6, FS_AddElement, FS_CardinalityType DEF Sums, Paid
<1>8. EstimatedGP * (Cardinality(ReservedTasks) + 1)
        = EstimatedGP * Cardinality(ReservedTasks) + EstimatedGP
  BY <1>7, GalleryAssumption
<1>9. /\ memo' \in [Trace -> SUBSET Account]
      /\ \A q \in Trace : \A old \in memo'[q] : old \in memo[q]
  BY TransactionEnds
<1>10. AccountTypes'
  <2>1. ledger' \in [Trace -> SUBSET Entry]
    BY <1>5 DEF AccountTypes, Entry
  <2>2. balance' \in Int /\ frozen' \in Nat
    BY <1>2, <1>4, GalleryAssumption
  <2>3. QED
    BY <1>2, <1>9, <2>1, <2>2 DEF AccountTypes
<1>11. /\ balance' >= StartGP - Paid
       /\ ~overwritten' => balance' = StartGP - Paid
       /\ \A q \in Trace : \A old \in memo'[q] : old.balance >= StartGP - Paid
  BY <1>2, <1>4, <1>9 DEF Sums
<1>12. ASSUME ~overwritten', dbFaults' = 0
       PROVE  frozen' = EstimatedGP * Cardinality(ReservedTasks') /\ frozen' <= balance'
  BY <1>2, <1>4, <1>7, <1>8, <1>12, GalleryAssumption DEF Sums
<1>13. Sums'
  BY <1>7, <1>11, <1>12 DEF Sums
<1>14. QED
  BY <1>5, <1>10, <1>13

\* A task whose reservation is settled or given back; without a database fault
\* it was reserved, so that the clamp of Unfreeze is not reached.
LEMMA UnfreezeKeepsSums ==
  ASSUME NEW r \in Trace, NEW settle \in BOOLEAN, GalleryInv, ledger[r] \subseteq {"FREEZE"},
         IF settle THEN SettleTask(r) ELSE RefundTask(r), EndTransaction(r),
         dbFaults' = 0 => dbFaults = 0 /\ "FREEZE" \in ledger[r]
  PROVE  /\ AccountTypes' /\ Sums'
         /\ \A q \in Trace \ {r} : ledger'[q] = ledger[q]
         /\ settle <=> "DEDUCT" \in ledger'[r]
         /\ ledger'[r] \cap {"DEDUCT", "REFUND"} # {}
<1> DEFINE types == IF settle THEN {"UNFREEZE", "DEDUCT"} ELSE {"REFUND"}
           new(row) == [balance |-> IF settle THEN row.balance - EstimatedGP ELSE row.balance,
                        frozen |-> Unfreeze(row)]
<1> USE DEF GalleryInv
<1>1. PICK row \in memo[r] : Save(r, new(row)) /\ Record(r, types)
  <2>1. \A row \in memo[r] :
          [row EXCEPT !.frozen = Unfreeze(row)] = [balance |-> row.balance, frozen |-> Unfreeze(row)]
    BY DEF AccountTypes, Account
  <2>2. QED
    BY <2>1 DEF SettleTask, RefundTask
<1>2. /\ row.balance \in Int /\ row.frozen \in Nat /\ overwritten' \in BOOLEAN
      /\ ~overwritten' => ~overwritten /\ row.balance = balance /\ row.frozen = frozen
  BY <1>1, SavedRow
<1>3. /\ balance' = IF settle THEN row.balance - EstimatedGP ELSE row.balance
      /\ frozen' = IF row.frozen < EstimatedGP THEN 0 ELSE row.frozen - EstimatedGP
  BY <1>1 DEF Save, Unfreeze
<1>4. ledger' \in [Trace -> SUBSET Entry] /\ ledger'[r] = ledger[r] \cup types
      /\ \A q \in Trace \ {r} : ledger'[q] = ledger[q]
  BY <1>1 DEF Record, AccountTypes, Entry
<1>5. Deducted' = IF settle THEN Deducted \cup {r} ELSE Deducted
  BY <1>4 DEF Deducted
<1>6. ReservedTasks' = ReservedTasks \ {r} /\ r \notin Deducted
  BY <1>4 DEF Deducted, ReservedTasks, Reserved
<1>7. /\ IsFiniteSet(Deducted')
      /\ Cardinality(Deducted) \in Nat
      /\ Cardinality(Deducted') = Cardinality(Deducted) + (IF settle THEN 1 ELSE 0)
  <2>1. IsFiniteSet(Deducted) /\ Cardinality(Deducted) \in Nat
    BY FS_CardinalityType DEF Sums
  <2>2. CASE settle
    BY <1>5, <1>6, <2>1, <2>2, FS_AddElement
  <2>3. CASE ~settle
    BY <1>5, <2>1, <2>3
  <2>4. QED
    BY <2>1, <2>2, <2>3
<1>8. IsFiniteSet(ReservedTasks') /\ Cardinality(ReservedTasks) \in Nat
  BY <1>6, FS_RemoveElement, FS_CardinalityType DEF Sums
<1>9. Paid \in Nat /\ Paid' = Paid + (IF settle THEN EstimatedGP ELSE 0)
  <2>1. EstimatedGP * (Cardinality(Deducted) + 1) = EstimatedGP * Cardinality(Deducted) + EstimatedGP
        /\ EstimatedGP * Cardinality(Deducted) \in Nat
    BY <1>7, GalleryAssumption
  <2>2. CASE settle
    BY <1>7, <2>1, <2>2 DEF Paid
  <2>3. CASE ~settle
    BY <1>5, <2>1, <2>3, GalleryAssumption DEF Paid
  <2>4. QED
    BY <2>2, <2>3
<1>10. /\ memo' \in [Trace -> SUBSET Account]
       /\ \A q \in Trace : \A old \in memo'[q] : old \in memo[q]
  BY TransactionEnds
<1>11. AccountTypes'
  BY <1>2, <1>3, <1>4, <1>10, GalleryAssumption DEF AccountTypes
<1>12. /\ balance' >= StartGP - Paid'
       /\ ~overwritten' => balance' = StartGP - Paid'
  BY <1>2, <1>3, <1>9, GalleryAssumption DEF Sums
<1>13. \A q \in Trace : \A old \in memo'[q] : old.balance >= StartGP - Paid'
  <2>1. \A q \in Trace : \A old \in memo'[q] : old.balance \in Int
    BY <1>10 DEF Account
  <2>2. \A q \in Trace : \A old \in memo'[q] : old.balance >= StartGP - Paid
    BY <1>10 DEF Sums
  <2>3. QED
    BY <1>9, <2>1, <2>2, GalleryAssumption
<1>14. ASSUME ~overwritten', dbFaults' = 0
       PROVE  frozen' = EstimatedGP * Cardinality(ReservedTasks') /\ frozen' <= balance'
  <2>1. ~overwritten /\ dbFaults = 0 /\ r \in ReservedTasks
    BY <1>2, <1>14 DEF ReservedTasks, Reserved
  <2>2. Cardinality(ReservedTasks') = Cardinality(ReservedTasks) - 1
        /\ Cardinality(ReservedTasks) >= 1
    <3>1. Cardinality(ReservedTasks') = Cardinality(ReservedTasks) - 1
      BY <1>6, <2>1, FS_RemoveElement DEF Sums
    <3>2. Cardinality(ReservedTasks') \in Nat
      BY <1>8, FS_CardinalityType
    <3>3. QED
      BY <1>8, <3>1, <3>2
  <2>3. EstimatedGP * (Cardinality(ReservedTasks) - 1)
          = EstimatedGP * Cardinality(ReservedTasks) - EstimatedGP
    BY <1>8, GalleryAssumption
  <2>4. EstimatedGP * (Cardinality(ReservedTasks) - 1) \in Nat
    BY <1>8, <2>2, GalleryAssumption
  <2>5. frozen = EstimatedGP * Cardinality(ReservedTasks) /\ frozen <= balance
        /\ row.balance = balance /\ row.frozen = frozen
    BY <1>2, <1>14, <2>1 DEF Sums
  <2>6. frozen' = frozen - EstimatedGP
    BY <1>3, <2>3, <2>4, <2>5, GalleryAssumption
  <2>7. frozen' = EstimatedGP * Cardinality(ReservedTasks')
    BY <2>2, <2>3, <2>5, <2>6
  <2>8. frozen' <= balance'
    BY <1>2, <1>3, <2>5, <2>6, GalleryAssumption
  <2>9. QED
    BY <2>7, <2>8
<1>15. Sums'
  BY <1>7, <1>8, <1>12, <1>13, <1>14 DEF Sums
<1>16. QED
  BY <1>4, <1>11, <1>15

LEMMA DbErrorCounts ==
  ASSUME NEW r \in Trace, RequestTypes, DbError(r)
  PROVE  /\ dbFaults' \in Nat /\ (dbFaults' = 0 => dbFaults = 0)
         /\ ctxOver[r] \/ dbFaults' # 0
<1>1. CASE ctxOver[r]
  BY <1>1 DEF DbError, RequestTypes
<1>2. CASE ~ctxOver[r]
  <2>1. dbFaults' = dbFaults + 1
    BY <1>2 DEF DbError
  <2>2. dbFaults \in Nat
    BY DEF RequestTypes
  <2>3. QED
    BY <2>1, <2>2
<1>3. QED
  BY <1>1, <1>2

LEMMA FreezeKeeps ==
  ASSUME NEW r \in Trace, GalleryInv, Freeze(r)
  PROVE  GalleryInv'
<1> USE DEF Registered, InProgress, PC
<1>1. SchedulerInv /\ RequestTypes /\ Local(r)
  BY DEF GalleryInv
<1>2. UNCHANGED <<scheduler, work, actual, reply, ctxOver, waiters, inbox, crashes>>
  BY DEF Freeze, mailbox
<1>3. SchedulerInv' /\ key' = key /\ \A t \in Trace : Past(t) => Past(t)'
  BY <1>1, <1>2, LifeStepKeeps, UnchangedIsLifeStep
<1>4. pc[r] = "resolving" /\ ledger[r] = {} /\ actual[r] = r
  BY <1>1 DEF Freeze, Local, Books
<1>5. PICK p \in {"frozen", "rejecting"}, owing \in BOOLEAN, froze \in BOOLEAN :
        /\ pc' = [pc EXCEPT ![r] = p] /\ owes' = [owes EXCEPT ![r] = owing]
        /\ froze => owing
        /\ p = "frozen" => froze
        /\ owing /\ ~froze => ctxOver[r] \/ dbFaults' # 0
        /\ IF froze THEN FreezeGP(r) ELSE UNCHANGED books
  <2>1. CASE ~ctxOver[r] /\ FreezeGP(r) /\ Goto(r, "frozen") /\ owes' = [owes EXCEPT ![r] = TRUE]
    BY <2>1 DEF Goto
  <2>2. CASE GiveUp(r, FALSE) /\ UNCHANGED books
    BY <2>2 DEF GiveUp, Goto
  <2>3. CASE DbError(r) /\ GiveUp(r, TRUE) /\ (FreezeGP(r) \/ UNCHANGED books)
    BY <1>1, <2>3, DbErrorCounts DEF GiveUp, Goto
  <2>4. QED
    BY <2>1, <2>2, <2>3 DEF Freeze
<1>6. dbFaults' \in Nat /\ (dbFaults' = 0 => dbFaults = 0)
  <2>1. CASE UNCHANGED dbFaults
    BY <1>1, <2>1 DEF RequestTypes
  <2>2. CASE DbError(r)
    BY <1>1, <2>2, DbErrorCounts
  <2>3. QED
    BY <2>1, <2>2 DEF Freeze
<1>7. /\ AccountTypes' /\ Sums'
      /\ ledger' = IF froze THEN [ledger EXCEPT ![r] = {"FREEZE"}] ELSE ledger
  <2>1. EndTransaction(r)
    BY DEF Freeze
  <2>2. CASE froze
    BY <1>4, <1>5, <1>6, <2>1, <2>2, FreezeKeepsSums
  <2>3. CASE ~froze
    BY <1>5, <1>6, <2>1, <2>3, TransactionEnds, BooksKept DEF books
  <2>4. QED
    BY <2>2, <2>3
<1>8. RequestTypes'
  BY <1>1, <1>2, <1>5, <1>6 DEF RequestTypes
<1>9. ledger[r] \in SUBSET Entry /\ ledger \in [Trace -> SUBSET Entry]
  BY DEF GalleryInv, AccountTypes
<1>10. Local(r)'
  <2>1. pc'[r] = p /\ owes'[r] = owing /\ ledger'[r] = IF froze THEN {"FREEZE"} ELSE {}
    BY <1>1, <1>4, <1>5, <1>7, <1>9 DEF RequestTypes
  <2>2. Truthful(r)' /\ IdleIsNew(r)'
    BY <1>1, <1>2, <1>3, <1>4, <2>1 DEF Local, Truthful, IdleIsNew
  <2>3. Books(r)'
    BY <1>1, <1>2, <1>4, <1>5, <2>1, NullAssumption DEF Local, Books
  <2>4. QED
    BY <2>2, <2>3 DEF Local
<1>11. \A q \in Trace : Local(q)'
  BY <1>1, <1>2, <1>3, <1>5, <1>6, <1>7, <1>10, OthersUntouched
<1>12. Mail'
  BY <1>1, <1>2, <1>4, <1>5 DEF GalleryInv, RequestTypes, Mail
<1>13. QED
  BY <1>2, <1>3, <1>7, <1>8, <1>11, <1>12, WorkKept DEF GalleryInv

\* The two ends of a request.
LEMMA ReturnKeeps ==
  ASSUME NEW r \in Trace, GalleryInv, Settle(r) \/ Refund(r)
  PROVE  GalleryInv'
<1> USE DEF Registered, InProgress, PC
<1>1. SchedulerInv /\ RequestTypes /\ Local(r) /\ AccountTypes
  BY DEF GalleryInv
<1>2. UNCHANGED <<scheduler, work, actual, owes, reply, ctxOver, crashes>> /\ EndTransaction(r)
  BY DEF Settle, Refund
<1>3. SchedulerInv' /\ key' = key /\ \A t \in Trace : Past(t) => Past(t)'
  BY <1>1, <1>2, LifeStepKeeps, UnchangedIsLifeStep
<1>4. /\ pc[r] \in {"settling", "refunding"}
      /\ pc' = [pc EXCEPT ![r] = "done"]
      /\ waiters' = [t \in Trace |-> waiters[t] \ {r}]
      /\ inbox' = [inbox EXCEPT ![r] = "none"]
  BY DEF Settle, Refund, Return, Goto
<1>5. /\ ledger[r] \subseteq {"FREEZE"} /\ actual[r] # NoTrace
      /\ pc[r] = "settling" => "FREEZE" \in ledger[r] /\ Past(r)
  BY <1>1, <1>4 DEF Local, Truthful, Books
<1>6. dbFaults' \in Nat /\ (dbFaults' = 0 => dbFaults = 0)
  <2>1. CASE UNCHANGED dbFaults
    BY <1>1, <2>1 DEF RequestTypes
  <2>2. CASE DbError(r)
    BY <1>1, <2>2, DbErrorCounts
  <2>3. QED
    BY <2>1, <2>2 DEF Settle, Refund, CommitOrRollBack
<1>7. PICK booked \in BOOLEAN :
        /\ booked => /\ IF pc[r] = "settling" THEN SettleTask(r) ELSE RefundTask(r)
                     /\ dbFaults' = 0 => "FREEZE" \in ledger[r]
        /\ ~booked => UNCHANGED books /\ (dbFaults' = 0 /\ ~ctxOver[r] => "FREEZE" \notin ledger[r])
  <2>1. CASE Settle(r)
    <3>1. pc[r] = "settling"
      BY <2>1 DEF Settle
    <3>2. CASE SettleTask(r)
      BY <1>5, <3>1, <3>2
    <3>3. CASE DbError(r) /\ UNCHANGED books
      BY <1>1, <3>3, DbErrorCounts
    <3>4. QED
      BY <2>1, <3>2, <3>3 DEF Settle, CommitOrRollBack
  <2>2. CASE Refund(r)
    <3>1. pc[r] = "refunding"
      BY <2>2 DEF Refund
    <3>2. CASE ~ctxOver[r] /\ UNCHANGED dbFaults /\ RefundTask(r)
      BY <1>1, <3>1, <3>2 DEF Local, Books
    <3>3. CASE DbError(r) /\ UNCHANGED books
      BY <1>1, <3>3, DbErrorCounts
    <3>4. QED
      BY <2>2, <3>2, <3>3 DEF Refund, CommitOrRollBack
  <2>3. QED
    BY <2>1, <2>2
<1>8. /\ AccountTypes' /\ Sums'
      /\ \A q \in Trace \ {r} : ledger'[q] = ledger[q]
      /\ "DEDUCT" \in ledger'[r] => Past(r)
      /\ dbFaults' = 0 /\ ~ctxOver[r] => ~Reserved(r)'
  <2>1. CASE booked
    <3>1. DEFINE settle == pc[r] = "settling"
    <3>2. settle \in BOOLEAN /\ IF settle THEN SettleTask(r) ELSE RefundTask(r)
      BY <1>7, <2>1
    <3>3. /\ AccountTypes' /\ Sums'
          /\ \A q \in Trace \ {r} : ledger'[q] = ledger[q]
          /\ settle <=> "DEDUCT" \in ledger'[r]
          /\ ledger'[r] \cap {"DEDUCT", "REFUND"} # {}
      BY <1>2, <1>5, <1>6, <1>7, <2>1, <3>2, UnfreezeKeepsSums
    <3>4. QED
      BY <1>5, <3>3 DEF Reserved
  <2>2. CASE ~booked
    <3>1. AccountTypes' /\ Sums' /\ ledger' = ledger
      BY <1>2, <1>6, <1>7, <2>2, TransactionEnds, BooksKept DEF books
    <3>2. QED
      BY <1>5, <1>7, <2>2, <3>1 DEF Reserved
  <2>3. QED
    BY <2>1, <2>2
<1>9. RequestTypes'
  BY <1>1, <1>2, <1>4, <1>6 DEF RequestTypes
<1>10. Local(r)'
  <2>1. pc'[r] = "done"
    BY <1>1, <1>4 DEF RequestTypes
  <2>2. actual'[r] = actual[r] /\ inbox'[r] = "none" /\ reply'[r] = reply[r]
    BY <1>1, <1>2, <1>4 DEF RequestTypes
  <2>3. Truthful(r)'
    <3>1. "DEDUCT" \in ledger'[r] => Past(r)'
      BY <1>3, <1>8
    <3>2. actual[r] \in Trace
      BY <1>1, <1>5 DEF RequestTypes
    <3>3. QED
      BY <1>1, <1>3, <1>5, <2>1, <2>2, <3>1, <3>2 DEF Local, Truthful
  <2>4. IdleIsNew(r)'
    BY <2>1 DEF IdleIsNew
  <2>5. Books(r)'
    BY <1>2, <1>8, <2>1 DEF Books
  <2>6. QED
    BY <2>3, <2>4, <2>5 DEF Local
<1>11. \A q \in Trace : Local(q)'
  BY <1>1, <1>2, <1>3, <1>4, <1>6, <1>8, <1>10, OthersUntouched DEF RequestTypes
<1>12. Mail'
  BY <1>1, <1>2, <1>4 DEF GalleryInv, RequestTypes, Mail
<1>13. QED
  BY <1>2, <1>3, <1>8, <1>9, <1>11, <1>12, WorkKept DEF GalleryInv

-----------------------------------------------------------------------------
(* Results, and the restart.                                               *)

\* The end of a wait, by a result or by the deadline.
LEMMA AnswerKeeps ==
  ASSUME NEW r \in Trace, GalleryInv, ReceiveResult(r) \/ TimeOut(r)
  PROVE  GalleryInv'
<1> USE DEF Registered, InProgress, PC
<1>1. SchedulerInv /\ RequestTypes /\ Local(r)
  BY DEF GalleryInv
<1>2. UNCHANGED <<scheduler, work, actual, owes, ctxOver, ledger, account, dbFaults, crashes>>
  BY DEF ReceiveResult, TimeOut, account, books, faults
<1>3. SchedulerInv' /\ key' = key /\ \A t \in Trace : Past(t) => Past(t)'
  BY <1>1, <1>2, LifeStepKeeps, UnchangedIsLifeStep
<1>4. pc[r] = "waiting" /\ actual[r] \in Trace /\ (inbox[r] = "success" => Past(actual[r]))
  BY <1>1 DEF ReceiveResult, TimeOut, RequestTypes, Local, Truthful, Books
<1> DEFINE Answers(p, a) ==
      /\ pc' = [pc EXCEPT ![r] = p] /\ reply' = [reply EXCEPT ![r] = a]
      /\ inbox' = [inbox EXCEPT ![r] = "none"]
      /\ waiters' = IF p = "done" THEN [t \in Trace |-> waiters[t] \ {r}] ELSE waiters
      /\ a = "url" => inbox[r] = "success"
      /\ p = "settling" => actual[r] = r /\ inbox[r] = "success"
      /\ p = "refunding" => owes[r]
      /\ p = "done" => ~owes[r]
<1>5. PICK p \in {"settling", "refunding", "done"}, a \in {"url", "error"} : Answers(p, a)
  <2>1. ASSUME Leave(r), NEW a \in {"url", "error"}, reply' = [reply EXCEPT ![r] = a],
               a = "url" => inbox[r] = "success"
        PROVE  Answers("refunding", a) \/ Answers("done", a)
    BY <2>1 DEF Leave, Refunds, Return, Goto
  <2>2. ASSUME actual[r] = r, inbox[r] = "success", Goto(r, "settling"),
               inbox' = [inbox EXCEPT ![r] = "none"], UNCHANGED waiters,
               reply' = [reply EXCEPT ![r] = "url"]
        PROVE  Answers("settling", "url")
    BY <2>2 DEF Goto
  <2>3. CASE TimeOut(r)
    <3>1. Answers("refunding", "error") \/ Answers("done", "error")
      BY <2>1, <2>3 DEF TimeOut
    <3>2. QED
      BY <3>1
  <2>4. CASE ReceiveResult(r)
    <3>1. CASE actual[r] = r /\ inbox[r] = "success"
      <4>1. Answers("settling", "url")
        BY <2>2, <2>4, <3>1 DEF ReceiveResult
      <4>2. QED
        BY <4>1
    <3>2. CASE ~(actual[r] = r /\ inbox[r] = "success")
      <4>1. PICK a \in {"url", "error"} : /\ reply' = [reply EXCEPT ![r] = a] /\ Leave(r)
                                          /\ a = "url" => inbox[r] = "success"
        BY <2>4, <3>2 DEF ReceiveResult
      <4>2. Answers("refunding", a) \/ Answers("done", a)
        BY <2>1, <4>1
      <4>3. QED
        BY <4>2
    <3>3. QED
      BY <3>1, <3>2
  <2>5. QED
    BY <2>3, <2>4
<1>6. RequestTypes'
  BY <1>1, <1>2, <1>5 DEF RequestTypes
<1>7. Local(r)'
  <2>1. inbox'[r] = "none" /\ pc'[r] = p /\ reply'[r] = a
    BY <1>1, <1>5 DEF RequestTypes
  <2>2. "DEDUCT" \notin ledger[r]
    BY <1>1, <1>4 DEF Local, Books
  <2>3. Truthful(r)' /\ IdleIsNew(r)'
    BY <1>2, <1>3, <1>4, <1>5, <2>1, <2>2 DEF Truthful, IdleIsNew
  <2>4. Books(r)'
    BY <1>1, <1>2, <1>4, <1>5, <2>1 DEF Local, Books, Reserved
  <2>5. QED
    BY <2>3, <2>4 DEF Local
<1>8. \A q \in Trace : Local(q)'
  BY <1>1, <1>2, <1>3, <1>5, <1>7, OthersUntouched DEF RequestTypes
<1>9. Mail'
  BY <1>1, <1>2, <1>4, <1>5 DEF GalleryInv, RequestTypes, Mail
<1>10. QED
  BY <1>2, <1>3, <1>6, <1>8, <1>9, SumsKept, WorkKept DEF GalleryInv

LEMMA ReadAccountKeeps ==
  ASSUME NEW r \in Trace, GalleryInv, ReadAccount(r)
  PROVE  GalleryInv'
<1>1. UNCHANGED <<scheduler, work, pc, actual, owes, reply, ctxOver, waiters, inbox, books, ledger,
                  dbFaults, crashes>>
  BY DEF ReadAccount, locals, mailbox, books, faults
<1>2. SchedulerInv' /\ key' = key /\ \A t \in Trace : Past(t) => Past(t)'
  BY <1>1, LifeStepKeeps, UnchangedIsLifeStep DEF GalleryInv
<1>3. RequestTypes' /\ Mail'
  BY <1>1 DEF GalleryInv, RequestTypes, Mail
<1>4. ASSUME NEW q \in Trace PROVE Local(q)'
  BY <1>1, <1>2, Untouched DEF GalleryInv, RequestTypes
<1>5. /\ memo' \in [Trace -> SUBSET Account]
      /\ \A q \in Trace : \A row \in memo'[q] : row \in memo[q] \/ row = Row
  BY DEF GalleryInv, AccountTypes, Account, ReadAccount, Row
<1>6. AccountTypes' /\ Sums'
  BY <1>1, <1>5, BooksKept
<1>7. QED
  BY <1>1, <1>2, <1>3, <1>4, <1>6, WorkKept DEF GalleryInv

\* Who hears of a result waits for it, and nobody else's channel is touched.
LEMMA NotifyReaches ==
  ASSUME NEW t \in Trace, NEW result \in {"success", "failure"}, RequestTypes, Mail,
         Notify(t, result)
  PROVE  /\ waiters' \in [Trace -> SUBSET Trace]
         /\ inbox' \in [Trace -> {"none", "success", "failure"}]
         /\ \A q \in Trace : \/ inbox'[q] = inbox[q]
                             \/ inbox'[q] = result /\ actual[q] = t /\ pc[q] \in Registered
         /\ \A u \in Trace : \A q \in waiters'[u] :
              q \in waiters[u] /\ u # t /\ inbox'[q] = inbox[q]
<1>1. waiters' \in [Trace -> SUBSET Trace] /\ inbox' \in [Trace -> {"none", "success", "failure"}]
  BY DEF Notify, RequestTypes
<1>2. ASSUME NEW q \in Trace
      PROVE  \/ inbox'[q] = inbox[q]
             \/ inbox'[q] = result /\ actual[q] = t /\ pc[q] \in Registered
  BY DEF Notify, RequestTypes, Mail
<1>3. ASSUME NEW u \in Trace, NEW q \in waiters'[u]
      PROVE  q \in waiters[u] /\ u # t /\ inbox'[q] = inbox[q]
  BY DEF Notify, RequestTypes, Mail
<1>4. QED
  BY <1>1, <1>2, <1>3

\* A request whose channel gets a result of its task.
LEMMA Delivered ==
  ASSUME NEW q \in Trace, NEW t \in Trace, NEW result \in {"success", "failure"}, GalleryInv,
         inbox'[q] = inbox[q] \/ (inbox'[q] = result /\ actual[q] = t /\ pc[q] \in Registered),
         result = "success" => Past(t),
         UNCHANGED <<scheduler, pc, actual, owes, reply, ctxOver, ledger, dbFaults, crashes>>
  PROVE  Local(q)'
<1> USE DEF Registered, PC
<1>1. SchedulerInv /\ RequestTypes /\ Local(q)
  BY DEF GalleryInv
<1>2. key' = key /\ \A u \in Trace : Past(u) => Past(u)'
  BY <1>1, LifeStepKeeps, UnchangedIsLifeStep
<1>3. inbox'[q] = "success" => Past(actual[q])
  BY <1>1 DEF Local, Truthful
<1>4. actual[q] \in Trace \cup {NoTrace}
  BY <1>1 DEF RequestTypes
<1>5. Truthful(q)'
  BY <1>1, <1>2, <1>3, <1>4, NullAssumption DEF Local, Truthful
<1>6. IdleIsNew(q)' /\ Books(q)'
  BY <1>1, <1>2 DEF Local, IdleIsNew, Books, Reserved
<1>7. QED
  BY <1>5, <1>6 DEF Local

LEMMA NotifyResultKeeps ==
  ASSUME NEW t \in Trace, NEW n \in Node, GalleryInv, NotifyResult(t, n)
  PROVE  GalleryInv'
<1>1. SchedulerInv /\ RequestTypes /\ Mail /\ WorkTrue
  BY DEF GalleryInv
<1>2. UNCHANGED <<scheduler, pc, actual, owes, reply, ctxOver, ledger, account,
                  dbFaults, crashes>>
  BY DEF NotifyResult, locals, account, books, faults
<1>3. SchedulerInv' /\ key' = key /\ \A u \in Trace : Past(u) => Past(u)'
  BY <1>1, <1>2, LifeStepKeeps, UnchangedIsLifeStep
<1>4. PICK result \in {"success", "failure"} :
        Notify(t, result) /\ (result = "success" => Past(t))
  BY <1>1 DEF NotifyResult, WorkTrue
<1>5. RequestTypes'
  BY <1>1, <1>2, <1>4, NotifyReaches DEF RequestTypes
<1>6. \A q \in Trace : Local(q)'
  BY <1>1, <1>2, <1>4, NotifyReaches, Delivered
<1>7. Mail'
  BY <1>1, <1>2, <1>4, NotifyReaches DEF RequestTypes, Mail
<1>8. WorkTrue'
  <2>1. LifeStep /\ SetWork(t, n, "none")
    BY <1>2, UnchangedIsLifeStep DEF NotifyResult
  <2>2. QED
    BY <2>1, SetWorkKeeps DEF Work
<1>9. QED
  BY <1>2, <1>3, <1>5, <1>6, <1>7, <1>8, SumsKept DEF GalleryInv, account

LEMMA NotifyRejectedKeeps ==
  ASSUME NEW r \in Trace, GalleryInv, NotifyRejected(r)
  PROVE  GalleryInv'
<1> USE DEF Registered, InProgress, PC
<1>1. SchedulerInv /\ RequestTypes /\ Mail /\ \A q \in Trace : Local(q)
  BY DEF GalleryInv
<1>2. UNCHANGED <<scheduler, work, actual, owes, ctxOver, ledger, account,
                  dbFaults, crashes>>
  BY DEF NotifyRejected, account, books, faults
<1>3. SchedulerInv' /\ key' = key /\ \A u \in Trace : Past(u) => Past(u)'
  BY <1>1, <1>2, LifeStepKeeps, UnchangedIsLifeStep
<1>4. /\ pc[r] = "notifying" /\ Notify(r, "failure")
      /\ pc' = [pc EXCEPT ![r] = IF owes[r] THEN "refunding" ELSE "done"]
      /\ reply' = [reply EXCEPT ![r] = "error"]
  BY DEF NotifyRejected, Refunds, Goto
<1>5. /\ waiters' \in [Trace -> SUBSET Trace]
      /\ inbox' \in [Trace -> {"none", "success", "failure"}]
      /\ \A q \in Trace : \/ inbox'[q] = inbox[q]
                          \/ inbox'[q] = "failure" /\ actual[q] = r /\ pc[q] \in Registered
      /\ \A u \in Trace : \A q \in waiters'[u] :
           q \in waiters[u] /\ u # r /\ inbox'[q] = inbox[q]
  BY <1>1, <1>4, NotifyReaches
<1>6. RequestTypes'
  BY <1>1, <1>2, <1>4, <1>5 DEF RequestTypes
<1>7. ASSUME NEW q \in Trace PROVE Local(q)'
  <2>1. actual[q] \in Trace \cup {NoTrace} /\ Local(q)
    BY <1>1 DEF RequestTypes
  <2>2. q # r => pc'[q] = pc[q] /\ reply'[q] = reply[q]
    BY <1>1, <1>4 DEF RequestTypes
  <2>3. q = r => /\ pc'[q] = IF owes[q] THEN "refunding" ELSE "done"
                 /\ pc[q] = "notifying" /\ reply'[q] = "error"
    BY <1>1, <1>4 DEF RequestTypes
  <2>4. inbox'[q] = "success" => inbox[q] = "success"
    BY <1>5
  <2>5. inbox'[q] # "none" => pc[q] \in Registered \cup {"done"} /\ actual[q] # NoTrace
    BY <1>5, <2>1, NullAssumption DEF Local, Truthful
  <2>6. Truthful(q)'
    BY <1>2, <1>3, <2>1, <2>2, <2>3, <2>4, <2>5, NullAssumption DEF Local, Truthful
  <2>7. IdleIsNew(q)'
    BY <1>2, <1>3, <2>1, <2>2, <2>3 DEF Local, IdleIsNew
  <2>8. Books(q)'
    BY <1>2, <2>1, <2>2, <2>3 DEF Local, Books, Reserved
  <2>9. QED
    BY <2>6, <2>7, <2>8 DEF Local
<1>8. Mail'
  <2>1. actual[r] = r
    BY <1>1, <1>4 DEF Local, Books
  <2>2. QED
    BY <1>1, <1>2, <1>4, <1>5, <2>1 DEF RequestTypes, Mail
<1>9. QED
  BY <1>2, <1>3, <1>6, <1>7, <1>8, SumsKept, WorkKept DEF GalleryInv, account

LEMMA ServerCrashKeeps == GalleryInv /\ ServerCrash => GalleryInv'
<1> SUFFICES ASSUME GalleryInv, ServerCrash PROVE GalleryInv'
  OBVIOUS
<1> USE DEF Registered, InProgress, PC
<1>1. SchedulerInv /\ RequestTypes /\ WorkTrue
  BY DEF GalleryInv
<1>2. UNCHANGED <<scheduler, books, ledger, dbFaults>>
  BY DEF ServerCrash, books
<1>3. SchedulerInv' /\ key' = key /\ \A u \in Trace : Past(u) => Past(u)'
  BY <1>1, <1>2, LifeStepKeeps, UnchangedIsLifeStep
<1>4. /\ pc' = [r \in Trace |-> IF pc[r] \in InProgress THEN "done" ELSE pc[r]]
      /\ actual' = [r \in Trace |-> IF pc[r] \in InProgress THEN NoTrace ELSE actual[r]]
      /\ owes' = [r \in Trace |-> IF pc[r] \in InProgress THEN FALSE ELSE owes[r]]
      /\ reply' = [r \in Trace |-> IF pc[r] \in InProgress THEN "none" ELSE reply[r]]
      /\ ctxOver' = [r \in Trace |-> IF pc[r] \in InProgress THEN FALSE ELSE ctxOver[r]]
      /\ waiters' = [t \in Trace |-> {}] /\ inbox' = [r \in Trace |-> "none"]
  BY DEF ServerCrash
<1>5. crashes' \in Nat /\ crashes' # 0
  BY <1>1 DEF ServerCrash, RequestTypes
<1>6. RequestTypes' /\ Mail'
  BY <1>1, <1>2, <1>4, <1>5 DEF RequestTypes, Mail
<1>7. ASSUME NEW q \in Trace PROVE Local(q)'
  <2>1. actual[q] \in Trace \cup {NoTrace} /\ Local(q)
    BY <1>1 DEF GalleryInv, RequestTypes
  <2>2. /\ pc'[q] \in {"idle", "done"} /\ inbox'[q] = "none"
        /\ pc'[q] = "idle" => /\ pc[q] = "idle" /\ actual'[q] = actual[q]
                              /\ reply'[q] = reply[q] /\ owes'[q] = owes[q]
        /\ \/ actual'[q] = NoTrace /\ reply'[q] = "none"
           \/ actual'[q] = actual[q] /\ reply'[q] = reply[q]
    BY <1>1, <1>4 DEF RequestTypes
  <2>3. Truthful(q)' /\ IdleIsNew(q)'
    BY <1>2, <1>3, <2>1, <2>2, NullAssumption DEF Local, Truthful, IdleIsNew
  <2>4. Books(q)'
    BY <1>2, <1>5, <2>1, <2>2 DEF Local, Books
  <2>5. QED
    BY <2>3, <2>4 DEF Local
<1>8. WorkTrue'
  BY <1>1, <1>3 DEF ServerCrash, WorkTrue, Work
<1>9. AccountTypes' /\ Sums'
  <2>1. memo' = [r \in Trace |-> {}]
    BY DEF ServerCrash
  <2>2. QED
    BY <1>2, <2>1, BooksKept
<1>10. QED
  BY <1>3, <1>6, <1>7, <1>8, <1>9 DEF GalleryInv

-----------------------------------------------------------------------------
(* Every step, and the theorems.                                           *)

LEMMA GalleryInvNext == GalleryInv /\ [Next]_vars => GalleryInv'
<1> SUFFICES ASSUME GalleryInv, [Next]_vars PROVE GalleryInv'
  OBVIOUS
<1>1. ASSUME NEW r \in Trace, NEW k \in Key, NEW force \in BOOLEAN, PublishTask(r, k, force)
      PROVE  GalleryInv'
  BY <1>1, PublishTaskKeeps
<1>2. ASSUME NEW r \in Trace, Proceed(r) \/ EndContext(r)
      PROVE  GalleryInv'
  BY <1>2, RegisterKeeps, QuietStepsKeep, ReadAccountKeeps, FreezeKeeps, ReturnKeeps,
     NotifyRejectedKeeps, AnswerKeeps DEF Proceed
<1>3. ASSUME NEW t \in Trace, NEW n \in Node,
             \/ HandleFetchTask(t, n) \/ HandleSuccess(t, n)
             \/ HandleFailure(t, n) \/ NotifyResult(t, n)
      PROVE  GalleryInv'
  BY <1>3, NodeKeeps, NotifyResultKeeps
<1>4. CASE Recover \/ ServerCrash
  BY <1>4, RecoverKeeps, ServerCrashKeeps
<1>5. CASE UNCHANGED vars
  <2>1. LifeStep /\ work' = work
    BY <1>5, UnchangedIsLifeStep DEF vars
  <2>2. WorkTrue'
    BY <2>1, LifeStepKeeps, WorkKept DEF GalleryInv
  <2>3. QED
    BY <1>5, <2>1, <2>2, QuietNode DEF vars
<1>6. QED
  BY <1>1, <1>2, <1>3, <1>4, <1>5 DEF Next

LEMMA GallerySafe == Spec => []GalleryInv
  BY GalleryInvInit, GalleryInvNext, PTL DEF Spec

\* Every variable has its type, however requests, nodes and restarts mix.
THEOREM GalleryTypes == Spec => []TypeOK
<1>1. GalleryInv => TypeOK
  BY DEF GalleryInv, SchedulerInv, SchedulerTypes, RequestTypes, AccountTypes, Account, Entry,
         WorkTrue, TypeOK
<1>2. QED
  BY <1>1, GallerySafe, PTL

\* service/gallery.go against balance/service.go: no interleaving of requests,
\* collapsed or not, refunds a task twice or settles and refunds it, and however
\* the account's transactions overlap, a settled task is paid at most once.
THEOREM AccountAlwaysMatches == Spec => []AccountMatchesLedger
<1>1. GalleryInv => AccountMatchesLedger
  BY DEF GalleryInv, Sums, Paid, Deducted, ReservedTasks, Count, AccountMatchesLedger
<1>2. QED
  BY <1>1, GallerySafe, PTL

\* FreezeGP's test against the available balance is enough for requests that
\* share the account one transaction after the other, collapsed, settled,
\* refunded or timed out in any order.  It is not enough once a transaction has
\* written over a row that another changed meanwhile.
THEOREM NeverOverspends == Spec => []NeverOverdrawn
<1>1. GalleryInv => NeverOverdrawn
  BY DEF GalleryInv, AccountTypes, Sums, NeverOverdrawn
<1>2. QED
  BY <1>1, GallerySafe, PTL

\* What the user pays for has been completed, whatever late or refused reports
\* of other nodes follow.
THEOREM OnlyCompletedIsPaid == Spec => []PaidOnlyIfCompleted
<1>1. GalleryInv => PaidOnlyIfCompleted
  BY DEF GalleryInv, Local, Truthful, Past, PaidOnlyIfCompleted
<1>2. QED
  BY <1>1, GallerySafe, PTL

\* A success that ResultWaiter delivers, to creators and collapsed requests
\* alike, is one that LuaCompleteTask accepted.
THEOREM UrlsAreReal == Spec => []SuccessIsTrue
<1>1. GalleryInv => SuccessIsTrue
  BY DEF GalleryInv, Local, Truthful, Past, SuccessIsTrue
<1>2. QED
  BY <1>1, GallerySafe, PTL

\* The select with default in ResultWaiter.Notify never takes its default.
THEOREM NoResultDropped == Spec => []NotifyNeverDrops
<1>1. GalleryInv => NotifyNeverDrops
  BY DEF GalleryInv, Mail, Registered, InProgress, PC, NotifyNeverDrops
<1>2. QED
  BY <1>1, GallerySafe, PTL

\* Every return of ParseGallery settles or refunds what its setup reserved, as
\* long as the database, the server and the context last.
THEOREM ReservationsAreClosed == Spec => []ReservationClosed
<1>1. GalleryInv => ReservationClosed
  BY DEF GalleryInv, Local, Books, ReservationClosed
<1>2. QED
  BY <1>1, GallerySafe, PTL

-----------------------------------------------------------------------------
(* The services that a request uses.                                       *)

\* ParseGallery and the hub change the task keys of Redis by the scheduler's
\* operations alone, so that they are a user of the lifecycle that Scheduler.tla
\* implements.
THEOREM GalleryKeepsLifecycle == Spec => Life!Spec
<1>1. LifeStep => [Life!Next]_(Life!vars)
  BY DEF LifeStep, Life!Next, Life!vars, scheduler
<1>2. ASSUME NEW r \in Trace, NEW k \in Key, NEW force \in BOOLEAN, PublishTask(r, k, force)
      PROVE  [Life!Next]_(Life!vars)
  BY <1>2 DEF PublishTask, Life!Next, Life!vars, scheduler
<1>3. ASSUME NEW r \in Trace, Proceed(r) \/ EndContext(r)
      PROVE  LifeStep
  BY <1>3 DEF Proceed, EndContext, Register, ResolveFails, ReadAccount, Freeze, Announce,
              AnnounceFails, RejectTask, NotifyRejected, ReceiveResult, TimeOut, Settle, Refund,
              LifeStep, scheduler
<1>4. ASSUME NEW t \in Trace, NEW n \in Node,
             \/ HandleFetchTask(t, n) \/ HandleSuccess(t, n)
             \/ HandleFailure(t, n) \/ NotifyResult(t, n)
      PROVE  LifeStep
  BY <1>4 DEF HandleFetchTask, HandleSuccess, HandleFailure, NotifyResult,
              LifeStep, scheduler
<1>5. Recover \/ ServerCrash \/ UNCHANGED vars => LifeStep
  BY DEF Recover, ServerCrash, LifeStep, scheduler, vars
<1>6. [Next]_vars => [Life!Next]_(Life!vars)
  BY <1>1, <1>2, <1>3, <1>4, <1>5 DEF Next
<1>7. QED
  BY <1>6, PTL DEF Spec, Init, Life!Spec

\* The user's account as a row of the balance service.
Held == [balance |-> balance, frozen |-> frozen]

Service == INSTANCE Account WITH account <- Held, NoAccount <- NoTrace, Reward <- 0

AccountOperation ==
  \E op \in {"freeze", "settle", "refund"} :
    Service!Permits(op, Held) /\ Held' = Service!Apply(op, Held)

\* A transaction that writes back what is still there is an operation on it.
LEMMA TransactionsAreOperations ==
  ASSUME NEW r \in Trace, AccountTypes, FreezeGP(r) \/ SettleTask(r) \/ RefundTask(r)
  PROVE  AccountOperation \/ overwritten'
<1> SUFFICES ASSUME ~overwritten' PROVE AccountOperation
  OBVIOUS
<1> USE DEF AccountOperation, Service!Permits, Service!Apply, Service!Unfreeze, Held
<1>1. ASSUME NEW row \in memo[r], NEW new, Save(r, new)
      PROVE  row = Held /\ Held' = [balance |-> new.balance, frozen |-> new.frozen]
  BY <1>1 DEF Save, Row
<1>2. \A row \in memo[r] : \A x \in Int :
        [row EXCEPT !.frozen = x] = [balance |-> row.balance, frozen |-> x]
  BY DEF AccountTypes, Account
<1>3. \A row \in memo[r] : row.frozen + EstimatedGP \in Int /\ Unfreeze(row) \in Int
  BY GalleryAssumption DEF AccountTypes, Account, Unfreeze
<1>4. CASE FreezeGP(r)
  <2>1. PICK row \in memo[r] :
          /\ row.balance - row.frozen >= EstimatedGP
          /\ Save(r, [balance |-> row.balance, frozen |-> row.frozen + EstimatedGP])
    BY <1>2, <1>3, <1>4 DEF FreezeGP, Available
  <2>2. row = Held /\ Held' = [balance |-> row.balance, frozen |-> row.frozen + EstimatedGP]
    BY <1>1, <2>1
  <2>3. QED
    BY <2>1, <2>2
<1>5. CASE SettleTask(r)
  BY <1>1, <1>5 DEF SettleTask, Unfreeze
<1>6. CASE RefundTask(r)
  <2>1. PICK row \in memo[r] : Save(r, [balance |-> row.balance, frozen |-> Unfreeze(row)])
    BY <1>2, <1>3, <1>6 DEF RefundTask
  <2>2. row = Held /\ Held' = [balance |-> row.balance, frozen |-> Unfreeze(row)]
    BY <1>1, <2>1
  <2>3. QED
    BY <2>2 DEF Unfreeze
<1>7. QED
  BY <1>4, <1>5, <1>6

LEMMA RequestUsesService ==
  ASSUME NEW r \in Trace, AccountTypes, Proceed(r)
  PROVE  AccountOperation \/ overwritten' \/ UNCHANGED <<balance, frozen>>
<1>1. CASE Freeze(r)
  BY <1>1, TransactionsAreOperations DEF Freeze, books
<1>2. CASE Settle(r) \/ Refund(r)
  BY <1>2, TransactionsAreOperations DEF Settle, Refund, CommitOrRollBack, books
<1>3. CASE \/ Register(r) \/ ResolveFails(r) \/ ReadAccount(r) \/ Announce(r) \/ AnnounceFails(r)
           \/ RejectTask(r) \/ NotifyRejected(r) \/ ReceiveResult(r) \/ TimeOut(r)
  BY <1>3 DEF Register, ResolveFails, ReadAccount, Announce, AnnounceFails, RejectTask,
              NotifyRejected, ReceiveResult, TimeOut, account, books
<1>4. QED
  BY <1>1, <1>2, <1>3 DEF Proceed

\* Until a transaction writes over a row that another has changed, what
\* ParseGallery does to the account, retries, lost answers and refunds of failed
\* freezes included, is a FreezeGP that is permitted, a SettleTask or a
\* RefundTask as Account.tla has them, which Balance.tla implements.
THEOREM OnlyAccountOperations == Spec => [][AccountOperation \/ overwritten']_<<balance, frozen>>
<1>1. ASSUME NEW r \in Trace, NEW k \in Key, NEW force \in BOOLEAN, PublishTask(r, k, force)
      PROVE  UNCHANGED <<balance, frozen>>
  BY <1>1 DEF PublishTask, account, books
<1>2. ASSUME NEW r \in Trace, EndContext(r)
      PROVE  UNCHANGED <<balance, frozen>>
  BY <1>2 DEF EndContext, account, books
<1>3. ASSUME NEW t \in Trace, NEW n \in Node,
             \/ HandleFetchTask(t, n) \/ HandleSuccess(t, n)
             \/ HandleFailure(t, n) \/ NotifyResult(t, n)
      PROVE  UNCHANGED <<balance, frozen>>
  BY <1>3 DEF HandleFetchTask, HandleSuccess, HandleFailure, NotifyResult, account, books
<1>4. Recover \/ ServerCrash \/ UNCHANGED vars => UNCHANGED <<balance, frozen>>
  BY DEF Recover, ServerCrash, account, books, vars
<1>5. GalleryInv /\ [Next]_vars => [AccountOperation \/ overwritten']_<<balance, frozen>>
  BY <1>1, <1>2, <1>3, <1>4, RequestUsesService DEF Next, GalleryInv
<1>6. QED
  BY <1>5, GallerySafe, PTL DEF Spec
=============================================================================
