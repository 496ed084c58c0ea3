------------------------------ MODULE Balance ------------------------------
(***************************************************************************)
(* The balance service over PostgreSQL: every operation on one user's      *)
(* account is a transaction that reads the row (First), computes in the    *)
(* process and writes the whole row back (Save).  Nothing asks for a lock  *)
(* on the read or for an isolation level, so the database runs them READ   *)
(* COMMITTED: a read never waits, and an UPDATE or INSERT of the row waits *)
(* for the transaction that wrote it last, then writes over its result.    *)
(*                                                                         *)
(* A ledger row conflicts with nothing.  It gets its id, from a sequence   *)
(* that no rollback turns back, when it is inserted, and others see it     *)
(* from the commit on.  SettleTask inserts its two rows before Save takes  *)
(* the lock; the others insert theirs after it.                            *)
(***************************************************************************)
EXTENDS Integers, Sequences, FiniteSets, FiniteSetsExt

CONSTANTS
  Deposit,      \* calls of Deposit (an admin's grant, a check-in)
  Task,         \* parse requests that freeze, and then settle or refund
  Reader,       \* calls of GetAccount
  NoCall,       \* nobody has the row locked
  NoAccount, Reward, EstimatedGP,
  Connections,  \* SetMaxOpenConns
  DbFaults      \* TRUE: a statement or a commit may fail

Call == Deposit \cup Task \cup Reader

\* What the columns of a row hold.
Rows == [balance : Int, frozen : Nat]

ASSUME BalanceAssumption ==
  /\ NoCall \notin Call /\ NoAccount \notin Rows
  /\ Reader \cap (Deposit \cup Task) = {}
  /\ Reward \in Nat /\ EstimatedGP \in Nat
  /\ Connections \in Nat \ {0}
  /\ DbFaults \in BOOLEAN

VARIABLES
  account,   \* the committed row
  ledger,    \* the committed rows of the transactions table, by their ids
  rows,      \* rows[c]: the rows c has inserted in its open transaction
  nextId,    \* the sequence of the transactions table
  overtaken, \* the last commit was of a settlement whose rows are not the newest
  locker,    \* the transaction whose change of the row is not committed
  op,        \* op[c]: the operation c runs or ran last
  pc,        \* pc[c]: where it is, or how it returned
  acc,       \* acc[c]: the row that c has read, or created
  overlapped \* two transactions have been open at a time

table == <<ledger, nextId, overtaken>>
vars == <<account, table, rows, locker, op, pc, acc, overlapped>>

A == INSTANCE Account

\* "unfreeze": the first row of a settlement is next; "insert": the last, or
\* only, row of an operation is.
InTx == {"first", "create", "unfreeze", "insert", "save", "commit"}
Returned == {"ok", "poor", "failed"}

Init ==
  /\ account = NoAccount /\ locker = NoCall
  /\ ledger = <<>> /\ nextId = 1 /\ overtaken = FALSE
  /\ rows = [c \in Call |-> <<>>]
  /\ op = [c \in Call |-> "none"]
  /\ pc = [c \in Call |-> "idle"]
  /\ acc = [c \in Call |-> NoAccount]
  /\ overlapped = FALSE

\* Statements outside a transaction take a connection for as long as they run.
Transactions == {c \in Call \ Reader : pc[c] \in InTx}
ConnectionFree == Cardinality(Transactions) < Connections

\* What the callers do: a check-in or grant deposits once; ParseGallery
\* freezes, then settles or refunds, and refunds also after a failed freeze.
MayCall(c, o) ==
  \/ c \in Deposit /\ pc[c] = "idle" /\ o = "deposit"
  \/ c \in Reader /\ pc[c] = "idle" /\ o = "get"
  \/ c \in Task /\ pc[c] = "idle" /\ o = "freeze"
  \/ c \in Task /\ op[c] = "freeze" /\ pc[c] = "ok" /\ o \in {"settle", "refund"}
  \/ c \in Task /\ op[c] = "freeze" /\ pc[c] = "failed" /\ o = "refund"

Begin(c, o) ==
  /\ MayCall(c, o)
  /\ o # "get" => ConnectionFree
  /\ op' = [op EXCEPT ![c] = o]
  /\ pc' = [pc EXCEPT ![c] = "first"]
  /\ overlapped' = (overlapped \/ (o # "get" /\ Transactions # {}))
  /\ UNCHANGED <<account, table, rows, locker, acc>>

\* What c makes of the row it has read.
Changed(c) == A!Apply(op[c], acc[c])

\* A mutant of End: a transaction that is neither committed nor rolled back.
EndKeepsLock(c, outcome) ==
  /\ pc' = [pc EXCEPT ![c] = outcome]
  /\ rows' = [rows EXCEPT ![c] = <<>>]
  /\ UNCHANGED locker

\* The end of a transaction releases its lock.
End(c, outcome) ==
  /\ pc' = [pc EXCEPT ![c] = outcome]
  /\ rows' = [rows EXCEPT ![c] = <<>>]
  /\ locker' = IF locker = c THEN NoCall ELSE locker

First(c) ==
  /\ pc[c] = "first"
  /\ op[c] = "get" => ConnectionFree
  /\ acc' = [acc EXCEPT ![c] = account]
  /\ IF account # NoAccount
       THEN pc' = [pc EXCEPT ![c] = CASE op[c] = "get" -> "ok"
                                      [] op[c] = "settle" -> "unfreeze"
                                      [] OTHER -> "save"]
     ELSE IF op[c] = "get" \/ A!Creates(op[c])
       THEN pc' = [pc EXCEPT ![c] = "create"]
       ELSE pc' = [pc EXCEPT ![c] = "failed"]
  /\ UNCHANGED <<account, table, rows, locker, op, overlapped>>

Unlocked(c) == locker \in {NoCall, c}

\* The INSERT of getOrCreateAccountTx: it violates the unique index if the
\* row has been created since First.
CreateAccountTx(c) ==
  /\ pc[c] = "create" /\ op[c] # "get" /\ Unlocked(c)
  /\ IF account = NoAccount
       THEN /\ acc' = [acc EXCEPT ![c] = A!Empty]
            /\ locker' = c
            /\ pc' = [pc EXCEPT ![c] = "save"]
            /\ UNCHANGED rows
       ELSE End(c, "failed") /\ UNCHANGED acc
  /\ UNCHANGED <<account, table, op, overlapped>>

\* GetAccount is no transaction: the INSERT commits at once, and if it
\* violates the index the row is read again.
GetAccountCreate(c) ==
  /\ pc[c] = "create" /\ op[c] = "get" /\ Unlocked(c) /\ ConnectionFree
  /\ account' = IF account = NoAccount THEN A!Empty ELSE account
  /\ acc' = [acc EXCEPT ![c] = account']
  /\ pc' = [pc EXCEPT ![c] = "ok"]
  /\ UNCHANGED <<table, rows, locker, op, overlapped>>

\* FreezeGP returns ErrInsufficientBalance, and the transaction rolls back.
Refuse(c) ==
  /\ pc[c] = "save" /\ ~A!Permits(op[c], acc[c])
  /\ End(c, "poor")
  /\ UNCHANGED <<account, table, op, acc, overlapped>>

\* Save writes every column of the row from the process's copy.
Save(c) ==
  /\ pc[c] = "save" /\ A!Permits(op[c], acc[c]) /\ Unlocked(c)
  /\ locker' = c
  /\ pc' = [pc EXCEPT ![c] = IF op[c] = "settle" THEN "commit" ELSE "insert"]
  /\ UNCHANGED <<account, table, rows, op, acc, overlapped>>

\* The rows of t and, under other ids, those of u; t with one row more.
Merge(t, u) == [i \in DOMAIN t \cup DOMAIN u |-> IF i \in DOMAIN t THEN t[i] ELSE u[i]]
WithRow(t, id, row) == Merge([i \in {id} |-> row], t)

\* tx.Create of a ledger row.
Insert(c) ==
  /\ pc[c] \in {"unfreeze", "insert"}
  /\ LET entries == A!Entries(op[c], Changed(c))
         entry == IF pc[c] = "unfreeze" THEN entries[1] ELSE entries[Len(entries)]
     IN rows' = [rows EXCEPT ![c] = WithRow(@, nextId, entry)]
  /\ nextId' = nextId + 1
  /\ pc' = [pc EXCEPT ![c] = CASE pc[c] = "unfreeze" -> "insert"
                                [] pc[c] = "insert" /\ op[c] = "settle" -> "save"
                                [] OTHER -> "commit"]
  /\ UNCHANGED <<account, ledger, overtaken, locker, op, acc, overlapped>>

\* A commit whose answer is lost has happened all the same.
Commit(c) ==
  /\ pc[c] = "commit"
  /\ account' = Changed(c)
  /\ ledger' = Merge(rows[c], ledger)
  /\ overtaken' = /\ op[c] = "settle"
                  /\ \E j \in DOMAIN ledger : \A i \in DOMAIN rows[c] : i < j
  /\ End(c, "ok") \/ (DbFaults /\ End(c, "failed"))
  /\ UNCHANGED <<nextId, op, acc, overlapped>>

\* A mutant of Rollback: Save runs outside the transaction and stays.
RollbackKeepsRow(c) ==
  /\ DbFaults /\ pc[c] \in InTx
  /\ account' = IF locker = c THEN Changed(c) ELSE account
  /\ End(c, "failed")
  /\ UNCHANGED <<table, op, acc, overlapped>>

\* A statement fails or the context is cancelled: the transaction rolls back.
Rollback(c) ==
  /\ DbFaults /\ pc[c] \in InTx
  /\ End(c, "failed")
  /\ UNCHANGED <<account, table, op, acc, overlapped>>

Step(c) ==
  \/ First(c) \/ CreateAccountTx(c) \/ GetAccountCreate(c)
  \/ Refuse(c) \/ Save(c) \/ Insert(c) \/ Commit(c)

Next ==
  \E c \in Call : \/ Step(c) \/ Rollback(c)
                  \/ \E o \in A!Op \cup {"get"} : Begin(c, o)

Spec == Init /\ [][Next]_vars

\* Statements return, and the database serves its lock queue; none need fail.
Fairness == \A c \in Call : WF_vars(Step(c))
FairSpec == Spec /\ Fairness

-----------------------------------------------------------------------------
(* Properties.                                                             *)

LedgerRows == [type : {"DEPOSIT", "FREEZE", "UNFREEZE", "DEDUCT", "REFUND"},
               amount : Int, after : Int]

\* Rows of the ledger, under ids below next.
IsTable(t, next) == \E ids \in SUBSET (1..(next - 1)) : t \in [ids -> LedgerRows]

\* Every variable has its type; the lock is held by the one transaction that
\* has written the row and is still open.
TypeOK ==
  /\ account \in Rows \cup {NoAccount}
  /\ nextId \in Nat \ {0} /\ overtaken \in BOOLEAN
  /\ IsTable(ledger, nextId) /\ DOMAIN rows = Call /\ \A c \in Call : IsTable(rows[c], nextId)
  /\ locker \in Call \cup {NoCall}
  /\ op \in [Call -> A!Op \cup {"get", "none"}]
  /\ pc \in [Call -> {"idle"} \cup InTx \cup Returned]
  /\ acc \in [Call -> Rows \cup {NoAccount}]
  /\ overlapped \in BOOLEAN
  /\ \A c \in Call : pc[c] = "commit" => locker = c
  /\ locker # NoCall => pc[locker] \in {"save", "insert", "commit"}

\* Until two of its transactions overlap, a user's account and ledger change as
\* the service's interface says, whatever fails and whenever the row is created.
AccountSpec == A!Init /\ [][A!Next \/ overlapped']_(A!vars)

\* However transactions overlap, the newest ledger row shows the balance of
\* the account, unless the last to commit was a settlement that another
\* transaction has overtaken between its ledger rows and its lock.  No other
\* commit, and no rollback, puts an older balance under a newer row.
LastEntryShowsBalance ==
  ~overtaken =>
    \A i \in DOMAIN ledger : (\A j \in DOMAIN ledger : j <= i) =>
      account # NoAccount /\ ledger[i].after = account.balance

\* No transaction waits for ever for a lock or a connection.
TransactionsEnd == \A c \in Call : pc[c] \in InTx ~> pc[c] \in Returned

-----------------------------------------------------------------------------
(* What the comments say and the code does not do.                         *)

\* "Deposit adds GP to a user's balance", with the transaction history the
\* package keeps: deposits minus deductions is the balance.  Two overlapping
\* transactions read the same row and the later Save undoes the earlier one.
LedgerAddsUp ==
  account # NoAccount =>
    account.balance =
      MapThenSumSet(LAMBDA i : IF ledger[i].type \in {"DEPOSIT", "DEDUCT"}
                               THEN ledger[i].amount ELSE 0, DOMAIN ledger)
=============================================================================
