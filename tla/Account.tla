------------------------------ MODULE Account ------------------------------
(***************************************************************************)
(* What BalanceService promises: one user's account and its ledger change  *)
(* together, an operation at a time, and an operation puts its ledger rows *)
(* behind all the others.  Balance.tla runs each operation as the database *)
(* transaction it is, which keeps the promise until two of them overlap.   *)
(***************************************************************************)
EXTENDS Integers, Sequences

CONSTANTS
  NoAccount,     \* the user has no row in the accounts table
  Reward,        \* the amount of a deposit
  EstimatedGP    \* the amount a task freezes, and pays or gets back

VARIABLES
  account,
  ledger         \* the transactions table: its rows by their ids
vars == <<account, ledger>>

Op == {"deposit", "freeze", "settle", "refund"}

Empty == [balance |-> 0, frozen |-> 0]

\* getOrCreateAccountTx; settle and refund do not create.
Creates(op) == op \in {"deposit", "freeze"}

Permits(op, acc) == op = "freeze" => acc.balance - acc.frozen >= EstimatedGP

\* A mutant of Unfreeze: no clamp.
UnfreezeUnclamped(acc) == acc.frozen - EstimatedGP

\* Frozen is clamped at zero.
Unfreeze(acc) == IF acc.frozen < EstimatedGP THEN 0 ELSE acc.frozen - EstimatedGP

Apply(op, acc) ==
  [balance |-> CASE op = "deposit" -> acc.balance + Reward
                 [] op = "settle" -> acc.balance - EstimatedGP
                 [] OTHER -> acc.balance,
   frozen  |-> CASE op = "freeze" -> acc.frozen + EstimatedGP
                 [] op \in {"settle", "refund"} -> Unfreeze(acc)
                 [] OTHER -> acc.frozen]

\* type, Amount and balance_after.
Entry(type, amount, after) == [type |-> type, amount |-> amount, after |-> after]

\* A mutant of Entries: the deduction is recorded before it is made.
EntriesBeforeDeduct(op, acc) ==
  CASE op = "deposit" -> <<Entry("DEPOSIT", Reward, acc.balance)>>
    [] op = "freeze" -> <<Entry("FREEZE", -EstimatedGP, acc.balance)>>
    [] op = "settle" -> <<Entry("DEDUCT", -EstimatedGP, acc.balance + EstimatedGP)>>
    [] op = "refund" -> <<Entry("REFUND", EstimatedGP, acc.balance)>>

\* The rows op adds to the ledger; acc is the account after op.
Entries(op, acc) ==
  CASE op = "deposit" -> <<Entry("DEPOSIT", Reward, acc.balance)>>
    [] op = "freeze" -> <<Entry("FREEZE", -EstimatedGP, acc.balance)>>
    [] op = "settle" -> <<Entry("UNFREEZE", EstimatedGP, acc.balance + EstimatedGP),
                          Entry("DEDUCT", -EstimatedGP, acc.balance)>>
    [] op = "refund" -> <<Entry("REFUND", EstimatedGP, acc.balance)>>

Init == account = NoAccount /\ ledger = <<>>

\* The rows get ids in a row, above all others; the sequence may skip some.
Record(rows) ==
  \E first \in DOMAIN ledger' :
    /\ \A i \in DOMAIN ledger : i < first
    /\ ledger' = [i \in DOMAIN ledger \cup first..(first + Len(rows) - 1) |->
                    IF i < first THEN ledger[i] ELSE rows[i - first + 1]]

Open ==
  /\ account = NoAccount
  /\ account' = Empty
  /\ UNCHANGED ledger

Perform(op) ==
  LET acc == IF account = NoAccount THEN Empty ELSE account
  IN /\ account = NoAccount => Creates(op)
     /\ Permits(op, acc)
     /\ account' = Apply(op, acc)
     /\ Record(Entries(op, account'))

Next == Open \/ \E op \in Op : Perform(op)

Spec == Init /\ [][Next]_vars
=============================================================================
