--------------------------- MODULE BalanceProofs ---------------------------
(***************************************************************************)
(* Balance.tla for any number of callers and connections and any amounts:  *)
(* types, what the ledger's newest row shows, and that the transactions    *)
(* implement the atomic account of Account.tla until two of them overlap.  *)
(***************************************************************************)
EXTENDS Balance, SequenceTheorems, TLAPS

-----------------------------------------------------------------------------
(* The operations on a row.                                                *)

LEMMA ApplyIsRow ==
  ASSUME NEW o \in A!Op, NEW row \in Rows
  PROVE  A!Apply(o, row) \in Rows
<1>1. A!Unfreeze(row) \in Nat
  BY BalanceAssumption DEF Rows, A!Unfreeze
<1>2. row.balance \in Int /\ row.frozen \in Nat
  BY DEF Rows
<1>3. QED
  BY <1>1, <1>2, BalanceAssumption DEF A!Op, A!Apply, Rows

LEMMA EmptyIsRow == A!Empty \in Rows
  BY DEF A!Empty, Rows

\* Each operation ends its rows with the balance it leaves.
LEMMA EntriesFacts ==
  ASSUME NEW o \in A!Op, NEW row \in Rows
  PROVE  LET e == A!Entries(o, row)
         IN /\ Len(e) = IF o = "settle" THEN 2 ELSE 1
            /\ e[1] \in LedgerRows /\ e[Len(e)] \in LedgerRows
            /\ e[Len(e)].after = row.balance
<1>1. row.balance \in Int
  BY DEF Rows
<1>2. /\ A!Entry("DEPOSIT", Reward, row.balance) \in LedgerRows
      /\ A!Entry("FREEZE", -EstimatedGP, row.balance) \in LedgerRows
      /\ A!Entry("UNFREEZE", EstimatedGP, row.balance + EstimatedGP) \in LedgerRows
      /\ A!Entry("DEDUCT", -EstimatedGP, row.balance) \in LedgerRows
      /\ A!Entry("REFUND", EstimatedGP, row.balance) \in LedgerRows
  BY <1>1, BalanceAssumption DEF A!Entry, LedgerRows
<1>3. \A type, amount : A!Entry(type, amount, row.balance).after = row.balance
  BY DEF A!Entry
<1>4. CASE o = "settle"
  BY <1>2, <1>3, <1>4 DEF A!Entries
<1>5. CASE o # "settle"
  <2>1. \E e \in LedgerRows : A!Entries(o, row) = <<e>> /\ e.after = row.balance
    BY <1>2, <1>3, <1>5 DEF A!Op, A!Entries
  <2>2. QED
    BY <1>5, <2>1
<1>6. QED
  BY <1>4, <1>5

\* One row more, under the next id.
LEMMA OneMore ==
  ASSUME NEW t, NEW entry \in LedgerRows, NEW next \in Nat \ {0}, IsTable(t, next)
  PROVE  IsTable(WithRow(t, next, entry), next + 1)
<1> DEFINE more == WithRow(t, next, entry)
<1>1. PICK ids \in SUBSET (1..(next - 1)) : t \in [ids -> LedgerRows]
  BY DEF IsTable
<1>2. more = [i \in {next} \cup ids |-> IF i \in {next} THEN entry ELSE t[i]]
  BY <1>1 DEF Merge, WithRow
<1>3. ids \cup {next} \in SUBSET (1..((next + 1) - 1))
  BY <1>1
<1>4. more \in [ids \cup {next} -> LedgerRows]
  BY <1>1, <1>2
<1>5. QED
  BY <1>3, <1>4 DEF IsTable

\* Ids stay drawn.
LEMMA StillTable ==
  ASSUME NEW t, NEW next \in Nat \ {0}, IsTable(t, next), NEW later \in {next, next + 1}
  PROVE  IsTable(t, later)
<1>1. PICK ids \in SUBSET (1..(next - 1)) : t \in [ids -> LedgerRows]
  BY DEF IsTable
<1>2. ids \in SUBSET (1..(later - 1))
  BY <1>1
<1>3. QED
  BY <1>1, <1>2 DEF IsTable

LEMMA Merged ==
  ASSUME NEW next, NEW t, NEW u, IsTable(t, next), IsTable(u, next)
  PROVE  IsTable(Merge(t, u), next)
<1>1. PICK ids \in SUBSET (1..(next - 1)) : t \in [ids -> LedgerRows]
  BY DEF IsTable
<1>2. PICK jds \in SUBSET (1..(next - 1)) : u \in [jds -> LedgerRows]
  BY DEF IsTable
<1>3. Merge(t, u) = [i \in ids \cup jds |-> IF i \in ids THEN t[i] ELSE u[i]]
  BY <1>1, <1>2 DEF Merge
<1>4. Merge(t, u) \in [ids \cup jds -> LedgerRows]
  BY <1>1, <1>2, <1>3
<1>5. QED
  BY <1>1, <1>2, <1>4 DEF IsTable

LEMMA NoRowsTable == ASSUME NEW next PROVE IsTable(<<>>, next) /\ DOMAIN <<>> = {}
<1>1. <<>> \in [{} -> LedgerRows] /\ DOMAIN <<>> = {}
  OBVIOUS
<1>2. QED
  BY <1>1 DEF IsTable

LEMMA IdsAreInts ==
  ASSUME NEW t, NEW next \in Nat \ {0}, IsTable(t, next), NEW i \in DOMAIN t
  PROVE  i \in Int /\ i < next
BY DEF IsTable

-----------------------------------------------------------------------------
(* The inductive invariant.                                                *)

\* The newest of c's rows shows the balance that c commits.
RowsShow(c) ==
  \A i \in DOMAIN rows[c] : (\A j \in DOMAIN rows[c] : j <= i) =>
    rows[c][i].after = Changed(c).balance

\* What is known of a call between its first statement and its end.  All but
\* settlements insert their row under the lock, so that it is the newest.
CallOK(c) ==
  /\ pc[c] \notin {"insert", "save", "commit"} => rows[c] = <<>>
  /\ pc[c] \in InTx =>
       /\ op[c] \in A!Op \cup {"get"}
       /\ c \in Reader <=> op[c] = "get"
       /\ c \in Reader => pc[c] \in {"first", "create"}
       /\ pc[c] \in {"unfreeze", "insert", "save", "commit"} => acc[c] \in Rows
       /\ pc[c] = "create" => op[c] # "settle"
       /\ pc[c] = "unfreeze" => op[c] = "settle"
       /\ pc[c] = "insert" /\ op[c] # "settle" => locker = c
       /\ pc[c] = "commit" \/ (pc[c] = "save" /\ op[c] = "settle") => RowsShow(c)
       /\ pc[c] = "commit" /\ op[c] # "settle" =>
            \E i \in DOMAIN rows[c] : \A j \in DOMAIN ledger : j < i

BalanceInv == TypeOK /\ LastEntryShowsBalance /\ \A c \in Call : CallOK(c)

\* The row that an operation starts from.
Base == IF account = NoAccount THEN A!Empty ELSE account

\* How many rows c has inserted.
Drawn(c) ==
  CASE op[c] = "settle" /\ pc[c] = "insert" -> 1
    [] op[c] = "settle" /\ pc[c] \in {"save", "commit"} -> 2
    [] op[c] # "settle" /\ pc[c] = "commit" -> 1
    [] OTHER -> 0

\* They have the last ids drawn, in the order of the operation's entries.
InRow(c) ==
  LET first == nextId - Drawn(c)
      entries == A!Entries(op[c], Changed(c))
  IN /\ DOMAIN rows[c] = first..(nextId - 1)
     /\ \A i \in first..(nextId - 1) : rows[c][i] = entries[i - first + 1]
     /\ \A j \in DOMAIN ledger : j < first

\* What a transaction that is alone holds in its memory.
UpToDate(c) ==
  /\ InRow(c)
  /\ pc[c] = "create" => A!Creates(op[c])
  /\ pc[c] \in {"unfreeze", "insert", "save", "commit"} =>
       /\ acc[c] = Base
       /\ account = NoAccount => A!Creates(op[c])
  /\ pc[c] = "insert" /\ op[c] # "settle" => A!Permits(op[c], Base)
  /\ pc[c] = "commit" => A!Permits(op[c], Base)
  /\ pc[c] \in {"unfreeze", "insert", "save", "commit"} /\ account = NoAccount => locker = c

Serial ==
  ~overlapped =>
    /\ \A c, d \in Transactions : c = d
    /\ \A c \in Transactions : UpToDate(c)

LEMMA BalanceInvInit == Init => BalanceInv /\ Serial
<1> SUFFICES ASSUME Init PROVE BalanceInv /\ Serial
  OBVIOUS
<1>1. nextId \in Nat \ {0} /\ ledger = <<>> /\ \A c \in Call : rows[c] = <<>>
  BY DEF Init
<1>2. IsTable(ledger, nextId) /\ \A c \in Call : IsTable(rows[c], nextId)
  BY <1>1, NoRowsTable
<1>3. overtaken \in BOOLEAN /\ overlapped \in BOOLEAN
  BY DEF Init
<1>4. TypeOK
  BY <1>1, <1>2, <1>3, BalanceAssumption DEF Init, TypeOK, InTx, Returned
<1>5. LastEntryShowsBalance /\ \A c \in Call : CallOK(c)
  BY <1>1, NoRowsTable DEF Init, LastEntryShowsBalance, CallOK, InTx
<1>6. Serial
  BY DEF Init, Serial, Transactions, InTx
<1>7. QED
  BY <1>4, <1>5, <1>6 DEF BalanceInv

\* A step of c leaves the other calls, and where they are, alone.
LEMMA OtherCalls ==
  ASSUME NEW c \in Call, BalanceInv, CallOK(c)',
         \A d \in Call \ {c} : /\ pc'[d] = pc[d] /\ op'[d] = op[d]
                               /\ acc'[d] = acc[d] /\ rows'[d] = rows[d],
         locker' = locker \/ locker \in {NoCall, c},
         ledger' = ledger \/ locker = c
  PROVE  \A d \in Call : CallOK(d)'
<1> SUFFICES ASSUME NEW d \in Call \ {c} PROVE CallOK(d)'
  OBVIOUS
<1>1. CallOK(d) /\ TypeOK
  BY DEF BalanceInv
<1>2. RowsShow(d)' <=> RowsShow(d)
  BY DEF RowsShow, Changed
<1>3. locker = d => locker' = d /\ ledger' = ledger
  BY BalanceAssumption
<1>4. pc[d] = "commit" => locker = d
  BY <1>1 DEF TypeOK
<1>5. QED
  BY <1>1, <1>2, <1>3, <1>4 DEF CallOK

\* A step of c that is not its last.
LEMMA TypesKept ==
  ASSUME NEW c \in Call, BalanceInv,
         account' \in Rows \cup {NoAccount}, nextId' \in {nextId, nextId + 1},
         ledger' = ledger, overtaken' = overtaken, overlapped' \in BOOLEAN,
         DOMAIN rows' = Call, IsTable(rows'[c], nextId'), \A d \in Call \ {c} : rows'[d] = rows[d],
         locker' = locker \/ (locker \in {NoCall, c} /\ locker' = c),
         op' \in [Call -> A!Op \cup {"get", "none"}],
         pc' \in [Call -> {"idle"} \cup InTx \cup Returned],
         \A d \in Call \ {c} : pc'[d] = pc[d],
         acc' \in [Call -> Rows \cup {NoAccount}],
         pc'[c] = "commit" => locker' = c,
         locker' = c => pc'[c] \in {"save", "insert", "commit"}
  PROVE  TypeOK'
<1>1. TypeOK
  BY DEF BalanceInv
<1>2. nextId \in Nat \ {0} /\ nextId' \in Nat \ {0}
  BY <1>1 DEF TypeOK
<1>3. IsTable(ledger', nextId') /\ \A d \in Call : IsTable(rows'[d], nextId')
  BY <1>1, <1>2, StillTable DEF TypeOK
<1>4. locker' \in Call \cup {NoCall}
  BY <1>1 DEF TypeOK
<1>5. \A d \in Call : pc'[d] = "commit" => locker' = d
  BY <1>1, BalanceAssumption DEF TypeOK
<1>6. locker' # NoCall => pc'[locker'] \in {"save", "insert", "commit"}
  BY <1>1, BalanceAssumption DEF TypeOK
<1>7. overtaken' \in BOOLEAN
  BY <1>1 DEF TypeOK
<1>8. QED
  BY <1>2, <1>3, <1>4, <1>5, <1>6, <1>7 DEF TypeOK

\* Nobody who reads an account changes it.
LEMMA SameRowSameEntry ==
  ASSUME LastEntryShowsBalance, UNCHANGED <<account, ledger, overtaken>>
  PROVE  LastEntryShowsBalance'
  BY DEF LastEntryShowsBalance

\* The end of a transaction, by commit or rollback.
LEMMA EndKeeps ==
  ASSUME NEW c \in Call, NEW outcome \in Returned, BalanceInv, End(c, outcome),
         UNCHANGED <<op, acc, overlapped, nextId>>, account' \in Rows \cup {NoAccount},
         IsTable(ledger', nextId'), overtaken' \in BOOLEAN, LastEntryShowsBalance',
         ledger' = ledger \/ locker = c
  PROVE  BalanceInv'
<1>1. TypeOK
  BY DEF BalanceInv
<1>2. /\ pc' = [pc EXCEPT ![c] = outcome] /\ locker' = IF locker = c THEN NoCall ELSE locker
      /\ rows' = [rows EXCEPT ![c] = <<>>]
  BY DEF End
<1>3. /\ DOMAIN rows' = Call /\ rows'[c] = <<>> /\ \A d \in Call \ {c} : rows'[d] = rows[d]
  BY <1>1, <1>2 DEF TypeOK
<1>4. IsTable(ledger', nextId') /\ \A d \in Call : IsTable(rows'[d], nextId')
  <2>1. IsTable(rows'[c], nextId')
    BY <1>3, NoRowsTable
  <2>2. QED
    BY <1>1, <1>3, <2>1 DEF TypeOK
<1>5. pc'[c] \notin InTx /\ \A d \in Call \ {c} : pc'[d] = pc[d]
  BY <1>1, <1>2 DEF TypeOK, Returned, InTx
<1>6. pc' \in [Call -> {"idle"} \cup InTx \cup Returned] /\ locker' \in Call \cup {NoCall}
  BY <1>1, <1>2 DEF TypeOK
<1>7. /\ \A d \in Call : pc'[d] = "commit" => locker' = d
      /\ locker' # NoCall => pc'[locker'] \in {"save", "insert", "commit"}
  BY <1>1, <1>2, <1>5, BalanceAssumption DEF TypeOK, InTx
<1>8. overlapped' \in BOOLEAN /\ nextId' \in Nat \ {0}
  BY <1>1 DEF TypeOK
<1>9. TypeOK'
  BY <1>1, <1>3, <1>4, <1>6, <1>7, <1>8 DEF TypeOK
<1>10. CallOK(c)'
  BY <1>3, <1>5 DEF CallOK
<1>11. \A d \in Call : CallOK(d)'
  BY <1>2, <1>3, <1>5, <1>10, OtherCalls
<1>12. QED
  BY <1>9, <1>11 DEF BalanceInv

LEMMA RollbackKeeps ==
  ASSUME NEW c \in Call, NEW outcome \in Returned, BalanceInv, End(c, outcome),
         UNCHANGED <<account, table, op, acc, overlapped>>
  PROVE  BalanceInv'
<1>1. TypeOK /\ LastEntryShowsBalance
  BY DEF BalanceInv
<1>2. UNCHANGED <<ledger, nextId, overtaken>>
  BY DEF table
<1>3. overtaken' \in BOOLEAN
  BY <1>1, <1>2 DEF TypeOK
<1>4. account' \in Rows \cup {NoAccount} /\ IsTable(ledger', nextId')
  BY <1>1, <1>2 DEF TypeOK
<1>5. LastEntryShowsBalance'
  BY <1>1, <1>2, SameRowSameEntry
<1>6. QED
  BY <1>2, <1>3, <1>4, <1>5, EndKeeps

LEMMA BeginKeeps ==
  ASSUME NEW c \in Call, NEW o \in A!Op \cup {"get"}, BalanceInv, Begin(c, o)
  PROVE  BalanceInv'
<1>1. TypeOK /\ LastEntryShowsBalance /\ CallOK(c)
  BY DEF BalanceInv
<1>2. /\ op' = [op EXCEPT ![c] = o] /\ pc' = [pc EXCEPT ![c] = "first"]
      /\ UNCHANGED <<account, ledger, nextId, overtaken, rows, locker, acc>>
      /\ pc[c] \notin InTx /\ (c \in Reader <=> o = "get")
  BY <1>1, BalanceAssumption DEF Begin, MayCall, InTx, TypeOK, A!Op, table
<1>3. overlapped' \in BOOLEAN
  BY <1>1 DEF Begin, TypeOK
<1>4. locker # c
  BY <1>1, <1>2, BalanceAssumption DEF TypeOK, InTx
<1>5. TypeOK'
  <2>1. /\ DOMAIN rows' = Call /\ IsTable(rows'[c], nextId') /\ account' \in Rows \cup {NoAccount}
        /\ op' \in [Call -> A!Op \cup {"get", "none"}]
        /\ acc' \in [Call -> Rows \cup {NoAccount}]
    BY <1>1, <1>2, StillTable DEF TypeOK
  <2>2. /\ pc' \in [Call -> {"idle"} \cup InTx \cup Returned]
        /\ pc'[c] = "first" /\ \A d \in Call \ {c} : pc'[d] = pc[d]
    BY <1>1, <1>2 DEF TypeOK, InTx
  <2>3. QED
    BY <1>2, <1>3, <1>4, <2>1, <2>2, TypesKept
<1>6. CallOK(c)'
  BY <1>1, <1>2 DEF TypeOK, CallOK, InTx
<1>7. \A d \in Call : CallOK(d)'
  BY <1>1, <1>2, <1>6, OtherCalls DEF TypeOK
<1>8. QED
  BY <1>1, <1>2, <1>5, <1>7, SameRowSameEntry DEF BalanceInv

LEMMA FirstKeeps ==
  ASSUME NEW c \in Call, BalanceInv, First(c)
  PROVE  BalanceInv'
<1>1. TypeOK /\ CallOK(c) /\ LastEntryShowsBalance
  BY DEF BalanceInv
<1>2. /\ acc' = [acc EXCEPT ![c] = account]
      /\ UNCHANGED <<account, ledger, nextId, overtaken, rows, locker, op, overlapped>>
      /\ pc[c] = "first"
  BY DEF First, table
<1>3. PICK p \in {"ok", "save", "unfreeze", "create", "failed"} :
        /\ pc' = [pc EXCEPT ![c] = p]
        /\ p \in {"save", "unfreeze"} => op[c] # "get" /\ account # NoAccount
        /\ p \in {"create", "save"} => op[c] # "settle"
        /\ p = "unfreeze" => op[c] = "settle"
  BY DEF First, A!Creates
<1>4. locker # c
  BY <1>1, <1>2, BalanceAssumption DEF TypeOK
<1>5. TypeOK'
  <2>1. DOMAIN rows' = Call /\ IsTable(rows'[c], nextId') /\ account' \in Rows \cup {NoAccount}
    BY <1>1, <1>2, StillTable DEF TypeOK
  <2>2. overlapped' \in BOOLEAN
    BY <1>1, <1>2 DEF TypeOK
  <2>3. /\ pc' \in [Call -> {"idle"} \cup InTx \cup Returned]
        /\ pc'[c] = p /\ \A d \in Call \ {c} : pc'[d] = pc[d]
        /\ acc' \in [Call -> Rows \cup {NoAccount}] /\ op' \in [Call -> A!Op \cup {"get", "none"}]
    BY <1>1, <1>2, <1>3 DEF TypeOK, InTx, Returned
  <2>4. QED
    BY <1>2, <1>3, <1>4, <2>1, <2>2, <2>3, TypesKept
<1>6. CallOK(c)'
  BY <1>1, <1>2, <1>3 DEF TypeOK, CallOK, InTx
<1>7. \A d \in Call : CallOK(d)'
  BY <1>1, <1>2, <1>3, <1>6, OtherCalls DEF TypeOK
<1>8. QED
  BY <1>1, <1>2, <1>5, <1>7, SameRowSameEntry DEF BalanceInv

LEMMA CreateKeeps ==
  ASSUME NEW c \in Call, BalanceInv, CreateAccountTx(c)
  PROVE  BalanceInv'
<1>1. TypeOK /\ CallOK(c) /\ LastEntryShowsBalance
  BY DEF BalanceInv
<1>2. /\ UNCHANGED <<account, table, op, overlapped>> /\ pc[c] = "create" /\ op[c] # "get"
      /\ locker \in {NoCall, c}
  BY DEF CreateAccountTx, Unlocked
<1>3. CASE account = NoAccount
  <2>1. /\ acc' = [acc EXCEPT ![c] = A!Empty] /\ locker' = c
        /\ pc' = [pc EXCEPT ![c] = "save"] /\ UNCHANGED rows
        /\ UNCHANGED <<ledger, nextId, overtaken>>
    BY <1>2, <1>3 DEF CreateAccountTx, table
  <2>2. TypeOK'
    <3>1. DOMAIN rows' = Call /\ IsTable(rows'[c], nextId') /\ account' \in Rows \cup {NoAccount}
      BY <1>1, <1>2, <2>1, StillTable DEF TypeOK
    <3>2. overlapped' \in BOOLEAN
      BY <1>1, <1>2 DEF TypeOK
    <3>3. /\ pc' \in [Call -> {"idle"} \cup InTx \cup Returned]
          /\ pc'[c] = "save" /\ \A d \in Call \ {c} : pc'[d] = pc[d]
          /\ acc' \in [Call -> Rows \cup {NoAccount}]
          /\ op' \in [Call -> A!Op \cup {"get", "none"}]
      BY <1>1, <1>2, <2>1, EmptyIsRow DEF TypeOK, InTx
    <3>4. QED
      BY <1>2, <2>1, <3>1, <3>2, <3>3, TypesKept
  <2>3. CallOK(c)'
    <3>1. pc'[c] = "save" /\ op'[c] = op[c] /\ acc'[c] = A!Empty
      BY <1>1, <1>2, <2>1 DEF TypeOK
    <3>2. /\ pc[c] \in InTx /\ op[c] \in A!Op \cup {"get"} /\ c \notin Reader
          /\ op[c] # "get" /\ op[c] # "settle"
      BY <1>1, <1>2 DEF CallOK, InTx
    <3>3. QED
      BY <3>1, <3>2, EmptyIsRow DEF CallOK, InTx
  <2>4. \A d \in Call : CallOK(d)'
    BY <1>1, <1>2, <2>1, <2>3, OtherCalls DEF TypeOK
  <2>5. QED
    BY <1>1, <1>2, <2>1, <2>2, <2>4, SameRowSameEntry DEF BalanceInv
<1>4. CASE account # NoAccount
  <2>1. End(c, "failed") /\ UNCHANGED acc
    BY <1>4 DEF CreateAccountTx
  <2>2. QED
    BY <1>2, <2>1, RollbackKeeps DEF Returned
<1>5. QED
  BY <1>3, <1>4

LEMMA GetAccountCreateKeeps ==
  ASSUME NEW c \in Call, BalanceInv, GetAccountCreate(c)
  PROVE  BalanceInv'
<1>1. TypeOK /\ CallOK(c) /\ LastEntryShowsBalance
  BY DEF BalanceInv
<1>2. /\ UNCHANGED <<ledger, nextId, overtaken, rows, locker, op, overlapped>>
      /\ pc[c] = "create" /\ locker \in {NoCall, c}
      /\ account' = IF account = NoAccount THEN A!Empty ELSE account
      /\ acc' = [acc EXCEPT ![c] = account'] /\ pc' = [pc EXCEPT ![c] = "ok"]
  BY DEF GetAccountCreate, Unlocked, table
<1>3. account' \in Rows
  BY <1>1, <1>2, EmptyIsRow DEF TypeOK
<1>4. TypeOK'
  <2>1. DOMAIN rows' = Call /\ IsTable(rows'[c], nextId') /\ locker # c
    BY <1>1, <1>2, StillTable, BalanceAssumption DEF TypeOK
  <2>2. overlapped' \in BOOLEAN
    BY <1>1, <1>2 DEF TypeOK
  <2>3. /\ pc' \in [Call -> {"idle"} \cup InTx \cup Returned]
        /\ pc'[c] = "ok" /\ \A d \in Call \ {c} : pc'[d] = pc[d]
        /\ acc' \in [Call -> Rows \cup {NoAccount}] /\ op' \in [Call -> A!Op \cup {"get", "none"}]
    BY <1>1, <1>2, <1>3 DEF TypeOK, InTx, Returned
  <2>4. QED
    BY <1>2, <1>3, <2>1, <2>2, <2>3, TypesKept
<1>5. CallOK(c)'
  BY <1>1, <1>2 DEF TypeOK, CallOK, InTx
<1>6. \A d \in Call : CallOK(d)'
  BY <1>1, <1>2, <1>5, OtherCalls DEF TypeOK
<1>7. LastEntryShowsBalance'
  BY <1>1, <1>2, <1>3, BalanceAssumption DEF LastEntryShowsBalance
<1>8. QED
  BY <1>4, <1>6, <1>7 DEF BalanceInv

LEMMA SaveKeeps ==
  ASSUME NEW c \in Call, BalanceInv, Save(c)
  PROVE  BalanceInv'
<1>1. TypeOK /\ CallOK(c) /\ LastEntryShowsBalance
  BY DEF BalanceInv
<1>2. /\ UNCHANGED <<account, ledger, nextId, overtaken, rows, op, acc, overlapped>>
      /\ pc[c] = "save" /\ locker \in {NoCall, c} /\ locker' = c
  BY DEF Save, Unlocked, table
<1>3. PICK p \in {"commit", "insert"} : /\ pc' = [pc EXCEPT ![c] = p]
                                        /\ p = "commit" <=> op[c] = "settle"
  BY DEF Save
<1>4. TypeOK'
  <2>1. DOMAIN rows' = Call /\ IsTable(rows'[c], nextId') /\ account' \in Rows \cup {NoAccount}
    BY <1>1, <1>2, StillTable DEF TypeOK
  <2>2. overlapped' \in BOOLEAN
    BY <1>1, <1>2 DEF TypeOK
  <2>3. /\ pc' \in [Call -> {"idle"} \cup InTx \cup Returned]
        /\ pc'[c] = p /\ \A d \in Call \ {c} : pc'[d] = pc[d]
        /\ acc' \in [Call -> Rows \cup {NoAccount}] /\ op' \in [Call -> A!Op \cup {"get", "none"}]
    BY <1>1, <1>2, <1>3 DEF TypeOK, InTx, Returned
  <2>4. QED
    BY <1>2, <1>3, <2>1, <2>2, <2>3, TypesKept
<1>5. CallOK(c)'
  <2>1. pc'[c] \in {"commit", "insert"} /\ (pc'[c] = "commit" <=> op[c] = "settle")
    BY <1>1, <1>3 DEF TypeOK
  <2>2. RowsShow(c)' <=> RowsShow(c)
    BY <1>2 DEF RowsShow, Changed
  <2>3. QED
    BY <1>1, <1>2, <2>1, <2>2 DEF CallOK, InTx
<1>6. \A d \in Call : CallOK(d)'
  BY <1>1, <1>2, <1>3, <1>5, OtherCalls DEF TypeOK
<1>7. QED
  BY <1>1, <1>2, <1>4, <1>6, SameRowSameEntry DEF BalanceInv

\* What an INSERT puts into the table.
LEMMA InsertFacts ==
  ASSUME NEW c \in Call, BalanceInv, Insert(c)
  PROVE  LET e == A!Entries(op[c], Changed(c))
             entry == IF pc[c] = "unfreeze" THEN e[1] ELSE e[Len(e)]
         IN /\ op[c] \in A!Op /\ acc[c] \in Rows /\ Changed(c) \in Rows
            /\ pc[c] = "unfreeze" => op[c] = "settle"
            /\ pc[c] = "insert" /\ op[c] # "settle" => locker = c
            /\ Len(e) = IF op[c] = "settle" THEN 2 ELSE 1
            /\ e[Len(e)].after = Changed(c).balance
            /\ DOMAIN rows' = Call /\ IsTable(rows'[c], nextId')
            /\ \A d \in Call \ {c} : rows'[d] = rows[d]
            /\ DOMAIN rows'[c] = DOMAIN rows[c] \cup {nextId}
            /\ rows'[c][nextId] = entry
            /\ \A i \in DOMAIN rows[c] : i < nextId /\ rows'[c][i] = rows[c][i]
<1> DEFINE e == A!Entries(op[c], Changed(c))
           entry == IF pc[c] = "unfreeze" THEN e[1] ELSE e[Len(e)]
<1>1. TypeOK /\ CallOK(c) /\ pc[c] \in {"unfreeze", "insert"}
  BY DEF BalanceInv, Insert
<1>2. /\ op[c] \in A!Op /\ acc[c] \in Rows
      /\ pc[c] = "unfreeze" => op[c] = "settle"
      /\ pc[c] = "insert" /\ op[c] # "settle" => locker = c
  BY <1>1 DEF CallOK, InTx
<1>3. Changed(c) \in Rows
  BY <1>2, ApplyIsRow DEF Changed
<1>4. /\ Len(e) = IF op[c] = "settle" THEN 2 ELSE 1
      /\ entry \in LedgerRows /\ e[Len(e)].after = Changed(c).balance
  BY <1>2, <1>3, EntriesFacts
<1>5. /\ nextId \in Nat \ {0} /\ nextId' = nextId + 1 /\ IsTable(rows[c], nextId)
      /\ rows' = [rows EXCEPT ![c] = WithRow(rows[c], nextId, entry)]
      /\ DOMAIN rows = Call
  BY <1>1 DEF Insert, TypeOK
<1>6. rows'[c] = WithRow(rows[c], nextId, entry)
  BY <1>5
<1>7. /\ IsTable(WithRow(rows[c], nextId, entry), nextId + 1)
      /\ DOMAIN rows'[c] = DOMAIN rows[c] \cup {nextId}
      /\ rows'[c][nextId] = entry
      /\ \A i \in DOMAIN rows[c] : i < nextId /\ rows'[c][i] = rows[c][i]
  <2> HIDE DEF entry
  <2>1. IsTable(WithRow(rows[c], nextId, entry), nextId + 1)
    BY <1>4, <1>5, OneMore
  <2>2. \A i \in DOMAIN rows[c] : i < nextId /\ i # nextId
    BY <1>5, IdsAreInts
  <2>3. QED
    BY <1>5, <1>6, <2>1, <2>2 DEF WithRow, Merge
<1>8. IsTable(rows'[c], nextId')
  BY <1>5, <1>7 DEF IsTable
<1>9. QED
  BY <1>2, <1>3, <1>4, <1>5, <1>7, <1>8

LEMMA InsertKeeps ==
  ASSUME NEW c \in Call, BalanceInv, Insert(c)
  PROVE  BalanceInv'
<1>1. TypeOK /\ CallOK(c) /\ LastEntryShowsBalance
  BY DEF BalanceInv
<1>2. /\ UNCHANGED <<account, ledger, overtaken, locker, op, acc, overlapped>>
      /\ pc[c] \in {"unfreeze", "insert"} /\ nextId' = nextId + 1
  BY DEF Insert
<1>3. PICK p \in {"insert", "save", "commit"} :
        /\ pc' = [pc EXCEPT ![c] = p]
        /\ p = "insert" <=> pc[c] = "unfreeze"
        /\ p = "commit" => pc[c] = "insert" /\ op[c] # "settle"
        /\ p = "save" => pc[c] = "insert" /\ op[c] = "settle"
  BY <1>2 DEF Insert
<1>4. /\ op[c] \in A!Op /\ acc[c] \in Rows /\ Changed(c) \in Rows
      /\ pc[c] = "unfreeze" => op[c] = "settle"
      /\ pc[c] = "insert" /\ op[c] # "settle" => locker = c
      /\ DOMAIN rows' = Call /\ IsTable(rows'[c], nextId')
      /\ \A d \in Call \ {c} : rows'[d] = rows[d]
      /\ DOMAIN rows'[c] = DOMAIN rows[c] \cup {nextId}
      /\ pc[c] = "insert" => rows'[c][nextId].after = Changed(c).balance
      /\ \A i \in DOMAIN rows[c] : i < nextId
  BY <1>2, InsertFacts
<1>5. TypeOK'
  <2>1. overlapped' \in BOOLEAN /\ account' \in Rows \cup {NoAccount}
    BY <1>1, <1>2 DEF TypeOK
  <2>2. locker' = c => pc[c] # "unfreeze"
    BY <1>1, <1>2, BalanceAssumption DEF TypeOK
  <2>3. /\ pc' \in [Call -> {"idle"} \cup InTx \cup Returned]
        /\ pc'[c] = p /\ \A d \in Call \ {c} : pc'[d] = pc[d]
        /\ acc' \in [Call -> Rows \cup {NoAccount}] /\ op' \in [Call -> A!Op \cup {"get", "none"}]
    BY <1>1, <1>2, <1>3 DEF TypeOK, InTx, Returned
  <2>4. QED
    BY <1>2, <1>3, <1>4, <2>1, <2>2, <2>3, TypesKept
<1>6. CallOK(c)'
  <2>1. pc'[c] = p /\ op'[c] = op[c] /\ acc'[c] = acc[c] /\ locker' = locker
    BY <1>1, <1>2, <1>3 DEF TypeOK
  <2>2. pc[c] = "insert" => RowsShow(c)'
    <3>1. Changed(c)' = Changed(c)
      BY <1>2 DEF Changed
    <3>2. ASSUME NEW i \in DOMAIN rows'[c], \A j \in DOMAIN rows'[c] : j <= i
          PROVE  i = nextId
      <4>1. nextId \in Nat \ {0} /\ IsTable(rows[c], nextId)
        BY <1>1 DEF TypeOK
      <4>2. CASE i \in DOMAIN rows[c]
        <5>1. i \in Int /\ i < nextId /\ nextId <= i
          BY <1>4, <3>2, <4>1, <4>2, IdsAreInts
        <5>2. QED
          BY <4>1, <5>1
      <4>3. QED
        BY <1>4, <4>2
    <3>3. QED
      BY <1>4, <3>1, <3>2 DEF RowsShow
  <2>3. \E i \in DOMAIN rows'[c] : \A j \in DOMAIN ledger' : j < i
    <3>1. \A j \in DOMAIN ledger : j < nextId
      BY <1>1, IdsAreInts DEF TypeOK
    <3>2. QED
      BY <1>2, <1>4, <3>1
  <2>4. pc[c] \in InTx /\ (c \in Reader <=> op[c] = "get") /\ c \notin Reader
    BY <1>1, <1>2, <1>4 DEF CallOK, InTx, A!Op
  <2>5. QED
    BY <1>2, <1>3, <1>4, <2>1, <2>2, <2>3, <2>4 DEF CallOK, InTx
<1>7. \A d \in Call : CallOK(d)'
  BY <1>1, <1>2, <1>3, <1>4, <1>6, OtherCalls DEF TypeOK
<1>8. QED
  BY <1>1, <1>2, <1>5, <1>7, SameRowSameEntry DEF BalanceInv

\* A commit puts a row and the entry that shows its balance in place together;
\* the entry is the newest, or a settlement has been overtaken.
LEMMA CommitKeeps ==
  ASSUME NEW c \in Call, BalanceInv, Commit(c)
  PROVE  BalanceInv'
<1>1. TypeOK /\ CallOK(c)
  BY DEF BalanceInv
<1>2. /\ pc[c] = "commit" /\ account' = Changed(c) /\ UNCHANGED <<nextId, op, acc, overlapped>>
      /\ ledger' = Merge(rows[c], ledger)
      /\ \E outcome \in Returned : End(c, outcome)
  BY DEF Commit, Returned
<1>3. /\ op[c] \in A!Op /\ acc[c] \in Rows /\ RowsShow(c)
      /\ op[c] # "settle" => \E i \in DOMAIN rows[c] : \A j \in DOMAIN ledger : j < i
      /\ nextId \in Nat \ {0} /\ IsTable(ledger, nextId) /\ IsTable(rows[c], nextId) /\ locker = c
  BY <1>1, <1>2 DEF CallOK, InTx, TypeOK
<1>4. Changed(c) \in Rows
  BY <1>3, ApplyIsRow DEF Changed
<1>5. /\ IsTable(ledger', nextId') /\ DOMAIN ledger' = DOMAIN rows[c] \cup DOMAIN ledger
      /\ \A i \in DOMAIN rows[c] : ledger'[i] = rows[c][i]
  <2>1. nextId' = nextId
    BY <1>2
  <2>2. IsTable(Merge(rows[c], ledger), nextId)
    BY <1>3, Merged
  <2>3. QED
    BY <1>2, <2>1, <2>2 DEF Merge
<1>6. overtaken' \in BOOLEAN
  BY DEF Commit
<1>7. LastEntryShowsBalance'
  <2> SUFFICES ASSUME ~overtaken', NEW k \in DOMAIN ledger', \A j \in DOMAIN ledger' : j <= k
               PROVE  account' # NoAccount /\ ledger'[k].after = account'.balance
    BY DEF LastEntryShowsBalance
  <2>1. k \in DOMAIN rows[c]
    <3> SUFFICES ASSUME k \in DOMAIN ledger, k \notin DOMAIN rows[c] PROVE FALSE
      BY <1>5
    <3>1. k \in Int /\ \A i \in DOMAIN rows[c] : i \in Int
      BY <1>3, IdsAreInts
    <3>2. \A i \in DOMAIN rows[c] : i < k
      BY <1>5, <3>1
    <3>3. op[c] # "settle"
      BY <3>2 DEF Commit
    <3>4. PICK i \in DOMAIN rows[c] : k < i
      BY <1>3, <3>3
    <3>5. QED
      BY <3>1, <3>2, <3>4
  <2>2. rows[c][k].after = Changed(c).balance
    BY <1>3, <1>5, <2>1 DEF RowsShow
  <2>3. QED
    BY <1>2, <1>4, <1>5, <2>1, <2>2, BalanceAssumption
<1>8. QED
  BY <1>2, <1>3, <1>4, <1>5, <1>6, <1>7, EndKeeps

LEMMA BalanceInvNext == BalanceInv /\ [Next]_vars => BalanceInv'
<1> SUFFICES ASSUME BalanceInv, [Next]_vars PROVE BalanceInv'
  OBVIOUS
<1>1. ASSUME NEW c \in Call, Step(c) PROVE BalanceInv'
  <2>1. CASE Refuse(c)
    BY <2>1, RollbackKeeps DEF Refuse, Returned
  <2>2. QED
    BY <1>1, <2>1, FirstKeeps, CreateKeeps, GetAccountCreateKeeps, SaveKeeps, InsertKeeps,
       CommitKeeps DEF Step
<1>2. ASSUME NEW c \in Call, Rollback(c) PROVE BalanceInv'
  BY <1>2, RollbackKeeps DEF Rollback, Returned
<1>3. ASSUME NEW c \in Call, NEW o \in A!Op \cup {"get"}, Begin(c, o) PROVE BalanceInv'
  BY <1>3, BeginKeeps
<1>4. CASE UNCHANGED vars
  <2>1. TypeOK'
    BY <1>4 DEF vars, table, BalanceInv, TypeOK, IsTable, InTx, Returned
  <2>2. LastEntryShowsBalance'
    BY <1>4, SameRowSameEntry DEF vars, table, BalanceInv
  <2>3. \A c \in Call : CallOK(c)'
    BY <1>4 DEF vars, table, BalanceInv, CallOK, RowsShow, Changed, InTx
  <2>4. QED
    BY <2>1, <2>2, <2>3 DEF BalanceInv
<1>5. QED
  BY <1>1, <1>2, <1>3, <1>4 DEF Next

-----------------------------------------------------------------------------
(* Transactions that do not overlap.                                       *)

\* A step of the one transaction there is.
LEMMA AloneKeeps ==
  ASSUME NEW c \in Call \ Reader, BalanceInv, Serial, pc[c] \in InTx,
         \A d \in Call \ {c} : pc'[d] = pc[d],
         ~overlapped' => ~overlapped, ~overlapped /\ pc'[c] \in InTx => UpToDate(c)'
  PROVE  Serial'
<1> SUFFICES ASSUME ~overlapped' PROVE Serial'
  BY DEF Serial
<1>1. Transactions = {c}
  BY DEF Serial, Transactions
<1>2. Transactions' \subseteq {c} /\ (c \in Transactions' => pc'[c] \in InTx)
  BY <1>1 DEF Transactions
<1>3. QED
  BY <1>2 DEF Serial

\* What a transaction holds stays up to date if neither it nor the tables change.
LEMMA SameUpToDate ==
  ASSUME NEW d \in Call, UpToDate(d), pc'[d] = pc[d], op'[d] = op[d], acc'[d] = acc[d],
         rows'[d] = rows[d], UNCHANGED <<account, ledger, nextId, locker>>
  PROVE  UpToDate(d)'
<1>1. InRow(d)' <=> InRow(d)
  BY DEF InRow, Drawn, Changed
<1>2. QED
  BY <1>1 DEF UpToDate, Base

\* A step of a reader.
LEMMA NotInTxKeeps ==
  ASSUME NEW c \in Call, BalanceInv, Serial, c \in Reader, pc'[c] \in InTx \cup Returned,
         \A d \in Call \ {c} : pc'[d] = pc[d] /\ acc'[d] = acc[d] /\ rows'[d] = rows[d],
         UNCHANGED <<op, locker, overlapped, ledger, nextId>>,
         account' = account \/ (account = NoAccount /\ locker \in {NoCall, c})
  PROVE  Serial'
<1> SUFFICES ASSUME ~overlapped' PROVE Serial'
  BY DEF Serial
<1>1. Transactions' = Transactions /\ ~overlapped
  BY DEF Transactions
<1>2. ASSUME NEW d \in Transactions PROVE UpToDate(d)'
  <2>1. /\ d # c /\ pc'[d] = pc[d] /\ acc'[d] = acc[d] /\ rows'[d] = rows[d]
        /\ UpToDate(d) /\ CallOK(d) /\ d \in Call /\ op'[d] = op[d]
    BY <1>1, <1>2 DEF Serial, Transactions, BalanceInv
  <2>2. CASE account' = account
    BY <2>1, <2>2, SameUpToDate
  <2>3. CASE account = NoAccount /\ locker \in {NoCall, c}
    <3>1. locker # d
      BY <2>1, <2>3, BalanceAssumption
    <3>2. pc[d] \notin {"unfreeze", "insert", "save", "commit"}
      BY <2>1, <2>3, <3>1 DEF UpToDate
    <3>3. InRow(d)'
      BY <2>1 DEF UpToDate, InRow, Drawn, Changed
    <3>4. QED
      BY <2>1, <3>2, <3>3 DEF UpToDate
  <2>4. QED
    BY <2>2, <2>3
<1>3. QED
  BY <1>1, <1>2 DEF Serial

\* The transaction has inserted nothing yet.
LEMMA NothingDrawn ==
  ASSUME NEW c \in Call, TypeOK, UNCHANGED <<ledger, nextId>>, rows'[c] = <<>>, Drawn(c)' = 0
  PROVE  InRow(c)'
<1>1. nextId \in Nat \ {0} /\ \A j \in DOMAIN ledger : j < nextId
  BY IdsAreInts DEF TypeOK
<1>2. DOMAIN rows'[c] = {} /\ (nextId - 0)..(nextId - 1) = {}
  BY <1>1, NoRowsTable
<1>3. QED
  BY <1>1, <1>2 DEF InRow

\* One row more, with the next id and the next of the operation's entries.
LEMMA OneMoreDrawn ==
  ASSUME NEW c \in Call, BalanceInv, Insert(c), InRow(c)
  PROVE  InRow(c)'
<1> DEFINE e == A!Entries(op[c], Changed(c))
           first == nextId - Drawn(c)
<1>1. TypeOK /\ pc[c] \in {"unfreeze", "insert"}
  BY DEF BalanceInv, Insert
<1>2. /\ UNCHANGED <<ledger, op, acc>> /\ nextId' = nextId + 1 /\ nextId \in Nat \ {0}
      /\ op'[c] = op[c] /\ acc'[c] = acc[c]
      /\ pc'[c] = IF pc[c] = "unfreeze" THEN "insert"
                  ELSE IF op[c] = "settle" THEN "save" ELSE "commit"
  BY <1>1 DEF Insert, TypeOK
<1>3. /\ pc[c] = "unfreeze" => op[c] = "settle"
      /\ Len(e) = IF op[c] = "settle" THEN 2 ELSE 1
      /\ DOMAIN rows'[c] = DOMAIN rows[c] \cup {nextId}
      /\ rows'[c][nextId] = IF pc[c] = "unfreeze" THEN e[1] ELSE e[Len(e)]
      /\ \A i \in DOMAIN rows[c] : i < nextId /\ rows'[c][i] = rows[c][i]
  BY InsertFacts
<1>4. /\ Drawn(c) \in {0, 1} /\ Drawn(c)' = Drawn(c) + 1
      /\ Drawn(c) = 0 <=> pc[c] = "unfreeze" \/ op[c] # "settle"
  BY <1>1, <1>2, <1>3 DEF Drawn
<1>5. rows'[c][nextId] = e[Drawn(c) + 1]
  BY <1>1, <1>3, <1>4
<1>6. e' = e /\ first \in Int /\ nextId' - Drawn(c)' = first
  BY <1>2, <1>4 DEF Changed
<1>7. /\ DOMAIN rows[c] = first..(nextId - 1)
      /\ \A i \in first..(nextId - 1) : rows[c][i] = e[i - first + 1]
      /\ \A j \in DOMAIN ledger : j < first
  BY DEF InRow
<1>8. first..(nextId' - 1) = (first..(nextId - 1)) \cup {nextId} /\ nextId - first + 1 = Drawn(c) + 1
  BY <1>2, <1>4
<1>9. DOMAIN rows'[c] = first..(nextId' - 1)
  BY <1>3, <1>7, <1>8
<1>10. \A i \in first..(nextId' - 1) : rows'[c][i] = e[i - first + 1]
  BY <1>3, <1>5, <1>7, <1>8
<1>11. QED
  BY <1>2, <1>6, <1>7, <1>9, <1>10 DEF InRow

LEMMA SerialNext == BalanceInv /\ Serial /\ [Next]_vars => Serial'
<1> SUFFICES ASSUME BalanceInv, Serial, [Next]_vars PROVE Serial'
  OBVIOUS
<1>1. TypeOK /\ \A c \in Call : CallOK(c)
  BY DEF BalanceInv
<1>2. ASSUME NEW c \in Call, NEW o \in A!Op \cup {"get"}, Begin(c, o) PROVE Serial'
  <2>1. /\ pc' = [pc EXCEPT ![c] = "first"] /\ op' = [op EXCEPT ![c] = o]
        /\ UNCHANGED <<account, ledger, nextId, rows, locker, acc>>
        /\ overlapped' = (overlapped \/ (o # "get" /\ Transactions # {}))
        /\ c \in Reader <=> o = "get"
    BY <1>2, BalanceAssumption DEF Begin, MayCall, A!Op, table
  <2>2. /\ \A d \in Call \ {c} : pc'[d] = pc[d] /\ op'[d] = op[d]
        /\ pc'[c] = "first" /\ pc[c] \notin InTx
    BY <1>1, <1>2, <2>1 DEF TypeOK, Begin, MayCall, InTx
  <2>3. SUFFICES ASSUME ~overlapped' PROVE Serial'
    BY DEF Serial
  <2>4. CASE c \in Reader
    <3>1. Transactions' = Transactions /\ ~overlapped
      BY <2>1, <2>2, <2>3, <2>4 DEF Transactions
    <3>2. ASSUME NEW d \in Transactions PROVE UpToDate(d)'
      <4>1. d # c /\ d \in Call /\ UpToDate(d)
        BY <2>4, <3>1, <3>2 DEF Transactions, Serial
      <4>2. QED
        BY <2>1, <2>2, <4>1, SameUpToDate
    <3>3. QED
      BY <3>1, <3>2 DEF Serial
  <2>5. CASE c \notin Reader
    <3>1. Transactions = {}
      BY <2>1, <2>3, <2>5
    <3>2. Transactions' \subseteq {c}
      BY <2>2, <3>1 DEF Transactions
    <3>3. rows'[c] = <<>> /\ Drawn(c)' = 0
      BY <1>1, <2>1, <2>2 DEF CallOK, InTx, Drawn
    <3>4. UpToDate(c)'
      BY <1>1, <2>1, <2>2, <3>3, NothingDrawn DEF UpToDate
    <3>5. QED
      BY <3>2, <3>4 DEF Serial
  <2>6. QED
    BY <2>4, <2>5
<1>3. ASSUME NEW c \in Call, Step(c) \/ Rollback(c), c \in Reader PROVE Serial'
  <2>1. /\ pc[c] \in InTx /\ pc[c] \notin {"unfreeze", "save", "insert", "commit"}
        /\ locker # c /\ op[c] = "get"
    <3>1. pc[c] \in InTx
      BY <1>3 DEF Step, Rollback, First, CreateAccountTx, GetAccountCreate, Refuse, Save, Insert,
                  Commit, InTx
    <3>2. QED
      BY <1>1, <1>3, <3>1, BalanceAssumption DEF CallOK, TypeOK
  <2>2. CASE First(c)
    <3>1. UNCHANGED <<op, locker, overlapped, ledger, nextId, account, rows>>
      BY <2>2 DEF First, table
    <3>2. pc'[c] \in InTx \cup Returned /\ \A d \in Call \ {c} : pc'[d] = pc[d] /\ acc'[d] = acc[d]
      BY <1>1, <2>2 DEF First, TypeOK, InTx, Returned
    <3>3. QED
      BY <1>3, <3>1, <3>2, NotInTxKeeps
  <2>3. CASE GetAccountCreate(c)
    <3>1. UNCHANGED <<op, locker, overlapped, ledger, nextId, rows>>
      BY <2>3 DEF GetAccountCreate, table
    <3>2. pc'[c] \in InTx \cup Returned /\ \A d \in Call \ {c} : pc'[d] = pc[d] /\ acc'[d] = acc[d]
      BY <1>1, <2>3 DEF GetAccountCreate, TypeOK, InTx, Returned
    <3>3. account' = account \/ (account = NoAccount /\ locker \in {NoCall, c})
      BY <2>3 DEF GetAccountCreate, Unlocked
    <3>4. QED
      BY <1>3, <3>1, <3>2, <3>3, NotInTxKeeps
  <2>4. CASE Rollback(c)
    <3>1. /\ pc' = [pc EXCEPT ![c] = "failed"] /\ rows' = [rows EXCEPT ![c] = <<>>]
          /\ UNCHANGED <<account, locker, op, acc, overlapped, ledger, nextId>>
      BY <2>1, <2>4 DEF Rollback, End, table
    <3>2. pc'[c] \in InTx \cup Returned /\ \A d \in Call \ {c} : pc'[d] = pc[d] /\ rows'[d] = rows[d]
      BY <1>1, <3>1 DEF TypeOK, Returned
    <3>3. QED
      BY <1>3, <3>1, <3>2, NotInTxKeeps
  <2>5. QED
    BY <1>3, <2>1, <2>2, <2>3, <2>4 DEF Step, CreateAccountTx, Refuse, Save, Insert, Commit
<1>4. ASSUME NEW c \in Call \ Reader, Step(c) \/ Rollback(c) PROVE Serial'
  <2>1. /\ pc[c] \in InTx /\ UNCHANGED overlapped /\ UNCHANGED op
        /\ \A d \in Call \ {c} : pc'[d] = pc[d]
    BY <1>1, <1>4 DEF Step, Rollback, First, CreateAccountTx, GetAccountCreate, Refuse, Save,
                      Insert, Commit, End, InTx, TypeOK
  <2>2. SUFFICES ASSUME ~overlapped, pc'[c] \in InTx PROVE UpToDate(c)'
    BY <2>1, AloneKeeps
  <2>3. UpToDate(c) /\ op[c] \in A!Op /\ op[c] # "get" /\ op'[c] = op[c]
    BY <1>1, <2>1, <2>2 DEF Serial, Transactions, CallOK, A!Op
  <2>4. CASE First(c)
    <3>1. locker # c /\ rows[c] = <<>>
      BY <1>1, <2>4, BalanceAssumption DEF First, TypeOK, CallOK
    <3>2. /\ acc'[c] = account /\ UNCHANGED <<account, ledger, nextId, rows>>
          /\ pc'[c] \in {"create", "unfreeze", "save"}
          /\ pc'[c] = "create" => A!Creates(op[c])
          /\ pc'[c] # "create" => account # NoAccount
          /\ pc'[c] = "save" => op[c] # "settle"
      <4>1. acc'[c] = account /\ UNCHANGED <<account, ledger, nextId, rows>>
        BY <1>1, <2>4 DEF First, TypeOK, table
      <4>2. pc'[c] \notin {"ok", "failed"}
        BY <2>2 DEF InTx
      <4>3. CASE account # NoAccount
        <5>1. pc'[c] = IF op[c] = "settle" THEN "unfreeze" ELSE "save"
          BY <1>1, <2>3, <2>4, <4>3 DEF First, TypeOK
        <5>2. QED
          BY <4>1, <4>3, <5>1
      <4>4. CASE account = NoAccount
        <5>1. pc'[c] = IF A!Creates(op[c]) THEN "create" ELSE "failed"
          BY <1>1, <2>3, <2>4, <4>4 DEF First, TypeOK
        <5>2. QED
          BY <4>1, <4>2, <5>1 DEF A!Creates
      <4>5. QED
        BY <4>3, <4>4
    <3>3. InRow(c)'
      <4>1. Drawn(c)' = 0
        BY <2>3, <3>2 DEF Drawn
      <4>2. QED
        BY <1>1, <3>1, <3>2, <4>1, NothingDrawn
    <3>4. QED
      BY <2>3, <3>2, <3>3 DEF UpToDate, Base
  <2>5. CASE CreateAccountTx(c)
    <3>1. /\ pc'[c] = "save" /\ account' = account /\ account = NoAccount
          /\ acc'[c] = A!Empty /\ locker' = c /\ UNCHANGED <<ledger, nextId, rows>>
      BY <1>1, <2>2, <2>5 DEF CreateAccountTx, End, TypeOK, InTx, table
    <3>2. A!Creates(op[c]) /\ rows[c] = <<>>
      BY <1>1, <2>3, <2>5 DEF CreateAccountTx, UpToDate, CallOK
    <3>3. InRow(c)'
      <4>1. Drawn(c)' = 0
        BY <2>3, <3>1, <3>2 DEF Drawn, A!Creates
      <4>2. QED
        BY <1>1, <3>1, <3>2, <4>1, NothingDrawn
    <3>4. QED
      BY <2>3, <3>1, <3>2, <3>3 DEF UpToDate, Base
  <2>6. CASE Save(c)
    <3>1. /\ pc'[c] = IF op[c] = "settle" THEN "commit" ELSE "insert"
          /\ UNCHANGED <<account, ledger, nextId, rows, acc>>
          /\ pc[c] = "save" /\ A!Permits(op[c], acc[c]) /\ locker' = c
      BY <1>1, <2>6 DEF Save, TypeOK, table
    <3>2. Base' = Base
      BY <3>1 DEF Base
    <3>3. InRow(c)'
      <4>1. Drawn(c)' = Drawn(c) /\ Changed(c)' = Changed(c)
        BY <2>3, <3>1 DEF Drawn, Changed
      <4>2. QED
        BY <2>3, <3>1, <4>1 DEF UpToDate, InRow
    <3>4. QED
      BY <2>3, <3>1, <3>2, <3>3 DEF UpToDate
  <2>7. CASE Insert(c)
    <3>1. InRow(c)'
      BY <2>3, <2>7, OneMoreDrawn DEF UpToDate
    <3>2. /\ UNCHANGED <<account, locker, acc>> /\ pc[c] \in {"unfreeze", "insert"}
          /\ pc'[c] \in {"insert", "save", "commit"}
          /\ pc'[c] = "insert" => op[c] = "settle"
          /\ pc'[c] = "commit" => pc[c] = "insert" /\ op[c] # "settle"
      BY <1>1, <2>1, <2>7 DEF Insert, TypeOK, CallOK
    <3>3. Base' = Base
      BY <3>2 DEF Base
    <3>4. QED
      BY <2>3, <3>1, <3>2, <3>3 DEF UpToDate
  <2>8. CASE Refuse(c) \/ Commit(c) \/ Rollback(c)
    BY <1>1, <2>2, <2>8 DEF Refuse, Commit, Rollback, End, TypeOK, InTx
  <2>9. QED
    BY <1>4, <2>3, <2>4, <2>5, <2>6, <2>7, <2>8 DEF Step, GetAccountCreate
<1>5. CASE UNCHANGED vars
  <2>1. Transactions' = Transactions
    BY <1>5 DEF vars, Transactions, InTx
  <2>2. \A d \in Call : UpToDate(d) => UpToDate(d)'
    BY <1>5, SameUpToDate DEF vars, table
  <2>3. overlapped' = overlapped
    BY <1>5 DEF vars
  <2>4. QED
    BY <2>1, <2>2, <2>3 DEF Serial, Transactions
<1>6. QED
  BY <1>2, <1>3, <1>4, <1>5 DEF Next

LEMMA BalanceSafe == Spec => [](BalanceInv /\ Serial)
  BY BalanceInvInit, BalanceInvNext, SerialNext, PTL DEF Spec

-----------------------------------------------------------------------------
(* The theorems.                                                           *)

\* Every variable has its type, and a change of the row that is not committed
\* is covered by the lock of an open transaction.
THEOREM BalanceTypes == Spec => []TypeOK
  BY BalanceSafe, PTL DEF BalanceInv

\* Deposit, FreezeGP and RefundTask record balance_after under the lock that
\* Save took, so that no overlap puts an older balance under a newer ledger
\* row; only SettleTask, which records before it saves, can be overtaken.
THEOREM LastEntryAlwaysShows == Spec => []LastEntryShowsBalance
  BY BalanceSafe, PTL DEF BalanceInv

LEMMA StepIsAccountStep ==
  BalanceInv /\ Serial /\ [Next]_vars => [A!Next \/ overlapped']_(A!vars)
<1> SUFFICES ASSUME BalanceInv, Serial, [Next]_vars, ~overlapped'
             PROVE  A!Next \/ UNCHANGED <<account, ledger>>
  BY DEF A!vars
<1>1. ASSUME NEW c \in Call, Commit(c) PROVE A!Next
  <2>1. ~overlapped /\ pc[c] = "commit" /\ TypeOK /\ CallOK(c)
    BY <1>1 DEF Commit, BalanceInv
  <2>2. c \in Transactions /\ op[c] \in A!Op /\ acc[c] \in Rows
    BY <2>1 DEF Transactions, CallOK, InTx
  <2>3. UpToDate(c) /\ acc[c] = Base /\ A!Permits(op[c], Base)
        /\ (account = NoAccount => A!Creates(op[c]))
    BY <2>1, <2>2 DEF Serial, UpToDate
  <2>4. account' = A!Apply(op[c], Base)
    BY <1>1, <2>3 DEF Commit, Changed
  <2> DEFINE e == A!Entries(op[c], Changed(c))
             first == nextId - Drawn(c)
  <2>5. /\ Drawn(c) = Len(e) /\ Len(e) \in {1, 2} /\ nextId \in Nat \ {0} /\ first \in Int
        /\ e = A!Entries(op[c], account')
    <3>1. Changed(c) \in Rows
      BY <2>2, ApplyIsRow DEF Changed
    <3>2. Len(e) = IF op[c] = "settle" THEN 2 ELSE 1
      BY <2>2, <3>1, EntriesFacts
    <3>3. Drawn(c) = IF op[c] = "settle" THEN 2 ELSE 1
      BY <2>1 DEF Drawn
    <3>4. QED
      BY <1>1, <2>1, <3>2, <3>3 DEF TypeOK, Commit
  <2>6. /\ DOMAIN rows[c] = first..(first + Len(e) - 1)
        /\ \A i \in first..(first + Len(e) - 1) : rows[c][i] = e[i - first + 1]
        /\ \A j \in DOMAIN ledger : j \in Int /\ j < first
    <3>1. nextId - 1 = first + Len(e) - 1
      BY <2>5
    <3>2. \A j \in DOMAIN ledger : j \in Int
      BY <2>1, IdsAreInts DEF TypeOK
    <3>3. QED
      BY <2>3, <3>1, <3>2 DEF UpToDate, InRow
  <2>7. ledger' = [i \in DOMAIN ledger \cup first..(first + Len(e) - 1) |->
                     IF i < first THEN ledger[i] ELSE e[i - first + 1]]
    <3>1. ledger' = [i \in DOMAIN rows[c] \cup DOMAIN ledger |->
                       IF i \in DOMAIN rows[c] THEN rows[c][i] ELSE ledger[i]]
      BY <1>1 DEF Commit, Merge
    <3>2. \A i \in first..(first + Len(e) - 1) : ~(i < first)
      BY <2>5
    <3>3. \A i \in DOMAIN ledger : i \notin first..(first + Len(e) - 1)
      BY <2>5, <2>6
    <3>4. QED
      BY <2>6, <3>1, <3>2, <3>3
  <2>8. first \in DOMAIN ledger' /\ \A i \in DOMAIN ledger : i < first
    <3> HIDE DEF e, first
    <3>1. first \in first..(first + Len(e) - 1)
      BY <2>5
    <3>2. QED
      BY <2>6, <2>7, <3>1
  <2>9. A!Record(A!Entries(op[c], account'))
    BY <2>5, <2>7, <2>8 DEF A!Record
  <2>10. A!Perform(op[c])
    BY <2>3, <2>4, <2>9 DEF Base, A!Perform
  <2>11. QED
    BY <2>2, <2>10 DEF A!Next
<1>2. ASSUME NEW c \in Call, GetAccountCreate(c)
      PROVE  A!Next \/ UNCHANGED <<account, ledger>>
  BY <1>2 DEF GetAccountCreate, A!Next, A!Open, table
<1>3. QED
  BY <1>1, <1>2
  DEF Next, Step, Rollback, Begin, First, CreateAccountTx, Refuse, Save, Insert, vars, table

\* The transactions implement the account that callers of BalanceService rely
\* on, until two of them overlap: whatever fails, whoever creates the row, a
\* commit takes the committed row to what the one operation makes of it, and
\* puts its rows at the end of the ledger.
THEOREM BalanceImplementsAccount == Spec => AccountSpec
<1>1. Init => A!Init
  BY DEF Init, A!Init
<1>2. QED
  BY <1>1, BalanceSafe, StepIsAccountStep, PTL DEF Spec, AccountSpec
=============================================================================
