---------------------------- MODULE UsersProofs -----------------------------
(***************************************************************************)
(* The invariants of Users.tla for any number of sign-ins, check-ins and   *)
(* resets, any number of days, settings of the status and faults.          *)
(***************************************************************************)
EXTENDS Users, TLAPS

\* Only a request that is over has given the row its key, and so a replaced key
\* is no key that is still to come.
KeysAreSpent ==
  /\ user # NoUser => at[user.key] = "done"
  /\ \A r \in replaced : at[r] = "done"

\* Nothing was paid and nobody was banned before there was a user.
NothingBefore == user = NoUser => wanted = "active" /\ rewards = 0

\* A reset saves the status and the date it finds, but for what is excused.
CopiesAgree ==
  \A r \in Reset : at[r] = "read" =>
    /\ ~undone => row[r].status = user.status
    /\ ~excused => row[r].checkin = user.checkin

\* One check-in at a time: it is paid for the first reward of the day, and the
\* date is stored before the next one starts.
OneAtATime ==
  /\ \A c, d \in AtCheckin : c = d
  /\ \A c \in Checkin : at[c] = "in" => rewards = 0
  /\ rewards > 0 => (\E c \in Checkin : at[c] = "paid") \/ user.checkin = day
  /\ rewards <= 1

\* The inductive invariant.
UsersInv ==
  /\ TypeOK /\ KeysAreSpent /\ ReplacedKeyIsDead /\ NothingBefore
  /\ CopiesAgree /\ StatusIsAdmins /\ (~excused => OneAtATime)

LEMMA UsersInit == Init => UsersInv
<1> SUFFICES ASSUME Init PROVE UsersInv
  OBVIOUS
<1>1. /\ \A r \in Request : at[r] = "start"
      /\ Checkin \subseteq Request /\ Reset \subseteq Request /\ AtCheckin = {}
  BY DEF Init, Request, AtCheckin
<1>2. TypeOK
  <2>1. /\ at \in [Request -> {"start", "create", "in", "paid", "read", "done"}]
        /\ row \in [Request -> UserRow \cup {NoUser}]
    BY DEF Init
  <2>2. day \in 0..MaxDay /\ sets \in 0..MaxSets /\ rewards \in Nat /\ faults \in 0..MaxFaults
    BY UsersAssumption DEF Init
  <2>3. /\ user \in UserRow \cup {NoUser} /\ wanted \in {"active", "banned"}
        /\ replaced \subseteq Request /\ undone \in BOOLEAN /\ excused \in BOOLEAN
    BY DEF Init
  <2>4. QED
    BY <1>1, <2>1, <2>2, <2>3 DEF TypeOK
<1>3. KeysAreSpent /\ ReplacedKeyIsDead /\ NothingBefore /\ StatusIsAdmins
  BY DEF Init, KeysAreSpent, ReplacedKeyIsDead, NothingBefore, StatusIsAdmins
<1>4. CopiesAgree
  BY <1>1 DEF CopiesAgree
<1>5. OneAtATime
  BY <1>1 DEF Init, OneAtATime
<1>6. QED
  BY <1>2, <1>3, <1>4, <1>5 DEF UsersInv

-----------------------------------------------------------------------------
(* Type correctness.                                                       *)

\* The fields of a row.
LEMMA RowFields ==
  ASSUME NEW u \in UserRow
  PROVE  /\ u # NoUser /\ u.key \in Request /\ u.status \in {"active", "banned"}
         /\ u.checkin \in {Never} \cup 0..MaxDay
  BY UsersAssumption DEF UserRow

\* A row with one column changed.
LEMMA KeyChanged ==
  ASSUME NEW u \in UserRow, NEW r \in Request, NEW v, v = [u EXCEPT !.key = r]
  PROVE  v \in UserRow /\ v.key = r /\ v.status = u.status /\ v.checkin = u.checkin
  BY DEF UserRow

LEMMA StatusChanged ==
  ASSUME NEW u \in UserRow, NEW s \in {"active", "banned"}, NEW v, v = [u EXCEPT !.status = s]
  PROVE  v \in UserRow /\ v.key = u.key /\ v.status = s /\ v.checkin = u.checkin
  BY DEF UserRow

LEMMA CheckinChanged ==
  ASSUME NEW u \in UserRow, NEW d \in 0..MaxDay, NEW v, v = [u EXCEPT !.checkin = d]
  PROVE  v \in UserRow /\ v.key = u.key /\ v.status = u.status /\ v.checkin = d
  BY DEF UserRow

\* A new row.
LEMMA RowCreated ==
  ASSUME NEW r \in Request
  PROVE  LET u == [key |-> r, status |-> "active", checkin |-> Never]
         IN  u \in UserRow /\ u.key = r /\ u.status = "active" /\ u.checkin = Never
  BY DEF UserRow

LEMMA UsersStep == UsersInv /\ [Next]_vars => UsersInv'
<1> SUFFICES ASSUME UsersInv, [Next]_vars PROVE UsersInv'
  OBVIOUS
<1> USE DEF status, paid
<1>1. ASSUME NEW r \in SignIn, FindUser(r) PROVE UsersInv'
  <2>1. TypeOK'
    BY <1>1 DEF UsersInv, TypeOK, FindUser, Goto, Request
  <2>2. \A q \in Request : (q # r => at'[q] = at[q]) /\ (at[q] = "done" => at'[q] = "done")
    BY <1>1 DEF UsersInv, TypeOK, FindUser, Goto, Request
  <2>3. QED
    BY <1>1, <2>1, <2>2, UsersAssumption, RowFields
    DEF UsersInv, TypeOK, FindUser, KeysAreSpent, ReplacedKeyIsDead, NothingBefore, CopiesAgree,
        StatusIsAdmins, OneAtATime, AtCheckin, Request
<1>2. ASSUME NEW r \in SignIn, CreateUser(r) PROVE UsersInv'
  <2> DEFINE new == [key |-> r, status |-> "active", checkin |-> Never]
  <2>1. /\ r \in Request /\ new \in UserRow /\ new # NoUser
        /\ new.key = r /\ new.status = "active" /\ new.checkin = Never
    BY RowCreated, RowFields DEF Request
  <2>2. /\ at[r] = "create" /\ at'[r] = "done"
        /\ \A q \in Request : q # r => at'[q] = at[q]
        /\ at' \in [Request -> {"start", "create", "in", "paid", "read", "done"}]
    BY <1>2, <2>1 DEF UsersInv, TypeOK, CreateUser, Goto
  <2>3. user' = IF user = NoUser THEN new ELSE user
    BY <1>2 DEF CreateUser
  <2>4. UNCHANGED <<row, day, sets, wanted, undone, rewards, excused, replaced, faults>>
    BY <1>2 DEF CreateUser
  <2> HIDE DEF new
  <2>5. TypeOK'
    BY <2>1, <2>2, <2>3, <2>4 DEF UsersInv, TypeOK
  <2>6. KeysAreSpent' /\ ReplacedKeyIsDead'
    BY <2>1, <2>2, <2>3, <2>4, RowFields
    DEF UsersInv, TypeOK, KeysAreSpent, ReplacedKeyIsDead
  <2>7. NothingBefore' /\ StatusIsAdmins'
    BY <2>1, <2>3, <2>4 DEF UsersInv, NothingBefore, StatusIsAdmins
  <2>8. CopiesAgree'
    BY <2>1, <2>2, <2>3, <2>4, UsersAssumption DEF UsersInv, TypeOK, CopiesAgree, Request
  <2>9. ~excused' => OneAtATime'
    BY <2>1, <2>2, <2>3, <2>4, UsersAssumption
    DEF UsersInv, TypeOK, NothingBefore, OneAtATime, AtCheckin, Request
  <2>10. QED
    BY <2>5, <2>6, <2>7, <2>8, <2>9 DEF UsersInv
<1>3. ASSUME NEW c \in Checkin, StartCheckin(c) PROVE UsersInv'
  <2>1. /\ c \in Request /\ user \in UserRow /\ user # NoUser
        /\ user.checkin \in {Never} \cup 0..MaxDay
    BY <1>3, RowFields DEF UsersInv, TypeOK, StartCheckin, LetIn, Request
  <2>2. /\ at[c] = "start" /\ at'[c] \in {"in", "done"}
        /\ \A q \in Request : q # c => at'[q] = at[q]
        /\ at' \in [Request -> {"start", "create", "in", "paid", "read", "done"}]
        /\ row' \in [Request -> UserRow \cup {NoUser}] /\ row'[c] = user
        /\ \A q \in Request : q # c => row'[q] = row[q]
    BY <1>3, <2>1 DEF UsersInv, TypeOK, StartCheckin, LetIn, Goto
  <2>3. UNCHANGED <<user, day, sets, wanted, undone, rewards, replaced, faults>>
    BY <1>3 DEF StartCheckin
  <2>4. /\ excused' \in BOOLEAN /\ (excused => excused')
        /\ at'[c] = "in" => user.checkin # day /\ (~excused' => AtCheckin = {})
    BY <1>3, <2>1 DEF UsersInv, TypeOK, StartCheckin, AlreadyCheckedIn, Goto
  <2>5. TypeOK'
    BY <2>1, <2>2, <2>3, <2>4 DEF UsersInv, TypeOK
  <2>6. KeysAreSpent' /\ ReplacedKeyIsDead' /\ NothingBefore' /\ StatusIsAdmins'
    BY <2>1, <2>2, <2>3, RowFields
    DEF UsersInv, TypeOK, KeysAreSpent, ReplacedKeyIsDead, NothingBefore, StatusIsAdmins
  <2>7. CopiesAgree'
    BY <2>1, <2>2, <2>3, <2>4, UsersAssumption DEF UsersInv, TypeOK, CopiesAgree, Request
  <2>8. ~excused' => OneAtATime'
    BY <2>1, <2>2, <2>3, <2>4, UsersAssumption
    DEF UsersInv, TypeOK, OneAtATime, AtCheckin, Request
  <2>9. QED
    BY <2>5, <2>6, <2>7, <2>8 DEF UsersInv
<1>4. ASSUME NEW c \in Checkin, Deposit(c) PROVE UsersInv'
  <2>1. /\ c \in Request /\ user # NoUser /\ at[c] = "in" /\ at'[c] \in {"paid", "done"}
        /\ \A q \in Request : q # c => at'[q] = at[q]
        /\ at' \in [Request -> {"start", "create", "in", "paid", "read", "done"}]
    BY <1>4 DEF UsersInv, TypeOK, Deposit, Goto, Request
  <2>2. UNCHANGED <<user, row, day, sets, wanted, undone, replaced>>
    BY <1>4 DEF Deposit
  <2>3. /\ rewards' \in Nat /\ faults' \in 0..MaxFaults
        /\ excused' \in BOOLEAN /\ (excused => excused')
        /\ ~excused' => rewards' = rewards + 1 /\ at'[c] = "paid"
    <3>1. CASE rewards' = rewards + 1 /\ Goto(c, "paid") /\ UNCHANGED <<excused, faults>>
      BY <2>1, <3>1 DEF UsersInv, TypeOK, Goto
    <3>2. CASE rewards' \in {rewards, rewards + 1} /\ Goto(c, "done") /\ excused' = TRUE /\ Fault
      BY <3>2, UsersAssumption DEF UsersInv, TypeOK, Fault
    <3>3. QED
      BY <1>4, <3>1, <3>2 DEF Deposit
  <2>4. row[c] # NoUser
    BY <2>1 DEF UsersInv, TypeOK
  <2>5. TypeOK'
    BY <2>1, <2>2, <2>3, <2>4 DEF UsersInv, TypeOK
  <2>6. KeysAreSpent' /\ ReplacedKeyIsDead' /\ NothingBefore' /\ StatusIsAdmins'
    BY <2>1, <2>2, RowFields
    DEF UsersInv, TypeOK, KeysAreSpent, ReplacedKeyIsDead, NothingBefore, StatusIsAdmins
  <2>7. CopiesAgree'
    BY <2>1, <2>2, <2>3, UsersAssumption DEF UsersInv, TypeOK, CopiesAgree, Request
  <2>8. ~excused' => OneAtATime'
    BY <2>1, <2>2, <2>3, UsersAssumption
    DEF UsersInv, TypeOK, OneAtATime, AtCheckin, Request
  <2>9. QED
    BY <2>5, <2>6, <2>7, <2>8 DEF UsersInv
<1>5. ASSUME NEW c \in Checkin, UpdateLastCheckin(c) PROVE UsersInv'
  <2>1. /\ c \in Request /\ user \in UserRow /\ user # NoUser
        /\ at[c] = "paid" /\ at'[c] = "done"
        /\ \A q \in Request : q # c => at'[q] = at[q]
        /\ at' \in [Request -> {"start", "create", "in", "paid", "read", "done"}]
    BY <1>5 DEF UsersInv, TypeOK, UpdateLastCheckin, Goto, Request
  <2>2. UNCHANGED <<row, day, sets, wanted, undone, rewards, replaced>>
    BY <1>5 DEF UpdateLastCheckin
  <2>3. /\ user' \in UserRow /\ user' # NoUser
        /\ user'.key = user.key /\ user'.status = user.status
        /\ faults' \in 0..MaxFaults /\ excused' \in BOOLEAN /\ (excused => excused')
        /\ ~excused' => Resetting = {} /\ user'.checkin = day
    <3>1. CASE /\ user' = [user EXCEPT !.checkin = day]
               /\ excused' = (excused \/ Resetting # {})
               /\ UNCHANGED faults
      <4>1. day \in 0..MaxDay
        BY DEF UsersInv, TypeOK
      <4>2. /\ user' \in UserRow /\ user'.key = user.key /\ user'.status = user.status
            /\ user'.checkin = day
        BY <2>1, <3>1, <4>1, CheckinChanged
      <4>3. QED
        BY <3>1, <4>2, RowFields DEF UsersInv, TypeOK
    <3>2. CASE excused' = TRUE /\ Fault /\ UNCHANGED user
      BY <2>1, <3>2, UsersAssumption DEF UsersInv, TypeOK, Fault
    <3>3. QED
      BY <1>5, <3>1, <3>2 DEF UpdateLastCheckin
  <2>5. TypeOK'
    BY <2>1, <2>2, <2>3 DEF UsersInv, TypeOK
  <2>6. KeysAreSpent' /\ ReplacedKeyIsDead' /\ NothingBefore' /\ StatusIsAdmins'
    BY <2>1, <2>2, <2>3, RowFields
    DEF UsersInv, TypeOK, KeysAreSpent, ReplacedKeyIsDead, NothingBefore, StatusIsAdmins
  <2>7. CopiesAgree'
    BY <2>1, <2>2, <2>3, UsersAssumption
    DEF UsersInv, TypeOK, CopiesAgree, Resetting, Request
  <2>8. ~excused' => OneAtATime'
    BY <2>1, <2>2, <2>3, UsersAssumption
    DEF UsersInv, TypeOK, OneAtATime, AtCheckin, Request
  <2>9. QED
    BY <2>5, <2>6, <2>7, <2>8 DEF UsersInv
<1>6. ASSUME NEW r \in Reset, StartReset(r) \/ ResetReads(r) PROVE UsersInv'
  <2>1. /\ r \in Request /\ user \in UserRow /\ user # NoUser
        /\ at[r] \in {"start", "in"} /\ at'[r] \in {"in", "read", "done"}
        /\ \A q \in Request : q # r => at'[q] = at[q]
        /\ at' \in [Request -> {"start", "create", "in", "paid", "read", "done"}]
        /\ row' \in [Request -> UserRow \cup {NoUser}] /\ row'[r] = user
        /\ \A q \in Request : q # r => row'[q] = row[q]
    BY <1>6 DEF UsersInv, TypeOK, StartReset, LetIn, ResetReads, Goto, Request
  <2>2. UNCHANGED <<user, day, sets, wanted, undone, rewards, excused, replaced, faults>>
    BY <1>6 DEF StartReset, ResetReads
  <2>3. TypeOK'
    BY <2>1, <2>2 DEF UsersInv, TypeOK
  <2>4. KeysAreSpent' /\ ReplacedKeyIsDead' /\ NothingBefore' /\ StatusIsAdmins'
    BY <2>1, <2>2, RowFields
    DEF UsersInv, TypeOK, KeysAreSpent, ReplacedKeyIsDead, NothingBefore, StatusIsAdmins
  <2>5. CopiesAgree'
    BY <2>1, <2>2 DEF UsersInv, TypeOK, CopiesAgree, Request
  <2>6. ~excused' => OneAtATime'
    BY <2>1, <2>2, UsersAssumption DEF UsersInv, TypeOK, OneAtATime, AtCheckin, Request
  <2>7. QED
    BY <2>3, <2>4, <2>5, <2>6 DEF UsersInv
<1>7. ASSUME NEW r \in Reset, ResetSaves(r) PROVE UsersInv'
  <2>1. /\ r \in Request /\ user \in UserRow /\ user # NoUser /\ row[r] \in UserRow
        /\ at[r] = "read" /\ at'[r] = "done"
        /\ \A q \in Request : q # r => at'[q] = at[q]
        /\ at' \in [Request -> {"start", "create", "in", "paid", "read", "done"}]
    BY <1>7 DEF UsersInv, TypeOK, ResetSaves, Goto, Request
  <2>2. UNCHANGED <<row, day, sets, wanted, undone, rewards, excused>>
    BY <1>7 DEF ResetSaves
  <2>3. CASE user' = [row[r] EXCEPT !.key = r] /\ replaced' = replaced \cup {user.key}
             /\ UNCHANGED faults
    <3>1. /\ user' \in UserRow /\ user' # NoUser /\ user'.key = r
          /\ user'.status = row[r].status /\ user'.checkin = row[r].checkin
      BY <2>1, <2>3, KeyChanged, RowFields
    <3>2. user.key \in Request /\ user.key # r /\ r \notin replaced
      BY <2>1, RowFields DEF UsersInv, KeysAreSpent
    <3>3. TypeOK'
      BY <2>1, <2>2, <2>3, <3>1, <3>2 DEF UsersInv, TypeOK
    <3>4. KeysAreSpent' /\ ReplacedKeyIsDead'
      BY <2>1, <2>3, <3>1, <3>2 DEF UsersInv, TypeOK, KeysAreSpent, ReplacedKeyIsDead
    <3>5. NothingBefore' /\ StatusIsAdmins' /\ CopiesAgree'
      BY <2>1, <2>2, <3>1, UsersAssumption
      DEF UsersInv, TypeOK, NothingBefore, StatusIsAdmins, CopiesAgree, Request
    <3>6. ~excused' => OneAtATime'
      BY <2>1, <2>2, <3>1, UsersAssumption
      DEF UsersInv, TypeOK, CopiesAgree, OneAtATime, AtCheckin, Request
    <3>7. QED
      BY <3>3, <3>4, <3>5, <3>6 DEF UsersInv
  <2>4. CASE Fault /\ UNCHANGED <<user, replaced>>
    <3>1. TypeOK'
      BY <2>1, <2>2, <2>4, UsersAssumption DEF UsersInv, TypeOK, Fault
    <3>2. KeysAreSpent' /\ ReplacedKeyIsDead' /\ NothingBefore' /\ StatusIsAdmins'
      BY <2>1, <2>2, <2>4, RowFields
      DEF UsersInv, TypeOK, KeysAreSpent, ReplacedKeyIsDead, NothingBefore, StatusIsAdmins
    <3>3. CopiesAgree'
      BY <2>1, <2>2, <2>4, UsersAssumption DEF UsersInv, TypeOK, CopiesAgree, Request
    <3>4. ~excused' => OneAtATime'
      BY <2>1, <2>2, <2>4, UsersAssumption
      DEF UsersInv, TypeOK, OneAtATime, AtCheckin, Request
    <3>5. QED
      BY <3>1, <3>2, <3>3, <3>4 DEF UsersInv
  <2>5. QED
    BY <1>7, <2>3, <2>4 DEF ResetSaves
<1>8. ASSUME NEW s \in {"active", "banned"}, SetStatus(s) PROVE UsersInv'
  <2>1. /\ user \in UserRow /\ user' \in UserRow /\ user' # NoUser
        /\ user'.key = user.key /\ user'.status = s /\ user'.checkin = user.checkin
    <3>1. user \in UserRow /\ user' = [user EXCEPT !.status = s]
      BY <1>8 DEF UsersInv, TypeOK, SetStatus
    <3>2. QED
      BY <3>1, StatusChanged, RowFields
  <2>2. /\ wanted' = s /\ sets' \in 0..MaxSets
        /\ undone' \in BOOLEAN /\ (~undone' => ~undone /\ Resetting = {})
    <3>1. wanted' = s /\ sets' \in 0..MaxSets
      BY <1>8, UsersAssumption DEF UsersInv, TypeOK, SetStatus
    <3>2. undone' \in BOOLEAN /\ (~undone' => ~undone /\ Resetting = {})
      BY <1>8, Zenon DEF UsersInv, TypeOK, SetStatus
    <3>3. QED
      BY <3>1, <3>2
  <2>3. UNCHANGED <<at, row, day, rewards, excused, replaced, faults>>
    BY <1>8 DEF SetStatus
  <2>4. TypeOK'
    BY <1>8, <2>1, <2>2, <2>3 DEF UsersInv, TypeOK
  <2>5. KeysAreSpent' /\ ReplacedKeyIsDead' /\ NothingBefore' /\ StatusIsAdmins'
    BY <1>8, <2>1, <2>2, <2>3
    DEF UsersInv, KeysAreSpent, ReplacedKeyIsDead, NothingBefore, StatusIsAdmins, SetStatus
  <2>6. CopiesAgree'
    BY <2>1, <2>2, <2>3 DEF UsersInv, CopiesAgree, Resetting
  <2>7. ~excused' => OneAtATime'
    BY <2>1, <2>3 DEF UsersInv, OneAtATime, AtCheckin
  <2>8. QED
    BY <2>4, <2>5, <2>6, <2>7 DEF UsersInv
<1>9. CASE Midnight
  <2>1. TypeOK'
    BY <1>9, UsersAssumption DEF UsersInv, TypeOK, Midnight
  <2>2. QED
    BY <1>9, <2>1
    DEF UsersInv, Midnight, KeysAreSpent, ReplacedKeyIsDead, NothingBefore, CopiesAgree,
        StatusIsAdmins, OneAtATime, AtCheckin
<1>10. CASE UNCHANGED vars
  BY <1>10
  DEF vars, UsersInv, TypeOK, KeysAreSpent, ReplacedKeyIsDead, NothingBefore, CopiesAgree,
      StatusIsAdmins, OneAtATime, AtCheckin
<1>11. QED
  BY <1>1, <1>2, <1>3, <1>4, <1>5, <1>6, <1>7, <1>8, <1>9, <1>10
  DEF Next, CheckinStep, ResetStep

-----------------------------------------------------------------------------

LEMMA UsersInvariant == Spec => []UsersInv
  BY UsersInit, UsersStep, PTL DEF Spec

\* Whatever requests overlap, every variable keeps its type, and no request goes
\* on without a user.
THEOREM UsersTypes == Spec => []TypeOK
<1>1. UsersInv => TypeOK
  BY DEF UsersInv
<1>2. QED
  BY <1>1, UsersInvariant, PTL

\* A key that ResetAPIKey has replaced never opens the account again, however
\* many resets, check-ins and settings of the status run at the same time.
THEOREM ReplacedKeysStayDead == Spec => []ReplacedKeyIsDead
<1>1. UsersInv => ReplacedKeyIsDead
  BY DEF UsersInv
<1>2. QED
  BY <1>1, UsersInvariant, PTL

\* The account has the status that the admin gave it, unless a reset had read
\* the row when it was given.
THEOREM StatusStays == Spec => []StatusIsAdmins
<1>1. UsersInv => StatusIsAdmins
  BY DEF UsersInv
<1>2. QED
  BY <1>1, UsersInvariant, PTL

\* Check-ins that do not overlap are paid for once a day, over any number of
\* days.
THEOREM OnceADay == Spec => []OneRewardADay
<1>1. UsersInv => OneRewardADay
  BY DEF UsersInv, OneAtATime, OneRewardADay, TypeOK
<1>2. QED
  BY <1>1, UsersInvariant, PTL
=============================================================================
