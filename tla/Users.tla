------------------------------- MODULE Users --------------------------------
(***************************************************************************)
(* One user's row and the requests that change it: sign-in, the middleware *)
(* that lets requests in, the daily check-in, the reset of the API key, an *)
(* admin's SetStatus.  A deposit is one step here, which Balance.tla opens *)
(* up; how much it is worth does not matter.                               *)
(*                                                                         *)
(* Each statement on the row is a transaction of its own, and what a       *)
(* request has read of it may be old when it writes.  Of the API keys only *)
(* whose they are is kept, and of the times the day.                       *)
(***************************************************************************)
EXTENDS Integers

CONSTANTS
  Checkin,    \* POST /me/checkin
  Reset,      \* POST /me/reset-key
  SignIn,     \* POST /auth/register or /auth/telegram/callback
  NoUser, Never,
  MaxDay,     \* bounds of the model: days,
  MaxSets,    \* how often the admin sets the status,
  MaxFaults   \* and how many statements and transactions fail

Request == Checkin \cup Reset \cup SignIn

\* A key is known by the request that generated it.
UserRow == [key : Request, status : {"active", "banned"}, checkin : {Never} \cup 0..MaxDay]

ASSUME UsersAssumption ==
  /\ Checkin \cap Reset = {} /\ (Checkin \cup Reset) \cap SignIn = {}
  /\ NoUser \notin Request /\ NoUser \notin UserRow /\ Never \notin Nat
  /\ MaxDay \in Nat /\ MaxSets \in Nat /\ MaxFaults \in Nat

VARIABLES
  user,      \* the committed row
  at,        \* at[r]: where request r is
  row,       \* row[r]: the User value in the memory of r
  day,
  sets,      \* how often the admin has set the status,
  wanted,    \* and to what
  rewards,   \* check-ins paid for today
  replaced,  \* the keys that a reset has replaced
  undone,    \* a reset had read the row and not saved it when the status was set
  excused,   \* a check-in failed on the way, or another check-in or a reset overlapped it
  faults

status == <<sets, wanted, undone>>
paid == <<rewards, excused>>
vars == <<user, at, row, day, status, paid, replaced, faults>>

Init ==
  /\ user = NoUser
  /\ at = [r \in Request |-> "start"]
  /\ row = [r \in Request |-> NoUser]
  /\ day = 0
  /\ sets = 0 /\ wanted = "active" /\ undone = FALSE
  /\ rewards = 0 /\ excused = FALSE
  /\ replaced = {}
  /\ faults = 0

\* A fault that changes nothing in the row needs no step of its own where
\* nothing waits for the request: the request just takes no further step.
Fault == faults < MaxFaults /\ faults' = faults + 1

Goto(r, place) == at' = [at EXCEPT ![r] = place]

-----------------------------------------------------------------------------
(* Sign-in: Register, LoginTelegram.                                       *)

\* Whoever is found is answered with the row, or told that the e-mail is taken;
\* only last_used_at is written.
FindUser(r) ==
  /\ at[r] = "start"
  /\ Goto(r, IF user = NoUser THEN "create" ELSE "done")
  /\ UNCHANGED <<user, row, day, status, paid, replaced, faults>>

\* The unique index refuses a second row.
CreateUser(r) ==
  /\ at[r] = "create"
  /\ user' = IF user = NoUser
               THEN [key |-> r, status |-> "active", checkin |-> Never]
               ELSE user
  /\ Goto(r, "done")
  /\ UNCHANGED <<row, day, status, paid, replaced, faults>>

-----------------------------------------------------------------------------
(* APIKeyAuth, which gives the handler the row it has read.                *)

\* The user presents the valid key; otherwise nothing happens.
LetIn(r) ==
  /\ at[r] = "start" /\ user # NoUser
  /\ row' = [row EXCEPT ![r] = user]

\* A mutant of AlreadyCheckedIn: who has ever checked in, not who has today.
AlreadyCheckedInBefore(u) == u.checkin # Never /\ u.checkin < day

AlreadyCheckedIn(u) == u.checkin = day

AtCheckin == {c \in Checkin : at[c] \in {"in", "paid"}}

StartCheckin(c) ==
  /\ LetIn(c)
  /\ IF user.status = "active" /\ ~AlreadyCheckedIn(user)
       THEN Goto(c, "in") /\ excused' = (excused \/ AtCheckin # {})
       ELSE Goto(c, "done") /\ UNCHANGED excused
  /\ UNCHANGED <<user, day, status, rewards, replaced, faults>>

StartReset(r) ==
  /\ LetIn(r)
  /\ Goto(r, IF user.status = "active" THEN "in" ELSE "done")
  /\ UNCHANGED <<user, day, status, paid, replaced, faults>>

-----------------------------------------------------------------------------
(* Checkin, after the day was compared.                                    *)

Resetting == {r \in Reset : at[r] = "read"}

\* The transaction commits, or fails; a commit whose answer is lost has
\* happened all the same.
Deposit(c) ==
  /\ at[c] = "in"
  /\ \/ rewards' = rewards + 1 /\ Goto(c, "paid") /\ UNCHANGED <<excused, faults>>
     \/ rewards' \in {rewards, rewards + 1} /\ Goto(c, "done") /\ excused' = TRUE /\ Fault
  /\ UNCHANGED <<user, row, day, status, replaced>>

\* A mutant of UpdateLastCheckin: the row is saved as the middleware read it.
UpdateLastCheckinSaves(c) ==
  /\ at[c] = "paid"
  /\ user' = [row[c] EXCEPT !.checkin = day]
  /\ excused' = (excused \/ Resetting # {})
  /\ Goto(c, "done")
  /\ UNCHANGED <<row, day, status, rewards, replaced, faults>>

\* An UPDATE of the date alone; the answer does not depend on its success.
UpdateLastCheckin(c) ==
  /\ at[c] = "paid"
  /\ \/ /\ user' = [user EXCEPT !.checkin = day]
        /\ excused' = (excused \/ Resetting # {})
        /\ UNCHANGED faults
     \/ excused' = TRUE /\ Fault /\ UNCHANGED user
  /\ Goto(c, "done")
  /\ UNCHANGED <<row, day, status, rewards, replaced>>

-----------------------------------------------------------------------------
(* ResetAPIKey.                                                            *)

ResetReads(r) ==
  /\ at[r] = "in"
  /\ row' = [row EXCEPT ![r] = user]
  /\ Goto(r, "read")
  /\ UNCHANGED <<user, day, status, paid, replaced, faults>>

\* Save writes every column of the row from the process's copy.
ResetSaves(r) ==
  /\ at[r] = "read"
  /\ \/ /\ user' = [row[r] EXCEPT !.key = r]
        /\ replaced' = replaced \cup {user.key}
        /\ UNCHANGED faults
     \/ Fault /\ UNCHANGED <<user, replaced>>
  /\ Goto(r, "done")
  /\ UNCHANGED <<row, day, status, paid>>

-----------------------------------------------------------------------------
(* The admin, and the clock.                                               *)

SetStatus(s) ==
  /\ user # NoUser /\ sets < MaxSets
  /\ sets' = sets + 1
  /\ user' = [user EXCEPT !.status = s]
  /\ wanted' = s
  /\ undone' = (undone \/ Resetting # {})
  /\ UNCHANGED <<at, row, day, paid, replaced, faults>>

Midnight ==
  /\ day < MaxDay
  /\ day' = day + 1 /\ rewards' = 0
  /\ UNCHANGED <<user, at, row, status, excused, replaced, faults>>

-----------------------------------------------------------------------------
CheckinStep(c) == StartCheckin(c) \/ Deposit(c) \/ UpdateLastCheckin(c)
ResetStep(r) == StartReset(r) \/ ResetReads(r) \/ ResetSaves(r)

Next ==
  \/ \E r \in SignIn : FindUser(r) \/ CreateUser(r)
  \/ \E c \in Checkin : CheckinStep(c)
  \/ \E r \in Reset : ResetStep(r)
  \/ \E s \in {"active", "banned"} : SetStatus(s)
  \/ Midnight

Spec == Init /\ [][Next]_vars

-----------------------------------------------------------------------------
(* Properties.                                                             *)

\* Every variable has its type; no request goes on without a user.
TypeOK ==
  /\ user \in UserRow \cup {NoUser}
  /\ at \in [Request -> {"start", "create", "in", "paid", "read", "done"}]
  /\ row \in [Request -> UserRow \cup {NoUser}]
  /\ day \in 0..MaxDay /\ sets \in 0..MaxSets /\ rewards \in Nat /\ faults \in 0..MaxFaults
  /\ wanted \in {"active", "banned"} /\ replaced \subseteq Request
  /\ undone \in BOOLEAN /\ excused \in BOOLEAN
  /\ \A r \in Request : at[r] \in {"in", "paid", "read"} => user # NoUser /\ row[r] # NoUser

\* "ResetAPIKey (invalidates old one)": no key that was replaced comes back,
\* whatever is written from an older copy of the row.
ReplacedKeyIsDead == user # NoUser => user.key \notin replaced

\* The status is the one the admin has set, or the first, unless a reset of the
\* key wrote back what it had read before.
StatusIsAdmins == user # NoUser /\ ~undone => user.status = wanted

\* A day's check-in is paid for once, if check-ins come one after the other, no
\* reset writes back the date and nothing fails.
OneRewardADay == excused \/ rewards <= 1
=============================================================================
