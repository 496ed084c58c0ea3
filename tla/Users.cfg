SPECIFICATION Spec
CONSTANTS
  Checkin = {c1, c2}
  Reset = {k1, k2}
  SignIn = {s1, s2}
  NoUser = NoUser
  Never = Never
  MaxDay = 1
  MaxSets = 2
  MaxFaults = 1
CHECK_DEADLOCK FALSE
INVARIANTS ReplacedKeyIsDead StatusIsAdmins OneRewardADay
