SPECIFICATION MembershipSpec
CONSTANTS
  a1 = a1  a2 = a2  a3 = a3  s1 = s1  s2 = s2  s3 = s3
  c1 = c1  c2 = c2  t1 = t1
  NoSlot = NoSlot  NoTimer = NoTimer
  IdOf <- MCIdOf
  AccountID = {a1,a2,a3}
  Slot = {s1,s2,s3}
  Caller = {c1,c2}
  Timer = {t1}
  MaxInFlight = 1
  Durations = {1}
  AddStatuses = {"ready"}
  MaxTime = 1
SYMMETRY MCSymmetry
INVARIANTS TypeOK NoAccountStarved
