SPECIFICATION ReAddSpec
CONSTANTS
  a1 = a1  a2 = a2  s1 = s1  s2 = s2  s3 = s3
  c1 = c1  c2 = c2  c3 = c3  t1 = t1  t2 = t2
  NoSlot = NoSlot  NoTimer = NoTimer
  IdOf <- MCIdOf
  AccountID = {a1}
  Slot = {s1,s3}
  Caller = {c1}
  Timer = {t1,t2}
  MaxInFlight = 1
  Durations = {1}
  AddStatuses = {"ready"}
  MaxTime = 2
INVARIANTS CooldownHasTimer
PROPERTIES SignedOutIsSticky CooldownEnds
