SPECIFICATION GFairSpec
CONSTANTS
  a1 = a1  a2 = a2  s1 = s1  s2 = s2
  c1 = c1  c2 = c2  t1 = t1  t2 = t2
  NoSlot = NoSlot  NoTimer = NoTimer  NoCopy = NoCopy
  IdOf <- MCIdOf
  AccountID = {a1}
  Slot = {s1}
  Caller = {c1}
  Timer = {t1,t2}
  MaxInFlight = 1
  Durations = {1}
  AddStatuses = {"ready", "rate_limited", "signed_out", "error"}
  MaxTime = 2
  MaxRetries = 2
  Cooldown = 1
  InitialRows <- MCCoolingRows
  MaxCrashes = 1
PROPERTIES RequestAnswered StoredCooldownEnds
