SPECIFICATION KFairSpec
CONSTANTS
  p1 = p1  p2 = p2  c1 = c1  c2 = c2  c3 = c3
  k1 = k1  k2 = k2  k3 = k3
  NoKey = NoKey  NoCaller = NoCaller
  Process = {p1,p2}
  Caller = {c1,c2,c3}
  ProcessOf <- MCProcessOf
  Key = {k1,k2,k3}
  MaxCrashes = 1
PROPERTIES EmptyIsTransient
