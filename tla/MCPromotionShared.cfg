SPECIFICATION Spec
CONSTANTS
  r1 = r1  r2 = r2  r3 = r3  p1 = p1  p2 = p2
  NoLock = NoLock  Unsigned = Unsigned
  Runs = {r1, r2, r3}
  Packages = {p1, p2}
  PackageOf <- TwoPackages
  Present = {p1}
  Rebuilds = {r2}
  CrashPoints <- Anywhere
  MaxFaults = 1
INVARIANTS NoTraceLeft OnlyTornLocksWedge
CHECK_DEADLOCK FALSE
