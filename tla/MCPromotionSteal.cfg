SPECIFICATION Spec
CONSTANTS
  r1 = r1  r2 = r2  r3 = r3  p1 = p1  p2 = p2 
  NoLock = NoLock  Unsigned = Unsigned
  Runs = {r1, r2, r3}
  Packages = {p1}
  PackageOf <- OnePackage
  Present = {p1}
  Rebuilds = {}
  CrashPoints <- Anywhere
  MaxFaults = 0
INVARIANT OneInstaller
CHECK_DEADLOCK FALSE
