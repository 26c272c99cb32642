SPECIFICATION FairSpec
CONSTANTS
  Proc = {p1, p2}
  Id = {a, b}
  Env = {n1}
  Release = {r1}
  None = None
  MaxFaults = 2
INVARIANTS TypeOK VerifiedIsComplete OnlyStartLeavesDebris
PROPERTIES ForeignIsNeverDeleted StopDeletesWhatWasShown SuccessIsComplete LockEventuallyFree ImplementsManagedCluster
