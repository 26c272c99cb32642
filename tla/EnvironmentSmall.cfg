SPECIFICATION Spec
CONSTANTS
  Proc = {p, q}
  Release = {r1, r2}
  Lab = 1
  None = None
  MaxFaults = 1
SYMMETRY Symmetry
VIEW View
INVARIANTS TypeOK
PROPERTIES ForeignIsKept SuccessIsConsistent ResetLeavesNothing
