SPECIFICATION Spec
CONSTANTS
  Proc = {p, q}
  Name = {l1, l2, l3, l4}
  Retention = 2
  None = None
  MaxFaults = 1
SYMMETRY Symmetry
INVARIANTS RetentionBounded PrunedIsOld ReportedIsComplete
