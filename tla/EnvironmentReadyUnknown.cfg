SPECIFICATION Spec
CONSTANTS
  Proc = {p}
  Release = {r1}
  Lab = 1
  None = None
  MaxFaults = 0
INVARIANTS ReadyIsKnown
