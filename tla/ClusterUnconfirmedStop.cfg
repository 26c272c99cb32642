SPECIFICATION Spec
CONSTANTS
  Proc = {p1, p2}
  Id = {a}
  Env = {n1}
  Release = {r1}
  None = None
  MaxFaults = 0
PROPERTIES DeletionIsConfirmed
