SPECIFICATION FairSpec
CONSTANTS
  Proc = {p}
  Release = {r1}
  Lab = 4
  None = None
  MaxFaults = 0
INVARIANTS RecordedIsReal
PROPERTIES CommandsEnd
