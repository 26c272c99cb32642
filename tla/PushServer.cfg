SPECIFICATION Spec
CONSTANTS
  Req = {a, b}
CHECK_DEADLOCK FALSE
INVARIANTS TypeOK ExitTellsTruth NilMeansAsked
PROPERTIES RunEnds
