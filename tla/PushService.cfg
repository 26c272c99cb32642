SPECIFICATION Spec
CONSTANTS
  Req = {a, b, c}
  Burst = 2
  Rate = {0, 1, 2}
  None = None
  MaxTime = 3
SYMMETRY Symmetry
VIEW View
INVARIANTS TypeOK LimiterMatches AdmissionsBounded
PROPERTIES RejectsOnlyAfterBurst
