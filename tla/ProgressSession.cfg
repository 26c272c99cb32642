SPECIFICATION FairSpec
CONSTANTS
  Text = {1, 2}
  Scripts <- SomeScripts
  MaxPartial = 3
  LineMax = 2
  Capture = 4
  LogMax = 4
  MarkerSize = 1
  TailRows = 2
  MaxReports = 2
INVARIANTS TypeOK StreamsAreFaithful LogHasNoHoles LastFrameTellsOutcome
PROPERTIES SessionEnds
