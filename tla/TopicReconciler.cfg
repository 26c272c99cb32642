SPECIFICATION FairSpec
CONSTANTS
  Pod = {p, q}
  Topics <- TwoTopics
  Initial = {0, 1, 2}
  MaxClients = 1
  MaxFaults = 3
INVARIANTS TypeOK ReadyIsSufficient RetriesNeverOvershoot
PROPERTIES ReconcilesOrRefuses
