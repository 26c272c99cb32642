SPECIFICATION Spec
CONSTANTS
  Pod = {p, q}
  Topics <- TwoTopics
  Initial = {0}
  MaxClients = 1
  MaxFaults = 1
INVARIANTS IncreasesUpToDesired
