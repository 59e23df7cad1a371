SPECIFICATION Spec
CONSTANTS
  Paths = {1, 2}
  Network <- MCNetwork
  Tiebreaker <- MCTiebreaker
  PingIds = {1}
  MaxFailures = 1
  PairBase = 32
  Scenarios <- MCScenarios
INVARIANTS
  NoDanglingBest
  StateInSync
