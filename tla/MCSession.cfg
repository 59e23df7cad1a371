SPECIFICATION SessionSpec
CONSTANTS
  p1 = p1
  p2 = p2
  Observers = {p1, p2}
  KeyTypes = {"RSA", "ECDSA"}
  Candidates = {c1}
  Scenarios <- MCScenarios
  MaxAsked = 3
INVARIANTS
  Promised
  KeysDistinct
  DescriptionsPresent
  CandidatesUsed
  RequestsAccounted
PROPERTY AllAnswered
CHECK_DEADLOCK FALSE
