SPECIFICATION FairSpec
CONSTANTS
  None = None
  case = case
  level = level
  closed = closed
  open = open
  hundred = hundred
  within = within
  beyond = beyond
  Keys <- MCKeys
  Values <- MCValues
  Numeric <- MCNumeric
  Names <- MCNames
  Magnitude <- MCMagnitude
  Tokens = {t1}
  FixtureToken = FixtureToken
  IgcRules <- MCIgcRules
  Mode = "stub"
  IgcManual = FALSE
  HighStakes = FALSE
  Interval = 10
  Scenarios <- StubScenarios
  Fixtures <- StubFixtures
  Sensed = {}
  Injected = {}
  LiveConfidences = {}
  Budgets = {3}
  CandidateIds = {}
  Hashes = {"close_case"}
  Unexpected = open
  MaxLoops = 3
INVARIANTS
  OnlyManualSpends
PROPERTIES
  FreshCyclesHaveBudget
  CompleteIsFinal
  StubRunsEnd
