SPECIFICATION Spec
CONSTANTS
  None = None
  case = case
  level = level
  closed = closed
  open = open
  hundred = hundred
  within = within
  beyond = beyond
  Keys <- MCKeys
  Values <- MCValues
  Numeric <- MCNumeric
  Names <- MCNames
  Magnitude <- MCMagnitude
  Tokens = {}
  FixtureToken = FixtureToken
  IgcRules <- MCIgcRules
  Mode = "manual"
  IgcManual = FALSE
  HighStakes = FALSE
  Interval = 10
  Scenarios <- FactScenarios
  Fixtures <- FactFixtures
  Sensed = {}
  Injected = {}
  LiveConfidences = {}
  Budgets = {3}
  CandidateIds = {"A"}
  Hashes = {}
  Unexpected = open
  MaxLoops = 1
PROPERTIES
  ResolutionClears
