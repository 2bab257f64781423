SPECIFICATION WaitingSpec
CONSTANTS
  None = None
  case = case
  level = level
  closed = closed
  open = open
  hundred = hundred
  within = within
  beyond = beyond
  Keys = {case}
  Values = {closed, open}
  Numeric = {}
  Names <- MCNames
  Magnitude <- NoMagnitude
  Tokens = {}
  FixtureToken = FixtureToken
  IgcRules <- MCIgcRules
  Mode = "manual"
  IgcManual = FALSE
  HighStakes = FALSE
  Interval = 10
  Scenarios <- StreamScenarios
  Fixtures <- StreamFixtures
  Sensed = {}
  Injected = {}
  LiveConfidences = {}
  Budgets = {7}
  CandidateIds = {"A"}
  Hashes = {}
  Unexpected = open
  MaxLoops = 1
  Capacity = 2
  MaxLog = 3
  MaxRows = 3
PROPERTIES
  PendingIsStreamed
