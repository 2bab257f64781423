SPECIFICATION CallsSpec
CONSTANTS
  None = None
  case = case
  level = level
  closed = closed
  open = open
  hundred = hundred
  within = within
  beyond = beyond
  Keys = {level}
  Values = {hundred}
  Numeric = {hundred}
  Names <- MCNames
  Magnitude <- OneMagnitude
  Tokens = {t1}
  FixtureToken = FixtureToken
  IgcRules <- MCIgcRules
  Mode = "manual"
  IgcManual = FALSE
  HighStakes = FALSE
  Interval = 10
  Scenarios <- QuietScenarios
  Fixtures <- Quiet
  Sensed = {}
  Injected = {}
  LiveConfidences = {}
  Budgets = {100}
  CandidateIds = {"B"}
  Hashes = {"close_case"}
  Unexpected = hundred
  MaxLoops = 1
  Deployments = {"processes"}
  MaxForgotten = 1
INVARIANTS
  SingleUse
