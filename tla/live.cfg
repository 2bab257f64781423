SPECIFICATION Spec
CONSTANTS
  None = None
  case = case
  level = level
  closed = closed
  open = open
  hundred = hundred
  within = within
  beyond = beyond
  Keys <- MCKeys
  Values <- MCValues
  Numeric <- MCNumeric
  Names <- MCNames
  Magnitude <- MCMagnitude
  Tokens = {t1}
  FixtureToken = FixtureToken
  IgcRules <- MCIgcRules
  Mode = "live"
  IgcManual = FALSE
  HighStakes = TRUE
  Interval = 2
  Scenarios <- LiveScenarios
  Fixtures <- LiveFixtures
  Sensed <- ToolResults
  Injected <- InjectedObservations
  LiveConfidences = {200, 900}
  Budgets = {11}
  CandidateIds = {}
  Hashes = {"close_case"}
  Unexpected = open
  MaxLoops = 3
INVARIANTS
  HumanFactsPrevail
  OnlyManualSpends
PROPERTIES
  NoSilentOverwrite
  CompleteIsFinal
  CheckpointsHold
