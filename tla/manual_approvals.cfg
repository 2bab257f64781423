SPECIFICATION Spec
CONSTANTS
  None = None
  case = case
  level = level
  closed = closed
  open = open
  hundred = hundred
  within = within
  beyond = beyond
  Keys = {level}
  Values <- MCValues
  Numeric <- MCNumeric
  Names <- MCNames
  Magnitude <- MCMagnitude
  Tokens = {t1, t2}
  FixtureToken = FixtureToken
  IgcRules <- MCIgcRules
  Mode = "manual"
  IgcManual = FALSE
  HighStakes = FALSE
  Interval = 10
  Scenarios <- ApprovalScenarios
  Fixtures <- ApprovalFixtures
  Sensed = {}
  Injected = {}
  LiveConfidences = {}
  Budgets = {3, 21}
  CandidateIds = {"A", "B", "C", "Z"}
  Hashes = {"close_case", "other"}
  Unexpected = open
  MaxLoops = 3
SYMMETRY TokenSymmetry
INVARIANTS
  TypeOK
  ApprovalsAccounted
  RequestsAreOpen
PROPERTIES
  FreshCyclesHaveBudget
  ActsOnOneChoice
  IrreversibleWasChosen
  ImplementsLedger
