SPECIFICATION Spec
CONSTANTS
  w1 = w1
  w2 = w2
  Workers = {w1, w2}
  Budget = 3
  MaxFixAttempts = 2
  MaxOutputRetries = 1
  MaxTries = 1
  Catalog <- MCCatalog
  AgentModel <- MCAgentModel
  Pricing <- MCPricing
  Fallback = "opus"
  PerUnit = 20
  Usages <- MCUsages
  Replies <- MCReplies
  MaxFaults = 1
  MaxOverlaps = 1
  None = None
INVARIANTS SpendIsLedger BudgetHolds BudgetFailureIsReal UnrecordedBounded
PROPERTIES FixingEnds
CHECK_DEADLOCK FALSE
