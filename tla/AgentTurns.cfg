SPECIFICATION AgentSpec
CONSTANTS
  Adapters = {"openai","indexless","anthropic","google"}
  MaxAttempts = 2
  MaxFragments = 3
  MaxCalls = 2
  MaxBlocks = 3
  MaxItems = 8
  MaxOwn = 1
  MaxTurns = 2
INVARIANTS Framed DeltasAreWhatWasSaid StreamedAsWhole DialectRulesKept NothingLost
CHECK_DEADLOCK FALSE
