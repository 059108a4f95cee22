\* Two runs over the plan, each with one retry, two goroutines at a time.
CONSTANTS
  Plan = 3
  Skips <- MCSkips
  k1 = k1
  k2 = k2
  topicA = topicA
  topicB = topicB
  Key <- MCKey
  Pattern <- MCPattern
  KeyOf <- MCKeyOf
  PatternsOf <- MCPatternsOf
  Preexisting <- MCPreexisting
  Requested = 2
  MaxRetries = 1
  MaxRuns = 2

SPECIFICATION FairSpec
CHECK_DEADLOCK FALSE
INVARIANTS TypeOK LogMatchesSummary TruthfulLines ExitZeroIsEarned
PROPERTIES Terminates PromiseSpec
