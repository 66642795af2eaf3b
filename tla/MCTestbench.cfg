CONSTANTS
  N = 3
  Total = 4
  SerialTotal = 2
  PluginLists <- MCPluginLists
SPECIFICATION MCSpec
INVARIANTS PoolSound Balanced Verdicts FlagLives
PROPERTIES AsTestPool FailureEnds NobodyLeft StatusWorkers
\* The bench ends.
CHECK_DEADLOCK FALSE
