\* Three conversions; the model stops after MaxCalls of them.
SPECIFICATION FairSpec
CONSTANTS
  PumpMax = 3
  JobCounts <- Around
  MaxCalls = 3
  Null = Null
INVARIANTS TypeOK OwnAnswer NothingLeftBehind NobodyStuck
PROPERTY ConvertReturns
CHECK_DEADLOCK FALSE
