SPECIFICATION FairSpec
CONSTANTS
  Blocks <- Blocks_mc
  Window <- Window_mc
  MaxRetries <- MaxRetries_mc
  MaxLoss <- MaxLoss_mc
  MaxRuns <- MaxRuns_mc
INVARIANT TypeOK
INVARIANT ConfirmedIsInstalled
INVARIANT OneWindowInFlight
INVARIANT OneVerdict
PROPERTY SilentAfterVerdict
PROPERTY KeepsPromise
PROPERTY EveryTransferEnds
CHECK_DEADLOCK FALSE
