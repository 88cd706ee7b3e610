SPECIFICATION FairSpec
CONSTANTS
  p1 = p1  p2 = p2
  NoPod = NoPod  NoEntry = NoEntry  Torn = Torn
  Pod = {p1, p2}
  Config <- MCConfig
  FaultyCalls <- MCMendedCalls
  MaxFaults = 2
  MayVanish = TRUE
  EmptyNetns = FALSE
  RepeatDel = TRUE
CHECK_DEADLOCK FALSE
INVARIANTS Mended Restored EntryRemoved LateDelSpares FailedAddUndone LeaseFreed
PROPERTY DelCompletes
