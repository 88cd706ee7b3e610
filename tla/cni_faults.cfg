SPECIFICATION Spec
CONSTANTS
  p1 = p1  p2 = p2
  NoPod = NoPod  NoEntry = NoEntry  Torn = Torn
  Pod = {p1, p2}
  Config <- MCConfig
  FaultyCalls <- MCMostCalls
  MaxFaults = 3
  MayVanish = TRUE
  EmptyNetns = TRUE
  RepeatDel = FALSE
CHECK_DEADLOCK FALSE
INVARIANTS TypeOK Kept SuccessMeansAttached RetryHasConf
