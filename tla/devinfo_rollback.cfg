SPECIFICATION Spec
CONSTANTS
  p1 = p1  p2 = p2
  NoPod = NoPod  NoEntry = NoEntry  Torn = Torn
  Pod = {p1, p2}
  Config <- MCFullConfig
  FaultyCalls = {"devInfo"}
  MaxFaults = 1
  MayVanish = FALSE
  EmptyNetns = FALSE
  RepeatDel = FALSE
CHECK_DEADLOCK FALSE
INVARIANT SuccessMeansAttached
