SPECIFICATION Spec
CONSTANTS
  p1 = p1  p2 = p2
  NoPod = NoPod  NoEntry = NoEntry  Torn = Torn
  Pod = {p1, p2}
  Config <- MCFullConfig
  FaultyCalls = {}
  MaxFaults = 0
  MayVanish = TRUE
  EmptyNetns = FALSE
  RepeatDel = FALSE
CHECK_DEADLOCK FALSE
INVARIANT NoStaleEntry
