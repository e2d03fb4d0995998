\* The webhook and no fault at all.
SPECIFICATION Spec
CONSTANTS
  f1 = f1
  r1 = r1
  NoFp = NoFp
  Fp = {f1}
  Req = {r1}
  Adapter = "webhook"
  FaultKind = {}
  UseLocalFallback = TRUE
  MaxReceipts = 1
  MaxFaults = 0
  MaxExpiries = 0
INVARIANT SuspectsQuarantined
CHECK_DEADLOCK FALSE
