\* An outage of Redis and nothing else, with the fallback disabled.
SPECIFICATION Spec
CONSTANTS
  f1 = f1
  r1 = r1
  NoFp = NoFp
  Fp = {f1}
  Req = {r1}
  Adapter = "webhook"
  FaultKind = {"redis"}
  UseLocalFallback = FALSE
  MaxReceipts = 1
  MaxFaults = 1
  MaxExpiries = 0
INVARIANT RedisOutageDoesNotHalt
CHECK_DEADLOCK FALSE
