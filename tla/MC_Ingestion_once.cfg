\* One notification sent twice, one outage of Kafka.
SPECIFICATION Spec
CONSTANTS
  f1 = f1
  r1 = r1
  r2 = r2
  NoFp = NoFp
  Fp = {f1}
  Req = {r1, r2}
  Adapter = "webhook"
  FaultKind = {"kafka"}
  UseLocalFallback = TRUE
  MaxReceipts = 2
  MaxFaults = 1
  MaxExpiries = 0
INVARIANT CapturedExactlyOnce
CHECK_DEADLOCK FALSE
