\* The webhook without a local fallback: one request at a time, two
\* notifications, two faults of any kind, fairness.
SPECIFICATION FairSpec
CONSTANTS
  f1 = f1
  r1 = r1
  NoFp = NoFp
  Fp = {f1}
  Req = {r1}
  Adapter = "webhook"
  FaultKind = {"redis", "kafka", "crash", "stop"}
  UseLocalFallback = FALSE
  MaxReceipts = 2
  MaxFaults = 2
  MaxExpiries = 0
PROPERTY RequestsEnd
PROPERTY ShutdownEnds
PROPERTY KafkaOutageHealed
PROPERTY OrderlyExit
CHECK_DEADLOCK FALSE
