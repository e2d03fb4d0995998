\* Two concurrent requests for one notification, which is sent three times, and
\* one fault of any kind.  An adapter that is not the webhook, so quarantine
\* happens and the process may end while it flushes.
SPECIFICATION Spec
CONSTANTS
  f1 = f1
  r1 = r1
  r2 = r2
  NoFp = NoFp
  Fp = {f1}
  Req = {r1, r2}
  Adapter = "direct"
  FaultKind = {"redis", "kafka", "crash", "stop"}
  UseLocalFallback = TRUE
  MaxReceipts = 3
  MaxFaults = 1
  MaxExpiries = 1
INVARIANT TypeOK
INVARIANT AtMostOncePerEntry
INVARIANT AdmissionsAccounted
INVARIANT RawBeforeAnswer
INVARIANT AnswerNeedsAdmission
SYMMETRY Sym
CHECK_DEADLOCK FALSE
