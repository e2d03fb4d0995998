\* Two instances of the service, two workflows, two messages.
SPECIFICATION FairSpec
CONSTANTS
  c1 = c1
  c2 = c2
  w1 = w1
  w2 = w2
  None = None
  Consumer = {c1, c2}
  Workflow = {w1, w2}
  MaxRetries = 1
  FaultKind = {"crash", "stop", "rebalance", "commit", "dlq"}
  MaxFaults = 2
  MaxMsg = 2
INVARIANT TypeOK
INVARIANT CommittedIsRouted
PROPERTY NoPoisonPill
PROPERTY ImplementsSettledLog
CHECK_DEADLOCK FALSE
