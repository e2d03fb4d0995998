\* Two tasks, one token, three events, an outage and a restart.
SPECIFICATION FairSpec
CONSTANTS
  t1 = t1
  p1 = p1
  NoPool = NoPool
  c1 = c1
  c2 = c2
  s1 = s1
  Id = {t1}
  Token = {t1}
  Pool = {p1}
  Call = {c1, c2}
  Subscriber = {s1}
  MaxEvents = 3
  MaxOutages = 1
  MaxRestarts = 1
INVARIANT TypeOK
INVARIANT TablesAgree
INVARIANT KnownIsStored
INVARIANT DiscoveriesOverlap
PROPERTY DiscoverySurvivesOutage
CHECK_DEADLOCK FALSE
