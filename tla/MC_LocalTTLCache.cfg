\* Three keys, a cache of two items, and a clock long enough for an item to
\* expire twice.
SPECIFICATION Spec
CONSTANTS
  k1 = k1
  k2 = k2
  k3 = k3
  Key = {k1, k2, k3}
  TTL = 2
  MaxSize = 2
  MaxTime = 6
  MaxAdmissions = 5
INVARIANT TypeOK
INVARIANT RecentAdmissionsKept
PROPERTY ImplementsWindow
CHECK_DEADLOCK FALSE
