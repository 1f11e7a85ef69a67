SPECIFICATION Spec
CONSTANTS
  c1 = c1
  c2 = c2
  p1 = p1
  p2 = p2
  p3 = p3
  Clients <- MCOneClient
  Places <- MCPlaces
  Plans <- OnePlan
  Duties <- OnlyGenerate
  MaxRequests = 2
  Faults = TRUE
INVARIANT NeverLeftEmpty
