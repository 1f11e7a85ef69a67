SPECIFICATION Spec
CONSTANTS
  c1 = c1
  c2 = c2
  p1 = p1
  p2 = p2
  p3 = p3
  Clients <- MCClients
  Places <- MCPlaces
  Plans <- OnePlan
  Duties <- GenerateAndMove
  MaxRequests = 3
  Faults = FALSE
INVARIANT OnePublished
