SPECIFICATION Spec
CONSTANTS
  c1 = c1
  c2 = c2
  MaxDrafts = 1
  Clients <- MCOneClient
  Weeks = 1
  Stamps <- MCOneStamp
  MaxBoots = 1
  Faults <- NoFaults
INVARIANT CancelSignalsJob
CHECK_DEADLOCK TRUE
