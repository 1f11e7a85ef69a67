SPECIFICATION FairSpec
CONSTANTS
  c1 = c1
  c2 = c2
  MaxDrafts = 2
  Clients <- MCClients
  Weeks = 1
  Stamps <- MCOneStamp
  MaxBoots = 2
  Faults <- NoFaults
INVARIANTS NoLostWakeup
PROPERTIES EveryDraftEnds ShutdownEnds
CHECK_DEADLOCK TRUE
