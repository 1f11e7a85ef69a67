SPECIFICATION Spec
CONSTANTS
  c1 = c1
  c2 = c2
  MaxDrafts = 2
  Clients <- MCClients
  Weeks = 2
  Stamps <- MCOneStamp
  MaxBoots = 2
  Faults <- AllFaults
SYMMETRY ClientSymmetry
INVARIANTS RowsConsistent CancelEffective InterruptedIsTerminal RunningIsOwned IInv
PROPERTIES TerminalImmutable ProgressNeverBack JobRunsOut ImplementsLifecycle
CHECK_DEADLOCK TRUE
