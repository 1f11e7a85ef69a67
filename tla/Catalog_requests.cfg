SPECIFICATION Spec
CONSTANTS
  c1 = c1
  c2 = c2
  Empty = Empty
  Nil = Nil
  Values <- MCValues
  Bodies <- MCBodies
  MaxId = 2
  Pages = {0, 2, 5}
  Sizes = {0, 2, 3}
  DefaultPageSize = 1
  MaxPageSize = 2
  Wrap = 4
  Clients <- MCClients
  Duties <- MCDuties
  Initial <- MCInitial
  MaxRequests = 3
  Faults = TRUE
SYMMETRY Symmetric
INVARIANT TypeOK
PROPERTY ImplementsCatalog
