SPECIFICATION Spec
CONSTANTS
  Requests <- MCRequests
  Catalogs <- MCCatalogs
  Failing = {"lessons", "slot", "class"}
  PageSize = 2
INVARIANTS TypeOK MapKnows ClashesReported SuitReported EachCounted UtilizationBounded RowsTell
