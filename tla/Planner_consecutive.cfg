SPECIFICATION Spec
CONSTANTS
  Requests <- RunRequests
  Stores <- OneStore
  PageSize = 3
INVARIANT ConsecutiveKept
