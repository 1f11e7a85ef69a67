SPECIFICATION Spec
CONSTANTS
  Requests <- MCRequests
  Stores <- MCStores
  PageSize = 3
INVARIANTS TypeOK NoDoubleBooking LessonsSuit Accounted RequiredIsAsked
PROPERTIES UnplacedIsReal StepsRunOut ImplementsPlan PlanEnds
