SPECIFICATION Spec
CONSTANTS
  c1 = c1
  c2 = c2
  p1 = p1
  p2 = p2
  p3 = p3
  Clients <- MCClients
  Places <- MCPlaces
  Plans <- ShortPlans
  Duties <- EverythingTwice
  MaxRequests = 4
  Faults = TRUE
INVARIANTS TypeOK PlacesPermuted OneWhileAlone
PROPERTIES LessonsKeepIdentity ImplementsTimetable
SYMMETRY ClientSymmetry
