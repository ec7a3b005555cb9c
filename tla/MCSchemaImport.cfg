SPECIFICATION Spec
CONSTANTS
  v1 = v1
  Visitors = {v1}
  Samples = 2
  MaxImports = 2
  MaxMade = 2
CHECK_DEADLOCK FALSE
INVARIANTS
  TypeOK
  SamplesAreBack
  NothingDangles
  OnlyBookingsFails
  ReferencesAreTrue
