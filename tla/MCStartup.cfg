SPECIFICATION FairSpec
CONSTANTS
  w1 = w1  w2 = w2  w3 = w3
  Windows = {w1, w2, w3}
INVARIANTS
  TypeOK
  ServedOverADatabase
PROPERTY BringsTheSiteUp
\* All windows may be closed.
CHECK_DEADLOCK FALSE
