SPECIFICATION FairSpec
CONSTANTS
  o1 = o1  o2 = o2
  Owners = {o1, o2}
  Rents <- MCRents
  MaxRent = 5
  NoRent = NoRent
  MaxTries = 2
  MaxSent = 2
  Throws = TRUE
  Strict = TRUE
  MayFail = TRUE
CHECK_DEADLOCK FALSE
INVARIANTS
  TypeOK
  RelistedOnlyAfterAlerts
  ToldListedIsOwnAndFurnished
PROPERTIES EverySubmitIsAnswered CatalogueKept
