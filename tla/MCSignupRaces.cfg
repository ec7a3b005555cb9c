SPECIFICATION Spec
CONSTANTS
  v1 = v1  v2 = v2
  upper = upper  lower = lower
  Visitors = {v1, v2}
  Emails = {upper, lower}
  NoEmail = NoEmail
  Fold <- MCFold
  Forms <- MCForms
  MaxTries = 2
  Strict = TRUE
  MayFail = TRUE
CHECK_DEADLOCK FALSE
SYMMETRY Symmetry
INVARIANTS
  TypeOK
  OneAccountPerEmail
  ToldCreatedLogsIn
PROPERTY RegistryKept
