SPECIFICATION Spec
CONSTANTS
  v1 = v1  v2 = v2
  upper = upper  lower = lower
  Visitors = {v1}
  Emails = {upper, lower}
  NoEmail = NoEmail
  Fold <- MCFold
  Forms <- MCForms
  MaxTries = 2
  Strict = TRUE
  MayFail = FALSE
CHECK_DEADLOCK FALSE
SYMMETRY Symmetry
INVARIANTS
  RequiredFieldsSuffice
