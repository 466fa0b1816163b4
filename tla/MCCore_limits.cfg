SPECIFICATION CoreSpec
CONSTANTS
  Run = {one}
  Unset = unset
  Code = {"VALIDATION_ERROR"}
  MaxReconfigured = 0
  first = first
  second = second
INVARIANT LimitsEnforced
CHECK_DEADLOCK FALSE
