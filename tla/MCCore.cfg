SPECIFICATION CoreSpec
CONSTANTS
  Run = {one, two}
  Unset = unset
  Code = {"VALIDATION_ERROR", "TIMEOUT_ERROR"}
  MaxReconfigured = 1
  first = first
  second = second
INVARIANTS WritesOnlyAfterOptOut ResponseTells
PROPERTIES RunsEnd CallsSettle
\* every run and every call is made once, and a plugin may hang
CHECK_DEADLOCK FALSE
