SPECIFICATION Spec
CONSTANTS
  N = 2
  MaxLines = 2
  Blocking = TRUE
  Breaking = {}
  MaxDrift = 1
INVARIANT SelectSleeps
