\* One client after git, and no cancellation: a transport error suffices.
CONSTANTS
  Validation = {v1}
  Tools <- MCTools
  ReapAttempts = 1
  MaxCancels = 0
SPECIFICATION Spec
INVARIANT InconclusiveIsNetworkError
CHECK_DEADLOCK FALSE
