\* One validation with two clients before the Fossil probe: the second is started while a
\* helper of the first may still be there.  Two waits for a helper, two cancellations.
CONSTANTS
  Validation = {v1}
  Tools <- MCTools
  ReapAttempts = 2
  MaxCancels = 2
SPECIFICATION Spec
INVARIANTS
  ClientsReaped
  
  
PROPERTIES
  
  EveryValidationEnds
  HelpersReaped
CHECK_DEADLOCK FALSE
