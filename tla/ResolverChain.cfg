CONSTANTS
  Null = Null
  Fields <- MCFields
  Nullable <- MCNullable
  Values <- MCValues
  Defaults <- MCDefaults
  Updates <- MCUpdates
  Request = {1, 2}
  Faults = 1
  Crashes = 1
  Task = {1, 2}
  Generations = 4
  Events = 4
SPECIFICATION Spec
INVARIANTS
  FileInForce
  RetriesAreBounded
PROPERTIES
  OnlyGivenChange
  OneChain
  SpacedUnlessWaiting
  ResolutionsEnd
CHECK_DEADLOCK FALSE
