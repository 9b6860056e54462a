\* Two jobs and two concurrent requests, one start of the server.
CONSTANTS
    MaxJobs = 2
    Client = {c1, c2}
    DbFaults = 0
    MaxStarts = 1
    MaxStops = 0
SPECIFICATION Spec
SYMMETRY ClientSymmetry
INVARIANTS
    NoJobForgotten
    CompletedHasResult
PROPERTY LifecycleSpec
CHECK_DEADLOCK FALSE
