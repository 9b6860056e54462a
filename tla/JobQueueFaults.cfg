\* Two jobs, one request at a time beside the worker and the cleanup, one
\* failing statement, one restart after a crash or a graceful shutdown.
CONSTANTS
    MaxJobs = 2
    Client = {c1}
    DbFaults = 1
    MaxStarts = 2
    MaxStops = 1
SPECIFICATION Spec
INVARIANTS
    TypeOK
    OneTaskAtATime
    NoFilesAfterDelete
    CancelStopsWork
    StartedAtMostOnce
CHECK_DEADLOCK FALSE
