\* A cancellation that races with the worker.
CONSTANTS
    MaxJobs = 2
    Client = {c1}
    DbFaults = 0
    MaxStarts = 1
    MaxStops = 0
SPECIFICATION Spec
PROPERTY CancelledIsFinal
CHECK_DEADLOCK FALSE
