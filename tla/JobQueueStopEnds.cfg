\* Does stop() end?
CONSTANTS
    MaxJobs = 2
    Client = {c1}
    DbFaults = 0
    MaxStarts = 1
    MaxStops = 1
SPECIFICATION FairSpec
PROPERTY StopEnds
CHECK_DEADLOCK FALSE
