\* Progress under fair scheduling, over a crash and the restart after it.
CONSTANTS
    MaxJobs = 2
    Client = {c1}
    DbFaults = 0
    MaxStarts = 2
    MaxStops = 0
SPECIFICATION FairSpec
PROPERTY JobsSettle
CHECK_DEADLOCK FALSE
