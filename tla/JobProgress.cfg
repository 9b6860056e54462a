SPECIFICATION FairSpec
CONSTANTS
    p1 = p1
    p2 = p2
    p3 = p3
    Purl = {p1, p2, p3}
    Limit = 2
    MaxUrls = 3
    DbFaults = 1
INVARIANTS
    CurrentWithinTotal
    CompletedIsFull
    NothingAfterCancel
PROPERTIES
    CounterNeverBack
    ShownIsFinal
    EverythingEnds
CHECK_DEADLOCK FALSE
