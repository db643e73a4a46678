SPECIFICATION FairSpec
CONSTANTS
    r1 = r1
    r2 = r2
    i1 = i1
    i2 = i2
    Request = {r1, r2}
    Item = {i1, i2}
    Result = {"failed"}
    MaxJobs = 2
    MaxBoots = 2
    MaxFaults = 1
    WriteScope = TRUE
INVARIANTS OneJobPerItem ActiveAttended
PROPERTIES BodyOnce ImplementsJobs JobsSettle
CHECK_DEADLOCK FALSE
