SPECIFICATION FairSpec
CONSTANTS
    d1 = d1
    d2 = d2
    None = None
    Downloader = {d1}
    Transmission = {}
    Length = 2
    HeavyConcurrency = 1
    InfoConcurrency = 2
    ReadsFail = {"tracker"}
    MaxJobs = 2
    MaxCrashes = 1
INVARIANTS FullMeansAll
PROPERTIES JobsEnd ImplementsScan
CHECK_DEADLOCK FALSE
