SPECIFICATION Spec
CONSTANTS
    d1 = d1
    d2 = d2
    None = None
    Downloader = {d1, d2}
    Transmission = {d2}
    Length = 2
    HeavyConcurrency = 1
    InfoConcurrency = 2
    ReadsFail = {}
    MaxJobs = 1
    MaxCrashes = 0
INVARIANTS CursorBehindData NothingDropped Covered
CHECK_DEADLOCK FALSE
