SPECIFICATION UploadSpec
CONSTANTS
    Uploaders = {"t1", "t2"}
    Ranges = {"r1", "r2"}
    MaxRequests = 6
INVARIANTS
    ArchivedIsWhole
CHECK_DEADLOCK FALSE
