CHECK_DEADLOCK FALSE
SPECIFICATION MCSpec
CONSTANTS
    Projects = {p, q}
    Hashes = {h}
    Size <- UnitSize
    MaxObjectBytes = 1
    TransferTTL = 1
    MaxTime = 3
    MaxUploads = 3
    MaxDownloads = 1
    MaxCrashes = 1
    RecordTTL = 2
    MaxLost = 1
    EventProjects = {p, q}
    Project = p
    Retention = 2
    MaxEvents = 5
    PageSize = 2
    MaxRestarts = 1
    MaxFailures = 1
    MaxCaptures = 1
INVARIANTS AuthorizedBytesExist RefIffTransferred DoneMeansAuthorized NoGap
PROPERTIES UploadsExpire AdapterCatchesUp
