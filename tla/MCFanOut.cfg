CHECK_DEADLOCK FALSE
SPECIFICATION FeedSpec
CONSTANTS
    EventProjects = {p, q}
    Project = p
    Retention = 2
    MaxEvents = 3
    PageSize = 2
    MaxRestarts = 1
    MaxFailures = 1
    MaxCaptures = 0
INVARIANT FannedOutBeforeCursor
