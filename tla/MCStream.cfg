SPECIFICATION StreamSpec
CONSTANTS
    EventProjects = {p}
    Retention = 2
    MaxEvents = 2
    Handlers = {h1, h2}
    Subscribed = p
    StreamPage = 2
    ChannelSize = 3
    MaxSent = 2
    MaxConnects = 1
    MaxWarnings = 0
INVARIANT EveryEventArrives
CHECK_DEADLOCK FALSE
