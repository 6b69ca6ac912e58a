CHECK_DEADLOCK FALSE
SPECIFICATION MCSpec
SYMMETRY Symmetry
CONSTANTS
    Callers = {a, b}
    Routes = {accept}
    Targets = {t1, t2}
    Bodies = {b1, b2}
    Keys = {k}
    RecordTTL = 2
    MaxTime = 3
    MaxEffects = 3
    EventProjects = {p, q}
    Retention = 1
    MaxEvents = 3
    Handlers = {h1, h2}
    Subscribed = p
    StreamPage = 1
    ChannelSize = 1
    MaxSent = 3
    MaxConnects = 2
    MaxWarnings = 1
    r1 = r1
    r2 = r2
    n1 = n1
    n2 = n2
    n3 = n3
    Repositories = {r1, r2}
    Names = {n1, n2, n3}
    Deliveries = {d1, d2}
    Payloads = {x, y}
    Events = {push, star}
    AllowedEvents = {push}
    Damaged = Damaged
    MaxRotations = 2
    MaxSends = 4
    MaxRenames = 2
    MaxRebinds = 1
    MaxRequests = 2
    TokenTtl = 1
    MaxClock = 1
    Principals = {p1, p2, p3}
    MaxMembers = 2
    AssignableRoles = {"approver", "release_manager", "admin"}
    MaxVersion = 1
    Requests = {q1, q2}
    MaxReleaseRows = 2
    MaxBuildRows = 1
    MaxAttempts = 1
INVARIANTS PastDraftIsApproved AtMostOnce AnswersAgree NewestArrives HandedOnOnce ChecksStayAtHome
