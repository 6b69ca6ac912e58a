CHECK_DEADLOCK FALSE
SPECIFICATION MCSpec
SYMMETRY Symmetry
CONSTANTS
    x = x
    first = first
    c1 = c1
    None = None
    Sessions = {s1, s2}
    Transfers = {t}
    Workspaces = {first, second}
    Projects = {x, y}
    ProjectOf <- OneProject
    QueueSize = 1
    MaxVersions = 2
    Plugins = {p1, p2}
    Codes = {c1, c2}
    Connections = {k1}
    ChallengeTtl = 1
    CredentialTtl = 2
    MaxAttempts = 2
    EventCapacity = 1
    MaxChallenges = 2
    MaxTime = 2
    TransferIds = {t1, t2}
    Bytes = {m, n}
    ChunkCount = 2
    Commands = {o1}
    Payloads = {u, v}
    SeenLimit = 2
    MaxMissed = 1
    TicketUses = 2
    MaxBindings = 2
    MaxMessages = 8
    MaxTickets = 1
    Nothing = Nothing
INVARIANTS CapturedWhereOffered AppliesAreForBoundSessions OneCredentialPerApproval RevokedStaysOut HandledOnceInOrder
PROPERTY VerifiedStays
