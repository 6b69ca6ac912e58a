CHECK_DEADLOCK FALSE
SPECIFICATION MCSpec
CONSTANTS
    x = x
    y = y
    b1 = b1
    b2 = b2
    t1 = t1
    Workers = {w1, w2}
    Cells = {x, y}
    Contents = {b1, b2}
    Absent = Absent
    Transfers = {t1}
    Bytes <- OneTransfer
    Remotes = 2
    RemoteState <- TwoRemotes
    MaxRevisions = 3
    MaxCli = 1
    Operators = {o1, o2}
    Releases = {staging, production}
    a = a
    Artifacts <- OneArtifact
    Bundle <- OneBundle
    Answers = {"version", "unreadable", "refused", "ambiguous"}
    MaxRuns = 2
    Inputs = {c1, c2}
    Timeout = 4
    PollInterval = 1
    MaxPolls = 2
    MaxTime = 5
    MaxCrashes = 2
    Accounts = {a1, a2}
    Tasks = {task1}
    MaxFlows = 2
    MaxTokens = 3
    MaxQueries = 1
    MaxRestarts = 1
INVARIANTS BytesStored NoTransferLost OneRevisionPerTransfer OneLine PublishedHasReceipt MutatedOnce SavedSuspects SignedInIsStored ResourcesAreTheAccounts
PROPERTY ExecutionEnds
