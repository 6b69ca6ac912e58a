CHECK_DEADLOCK FALSE
SPECIFICATION OAuthSpec
CONSTANTS
    Accounts = {a1, a2}
    Tasks = {t1}
    MaxFlows = 2
    MaxTokens = 4
    MaxQueries = 2
    MaxRestarts = 1
INVARIANT FailsClosed
