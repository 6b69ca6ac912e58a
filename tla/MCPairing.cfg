SPECIFICATION PairingSpec
CONSTANTS
    Plugins = {p1}
    Codes = {c1, c2}
    NoCode = NoCode
    Connections = {k1}
    ChallengeTtl = 1
    CredentialTtl = 2
    MaxAttempts = 2
    EventCapacity = 2
    MaxChallenges = 3
    MaxTime = 0
INVARIANT ShownCodeIsAccepted
CHECK_DEADLOCK FALSE
