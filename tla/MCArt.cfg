CHECK_DEADLOCK FALSE
SPECIFICATION MCSpec
CONSTANTS
    Principals = {p1, p2}
    MaxMembers = 2
    AssignableRoles = {"artist"}
    MaxVersion = 0
    Sessions = {s1}
    Cells = {c1, c2}
    Contents = {x}
    Absent = absent
    LeaseIds = {l1, l2, l3}
    LeaseDuration = 1
    MaxActiveLeases = 2
    MaxTime = 2
    MaxProposals = 2
    MaxRenewals = 1
    MaxReleases = 1
    MaxReviews = 1
SYMMETRY Symmetric
INVARIANTS OneActiveLease AcceptedIffRevision
PROPERTIES HeadChangesUnderLease ImplementsArtHistory
