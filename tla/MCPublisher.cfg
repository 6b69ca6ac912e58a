CHECK_DEADLOCK FALSE
SPECIFICATION ReleasesSpec
CONSTANTS
    Operators = {o1, o2}
    Releases = {staging, production}
    a = a
    Artifacts <- OneArtifact
    Bundle <- OneBundle
    Answers = {"version", "unreadable", "refused", "ambiguous"}
    MaxRuns = 2
SYMMETRY SymmetricOperators
INVARIANT OnePublisher
