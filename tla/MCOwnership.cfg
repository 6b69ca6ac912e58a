CHECK_DEADLOCK FALSE
SPECIFICATION OwnershipSpec
CONSTANTS
    Locations <- FourLocations
    Services <- OneService
    Files <- Workspace
    DefaultProject = "default"
    RootProject <- root
    Manifests <- Pairs
    Trees <- SmallTrees
    NoFile = NoFile
INVARIANT OneAuthority
