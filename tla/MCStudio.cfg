CHECK_DEADLOCK FALSE
SPECIFICATION MCSpec
CONSTANTS
    Places = {lobby, arena}
    Ports = {a, b}
    Projects = {x, y}
    MaxRestarts = 1
    MaxProcesses = 3
    None = None
    Nil = Nil
    Cells = {c1, c2}
    Revisions = {{c1}, {c1, c2}}
    Managed = {c1}
    MaxAttempts = 2
    MaxEdits = 2
    MaxRoots = 4
    MaxCommands = 2
    MaxApplies = 2
    MaxCheckpoints = 1
    MaxSessions = 1
    MaxVersion = 2
    MaxReloads = 1
    Locations <- FourLocations
    Services <- OneService
    Files <- Workspace
    DefaultProject = "default"
    RootProject <- root
    Manifests <- Pairs
    Trees <- SmallTrees
    NoFile = NoFile
INVARIANTS OneServerPerPlace PortsDistinct ExitsToldApart OneRootPerCell ControlsAreGits
PROPERTIES DirtyNeverOverwritten NewestStays CheckpointEnds
