CONSTANTS
    Paths <- SmallPaths
    Roots <- SmallRoots
    FirstDirs <- SmallDirs
    FirstFiles <- SmallFiles
    Unique <- SmallUnique
    MaxOps = 3
    MaxUndo = 2
    Scenes <- MCRequests
    ax = ax
    bx = bx
    x = x
    x2 = x2
    NoItem = NoItem
    TrashTasks = {t1}
    TrashNames = {x, x2}
    Candidates <- NamesFor
    Origins = {ax, bx}
    FirstItems <- FileAndFolder
    Pieces = {"k", "l", "m"}
    MaxHeld = 2
    TrashScenes <- MCTrashings
    Names = {"a", "b", "c"}
    Depth = 2
    Workers = {1, 2}
    Errands <- MCErrands
    Logins = {"alice", "bob"}
    Panes = {"p1", "p2"}
    Remotes = {t1, t2}
    MaxSessions = 2
    MaxRequests = 3
    Home = "home"
    None = None
SPECIFICATION StorageSpec
INVARIANTS NobodyIsStranded
CHECK_DEADLOCK FALSE
