CONSTANTS
    Paths <- NestedPaths
    Roots <- NestedRoots
    FirstDirs <- NestedDirs
    FirstFiles <- NestedFiles
    Unique <- NoSpare
    MaxOps = 1
    MaxUndo = 1
    Scenes <- MovingUp
SPECIFICATION Spec
PROPERTIES MergesKeepFiles
CHECK_DEADLOCK FALSE
