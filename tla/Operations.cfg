CONSTANTS
    high = high
    normal1 = normal1
    normal2 = normal2
    low = low
    copy = copy
    trash = trash
    Ops <- Three
    Rank <- ThreeRank
    MaxConcurrency = 2
    Operations <- Both
    Removals <- OnlyTrash
    Items = 2
    MaxToggles = 1
    DefaultStrategy = "Ask"
SPECIFICATION OperationsSpec
INVARIANTS PermitsConserved InOrder OneStageEach CancelNotLost NothingOutlivesOperation
PROPERTIES ImplementsPool EveryOperationEnds OperationsEnd
CHECK_DEADLOCK FALSE
