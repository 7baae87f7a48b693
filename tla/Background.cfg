CONSTANTS
    top = top
    a = a
    b = b
    c = c
    spare = spare
    Dirs = {top, a, b, c, spare}
    Up <- Tree
    Nowhere = Nowhere
    Spare = spare
    Scenes <- MCScenes
    MaxSources = 2
    MaxTasks = 2
    MaxFiles = 2
    ra = ra
    rb = rb
    RuleIds = {ra, rb}
    OnFile <- MCOnFile
    Typed <- MCTyped
    UnitSize = 3
    Units = 2
    MaxRules = 1
    MaxCommands = 2
    r1 = r1
    r2 = r2
    im = im
    vid = vid
    doc = doc
    txt = txt
    Rows = {r1, r2}
    Pictures = {im, doc, vid, txt}
    PictureKind <- MCPictureKind
    Undecodable = {}
    Stuck = {doc}
    MaxConcurrent = 1
    MaxAsked = 3
    MaxWorkers = 1
    MaxVersions = 2
    ThumbScenes <- MCThumbScenes
    NoPicture = NoPicture
    tree = tree
    sub = sub
    same1 = same1
    same2 = same2
    same3 = same3
    unit = unit
    Gone = Gone
    Folders = {tree, sub}
    UnitFiles = {unit}
    MinGroup = 2
    UsageEntries = 1
    Listed <- MCListed
    Below <- MCBelow
    FirstPlace <- MCFirstPlace
    SizeOf <- MCContentOf
    ContentOf <- MCContentOf
    Groupings <- MCGroupings
    Inspections <- MCInspections
SPECIFICATION BackgroundSpec
INVARIANTS SizesAreRight RulesAreKept ThumbnailsAreRight
PROPERTIES DialogsAreTrue
CHECK_DEADLOCK FALSE
