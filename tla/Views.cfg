CONSTANTS
    p1 = p1
    p2 = p2
    home = home
    docs = docs
    far = far
    Panes = {p1, p2}
    Folders = {home, docs, far}
    Home = home
    Trash = trash
    Missing = {docs}
    Failing = {far}
    Users <- MCUsers
    Nothing = Nothing
    Recents = Recents
    t1 = t1
    im1 = im1
    im2 = im2
    v1 = v1
    d1 = d1
    Items = {t1, im1, im2, v1, d1}
    ItemFolder <- MCItemFolder
    KindOf <- MCKindOf
    Broken = {t1}
    Media = TRUE
    PreviewScenes <- MCPreviewScenes
    NoItem = NoItem
    TabFolders = {home, docs}
    FirstFolder = home
    TabFailing = {}
    Recent = Recent
    NoView = NoView
    TabUsers <- MCTabUsers
    MaxTabs = 3
    Windows = {"w1", "w2"}
    Bookmarked = {"docs", "music"}
    Actions <- MCActions
    DefaultKey <- MCDefaultKey
    Keys = {"x", "Escape"}
    Sizes = {16, 24}
    Themes = {"raven", "nord", "frost"}
    OldFile <- MCOldFile
    MaxItems = 2
    SettingScenes <- MCSettingScenes
    q1 = q1
    q2 = q2
    da = da
    db = db
    inner = inner
    server = server
    x = x
    y = y
    z = z
    NoShelf = NoShelf
    RecentView = RecentView
    ListPanes = {q1, q2}
    Shelves = {da, db}
    Boxes = {y, z}
    Texts = {"", "t", "tx"}
    Empty = ""
    Held <- MCHeld
    Touched <- MCTouched
    RecentOnes <- MCRecentOnes
    Hits <- MCHits
    TypedFrom <- MCTypedFrom
    Keeps <- MCKeeps
    Viewers <- MCViewers
    Foreign <- MCForeign
    DragOffers <- MCOffers
    FolderOf <- MCFolderOf
    DeviceOf <- MCDeviceOf
    Remote = {server}
SPECIFICATION ViewsSpec
INVARIANTS PanesListWhatTheySay RequestsAreMet PanelFollowsSelection SettingsAreKept
    RowsAreAsShown MovesAreAskedFor
PROPERTIES WindowShowsTabs
CHECK_DEADLOCK FALSE
