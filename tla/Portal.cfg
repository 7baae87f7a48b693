CONSTANTS
    c1 = c1
    c2 = c2
    app = app
    fx = fx
    fall = fall
    Calls = {c1, c2}
    Apps = {app}
    NoApp = NoApp
    Disk <- SmallDisk
    HiddenNames = {"h"}
    Accepts <- SmallAccepts
    Home <- TopFolder
    Places <- SmallPlaces
    Askers <- MCAskers
    None = None
    d1 = d1
    d2 = d2
    here = here
    there = there
    locked = locked
    Processes = {d1, d2}
    Folders = {here, there, locked}
    Start = here
    Unlistable = {locked}
    Root = Root
    MaxPending = 2
    Desktops <- MCDesktops
    Nowhere = Nowhere
SPECIFICATION PortalSpec
INVARIANTS CallsGetTheirAnswers BusFollowsWindow
PROPERTIES DialogsAnswer WindowsServe
CHECK_DEADLOCK FALSE
