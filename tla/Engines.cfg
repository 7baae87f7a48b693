CONSTANTS
    r1 = r1
    r2 = r2
    f = f
    g = g
    Ids = {r1, r2}
    Definitions <- MCDefinitions
    Files = {f, g}
    Slots = {1, 2}
    AutomationScenes <- MCScenes
    Nothing = Nothing
    c1 = c1
    c2 = c2
    c3 = c3
    missing = missing
    blank = blank
    a = a
    b = b
    act = act
    Copies = {c1, c2, c3, missing, blank}
    IdOf <- MCIdOf
    Offers <- MCOffers
    Missing = {missing}
    Blank = {blank}
    Selections = {s1}
    PluginFolders = {d1}
    None = None
    PluginUsers <- MCUsers
    tf = tf
    tg = tg
    th = th
    home = home
    away = away
    images = images
    w1 = w1
    w2 = w2
    TagWindows = {w1, w2}
    Rows <- MCRows
    Home = home
    RuleNames = {images}
    MatchedBy <- MCMatchedBy
    TagScenes <- MCTagScenes
SPECIFICATION EnginesSpec
INVARIANTS TasksFollowRules PluginsAreAsShown TagsAreKept
PROPERTIES Quiesces ChoicesAreKept
CHECK_DEADLOCK FALSE
