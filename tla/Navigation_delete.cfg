CONSTANTS
    p1 = p1
    p2 = p2
    home = home
    docs = docs
    far = far
    Panes = {p1}
    Folders = {home, trash}
    Home = home
    Trash = trash
    Missing = {}
    Failing = {}
    Users <- Deleting
    Nothing = Nothing
    Recents = Recents
SPECIFICATION Spec
INVARIANTS DeletesOnlyTrashed
CHECK_DEADLOCK FALSE
