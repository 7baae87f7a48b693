CONSTANTS
    top = top
    sub = sub
    a = a
    b = b
    c = c
    SearchPanes = {p1, p2}
    SearchFolders = {top, sub}
    SearchHome = sub
    Matching = {a, c}
    Kept = {a}
    Capacity = 1
    Searchers <- MCUsers
    Walk <- MCWalk
    Lines <- MCLines
    Unlimited = Unlimited
SPECIFICATION SearchFairSpec
INVARIANTS ResultsAreAsAsked
PROPERTIES SearchesEnd
CHECK_DEADLOCK FALSE
