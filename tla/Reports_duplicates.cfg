SPECIFICATION ReportSpec
CONSTANTS
    tree = tree
    sub = sub
    same1 = same1
    same2 = same2
    same3 = same3
    unit = unit
    Gone = Gone
    Folders = {tree, sub}
    UnitFiles = {unit}
    MinGroup = 2
    UsageEntries = 1
    Listed <- MCListed
    Below <- MCBelow
    FirstPlace <- MCFirstPlace
    SizeOf <- MCContentOf
    ContentOf <- MCContentOf
    Groupings <- MCGroupings
    Inspections <- MCInspections
CHECK_DEADLOCK FALSE
PROPERTIES OnlyTickedIsTrashed
