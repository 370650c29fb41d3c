CONSTANTS
    a = a
    b = b
    c = c
    h = h
    NoWin = NoWin
    Windows <- MCWindows
    Hidden <- MCHidden
    InitOrders <- MCOrders
    MaxChanges = 3
SPECIFICATION FairSpec
INVARIANTS TypeOK UpToDate OrderReplayed
PROPERTIES OpacityKept SettlesDown
CHECK_DEADLOCK FALSE
