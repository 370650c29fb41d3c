CONSTANTS
    p1 = p1
    p2 = p2
    Pid <- MCPid
    NoPid = NoPid
    MaxBirths = 3
    MaxTicks = 2
SPECIFICATION FairSpec
INVARIANT TypeOK
PROPERTIES RowsHonest TableFollows
