CONSTANTS
    Firmwares = {"bios", "uefi"}
    OldTables <- MCOldTables
    Leftovers = {"user"}
    MaxRuns = 2
SPECIFICATION FairSpec
INVARIANTS TypeOK TargetIsFresh
PROPERTIES KeepsItsPromise AttemptsEnd
CHECK_DEADLOCK FALSE
