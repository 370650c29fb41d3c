CONSTANTS
    Firmwares = {"bios", "uefi"}
    OldTables <- MCOldTables
    Leftovers = {"user"}
    MaxRuns = 1
SPECIFICATION Spec
INVARIANT SuccessBoots
CHECK_DEADLOCK FALSE
