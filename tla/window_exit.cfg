CONSTANTS
    d1 = d1
    d2 = d2
    Disks <- MCDisks
    NoDisk = NoDisk
    Lines = 3
    PipeSize = 2
    Others = FALSE
SPECIFICATION Spec
INVARIANT RemovedOnExit
