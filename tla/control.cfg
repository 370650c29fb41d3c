CONSTANTS
    a1 = a1
    a2 = a2
    Addr <- MCAddr
    Blank = Blank
    Lines = 2
    PipeSize = 1
SPECIFICATION FairSpec
INVARIANTS TypeOK NeverRefused OutputShown StatusCurrent
PROPERTIES TypedKept Freed
