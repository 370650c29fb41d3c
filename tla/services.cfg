CONSTANTS
    sv = sv
    t1 = t1
    t2 = t2
    none = none
    Service <- MCService
    Actor <- MCActor
    Images <- MCImages
    Modes = {"live", "disk"}
    NoJob = none
SPECIFICATION Spec
INVARIANTS TypeOK LinksResolve EnabledComesBack DisabledStaysAway VouchedComesBack
