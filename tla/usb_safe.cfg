CONSTANTS
    dp = dp
    ds = ds
    na = na
    nb = nb
    t1 = t1
    t2 = t2
    nodisk = nodisk
    noname = noname
    nojob = nojob
    novolume = novolume
    Disk <- MCDisk
    Parts <- MCParts
    Name <- MCName
    Terminal <- MCTerminal
    Persist = dp
    Found = {na}
    Contents <- MCContents
    MkfsTypes = {"vfat"}
    NoDisk = nodisk
    NoName = noname
    NoJob = nojob
    NoVolume = novolume
SPECIFICATION Spec
INVARIANT SafeToUnplug
