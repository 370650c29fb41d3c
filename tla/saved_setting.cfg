CONSTANTS
    d1 = d1
    d2 = d2
    i1 = i1
    n1 = n1
    n2 = n2
    a1 = a1
    Disk <- MCDisk
    NoDisk = NoDisk
    Setting <- MCNetwork
    Ip <- MCIp
    Dns <- MCDns
    Name <- MCName
    Modes <- MCModes
    Kinds <- MCKinds
    OwnDisk = d1
    Root = Root
    Default = Default
    MaxCommands = 3
    Absent = Absent
    Blank = Blank
    Nothing = Nothing
SPECIFICATION Spec
PROPERTY SavedPersists
