SPECIFICATION Spec
CONSTANTS
    p1 = p1
    p2 = p2
    leaf = leaf
    file = file
    renamed = renamed
    empty = empty
    Blocks = {leaf, file, renamed}
    EmptyDir = leaf
    Links <- MCLinks
    Clients = {p1, p2}
    Collector = Collector
    Nobody = Nobody
    NoState = NoState
    Kinds = {"pinAdd", "pinAddDirect", "blockRm", "upd"}
    Targets = {leaf, file}
    FilesRoots = {}
    Successor <- MCSuccessor
    MaxCommands = 3
    MaxCrashes = 1
SYMMETRY ClientSymmetry
INVARIANTS
    PinStateOnDisk
    AckedPinsSurvive
