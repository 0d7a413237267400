SPECIFICATION FairSpec
CONSTANTS
    p1 = p1
    p2 = p2
    leaf = leaf
    file = file
    renamed = renamed
    empty = empty
    Blocks = {leaf, file, renamed, empty}
    EmptyDir = empty
    Links <- MCLinks
    Clients = {p1, p2}
    Collector = Collector
    Nobody = Nobody
    NoState = NoState
    Kinds = {"pinAdd", "add", "upd", "pinUpdate", "blockRm", "del"}
    Targets = {file}
    FilesRoots = {}
    Successor <- MCSuccessor
    MaxCommands = 2
    MaxCrashes = 0
PROPERTIES
    CollectionEnds
    CommandsEnd
