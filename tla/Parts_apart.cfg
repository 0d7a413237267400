SPECIFICATION PartsSpec
CONSTANTS
    Zero = 0
    Chunk = 2
    SparseChunk = 1
    MaxLinks = 2
    LayerRepeat = 2
    BufferSize = 2
    Liberties <- MCNone
    Amounts <- MCAmounts
    MaxSize = 7
    MaxOpens = 2
    MaxCalls = 2
    Names = {"a", "b", "c", "d"}
    Values = {1, 2}
    None = 0
    HashOf <- MCHash
    Absent = FALSE
    MaxChanges = 4
    Shapes <- MCShapes
    Lines <- MCLines
    Stdins <- MCStdins
    TreeOf <- MCTreeOf
    Outputs = 3
INVARIANTS SlicesExact SameRequest EndsTrue
PROPERTIES ImplementsFile ImplementsNames
CHECK_DEADLOCK FALSE
