\* Every layout, with sizes that neither the tiles nor the chunks divide.
CONSTANTS
    mKvNumHead = 2
    mHeadDim = 5
    hP = 4
    lP = 2
    ChunkKv = 4
    ExpandChunk = 1
    Configs <- AllLayouts
    MaxAdd = 3
    MaxTokens = 8
    Zero = Zero
    Garbage = Garbage
    None = None
SPECIFICATION Spec
INVARIANTS TypeOK ReadBack PaddingClean
CHECK_DEADLOCK FALSE
