\* Every careful configuration with all its liberties.
CONSTANTS
    N = 2
    ExpandChunk = 1
    MaxAdd = 3
    MaxLength = 8
    Configs <- Kept
SPECIFICATION Spec
INVARIANTS TypeOK LengthsAgree CapacityRespected PositionsMatch RemoveWithin
