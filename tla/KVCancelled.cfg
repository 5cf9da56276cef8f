\* An Eagle generation is stopped between two drafts, then a new prompt comes.
CONSTANTS
    N = 2
    ExpandChunk = 1
    MaxAdd = 3
    MaxLength = 6
    Configs <- Cancelled
SPECIFICATION Spec
INVARIANT LengthsAgree
