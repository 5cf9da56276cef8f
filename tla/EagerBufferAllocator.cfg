\* Dynamic memory with barriers of two groups, and weights in mapped files.
CONSTANTS
    Align = 2
    Clients <- DynamicAndMapped
    Blocks = {b1, b2}
    MaxGroups = 2
    NoBlock = NoBlock
SPECIFICATION Spec
SYMMETRY Symmetry
INVARIANTS TypeOK NoOverlap Partition TotalExact GroupsPrivate AllMerged
