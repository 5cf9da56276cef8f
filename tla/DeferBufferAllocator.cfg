\* Requests of one and of three alignment units, the first unaligned.
CONSTANTS
    Align = 2
    Sizes = {1, 6}
    MaxAllocs = 5
SPECIFICATION Spec
INVARIANTS TypeOK PlanComputes NoOverlap InsideArena Coalesced
