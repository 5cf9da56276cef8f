\* Two graphs on one runtime, any allocation may fail.
CONSTANTS
    Graphs = {g1, g2}
    Blocks = {b1, b2, b3}
    Sizes = {1, 2}
    AllocMayFail = TRUE
    Roots = {"raw", "mapped"}
    Null = Null
SPECIFICATION Spec
SYMMETRY ArenaSymmetry
INVARIANTS TypeOK PlansBoundOrStale BlocksExact
PROPERTY ArenaStays
