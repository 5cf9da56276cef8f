\* Two graphs on one runtime whose arenas are mapped from files.
CONSTANTS
    Graphs = {g1, g2}
    Blocks = {b1, b2, b3}
    Sizes = {1, 2}
    AllocMayFail = FALSE
    Roots = {"mapped"}
    Null = Null
SPECIFICATION Spec
SYMMETRY ArenaSymmetry
INVARIANT RunsInTwoFiles
