\* A load cut short, and a loss of power after the next one.
CONSTANTS
    N = 2
    MayUncache = FALSE
    MayLosePower = TRUE
SPECIFICATION Spec
INVARIANT WeightsLoaded
