\* Three weights; uncached runs, kills, failures and losses of power anywhere.
CONSTANTS
    N = 3
    MayUncache = TRUE
    MayLosePower = TRUE
SPECIFICATION Spec
INVARIANTS TypeOK WeightsSafe MarkerSafe
PROPERTY NewFilesDurable
