\* Two runtimes compete for one slot, with nested Begin/End; two workers, of
\* which the second has no sleep bit.
CONSTANTS
    r1 = r1
    r2 = r2
    None = None
    Runtimes = {r1, r2}
    NumberThread = 3
    MaxTasks = 1
    BindThreads = 2
    SleepWidth = 2
    WorkSizes = {1, 4}
    MaxDepth = 2
SPECIFICATION Safety
SYMMETRY RuntimeSymmetry
INVARIANTS TypeOK TaskAlive ExactlyOnce NoLostWakeup SlotExclusive ActiveCountExact
