\* Two runtimes with a slot each, one worker; no symmetry (liveness).
CONSTANTS
    r1 = r1
    r2 = r2
    None = None
    Runtimes = {r1, r2}
    NumberThread = 2
    MaxTasks = 2
    BindThreads = 2
    SleepWidth = 2
    WorkSizes = {1, 3}
    MaxDepth = 1
SPECIFICATION Spec
PROPERTIES EnqueueReturns DestroyCompletes ImplementsParallelFor
