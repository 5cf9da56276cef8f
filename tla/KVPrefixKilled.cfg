\* A process is killed while it rewrites a file of the prefix to let its own cache grow.
CONSTANTS
    N = 2
    LayerNums = 3
    PrefixLen = 2
    ExpandChunk = 1
    Tokens = {a}
    Answers = {b}
    MaxLength = 4
    Liberties = {"crashInGrowth"}
    a = a
    b = b
    Temp = Temp
    None = None
    Zero = Zero
SPECIFICATION Spec
INVARIANT FilesTrustworthy
