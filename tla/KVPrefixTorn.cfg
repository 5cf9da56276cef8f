\* The next prompt follows a forward that failed half-way.
CONSTANTS
    N = 2
    LayerNums = 3
    PrefixLen = 2
    ExpandChunk = 1
    Tokens = {a}
    Answers = {b}
    MaxLength = 4
    Liberties = {"extendTorn"}
    a = a
    b = b
    Temp = Temp
    None = None
    Zero = Zero
SPECIFICATION Spec
INVARIANT LayersAtPrevious
