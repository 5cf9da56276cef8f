\* Two layers, one more that shares; a prefix of two tokens and two more of the conversation.
CONSTANTS
    N = 2
    LayerNums = 3
    PrefixLen = 2
    ExpandChunk = 1
    Tokens = {a}
    Answers = {b}
    MaxLength = 4
    Liberties = {}
    a = a
    b = b
    Temp = Temp
    None = None
    Zero = Zero
SPECIFICATION Spec
INVARIANTS TypeOK HistoryIntact LayersAtPrevious FilesTrustworthy
