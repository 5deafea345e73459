\* Every kernel of seven statements over two buffers; leaves that read and write and
\* conditions that read count twice.
SPECIFICATION MCSpec
CONSTANTS
    Buffer = {1, 2}
    AlignBytes = 1
    Sizes = {1}
    None = None
    Aggressive = FALSE
    Scopes = {"for", "while", "if", "let"}
    Vias = {"access"}
    Compound = TRUE
    MaxCode = 7
    MaxJumps = 1
INVARIANT RangesHoldTouches
PROPERTY ReadsOwn
