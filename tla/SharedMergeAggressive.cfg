SPECIFICATION MCSpec
CONSTANTS
    Buffer = {1, 2}
    AlignBytes = 1
    Sizes = {1}
    None = None
    Aggressive = TRUE
    Scopes = {"for"}
    Vias = {"access"}
    Compound = FALSE
    MaxCode = 8
    MaxJumps = 1
PROPERTY ReadsOwn
