\* Four buffers, of which up to two have a size known at run time only, which may
\* be zero: enough for two holes to choose from, for a block that is merged on both
\* sides, for a hole that alignment makes too small, and for two buffers behind the
\* arena.
CONSTANTS
    Buffer = {1, 2, 3, 4}
    AlignBytes = 1
    Times = {0, 1, 2, 3}
    Sizes = {1, 2, 3}
    DynamicSizes = {0, 3}
    Aligns = {1, 4}
    MaxDynamic = 2
SPECIFICATION MCSpec
INVARIANTS
    LiveApart
    Aligned
    Partition
    Coalesced
