\* Files of up to five blocks: a coinbase, a fork of it and what follows, cut
\* into one to four chunks.  The programs stop at the end of the file.
CONSTANTS
    a = a
    b = b
    c = c
    Zero = Zero
    BLOCK_REWARD = 3
    Wrap = 64
    UnsignedWrap = 64
    Pool <- MCPool
    MaxBlocks = 5
    ChunkCounts = {1, 2, 3, 4}
SPECIFICATION ToolsSpec
INVARIANTS
    ChainsAreValid
    TipRules
    NothingLost
    MapsAreBalances
CHECK_DEADLOCK FALSE
