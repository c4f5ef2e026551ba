\* Three chunks read by either reader; see SampleFiles.
CONSTANTS
    a = a
    b = b
    c = c
    Zero = Zero
    Truncated = Truncated
    BLOCK_REWARD = 3
    Wrap = 64
    UnsignedWrap = 64
    NumChunks = 3
    Files <- MCFiles
SPECIFICATION ReadersSpec
INVARIANTS
    ReportIsRight
    ChunkIsWhole
