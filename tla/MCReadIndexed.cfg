\* Three chunks, each with its thread; see MCFiles.
CONSTANTS
    a = a
    b = b
    c = c
    Zero = Zero
    Truncated = Truncated
    BLOCK_REWARD = 3
    Wrap = 64
    UnsignedWrap = 64
    NumChunks = 3
    MAX_THREADS = 4
    Files <- MCFiles
SPECIFICATION FairSpec
INVARIANTS
    MergeIsSound
    NoDummyReported
PROPERTIES
    ImplementsChainReading
    Terminates
