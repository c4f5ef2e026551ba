\* A file of three whole blocks and one of nine bytes, hashed by three threads.
CONSTANTS
    Size = 81
    BlockSize = 24
    LongSize = 8
    WordSize = 4
    NumThreads = 3
    Unhashed = Unhashed
SPECIFICATION FairSpec
INVARIANTS
    ClaimsMatch
    PrintsSerialResult
    ReadsInsideFile
PROPERTIES
    Terminates
    ImplementsHashing
