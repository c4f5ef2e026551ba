\* Arrays of up to five elements, up to three threads, tiles up to one more than
\* the elements, matrices of as many rows.
CONSTANTS
    MaxElements = 5
    MAX_THREADS = 3
    Values <- MCValues
SPECIFICATION Spec
INVARIANTS
    ParallelIsSerial
    TilesAreWhole
