\* Two threads that destroy their streams at the same time.
CONSTANTS
    t1 = t1
    t2 = t2
    s1 = s1
    s2 = s2
    Threads = {t1, t2}
    Streams = {s1, s2}
    First = s1
    FileSize = 2
    Sizes = {1, 2}
    Nobody = Nobody
SPECIFICATION FairSpec
INVARIANT
    UnmappedOnce
