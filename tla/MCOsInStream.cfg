\* Two threads, a stream and a copy of it, a file of two bytes.
CONSTANTS
    t1 = t1
    t2 = t2
    s1 = s1
    s2 = s2
    Threads = {t1, t2}
    Streams = {s1, s2}
    First = s1
    FileSize = 2
    Sizes = {1, 2}
    Nobody = Nobody
SPECIFICATION FairSpec
INVARIANTS
    MappingLife
PROPERTIES
    ReadsDisjoint
    CallsReturn
