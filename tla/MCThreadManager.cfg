\* Three slots with stacks of their own, in any order of calls.
CONSTANTS
    NumThreads = 3
    MAX_THREADS = 4
    Secure = TRUE
SPECIFICATION FairSpec
INVARIANTS
    RunningMeansUnjoined
    StackOutlivesThread
    NoThreadLeft
PROPERTIES
    LiveSlotsUntouched
    WaitReturns
