\* Three blocks with at most no, one, two or three transactions in each, and
\* two blocks with at most four, of which a block in a file takes three.
CONSTANTS
    Addrs <- MCAddrs
    Arguments <- MCArguments
    MAX_TRANSACTIONS = 3
    BLOCK_REWARD = 3
    Wrap = 64
    Zero = 0
SPECIFICATION GenSpec
INVARIANTS
    AmountsCovered
    RevalidationAgrees
    AssertsHold
