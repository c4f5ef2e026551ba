\* The reward is 3 so that the amounts 0, 1 and 2 leave change or take all of
\* a balance; Wrap is far above every supply, as 2^64 is.  Keys and signatures
\* have one cell of at most three.  A block that cannot be read any more ends
\* a behaviour.
CONSTANTS
    a = a
    b = b
    c = c
    Zero = Zero
    BLOCK_REWARD = 3
    Wrap = 64
    MaxSize = 3
    MAX_TRANSACTIONS = 3
    Misread = 1
    Addr <- MCAddr
    Txns <- MCTxns
    Starts <- MCStarts
    Damaged <- MCDamaged
    Rubbish <- MCRubbish
    MaxTxns = 2
SPECIFICATION Spec
CHECK_DEADLOCK FALSE
INVARIANTS
    OnlyRewardIsCreated
    OnlySourcesPay
    VersionsAgree
    WrittenIsRead
    DamageIsContained
