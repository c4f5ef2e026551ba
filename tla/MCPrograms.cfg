\* Up to three threads beside main; three transactions are enough for two
\* updates in one thread around an update in another.
CONSTANTS
    MaxThreads = 3
    MaxTransactions = 6
    Deposits <- MCDeposits
    Withdrawals <- MCWithdrawals
SPECIFICATION MachineSpec
INVARIANTS
    LockedIsExact
    RemainingIsBounded
    LogsPaired
    CallsNested
