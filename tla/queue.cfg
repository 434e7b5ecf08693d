\* Four coroutines with nested calls; owner tags are kept (the agent's variant).
SPECIFICATION FairSpec
CONSTANTS
    Threads = {t1, t2, t3, t4}
    NoThread = NoThread
    OwnerUrs = TRUE
    MaxSlot = 6
    MaxDepth = 2
INVARIANTS
    MutualExclusion
    AssertHolds
    NoLostWakeup
PROPERTIES
    FifoSpec
    EveryWaiterEnters
