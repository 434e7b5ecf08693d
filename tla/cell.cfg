\* One module, two clients, overlapping timers, queries that fail, or succeed unheard.
SPECIFICATION Spec
CONSTANTS
    Mods = {m1}
    Values = {e, v1}
    Empty = e
    NoRow = NoRow
    Ptrs = {p1, p2, p3}
    NoPtr = NoPtr
    Free = Free
    Reqs = {r1, r2}
    Timers = {k1, k2}
    Closer = Closer
    NoJob = NoJob
    NoAnswer = NoAnswer
    Faults = {"bad", "drop", "lost"}
    Helpers = {TRUE, FALSE}
SYMMETRY Symmetry
INVARIANTS
    LineInv
    BlocksOwned
    QueryPtrLive
    Md5Accurate
    DrainedAtClose
PROPERTIES
    StoreSpec
    EvictedIsStored
    NotLeftWaiting
