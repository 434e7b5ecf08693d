\* The answers of executed saves may be lost.
SPECIFICATION Spec
CONSTANTS
    Mods = {m1}
    Values = {e, v1}
    Empty = e
    NoRow = NoRow
    Ptrs = {p1, p2}
    NoPtr = NoPtr
    Free = Free
    Reqs = {r1}
    Timers = {k1}
    Closer = Closer
    NoJob = NoJob
    NoAnswer = NoAnswer
    Faults = {"bad", "drop", "lost"}
    Helpers = {TRUE}
PROPERTIES EvictedAlwaysStored
