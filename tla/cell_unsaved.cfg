\* The repository as it stands: the functions a save calls are not defined.
SPECIFICATION FairSpec
CONSTANTS
    Mods = {m1}
    Values = {e, v1}
    Empty = e
    NoRow = NoRow
    Ptrs = {p1, p2}
    NoPtr = NoPtr
    Free = Free
    Reqs = {r1}
    Timers = {k1}
    Closer = Closer
    NoJob = NoJob
    NoAnswer = NoAnswer
    Faults = {}
    Helpers = {FALSE}
PROPERTIES EventuallySaved
