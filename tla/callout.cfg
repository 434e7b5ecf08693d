\* Two services, timers of every kind, a clock that jumps more than a day.
SPECIFICATION FairSpec
CONSTANTS
    Services = {s1, s2}
    Timeouts = {0}
    Periods = {2}
    TimesOfDay = {1}
    Day = 2
    MaxIndex = 1
    MaxTime = 4
    MaxLag = 3
INVARIANTS
    NotStranded
    OnFileOnce
    Paced
PROPERTIES
    RemovedNeverRuns
    LoopAgrees
    EveryCallFires
