\* Two timers, a wheel of 64 ticks with all its levels, every delay.
SPECIFICATION Spec
CONSTANTS
    Timer = {t1, t2}
    Near = 4
    Level = 2
    MaxLag = 2
INVARIANTS
    WellPlaced
    OnTime
PROPERTIES
    InOrder
