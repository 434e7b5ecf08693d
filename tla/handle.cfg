\* One thread launches, another kills, names and aborts.
SPECIFICATION FairSpec
CONSTANTS
    Context = {1, 2, 3}
    Thread = {t1, t2}
    Registrar = {t1}
    Name = {1, 2}
    None = None
    DefaultSlotSize = 2
    HandleMask = 7
INVARIANTS
    Reachable
    NamesFound
PROPERTIES
    NamesFollow
    RetireAllEnds
