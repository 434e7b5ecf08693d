\* Two threads launch services at the same time.
SPECIFICATION Spec
CONSTANTS
    Context = {1, 2, 3}
    Thread = {t1, t2}
    Registrar = {t1, t2}
    Name = {1, 2}
    None = None
    DefaultSlotSize = 2
    HandleMask = 7
INVARIANT RehashDistinct
