SPECIFICATION Spec
CONSTANTS
    None = None
    p1 = p1
    Pages = {p1}
    Depth = 4
    LostAfter = 2
    Lag = 2
INVARIANTS
    ToldEveryTransition
