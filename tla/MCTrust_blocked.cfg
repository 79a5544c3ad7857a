SPECIFICATION Spec
CONSTANTS
    None = None
    o1 = o1
    x1 = x1
    Origins = {o1}
    Exchanges = {x1}
INVARIANTS
    BlockWins
