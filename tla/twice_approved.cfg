SPECIFICATION Spec
CONSTANTS
    a = a  b = b  c = c  d = d
    None = None
    Caterers = {a}
    Workers = {w1, w2}
    Quotes = {1, 2}
    Copies = {1, 2}
    FanOuts <- AllOfThem
    Slots = 1
    MaxEdits = 0
SYMMETRY Symmetry
INVARIANTS OrdersWithinOpenings

CHECK_DEADLOCK FALSE
