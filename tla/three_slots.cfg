SPECIFICATION ThreeSlotsSpec
CONSTANTS
    a = a  b = b  c = c  d = d
    None = None
    Caterers = {a, b, c, d}
    Workers = {w1, w2}
    Quotes = {1, 2, 3, 4}
    Copies = {1}
    FanOuts <- NoFanOut
    Slots = 3
    MaxEdits = 1
SYMMETRY SymmetryThreeSlots
INVARIANTS SlotsHold
CHECK_DEADLOCK FALSE
