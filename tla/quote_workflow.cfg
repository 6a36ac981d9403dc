SPECIFICATION Spec
CONSTANTS
    a = a  b = b  c = c  d = d
    None = None
    Caterers = {a, b}
    Workers = {w1, w2}
    Quotes = {1, 2, 3}
    Copies = {1}
    FanOuts <- AllOfThem
    Slots = 1
    MaxEdits = 0
SYMMETRY Symmetry
INVARIANTS TypeOK Inductive SlotsHold OneLiveVersion OneRevisionPerSource OrdersMatchQuotes CompletedIsSettled
PROPERTIES SentOnlyWhileOpen ClosedIsNotTransmitted ImplementsTender
CHECK_DEADLOCK FALSE
