\* Two requests at once, two clients, two super administrators, two rows.
SPECIFICATION Spec
CONSTANTS
    Workers = {w1, w2}
    Clients = {a, b}
    Supers = {x, y}
    Rows = {r1, r2}
    None = None
    Same = Same
SYMMETRY Symmetry
CHECK_DEADLOCK FALSE
INVARIANTS TypeOK OneSuperAdminLeft NothingIsOrphaned
PROPERTIES ActivatedIsListed
