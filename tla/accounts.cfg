\* Two requests at once, two browsers, two links, four clock ticks.
SPECIFICATION Spec
CONSTANTS
    Workers = {w1, w2}
    Sessions = {s1, s2}
    Links = {k1, k2}
    Passwords = {p1, p2}
    MaxTime = 4
    None = None
SYMMETRY Symmetry
CHECK_DEADLOCK FALSE
INVARIANTS TypeOK SingleUse
PROPERTIES BurntLinkIsDead RevocationEndsSessions
