SPECIFICATION Spec
CONSTANTS
    Daemons = {d1, d2}
    Clients = {c1, c2}
    None = None
    MaxSpare = 3
INVARIANTS
    OneOwner
PROPERTIES
    ConnectsEventually
    EndsWhenUnused
CHECK_DEADLOCK FALSE
