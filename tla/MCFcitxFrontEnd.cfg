SPECIFICATION Spec
CONSTANTS
    Contexts = {a, b}
    MaxCandidates = 1
    MaxTypos = 1
    PageSize = 2
    MaxFaults = 2
INVARIANTS
    NeverMisaddressed
    ShowsItsSession
    NoOrphanSession
    CommitsOnce
PROPERTY
    KeepsRecovering
