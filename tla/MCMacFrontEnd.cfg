SPECIFICATION Spec
CONSTANTS
    Controllers = {a, b}
    MaxCandidates = 1
    MaxTypos = 1
    PageSize = 2
    MaxFaults = 2
INVARIANTS
    OldSessionUnused
    PanelWithinSession
    PreparationUsed
    MarkedWhileComposing
PROPERTY
    KeepsRecovering
