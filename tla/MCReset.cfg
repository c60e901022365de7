SPECIFICATION Spec
CONSTANTS
    Contexts = {a}
    MaxCandidates = 1
    MaxTypos = 1
    PageSize = 2
    MaxFaults = 0
INVARIANT
    AnsweredResetKeepsConnection
