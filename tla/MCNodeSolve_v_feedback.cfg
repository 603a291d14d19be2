CONSTANTS
    MaxPool = 3
    Policies = {"beam", "exhaustive"}
    BeamWidth = 1
    CandidateBudget = 2
    StopMargin = 15
    MaxExpansion = 1
    Signals <- MCSignals
    MaxAttempts = 3
SPECIFICATION SolveSpec
INVARIANT
    RetriesAreInformed
