CONSTANTS
    MaxPool = 6
    Policies = {"beam", "exhaustive"}
    BeamWidth = 2
    CandidateBudget = 4
    StopMargin = 15
    MaxExpansion = 1
    Signals <- MCSignals
SPECIFICATION Spec
INVARIANTS
    BudgetKept
    LoneSuccessKeepsSearching
    SelectedBeatsAll
    TiedIsGenuine
PROPERTY
    Termination
