CONSTANTS
    Nodes <- ThreeNodes
    DAGs <- PlainDAGs
    MaxConcurrency = 2
    TokenBudget = 9
    Costs = {1}
    MaterializeContext = TRUE
    ReplanEnabled = TRUE
    FaultyDatabase = FALSE
SPECIFICATION Spec
INVARIANT
    SolvedHasTable
