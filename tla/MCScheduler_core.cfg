CONSTANTS
    Nodes <- FourNodes
    DAGs <- AllDAGs
    MaxConcurrency = 2
    TokenBudget = 3
    Costs = {1}
    MaterializeContext = TRUE
    ReplanEnabled = TRUE
    FaultyDatabase = FALSE
SPECIFICATION Spec
INVARIANTS
    TypeOK
    NodeTakenAtMostTwice
    NoSolveOnFailedDependency
    ClaimedTablesExist
    OnlySolvedMaterialized
    TablesDroppedOnReturn
    CompleteOnReturn
    ReplansHonoured
PROPERTIES
    NoDispatchOverBudget
    FinalResultsStand
    ImplementsTaskRun
    Termination
