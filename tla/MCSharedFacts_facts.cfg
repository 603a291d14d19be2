CONSTANTS
    n1 = n1
    n2 = n2
    t1 = t1
    t2 = t2
    Nodes <- MCNodes
    Pool <- MCPool
    Filters <- MCFilters
    Values = {"vip"}
    ValueOf <- MCValueOf
    Statements <- MCStatements
    Relations <- MCRelations
    MaxProbes = 1
    DatabaseErrors = FALSE
SYMMETRY NodeSymmetry
SPECIFICATION Spec
INVARIANTS
    FactsTrue
    SkipJustified
    RejectedForNewReasons
