CONSTANTS
    Tasks <- ThreeTasks
    Plans <- SmallPlans
    Outcomes <- SmallOutcomes
    Modes = {TRUE, FALSE}
SPECIFICATION Spec
INVARIANTS
    PrimaryTrusted
    FullConfidenceIsEarned
    PlanMatchesQuestion
