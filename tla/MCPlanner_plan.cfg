CONSTANTS
    Segments <- Letters
    Names <- AllNames
    Answers <- NestedAnswers
    MaxDepth = 3
    MaxSubtasks = 3
    MaxTotalNodes = 5
SPECIFICATION Spec
INVARIANTS
    TasksKept
    InputsKept
    OpenOnlyAtLimit
PROPERTIES
    Termination
