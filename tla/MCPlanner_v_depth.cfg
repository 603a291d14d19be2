CONSTANTS
    Segments <- Letters
    Names <- AllNames
    Answers <- OrderedAnswers
    MaxDepth = 3
    MaxSubtasks = 6
    MaxTotalNodes = 10
SPECIFICATION Spec
INVARIANTS
    ValidAnswersPlanned
