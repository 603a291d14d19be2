CONSTANTS
    r1 = r1
    r2 = r2
    p1 = p1
    m1 = m1
    m2 = m2
    Runs = {r1, r2}
    Prompts = {p1}
    Models = {m1, m2}
    Settings <- MCSettings
    MaxRequests = 2
    MaxAttempts = 1
SPECIFICATION Spec
INVARIANT OwnAnswers
PROPERTIES AnsweredOnce EveryRunEnds
