CONSTANTS
    Runs = {r1, r2}
    Tables = {t1, t2}
    Settings <- MostSettings
    None = None
SYMMETRY Symmetric
SPECIFICATION Spec
INVARIANTS
    FreshAnswersOwn
    EveryAnswerWhole
    TablesAccountedFor
