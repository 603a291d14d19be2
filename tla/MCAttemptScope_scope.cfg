\* At most two of the three hints survive a replan, which proposes at most two tables.
CONSTANTS
    a = a
    b = b
    d = d
    parent = parent
    missing = missing
    invented = invented
    Tables = {a, b, d}
    Contexts = {parent, missing}
    Strangers = {invented}
    Settings <- MCSettings
    Statements <- MCStatements
    HintLimit = 2
    FreshLimit = 2
    Budget = 2
SPECIFICATION Spec
PROPERTY ReplanOnlyWidens
