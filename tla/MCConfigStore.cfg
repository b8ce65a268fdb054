SPECIFICATION Spec
CONSTANTS
    Default = d
    Values = {d, u, v}
    NoValue = none
    Torn = Torn
    Clean = Clean
    SeqMod = 8
    Geometries <- MCGeometries
    ReadErrors = FALSE
INVARIANTS
    StoreSafe
    Durable
    GoodSurvives
PROPERTIES
    ImplementsRegister
