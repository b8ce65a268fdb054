SPECIFICATION Spec
CONSTANTS
    Cap = 4
    Laps = 2
    MaxFrames = 11
INVARIANTS
    RingSafe
    InOrder
PROPERTIES
    ImplementsFifo
