SPECIFICATION Spec
CONSTANTS
    PhysLog = 2
    MaxCount = 2
    Last = 5
    MaxWrites = 2
    Reads <- MCReads
    Writes <- MCWrites
INVARIANTS
    
    ExitsSound
PROPERTIES
    CallsReturn
