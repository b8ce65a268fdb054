SPECIFICATION FatSpec
CONSTANTS
    Word = 256
    ClusCap = 15
    PerUnit = 2
    DirUnits = 10
    DirClus = 16
    Disks <- MCDisks
    Named <- MCNamed
    Starts <- MCStarts
    Stops <- MCStops
    Lens <- MCLens
    Sizes <- MCSizes
INVARIANTS
    
    LbaExact
