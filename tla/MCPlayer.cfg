SPECIFICATION Spec
CONSTANTS
    Files <- MCFiles
    Folder = "folder"
    Queues <- MCQueues
    Modes <- MCModes
    Frames <- MCFrames
    Rate <- MCRate
    Broken = {"broken"}
    Shaky = {"short"}
    Clockable = {1, 2}
    HasArt = {"long"}
    RingFrames = 2
    PrimeFrames = 2
    SeekPrimeFrames = 2
    Modulus = 6
    ReadFaults = TRUE
INVARIANTS
    EngineSound
PROPERTIES
    ShownIsHeard
    
    IdleIsExplained
    SilenceEnds
