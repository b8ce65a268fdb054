SPECIFICATION Spec
CONSTANTS
    Tracks <- MCTracks
    None = none
    Debounce = 1
    IdleTime = 2
    High = 2
INVARIANTS
    
    EndIsForgotten
PROPERTIES
    SavedEventually
    Rests
