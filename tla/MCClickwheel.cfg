SPECIFICATION WheelSpec
CONSTANTS
    Buttons = {play}
    PlayButton = play
    Rotation = 6
    Sensitivity = 2
    AccumMax = 2
INVARIANTS
    DrainSound
PROPERTIES
    MotionConserved
    PressIsSeen
