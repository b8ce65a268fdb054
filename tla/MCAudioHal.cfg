SPECIFICATION FairSpec
CONSTANTS
    B = 3
    Pulls <- MCPulls
    MaxStream = 9
    MaxStops = 3
    Patterns <- MCPatterns
INVARIANTS
    DmaSafe
    HeardInOrder
PROPERTIES
    PulledIsHeard
    QuietWhenStopped
