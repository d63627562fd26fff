\* A chord, paced or at once, on a lane where everything else goes on.
SPECIFICATION FairSpec
CONSTANTS
    Kinds = {"gtk", "wine"}
    NextTick = TRUE
    MaxPastes = 1
    MaxConns = 2
    MaxInstalls = 1
    MaxStrokes = 1
    MaxLane = 2
INVARIANTS
    OneVerdict
    SuccessMeansPasted
    KeysAreNotMixed
    NothingLeftHeld
PROPERTIES
    EveryPasteSettles
