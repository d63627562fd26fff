\* The shared keyboard with key swaps, caps, departures and the shutdown: what
\* no order of commands may do, and that holds and shutdowns end.
SPECIFICATION FairSpec
CONSTANTS
    c1 = c1
    c2 = c2
    Conns = {c1, c2}
    Codes <- MCCodes
    Bits <- MCBits
    Keymaps <- MCKeymapsBlank
    DefaultMap = "us"
    Groups <- MCGroupsBlank
    ModBits <- MCModBitsBlank
    Typable <- MCKeymaps
    MaxUploads = 2
    MaxGen = 3
INVARIANTS
    MaskFollowsHeld
    ReleaseIsLast
PROPERTIES
    SharesKeys
    HoldsAreCapped
\* The process really ends: nothing steps after Exit.
CHECK_DEADLOCK FALSE
