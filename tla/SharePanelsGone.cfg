\* A setting that names no file, and a panel that dies before one that closes.
SPECIFICATION PanelsSpec
CONSTANTS
    p1 = p1
    p2 = p2
    Conns = {p1, p2}
    UserFiles <- MCGoneFile
    Absolute <- MCGoneFile
    Existing = {}
    Overlap = FALSE
    MaxEdits = 0
INVARIANT LiteralIsPutBack
