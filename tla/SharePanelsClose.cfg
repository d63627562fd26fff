\* A panel closed while its first share is under way.
SPECIFICATION PanelsSpec
CONSTANTS
    p1 = p1
    Conns = {p1}
    UserFiles <- MCOneFile
    Absolute <- MCOneFile
    Existing <- MCOneFile
    Overlap = FALSE
    MaxEdits = 0
INVARIANT ClosingGivesBack
