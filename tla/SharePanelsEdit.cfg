\* One panel, one edit: the user moves between two files and none.
SPECIFICATION PanelsSpec
CONSTANTS
    p1 = p1
    Conns = {p1}
    UserFiles <- MCTwoFiles
    Absolute <- MCTwoFiles
    Existing <- MCTwoFiles
    Overlap = FALSE
    MaxEdits = 1
INVARIANTS
    RecordFollowsTheEdit
