\* One panel, one edit: the user removes the kb_file their panel had shared.
SPECIFICATION PanelsSpec
CONSTANTS
    p1 = p1
    Conns = {p1}
    UserFiles <- MCOneFile
    Absolute <- MCOneFile
    Existing <- MCOneFile
    Overlap = FALSE
    MaxEdits = 1
INVARIANT RecordDiesWithTheSetting
