\* Panels that follow one another, one closing or dying before the next opens,
\* over a setting that is unset, relative, or an absolute path that names a file.
\* One that names no file is SharePanelsGone.cfg.
SPECIFICATION PanelsSpec
CONSTANTS
    p1 = p1
    p2 = p2
    Conns = {p1, p2}
    UserFiles <- MCUserFiles
    Absolute <- MCAbsolute
    Existing <- MCUserFiles
    Overlap = FALSE
    MaxEdits = 0
SYMMETRY PanelSymmetry
INVARIANTS
    RecordKeepsTheUsers
    StopGivesBackTheUsers
