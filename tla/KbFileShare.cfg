\* Two connections sharing and restoring under one gate, with the user's own
\* changes, lost requests and a shutdown at any moment, and every wait bounded.
SPECIFICATION FairSpec
CONSTANTS
    c1 = c1
    c2 = c2
    Conns = {c1, c2}
    UserFiles <- MCUserFiles
    Absolute <- MCAbsolute
PROPERTIES
    OkMeansInPlace
    FailureLeavesNoTrace
    StopEnds
