SPECIFICATION FairSpec
CONSTANTS
    Caps = {"letter", "glyph", "bksp"}
    Keys = {"bksp"}
    Fixed = {}
    Exact = {"glyph"}
    Columns = {"letter"}
    Delay = 2
    Window = 2
    Budgets <- MCBudgets
INVARIANTS
    OneActOneKey
    NothingIsLeftDown
PROPERTIES
    RestsAreDecided
CHECK_DEADLOCK FALSE
