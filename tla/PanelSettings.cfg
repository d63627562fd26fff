SPECIFICATION FairSpec
CONSTANTS
    Colors = {"red", "blue"}
    Points = {"left"}
    Themes = {"dark", "odd"}
    Uncarried = {"odd"}
    Picks <- MCPicks
    ConfigTexts <- MCConfigTexts
    StateTexts <- MCStateTexts
    FirstTexts <- MCFirstTexts
    Budgets <- MCBudgets
INVARIANTS
    ChangesAreKept
PROPERTIES
    MalformedIsKept
    HeldThemeIsKept
    SavesSettle
CHECK_DEADLOCK FALSE
