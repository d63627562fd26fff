SPECIFICATION FairSpec
CONSTANTS
    Attempts = 2
    QueueCap = 1
    Texts = {"A", "B"}
    Secrets = {"S"}
    Emojis = {"e1", "e2"}
    FirstClips = {"A", "S"}
    SwiftCopy = TRUE
    Budgets <- MCBudgets
INVARIANTS
    ClipboardIsOwed
PROPERTIES
    ChordsPasteTheirOwn
    PicksEnd
CHECK_DEADLOCK FALSE
