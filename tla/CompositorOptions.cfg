SPECIFICATION FairSpec
CONSTANT
    Budgets <- MCBudgets
INVARIANTS
    HidingIsGivenBack
    ReadsNeverMeetWrites
    GapsComeBack
PROPERTY
    BothSettle
CHECK_DEADLOCK FALSE
