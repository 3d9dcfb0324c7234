SPECIFICATION PartsSpec
CONSTANTS
    MaxSaves = 2
    Budgets <- MCBudgets
    MaxSteps = 7
    MaxKeys = 6
    MaxEvents = 3
    MaxFaults = 1
INVARIANTS PartsTypeOK  AttachedOnce  DialogsSettle SavedIsShown FollowsSystem
PROPERTIES SavedAsShown 
CHECK_DEADLOCK FALSE
