SPECIFICATION PagesSpec
CONSTANTS
    Admin <- MCAdmin
    MaxClicks = 4
    MaxFaults = 1
    Item = {1, 2}
    MaxOps = 3
    MaxFails = 1
    AccountClicks = 6
    MaxMoves = 3
    CacheClicks = 3
    CacheFails = 1
    Unused = {2, 4}
    PageSize = 1
    MaxEvents = 6
    MaxChanges = 3
    MaxVisits = 3
    LastYear = 2003
    Message = {1, 2}
    MaxAsked = 3
    MaxFetches = 2
    MaxTagLength = 2
    MaxText = 6
INVARIANTS PartsTypeOK  ElsewhereKept   
PROPERTIES EditsKept
CHECK_DEADLOCK FALSE
