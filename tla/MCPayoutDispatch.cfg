SPECIFICATION FairSpec
CONSTANTS
    None = None
    Payouts = {1, 2, 3}
    Net <- MCNet
    Gross <- MCGross
    MaxRequests <- MCMaxRequests
    Processes = {w1, w2}
    Mortal = {w2}
    Stubborn = {1}
    ListLimit = 2
    SundayHours = 2
    WeekHours = 4
    OpenHours = {0, 1, 3}
    FirstSlots = {5}
CHECK_DEADLOCK FALSE
INVARIANTS
    TypeOK
    SharesKept
PROPERTIES
    DueIsSent
