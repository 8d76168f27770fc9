SPECIFICATION Spec
CONSTANTS
    alice = alice
    bob = bob
    Users = {alice, bob}
    Rows = {alice, bob}
    Opening <- MCOpening
    Capital <- MCCapital
    Acts <- MCActs
    Calendar <- MCCalendar
    Amounts = {100}
    YieldPercent = 10
    UnitrustPercent = 5
    FeePercent = 10
    Share <- MCShare
    MinBalance = 150
    MinBalanceFrom = 1
    Whitelisted = {}
    Workers = {w1, w2}
    Processes = {i1, i2}
    OptOuts = {o1}
    CoolingDays = 1
    MonthEnds = {1}
    MaxStarts = 2
SYMMETRY MCSymmetry
CHECK_DEADLOCK FALSE
INVARIANTS
    TypeOK
    YieldBooks
    PaidOnce
    CapitalReturned
PROPERTIES
    ServedByMidnight
