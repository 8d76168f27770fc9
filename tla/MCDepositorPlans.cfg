SPECIFICATION FairSpec
CONSTANTS
    alice = alice
    NoPlan = NoPlan
    Users = {alice}
    Opening <- MCOpening
    Plans = {p1, p2}
    Owner <- MCOwner
    PlanDays = 3
    Amounts = {100}
    PerMille = 10
    Impatient = {}
    Weekend = {5, 6}
    Processes = {w1, w2}
    Punctual = FALSE
    Mortal = {w2}
CHECK_DEADLOCK FALSE
INVARIANTS
    TypeOK
    PlanBooks
    FullDaysOnly
    OnePlanAtATime
PROPERTIES
    PlansComplete
