SPECIFICATION Spec
CONSTANTS
    alice = alice
    NoPlan = NoPlan
    Users = {alice}
    Opening <- MCOpening
    Plans = {p1}
    Owner <- MCOwner
    PlanDays = 5
    Amounts = {100}
    PerMille = 10
    Impatient = {alice}
    Weekend = {}
    Processes = {w1}
    Punctual = TRUE
    Mortal = {}
CHECK_DEADLOCK FALSE
INVARIANTS
    CompletedPaidInFull
