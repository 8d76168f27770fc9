SPECIFICATION Spec
CONSTANTS
    alice = alice
    crypto = crypto
    momo = momo
    Users = {alice}
    Opening <- MCOpening
    Rows = {crypto}
    Owner <- MCOwner
    Amount <- MCAmount
    Workers = {w1}
    Flutterwave = {}
    Created <- MCCreated
    ListSize = 1
    VisitSize = 2
    MayExpire = {crypto}
    Mortal = {}
    MaxCredits = 2
SYMMETRY MCSymmetry
CHECK_DEADLOCK FALSE
INVARIANTS
    NeverCreditedTwice
