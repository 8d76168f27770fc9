SPECIFICATION FairSpec
CONSTANTS
    alice = alice
    crypto = crypto
    momo = momo
    Users = {alice}
    Opening <- MCOpening
    Rows = {momo, crypto}
    Owner <- MCOwner
    Amount <- MCAmount
    Workers = {w1, w2}
    Flutterwave = {momo}
    Created <- MCCreated
    ListSize = 1
    VisitSize = 1
    MayExpire = {crypto}
    Mortal = {w1}
    MaxCredits = 2
CHECK_DEADLOCK FALSE
INVARIANTS
    TypeOK
    CreditedOnce
    CreditFollowsPayment
    BooksFollowDeposits
PROPERTIES
    ArrivedIsCredited
