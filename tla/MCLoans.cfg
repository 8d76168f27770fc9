SPECIFICATION Spec
CONSTANTS
    alice = alice
    Users = {alice}
    Rows = {alice, l1, l2}
    Opening <- MCOpening
    Capital <- MCCapital
    Loans = {l1, l2}
    Owner <- MCOwner
    Principal <- MCPrincipal
    Workers = {w1, w2}
    Amounts = {2, 3}
    Handlers = {"review", "withdraw", "refund", "allocate", "reinvest", "clawback", "crash"}
    MaxStarts = 6
SYMMETRY MCSymmetry
CHECK_DEADLOCK FALSE
INVARIANTS
    TypeOK
    OneLoanAtATime
    MoneyFollowsStatus
    AdvanceIsTheLimit
    BooksFollowLoans
