SPECIFICATION FairSpec
CONSTANTS
    alice = alice
    Users = {alice}
    Opening <- MCOpening
    Rows = {p1, p2}
    Owner <- MCOwner
    Workers = {w1, w2}
    Mortal = {w2}
    Agents = {}
    NoAgent = NoAgent
    Amounts = {2}
    Routes = {"bep20", "momo"}
    Solo = TRUE
    MomoChannels = {"flutterwave"}
    Handlers = {"flush", "cancel", "complete", "crash", "lostReply"}
    MaxSends = 2
CHECK_DEADLOCK FALSE
INVARIANTS
    TypeOK
    RefundedOnce
    BooksFollowPayouts
    SettledOnce
PROPERTIES
    CancelledStaysClosed
    CryptoEventuallySettles
