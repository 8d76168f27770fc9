----------------------------- MODULE WalletLedger -----------------------------
(***************************************************************************)
(* The wallet primitives other services call: WalletService.debitBalance   *)
(* and creditBalance, and InvestorService.transferInvestment, which moves  *)
(* money between availableBalance and investorBalance.                     *)
(*                                                                         *)
(* Each invocation is one element of Calls.  It begins by reading the      *)
(* wallet (and throwing, with no effect, when a check fails), is then in   *)
(* flight while it holds the snapshot, and ends with the transaction that  *)
(* writes.  A process that dies between the two simply never commits.      *)
(***************************************************************************)
EXTENDS PlatformWallet

CONSTANTS
    Calls,               \* invocations; each runs at most once
    CallAmounts,         \* their amounts, in cents
    ReinvestFeePercent,  \* INVESTOR_SELF_REINVEST_FEE_PERCENT
    Serialised           \* users whose invocations never overlap

ASSUME CallAmountsAssumption == CallAmounts \subseteq Nat \ {0}
ASSUME ReinvestFeeAssumption == ReinvestFeePercent \in 0 .. 100
ASSUME SerialisedAssumption == Serialised \subseteq Users

VARIABLES
    investorBalance,  \* the other column of the wallet
    allocated,        \* sum of the INVESTOR_ALLOCATE and INVESTOR_REDEEM rows
    fees,             \* sum of the INVESTOR_REINVEST_FEE rows, as a positive number
    fresh,            \* invocations that have not begun
    inFlight          \* invocations between their read and their transaction

investorVars == <<investorBalance, allocated, fees>>
ledgerVars == <<walletVars, investorVars, fresh, inFlight>>

Request ==
    [id: Calls, op: {"debit", "credit", "invest", "redeem"}, user: Users,
     amount: CallAmounts, fee: Nat, seen: Nat, seenInvested: Nat]

\* The type invariant.  No balance is ever negative: every handler refuses to
\* spend more than the snapshot it goes on to write from.
LedgerTypeOK ==
    /\ WalletTypeOK
    /\ investorBalance \in [Users -> Nat]
    /\ allocated \in [Users -> Int]
    /\ fees \in [Users -> Nat]
    /\ fresh \subseteq Calls
    /\ inFlight \subseteq Request

LedgerInit ==
    /\ WalletInit
    /\ investorBalance = [u \in Users |-> 0]
    /\ allocated = [u \in Users |-> 0]
    /\ fees = [u \in Users |-> 0]
    /\ fresh = Calls
    /\ inFlight = {}

-----------------------------------------------------------------------------
\* Math.round of a percentage of an amount in cents.
SelfReinvestFee(amount) == (amount * ReinvestFeePercent + 50) \div 100

MayBegin(c, u) ==
    /\ c \in fresh
    /\ u \in Serialised => \A r \in inFlight : r.user # u

BeginCall(c, o, u, a, fee) ==
    /\ MayBegin(c, u)
    /\ fresh' = fresh \ {c}
    /\ inFlight' = inFlight \cup
         {[id |-> c, op |-> o, user |-> u, amount |-> a, fee |-> fee,
           seen |-> available[u], seenInvested |-> investorBalance[u]]}
    /\ UNCHANGED <<walletVars, investorVars>>

EndCall(r) ==
    /\ r \in inFlight
    /\ inFlight' = inFlight \ {r}
    /\ UNCHANGED fresh

-----------------------------------------------------------------------------
\* A dropped "Insufficient wallet balance" check.
DebitReadsUnchecked(c, u, a) == BeginCall(c, "debit", u, a, 0)

\* debitBalance: getOrCreateWallet and "Insufficient wallet balance".
DebitReads(c, u, a) ==
    /\ available[u] >= a
    /\ BeginCall(c, "debit", u, a, 0)

\* A balance update outside the transaction that inserts the row.
DebitCommitsWithoutRow(r) ==
    /\ r.op = "debit"
    /\ EndCall(r)
    /\ available' = [available EXCEPT ![r.user] = r.seen - r.amount]
    /\ stale' = [stale EXCEPT ![r.user] = @ \/ r.seen # available[r.user]]
    /\ UNCHANGED <<rowSum, balanceAfter, investorVars>>

\* debitBalance: the transaction.
DebitCommits(r) ==
    /\ r.op = "debit"
    /\ EndCall(r)
    /\ AssignAndPost(r.user, r.seen, -r.amount, r.seen = available[r.user])
    /\ UNCHANGED investorVars

\* creditBalance: the read, which refuses nothing, and the transaction.
CreditReads(c, u, a) == BeginCall(c, "credit", u, a, 0)

CreditCommits(r) ==
    /\ r.op = "credit"
    /\ EndCall(r)
    /\ AssignAndPost(r.user, r.seen, r.amount, r.seen = available[r.user])
    /\ UNCHANGED investorVars

-----------------------------------------------------------------------------
\* transferInvestment, direction to_investment, up to the transaction.  The
\* fee is waived for an admin's move and for VVIP users.
ToInvestmentReads(c, u, a) ==
    /\ available[u] >= a
    /\ \E fee \in {0, SelfReinvestFee(a)} :
         /\ a - fee > 0
         /\ BeginCall(c, "invest", u, a, fee)

BothColumnsIntact(r) ==
    /\ r.seen = available[r.user]
    /\ r.seenInvested = investorBalance[r.user]

\* The fee taken from the wallet on top of the amount moved.
ToInvestmentCommitsFeeOnTop(r) ==
    /\ r.op = "invest"
    /\ EndCall(r)
    /\ AssignAndPost(r.user, r.seen, -r.amount - r.fee, BothColumnsIntact(r))
    /\ investorBalance' = [investorBalance EXCEPT ![r.user] = r.seenInvested + r.amount]
    /\ allocated' = [allocated EXCEPT ![r.user] = @ - r.amount]
    /\ fees' = [fees EXCEPT ![r.user] = @ + r.fee]

\* to_investment, the transaction: both columns, the INVESTOR_ALLOCATE row of
\* the whole amount, and a second INVESTOR_REINVEST_FEE row of -fee that
\* carries the same balanceAfter, since it moves nothing more.
ToInvestmentCommits(r) ==
    /\ r.op = "invest"
    /\ EndCall(r)
    /\ AssignAndPost(r.user, r.seen, -r.amount, BothColumnsIntact(r))
    /\ investorBalance' = [investorBalance EXCEPT ![r.user] = r.seenInvested + (r.amount - r.fee)]
    /\ allocated' = [allocated EXCEPT ![r.user] = @ - r.amount]
    /\ fees' = [fees EXCEPT ![r.user] = @ + r.fee]

\* transferInvestment, direction to_wallet.
ToWalletReads(c, u, a) ==
    /\ investorBalance[u] >= a
    /\ BeginCall(c, "redeem", u, a, 0)

ToWalletCommits(r) ==
    /\ r.op = "redeem"
    /\ EndCall(r)
    /\ AssignAndPost(r.user, r.seen, r.amount, BothColumnsIntact(r))
    /\ investorBalance' = [investorBalance EXCEPT ![r.user] = r.seenInvested - r.amount]
    /\ allocated' = [allocated EXCEPT ![r.user] = @ + r.amount]
    /\ UNCHANGED fees

-----------------------------------------------------------------------------
Reads(c, u, a) ==
    DebitReads(c, u, a) \/ CreditReads(c, u, a)
        \/ ToInvestmentReads(c, u, a) \/ ToWalletReads(c, u, a)

Commits(r) ==
    DebitCommits(r) \/ CreditCommits(r) \/ ToInvestmentCommits(r) \/ ToWalletCommits(r)

LedgerNext ==
    \/ \E c \in Calls, u \in Users, a \in CallAmounts : Reads(c, u, a)
    \/ \E r \in inFlight : Commits(r)

LedgerSpec == LedgerInit /\ [][LedgerNext]_ledgerVars

-----------------------------------------------------------------------------
\* Unless some write of the wallet was computed from a stale snapshot, the
\* balance is what the ledger says it is, and investorBalance is exactly what
\* was allocated, less what was redeemed, less the fees.  Every handler must
\* write both columns, and rows that agree with them, in one transaction.
BooksBalance ==
    \A u \in Users : ~stale[u] =>
        /\ available[u] = Opening[u] + rowSum[u]
        /\ investorBalance[u] = -allocated[u] - fees[u]

\* The newest row's balanceAfter is the balance, even when writes were lost:
\* the statement the user sees always ends on the balance the app shows.
LastRowShowsBalance == \A u \in Users : balanceAfter[u] = available[u]

\* Where invocations on one wallet do not overlap, the books are exact: the
\* handlers lose money only by interleaving, never on their own, whatever
\* overlaps on the wallets of other users.
SerialisedBooksExact ==
    \A u \in Serialised :
        /\ ~stale[u]
        /\ available[u] = Opening[u] + rowSum[u]
        /\ investorBalance[u] = -allocated[u] - fees[u]

\* There the debits on the ledger never exceed the opening balance and the
\* credits, which is what the "Insufficient wallet balance" check of
\* debitBalance and its counterpart in transferInvestment are for.
LedgerNeverOverdrawn == \A u \in Serialised : Opening[u] + rowSum[u] >= 0

=============================================================================
