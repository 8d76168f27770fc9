-------------------------------- MODULE Loans --------------------------------
(***************************************************************************)
(* Advances on earnings (LoansService, Trade Guard only): a loan is        *)
(* requested, approved by an admin and paid into the wallet, limits what   *)
(* may be withdrawn while it is open, and is repaid from the wallet,       *)
(* defaulted, or clawed back from what was reinvested.                     *)
(*                                                                         *)
(* A handler reads the loan's status, moves money through the wallet       *)
(* primitives and then sets the status by id.  The withdrawal gate of      *)
(* WalletService reads the open loan before the debit and adds to          *)
(* withdrawnAgainstLoan after it.                                          *)
(*                                                                         *)
(* The rows handlers work on are loans (review, approval, repayment,       *)
(* clawback) and users (request, withdrawal, refund, capital).  Scope: the *)
(* withdrawals of one user have distinct amounts; the maintenance cap, and *)
(* how a withdrawal goes on, are in Withdrawals; of the capital, Smart     *)
(* Invest only, moved free of fees by an admin or a VVIP.                  *)
(***************************************************************************)
EXTENDS PlatformWallet, HandlerPool, FiniteSets, Sums

CONSTANTS
    Loans,       \* bound: the loans ever requested
    Owner,       \* [Loans -> Users]
    Principal,   \* [Loans -> Nat \ {0}], what quote() offers, in cents
    Amounts,     \* amounts of withdrawals and of capital moves
    Capital,     \* [Users -> Nat]: investorBalance before the modelled history
    Handlers,    \* what happens, from AllHandlers
    MaxStarts    \* bound: handlers that ever start

AllHandlers == {"review", "withdraw", "refund", "allocate", "reinvest", "clawback", "crash"}

ASSUME LoanAssumption ==
    /\ Rows = Users \cup Loans /\ Users \cap Loans = {} /\ IsFiniteSet(Loans)
    /\ Owner \in [Loans -> Users]
    /\ Principal \in [Loans -> Nat \ {0}]
    /\ Amounts \subseteq Nat \ {0}
    /\ Capital \in [Users -> Nat]
    /\ Handlers \subseteq AllHandlers
    /\ MaxStarts \in Nat

VARIABLES
    status,     \* loan.status, "none" before the row exists
    advanced,   \* loan.withdrawnAgainstLoan
    disbursed,  \* LOAN_DISBURSE rows with this referenceId
    collected,  \* LOAN_REPAY rows with this referenceId
    drawn,      \* history: withdrawn while this loan was the gate
    pending,    \* gross amounts of the user's withdrawals with no refund row
    paidOut,    \* history: withdrawals less refunds, by their rows
    invested,   \* investorBalance
    moved,      \* INVESTOR_ALLOCATE rows since approvedAt
    stripped,   \* history: what the clawback has taken because of this loan
    left        \* handlers that may still start

loanVars == <<status, advanced, disbursed, collected, drawn>>
payoutVars == <<pending, paidOut>>
capitalVars == <<invested, moved, stripped>>
vars == <<walletVars, taskVars, left, loanVars, payoutVars, capitalVars>>

Statuses == {"none", "PENDING", "APPROVED", "REPAID", "REJECTED", "CANCELLED", "DEFAULTED"}
Closing == {"CANCELLED", "REJECTED", "DEFAULTED"}
Steps == {"create", "disburseReads", "disburse", "open", "repayReads", "collect", "close",
          "withdrawReads", "debit", "record", "count", "refundReads", "refund",
          "allocateReads", "allocate", "clawReads", "clawSums", "claw"} \cup Closing
Task == [worker: Workers, p: Rows, loan: SUBSET Loans, at: Steps,
         amount: Nat, seen: Nat, seenInvested: Nat]

\* The type invariant: neither column of a wallet is ever negative.
TypeOK ==
    /\ WalletTypeOK
    /\ status \in [Loans -> Statuses]
    /\ advanced \in [Loans -> Nat]
    /\ disbursed \in [Loans -> Nat]
    /\ collected \in [Loans -> Nat]
    /\ drawn \in [Loans -> Nat]
    /\ pending \in [Users -> SUBSET Amounts]
    /\ paidOut \in [Users -> Int]
    /\ invested \in [Users -> Nat]
    /\ moved \in [Loans -> Nat]
    /\ stripped \in [Loans -> Nat]
    /\ tasks \subseteq Task
    /\ disturbed \in [Rows -> BOOLEAN]
    /\ left \in Nat

Init ==
    /\ WalletInit
    /\ status = [l \in Loans |-> "none"]
    /\ advanced = [l \in Loans |-> 0]
    /\ disbursed = [l \in Loans |-> 0]
    /\ collected = [l \in Loans |-> 0]
    /\ drawn = [l \in Loans |-> 0]
    /\ pending = [u \in Users |-> {}]
    /\ paidOut = [u \in Users |-> 0]
    /\ invested = Capital
    /\ moved = [l \in Loans |-> 0]
    /\ stripped = [l \in Loans |-> 0]
    /\ tasks = {}
    /\ disturbed = [r \in Rows |-> FALSE]
    /\ left = MaxStarts

StartsWith(t) ==
    /\ left > 0
    /\ left' = left - 1
    /\ StartWith(t)

\* A handler of a row; "loan" holds the loan it works on, or none.
Start(w, row, loan, step, a) ==
    StartsWith([worker |-> w, p |-> row, loan |-> loan, at |-> step, amount |-> a,
                seen |-> 0, seenInvested |-> 0])

UserOf(t) == IF t.p \in Users THEN t.p ELSE Owner[t.p]

\* The step that reads the user's wallet.
Snapshot(t, step) ==
    Continue(t, [t EXCEPT !.at = step, !.seen = available[UserOf(t)],
                          !.seenInvested = invested[UserOf(t)]])

Post(t, change) ==
    AssignAndPost(UserOf(t), t.seen, change, t.seen = available[UserOf(t)])

LoanOf(t) == CHOOSE l \in t.loan : TRUE

\* loan.constants.ts: LOAN_INTEREST_PERCENT = 20, rounded to cents.
TotalDue(l) == Principal[l] + (Principal[l] * 20 + 50) \div 100

Open(u) == {l \in Loans : Owner[l] = u /\ status[l] = "APPROVED"}
OpenedOf(u) == {l \in Loans : Owner[l] = u /\ status[l] \in {"APPROVED", "REPAID", "DEFAULTED"}}
Blocking(u) == {l \in Loans : Owner[l] = u /\ status[l] \in {"PENDING", "APPROVED"}}

-----------------------------------------------------------------------------
(* request, cancel, reject, markDefaulted *)

\* A request that is refused for pending loans only.
RequestReadsPending(w, l) ==
    /\ status[l] = "none" /\ \A t \in tasks : ~(l \in t.loan)
    /\ \A k \in Loans : Owner[k] = Owner[l] => status[k] # "PENDING"
    /\ Start(w, Owner[l], {l}, "create", 0)
    /\ UNCHANGED <<walletVars, loanVars, payoutVars, capitalVars>>

\* request: no loan of the user is pending or open ...
RequestReads(w, l) ==
    /\ status[l] = "none" /\ \A t \in tasks : ~(l \in t.loan)
    /\ Blocking(Owner[l]) = {}
    /\ Start(w, Owner[l], {l}, "create", 0)
    /\ UNCHANGED <<walletVars, loanVars, payoutVars, capitalVars>>

SetStatus(l, s) ==
    /\ status' = [status EXCEPT ![l] = s]
    /\ UNCHANGED <<advanced, disbursed, collected, drawn>>

\* ... and the row is created.
RequestCreates(t) ==
    /\ At(t, "create")
    /\ SetStatus(LoanOf(t), "PENDING")
    /\ Return(t)
    /\ UNCHANGED <<walletVars, payoutVars, capitalVars>>

\* cancel (the user), reject and markDefaulted (an admin) check the status ...
ReviewReads(w, l) ==
    /\ \E s \in Closing :
         /\ status[l] = IF s = "DEFAULTED" THEN "APPROVED" ELSE "PENDING"
         /\ Start(w, l, {l}, s, 0)
    /\ UNCHANGED <<walletVars, loanVars, payoutVars, capitalVars>>

\* ... and set it by id.
ReviewCommits(t) ==
    /\ t.at \in Closing
    /\ SetStatus(LoanOf(t), t.at)
    /\ Return(t)
    /\ UNCHANGED <<walletVars, payoutVars, capitalVars>>

-----------------------------------------------------------------------------
(* approve: check, creditBalance in two steps, status *)

\* An approval of whatever is not open yet.
ApproveReadsClosed(w, l) ==
    /\ status[l] \notin {"none", "APPROVED"}
    /\ Start(w, l, {l}, "disburseReads", 0)
    /\ UNCHANGED <<walletVars, loanVars, payoutVars, capitalVars>>

ApproveReads(w, l) ==
    /\ status[l] = "PENDING"
    /\ Start(w, l, {l}, "disburseReads", 0)
    /\ UNCHANGED <<walletVars, loanVars, payoutVars, capitalVars>>

DisburseReads(t) ==
    /\ At(t, "disburseReads")
    /\ Snapshot(t, "disburse")
    /\ UNCHANGED <<walletVars, loanVars, payoutVars, capitalVars>>

Disburse(t) ==
    LET l == LoanOf(t) IN
    /\ At(t, "disburse")
    /\ Post(t, Principal[l])
    /\ disbursed' = [disbursed EXCEPT ![l] = @ + 1]
    /\ Move(t, "open")
    /\ UNCHANGED <<status, advanced, collected, drawn, payoutVars, capitalVars>>

\* approvedAt moves, and with it what counts as reinvested since.
ApproveCommits(t) ==
    /\ At(t, "open")
    /\ SetStatus(LoanOf(t), "APPROVED")
    /\ moved' = [moved EXCEPT ![LoanOf(t)] = 0]
    /\ Return(t)
    /\ UNCHANGED <<walletVars, payoutVars, invested, stripped>>

-----------------------------------------------------------------------------
(* repay: check, debitBalance in two steps, status *)

RepayReads(w, l) ==
    /\ status[l] = "APPROVED"
    /\ Start(w, l, {l}, "repayReads", 0)
    /\ UNCHANGED <<walletVars, loanVars, payoutVars, capitalVars>>

\* A repayment of more than there is.
CollectReadsUnchecked(t) ==
    /\ At(t, "repayReads")
    /\ Snapshot(t, "collect")
    /\ UNCHANGED <<walletVars, loanVars, payoutVars, capitalVars>>

\* "Need ... in wallet to repay", checked here and by debitBalance.
CollectReads(t) ==
    /\ At(t, "repayReads")
    /\ IF available[UserOf(t)] >= TotalDue(LoanOf(t)) THEN Snapshot(t, "collect") ELSE Return(t)
    /\ UNCHANGED <<walletVars, loanVars, payoutVars, capitalVars>>

Collect(t) ==
    LET l == LoanOf(t) IN
    /\ At(t, "collect")
    /\ Post(t, -TotalDue(l))
    /\ collected' = [collected EXCEPT ![l] = @ + 1]
    /\ Move(t, "close")
    /\ UNCHANGED <<status, advanced, disbursed, drawn, payoutVars, capitalVars>>

RepayCommits(t) ==
    /\ At(t, "close")
    /\ SetStatus(LoanOf(t), "REPAID")
    /\ Return(t)
    /\ UNCHANGED <<walletVars, payoutVars, capitalVars>>

-----------------------------------------------------------------------------
(* The withdrawal gate of executeDepositorWithdraw *)

\* A gate that compares with the whole advance.
WithinPrincipal(a, l) == a <= Principal[l]

\* assertLoanWithdrawAllowed: what is left of the advance.
WithinAdvance(a, l) == a <= Principal[l] - advanced[l]

\* Of several open loans the code takes the one approved last.
WithdrawChecks(w, u) ==
    /\ \E a \in Amounts \ (pending[u] \cup {t.amount : t \in tasks}) :
         \/ Open(u) = {} /\ Start(w, u, {}, "withdrawReads", a)
         \/ \E l \in Open(u) : WithinAdvance(a, l) /\ Start(w, u, {l}, "withdrawReads", a)
    /\ UNCHANGED <<walletVars, loanVars, payoutVars, capitalVars>>

WithdrawReads(t) ==
    /\ At(t, "withdrawReads")
    /\ IF t.amount <= available[UserOf(t)] THEN Snapshot(t, "debit") ELSE Return(t)
    /\ UNCHANGED <<walletVars, loanVars, payoutVars, capitalVars>>

WithdrawCommits(t) ==
    /\ At(t, "debit")
    /\ Post(t, -t.amount)
    /\ pending' = [pending EXCEPT ![t.p] = @ \cup {t.amount}]
    /\ paidOut' = [paidOut EXCEPT ![t.p] = @ + t.amount]
    /\ drawn' = [l \in Loans |-> drawn[l] + IF l \in t.loan THEN t.amount ELSE 0]
    /\ Move(t, "record")
    /\ UNCHANGED <<status, advanced, disbursed, collected, capitalVars>>

\* recordLoanWithdraw reads the open loan again ...
RecordReads(t) ==
    /\ At(t, "record")
    /\ \/ Open(UserOf(t)) = {} /\ Return(t)
       \/ \E l \in Open(UserOf(t)) :
            Continue(t, [t EXCEPT !.at = "count", !.loan = {l}, !.seen = advanced[l]])
    /\ UNCHANGED <<walletVars, loanVars, payoutVars, capitalVars>>

\* ... and assigns the sum, at most the principal.
RecordCommits(t) ==
    LET l == LoanOf(t)
        sum == t.seen + t.amount
    IN
    /\ At(t, "count")
    /\ advanced' = [advanced EXCEPT ![l] = IF sum < Principal[l] THEN sum ELSE Principal[l]]
    /\ Return(t)
    /\ UNCHANGED <<walletVars, status, disbursed, collected, drawn, payoutVars, capitalVars>>

\* PayoutService.refundWalletWithdrawal of a withdrawal that was not sent: no
\* refund row exists; then creditBalance in two steps.
RefundChecks(w, u) ==
    /\ \E a \in pending[u] : Start(w, u, {}, "refundReads", a)
    /\ UNCHANGED <<walletVars, loanVars, payoutVars, capitalVars>>

RefundReads(t) ==
    /\ At(t, "refundReads")
    /\ Snapshot(t, "refund")
    /\ UNCHANGED <<walletVars, loanVars, payoutVars, capitalVars>>

RefundRow(t) ==
    /\ pending' = [pending EXCEPT ![t.p] = @ \ {t.amount}]
    /\ paidOut' = [paidOut EXCEPT ![t.p] = @ - t.amount]

\* A refund recorded without the money.
RefundCreditsRowOnly(t) ==
    /\ At(t, "refund")
    /\ RefundRow(t)
    /\ Return(t)
    /\ UNCHANGED <<walletVars, loanVars, capitalVars>>

RefundCredits(t) ==
    /\ At(t, "refund")
    /\ Post(t, t.amount)
    /\ RefundRow(t)
    /\ Return(t)
    /\ UNCHANGED <<loanVars, capitalVars>>

-----------------------------------------------------------------------------
(* Capital, and clawbackApprovedLoanReinvestGains *)

\* transferInvestment by an admin, which an open loan does not block ...
AllocateChecks(w, u) ==
    /\ \E a \in Amounts : Start(w, u, {}, "allocateReads", a)
    /\ UNCHANGED <<walletVars, loanVars, payoutVars, capitalVars>>

\* ... and by the user, which it does.
ReinvestChecks(w, u) == Open(u) = {} /\ AllocateChecks(w, u)

AllocateReads(t) ==
    /\ At(t, "allocateReads")
    /\ IF t.amount <= available[t.p] THEN Snapshot(t, "allocate") ELSE Return(t)
    /\ UNCHANGED <<walletVars, loanVars, payoutVars, capitalVars>>

AssignCapital(t, change) ==
    invested' = [invested EXCEPT ![UserOf(t)] = t.seenInvested + change]

AllocateCommits(t) ==
    /\ At(t, "allocate")
    /\ AssignAndPost(UserOf(t), t.seen, -t.amount,
                     t.seen = available[UserOf(t)] /\ t.seenInvested = invested[UserOf(t)])
    /\ AssignCapital(t, t.amount)
    /\ moved' = [l \in Loans |-> moved[l] + IF l \in OpenedOf(UserOf(t)) THEN t.amount ELSE 0]
    /\ Return(t)
    /\ UNCHANGED <<loanVars, payoutVars, stripped>>

\* The list of open loans is read once; each is then taken in turn.
ClawbackLists(w, l) ==
    /\ status[l] = "APPROVED"
    /\ Start(w, l, {l}, "clawReads", 0)
    /\ UNCHANGED <<walletVars, loanVars, payoutVars, capitalVars>>

ClawbackReads(t) ==
    /\ At(t, "clawReads")
    /\ Snapshot(t, "clawSums")
    /\ UNCHANGED <<walletVars, loanVars, payoutVars, capitalVars>>

\* What was allocated since the approval, if the investment held as much.  With
\* nothing to strip it goes on for the sake of autoReinvestEarnings only, which is
\* left open here: it is off, or still on from before the approval.
ClawbackSums(t) ==
    LET strip == IF t.seenInvested < moved[t.p] THEN t.seenInvested ELSE moved[t.p] IN
    /\ At(t, "clawSums")
    /\ \/ strip = 0 /\ Return(t)
       \/ Continue(t, [t EXCEPT !.at = "claw", !.amount = strip])
    /\ UNCHANGED <<walletVars, loanVars, payoutVars, capitalVars>>

\* Writes both columns as they were read, the investment less the strip.  The
\* ADJUSTMENT row of a strip is not one that moves availableBalance.
ClawbackCommits(t) ==
    /\ At(t, "claw")
    /\ available' = [available EXCEPT ![UserOf(t)] = t.seen]
    /\ balanceAfter' = [balanceAfter EXCEPT ![UserOf(t)] = IF t.amount > 0 THEN t.seen ELSE @]
    /\ stale' = [stale EXCEPT ![UserOf(t)] =
                   @ \/ t.seen # available[UserOf(t)] \/ t.seenInvested # invested[UserOf(t)]]
    /\ AssignCapital(t, -t.amount)
    /\ stripped' = [stripped EXCEPT ![t.p] = @ + t.amount]
    /\ Return(t)
    /\ UNCHANGED <<rowSum, loanVars, payoutVars, moved>>

\* A process that dies between the money and the record of it loses track.
Crash(t) ==
    /\ t \in tasks
    /\ IF t.at \in {"open", "close", "record", "count"} THEN LoseTrack(t) ELSE Return(t)
    /\ UNCHANGED <<walletVars, loanVars, payoutVars, capitalVars>>

-----------------------------------------------------------------------------
On(h) == h \in Handlers

StartsOnLoan(w, l) ==
    \/ RequestReads(w, l) \/ ApproveReads(w, l) \/ RepayReads(w, l)
    \/ On("review") /\ ReviewReads(w, l)
    \/ On("clawback") /\ ClawbackLists(w, l)

StartsOnWallet(w, u) ==
    \/ On("withdraw") /\ WithdrawChecks(w, u)
    \/ On("refund") /\ RefundChecks(w, u)
    \/ On("allocate") /\ AllocateChecks(w, u)
    \/ On("reinvest") /\ ReinvestChecks(w, u)

Continues(t) ==
    \/ RequestCreates(t) \/ ReviewCommits(t)
    \/ DisburseReads(t) \/ Disburse(t) \/ ApproveCommits(t)
    \/ CollectReads(t) \/ Collect(t) \/ RepayCommits(t)
    \/ WithdrawReads(t) \/ WithdrawCommits(t) \/ RecordReads(t) \/ RecordCommits(t)
    \/ RefundReads(t) \/ RefundCredits(t) \/ AllocateReads(t) \/ AllocateCommits(t)
    \/ ClawbackReads(t) \/ ClawbackSums(t) \/ ClawbackCommits(t)

Next ==
    \/ \E w \in Workers, l \in Loans : StartsOnLoan(w, l)
    \/ \E w \in Workers, u \in Users : StartsOnWallet(w, u)
    \/ /\ \E t \in tasks : Continues(t) \/ (On("crash") /\ Crash(t))
       /\ UNCHANGED left

Spec == Init /\ [][Next]_vars

-----------------------------------------------------------------------------
LoansOf(u) == {l \in Loans : Owner[l] = u}

\* No two handlers of the user, or of one loan, have overlapped.
Orderly(u) == \A r \in LoansOf(u) \cup {u} : ~disturbed[r]

\* A user whose requests did not overlap with each other or with another
\* handler of the same user or loan has at most one loan pending or open.
OneLoanAtATime ==
    \A u \in Users : Orderly(u) => Cardinality(Blocking(u)) <= 1

\* The money agrees with the status of a loan whose handlers did not overlap or
\* die half-way, between any two of them: it is paid out once if the loan was
\* opened and never if not, collected once if it is REPAID and never if not.
MoneyFollowsStatus ==
    \A l \in Loans : ~disturbed[l] /\ ~Running(l) =>
        /\ disbursed[l] = IF status[l] \in {"APPROVED", "REPAID", "DEFAULTED"} THEN 1 ELSE 0
        /\ collected[l] = IF status[l] = "REPAID" THEN 1 ELSE 0

\* No more is withdrawn against a loan than its principal, and while it is open
\* withdrawnAgainstLoan tells of all of it, unless withdrawals of the user or
\* handlers of one of the user's loans overlapped among themselves.
AdvanceIsTheLimit ==
    \A l \in Loans : Orderly(Owner[l]) =>
        /\ drawn[l] <= Principal[l]
        /\ status[l] = "APPROVED" /\ ~Running(Owner[l]) => advanced[l] >= drawn[l]

\* What a loan has put into the wallet and the capital of its owner.
net == [l \in Loans |-> disbursed[l] * Principal[l] - collected[l] * TotalDue(l) - stripped[l]]

\* Unless a write was computed from a stale snapshot, the wallet is what the
\* loans, the withdrawals and the capital moves make of it.
BooksFollowLoans ==
    \A u \in Users : ~stale[u] =>
        /\ available[u] = Opening[u] + rowSum[u]
        /\ available[u] + invested[u] =
               Opening[u] + Capital[u] - paidOut[u] + SumOver(net, LoansOf(u))

=============================================================================
