# soloEma: a verification development of its money handlers

The repository holds one NestJS backend (`backend/src`) that is deployed twice, as **Trade Guard**
(`main.ts`, `app.module.ts`) and as **Solo** (`solo-main.ts`, `solo.app.module.ts`; `isSoloApp()` tells them
apart, and each has its own database), a Next.js front end (`solo/`) and a Prisma schema of 87 tables. What the program must
not get wrong is money: every user has a platform wallet in USDT, and a dozen services debit and credit it
while payment gateways, a blockchain, mobile-money agents, admins and cron jobs act on the same rows.

This directory models those handlers in TLA+, checks them with TLC and proves facts about them with TLAPS.
`PROJECT.json` lists the components, runs, mutants, findings, hazards and theorems, and maps each definition
to the lines it translates.

## 1. Inventory

Paths are below `backend/src/`.

| component | state of record | operations | hard behaviour | what makes it correct |
|---|---|---|---|---|
| wallet ledger (`wallet/wallet.service.ts`, `investor.service.ts`) | `platform_wallets` (available, invested, Unitrust, locked), `wallet_transactions` | debit, credit, wallet to investment and back | read, compute in JavaScript, assign in a later transaction: lost updates | rows explain balances, never negative, the newest row shows the balance |
| withdrawals and payouts (`wallet`, `payouts`) | `payouts`, `momo_p2p_withdrawals` | withdraw, send, flush job, approve, cancel, refund, reroute, desk | status read before, written after, a transfer that takes seconds; crashes; lost replies | money leaves or comes back once; status tells which |
| MoMo desk, cash agents (`cash-agents`) | desk row, agent | take, confirm | two agents, cancellation while the desk is mailed | one agent per payout; a cancelled row stays closed |
| Flutterwave, NOWPayments (`flutterwave`, `payments`) | gateway ids, payment status | charge, transfer, notices | repeated, late and reordered notices | one credit per payment; a confirmed payment was paid and credited |
| deposits (`payments`, `wallet`) | `payments` | checkout, IPN, poll, minute job, confirm | three writers of one status, crash between status and credit; a job that takes 50 payments of seven days and walks them in one loop | as above; what arrived and has a place on the list is credited in the end |
| depositor plans (`wallet`, `platform`) | `depositor_plans`, `depositor_daily_credits` | create, daily job, complete | two instances of the job, weekends, day arithmetic | principal conserved, one credit per full day, plans end |
| loans (`loans`) | `loans` | request, review, approve, repay, clawback, withdrawal gate | check, money, status in three steps | paid out and collected as the status says; the advance is the limit |
| Smart Invest (`investor`) | `investorBalance`, `investor_settings`, daily credits, opt-outs, dates and switches in `platform_config` | enrol, move, minute job, Friday share, opt out, settle, pause, exempt | overlapping minute jobs, NULL dates, a day marked as delivered that was not, settlement from an old read | one credit per day, everyone eligible (paused, cooling and under-minimum investors are not) is served, capital comes back once |
| Unitrust (`unitrust`) | Unitrust balance, daily credits | enrol, monthly redeem, daily job | balances read before a long loop | as the ledger; one credit per day |
| Sunday batch, staff dispatch, Solo flush (`payouts`) | anchor, `finalizedAt`, slots | queue, cut, approve, finalise, dispatch, flush | restart, two instances, a batch that outlives its Sunday, payouts that always fail | cut once; what is due is sent |
| transfers and codes (`wallet`) | OTP sessions, `wallet_transfers` | request, guess, confirm | two confirmations of one code, guesses at once, expiry | a transfer happens once or never, the sum is conserved |
| reserve (`wallet`) | `reserveBalance` | seed, sweep, release | two columns from one read; seeding again | moves money and makes none but what seeding adds |
| account transfer (`account-transfer`) | `account_transfers`, user status | offer, agree, cancel, finalise | status checked before, written after; death between merger and record | money moves once, and only after agreement |
| vault (`blockchain`), Solo trading (`solo-mt5`), Airfarming | own tables | enrolment, daily profit, locks | jobs against user actions | as the ledger |
| copy trading, signals, MT5, Deriv | positions mirrored from a broker | poll, mirror, close | the truth is at the broker | not modelled |
| admin, auth, users, mail, AI, marketing | – | checks before, output after | – | not modelled |

**How they interact.** Handlers do not call each other concurrently by message; they share rows. All of them
reach the wallet through the same two-step pattern. The withdrawal handler reads the open loan, sends through
the payout service, and creates the MoMo row the desk works on. The gateways call back into payments and
payouts. The Sunday batch, the staff dispatch and the Solo flush decide when a payout is approved and leave the approval to the payout service. The
minute job of Smart Invest starts the Unitrust job when it has marked the day. An account transfer rewrites two wallets and takes away the right to log in
under the feet of transfers by code. Cron jobs of `platform-jobs` (Trade Guard) and `solo-platform-jobs` (Solo) call the same services as
requests do, without a lock, and the jobs are written to run on several instances (`investor-yield-schedule.service.ts:98`).

## 2. How handlers are modelled

Node runs one handler until it awaits; between two awaits of one handler any other may run, in the same process
or another. So a handler is a record that moves from step to step, and a step is one action: what lies between
two awaits that matter. Reads that nothing else can tell apart from the next one are merged. A Prisma
`$transaction` is one action (Read Committed; the one handler that relies on a row lock, the user's cancellation, keeps
the lock as a guard, `Unlocked`). Crashing is an action that removes a handler at any step.

* `HandlerPool` — running handlers (`tasks`), how they start, continue, return, die. `disturbed[row]` is a
  history variable: two handlers of the row overlapped, or one ended without recording money it had moved.
* `PlatformWallet` — `available`, the sum of the rows that move it, `balanceAfter` of the newest row, and the
  history variable `stale`: an assignment discarded a change made since its read. `INVESTOR_REINVEST_FEE` rows
  and the `ADJUSTMENT` rows of the loan clawback do not move `available` and are not part of `rowSum`.

Many properties hold **unless** handlers of the row overlapped (`~disturbed`) or a stale snapshot was written (`~stale`). They hold for every
interleaving, and they show that nothing but overlap can go wrong: no order of complete handlers, no crash in a place
that leaves a record, no gateway behaviour. What the excuses stand for is listed in section 4; three runs check a property
that excuses nothing, quoted from a message of the code, and refute it.

## 3. Modules

| module | models | state and actions |
|---|---|---|
| `WalletLedger` | `debitBalance`, `creditBalance`, `transferInvestment` | per call one read and one commit; amounts in cents, the reinvest fee rounded as the code does |
| `Withdrawals` | `executeDepositorWithdraw`, `flushPendingSoloWithdrawals`, `approveAndSendPayout`, `sendExternalWalletPayout`, `cancelPendingWithdrawalByUser`, `refundWalletWithdrawal`, `requestPayout`, desk, notices | one row is a payout and its desk row; `sends`, `refunds` count what left and came back; `transfer` is the state at Flutterwave |
| `Deposits` | IPN, charge notice, poll, minute job, visit of the wallet page, `confirmWalletDeposit` | `live` is what the gateway answers when asked, `notices` what it has ever told, `onChain` that the money arrived; `scan` is what a job or a visit has left of its list, `old` the payments past the seven days of the lists |
| `DepositorPlans` | `createPlanFromBalance`, `creditDailyEarnings`, `completePlan` | half days: `clock`, `age`; plans, job records per process, makers |
| `Loans` | `LoansService`, the withdrawal gate of the wallet, refunds, capital moves | rows are loans and users; `disbursed`, `collected`, `drawn`, `stripped` count what the rows show |
| `Unitrust` | `enrollFromWallet`, `redeem`, `creditDailyEarnings` of `UnitrustService` | `corpus` and its rows; `followers` are running daily jobs with the list of members they read |
| `SmartInvest` (extends `Unitrust`) | enrolment, `transferInvestment`, `creditDailyEarnings`, `YieldScheduleService`, `InvestorOptOutService`, the minute job | a calendar of days with three hours each; `scheduled` and `delivered` are date columns that may be `Null`; `minEnforced`, `exempt` and `Blocked` are the minimum balance; `runs` and `shares` are running jobs with what is left of their lists |
| `PayoutDispatch` | `SundayWithdrawBatchService`, `StaffPayoutDispatchService`, `flushPendingSoloWithdrawals` | hours of a week that repeats; per payout its status, share and slot; the batch is an anchor and a flag; both deployments (`app`) |
| `WalletTransfer` | `requestTransferOtp`, `confirmTransfer`, `requestWithdrawOtp`, `consumeWithdrawOtp`, the debit of a withdrawal | codes with usedAt, age and attempts; `spent` counts what a code moved, `transferred` is the sum of a user's transfer rows |
| `Reserve` | `seedWithdrawalReserves`, `sweepAvailableToReserve`, `releaseReserveToAvailable` | `reserve`; `minted` is what seeding adds beyond what it takes |
| `AccountTransfer` (extends both) | `AccountTransferService`; composition of the three | `acct` is the status, `merged` how often the wallets were merged |
| `TransferPromise` | – | the abstract transfer: open, then done or closed for good; `WalletTransfer` under `AccountTransfer` implements it |
| `Sums` | – | sums over rows, users and plans, for the books |
| `WalletLemmas` | – | lemmas about those sums and about a transaction on a wallet |
| `InvestorProofs`, `WithdrawalsProofs`, `DepositsProofs`, `DepositorPlansProofs`, `LoansProofs`, `PayoutDispatchProofs`, `AccountTransferProofs` | – | invariants, lemmas and theorems about the module each extends; `InvestorProofs` is about `SmartInvest` and `WalletLedger`, the two that model `transferInvestment` |
| `MC…` | – | owners, amounts, calendars and opening balances of the small instances |

`PlatformWallet` and `HandlerPool` are composed into `Withdrawals`, `Deposits`, `Loans`, `Unitrust` with `SmartInvest`, and `WalletTransfer` with `Reserve` in `AccountTransfer`; `DepositorPlans` and `WalletLedger`
use `PlatformWallet` with calls of their own shape. `PayoutDispatch` is about time and keeps no wallet: what sending does is in `Withdrawals`. What is external (the payer, the gateways, the calendar, the death of a process, the event loop) is marked
so in the map.

## 4. What the runs check

Passing runs (each name is a run in `PROJECT.json`):

* `wallet_ledger` — four calls on two wallets, one where they overlap and one where they are serialised. Four calls are
  two more than a lost update needs, so a third and fourth see its result. Fee 30 % of 1..3 cents makes rounding happen.
* `withdrawals_solo` — Solo, two payouts of one wallet, two handlers at a time, of which one may die at any step or lose the answer of
  the chain. Under fairness every pending crypto payout ends, deaths included.
* `withdrawals_guard` — Trade Guard: one payout with every other handler, two at a time: approvals on every channel, refunds, rerouting, two agents, callbacks, bounced
  transfers, crashes, lost replies. `MaxSends = 2` is the first number of transfers that is wrong.
* `deposits` — a crypto and a mobile-money payment to one wallet, two workers, each with a handler or with a list it walks; one of them
  dies or throws anywhere and for ever, one does not. Notices are a set that is never emptied, so they repeat and reorder. The list has room for one payment (50
  in the code), which the older mobile-money payment takes until it is decided or seven days old. Safety and, under fairness: crypto that arrived
  is credited once its payment has a place. Only the crypto payment is ever given up by the gateway (with both, checking liveness takes too long): that a mobile-money
  payment fails and is paid after all is covered by the theorems, which have no such restriction.
* `depositor_plans` — a week of half days round and round, so plans of three days cross weekends;
  two processes run the job, one may die in it, two requests may overlap. Under fairness every plan completes.
* `loans` — two loans in a row of one user and six handlers, enough to request, approve, draw, refund, repay
  and borrow again, or to approve, move capital and claw back twice. A clawback with nothing to strip writes the wallet back only to turn `autoReinvestEarnings` off
  (`loans.service.ts:566`); the model does not keep that setting, and lets such a clawback return or write.
* `smart_invest` — a Friday, a weekend and a Monday, two overlapping runs of each job, the Unitrust job behind them, two acts of users
  and admins at any time. Three days are what one delivery, one weekend without any and one settlement after the cooling need. The minimum balance is 150 cents:
  one user is above it and falls below it by redeeming, the other is below it and may be exempted or allocated more, and the switch may be turned off. The weekly
  share of one is positive, of the other zero.
* `payout_dispatch` — weeks of two Sunday hours and two others round and round, both deployments, two processes of which one may die, a payout that
  always fails, an operator. With a list of two, one stubborn payout leaves room and the property shows it is enough.
* `transfers` — two transfer codes, one withdrawal code, an account transfer and the reserve between two users, five handlers of any
  kind: enough to ask for a code, agree, finalise and confirm in any order, or to confirm a code four times.

**Refinement.** `PromiseKept` is `Promise!Spec` of `TransferPromise`, instantiated with `books <- transferred` and a phase computed from the code:
done when it has paid, closed when it was created and is no longer valid and no confirmation that found it valid is still on its way, open otherwise. A confirmation that
was read in time may finish after the code has expired; it is then completed, and never after it was closed. The second of two confirmations is stopped by the unique reference
alone, which the mutant of the run takes away.

Violation runs, one for each kind of disagreement met most often:

* `withdrawals_send_race` (*check, then act* on a row without a lock): the minute job and the request that made a payout both send it;
* `deposits_reverted` (*one handler at a time*, a status that does not remember enough): a late "expired" takes CONFIRMED back and the payment is credited again;
* `depositor_plans_four_days` (*arithmetic*): a plan of five days pays four.

**What the excuses stand for.** Where a property is excused, this is what the model does (and the code, at the line) when it is not.

| excuse | behaviour |
|---|---|
| `disturbed` in `SettledOnce`, `SettledIsFinal` | a payout sent twice (`payout.service.ts:580`), or cancelled and refunded while its transfer is under way and then marked PAID (`:585`); a transfer whose receipt times out is sent again (`:610`); a payout on the MoMo desk that is rerouted and paid by gateway and desk (`:135`), or PENDING again after it was cancelled (`:135`) |
| `"refund" \in Handlers` in `SettledOnce` | an admin's refund refuses only REJECTED payouts, so one that was PAID is credited back (`:843`); two admins at once credit it twice (`:848`) |
| `transfer = "bounced"` in `StatusTellsMoney` | a transfer that Flutterwave returns makes the payout REJECTED without a credit, and refused by the refund (`flutterwave-payments.service.ts:448`) |
| `disturbed` in `CancelledStaysClosed`, `OneAgentPerPayout` | a cancelled desk row is opened again after the e-mail (`wallet.service.ts:2547`); two agents both get the row (`:291`) |
| `Crowded` in `ArrivedIsCredited` | 50 older PENDING payments, unpaid invoices and mobile money among them, keep the minute job from a payment for up to seven days (`payments.service.ts:900`); an older one that throws in every run ends the loop before it (`:906`) |
| `p \in old` in `ArrivedIsCredited` | a payment of more than seven days is never listed again (`:897`): only a notice or a poll can credit it |
| `notices` in `ArrivedIsCredited` | a payment the gateway reported as failed or expired is FAILED or EXPIRED, and is never looked for on chain again, also when the money is there (`:934`) |
| `Abandoned` in `ArrivedIsCredited` | a handler died between the mark CONFIRMED and the credit (`wallet.service.ts:1364`) |
| `reverted`, `disturbed` in `CreditedOnce`, `CreditFollowsPayment` | a deposit credited twice by a notice and the job (`wallet.service.ts:1353`); CONFIRMED and never credited after a crash (`:1364`) |
| `overlapped` in `OnePlanAtATime`, `PlanBooks` | two active plans (`:1437`); the principal returned by two processes (`:1774`) |
| `disturbed` in the properties of `Loans` | principal paid out twice (`loans.service.ts:354`), paid out and cancelled (`:277`), collected twice (`:294`), a repeated approval resets what counts as moved since |
| `stale` in all books | lost updates of the wallet; for debits alone this lets the rows exceed what the wallet ever held, which the serialised wallet of `wallet_ledger` shows to need overlap |
| `Blocked`, paused, cooling in `Entitled` | whom the loop passes over on purpose (`investor.service.ts:1388`, `:1396`, `:1420`): nobody is owed a yield by these rules, and by nothing else may anybody go without |
| `sharesMet` in `PaidOnce` | two Friday jobs that list the same users each pay the weekly share: the only guard is the week noted when they were listed (`investor-opt-out.service.ts:393`) |
| `disturbed`, `adminAllocate` in `CapitalReturned` | a settlement that overlaps with a move of capital, or with another settlement (`:646`); an admin may put capital back while a user is cooling, where they can no longer redeem it (`investor.service.ts:1004`) |
| `finalized` in `DueIsSent` | a payout that joins a batch after it was finalised is cut by 9 % and waits until another batch is opened (`sunday-withdraw-batch.service.ts:118`) |
| `Crowded` in `DueIsSent` | as many stubborn payouts as the list is long keep the Solo flush from everything younger (`payout.service.ts:389`) |
| `disturbed` in `MoneyConserved` | two confirmations of one withdrawal code both pay (`wallet.service.ts:2067`) |
| `disturbed` in `AccountsFollow` | an agreement and a cancellation both pass (`account-transfer.service.ts:455`): the source is suspended for a cancelled transfer; two offers for one source; a death before COMPLETED, after which the merger is repeated (`:548`) |
| no excuse, and no property | a refunded withdrawal does not give the loan advance back (`payout.service.ts:864`: `advanced >= drawn`, not equal); every further run of the clawback strips the same gains again (`loans.service.ts:552`), as `BooksFollowLoans` shows by counting all of it; a capital move checked before an approval commits after it (`investor.service.ts:1014`); an enrolment fee is debited and the process dies before the membership is active (`investor.service.ts:536`); whoever enrols again keeps the pause of their yield (`:780`); a payout that an admin sends while a run of the queue holds it has its share cut on record afterwards (`sunday-withdraw-batch.service.ts:152`); seeding again after a full release (`wallet.service.ts:512`); a merger leaves Unitrust and reserve behind, counts the moved rows and its own `ADJUSTMENT` in the statement, and a transfer that was confirmed before it can still pay the banned account |

**Bounds.** `Workers` (for jobs `Processes`) is how many handlers run at once, `ListSize` and `VisitSize` the places of a list (of deposits 50 and 5 in the code; what is past a list's end is what matters, so one place and one more payment are enough), `Mortal` which of them may die, `Calls` and `MaxStarts` how many ever start, `MaxSends` and `MaxCredits`
how often money moves for one row; rows, agents, amounts are small sets; opening balances are a few cents so that the balance
checks fail sometimes. `PayoutDispatch` runs the queue on every hour of `OpenHours`: the code at this commit opens withdrawals on Wednesdays and Saturdays in Kampala only
(`withdraw-maintenance.ts:5`, a gate called temporary), so no withdrawal is requested on a UTC Sunday and the queue is empty; the model is of the days the gate leaves open, which are a constant. One tick per process and hour stands for the twelve of an hour. `PlanDays` is three in `depositor_plans`, which is enough for a plan to span a weekend, and five, as in the code, in `depositor_plans_four_days`. Counters of money have to be bounded by such a number because overlapping handlers
really can repeat a credit for ever. Symmetry is used over handlers, and over rows of one owner, in safety runs
only. `CHECK_DEADLOCK FALSE` is set because finite histories end: every row settled, or no call left.

**Fairness.** Weak fairness for the next step of a running handler: the event loop resumes settled promises.
Strong fairness for a cron job taking up a row that is due again and again: the timers of `@nestjs/schedule` keep firing, and a
request that holds the row in between does not stop them. In `withdrawals_solo` a transfer tried again and again by a process that does not keep dying succeeds once, which
is an assumption about the chain and the hot wallet's funds; without it nothing sends.
In `deposits` a worker's handler, or the loop it walks, goes on (weak fairness per worker). The timer reads a list again and again in a worker that does not
die (strong fairness of `MonitorLists` by workers outside `Mortal`, not per payment: which payments a list holds is the model's `Oldest`, and that the loop reaches each of them is the
weak fairness of its steps). Of the chain scan it is assumed that, made again and again by such a worker for money that is there, it finds it once: that is true of a
transfer of at least 99 % of the amount to the address of the payment, on a network with a configured scanner that answers now and then (`blockchain-scanner.service.ts:23`). A worker in `Mortal` stands for
processes that die as well as for loops that throw; one outside it for the minutes in which nothing throws. An exception is nothing rare: `findUsdtDeposit` returns the promise of its scan without awaiting it, so an unreachable chain API passes its own `catch` and ends the loop (`:34`). That there are minutes without one is an assumption: a payment that throws every time
would keep the younger ones waiting until it is seven days old, and is not modelled. The excuses of `ArrivedIsCredited` are where the code makes no promise; `Crowded` is read at the moment
the money is there and the payment has a place, and a place is never lost, because nothing becomes PENDING again.
In `depositor_plans` and `payout_dispatch` time passes, and one process (any that is not in `Mortal`) is up at each of its hours; deaths of the other are never
assumed to stop, and what it had begun is left to the next tick. `ServedByMidnight` of `smart_invest` needs no fairness: it is a
property of the step at midnight, which `Midnight` allows only when at least one run of that evening went through, out of the hundreds the timer starts.

**The minimum balance.** `creditDailyEarnings` passes over whoever has less than 750 USDT, from 2026-08-05 on, while `investorMinBalanceEnforced` is not false and unless the user is exempt
(`investor-min-balance.util.ts`). `Blocked` is that function, of `minEnforced`, `exempt`, `MinBalance` and `MinBalanceFrom`, a day of the calendar. The code compares with midnight in UTC, three hours into the day in
Kampala by which yields are kept; no delivery is due before the afternoon, so a day of the calendar is as exact. A run filters its list when it is read, with the switch the code
reads in the statement after (`:1376`); the list is the code's snapshot of balances, pauses and exemptions, and the switch is the same for the whole run.
An admin may switch or exempt by day, also while a run walks its list, so a run may pass over somebody who is entitled by midnight. That a later run of the evening
makes up for this is what `ServedByMidnight` says; with the day marked as delivered after the first run it is violated.

## 5. What is proved

Every invariant and every action property the passing runs check is also a theorem, for every value of the constants. A run shows a property on two users and two rows; the theorem says it of any number of
users, rows, workers, processes and amounts, of any opening balances, of every subset of the handlers, and with as
many deaths as there are.

| module | theorems (the property of the run each proves) |
|---|---|
| `InvestorProofs`, of `WalletLedger` | `TypeCorrect` (`LedgerTypeOK`), `BooksCorrect` (`BooksBalance`), `SerialisedCorrect` (`SerialisedBooksExact`); besides `StatementCorrect` (the newest row shows the balance) and `SerialisedNeverOverdrawn` |
| `InvestorProofs`, of `SmartInvest` | `InvestTyped`, `YieldBooksCorrect` (`YieldBooks`), `NobodyPaidTwice` (`PaidOnce`), `CapitalComesBack` (`CapitalReturned`); the action property `EntitledServed` (`ServedByMidnight`) |
| `WithdrawalsProofs` | `WithdrawalsTyped`, `StatusIsTrue` (`StatusTellsMoney`), `SettledAtMostOnce` (`SettledOnce`), `OneAgent` (`OneAgentPerPayout`), `RefundedAtMostOnce` (`RefundedOnce`), `PayoutBooks` (`BooksFollowPayouts`); the action properties `SettledStaysSettled` (`SettledIsFinal`), `CancelledIsFinal` (`CancelledStaysClosed`) |
| `DepositsProofs` | `DepositsTyped`, `CreditedAtMostOnce` (`CreditedOnce`), `CreditIsPaidFor` (`CreditFollowsPayment`), `DepositBooks` (`BooksFollowDeposits`) |
| `DepositorPlansProofs` | `PlansTyped`, `FullDays` (`FullDaysOnly`), `OneActivePlan` (`OnePlanAtATime`), `PlanBooksBalance` (`PlanBooks`) |
| `LoansProofs` | `LoansTyped`, `OneLoanOnly` (`OneLoanAtATime`), `LoanMoneyIsTrue` (`MoneyFollowsStatus`), `AdvanceLimits` (`AdvanceIsTheLimit`), `LoanBooks` (`BooksFollowLoans`) |
| `PayoutDispatchProofs` | `DispatchTyped`, `CutOnce` (`SharesKept`) |
| `AccountTransferProofs` | `AccountsTyped`, `StatusTellsMerger` (`AccountsFollow`), `MoneyIsConserved` (`MoneyConserved`), and the refinement `TransfersKeepPromise` (`PromiseKept`) |

**Assumptions.** Those the modules state about their constants, which TLC evaluates on every run, and nothing else; but `RefundedAtMostOnce`
also assumes `Solo` and `"request" \notin Handlers`, as in the run `withdrawals_solo`: in Trade Guard an admin's refund
credits twice (section 4), and `requestPayout` makes a cancelled payout pending again. What the proofs rely on beyond types: there are finitely many rows, plans, loans, codes and users where
the books sum over them; a row set made of two kinds of rows (loans and users, codes and accounts) has no element of both kinds; a payout's net amount is
at most its gross amount (`traderShare` is `virtualProfit` less the fee); the value for "no hour" is not a number. None restricts sizes.

**The argument.** No property is inductive alone, and nearly always for the same reason: a handler writes after an await what it made of
a row it read before it. So each proof adds to the property what a handler at each step still knows, and has one lemma per action, or per group of actions
that leave the same thing alone, under the step theorem.

* `WalletLedger`: `FlightInv`, a snapshot in flight covers its amount; `SerialInv`, with calls serialised it is equal to
  the wallet and alone on it. `Booked` describes a transaction of any kind.
* `SmartInvest`: one invariant, `InvestInv`, for the handlers and the three jobs at once.
  `Rowed`, `Handled` and `Listing` say what rows, handlers and lists hold: a handler writes at most what it read (`Covered`), a run holds a list of users and their capital. `PaidOnce` needs
  of the daily jobs the unique index alone; of the Friday job it needs `WeekKept`: until two of them met there is one list, and it holds nobody whose week is noted.
  `Orderly` carries the capital of an opt-out across days: an undisturbed user has one handler (`Alone`), what it read is still so (`Current`), and an opt-out that cools notes at least the
  capital there is (`Noted`), so its settlement takes all of it; an admin's redemption meanwhile only makes it less. `Untouched` carries this over to the users a step does not concern.
  `Night` is the argument for `ServedByMidnight`, the property that is furthest from inductive: each run of the evening serves everybody entitled, that is, with capital older than a day and neither paused, cooling nor under the minimum (`Serves`: paid already, or about to be, or still on its list
  with the capital they have), because requests and acts of admins, those that switch the minimum off or exempt somebody among them, are of the day (`ByDay`; who becomes entitled in the last minute before midnight is not claimed to be served) and settlements concern nobody entitled. A run that has gone through has therefore paid them all. It rests on the
  dates in `platform_config` staying NULL, so that nothing is ever marked as delivered: `Rowed` says so, and with the mark that works (the mutant of the property) the proof fails, as the run does.
* `WithdrawalsProofs`: `Covered` keeps a debit within the balance it was checked against. `Born` says that whoever creates a payout is alone
  on it and that others know its gross amount, and `Told` that a handler about to write PAID has sent, one about to write REJECTED has
  refunded: both hold under any overlap. `Fits` lists for an undisturbed payout what its row and its one handler agree on, step by step. `ClosedByRefund` is the argument
  for Solo: the claim under the row lock makes the release exclusive and the refund final. `Elsewhere` and
  `Framed` carry all of it over to the payouts a step does not touch.
* `DepositsProofs`: the lists decide only who looks at a payment, and every fact is about payments and handlers. `Arrived` ties every step that leads to a credit to money on chain; `Confirmed` has a CONFIRMED payment credited, or
  a handler between the mark and the credit; `Credits` makes the status decide, as long as it was never overwritten.
* `DepositorPlansProofs`: `Earned` ties a credited day to the age of the plan, `Listed` what a job may still assume of its list to the clock
  that does not move while it runs; `Alone` keeps the check of a request true until its transaction.
* `LoansProofs`: `Formed` and `Known` say what a handler holds and that nobody else has the row it creates; `LoanFits` has the counts of
  money agree with the status *and* the handler that has yet to record it; `OneLoan` and `Drawn` do it for the loan and the counter of the withdrawal gate.
* `PayoutDispatchProofs`: `ShareFits`, what has no hour is not cut; `Fits`, a run about to write holds the uncut shares of
  everything left in its list. Two runs with one list then write the same numbers, which is why overlap cuts nothing twice.
* `AccountTransferProofs`: `HandlerInv` (what each write relies on), `CodeInv` (a request is alone on its code; a code of a transfer pays once, by the unique reference, a
  withdrawal's unless handlers overlapped) and `SourceInv` (`Merged`, `Found`: status, merger and suspended account agree). For
  the refinement each step is shown to leave a transfer's phase as it is, or to be the one of `TransferPromise`: `Shuts` covers all that can end the validity of a
  code (use, guesses, age, a newer code, the status of a user), and a confirmation on its way keeps the phase open.

**Books.** The books of several rows are sums. `SumOver` is the fold of the community modules, a recursive function on subsets; `WalletLemmas` proves that a
sum changes by what one term changes (`SumOverChange`, `SumOverMoves`), that a term may be taken out (`SumOverElement`) and that natural terms have a natural sum (`SumOverNat`). An
induction principle over a predicate cannot be instantiated by the provers, so each of these proofs takes a minimal counterexample
instead: a nonempty set of subsets of a finite set has a minimal element (`MinimalSubset`, from well-foundedness, `WFMin`), and the sum unfolds
once there. A transaction on a wallet is described once (`AssignAndPost`), with the condition under which it was not stale as a parameter.

For the proofs the modules were made more explicit, and no action was made to do more or less: what was meant of constants (finitely many rows, disjoint kinds of
rows, net within gross) is now part of their assumptions, type invariants include the running handlers and jobs, the books use one definition of a sum, and the lists of `PayoutDispatch`
are chosen from the set of ordered lists, which has one member, instead of computed by a recursive operator.

**Only model-checked.** Liveness: `CryptoEventuallySettles`, `ArrivedIsCredited`, `DueIsSent` and `PlansComplete` rest on fairness, and with it on `ENABLED`, which are outside the
prover's reach. The three refutations are counterexamples and need no proof.

## 6. Not modelled, and the plan

Not modelled by choice: access control, quoting and fees inside the gross amount (they do not move the wallet again), e-mail and chat output, pages,
broker mirroring (the state is the broker's), gas and nonces of the hot wallet, the tables an account transfer moves besides the wallet. Most of the code by
lines is of these kinds: pages, notifications, the AI assistant, signals and broker adapters.

Next, in this order:

1. Daily auto-withdrawals and the PIN as further starters of `Withdrawals`; trader rewards.
2. Enrolment through the gateway and VIP memberships, between `Deposits` and `SmartInvest`.
3. `ChainVault`, Solo trader allocation, Airfarming.
