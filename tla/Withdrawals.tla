------------------------------ MODULE Withdrawals ------------------------------
(***************************************************************************)
(* A wallet withdrawal, from the debit to the money leaving or coming back: *)
(* WalletService.executeDepositorWithdraw, the payout handlers of          *)
(* PayoutService, the mobile-money (MoMo) P2P desk and the callbacks of    *)
(* the payment gateways.                                                   *)
(*                                                                         *)
(* The wallet is debited when the payout row is created; from then on the  *)
(* row's status decides whether the money is still owed.  The handlers     *)
(* read the status, await the chain, a gateway, a rate quote or an e-mail, *)
(* and write the status afterwards, almost always without checking it      *)
(* again.  A handler is a record in "tasks" while it is running; "at" is   *)
(* the step it is about to take.                                           *)
(*                                                                         *)
(* Scope: payouts with source DEPOSITOR, of users with no open loan (the   *)
(* loan gate then reads null and writes nothing).  Fees are a part of the  *)
(* gross amount and do not move the wallet again.                          *)
(***************************************************************************)
EXTENDS PlatformWallet, HandlerPool, FiniteSets, Sums

CONSTANTS
    Owner,        \* [Rows -> Users]; a row is a withdrawal and its payout
    Mortal,       \* handlers whose process may die, or lose the answer to a send
    Agents,       \* cash agents
    NoAgent,
    Amounts,      \* gross amounts in cents
    Routes,       \* the saved wallets a user may withdraw to
    Solo,         \* isSoloApp()
    MomoChannels, \* how MoMo off the desk goes out: by "flutterwave" while it
                  \* is configured, by "hand" while it is not
    Handlers,     \* what happens in this deployment, from AllHandlers
    MaxSends      \* bound: transfers made for one payout

\* "bep20" is what a Solo withdrawal pays to, "trc20" what the NOWPayments
\* gateway of Trade Guard and PayoutService.requestPayout work with.
AllRoutes == {"bep20", "trc20", "momo"}
AllHandlers == {"flush", "approve", "cancel", "refund", "request", "ipn", "agents",
                "complete", "crash", "lostReply"}

ASSUME WithdrawAssumption ==
    /\ IsFiniteSet(Rows)
    /\ Owner \in [Rows -> Users]
    /\ Mortal \subseteq Workers
    /\ Amounts \subseteq Nat \ {0}
    /\ Routes \subseteq AllRoutes
    /\ Handlers \subseteq AllHandlers
    /\ Solo \in BOOLEAN
    /\ MomoChannels \subseteq {"flutterwave", "hand"}
    /\ NoAgent \notin Agents
    /\ MaxSends \in Nat

VARIABLES
    status,     \* payout.status, "none" before the row exists
    gross,      \* payout.virtualProfit
    route,      \* payout.payoutMethod and walletAddress
    gateway,    \* payout.gatewayPayoutId is a NOWPayments id
    momo,       \* momoP2pWithdrawal.status, "none" before the row exists
    agent,      \* momoP2pWithdrawal.agentId
    claimedBy,  \* agents whose claim of the MoMo payout was answered with success
    transfer,   \* the Flutterwave transfer of this payout, at Flutterwave
    sends,      \* how many times the money left: chain, gateway, cash desk
    refunds     \* refund_<payoutId> rows

\* disturbed, in this module: two handlers of the payout overlapped, one ended
\* without recording the money it moved, or the payout was paid or rerouted
\* elsewhere although the MoMo desk had it.

payoutVars == <<status, gross, route, gateway>>
deskVars == <<momo, agent, claimedBy>>
outVars == <<transfer, sends, refunds>>
vars == <<walletVars, payoutVars, deskVars, outVars, taskVars>>

Statuses == {"none", "PENDING", "APPROVED", "PAID", "REJECTED"}
Steps == {"debit", "approve", "quote", "email", "dispatch", "markPaid", "markApproved",
          "claim", "release", "readWallet", "credit", "reject", "reopen", "take",
          "complete"}
Task == [worker: Workers, p: Rows, at: Steps, amount: Nat, route: AllRoutes,
         seen: Nat, agent: Agents \cup {NoAgent}]

\* The type invariant; in particular the wallet never goes below zero.
TypeOK ==
    /\ WalletTypeOK
    /\ status \in [Rows -> Statuses]
    /\ gross \in [Rows -> Nat]
    /\ route \in [Rows -> AllRoutes]
    /\ gateway \in [Rows -> BOOLEAN]
    /\ momo \in [Rows -> {"none", "INITIATED", "UNDER_PROCESS", "COMPLETED", "CANCELLED"}]
    /\ agent \in [Rows -> Agents \cup {NoAgent}]
    /\ claimedBy \in [Rows -> SUBSET Agents]
    /\ transfer \in [Rows -> {"none", "sent", "delivered", "bounced"}]
    /\ sends \in [Rows -> Nat]
    /\ refunds \in [Rows -> Nat]
    /\ tasks \subseteq Task
    /\ disturbed \in [Rows -> BOOLEAN]

Init ==
    /\ WalletInit
    /\ status = [p \in Rows |-> "none"]
    /\ gross = [p \in Rows |-> 0]
    /\ route = [p \in Rows |-> "bep20"]
    /\ gateway = [p \in Rows |-> FALSE]
    /\ momo = [p \in Rows |-> "none"]
    /\ agent = [p \in Rows |-> NoAgent]
    /\ claimedBy = [p \in Rows |-> {}]
    /\ transfer = [p \in Rows |-> "none"]
    /\ sends = [p \in Rows |-> 0]
    /\ refunds = [p \in Rows |-> 0]
    /\ tasks = {}
    /\ disturbed = [p \in Rows |-> FALSE]

-----------------------------------------------------------------------------
TaskOn(w, p, step) ==
    [worker |-> w, p |-> p, at |-> step, amount |-> gross[p], route |-> route[p],
     seen |-> 0, agent |-> NoAgent]

Start(w, p, step) == StartWith(TaskOn(w, p, step))

\* The cancelling transaction holds the payout's row lock from its updateMany
\* to its commit; until then any other UPDATE of the row waits.
Unlocked(p) == \A t \in tasks : ~(t.p = p /\ t.at = "release")

SetStatus(p, s) ==
    /\ Unlocked(p)
    /\ status' = [status EXCEPT ![p] = s]
    /\ UNCHANGED <<gross, route>>

OneMoreSend(p) ==
    /\ sends[p] < MaxSends
    /\ sends' = [sends EXCEPT ![p] = @ + 1]
    /\ UNCHANGED <<transfer, refunds>>

\* withdraw-maintenance.ts: 40 % of the balance, in cents, rounded.
MaintenanceCap(balance) == (balance * 40 + 50) \div 100

-----------------------------------------------------------------------------
(* WalletService.executeDepositorWithdraw *)

\* The checks, up to the transaction: sufficient funds, and the maintenance
\* cap on Trade Guard.
WithdrawReads(w, p) ==
    LET balance == available[Owner[p]] IN
    /\ status[p] = "none" /\ ~Running(p)
    /\ \E a \in Amounts, r \in Routes :
         /\ a <= balance
         /\ ~Solo => a <= MaintenanceCap(balance)
         /\ StartWith([TaskOn(w, p, "debit") EXCEPT
                         !.amount = a, !.route = r, !.seen = balance])
    /\ UNCHANGED <<walletVars, payoutVars, deskVars, outVars>>

\* A fee on top of what was checked against the balance.
WithdrawCommitsFeeOnTop(t) ==
    LET u == Owner[t.p] IN
    /\ At(t, "debit")
    /\ AssignAndPost(u, t.seen, -(t.amount + 1), t.seen = available[u])
    /\ status' = [status EXCEPT ![t.p] = "PENDING"]
    /\ gross' = [gross EXCEPT ![t.p] = t.amount]
    /\ route' = [route EXCEPT ![t.p] = t.route]
    /\ Move(t, IF t.route = "momo" THEN "quote" ELSE "approve")
    /\ UNCHANGED <<gateway, deskVars, outVars>>

\* The transaction debits the wallet and creates the PENDING payout.  Solo
\* goes on to send crypto at once (sendViaNowpayments); Trade Guard leaves it
\* to an admin, as INSTANT_WITHDRAW_SAFETY_HOLD_ENABLED is set.
WithdrawCommits(t) ==
    LET u == Owner[t.p] IN
    /\ At(t, "debit")
    /\ AssignAndPost(u, t.seen, -t.amount, t.seen = available[u])
    /\ status' = [status EXCEPT ![t.p] = "PENDING"]
    /\ gross' = [gross EXCEPT ![t.p] = t.amount]
    /\ route' = [route EXCEPT ![t.p] = t.route]
    /\ \/ t.route = "momo" /\ Move(t, "quote")
       \/ t.route # "momo" /\ Solo /\ Move(t, "approve")
       \/ t.route # "momo" /\ ~Solo /\ Return(t)
    /\ UNCHANGED <<gateway, deskVars, outVars>>

\* quoteUsdtToUgx throws: the payout stays PENDING and has no desk row.
MomoQuoteFails(t) ==
    /\ At(t, "quote")
    /\ Return(t)
    /\ UNCHANGED <<walletVars, payoutVars, deskVars, outVars>>

MomoP2pCreated(t) ==
    /\ At(t, "quote")
    /\ Move(t, "email")
    /\ momo' = [momo EXCEPT ![t.p] = "INITIATED"]
    /\ UNCHANGED <<walletVars, payoutVars, agent, claimedBy, outVars>>

\* After the e-mail to the desk the row is UNDER_PROCESS, whatever it was.
MomoEmailed(t) ==
    /\ At(t, "email")
    /\ Return(t)
    /\ momo' = [momo EXCEPT ![t.p] = "UNDER_PROCESS"]
    /\ UNCHANGED <<walletVars, payoutVars, agent, claimedBy, outVars>>

-----------------------------------------------------------------------------
(* PayoutService.approveAndSendPayout and sendExternalWalletPayout *)

\* A flush whose filter on the method is inverted.
FlushPicksInverted(w, p) ==
    /\ Solo /\ status[p] = "PENDING" /\ route[p] = "momo"
    /\ Start(w, p, "approve")
    /\ UNCHANGED <<walletVars, payoutVars, deskVars, outVars>>

\* flushPendingSoloWithdrawals, once a minute: lists PENDING crypto payouts.
FlushPicks(w, p) ==
    /\ Solo /\ status[p] = "PENDING" /\ route[p] # "momo"
    /\ Start(w, p, "approve")
    /\ UNCHANGED <<walletVars, payoutVars, deskVars, outVars>>

\* An approval without "alreadyProcessed".
AdminApprovesAny(w, p) ==
    /\ ~Solo /\ status[p] # "none"
    /\ Start(w, p, "dispatch")
    /\ UNCHANGED <<walletVars, payoutVars, deskVars, outVars>>

\* An admin's approval, or the VIP assistant's, which adds checks of its own.
AdminApproves(w, p) ==
    /\ ~Solo /\ status[p] = "PENDING"
    /\ Start(w, p, "dispatch")
    /\ UNCHANGED <<walletVars, payoutVars, deskVars, outVars>>

\* approveAndSendPayout reads the row again; what it read is what it sends by.
ApproveReads(t) ==
    /\ At(t, "approve")
    /\ \/ /\ status[t.p] = "PENDING"
          /\ Continue(t, [t EXCEPT !.at = "dispatch", !.route = route[t.p]])
       \/ status[t.p] # "PENDING" /\ Return(t)
    /\ UNCHANGED <<walletVars, payoutVars, deskVars, outVars>>

\* Settlement "external": the admin has sent the money by other means.  The
\* MoMo desk is not told.
SettleExternally(t) ==
    /\ At(t, "dispatch") /\ ~Solo
    /\ SetStatus(t.p, "PAID")
    /\ OneMoreSend(t.p)
    /\ IF momo[t.p] = "none" THEN Return(t) ELSE LoseTrack(t)
    /\ UNCHANGED <<walletVars, gateway, deskVars>>

\* The send throws or is refused, before any money moved; or the payout is on
\* the MoMo desk, and there is nothing for this handler to send.
SendFails(t) ==
    /\ At(t, "dispatch")
    /\ Return(t)
    /\ UNCHANGED <<walletVars, payoutVars, deskVars, outVars>>

OffDesk(t) == t.route = "momo" /\ momo[t.p] = "none"

PayMomoByHand(t) ==
    /\ At(t, "dispatch") /\ OffDesk(t) /\ "hand" \in MomoChannels
    /\ SetStatus(t.p, "PAID")
    /\ OneMoreSend(t.p)
    /\ Return(t)
    /\ UNCHANGED <<walletVars, gateway, deskVars>>

\* Flutterwave takes one transfer per reference, which is the payout's id.
QueueTransfer(t) ==
    /\ At(t, "dispatch") /\ OffDesk(t) /\ "flutterwave" \in MomoChannels
    /\ transfer[t.p] = "none"
    /\ transfer' = [transfer EXCEPT ![t.p] = "sent"]
    /\ UNCHANGED <<walletVars, payoutVars, deskVars, sends, refunds>>

\* binanceWeb3.sendUsdt refuses an address that is not BEP20.
ChainSends(t) ==
    /\ At(t, "dispatch") /\ Solo /\ t.route = "bep20"
    /\ OneMoreSend(t.p)
    /\ UNCHANGED <<walletVars, payoutVars, deskVars>>

\* nowPayments.createPayout.
GatewayQueues(t) ==
    /\ At(t, "dispatch") /\ ~Solo /\ t.route # "momo"
    /\ OneMoreSend(t.p)
    /\ UNCHANGED <<walletVars, payoutVars, deskVars>>

Dispatch(t) ==
    \/ ChainSends(t) /\ Move(t, "markPaid")
    \/ (QueueTransfer(t) \/ GatewayQueues(t)) /\ Move(t, "markApproved")

\* The money moves and the call throws all the same: a receipt that times out,
\* an answer that is lost.  The handler reports a failed send.
ReplyLost(t) ==
    /\ ChainSends(t) \/ QueueTransfer(t) \/ GatewayQueues(t)
    /\ LoseTrack(t)

\* The hash is stored and the status forgotten.
MarkPaidHashOnly(t) ==
    /\ At(t, "markPaid") /\ Unlocked(t.p)
    /\ Return(t)
    /\ UNCHANGED <<walletVars, payoutVars, deskVars, outVars>>

MarkPaid(t) ==
    /\ At(t, "markPaid")
    /\ SetStatus(t.p, "PAID")
    /\ Return(t)
    /\ UNCHANGED <<walletVars, gateway, deskVars, outVars>>

\* The gateway's id is stored and the status forgotten.
MarkApprovedIdOnly(t) ==
    /\ At(t, "markApproved") /\ Unlocked(t.p)
    /\ gateway' = [gateway EXCEPT ![t.p] = t.route # "momo"]
    /\ Return(t)
    /\ UNCHANGED <<walletVars, status, gross, route, deskVars, outVars>>

MarkApproved(t) ==
    /\ At(t, "markApproved")
    /\ SetStatus(t.p, "APPROVED")
    /\ gateway' = [gateway EXCEPT ![t.p] = t.route # "momo"]
    /\ Return(t)
    /\ UNCHANGED <<walletVars, deskVars, outVars>>

-----------------------------------------------------------------------------
(* PayoutService.cancelPendingWithdrawalByUser *)

CancelReads(w, p) ==
    /\ Solo /\ status[p] = "PENDING" /\ refunds[p] = 0
    /\ Start(w, p, "claim")
    /\ UNCHANGED <<walletVars, payoutVars, deskVars, outVars>>

\* A claim whose WHERE clause has lost the status.
CancelClaimsAnyStatus(t) ==
    /\ At(t, "claim") /\ Unlocked(t.p)
    /\ Continue(t, [t EXCEPT !.at = "release", !.seen = available[Owner[t.p]]])
    /\ UNCHANGED <<walletVars, payoutVars, deskVars, outVars>>

\* The transaction's updateMany re-checks PENDING and locks the row, or finds
\* no row and throws; the wallet is read under the lock.
CancelClaims(t) ==
    /\ At(t, "claim") /\ Unlocked(t.p)
    /\ \/ /\ status[t.p] = "PENDING"
          /\ Continue(t, [t EXCEPT !.at = "release", !.seen = available[Owner[t.p]]])
       \/ status[t.p] # "PENDING" /\ Return(t)
    /\ UNCHANGED <<walletVars, payoutVars, deskVars, outVars>>

\* A cancellation that returns the amount net of a fee of one cent.
CancelCommitsNet(t) ==
    LET u == Owner[t.p] IN
    /\ At(t, "release")
    /\ AssignAndPost(u, t.seen, t.amount - 1, t.seen = available[u])
    /\ status' = [status EXCEPT ![t.p] = "REJECTED"]
    /\ refunds' = [refunds EXCEPT ![t.p] = @ + 1]
    /\ Return(t)
    /\ UNCHANGED <<gross, route, gateway, deskVars, transfer, sends>>

\* The rest of the transaction, and its commit.
CancelCommits(t) ==
    LET u == Owner[t.p] IN
    /\ At(t, "release")
    /\ AssignAndPost(u, t.seen, t.amount, t.seen = available[u])
    /\ status' = [status EXCEPT ![t.p] = "REJECTED"]
    /\ refunds' = [refunds EXCEPT ![t.p] = @ + 1]
    /\ momo' = IF momo[t.p] \in {"INITIATED", "UNDER_PROCESS"}
               THEN [momo EXCEPT ![t.p] = "CANCELLED"] ELSE momo
    /\ Return(t)
    /\ UNCHANGED <<gross, route, gateway, agent, claimedBy, transfer, sends>>

-----------------------------------------------------------------------------
(* PayoutService.refundWalletWithdrawal, called by an admin *)

RefundReads(w, p) ==
    /\ ~Solo /\ status[p] \notin {"none", "REJECTED"} /\ refunds[p] = 0
    /\ Start(w, p, "readWallet")
    /\ UNCHANGED <<walletVars, payoutVars, deskVars, outVars>>

RefundReadsWallet(t) ==
    /\ At(t, "readWallet")
    /\ Continue(t, [t EXCEPT !.at = "credit", !.seen = available[Owner[t.p]]])
    /\ UNCHANGED <<walletVars, payoutVars, deskVars, outVars>>

\* creditBalance: the wallet and the row refund_<payoutId>.
RefundCredits(t) ==
    LET u == Owner[t.p] IN
    /\ At(t, "credit")
    /\ AssignAndPost(u, t.seen, t.amount, t.seen = available[u])
    /\ refunds' = [refunds EXCEPT ![t.p] = @ + 1]
    /\ Move(t, "reject")
    /\ UNCHANGED <<payoutVars, deskVars, transfer, sends>>

RefundRejects(t) ==
    /\ At(t, "reject")
    /\ SetStatus(t.p, "REJECTED")
    /\ Return(t)
    /\ UNCHANGED <<walletVars, gateway, deskVars, outVars>>

-----------------------------------------------------------------------------
(* PayoutService.requestPayout: the user names another destination *)

RequestReads(w, p) ==
    /\ status[p] = "PENDING"
    /\ \E r \in {"trc20", "momo"} :
         StartWith([TaskOn(w, p, "reopen") EXCEPT !.route = r])
    /\ UNCHANGED <<walletVars, payoutVars, deskVars, outVars>>

RequestReopens(t) ==
    /\ At(t, "reopen") /\ Unlocked(t.p)
    /\ status' = [status EXCEPT ![t.p] = "PENDING"]
    /\ route' = [route EXCEPT ![t.p] = t.route]
    /\ IF momo[t.p] # "none" /\ t.route # "momo" THEN LoseTrack(t) ELSE Return(t)
    /\ UNCHANGED <<walletVars, gross, gateway, deskVars, outVars>>

-----------------------------------------------------------------------------
(* The MoMo desk: claimMomoP2pForAgent and completeMomoP2p *)

\* A desk that does not know CANCELLED.
DeskNotCompleted(p) == momo[p] \notin {"none", "COMPLETED"}

DeskOpen(p) == momo[p] \in {"INITIATED", "UNDER_PROCESS"}

\* A desk that asks only whether this agent has the row already.
FreeForAnyone(p, g) == agent[p] # g

FreeFor(p, g) == agent[p] \in {NoAgent, g}

TakeReads(w, p, g) ==
    /\ ~Solo /\ DeskOpen(p) /\ FreeFor(p, g)
    /\ StartWith([TaskOn(w, p, "take") EXCEPT !.agent = g])
    /\ UNCHANGED <<walletVars, payoutVars, deskVars, outVars>>

TakeCommits(t) ==
    /\ At(t, "take")
    /\ agent' = [agent EXCEPT ![t.p] = t.agent]
    /\ momo' = [momo EXCEPT ![t.p] = "UNDER_PROCESS"]
    /\ claimedBy' = [claimedBy EXCEPT ![t.p] = @ \cup {t.agent}]
    /\ Return(t)
    /\ UNCHANGED <<walletVars, payoutVars, outVars>>

\* An agent confirms with proof, or (NoAgent) the user or an admin confirms
\* and writes back the agent the row had.
CompleteReads(w, p, g) ==
    /\ DeskOpen(p)
    /\ \/ g = NoAgent /\ StartWith([TaskOn(w, p, "complete") EXCEPT !.agent = agent[p]])
       \/ /\ g # NoAgent /\ ~Solo /\ FreeFor(p, g)
          /\ StartWith([TaskOn(w, p, "complete") EXCEPT !.agent = g])
    /\ UNCHANGED <<walletVars, payoutVars, deskVars, outVars>>

\* A confirmation stands for money that reached the user, once for one desk
\* row that was not COMPLETED before.
CompleteCommits(t) ==
    /\ At(t, "complete")
    /\ SetStatus(t.p, "PAID")
    /\ momo' = [momo EXCEPT ![t.p] = "COMPLETED"]
    /\ agent' = [agent EXCEPT ![t.p] = t.agent]
    /\ IF momo[t.p] = "COMPLETED" THEN UNCHANGED outVars ELSE OneMoreSend(t.p)
    /\ Return(t)
    /\ UNCHANGED <<walletVars, gateway, claimedBy>>

-----------------------------------------------------------------------------
(* The gateways, and the process itself *)

\* A callback runs at once; it overlaps with whatever handler is running.
Callback(p, s) ==
    /\ SetStatus(p, s)
    /\ disturbed' = [disturbed EXCEPT ![p] = @ \/ Running(p)]
    /\ UNCHANGED <<walletVars, gateway, deskVars, outVars, tasks>>

\* handlePayoutIpn finds the payout by its gateway id.
PayoutIpn(p) == gateway[p] /\ Callback(p, "PAID")

\* At Flutterwave (not code of this repository) a transfer arrives or fails.
FlutterwaveSettles(p) ==
    /\ transfer[p] = "sent"
    /\ \/ /\ transfer' = [transfer EXCEPT ![p] = "delivered"]
          /\ sends' = [sends EXCEPT ![p] = @ + 1]
       \/ /\ transfer' = [transfer EXCEPT ![p] = "bounced"]
          /\ UNCHANGED sends
    /\ UNCHANGED <<walletVars, payoutVars, deskVars, refunds, taskVars>>

\* A webhook that takes a transfer still under way for a failed one.
TransferWebhookHasty(p) ==
    \/ transfer[p] = "delivered" /\ Callback(p, "PAID")
    \/ transfer[p] \in {"sent", "bounced"} /\ Callback(p, "REJECTED")

\* handleTransferWebhook finds the payout by the reference; it may be repeated.
TransferWebhook(p) ==
    \/ transfer[p] = "delivered" /\ Callback(p, "PAID")
    \/ transfer[p] = "bounced" /\ Callback(p, "REJECTED")

\* The process dies: an open transaction rolls back, what was committed stays.
Crash(t) ==
    /\ IF t.at \in {"markPaid", "markApproved", "reject"} THEN LoseTrack(t) ELSE Return(t)
    /\ UNCHANGED <<walletVars, payoutVars, deskVars, outVars>>

-----------------------------------------------------------------------------
On(h) == h \in Handlers

\* A request, a click, a cron tick: a handler starts on worker w.
Starts(w, p) ==
    \/ WithdrawReads(w, p)
    \/ On("flush") /\ FlushPicks(w, p)
    \/ On("approve") /\ AdminApproves(w, p)
    \/ On("cancel") /\ CancelReads(w, p)
    \/ On("refund") /\ RefundReads(w, p)
    \/ On("request") /\ RequestReads(w, p)
    \/ On("agents") /\ \E g \in Agents : TakeReads(w, p, g)
    \/ On("complete") /\ \E g \in Agents \cup {NoAgent} : CompleteReads(w, p, g)

WithdrawSteps(t) ==
    WithdrawCommits(t) \/ MomoQuoteFails(t) \/ MomoP2pCreated(t) \/ MomoEmailed(t)

SendSteps(t) ==
    \/ ApproveReads(t) \/ SettleExternally(t) \/ SendFails(t) \/ PayMomoByHand(t)
    \/ Dispatch(t) \/ MarkPaid(t) \/ MarkApproved(t)

OtherSteps(t) ==
    \/ CancelClaims(t) \/ CancelCommits(t)
    \/ RefundReadsWallet(t) \/ RefundCredits(t) \/ RefundRejects(t)
    \/ RequestReopens(t) \/ TakeCommits(t) \/ CompleteCommits(t)

Continues(t) == WithdrawSteps(t) \/ SendSteps(t) \/ OtherSteps(t)

Fails(t) ==
    /\ t.worker \in Mortal
    /\ \/ On("lostReply") /\ ReplyLost(t)
       \/ On("crash") /\ Crash(t)

Outside(p) ==
    \/ On("ipn") /\ PayoutIpn(p)
    \/ FlutterwaveSettles(p) \/ TransferWebhook(p)

Next ==
    \/ \E w \in Workers, p \in Rows : Starts(w, p)
    \/ \E t \in tasks : Continues(t) \/ Fails(t)
    \/ \E p \in Rows : Outside(p)

Spec == Init /\ [][Next]_vars

\* Fairness: a handler that runs goes on (the event loop, and a database that
\* serves everyone who waits for a row lock); the cron job comes back every
\* minute and takes up each payout again and again, and a send that is tried
\* again and again succeeds, at least in a process that does not keep dying.
FairSpec ==
    /\ Spec
    /\ \A w \in Workers : SF_vars(\E t \in tasks : t.worker = w /\ Continues(t))
    /\ \A p \in Rows :
         /\ SF_vars(\E w \in Workers \ Mortal : FlushPicks(w, p))
         /\ SF_vars(\E t \in tasks : t.p = p /\ t.worker \notin Mortal /\ Dispatch(t))

-----------------------------------------------------------------------------
\* A withdrawal is refunded at most once, however handlers interleave.  So it is
\* in Solo, where a cancellation claims the payout before it credits, as long as
\* requestPayout does not turn a cancelled payout PENDING again.
RefundedOnce == \A p \in Rows : refunds[p] <= 1

\* A payout that says APPROVED or PAID had money sent for it, and one that says
\* REJECTED had its money put back into the wallet, or Flutterwave returned the
\* transfer: whatever handlers overlap, die or lose an answer.
StatusTellsMoney ==
    \A p \in Rows :
        /\ status[p] = "PAID" => sends[p] >= 1
        /\ status[p] = "APPROVED" => sends[p] >= 1 \/ transfer[p] # "none"
        /\ status[p] = "REJECTED" => refunds[p] >= 1 \/ transfer[p] = "bounced"

\* One withdrawal moves money once, unless handlers of the payout overlapped or
\* lost track: it is not sent twice, not refunded twice and, but for an admin's
\* refund of what was sent, not both.
SettledOnce ==
    \A p \in Rows : ~disturbed[p] =>
        /\ sends[p] <= 1 /\ refunds[p] <= 1
        /\ sends[p] + refunds[p] <= 1 \/ "refund" \in Handlers

\* With nothing excused, "alreadyProcessed": money leaves once for a payout.
NeverSentTwice == \A p \in Rows : sends[p] <= 1

\* What a payout has taken out of the wallet, less what came back.
net == [p \in Rows |-> gross[p] - refunds[p] * gross[p]]

\* Unless a write of the wallet was computed from a stale snapshot, the balance
\* is the opening balance less every payout's gross plus every refund of it.
BooksFollowPayouts ==
    \A u \in Users : ~stale[u] =>
        available[u] = Opening[u] - SumOver(net, {p \in Rows : Owner[p] = u})

\* A payout that is PAID or REJECTED stays what it is, unless handlers of it
\* overlapped or an admin refunds it: the refund rejects a PAID payout, and the
\* gateway's callback may still mark a refunded one PAID.
SettledIsFinal ==
    [][\A p \in Rows :
         /\ status[p] \in {"PAID", "REJECTED"} /\ ~disturbed'[p]
         /\ Solo \/ refunds[p] = 0
         => status'[p] = status[p]]_vars

\* A withdrawal the user cancelled stays closed on the MoMo desk, unless
\* handlers of it overlapped.
CancelledStaysClosed ==
    [][\A p \in Rows : momo[p] = "CANCELLED" /\ ~disturbed'[p] => momo'[p] = "CANCELLED"]_vars

\* At most one cash agent is told that the payout is theirs to pay, unless
\* handlers of it overlapped.
OneAgentPerPayout ==
    \A p \in Rows : ~disturbed[p] => Cardinality(claimedBy[p]) <= 1

\* In Solo every pending crypto payout is eventually marked sent or cancelled,
\* with no admin involved, whatever dies on the way; unless so many answers were
\* lost that the bound on sends is reached.
CryptoEventuallySettles ==
    \A p \in Rows :
        (status[p] = "PENDING" /\ route[p] = "bep20")
            ~> (status[p] \in {"PAID", "REJECTED"} \/ sends[p] = MaxSends)

=============================================================================
