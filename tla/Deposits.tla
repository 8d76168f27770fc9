------------------------------- MODULE Deposits -------------------------------
(***************************************************************************)
(* A wallet deposit, from the payment row to the credit of the wallet:     *)
(* PaymentsService (IPN, the minute job, the user's own poll),             *)
(* FlutterwavePaymentsService (webhook and poll) and                       *)
(* WalletService.confirmWalletDeposit.                                     *)
(*                                                                         *)
(* The payment gateway decides what a payment is worth and tells it as     *)
(* often as it likes.  All that stands between a payment and a second      *)
(* credit is that confirmWalletDeposit reads the status before it writes   *)
(* CONFIRMED and, in a later transaction, credits the wallet.              *)
(*                                                                         *)
(* Scope: payments with purpose wallet_deposit and no riskPercent.         *)
(***************************************************************************)
EXTENDS PlatformWallet, HandlerPool, FiniteSets, Sums

CONSTANTS
    Owner,       \* [Rows -> Users]; a row is a payment
    Amount,      \* [Rows -> Nat \ {0}], in cents
    Flutterwave, \* the rows paid by mobile money; the others by NOWPayments
    Created,     \* [Rows -> Nat]: the order of their createdAt
    ListSize,    \* how many payments the minute job takes at once (50)
    VisitSize,   \* how many a visit to the wallet page takes (5)
    MayExpire,   \* the rows the gateway may report "failed" or "expired"
    Mortal,      \* the workers whose handlers die, or throw
    MaxCredits   \* bound: after so many credits a payment is not heard of again

ASSUME DepositAssumption ==
    /\ IsFiniteSet(Rows)
    /\ Owner \in [Rows -> Users]
    /\ Amount \in [Rows -> Nat \ {0}]
    /\ Flutterwave \subseteq Rows
    /\ Created \in [Rows -> Nat]
    /\ \A p, q \in Rows : Created[p] = Created[q] => p = q
    /\ ListSize \in Nat \ {0} /\ VisitSize \in Nat \ {0}
    /\ MayExpire \subseteq Rows /\ Mortal \subseteq Workers
    /\ MaxCredits \in Nat

VARIABLES
    status,    \* payment.status
    live,      \* what the gateway answers when it is asked
    notices,   \* what the gateway has ever told in an IPN; it may repeat it
    onChain,   \* the user's money has arrived
    credits,   \* DEPOSITOR_DEPOSIT rows with this referenceId
    reverted,  \* history: the payment was CONFIRMED and was overwritten
    old,       \* the payments created more than 7 days ago
    scan       \* per worker, what is left of the list its loop walks

gatewayVars == <<live, notices, onChain>>
scanVars == <<old, scan>>
vars == <<walletVars, taskVars, status, gatewayVars, credits, reverted, scanVars>>

Task == [worker: Workers, p: Rows, seen: Nat,
         at: {"ask", "askUser", "askUserConfirmed", "check", "mark", "wallet", "credit",
              "FAILED", "EXPIRED"}]

\* The type invariant.
TypeOK ==
    /\ WalletTypeOK
    /\ status \in [Rows -> {"PENDING", "CONFIRMED", "FAILED", "EXPIRED"}]
    /\ live \in [Rows -> {"waiting", "paid", "failed", "expired"}]
    /\ notices \in [Rows -> SUBSET {"paid", "failed", "expired"}]
    /\ onChain \in [Rows -> BOOLEAN]
    /\ credits \in [Rows -> Nat]
    /\ reverted \in [Rows -> BOOLEAN]
    /\ old \subseteq Rows
    /\ scan \in [Workers -> SUBSET Rows]
    /\ tasks \subseteq Task
    /\ disturbed \in [Rows -> BOOLEAN]

Init ==
    /\ WalletInit
    /\ status = [p \in Rows |-> "PENDING"]
    /\ live = [p \in Rows |-> "waiting"]
    /\ notices = [p \in Rows |-> {}]
    /\ onChain = [p \in Rows |-> FALSE]
    /\ credits = [p \in Rows |-> 0]
    /\ reverted = [p \in Rows |-> FALSE]
    /\ old = {}
    /\ scan = [w \in Workers |-> {}]
    /\ tasks = {}
    /\ disturbed = [p \in Rows |-> FALSE]

Handler(w, p, step) == [worker |-> w, p |-> p, seen |-> 0, at |-> step]

\* A worker between two rows of a list is taken.  MaxCredits bounds how often a
\* payment is heard of again.
Start(w, p, step) ==
    /\ scan[w] = {} /\ credits[p] < MaxCredits
    /\ StartWith(Handler(w, p, step))

-----------------------------------------------------------------------------
(* The user and the gateway (not code of this repository) *)

UserPays(p) ==
    /\ ~onChain[p]
    /\ onChain' = [onChain EXCEPT ![p] = TRUE]
    /\ UNCHANGED <<walletVars, taskVars, status, live, notices, credits, reverted, scanVars>>

\* How a payment is given up: mobile money has no "expired".
GivesUp(p) == IF p \in Flutterwave THEN "failed" ELSE "expired"

\* A payment that was given up may still be paid; on chain, a transfer the
\* gateway considers too small or too late is there all the same.
GatewayDecides(p) ==
    /\ \E verdict \in {"paid", "failed", GivesUp(p)} :
         /\ verdict = "paid" => onChain[p] /\ live[p] \in {"waiting", GivesUp(p)}
         /\ verdict # "paid" => p \in MayExpire /\ live[p] = "waiting"
         /\ live' = [live EXCEPT ![p] = verdict]
         /\ notices' = [notices EXCEPT ![p] = @ \cup {verdict}]
    /\ UNCHANGED <<walletVars, taskVars, status, onChain, credits, reverted, scanVars>>

\* The seventh day of a payment ends; the older ones are past theirs.
GrowsOld(p) ==
    /\ p \notin old
    /\ \A q \in Rows : Created[q] < Created[p] => q \in old
    /\ old' = old \cup {p}
    /\ UNCHANGED <<walletVars, taskVars, status, gatewayVars, credits, reverted, scan>>

-----------------------------------------------------------------------------
(* Ways to learn of it *)

\* The step a verdict leads to: confirm, or overwrite the status.
Verdict(v) ==
    CASE v = "paid" -> "check"
      [] v = "failed" -> "FAILED"
      [] v = "expired" -> "EXPIRED"

\* PaymentsService.handleIpn: believes the notice, which may be old or repeated.
Ipn(w, p) ==
    /\ p \notin Flutterwave
    /\ \E v \in notices[p] : Start(w, p, Verdict(v))
    /\ UNCHANGED <<walletVars, status, gatewayVars, credits, reverted, scanVars>>

\* handleChargeWebhook asks the gateway again, whose answer is among what it told;
\* without an answer, or an id to ask for, it believes the notice.
ChargeWebhook(w, p) ==
    /\ p \in Flutterwave
    /\ \E v \in notices[p] : Start(w, p, Verdict(v))
    /\ UNCHANGED <<walletVars, status, gatewayVars, credits, reverted, scanVars>>

\* What a list may hold: mobile money takes its places too.
Listable == {p \in Rows \ old : status[p] = "PENDING"}

\* The n oldest and the n newest of a set of payments.
Oldest(n, S) == {p \in S : Cardinality({q \in S : Created[q] < Created[p]}) < n}
Newest(n, S) == {p \in S : Cardinality({q \in S : Created[q] > Created[p]}) < n}

\* A list is read, to be walked in one loop.
Lists(w, list) ==
    /\ scan[w] = {} /\ list # {}
    /\ \A t \in tasks : t.worker # w
    /\ scan' = [scan EXCEPT ![w] = list]
    /\ UNCHANGED <<walletVars, taskVars, status, gatewayVars, credits, reverted, old>>

\* A minute job that takes the payments from before the cutoff.
MonitorListsOld(w) == Lists(w, Oldest(ListSize, {p \in old : status[p] = "PENDING"}))

\* syncAllPendingCryptoPayments, every minute.
MonitorLists(w) == Lists(w, Oldest(ListSize, Listable))

\* syncUserPendingWalletDeposits, when the user opens the wallet page.
VisitLists(w, u) == Lists(w, Newest(VisitSize, {p \in Listable : Owner[p] = u}))

\* syncPendingCryptoPayment reads the next payment of the list, for which it does
\* nothing unless it is a crypto payment and still PENDING.
MonitorReads(w, p) ==
    /\ p \in scan[w] /\ \A t \in tasks : t.worker # w
    /\ scan' = [scan EXCEPT ![w] = @ \ {p}]
    /\ IF p \notin Flutterwave /\ status[p] = "PENDING"
         THEN StartWith(Handler(w, p, "ask"))
         ELSE UNCHANGED taskVars
    /\ UNCHANGED <<walletVars, status, gatewayVars, credits, reverted, old>>

\* The chain scan finds the transfer.
ChainMatches(t) ==
    /\ At(t, "ask") /\ onChain[t.p]
    /\ Move(t, "check")
    /\ UNCHANGED <<walletVars, status, gatewayVars, credits, reverted, scanVars>>

\* Its question to the gateway; when that decides nothing, or fails, the chain
\* scan, which finds the transfer or, for want of an answer too, nothing.
MonitorAsks(t) ==
    \/ ChainMatches(t)
    \/ /\ At(t, "ask")
       /\ \/ live[t.p] # "waiting" /\ Move(t, Verdict(live[t.p]))
          \/ Return(t)
       /\ UNCHANGED <<walletVars, status, gatewayVars, credits, reverted, scanVars>>

\* getPaymentStatus, from the user's browser; for a mobile-money payment it is
\* syncPaymentById, which asks only about payments that are not CONFIRMED.
UserPolls(w, p) ==
    /\ p \in Flutterwave => status[p] # "CONFIRMED"
    /\ Start(w, p, IF status[p] = "CONFIRMED" THEN "askUserConfirmed" ELSE "askUser")
    /\ UNCHANGED <<walletVars, status, gatewayVars, credits, reverted, scanVars>>

\* It acts on the answer; on none, or one that changes nothing, it returns.
UserPollAsks(t) ==
    /\ \/ At(t, "askUser") /\ live[t.p] # "waiting" /\ Move(t, Verdict(live[t.p]))
       \/ /\ At(t, "askUserConfirmed") /\ live[t.p] \in {"failed", "expired"}
          /\ Move(t, Verdict(live[t.p]))
       \/ (At(t, "askUser") \/ At(t, "askUserConfirmed")) /\ Return(t)
    /\ UNCHANGED <<walletVars, status, gatewayVars, credits, reverted, scanVars>>

-----------------------------------------------------------------------------
(* What they do about it *)

\* The failed and expired branches of all of them: an update by id.
Overwrite(t) ==
    /\ \E s \in {"FAILED", "EXPIRED"} :
         /\ At(t, s)
         /\ status' = [status EXCEPT ![t.p] = s]
    /\ reverted' = [reverted EXCEPT ![t.p] = @ \/ status[t.p] = "CONFIRMED"]
    /\ Return(t)
    /\ UNCHANGED <<walletVars, gatewayVars, credits, scanVars>>

\* A confirmation that has lost "alreadyConfirmed".
CheckNothing(t) ==
    /\ At(t, "check")
    /\ Move(t, "mark")
    /\ UNCHANGED <<walletVars, status, gatewayVars, credits, reverted, scanVars>>

\* confirmWalletDeposit reads the payment ("alreadyConfirmed") ...
Check(t) ==
    /\ At(t, "check")
    /\ IF status[t.p] = "CONFIRMED" THEN Return(t) ELSE Move(t, "mark")
    /\ UNCHANGED <<walletVars, status, gatewayVars, credits, reverted, scanVars>>

\* A mark that stores the gateway's word for it.
MarkRaw(t) ==
    /\ At(t, "mark")
    /\ status' = [status EXCEPT ![t.p] = live[t.p]]
    /\ Move(t, "wallet")
    /\ UNCHANGED <<walletVars, gatewayVars, credits, reverted, scanVars>>

\* A mark after which the handler returns when the user is not a depositor yet.
MarkAndReturn(t) ==
    /\ At(t, "mark")
    /\ status' = [status EXCEPT ![t.p] = "CONFIRMED"]
    /\ IF credits[t.p] = 0 THEN Return(t) ELSE Move(t, "wallet")
    /\ UNCHANGED <<walletVars, gatewayVars, credits, reverted, scanVars>>

\* ... marks it, by id ...
Mark(t) ==
    /\ At(t, "mark")
    /\ status' = [status EXCEPT ![t.p] = "CONFIRMED"]
    /\ Move(t, "wallet")
    /\ UNCHANGED <<walletVars, gatewayVars, credits, reverted, scanVars>>

\* ... reads the wallet, and the user's depositorActive ...
ReadWallet(t) ==
    /\ At(t, "wallet")
    /\ Continue(t, [t EXCEPT !.at = "credit", !.seen = available[Owner[t.p]]])
    /\ UNCHANGED <<walletVars, status, gatewayVars, credits, reverted, scanVars>>

\* The credit and its row in two statements, the row's lost by a bug.
CreditWithoutRow(t) ==
    LET u == Owner[t.p] IN
    /\ At(t, "credit")
    /\ available' = [available EXCEPT ![u] = t.seen + Amount[t.p]]
    /\ balanceAfter' = [balanceAfter EXCEPT ![u] = t.seen + Amount[t.p]]
    /\ stale' = [stale EXCEPT ![u] = @ \/ t.seen # available[u]]
    /\ Return(t)
    /\ UNCHANGED <<rowSum, status, gatewayVars, credits, reverted, scanVars>>

\* ... and credits it in one transaction with the row.
Credit(t) ==
    LET u == Owner[t.p] IN
    /\ At(t, "credit")
    /\ AssignAndPost(u, t.seen, Amount[t.p], t.seen = available[u])
    /\ credits' = [credits EXCEPT ![t.p] = @ + 1]
    /\ Return(t)
    /\ UNCHANGED <<status, gatewayVars, reverted, scanVars>>

\* A handler dies or throws, and with it the loop it belongs to, unless the throw
\* is caught; the chain scan that follows then is one the next list makes as well.
\* Between the mark and the credit it has lost the credit.
Crash(t) ==
    /\ t \in tasks /\ t.worker \in Mortal
    /\ IF t.at \in {"wallet", "credit"} THEN LoseTrack(t) ELSE Return(t)
    /\ scan' \in {scan, [scan EXCEPT ![t.worker] = {}]}
    /\ UNCHANGED <<walletVars, status, gatewayVars, credits, reverted, old>>

\* A loop dies, or throws, as it reads the next payment.
ScanCrash(w) ==
    /\ w \in Mortal /\ scan[w] # {} /\ \A t \in tasks : t.worker # w
    /\ scan' = [scan EXCEPT ![w] = {}]
    /\ UNCHANGED <<walletVars, taskVars, status, gatewayVars, credits, reverted, old>>

-----------------------------------------------------------------------------
Learns(w, p) == Ipn(w, p) \/ ChargeWebhook(w, p) \/ MonitorReads(w, p) \/ UserPolls(w, p)

Acts(t) ==
    \/ MonitorAsks(t) \/ UserPollAsks(t) \/ Overwrite(t)
    \/ Check(t) \/ Mark(t) \/ ReadWallet(t) \/ Credit(t)

Scans(w) == MonitorLists(w) \/ ScanCrash(w) \/ \E u \in Users : VisitLists(w, u)

Next ==
    \/ \E p \in Rows : UserPays(p) \/ GatewayDecides(p) \/ GrowsOld(p)
    \/ \E w \in Workers, p \in Rows : Learns(w, p)
    \/ \E w \in Workers : Scans(w)
    \/ \E t \in tasks : Acts(t) \/ Crash(t)

Spec == Init /\ [][Next]_vars

\* Fairness: a running handler or loop goes on, and the timer of the minute job
\* keeps firing in a process that stays up and finds time for its loops.  Of the
\* chain: a scan that such a process makes again and again for money that is there
\* finds it once.
FairSpec ==
    /\ Spec
    /\ \A w \in Workers :
         WF_vars(\/ \E t \in tasks : t.worker = w /\ Acts(t)
                 \/ \E p \in Rows : MonitorReads(w, p))
    /\ SF_vars(\E w \in Workers \ Mortal : MonitorLists(w))
    /\ \A p \in Rows \ Flutterwave :
            SF_vars(\E t \in tasks : t.p = p /\ t.worker \notin Mortal /\ ChainMatches(t))

-----------------------------------------------------------------------------
\* A payment is credited once, unless its handlers overlapped or a CONFIRMED
\* status was overwritten.
CreditedOnce ==
    \A p \in Rows : ~disturbed[p] /\ ~reverted[p] => credits[p] <= 1

\* The same with nothing excused, "alreadyConfirmed".
NeverCreditedTwice == \A p \in Rows : credits[p] <= 1

\* Nothing is credited or CONFIRMED, or on its way to be, unless the money
\* arrived; and a CONFIRMED payment no handler works on has been credited, unless
\* its handlers overlapped or one died before the credit.
CreditFollowsPayment ==
    /\ \A t \in tasks : t.at \in {"check", "mark", "wallet", "credit"} => onChain[t.p]
    /\ \A p \in Rows :
         /\ credits[p] > 0 \/ status[p] = "CONFIRMED" => onChain[p]
         /\ status[p] = "CONFIRMED" /\ ~Running(p) /\ ~disturbed[p] => credits[p] >= 1

\* What a payment has put into the wallet.
credited == [p \in Rows |-> credits[p] * Amount[p]]

\* Unless a write of the wallet was computed from a stale snapshot, the balance
\* is the opening balance plus every credited payment.
BooksFollowDeposits ==
    \A u \in Users : ~stale[u] =>
        /\ available[u] = Opening[u] + rowSum[u]
        /\ rowSum[u] = SumOver(credited, {p \in Rows : Owner[p] = u})

\* Older payments take every place of the list.  The crowd only shrinks: no payment
\* becomes PENDING again, or younger.
Crowded(p) == Cardinality({q \in Listable : Created[q] < Created[p]}) >= ListSize

\* CONFIRMED, and no handler is about to credit it.
Abandoned(p) ==
    /\ status[p] = "CONFIRMED"
    /\ \A t \in tasks : t.p = p => t.at \notin {"wallet", "credit"}

\* What the minute job is for: whatever dies, crypto that arrived is eventually
\* credited if its payment has a place on the list, unless it grows old first, the
\* gateway has given it up, or a handler died between the mark and the credit.
ArrivedIsCredited ==
    \A p \in Rows \ Flutterwave :
        onChain[p] /\ ~Crowded(p) ~>
            \/ credits[p] >= 1
            \/ p \in old
            \/ notices[p] \cap {"failed", "expired"} # {}
            \/ Mortal # {} /\ Abandoned(p)

=============================================================================
