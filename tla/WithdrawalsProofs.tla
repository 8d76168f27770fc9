--------------------------- MODULE WithdrawalsProofs ---------------------------
(***************************************************************************)
(* Proofs about Withdrawals, for any set of users, payouts, agents and     *)
(* workers, any amounts and opening balances, any set of handlers and      *)
(* either guard (Solo or not).                                             *)
(*                                                                         *)
(* The invariants are stated per payout, over the handlers at work on it.  *)
(* A step works on one payout: Elsewhere says that it leaves the others    *)
(* alone, Framed that their invariants are then kept, and one lemma per    *)
(* group of actions looks at the payout itself.                            *)
(***************************************************************************)
EXTENDS Withdrawals, WalletLemmas

\* A handler about to debit a wallet has seen enough money in it, and one that
\* takes a payout for an agent knows the agent.
Prepared(t) ==
    /\ t.at = "debit" => t.amount <= t.seen
    /\ t.at = "take" => t.agent \in Agents

\* That is what keeps every debit within the balance it was checked against.
Covered == \A t \in tasks : Prepared(t)

\* The handlers at work on a payout.
Handling(p) == {t \in tasks : t.p = p}

\* A payout whose row does not exist yet has no history, and the only handler
\* that works on it is the one about to create it; every other handler knows
\* the payout's gross amount, which never changes.
Unborn(p) ==
    /\ gross[p] = 0 /\ refunds[p] = 0 /\ sends[p] = 0
    /\ transfer[p] = "none" /\ momo[p] = "none" /\ ~gateway[p]
    /\ agent[p] = NoAgent /\ claimedBy[p] = {}

Born(p) ==
    /\ status[p] = "none" => Unborn(p)
    /\ \A t \in Handling(p) :
         /\ t.at = "debit" => status[p] = "none" /\ Handling(p) = {t}
         /\ t.at # "debit" => status[p] # "none" /\ t.amount = gross[p]

\* What the parts of a payout, and the step a handler is at, tell about money
\* that moved; nothing of it is undone by a handler that overlaps.
Told(p) ==
    /\ status[p] = "PAID" => sends[p] >= 1
    /\ status[p] = "APPROVED" => sends[p] >= 1 \/ transfer[p] # "none"
    /\ status[p] = "REJECTED" => refunds[p] >= 1 \/ transfer[p] = "bounced"
    /\ transfer[p] = "delivered" \/ gateway[p] \/ momo[p] = "COMPLETED" => sends[p] >= 1
    /\ \A t \in Handling(p) :
         /\ t.at = "markPaid" => sends[p] >= 1
         /\ t.at = "markApproved" =>
              IF t.route = "momo" THEN transfer[p] # "none" ELSE sends[p] >= 1
         /\ t.at = "reject" => refunds[p] >= 1

\* In Solo, without requestPayout, a refund closes its payout for good.
ClosedByRefund(p) ==
    /\ refunds[p] <= 1
    /\ refunds[p] = 1 => status[p] \notin {"none", "PENDING"}
    /\ \A t \in Handling(p) :
         /\ t.at \notin {"readWallet", "credit", "reject", "reopen"}
         /\ t.at = "release" =>
              /\ status[p] = "PENDING" /\ refunds[p] = 0
              /\ \A s \in Handling(p) : s.at = "release" => s = t

-----------------------------------------------------------------------------
\* Money of a payout that left, or is on its way.
Out(p) == sends[p] + (IF transfer[p] = "sent" THEN 1 ELSE 0)

AtRest(p) == \A t \in Handling(p) : t.at \notin {"markPaid", "markApproved", "reject"}

\* What holds of a payout whose handlers did not overlap or lose track ...
RowFits(p) ==
    /\ Out(p) <= 1 /\ refunds[p] <= 1
    /\ "refund" \in Handlers \/ Out(p) + refunds[p] <= 1
    /\ status[p] = "PENDING" /\ AtRest(p) =>
         Out(p) = 0 /\ refunds[p] = 0 /\ transfer[p] = "none"
    /\ gateway[p] => status[p] \notin {"none", "PENDING"} /\ transfer[p] = "none"
    /\ status[p] = "PAID" => transfer[p] \in {"none", "delivered"}
    /\ status[p] = "REJECTED" =>
         \/ ~gateway[p] /\ transfer[p] \in {"none", "bounced"}
         \/ refunds[p] = 1 /\ ~Solo
    /\ DeskOpen(p) =>
         /\ Out(p) = 0 /\ transfer[p] = "none"
         /\ status[p] = "PENDING" \/ (refunds[p] = 1 /\ ~Solo)
         /\ "refund" \in Handlers \/ refunds[p] = 0
    /\ momo[p] # "none" => route[p] = "momo"
    /\ claimedBy[p] \subseteq {agent[p]} \ {NoAgent}

\* ... and of the one handler that works on it.
HandlerFits(t, p) ==
    /\ t.at = "quote" => momo[p] = "none"
    /\ t.at \in {"email", "take", "complete"} => DeskOpen(p)
    /\ t.at \in {"quote", "email"} => route[p] = "momo"
    /\ t.at = "dispatch" => t.route = route[p]
    /\ t.at \in {"quote", "email", "dispatch", "markPaid", "markApproved", "release", "reopen"} =>
         status[p] = "PENDING"
    /\ t.at = "markPaid" => transfer[p] = "none"
    /\ t.at = "markApproved" => (t.route = "momo" <=> transfer[p] # "none")
    /\ t.at = "markApproved" => momo[p] = "none" \/ t.route # "momo"
    /\ t.at \in {"readWallet", "credit", "reject"} =>
         /\ "refund" \in Handlers /\ ~Solo
         /\ refunds[p] = (IF t.at = "reject" THEN 1 ELSE 0)
    /\ t.at = "take" => t.agent # NoAgent
    /\ t.at \in {"take", "complete"} => agent[p] \in {NoAgent, t.agent}

Fits(p) ==
    /\ RowFits(p)
    /\ \A t \in Handling(p) : HandlerFits(t, p) /\ Handling(p) = {t}

Undisturbed(p) == ~disturbed[p] => Fits(p)

PayoutInv == \A p \in Rows : Born(p) /\ Told(p) /\ Undisturbed(p)

-----------------------------------------------------------------------------
\* The rows of a wallet are the rows of its owner's payouts.
Mine(u) == {p \in Rows : Owner[p] = u}

BooksInv ==
    \A u \in Users :
        /\ rowSum[u] = 0 - SumOver(net, Mine(u))
        /\ RowsExplain(u)

-----------------------------------------------------------------------------
\* The type invariant in two parts, of the rows and of the handlers.
PoolTyped == tasks \subseteq Task /\ disturbed \in [Rows -> BOOLEAN] /\ Covered

TypeInv == TypeOK /\ Covered

RowsTyped ==
    /\ WalletTypeOK
    /\ status \in [Rows -> Statuses]
    /\ gross \in [Rows -> Nat]
    /\ route \in [Rows -> AllRoutes]
    /\ gateway \in [Rows -> BOOLEAN]
    /\ momo \in [Rows -> {"none", "INITIATED", "UNDER_PROCESS", "COMPLETED", "CANCELLED"}]
    /\ agent \in [Rows -> Agents \cup {NoAgent}]
    /\ claimedBy \in [Rows -> SUBSET Agents]
    /\ transfer \in [Rows -> {"none", "sent", "delivered", "bounced"}]
    /\ sends \in [Rows -> Nat]
    /\ refunds \in [Rows -> Nat]

\* Together they are all of it.
LEMMA TypeParts == TypeInv <=> RowsTyped /\ PoolTyped
BY DEF TypeInv, TypeOK, RowsTyped, PoolTyped

\* A handler that goes on, ends or starts leaves well-typed handlers.
LEMMA Moved ==
    ASSUME PoolTyped, NEW t \in Task, NEW u \in Task, u.at \notin {"debit", "take"}, Continue(t, u)
    PROVE  PoolTyped'
BY DEF PoolTyped, Covered, Prepared, Continue

\* The same of one that ends.
LEMMA Ended ==
    ASSUME PoolTyped, NEW t \in Task, Return(t) \/ LoseTrack(t)
    PROVE  PoolTyped'
<1>1. CASE Return(t)
  BY <1>1 DEF PoolTyped, Covered, Return
<1>2. CASE LoseTrack(t)
  BY <1>2 DEF PoolTyped, Covered, LoseTrack
<1> QED
  BY <1>1, <1>2

\* The same of one that starts.
LEMMA Started ==
    ASSUME PoolTyped, NEW t \in Task, Prepared(t), StartWith(t)
    PROVE  PoolTyped'
<1>1. disturbed' \in [Rows -> BOOLEAN]
  BY DEF PoolTyped, StartWith, Running
<1> QED
  BY <1>1 DEF PoolTyped, Covered, StartWith

\* A handler at another step.
LEMMA AtStep ==
    ASSUME NEW t \in Task, NEW s \in Steps
    PROVE  /\ [t EXCEPT !.at = s] \in Task
           /\ [t EXCEPT !.at = s].at = s
BY DEF Task

\* The step of every handler leaves well-typed rows and well-typed handlers.
LEMMA WithdrawTyped ==
    ASSUME RowsTyped, PoolTyped, NEW t \in tasks, WithdrawSteps(t)
    PROVE  RowsTyped' /\ PoolTyped'
<1> USE WithdrawAssumption DEF RowsTyped, WalletTypeOK, walletVars, payoutVars, deskVars, outVars
<1> t \in Task /\ t.p \in Rows /\ Owner[t.p] \in Users
  BY DEF Task, PoolTyped
<1>1. CASE WithdrawCommits(t)
  <2>1. t.seen + -t.amount \in Nat
    BY <1>1 DEF WithdrawCommits, Task, PoolTyped, Covered, Prepared, At
  <2>2. PoolTyped'
    BY <1>1, AtStep, Moved, Ended DEF WithdrawCommits, Move, Steps
  <2>3. RowsTyped'
    BY <1>1, <2>1 DEF WithdrawCommits, AssignAndPost, Task, Statuses
  <2> QED
    BY <2>2, <2>3
<1>2. CASE MomoQuoteFails(t)
  BY <1>2, Ended DEF MomoQuoteFails
<1>3. CASE MomoP2pCreated(t)
  BY <1>3, AtStep, Moved DEF MomoP2pCreated, Move, Steps
<1>4. CASE MomoEmailed(t)
  BY <1>4, Ended DEF MomoEmailed
<1> QED
  BY <1>1, <1>2, <1>3, <1>4 DEF WithdrawSteps

\* The same of an approval and of what it sends.
LEMMA SendTyped ==
    ASSUME RowsTyped, PoolTyped, NEW t \in tasks, SendSteps(t) \/ ReplyLost(t)
    PROVE  RowsTyped' /\ PoolTyped'
<1> USE WithdrawAssumption
    DEF RowsTyped, WalletTypeOK, SetStatus, OneMoreSend, Statuses, walletVars, payoutVars,
         deskVars, outVars
<1> t \in Task /\ t.p \in Rows
  BY DEF Task, PoolTyped
<1>1. CASE ApproveReads(t)
  <2>1. [t EXCEPT !.at = "dispatch", !.route = route[t.p]] \in Task
    BY DEF Task, Steps
  <2>2. [t EXCEPT !.at = "dispatch", !.route = route[t.p]].at = "dispatch"
    BY DEF Task
  <2> QED
    BY <1>1, <2>1, <2>2, Moved, Ended DEF ApproveReads
<1>2. CASE SettleExternally(t)
  BY <1>2, Ended DEF SettleExternally
<1>3. CASE SendFails(t)
  BY <1>3, Ended DEF SendFails
<1>4. CASE PayMomoByHand(t)
  BY <1>4, Ended DEF PayMomoByHand
<1>5. CASE ChainSends(t) /\ (Move(t, "markPaid") \/ LoseTrack(t))
  <2>1. PoolTyped'
    BY <1>5, AtStep, Moved, Ended DEF Move, Steps
  <2>2. RowsTyped'
    BY <1>5 DEF ChainSends
  <2> QED
    BY <2>1, <2>2
<1>6. CASE QueueTransfer(t) /\ (Move(t, "markApproved") \/ LoseTrack(t))
  <2>1. PoolTyped'
    BY <1>6, AtStep, Moved, Ended DEF Move, Steps
  <2>2. RowsTyped'
    BY <1>6 DEF QueueTransfer
  <2> QED
    BY <2>1, <2>2
<1>7. CASE GatewayQueues(t) /\ (Move(t, "markApproved") \/ LoseTrack(t))
  <2>1. PoolTyped'
    BY <1>7, AtStep, Moved, Ended DEF Move, Steps
  <2>2. RowsTyped'
    BY <1>7 DEF GatewayQueues
  <2> QED
    BY <2>1, <2>2
<1>8. CASE MarkPaid(t)
  BY <1>8, Ended DEF MarkPaid
<1>9. CASE MarkApproved(t)
  BY <1>9, Ended DEF MarkApproved
<1> QED
  BY ONLY SendSteps(t) \/ ReplyLost(t), <1>1, <1>2, <1>3, <1>4, <1>5, <1>6, <1>7, <1>8, <1>9, Zenon
     DEF SendSteps, Dispatch, ReplyLost

\* The same of cancellations, refunds, requests, the agents' desk and crashes.
LEMMA OtherTyped ==
    ASSUME RowsTyped, PoolTyped, NEW t \in tasks, OtherSteps(t) \/ Crash(t)
    PROVE  RowsTyped' /\ PoolTyped'
<1> USE WithdrawAssumption
    DEF RowsTyped, WalletTypeOK, SetStatus, OneMoreSend, Statuses, walletVars, payoutVars,
         deskVars, outVars
<1> t \in Task /\ t.p \in Rows /\ Owner[t.p] \in Users
  BY DEF Task, PoolTyped
<1>1. ASSUME NEW s \in Steps
      PROVE  /\ [t EXCEPT !.at = s, !.seen = available[Owner[t.p]]] \in Task
             /\ [t EXCEPT !.at = s, !.seen = available[Owner[t.p]]].at = s
  BY DEF Task
<1>2. CASE CancelClaims(t)
  BY <1>1, <1>2, Moved, Ended DEF CancelClaims, Steps
<1>3. CASE CancelCommits(t)
  <2>1. t.seen + t.amount \in Nat /\ t.amount \in Nat
    BY DEF Task
  <2> QED
    BY <1>3, <2>1, Ended DEF CancelCommits, AssignAndPost
<1>4. CASE RefundReadsWallet(t)
  BY <1>1, <1>4, Moved DEF RefundReadsWallet, Steps
<1>5. CASE RefundCredits(t)
  <2>1. t.seen + t.amount \in Nat /\ t.amount \in Nat
    BY DEF Task
  <2>2. PoolTyped'
    BY <1>5, AtStep, Moved DEF RefundCredits, Move, Steps
  <2>3. RowsTyped'
    BY <1>5, <2>1 DEF RefundCredits, AssignAndPost
  <2> QED
    BY <2>2, <2>3
<1>6. CASE RefundRejects(t)
  BY <1>6, Ended DEF RefundRejects
<1>7. CASE RequestReopens(t)
  <2>1. t.route \in AllRoutes
    BY DEF Task
  <2> QED
    BY <1>7, <2>1, Ended DEF RequestReopens
<1>8. CASE TakeCommits(t)
  <2>1. PoolTyped'
    BY <1>8, Ended DEF TakeCommits
  <2>2. t.agent \in Agents
    BY <1>8 DEF TakeCommits, At, PoolTyped, Covered, Prepared
  <2> QED
    BY <1>8, <2>1, <2>2 DEF TakeCommits
<1>9. CASE CompleteCommits(t)
  <2>1. t.agent \in Agents \cup {NoAgent}
    BY DEF Task
  <2> QED
    BY <1>9, <2>1, Ended DEF CompleteCommits
<1>10. CASE Crash(t)
  BY <1>10, Ended DEF Crash
<1> QED
  BY <1>2, <1>3, <1>4, <1>5, <1>6, <1>7, <1>8, <1>9, <1>10 DEF OtherSteps

\* A handler that starts is well typed.
LEMMA StartTyped ==
    ASSUME RowsTyped, PoolTyped, NEW w \in Workers, NEW p \in Rows, Starts(w, p)
    PROVE  RowsTyped' /\ PoolTyped'
<1> USE WithdrawAssumption DEF RowsTyped, WalletTypeOK, walletVars, payoutVars, deskVars, outVars
<1> Owner[p] \in Users
  OBVIOUS
<1>1. ASSUME NEW s \in Steps
      PROVE  /\ TaskOn(w, p, s) \in Task
             /\ s \notin {"debit", "take"} => Prepared(TaskOn(w, p, s))
  BY DEF TaskOn, Task, Prepared
<1>2. CASE WithdrawReads(w, p)
  <2>1. PICK a \in Amounts, r \in Routes :
          /\ a <= available[Owner[p]]
          /\ StartWith([TaskOn(w, p, "debit") EXCEPT
                          !.amount = a, !.route = r, !.seen = available[Owner[p]]])
    BY <1>2 DEF WithdrawReads
  <2> DEFINE t == [TaskOn(w, p, "debit") EXCEPT
                     !.amount = a, !.route = r, !.seen = available[Owner[p]]]
  <2>2. a \in Nat /\ r \in AllRoutes
    OBVIOUS
  <2>3. t \in Task /\ Prepared(t)
    BY <2>1, <2>2 DEF TaskOn, Task, Steps, Prepared
  <2> QED
    BY <1>2, <2>1, <2>3, Started DEF WithdrawReads
<1>3. CASE FlushPicks(w, p)
  BY <1>1, <1>3, Started DEF FlushPicks, Start, Steps
<1>4. CASE AdminApproves(w, p)
  BY <1>1, <1>4, Started DEF AdminApproves, Start, Steps
<1>5. CASE CancelReads(w, p)
  BY <1>1, <1>5, Started DEF CancelReads, Start, Steps
<1>6. CASE RefundReads(w, p)
  BY <1>1, <1>6, Started DEF RefundReads, Start, Steps
<1>7. CASE RequestReads(w, p)
  <2>1. PICK r \in {"trc20", "momo"} : StartWith([TaskOn(w, p, "reopen") EXCEPT !.route = r])
    BY <1>7 DEF RequestReads
  <2>2. /\ [TaskOn(w, p, "reopen") EXCEPT !.route = r] \in Task
        /\ Prepared([TaskOn(w, p, "reopen") EXCEPT !.route = r])
    BY DEF TaskOn, Task, Steps, AllRoutes, Prepared
  <2> QED
    BY <1>7, <2>1, <2>2, Started DEF RequestReads
<1>8. ASSUME NEW g \in Agents \cup {NoAgent}, NEW s \in {"take", "complete"}
      PROVE  /\ [TaskOn(w, p, s) EXCEPT !.agent = g] \in Task
             /\ g # NoAgent \/ s = "complete" =>
                  Prepared([TaskOn(w, p, s) EXCEPT !.agent = g])
  BY DEF TaskOn, Task, Steps, Prepared
<1>9. CASE \E g \in Agents : TakeReads(w, p, g)
  BY <1>8, <1>9, Started DEF TakeReads
<1>10. CASE \E g \in Agents \cup {NoAgent} : CompleteReads(w, p, g)
  BY <1>8, <1>10, Started DEF CompleteReads
<1> QED
  BY <1>2, <1>3, <1>4, <1>5, <1>6, <1>7, <1>9, <1>10 DEF Starts

\* So is what the gateways' callbacks leave.
LEMMA OutsideTyped ==
    ASSUME RowsTyped, PoolTyped, NEW p \in Rows, Outside(p)
    PROVE  RowsTyped' /\ PoolTyped'
<1> USE DEF RowsTyped, PoolTyped, Covered, Prepared, WalletTypeOK, SetStatus, Callback, Statuses,
        walletVars, payoutVars, deskVars, outVars, taskVars
<1>1. CASE PayoutIpn(p) \/ TransferWebhook(p)
  BY <1>1 DEF PayoutIpn, TransferWebhook, Running
<1>2. CASE FlutterwaveSettles(p)
  BY <1>2 DEF FlutterwaveSettles
<1> QED
  BY <1>1, <1>2 DEF Outside

\* The initial states are well typed.
LEMMA InitTyped == Init => TypeInv
BY OpeningAssumption DEF Init, WalletInit, TypeInv, TypeOK, WalletTypeOK, Covered, Statuses,
     AllRoutes

\* Every step keeps the types, and every handler prepared.
LEMMA StepTyped == TypeInv /\ [Next]_vars => TypeInv'
<1> SUFFICES ASSUME RowsTyped, PoolTyped, [Next]_vars PROVE RowsTyped' /\ PoolTyped'
  BY TypeParts DEF TypeInv, TypeOK, RowsTyped, PoolTyped
<1>1. CASE UNCHANGED vars
  BY <1>1 DEF RowsTyped, PoolTyped, WalletTypeOK, Covered, Prepared, vars, walletVars,
       payoutVars, deskVars,
              outVars, taskVars
<1>2. CASE \E w \in Workers, p \in Rows : Starts(w, p)
  BY <1>2, StartTyped
<1>3. CASE \E t \in tasks : Continues(t) \/ Fails(t)
  BY <1>3, WithdrawTyped, SendTyped, OtherTyped DEF Continues, Fails
<1>4. CASE \E p \in Rows : Outside(p)
  BY <1>4, OutsideTyped
<1> QED
  BY <1>1, <1>2, <1>3, <1>4 DEF Next

\* In every reachable state a wallet holds a natural number of cents, whatever
\* handlers overlap: executeDepositorWithdraw assigns what it read less an amount
\* it found covered.
THEOREM WithdrawalsTyped == Spec => []TypeOK
<1>1. Init => TypeInv
  BY InitTyped
<1>2. TypeInv /\ [Next]_vars => TypeInv'
  BY StepTyped
<1>3. TypeInv => TypeOK
  BY DEF TypeInv
<1> QED
  BY <1>1, <1>2, <1>3, PTL DEF Spec

-----------------------------------------------------------------------------
\* Nothing about payout q, nor about the handlers at work on it, changes.
Same(q) ==
    /\ status'[q] = status[q] /\ gross'[q] = gross[q]
    /\ route'[q] = route[q] /\ gateway'[q] = gateway[q]
    /\ momo'[q] = momo[q] /\ agent'[q] = agent[q] /\ claimedBy'[q] = claimedBy[q]
    /\ transfer'[q] = transfer[q] /\ sends'[q] = sends[q] /\ refunds'[q] = refunds[q]
    /\ disturbed'[q] = disturbed[q]
    /\ Handling(q)' = Handling(q)

\* A step that works on a payout leaves the others, and their handlers, alone.
LEMMA Elsewhere ==
    ASSUME TypeInv, NEW p \in Rows, NEW q \in Rows, q # p,
           \/ \E w \in Workers : Starts(w, p)
           \/ \E t \in tasks : t.p = p /\ (Continues(t) \/ Fails(t))
           \/ Outside(p)
    PROVE  Same(q)
<1> USE DEF Same, TypeInv, TypeOK
<1>1. ASSUME NEW t, t.p = p, StartWith(t)
      PROVE  disturbed'[q] = disturbed[q] /\ Handling(q)' = Handling(q)
  BY <1>1 DEF StartWith, Handling
<1>2. ASSUME NEW t \in tasks, t.p = p
      PROVE  /\ Return(t) \/ LoseTrack(t) =>
                  disturbed'[q] = disturbed[q] /\ Handling(q)' = Handling(q)
             /\ \A u : u.p = p /\ Continue(t, u) =>
                  disturbed'[q] = disturbed[q] /\ Handling(q)' = Handling(q)
  BY <1>2 DEF Return, LoseTrack, Continue, Handling
<1>3. ASSUME NEW t \in tasks
      PROVE  \A s : [t EXCEPT !.at = s].p = t.p
  BY DEF Task
<1> USE DEF walletVars, payoutVars, deskVars, outVars, taskVars
<1>4. CASE \E w \in Workers : Starts(w, p)
  BY <1>1, <1>4
     DEF Starts, Start, TaskOn, WithdrawReads, FlushPicks, AdminApproves, CancelReads, RefundReads,
         RequestReads, TakeReads, CompleteReads
<1>5. ASSUME NEW t \in tasks, t.p = p, WithdrawSteps(t)
      PROVE  Same(q)
  BY <1>2, <1>3, <1>5
     DEF WithdrawSteps, Move, WithdrawCommits, MomoQuoteFails, MomoP2pCreated, MomoEmailed
<1>6. ASSUME NEW t \in tasks, t.p = p, SendSteps(t) \/ ReplyLost(t)
      PROVE  Same(q)
  <2>1. CASE ApproveReads(t) \/ SendFails(t)
    <3>1. Return(t) \/ Continue(t, [t EXCEPT !.at = "dispatch", !.route = route[t.p]])
      BY <2>1 DEF ApproveReads, SendFails
    <3>2. [t EXCEPT !.at = "dispatch", !.route = route[t.p]].p = t.p
      BY DEF Task
    <3>3. disturbed'[q] = disturbed[q] /\ Handling(q)' = Handling(q)
      BY <1>2, <1>6, <3>1, <3>2
    <3> QED
      BY <2>1, <3>3 DEF ApproveReads, SendFails
  <2>2. CASE SettleExternally(t) \/ PayMomoByHand(t)
    BY <1>2, <1>6, <2>2 DEF SettleExternally, PayMomoByHand, SetStatus, OneMoreSend
  <2>3. CASE Dispatch(t) \/ ReplyLost(t)
    <3>1. Move(t, "markPaid") \/ Move(t, "markApproved") \/ LoseTrack(t)
      BY <2>3 DEF Dispatch, ReplyLost
    <3>2. disturbed'[q] = disturbed[q] /\ Handling(q)' = Handling(q)
      BY <1>2, <1>3, <1>6, <3>1 DEF Move
    <3>3. ChainSends(t) \/ QueueTransfer(t) \/ GatewayQueues(t)
      BY <2>3 DEF Dispatch, ReplyLost
    <3> QED
      BY <1>6, <3>2, <3>3 DEF ChainSends, QueueTransfer, GatewayQueues, OneMoreSend
  <2>4. CASE MarkPaid(t) \/ MarkApproved(t)
    BY <1>2, <1>6, <2>4 DEF MarkPaid, MarkApproved, SetStatus
  <2> QED
    BY <1>6, <2>1, <2>2, <2>3, <2>4 DEF SendSteps
<1>7. ASSUME NEW t \in tasks, t.p = p, OtherSteps(t) \/ Crash(t)
      PROVE  Same(q)
  <2>1. CASE CancelClaims(t) \/ CancelCommits(t)
    <3>1. \/ Return(t)
          \/ Continue(t, [t EXCEPT !.at = "release", !.seen = available[Owner[t.p]]])
      BY <2>1, Zenon DEF CancelClaims, CancelCommits
    <3>2. [t EXCEPT !.at = "release", !.seen = available[Owner[t.p]]].p = t.p
      BY DEF Task
    <3>3. disturbed'[q] = disturbed[q] /\ Handling(q)' = Handling(q)
      BY <1>2, <1>7, <3>1, <3>2
    <3> QED
      BY <1>7, <2>1, <3>3 DEF CancelClaims, CancelCommits
  <2>2. CASE RefundReadsWallet(t) \/ RefundCredits(t) \/ RefundRejects(t)
    <3>1. \/ Return(t) \/ Move(t, "reject")
          \/ Continue(t, [t EXCEPT !.at = "credit", !.seen = available[Owner[t.p]]])
      BY <2>2, Zenon DEF RefundReadsWallet, RefundCredits, RefundRejects
    <3>2. [t EXCEPT !.at = "credit", !.seen = available[Owner[t.p]]].p = t.p
      BY DEF Task
    <3>3. disturbed'[q] = disturbed[q] /\ Handling(q)' = Handling(q)
      BY <1>2, <1>3, <1>7, <3>1, <3>2 DEF Move
    <3> QED
      BY <1>7, <2>2, <3>3 DEF RefundReadsWallet, RefundCredits, RefundRejects, SetStatus
  <2>3. CASE RequestReopens(t)
    <3>1. Return(t) \/ LoseTrack(t)
      BY <2>3, Zenon DEF RequestReopens
    <3>2. disturbed'[q] = disturbed[q] /\ Handling(q)' = Handling(q)
      BY <1>2, <1>7, <3>1
    <3> QED
      BY <1>7, <2>3, <3>2 DEF RequestReopens
  <2>4. CASE TakeCommits(t) \/ CompleteCommits(t)
    BY <1>2, <1>7, <2>4 DEF TakeCommits, CompleteCommits, SetStatus, OneMoreSend
  <2>5. CASE Crash(t)
    BY <1>2, <1>7, <2>5 DEF Crash
  <2> QED
    BY <1>7, <2>1, <2>2, <2>3, <2>4, <2>5 DEF OtherSteps
<1>8. CASE Outside(p)
  BY <1>8 DEF Outside, Callback, PayoutIpn, FlutterwaveSettles, TransferWebhook, SetStatus, Handling
<1> QED
  BY <1>4, <1>5, <1>6, <1>7, <1>8 DEF Continues, Fails

\* So their invariants are kept.
LEMMA Framed ==
    ASSUME NEW q \in Rows, Same(q)
    PROVE  /\ Born(q) => Born(q)'
           /\ Told(q) => Told(q)'
           /\ Undisturbed(q) => Undisturbed(q)'
           /\ ClosedByRefund(q) => ClosedByRefund(q)'
<1> USE DEF Same
<1>1. Born(q) => Born(q)'
  BY DEF Born, Unborn
<1>2. Told(q) => Told(q)'
  BY DEF Told
<1>3. Undisturbed(q) => Undisturbed(q)'
  BY DEF Undisturbed, Fits, RowFits, HandlerFits, Out, AtRest, DeskOpen
<1>4. ClosedByRefund(q) => ClosedByRefund(q)'
  BY DEF ClosedByRefund
<1> QED
  BY <1>1, <1>2, <1>3, <1>4

-----------------------------------------------------------------------------
\* Who is at work on a payout after one of its handlers started, went on or
\* ended.
LEMMA AfterStart ==
    ASSUME TypeInv, NEW t \in Task, StartWith(t)
    PROVE  /\ Handling(t.p)' = Handling(t.p) \cup {t}
           /\ ~disturbed'[t.p] => ~disturbed[t.p] /\ Handling(t.p) = {}
<1>1. t.p \in Rows
  BY DEF Task
<1>2. disturbed'[t.p] = (disturbed[t.p] \/ Running(t.p))
  BY <1>1 DEF TypeInv, TypeOK, StartWith
<1>3. Handling(t.p) # {} => Running(t.p)
  BY DEF Handling, Running
<1>4. Handling(t.p)' = Handling(t.p) \cup {t}
  BY DEF StartWith, Handling
<1> QED
  BY <1>2, <1>3, <1>4

\* The same after a handler went on as u.
LEMMA AfterMove ==
    ASSUME TypeInv, NEW t \in tasks, NEW u, u.p = t.p, Continue(t, u)
    PROVE  Handling(t.p)' = (Handling(t.p) \ {t}) \cup {u} /\ disturbed' = disturbed
BY DEF Continue, Handling

\* The same after a handler ended, in order or not.
LEMMA AfterEnd ==
    ASSUME TypeInv, NEW t \in tasks
    PROVE  /\ Return(t) => Handling(t.p)' = Handling(t.p) \ {t} /\ disturbed' = disturbed
           /\ LoseTrack(t) => Handling(t.p)' = Handling(t.p) \ {t} /\ disturbed'[t.p]
BY DEF TypeInv, TypeOK, Task, Return, LoseTrack, Handling

\* What a handler still knows after it moved on.
LEMMA AfterStep ==
    ASSUME TypeInv, NEW t \in tasks, NEW s, Move(t, s)
    PROVE  /\ disturbed' = disturbed
           /\ \E u : /\ Handling(t.p)' = (Handling(t.p) \ {t}) \cup {u}
                     /\ u.at = s /\ u.amount = t.amount /\ u.route = t.route
<1> DEFINE u == [t EXCEPT !.at = s]
<1>1. u.at = s /\ u.p = t.p /\ u.amount = t.amount /\ u.route = t.route
  BY DEF Task, TypeInv, TypeOK
<1>2. Continue(t, u)
  BY DEF Move
<1> HIDE DEF u
<1> QED
  BY <1>1, <1>2, AfterMove

\* A handler that is not about to create the payout knows its gross amount.
LEMMA Knows ==
    ASSUME NEW p, Born(p), NEW t \in Handling(p), t.at # "debit"
    PROVE  status[p] # "none" /\ t.amount = gross[p]
BY DEF Born

\* A step that leaves the row in place and the gross amount alone keeps Born.
LEMMA BornKept ==
    ASSUME NEW p, Born(p), NEW t \in Handling(p), t.at # "debit",
           status'[p] # "none", gross'[p] = gross[p],
           \A x \in Handling(p)' : x \in Handling(p) \/ (x.at # "debit" /\ x.amount = t.amount)
    PROVE  Born(p)'
BY DEF Born

\* The three parts of a payout, its row, its desk entry and its history, as
\* they were.
SamePayout(p) ==
    status'[p] = status[p] /\ gross'[p] = gross[p] /\ route'[p] = route[p]
    /\ gateway'[p] = gateway[p]
SameDesk(p) == momo'[p] = momo[p] /\ agent'[p] = agent[p] /\ claimedBy'[p] = claimedBy[p]
SameOut(p) == transfer'[p] = transfer[p] /\ sends'[p] = sends[p] /\ refunds'[p] = refunds[p]

\* A handler that ends without having left anything to record.
LEMMA EndKeeps ==
    ASSUME TypeInv, NEW t \in tasks, Return(t), t.at \notin {"markPaid", "markApproved", "reject"},
           NEW p, p = t.p, Born(p), Told(p), Undisturbed(p), SamePayout(p), SameDesk(p), SameOut(p)
    PROVE  Born(p)' /\ Told(p)' /\ Undisturbed(p)'
<1> t \in Handling(p)
  BY DEF Handling
<1>1. Handling(p)' = Handling(p) \ {t} /\ disturbed' = disturbed
  BY AfterEnd
<1> USE <1>1 DEF SamePayout, SameDesk, SameOut
<1>2. Born(p)'
  BY DEF Born, Unborn
<1>3. Told(p)'
  BY DEF Told
<1>4. Undisturbed(p)'
  BY DEF Undisturbed, Fits, RowFits, HandlerFits, Out, AtRest, DeskOpen
<1> QED
  BY <1>2, <1>3, <1>4

\* A handler that goes on, having changed nothing.
LEMMA GoOnKeeps ==
    ASSUME TypeInv, NEW t \in tasks, NEW u, u.p = t.p, Continue(t, u), u.amount = t.amount,
           t.at \notin {"debit", "markPaid", "markApproved", "reject"},
           u.at \notin {"debit", "markPaid", "markApproved", "reject"},
           NEW p, p = t.p, Born(p), Told(p), Undisturbed(p), SamePayout(p), SameDesk(p), SameOut(p),
           Fits(p) => HandlerFits(u, p)
    PROVE  Born(p)' /\ Told(p)' /\ Undisturbed(p)'
<1> t \in Handling(p)
  BY DEF Handling
<1>1. Handling(p)' = (Handling(p) \ {t}) \cup {u} /\ disturbed' = disturbed
  BY AfterMove
<1> USE <1>1 DEF SamePayout, SameDesk, SameOut
<1>2. Born(p)'
  BY Knows, BornKept
<1>3. Told(p)'
  BY DEF Told
<1>4. Undisturbed(p)'
  BY DEF Undisturbed, Fits, RowFits, HandlerFits, Out, AtRest, DeskOpen
<1> QED
  BY <1>2, <1>3, <1>4

-----------------------------------------------------------------------------
\* The three invariants of a payout are kept by its own handlers: by the
\* withdrawal itself ...
LEMMA WithdrawKeeps ==
    ASSUME TypeInv, NEW t \in tasks, Born(t.p), Told(t.p), Undisturbed(t.p), WithdrawSteps(t)
    PROVE  Born(t.p)' /\ Told(t.p)' /\ Undisturbed(t.p)'
<1> t \in Task /\ t.p \in Rows /\ t \in Handling(t.p)
  BY DEF TypeInv, TypeOK, Task, Handling
<1> USE DEF walletVars, payoutVars, deskVars, outVars, At
<1>1. CASE WithdrawCommits(t)
  <2>1. Handling(t.p) = {t} /\ Unborn(t.p)
    BY <1>1 DEF WithdrawCommits, Born
  <2>2. \A u \in Handling(t.p)' :
          /\ Handling(t.p)' = {u} /\ u.amount = t.amount /\ u.route = t.route
          /\ (u.at = "quote" /\ t.route = "momo") \/ u.at = "approve"
    <3>1. CASE Move(t, "quote") /\ t.route = "momo"
      BY <2>1, <3>1, AfterStep
    <3>2. CASE Move(t, "approve")
      BY <2>1, <3>2, AfterStep
    <3>3. CASE Return(t)
      BY <2>1, <3>3, AfterEnd
    <3> QED
      BY <1>1, <3>1, <3>2, <3>3 DEF WithdrawCommits
  <2>3. /\ status'[t.p] = "PENDING" /\ gross'[t.p] = t.amount /\ route'[t.p] = t.route
        /\ gateway' = gateway /\ SameDesk(t.p) /\ SameOut(t.p)
    BY <1>1 DEF WithdrawCommits, TypeInv, TypeOK, SameDesk, SameOut
  <2> USE DEF SameDesk, SameOut
  <2>4. Born(t.p)'
    BY <2>2, <2>3 DEF Born
  <2>5. Told(t.p)'
    BY <2>1, <2>2, <2>3 DEF Told, Unborn
  <2>6. Undisturbed(t.p)'
    BY <2>1, <2>2, <2>3 DEF Undisturbed, Unborn, Fits, RowFits, HandlerFits, Out, DeskOpen
  <2> QED
    BY <2>4, <2>5, <2>6
<1>2. CASE MomoQuoteFails(t)
  BY <1>2, EndKeeps DEF MomoQuoteFails, SamePayout, SameDesk, SameOut
<1>3. CASE MomoP2pCreated(t)
  <2>1. PICK u : /\ Handling(t.p)' = (Handling(t.p) \ {t}) \cup {u} /\ disturbed' = disturbed
                 /\ u.at = "email" /\ u.amount = t.amount
    BY <1>3, AfterStep DEF MomoP2pCreated
  <2>2. /\ SamePayout(t.p) /\ SameOut(t.p)
        /\ momo'[t.p] = "INITIATED" /\ agent' = agent /\ claimedBy' = claimedBy
    BY <1>3 DEF MomoP2pCreated, SamePayout, SameOut, TypeInv, TypeOK
  <2> USE DEF SamePayout, SameOut
  <2>3. t.at = "quote" /\ status[t.p] # "none"
    BY <1>3, Knows DEF MomoP2pCreated
  <2>4. Born(t.p)'
    BY <2>1, <2>2, <2>3, BornKept
  <2>5. Told(t.p)'
    BY <2>1, <2>2, <2>3 DEF Told
  <2>6. Undisturbed(t.p)'
    BY <2>1, <2>2, <2>3 DEF Undisturbed, Fits, RowFits, HandlerFits, Out, AtRest, DeskOpen
  <2> QED
    BY <2>4, <2>5, <2>6
<1>4. CASE MomoEmailed(t)
  <2>1. Handling(t.p)' = Handling(t.p) \ {t} /\ disturbed' = disturbed
    BY <1>4, AfterEnd DEF MomoEmailed
  <2>2. /\ SamePayout(t.p) /\ SameOut(t.p)
        /\ momo'[t.p] = "UNDER_PROCESS" /\ agent' = agent /\ claimedBy' = claimedBy
    BY <1>4 DEF MomoEmailed, SamePayout, SameOut, TypeInv, TypeOK
  <2> USE DEF SamePayout, SameOut
  <2>3. t.at = "email" /\ status[t.p] # "none"
    BY <1>4, Knows DEF MomoEmailed
  <2>4. Born(t.p)'
    BY <2>1, <2>2, <2>3, BornKept
  <2>5. Told(t.p)'
    BY <2>1, <2>2 DEF Told
  <2>6. Undisturbed(t.p)'
    BY <2>1, <2>2, <2>3 DEF Undisturbed, Fits, RowFits, HandlerFits, Out, AtRest, DeskOpen
  <2> QED
    BY <2>4, <2>5, <2>6
<1> QED
  BY <1>1, <1>2, <1>3, <1>4 DEF WithdrawSteps

\* ... by the handlers that send the money ...
LEMMA SendKeeps ==
    ASSUME TypeInv, NEW t \in tasks, Born(t.p), Told(t.p), Undisturbed(t.p),
           SendSteps(t) \/ ReplyLost(t)
    PROVE  Born(t.p)' /\ Told(t.p)' /\ Undisturbed(t.p)'
<1> t \in Task /\ t.p \in Rows /\ t \in Handling(t.p)
  BY DEF TypeInv, TypeOK, Task, Handling
<1> USE DEF walletVars, payoutVars, deskVars, outVars, At
<1>1. CASE ApproveReads(t)
  <2> DEFINE u == [t EXCEPT !.at = "dispatch", !.route = route[t.p]]
  <2>1. u.p = t.p /\ u.at = "dispatch" /\ u.route = route[t.p] /\ u.amount = t.amount
    BY DEF Task
  <2>2. t.at = "approve" /\ SamePayout(t.p) /\ SameDesk(t.p) /\ SameOut(t.p)
    BY <1>1 DEF ApproveReads, SamePayout, SameDesk, SameOut
  <2>3. CASE Return(t)
    BY <2>2, <2>3, EndKeeps
  <2>4. CASE status[t.p] = "PENDING" /\ Continue(t, u)
    <3> HIDE DEF u
    <3>1. HandlerFits(u, t.p)
      BY <2>1, <2>4 DEF HandlerFits
    <3> QED
      BY <2>1, <2>2, <2>4, <3>1, GoOnKeeps
  <2> QED
    BY <1>1, <2>3, <2>4, Zenon DEF ApproveReads
<1>2. CASE SendFails(t)
  BY <1>2, EndKeeps DEF SendFails, SamePayout, SameDesk, SameOut
<1>3. CASE SettleExternally(t) /\ Return(t) /\ momo[t.p] = "none"
  <2>1. Handling(t.p)' = Handling(t.p) \ {t} /\ disturbed' = disturbed
    BY <1>3, AfterEnd DEF SettleExternally
  <2>2. /\ status'[t.p] = "PAID" /\ gross' = gross /\ route' = route /\ gateway' = gateway
        /\ SameDesk(t.p)
        /\ sends'[t.p] = sends[t.p] + 1 /\ transfer' = transfer /\ refunds' = refunds
    BY <1>3 DEF SettleExternally, SetStatus, OneMoreSend, TypeInv, TypeOK, SameDesk
  <2> USE DEF SameDesk
  <2>3. t.at = "dispatch" /\ momo[t.p] = "none" /\ status[t.p] # "none" /\ t.amount = gross[t.p]
        /\ sends[t.p] \in Nat /\ refunds[t.p] \in Nat
    BY <1>3, Knows DEF SettleExternally, TypeInv, TypeOK
  <2>4. Born(t.p)'
    BY <2>1, <2>2, <2>3, BornKept
  <2>5. Told(t.p)'
    BY <2>1, <2>2, <2>3 DEF Told
  <2>6. Undisturbed(t.p)'
    <3> SUFFICES ASSUME ~disturbed'[t.p] PROVE Fits(t.p)'
      BY DEF Undisturbed
    <3>1. RowFits(t.p) /\ HandlerFits(t, t.p) /\ Handling(t.p) = {t}
      BY <2>1 DEF Undisturbed, Fits
    <3>2. RowFits(t.p)'
      BY <2>1, <2>2, <2>3, <3>1 DEF RowFits, HandlerFits, Out, AtRest, DeskOpen
    <3>3. \A x \in Handling(t.p)' : HandlerFits(x, t.p)' /\ Handling(t.p)' = {x}
      BY <2>1, <2>2, <2>3, <3>1 DEF RowFits, HandlerFits, AtRest, DeskOpen
    <3> QED
      BY <3>2, <3>3 DEF Fits
  <2> QED
    BY <2>4, <2>5, <2>6
<1>4. CASE SettleExternally(t) /\ LoseTrack(t)
  <2>1. Handling(t.p)' = Handling(t.p) \ {t} /\ disturbed'[t.p]
    BY <1>4, AfterEnd DEF SettleExternally
  <2>2. /\ status'[t.p] = "PAID" /\ gross' = gross /\ route' = route /\ gateway' = gateway
        /\ SameDesk(t.p)
        /\ sends'[t.p] = sends[t.p] + 1 /\ transfer' = transfer /\ refunds' = refunds
    BY <1>4 DEF SettleExternally, SetStatus, OneMoreSend, TypeInv, TypeOK, SameDesk
  <2> USE DEF SameDesk
  <2>3. t.at = "dispatch" /\ status[t.p] # "none" /\ t.amount = gross[t.p]
        /\ sends[t.p] \in Nat /\ refunds[t.p] \in Nat
    BY <1>4, Knows DEF SettleExternally, TypeInv, TypeOK
  <2>4. Born(t.p)'
    BY <2>1, <2>2, <2>3, BornKept
  <2>5. Told(t.p)'
    BY <2>1, <2>2, <2>3 DEF Told
  <2>6. Undisturbed(t.p)'
    BY <2>1 DEF Undisturbed
  <2> QED
    BY <2>4, <2>5, <2>6
<1>5. CASE PayMomoByHand(t)
  <2>1. Handling(t.p)' = Handling(t.p) \ {t} /\ disturbed' = disturbed
    BY <1>5, AfterEnd DEF PayMomoByHand, OffDesk
  <2>2. /\ status'[t.p] = "PAID" /\ gross' = gross /\ route' = route /\ gateway' = gateway
        /\ SameDesk(t.p)
        /\ sends'[t.p] = sends[t.p] + 1 /\ transfer' = transfer /\ refunds' = refunds
    BY <1>5 DEF PayMomoByHand, OffDesk, SetStatus, OneMoreSend, TypeInv, TypeOK, SameDesk
  <2> USE DEF SameDesk
  <2>3. t.at = "dispatch" /\ momo[t.p] = "none" /\ status[t.p] # "none" /\ t.amount = gross[t.p]
        /\ sends[t.p] \in Nat /\ refunds[t.p] \in Nat
    BY <1>5, Knows DEF PayMomoByHand, OffDesk, TypeInv, TypeOK
  <2>4. Born(t.p)'
    BY <2>1, <2>2, <2>3, BornKept
  <2>5. Told(t.p)'
    BY <2>1, <2>2, <2>3 DEF Told
  <2>6. Undisturbed(t.p)'
    BY <2>1, <2>2, <2>3 DEF Undisturbed, Fits, RowFits, HandlerFits, Out, AtRest, DeskOpen
  <2> QED
    BY <2>4, <2>5, <2>6
<1>6. CASE ChainSends(t) /\ Move(t, "markPaid")
  <2>1. PICK u : /\ Handling(t.p)' = (Handling(t.p) \ {t}) \cup {u} /\ disturbed' = disturbed
                 /\ u.at = "markPaid" /\ u.amount = t.amount /\ u.route = t.route
    BY <1>6, AfterStep DEF ChainSends
  <2>2. /\ SamePayout(t.p) /\ SameDesk(t.p)
        /\ sends'[t.p] = sends[t.p] + 1 /\ transfer' = transfer /\ refunds' = refunds
    BY <1>6 DEF ChainSends, SetStatus, OneMoreSend, TypeInv, TypeOK, SamePayout, SameDesk
  <2> USE DEF SamePayout, SameDesk
  <2>3. t.at = "dispatch" /\ t.route # "momo" /\ status[t.p] # "none" /\ t.amount = gross[t.p]
        /\ sends[t.p] \in Nat /\ refunds[t.p] \in Nat
    BY <1>6, Knows DEF ChainSends, TypeInv, TypeOK
  <2>4. Born(t.p)'
    BY <2>1, <2>2, <2>3, BornKept
  <2>5. Told(t.p)'
    BY <2>1, <2>2, <2>3 DEF Told
  <2>6. Undisturbed(t.p)'
    <3> SUFFICES ASSUME ~disturbed'[t.p] PROVE Fits(t.p)'
      BY DEF Undisturbed
    <3>1. RowFits(t.p) /\ HandlerFits(t, t.p) /\ Handling(t.p) = {t}
      BY <2>1 DEF Undisturbed, Fits
    <3>2. RowFits(t.p)'
      BY <2>1, <2>2, <2>3, <3>1 DEF RowFits, HandlerFits, Out, AtRest, DeskOpen
    <3>3. \A x \in Handling(t.p)' : HandlerFits(x, t.p)' /\ Handling(t.p)' = {x}
      BY <2>1, <2>2, <2>3, <3>1 DEF RowFits, HandlerFits, AtRest, DeskOpen
    <3> QED
      BY <3>2, <3>3 DEF Fits
  <2> QED
    BY <2>4, <2>5, <2>6
<1>7. CASE QueueTransfer(t) /\ Move(t, "markApproved")
  <2>1. PICK u : /\ Handling(t.p)' = (Handling(t.p) \ {t}) \cup {u} /\ disturbed' = disturbed
                 /\ u.at = "markApproved" /\ u.amount = t.amount /\ u.route = t.route
    BY <1>7, AfterStep DEF QueueTransfer, OffDesk
  <2>2. /\ SamePayout(t.p) /\ SameDesk(t.p)
        /\ transfer'[t.p] = "sent" /\ sends' = sends /\ refunds' = refunds
    BY <1>7 DEF QueueTransfer, OffDesk, SetStatus, OneMoreSend, TypeInv, TypeOK, SamePayout,
         SameDesk
  <2> USE DEF SamePayout, SameDesk
  <2>3. t.at = "dispatch" /\ t.route = "momo" /\ momo[t.p] = "none" /\ transfer[t.p] = "none"
        /\ status[t.p] # "none" /\ t.amount = gross[t.p]
        /\ sends[t.p] \in Nat /\ refunds[t.p] \in Nat
    BY <1>7, Knows DEF QueueTransfer, OffDesk, TypeInv, TypeOK
  <2>4. Born(t.p)'
    BY <2>1, <2>2, <2>3, BornKept
  <2>5. Told(t.p)'
    BY <2>1, <2>2, <2>3 DEF Told
  <2>6. Undisturbed(t.p)'
    BY <2>1, <2>2, <2>3 DEF Undisturbed, Fits, RowFits, HandlerFits, Out, AtRest, DeskOpen
  <2> QED
    BY <2>4, <2>5, <2>6
<1>8. CASE GatewayQueues(t) /\ Move(t, "markApproved")
  <2>1. PICK u : /\ Handling(t.p)' = (Handling(t.p) \ {t}) \cup {u} /\ disturbed' = disturbed
                 /\ u.at = "markApproved" /\ u.amount = t.amount /\ u.route = t.route
    BY <1>8, AfterStep DEF GatewayQueues
  <2>2. /\ SamePayout(t.p) /\ SameDesk(t.p)
        /\ sends'[t.p] = sends[t.p] + 1 /\ transfer' = transfer /\ refunds' = refunds
    BY <1>8 DEF GatewayQueues, SetStatus, OneMoreSend, TypeInv, TypeOK, SamePayout, SameDesk
  <2> USE DEF SamePayout, SameDesk
  <2>3. t.at = "dispatch" /\ t.route # "momo" /\ status[t.p] # "none" /\ t.amount = gross[t.p]
        /\ sends[t.p] \in Nat /\ refunds[t.p] \in Nat
    BY <1>8, Knows DEF GatewayQueues, TypeInv, TypeOK
  <2>4. Born(t.p)'
    BY <2>1, <2>2, <2>3, BornKept
  <2>5. Told(t.p)'
    BY <2>1, <2>2, <2>3 DEF Told
  <2>6. Undisturbed(t.p)'
    BY <2>1, <2>2, <2>3 DEF Undisturbed, Fits, RowFits, HandlerFits, Out, AtRest, DeskOpen
  <2> QED
    BY <2>4, <2>5, <2>6
<1>9. CASE (ChainSends(t) \/ GatewayQueues(t)) /\ LoseTrack(t)
  <2>1. Handling(t.p)' = Handling(t.p) \ {t} /\ disturbed'[t.p]
    BY <1>9, AfterEnd DEF ChainSends, GatewayQueues
  <2>2. /\ SamePayout(t.p) /\ SameDesk(t.p)
        /\ sends'[t.p] = sends[t.p] + 1 /\ transfer' = transfer /\ refunds' = refunds
    BY <1>9 DEF ChainSends, GatewayQueues, SetStatus, OneMoreSend, TypeInv, TypeOK, SamePayout,
         SameDesk
  <2> USE DEF SamePayout, SameDesk
  <2>3. t.at = "dispatch" /\ status[t.p] # "none" /\ t.amount = gross[t.p]
        /\ sends[t.p] \in Nat /\ refunds[t.p] \in Nat
    BY <1>9, Knows DEF ChainSends, GatewayQueues, TypeInv, TypeOK
  <2>4. Born(t.p)'
    BY <2>1, <2>2, <2>3, BornKept
  <2>5. Told(t.p)'
    BY <2>1, <2>2, <2>3 DEF Told
  <2>6. Undisturbed(t.p)'
    BY <2>1 DEF Undisturbed
  <2> QED
    BY <2>4, <2>5, <2>6
<1>10. CASE QueueTransfer(t) /\ LoseTrack(t)
  <2>1. Handling(t.p)' = Handling(t.p) \ {t} /\ disturbed'[t.p]
    BY <1>10, AfterEnd DEF QueueTransfer
  <2>2. /\ SamePayout(t.p) /\ SameDesk(t.p)
        /\ transfer'[t.p] = "sent" /\ sends' = sends /\ refunds' = refunds
    BY <1>10 DEF QueueTransfer, SetStatus, OneMoreSend, TypeInv, TypeOK, SamePayout, SameDesk
  <2> USE DEF SamePayout, SameDesk
  <2>3. t.at = "dispatch" /\ transfer[t.p] = "none" /\ status[t.p] # "none" /\ t.amount = gross[t.p]
        /\ sends[t.p] \in Nat /\ refunds[t.p] \in Nat
    BY <1>10, Knows DEF QueueTransfer, TypeInv, TypeOK
  <2>4. Born(t.p)'
    BY <2>1, <2>2, <2>3, BornKept
  <2>5. Told(t.p)'
    BY <2>1, <2>2, <2>3 DEF Told
  <2>6. Undisturbed(t.p)'
    BY <2>1 DEF Undisturbed
  <2> QED
    BY <2>4, <2>5, <2>6
<1>11. CASE MarkPaid(t)
  <2>1. Handling(t.p)' = Handling(t.p) \ {t} /\ disturbed' = disturbed
    BY <1>11, AfterEnd DEF MarkPaid
  <2>2. /\ status'[t.p] = "PAID" /\ gross' = gross /\ route' = route /\ gateway' = gateway
        /\ SameDesk(t.p) /\ SameOut(t.p)
    BY <1>11 DEF MarkPaid, SetStatus, OneMoreSend, TypeInv, TypeOK, SameDesk, SameOut
  <2> USE DEF SameDesk, SameOut
  <2>3. t.at = "markPaid" /\ sends[t.p] >= 1 /\ status[t.p] # "none" /\ t.amount = gross[t.p]
        /\ sends[t.p] \in Nat /\ refunds[t.p] \in Nat
    BY <1>11, Knows DEF MarkPaid, TypeInv, TypeOK, Told
  <2>4. Born(t.p)'
    BY <2>1, <2>2, <2>3, BornKept
  <2>5. Told(t.p)'
    BY <2>1, <2>2, <2>3 DEF Told
  <2>6. Undisturbed(t.p)'
    <3> SUFFICES ASSUME ~disturbed'[t.p] PROVE Fits(t.p)'
      BY DEF Undisturbed
    <3>1. RowFits(t.p) /\ HandlerFits(t, t.p) /\ Handling(t.p) = {t}
      BY <2>1 DEF Undisturbed, Fits
    <3>2. RowFits(t.p)'
      BY <2>1, <2>2, <2>3, <3>1 DEF RowFits, HandlerFits, Out, AtRest, DeskOpen
    <3>3. \A x \in Handling(t.p)' : HandlerFits(x, t.p)' /\ Handling(t.p)' = {x}
      BY <2>1, <2>2, <2>3, <3>1 DEF RowFits, HandlerFits, AtRest, DeskOpen
    <3> QED
      BY <3>2, <3>3 DEF Fits
  <2> QED
    BY <2>4, <2>5, <2>6
<1>12. CASE MarkApproved(t)
  <2>1. Handling(t.p)' = Handling(t.p) \ {t} /\ disturbed' = disturbed
    BY <1>12, AfterEnd DEF MarkApproved
  <2>2. /\ status'[t.p] = "APPROVED" /\ gross' = gross /\ route' = route
        /\ (gateway'[t.p] <=> t.route # "momo")
        /\ SameDesk(t.p) /\ SameOut(t.p)
    BY <1>12 DEF MarkApproved, SetStatus, OneMoreSend, TypeInv, TypeOK, SameDesk, SameOut
  <2> USE DEF SameDesk, SameOut
  <2>3. t.at = "markApproved" /\ (t.route = "momo" \/ sends[t.p] >= 1) /\ status[t.p] # "none"
        /\ t.amount = gross[t.p]
        /\ sends[t.p] \in Nat /\ refunds[t.p] \in Nat
    BY <1>12, Knows DEF MarkApproved, TypeInv, TypeOK, Told
  <2>4. Born(t.p)'
    BY <2>1, <2>2, <2>3, BornKept
  <2>5. Told(t.p)'
    BY <2>1, <2>2, <2>3 DEF Told
  <2>6. Undisturbed(t.p)'
    <3> SUFFICES ASSUME ~disturbed'[t.p] PROVE Fits(t.p)'
      BY DEF Undisturbed
    <3>1. RowFits(t.p) /\ HandlerFits(t, t.p) /\ Handling(t.p) = {t}
      BY <2>1 DEF Undisturbed, Fits
    <3>2. RowFits(t.p)'
      BY <2>1, <2>2, <2>3, <3>1 DEF RowFits, HandlerFits, Out, AtRest, DeskOpen
    <3>3. \A x \in Handling(t.p)' : HandlerFits(x, t.p)' /\ Handling(t.p)' = {x}
      BY <2>1, <2>2, <2>3, <3>1 DEF RowFits, HandlerFits, AtRest, DeskOpen
    <3> QED
      BY <3>2, <3>3 DEF Fits
  <2> QED
    BY <2>4, <2>5, <2>6
<1> QED
  <2>1. CASE SettleExternally(t)
    BY <1>3, <1>4, <2>1 DEF SettleExternally
  <2> QED
    BY ONLY SendSteps(t) \/ ReplyLost(t), <1>1, <1>2, <2>1, <1>5, <1>6, <1>7, <1>8, <1>9, <1>10,
         <1>11, <1>12, Zenon
       DEF SendSteps, Dispatch, ReplyLost

\* ... by the handlers that give the money back, the user's request and the
\* desk, and by a handler that dies.
LEMMA OtherKeeps ==
    ASSUME TypeInv, NEW t \in tasks, Born(t.p), Told(t.p), Undisturbed(t.p),
           OtherSteps(t) \/ Crash(t)
    PROVE  Born(t.p)' /\ Told(t.p)' /\ Undisturbed(t.p)'
<1> t \in Task /\ t.p \in Rows /\ t \in Handling(t.p)
  BY DEF TypeInv, TypeOK, Task, Handling
<1> USE DEF walletVars, payoutVars, deskVars, outVars, At
<1>1. CASE CancelClaims(t)
  <2> DEFINE u == [t EXCEPT !.at = "release", !.seen = available[Owner[t.p]]]
  <2>1. u.p = t.p /\ u.at = "release" /\ u.amount = t.amount
    BY DEF Task
  <2>2. t.at = "claim" /\ SamePayout(t.p) /\ SameDesk(t.p) /\ SameOut(t.p)
    BY <1>1 DEF CancelClaims, SamePayout, SameDesk, SameOut
  <2>3. CASE Return(t)
    BY <2>2, <2>3, EndKeeps
  <2>4. CASE status[t.p] = "PENDING" /\ Continue(t, u)
    <3> HIDE DEF u
    <3>1. HandlerFits(u, t.p)
      BY <2>1, <2>4 DEF HandlerFits
    <3> QED
      BY <2>1, <2>2, <2>4, <3>1, GoOnKeeps
  <2> QED
    BY <1>1, <2>3, <2>4, Zenon DEF CancelClaims
<1>2. CASE RefundReadsWallet(t)
  <2> DEFINE u == [t EXCEPT !.at = "credit", !.seen = available[Owner[t.p]]]
  <2>1. u.p = t.p /\ u.at = "credit" /\ u.amount = t.amount
    BY DEF Task
  <2>2. t.at = "readWallet" /\ SamePayout(t.p) /\ SameDesk(t.p) /\ SameOut(t.p)
    BY <1>2 DEF RefundReadsWallet, SamePayout, SameDesk, SameOut
  <2>3. Continue(t, u)
    BY <1>2 DEF RefundReadsWallet
  <2> HIDE DEF u
  <2>4. Fits(t.p) => HandlerFits(u, t.p)
    BY <2>1, <2>2 DEF Fits, HandlerFits
  <2> QED
    BY <2>1, <2>2, <2>3, <2>4, GoOnKeeps
<1>3. CASE CancelCommits(t)
  <2>1. Handling(t.p)' = Handling(t.p) \ {t} /\ disturbed' = disturbed
    BY <1>3, AfterEnd DEF CancelCommits
  <2>2. /\ status'[t.p] = "REJECTED" /\ gross' = gross /\ route' = route /\ gateway' = gateway
        /\ momo'[t.p] = IF DeskOpen(t.p) THEN "CANCELLED" ELSE momo[t.p]
        /\ agent' = agent /\ claimedBy' = claimedBy
        /\ refunds'[t.p] = refunds[t.p] + 1 /\ transfer' = transfer /\ sends' = sends
    BY <1>3 DEF CancelCommits, DeskOpen, SetStatus, OneMoreSend, TypeInv, TypeOK
  <2>3. t.at = "release" /\ status[t.p] # "none" /\ t.amount = gross[t.p]
        /\ sends[t.p] \in Nat /\ refunds[t.p] \in Nat
    BY <1>3, Knows DEF CancelCommits, TypeInv, TypeOK
  <2>4. Born(t.p)'
    BY <2>1, <2>2, <2>3, BornKept
  <2>5. Told(t.p)'
    BY <2>1, <2>2, <2>3 DEF Told
  <2>6. Undisturbed(t.p)'
    <3> SUFFICES ASSUME ~disturbed'[t.p] PROVE Fits(t.p)'
      BY DEF Undisturbed
    <3>1. RowFits(t.p) /\ HandlerFits(t, t.p) /\ Handling(t.p) = {t}
      BY <2>1 DEF Undisturbed, Fits
    <3>2. RowFits(t.p)'
      BY <2>1, <2>2, <2>3, <3>1 DEF RowFits, HandlerFits, Out, AtRest, DeskOpen
    <3>3. \A x \in Handling(t.p)' : HandlerFits(x, t.p)' /\ Handling(t.p)' = {x}
      BY <2>1, <2>2, <2>3, <3>1 DEF RowFits, HandlerFits, AtRest, DeskOpen
    <3> QED
      BY <3>2, <3>3 DEF Fits
  <2> QED
    BY <2>4, <2>5, <2>6
<1>4. CASE RefundCredits(t)
  <2>1. PICK u : /\ Handling(t.p)' = (Handling(t.p) \ {t}) \cup {u} /\ disturbed' = disturbed
                 /\ u.at = "reject" /\ u.amount = t.amount /\ u.route = t.route
    BY <1>4, AfterStep DEF RefundCredits
  <2>2. /\ SamePayout(t.p) /\ SameDesk(t.p)
        /\ refunds'[t.p] = refunds[t.p] + 1 /\ transfer' = transfer /\ sends' = sends
    BY <1>4 DEF RefundCredits, SetStatus, OneMoreSend, TypeInv, TypeOK, SamePayout, SameDesk
  <2> USE DEF SamePayout, SameDesk
  <2>3. t.at = "credit" /\ status[t.p] # "none" /\ t.amount = gross[t.p]
        /\ sends[t.p] \in Nat /\ refunds[t.p] \in Nat
    BY <1>4, Knows DEF RefundCredits, TypeInv, TypeOK
  <2>4. Born(t.p)'
    BY <2>1, <2>2, <2>3, BornKept
  <2>5. Told(t.p)'
    BY <2>1, <2>2, <2>3 DEF Told
  <2>6. Undisturbed(t.p)'
    <3> SUFFICES ASSUME ~disturbed'[t.p] PROVE Fits(t.p)'
      BY DEF Undisturbed
    <3>1. RowFits(t.p) /\ HandlerFits(t, t.p) /\ Handling(t.p) = {t}
      BY <2>1 DEF Undisturbed, Fits
    <3>2. RowFits(t.p)'
      BY <2>1, <2>2, <2>3, <3>1 DEF RowFits, HandlerFits, Out, AtRest, DeskOpen
    <3>3. \A x \in Handling(t.p)' : HandlerFits(x, t.p)' /\ Handling(t.p)' = {x}
      BY <2>1, <2>2, <2>3, <3>1 DEF RowFits, HandlerFits, AtRest, DeskOpen
    <3> QED
      BY <3>2, <3>3 DEF Fits
  <2> QED
    BY <2>4, <2>5, <2>6
<1>5. CASE RefundRejects(t)
  <2>1. Handling(t.p)' = Handling(t.p) \ {t} /\ disturbed' = disturbed
    BY <1>5, AfterEnd DEF RefundRejects
  <2>2. /\ status'[t.p] = "REJECTED" /\ gross' = gross /\ route' = route /\ gateway' = gateway
        /\ SameDesk(t.p) /\ SameOut(t.p)
    BY <1>5 DEF RefundRejects, SetStatus, OneMoreSend, TypeInv, TypeOK, SameDesk, SameOut
  <2> USE DEF SameDesk, SameOut
  <2>3. t.at = "reject" /\ refunds[t.p] >= 1 /\ status[t.p] # "none" /\ t.amount = gross[t.p]
        /\ sends[t.p] \in Nat /\ refunds[t.p] \in Nat
    BY <1>5, Knows DEF RefundRejects, TypeInv, TypeOK, Told
  <2>4. Born(t.p)'
    BY <2>1, <2>2, <2>3, BornKept
  <2>5. Told(t.p)'
    BY <2>1, <2>2, <2>3 DEF Told
  <2>6. Undisturbed(t.p)'
    <3> SUFFICES ASSUME ~disturbed'[t.p] PROVE Fits(t.p)'
      BY DEF Undisturbed
    <3>1. RowFits(t.p) /\ HandlerFits(t, t.p) /\ Handling(t.p) = {t}
      BY <2>1 DEF Undisturbed, Fits
    <3>2. RowFits(t.p)'
      BY <2>1, <2>2, <2>3, <3>1 DEF RowFits, HandlerFits, Out, AtRest, DeskOpen
    <3>3. \A x \in Handling(t.p)' : HandlerFits(x, t.p)' /\ Handling(t.p)' = {x}
      BY <2>1, <2>2, <2>3, <3>1 DEF RowFits, HandlerFits, AtRest, DeskOpen
    <3> QED
      BY <3>2, <3>3 DEF Fits
  <2> QED
    BY <2>4, <2>5, <2>6
<1>6. CASE RequestReopens(t) /\ Return(t) /\ (momo[t.p] = "none" \/ t.route = "momo")
  <2>1. Handling(t.p)' = Handling(t.p) \ {t} /\ disturbed' = disturbed
    BY <1>6, AfterEnd DEF RequestReopens
  <2>2. /\ status'[t.p] = "PENDING" /\ route'[t.p] = t.route /\ gross' = gross /\ gateway' = gateway
        /\ SameDesk(t.p) /\ SameOut(t.p)
    BY <1>6 DEF RequestReopens, SetStatus, OneMoreSend, TypeInv, TypeOK, SameDesk, SameOut
  <2> USE DEF SameDesk, SameOut
  <2>3. t.at = "reopen" /\ (momo[t.p] = "none" \/ t.route = "momo") /\ status[t.p] # "none"
        /\ t.amount = gross[t.p]
        /\ sends[t.p] \in Nat /\ refunds[t.p] \in Nat
    BY <1>6, Knows DEF RequestReopens, TypeInv, TypeOK
  <2>4. Born(t.p)'
    BY <2>1, <2>2, <2>3, BornKept
  <2>5. Told(t.p)'
    BY <2>1, <2>2, <2>3 DEF Told
  <2>6. Undisturbed(t.p)'
    <3> SUFFICES ASSUME ~disturbed'[t.p] PROVE Fits(t.p)'
      BY DEF Undisturbed
    <3>1. RowFits(t.p) /\ HandlerFits(t, t.p) /\ Handling(t.p) = {t}
      BY <2>1 DEF Undisturbed, Fits
    <3>2. RowFits(t.p)'
      BY <2>1, <2>2, <2>3, <3>1 DEF RowFits, HandlerFits, Out, AtRest, DeskOpen
    <3>3. \A x \in Handling(t.p)' : HandlerFits(x, t.p)' /\ Handling(t.p)' = {x}
      BY <2>1, <2>2, <2>3, <3>1 DEF RowFits, HandlerFits, AtRest, DeskOpen
    <3> QED
      BY <3>2, <3>3 DEF Fits
  <2> QED
    BY <2>4, <2>5, <2>6
<1>7. CASE RequestReopens(t) /\ LoseTrack(t)
  <2>1. Handling(t.p)' = Handling(t.p) \ {t} /\ disturbed'[t.p]
    BY <1>7, AfterEnd DEF RequestReopens
  <2>2. /\ status'[t.p] = "PENDING" /\ route'[t.p] = t.route /\ gross' = gross /\ gateway' = gateway
        /\ SameDesk(t.p) /\ SameOut(t.p)
    BY <1>7 DEF RequestReopens, SetStatus, OneMoreSend, TypeInv, TypeOK, SameDesk, SameOut
  <2> USE DEF SameDesk, SameOut
  <2>3. t.at = "reopen" /\ status[t.p] # "none" /\ t.amount = gross[t.p]
        /\ sends[t.p] \in Nat /\ refunds[t.p] \in Nat
    BY <1>7, Knows DEF RequestReopens, TypeInv, TypeOK
  <2>4. Born(t.p)'
    BY <2>1, <2>2, <2>3, BornKept
  <2>5. Told(t.p)'
    BY <2>1, <2>2, <2>3 DEF Told
  <2>6. Undisturbed(t.p)'
    BY <2>1 DEF Undisturbed
  <2> QED
    BY <2>4, <2>5, <2>6
<1>8. CASE TakeCommits(t)
  <2>1. Handling(t.p)' = Handling(t.p) \ {t} /\ disturbed' = disturbed
    BY <1>8, AfterEnd DEF TakeCommits
  <2>2. /\ SamePayout(t.p) /\ SameOut(t.p)
        /\ agent'[t.p] = t.agent /\ momo'[t.p] = "UNDER_PROCESS"
        /\ claimedBy'[t.p] = claimedBy[t.p] \cup {t.agent}
    BY <1>8 DEF TakeCommits, SetStatus, OneMoreSend, TypeInv, TypeOK, SamePayout, SameOut
  <2> USE DEF SamePayout, SameOut
  <2>3. t.at = "take" /\ status[t.p] # "none" /\ t.amount = gross[t.p]
        /\ sends[t.p] \in Nat /\ refunds[t.p] \in Nat
    BY <1>8, Knows DEF TakeCommits, TypeInv, TypeOK
  <2>4. Born(t.p)'
    BY <2>1, <2>2, <2>3, BornKept
  <2>5. Told(t.p)'
    BY <2>1, <2>2, <2>3 DEF Told
  <2>6. Undisturbed(t.p)'
    <3> SUFFICES ASSUME ~disturbed'[t.p] PROVE Fits(t.p)'
      BY DEF Undisturbed
    <3>1. RowFits(t.p) /\ HandlerFits(t, t.p) /\ Handling(t.p) = {t}
      BY <2>1 DEF Undisturbed, Fits
    <3>2. RowFits(t.p)'
      BY <2>1, <2>2, <2>3, <3>1 DEF RowFits, HandlerFits, Out, AtRest, DeskOpen
    <3>3. \A x \in Handling(t.p)' : HandlerFits(x, t.p)' /\ Handling(t.p)' = {x}
      BY <2>1, <2>2, <2>3, <3>1 DEF RowFits, HandlerFits, AtRest, DeskOpen
    <3> QED
      BY <3>2, <3>3 DEF Fits
  <2> QED
    BY <2>4, <2>5, <2>6
<1>9. CASE CompleteCommits(t)
  <2>1. Handling(t.p)' = Handling(t.p) \ {t} /\ disturbed' = disturbed
    BY <1>9, AfterEnd DEF CompleteCommits
  <2>2. /\ status'[t.p] = "PAID" /\ gross' = gross /\ route' = route /\ gateway' = gateway
        /\ agent'[t.p] = t.agent /\ momo'[t.p] = "COMPLETED" /\ claimedBy' = claimedBy
        /\ transfer' = transfer /\ refunds' = refunds
        /\ sends'[t.p] = IF momo[t.p] = "COMPLETED" THEN sends[t.p] ELSE sends[t.p] + 1
    BY <1>9 DEF CompleteCommits, SetStatus, OneMoreSend, TypeInv, TypeOK
  <2>3. t.at = "complete" /\ status[t.p] # "none" /\ t.amount = gross[t.p]
        /\ sends[t.p] \in Nat /\ refunds[t.p] \in Nat
    BY <1>9, Knows DEF CompleteCommits, TypeInv, TypeOK
  <2>4. Born(t.p)'
    BY <2>1, <2>2, <2>3, BornKept
  <2>5. Told(t.p)'
    BY <2>1, <2>2, <2>3 DEF Told
  <2>6. Undisturbed(t.p)'
    <3> SUFFICES ASSUME ~disturbed'[t.p] PROVE Fits(t.p)'
      BY DEF Undisturbed
    <3>1. RowFits(t.p) /\ HandlerFits(t, t.p) /\ Handling(t.p) = {t}
      BY <2>1 DEF Undisturbed, Fits
    <3>2. RowFits(t.p)'
      BY <2>1, <2>2, <2>3, <3>1 DEF RowFits, HandlerFits, Out, AtRest, DeskOpen
    <3>3. \A x \in Handling(t.p)' : HandlerFits(x, t.p)' /\ Handling(t.p)' = {x}
      BY <2>1, <2>2, <2>3, <3>1 DEF RowFits, HandlerFits, AtRest, DeskOpen
    <3> QED
      BY <3>2, <3>3 DEF Fits
  <2> QED
    BY <2>4, <2>5, <2>6
<1>10. CASE Crash(t) /\ LoseTrack(t) /\ t.at \in {"markPaid", "markApproved", "reject"}
  <2>1. Handling(t.p)' = Handling(t.p) \ {t} /\ disturbed'[t.p]
    BY <1>10, AfterEnd DEF Crash
  <2>2. /\ SamePayout(t.p) /\ SameDesk(t.p) /\ SameOut(t.p)
    BY <1>10 DEF Crash, SetStatus, OneMoreSend, TypeInv, TypeOK, SamePayout, SameDesk, SameOut
  <2> USE DEF SamePayout, SameDesk, SameOut
  <2>3. t.at \in {"markPaid", "markApproved", "reject"} /\ status[t.p] # "none"
        /\ t.amount = gross[t.p]
        /\ sends[t.p] \in Nat /\ refunds[t.p] \in Nat
    BY <1>10, Knows DEF Crash, TypeInv, TypeOK
  <2>4. Born(t.p)'
    BY <2>1, <2>2, <2>3, BornKept
  <2>5. Told(t.p)'
    BY <2>1, <2>2, <2>3 DEF Told
  <2>6. Undisturbed(t.p)'
    BY <2>1 DEF Undisturbed
  <2> QED
    BY <2>4, <2>5, <2>6
<1>11. CASE Crash(t) /\ Return(t) /\ t.at \notin {"markPaid", "markApproved", "reject"}
  BY <1>11, EndKeeps DEF Crash, SamePayout, SameDesk, SameOut
<1> QED
  <2>1. CASE RequestReopens(t)
    BY <1>6, <1>7, <2>1 DEF RequestReopens
  <2>2. CASE Crash(t)
    BY <1>10, <1>11, <2>2 DEF Crash
  <2> QED
    BY <1>1, <1>2, <1>3, <1>4, <1>5, <2>1, <1>8, <1>9, <2>2 DEF OtherSteps

\* A handler that starts changes nothing, and is alone if the payout is
\* undisturbed.
LEMMA StartIsKept ==
    ASSUME TypeInv, NEW u \in Task, StartWith(u), NEW p, p = u.p,
           Born(p), Told(p), Undisturbed(p), SamePayout(p), SameDesk(p), SameOut(p),
           u.at \notin {"debit", "markPaid", "markApproved", "reject"},
           status[p] # "none", u.amount = gross[p], Fits(p) => HandlerFits(u, p)
    PROVE  Born(p)' /\ Told(p)' /\ Undisturbed(p)'
<1>1. /\ Handling(p)' = Handling(p) \cup {u}
      /\ ~disturbed'[p] => ~disturbed[p] /\ Handling(p) = {}
  BY AfterStart
<1> USE <1>1 DEF SamePayout, SameDesk, SameOut
<1>2. Born(p)'
  BY DEF Born
<1>3. Told(p)'
  BY DEF Told
<1>4. Undisturbed(p)'
  BY DEF Undisturbed, Fits, RowFits, HandlerFits, Out, AtRest, DeskOpen
<1> QED
  BY <1>2, <1>3, <1>4

\* The invariants are kept when a handler starts ...
LEMMA StartKeeps ==
    ASSUME TypeInv, NEW w \in Workers, NEW p \in Rows, Born(p), Told(p), Undisturbed(p),
           Starts(w, p)
    PROVE  Born(p)' /\ Told(p)' /\ Undisturbed(p)'
<1> USE DEF walletVars, payoutVars, deskVars, outVars
<1>1. ASSUME NEW s \in Steps
      PROVE  LET u == TaskOn(w, p, s) IN
             /\ u \in Task /\ u.p = p /\ u.at = s /\ u.amount = gross[p] /\ u.route = route[p]
             /\ u.agent = NoAgent
  BY DEF TaskOn, Task, TypeInv, TypeOK
<1>2. SamePayout(p) /\ SameDesk(p) /\ SameOut(p)
  BY DEF SamePayout, SameDesk, SameOut, Starts, WithdrawReads, FlushPicks, AdminApproves,
       CancelReads,
         RefundReads, RequestReads, TakeReads, CompleteReads
<1>3. CASE WithdrawReads(w, p)
  <2>1. PICK a \in Amounts, r \in Routes :
          StartWith([TaskOn(w, p, "debit") EXCEPT
                       !.amount = a, !.route = r, !.seen = available[Owner[p]]])
    BY <1>3 DEF WithdrawReads
  <2> DEFINE u == [TaskOn(w, p, "debit") EXCEPT
                     !.amount = a, !.route = r, !.seen = available[Owner[p]]]
  <2>2. a \in Nat /\ r \in AllRoutes /\ available[Owner[p]] \in Nat
    BY WithdrawAssumption DEF TypeInv, TypeOK, WalletTypeOK
  <2>3. u \in Task /\ u.p = p /\ u.at = "debit"
    BY <2>2 DEF TaskOn, Task, Steps, TypeInv, TypeOK
  <2> HIDE DEF u
  <2>4. Handling(p) = {} /\ status[p] = "none"
    BY <1>3 DEF WithdrawReads, Running, Handling
  <2>5. Handling(p)' = {u} /\ (~disturbed'[p] => ~disturbed[p])
    BY <2>1, <2>3, <2>4, AfterStart DEF u
  <2> USE <1>2 DEF SamePayout, SameDesk, SameOut
  <2>6. Born(p)'
    BY <2>3, <2>4, <2>5 DEF Born, Unborn
  <2>7. Told(p)'
    BY <2>3, <2>5 DEF Told
  <2>8. Undisturbed(p)'
    BY <2>3, <2>4, <2>5 DEF Undisturbed, Fits, RowFits, HandlerFits, Out, AtRest, DeskOpen
  <2> QED
    BY <2>6, <2>7, <2>8
<1>4. CASE FlushPicks(w, p)
  <2>1. HandlerFits(TaskOn(w, p, "approve"), p)
    BY <1>1 DEF HandlerFits, Steps
  <2> QED
    BY <1>1, <1>2, <1>4, <2>1, StartIsKept DEF FlushPicks, Start, Steps
<1>5. CASE AdminApproves(w, p)
  <2>1. HandlerFits(TaskOn(w, p, "dispatch"), p)
    BY <1>1, <1>5 DEF AdminApproves, HandlerFits, Steps
  <2> QED
    BY <1>1, <1>2, <1>5, <2>1, StartIsKept DEF AdminApproves, Start, Steps
<1>6. CASE CancelReads(w, p)
  <2>1. HandlerFits(TaskOn(w, p, "claim"), p)
    BY <1>1 DEF HandlerFits, Steps
  <2> QED
    BY <1>1, <1>2, <1>6, <2>1, StartIsKept DEF CancelReads, Start, Steps
<1>7. CASE RefundReads(w, p) /\ On("refund")
  <2>1. HandlerFits(TaskOn(w, p, "readWallet"), p)
    BY <1>1, <1>7 DEF RefundReads, HandlerFits, Steps, On
  <2> QED
    BY <1>1, <1>2, <1>7, <2>1, StartIsKept DEF RefundReads, Start, Steps
<1>8. CASE RequestReads(w, p)
  <2>1. PICK r \in {"trc20", "momo"} : StartWith([TaskOn(w, p, "reopen") EXCEPT !.route = r])
    BY <1>8 DEF RequestReads
  <2> DEFINE u == [TaskOn(w, p, "reopen") EXCEPT !.route = r]
  <2>2. u \in Task /\ u.p = p /\ u.at = "reopen" /\ u.amount = gross[p]
    BY DEF TaskOn, Task, Steps, AllRoutes, TypeInv, TypeOK
  <2>3. StartWith(u) /\ status[p] = "PENDING"
    BY <1>8, <2>1 DEF RequestReads
  <2> HIDE DEF u
  <2>4. HandlerFits(u, p)
    BY <2>2, <2>3 DEF HandlerFits
  <2> QED
    BY <1>2, <2>2, <2>3, <2>4, StartIsKept
<1>9. ASSUME NEW g \in Agents \cup {NoAgent}, NEW s \in {"take", "complete"},
             DeskOpen(p), StartWith([TaskOn(w, p, s) EXCEPT !.agent = g]),
             s = "take" => g # NoAgent, agent[p] \in {NoAgent, g}
      PROVE  Born(p)' /\ Told(p)' /\ Undisturbed(p)'
  <2> DEFINE u == [TaskOn(w, p, s) EXCEPT !.agent = g]
  <2>1. u \in Task /\ u.p = p /\ u.at = s /\ u.amount = gross[p] /\ u.agent = g
    BY DEF TaskOn, Task, Steps, TypeInv, TypeOK
  <2>2. StartWith(u)
    BY <1>9
  <2> HIDE DEF u
  <2>3. HandlerFits(u, p)
    BY <1>9, <2>1 DEF HandlerFits
  <2>4. status[p] # "none"
    BY <1>9 DEF Born, Unborn, DeskOpen
  <2> QED
    BY <1>2, <2>1, <2>2, <2>3, <2>4, StartIsKept
<1>10. CASE \E g \in Agents : TakeReads(w, p, g)
  BY <1>9, <1>10, WithdrawAssumption DEF TakeReads, FreeFor
<1>11. CASE \E g \in Agents \cup {NoAgent} : CompleteReads(w, p, g)
  <2>1. agent[p] \in Agents \cup {NoAgent}
    BY DEF TypeInv, TypeOK
  <2> QED
    BY <1>9, <1>11, <2>1 DEF CompleteReads, FreeFor
<1> QED
  BY <1>3, <1>4, <1>5, <1>6, <1>7, <1>8, <1>10, <1>11 DEF Starts

\* ... and when a gateway moves money or calls back.
LEMMA OutsideKeeps ==
    ASSUME TypeInv, NEW p \in Rows, Born(p), Told(p), Undisturbed(p), Outside(p)
    PROVE  Born(p)' /\ Told(p)' /\ Undisturbed(p)'
<1> USE DEF walletVars, payoutVars, deskVars, outVars, taskVars
<1>1. ASSUME NEW s \in {"PAID", "REJECTED"}, Callback(p, s), status[p] # "none",
             s = "PAID" => sends[p] >= 1 /\ (transfer[p] \in {"none", "delivered"} \/ disturbed[p]),
             s = "PAID" => gateway[p] \/ transfer[p] = "delivered",
             s = "REJECTED" => transfer[p] = "bounced"
      PROVE  Born(p)' /\ Told(p)' /\ Undisturbed(p)'
  <2>1. /\ status'[p] = s /\ gross' = gross /\ route' = route /\ gateway' = gateway
        /\ SameDesk(p) /\ SameOut(p)
        /\ Handling(p)' = Handling(p)
        /\ ~disturbed'[p] => ~disturbed[p] /\ Handling(p) = {}
    BY <1>1 DEF Callback, SetStatus, SameDesk, SameOut, TypeInv, TypeOK, Running, Handling
  <2> USE DEF SameDesk, SameOut
  <2>2. Born(p)'
    BY <1>1, <2>1 DEF Born
  <2>3. Told(p)'
    BY <1>1, <2>1 DEF Told
  <2>4. sends[p] \in Nat /\ refunds[p] \in Nat
    BY DEF TypeInv, TypeOK
  <2>5. Undisturbed(p)'
    <3> SUFFICES ASSUME ~disturbed'[p] PROVE Fits(p)'
      BY DEF Undisturbed
    <3>1. RowFits(p) /\ Handling(p) = {}
      BY <2>1 DEF Undisturbed, Fits
    <3>2. RowFits(p)'
      BY <1>1, <2>1, <2>4, <3>1 DEF RowFits, Out, AtRest, DeskOpen
    <3> QED
      BY <2>1, <3>1, <3>2 DEF Fits
  <2> QED
    BY <2>2, <2>3, <2>5
<1>2. CASE PayoutIpn(p)
  <2>1. gateway[p] /\ Callback(p, "PAID")
    BY <1>2 DEF PayoutIpn
  <2>2. status[p] # "none" /\ sends[p] >= 1
    BY <2>1 DEF Born, Unborn, Told
  <2>3. transfer[p] = "none" \/ disturbed[p]
    BY <2>1 DEF Undisturbed, Fits, RowFits
  <2> QED
    BY <1>1, <2>1, <2>2, <2>3
<1>3. CASE TransferWebhook(p)
  <2>1. status[p] # "none"
    BY <1>3 DEF TransferWebhook, Born, Unborn
  <2>2. transfer[p] = "delivered" => sends[p] >= 1
    BY DEF Told
  <2> QED
    BY <1>1, <1>3, <2>1, <2>2 DEF TransferWebhook
<1>4. CASE FlutterwaveSettles(p)
  <2>1. /\ SamePayout(p) /\ SameDesk(p) /\ refunds' = refunds /\ tasks' = tasks
        /\ disturbed' = disturbed
        /\ transfer[p] = "sent"
        /\ \/ transfer'[p] = "delivered" /\ sends'[p] = sends[p] + 1
           \/ transfer'[p] = "bounced" /\ sends'[p] = sends[p]
    BY <1>4 DEF FlutterwaveSettles, SamePayout, SameDesk, TypeInv, TypeOK
  <2>2. Handling(p)' = Handling(p)
    BY <2>1 DEF Handling
  <2>3. sends[p] \in Nat /\ refunds[p] \in Nat
    BY DEF TypeInv, TypeOK
  <2> USE DEF SamePayout, SameDesk
  <2>4. Born(p)'
    BY <2>1, <2>2 DEF Born, Unborn
  <2>5. Told(p)'
    BY <2>1, <2>2, <2>3 DEF Told
  <2>6. Undisturbed(p)'
    <3> SUFFICES ASSUME ~disturbed[p] PROVE Fits(p)'
      BY <2>1 DEF Undisturbed
    <3>1. RowFits(p) /\ \A t \in Handling(p) : HandlerFits(t, p) /\ Handling(p) = {t}
      BY DEF Undisturbed, Fits
    <3>2. RowFits(p)'
      BY <2>1, <2>2, <2>3, <3>1 DEF RowFits, Out, AtRest, DeskOpen
    <3>3. \A t \in Handling(p)' : HandlerFits(t, p)' /\ Handling(p)' = {t}
      BY <2>1, <2>2, <3>1 DEF HandlerFits, RowFits, AtRest, DeskOpen
    <3> QED
      BY <3>2, <3>3 DEF Fits
  <2> QED
    BY <2>4, <2>5, <2>6
<1> QED
  BY <1>2, <1>3, <1>4 DEF Outside

-----------------------------------------------------------------------------
\* What a step works on, if anything.
WorksOn(p) ==
    \/ \E w \in Workers : Starts(w, p)
    \/ \E t \in tasks : t.p = p /\ (Continues(t) \/ Fails(t))
    \/ Outside(p)

\* Every step is of that form, or changes nothing.
LEMMA NextWorksOn ==
    ASSUME TypeInv, [Next]_vars
    PROVE  UNCHANGED vars \/ \E p \in Rows : WorksOn(p)
<1>1. ASSUME NEW t \in tasks PROVE t.p \in Rows
  BY DEF TypeInv, TypeOK, Task
<1> QED
  BY <1>1 DEF Next, WorksOn

\* It keeps the invariants of that payout.
LEMMA WorkKeeps ==
    ASSUME TypeInv, NEW p \in Rows, Born(p), Told(p), Undisturbed(p), WorksOn(p)
    PROVE  Born(p)' /\ Told(p)' /\ Undisturbed(p)'
BY StartKeeps, WithdrawKeeps, SendKeeps, OtherKeeps, OutsideKeeps DEF WorksOn, Continues, Fails

\* No payout exists at first, and no handler is at work.
LEMMA InitPayout == Init => PayoutInv
<1> SUFFICES ASSUME Init, NEW p \in Rows PROVE Born(p) /\ Told(p) /\ Undisturbed(p)
  BY DEF PayoutInv
<1>1. /\ status[p] = "none" /\ gross[p] = 0 /\ gateway[p] = FALSE /\ momo[p] = "none"
      /\ agent[p] = NoAgent /\ claimedBy[p] = {} /\ transfer[p] = "none" /\ sends[p] = 0
      /\ refunds[p] = 0 /\ Handling(p) = {}
  BY DEF Init, Handling
<1> QED
  BY <1>1 DEF Born, Unborn, Told, Undisturbed, Fits, RowFits, Out, AtRest, DeskOpen

\* Every step keeps the invariants of every payout.
LEMMA StepPayout == TypeInv /\ PayoutInv /\ [Next]_vars => PayoutInv'
<1> SUFFICES ASSUME TypeInv, PayoutInv, [Next]_vars, NEW q \in Rows
             PROVE  Born(q)' /\ Told(q)' /\ Undisturbed(q)'
  BY DEF PayoutInv
<1> Born(q) /\ Told(q) /\ Undisturbed(q)
  BY DEF PayoutInv
<1>1. CASE UNCHANGED vars
  BY <1>1, Framed DEF Same, Handling, vars, payoutVars, deskVars, outVars, taskVars
<1>2. ASSUME NEW p \in Rows, WorksOn(p)
      PROVE  Born(q)' /\ Told(q)' /\ Undisturbed(q)'
  <2>1. CASE q = p
    BY <1>2, <2>1, WorkKeeps
  <2>2. CASE q # p
    BY <1>2, <2>2, Elsewhere, Framed DEF WorksOn
  <2> QED
    BY <2>1, <2>2
<1> QED
  BY <1>1, <1>2, NextWorksOn

\* Every reachable state satisfies the inductive invariants.
LEMMA SpecPayout == Spec => [](TypeInv /\ PayoutInv)
BY InitTyped, StepTyped, InitPayout, StepPayout, PTL DEF Spec

\* The status of a payout tells where the money is, for every interleaving of the
\* handlers of payout.service.ts and of the desk, their crashes and lost answers:
\* each writes PAID, APPROVED or REJECTED after the money has moved.
THEOREM StatusIsTrue == Spec => []StatusTellsMoney
<1>1. PayoutInv => StatusTellsMoney
  BY DEF PayoutInv, Told, StatusTellsMoney
<1> QED
  BY <1>1, SpecPayout, PTL

\* A payout whose handlers (approveAndSendPayout, the flush, the desk,
\* cancellation, refund) neither overlapped nor lost track of a transfer is paid or
\* refunded once.
THEOREM SettledAtMostOnce == Spec => []SettledOnce
<1>1. TypeInv /\ PayoutInv => SettledOnce
  BY DEF PayoutInv, Undisturbed, Fits, RowFits, Out, SettledOnce, TypeInv, TypeOK
<1> QED
  BY <1>1, SpecPayout, PTL

\* Such a payout is promised to one cash agent by the desk: the agent that takes
\* its row (cash-agents.service.ts) is the only one that ever claims it.
THEOREM OneAgent == Spec => []OneAgentPerPayout
<1>1. ASSUME PayoutInv, NEW p \in Rows, ~disturbed[p]
      PROVE  Cardinality(claimedBy[p]) <= 1
  <2>1. claimedBy[p] \subseteq {agent[p]}
    BY <1>1 DEF PayoutInv, Undisturbed, Fits, RowFits
  <2>2. claimedBy[p] = {} \/ claimedBy[p] = {agent[p]}
    BY <2>1
  <2>3. Cardinality({agent[p]}) = 1 /\ Cardinality({}) = 0
    BY FS_EmptySet, FS_Singleton
  <2> QED
    BY <2>2, <2>3
<1>2. PayoutInv => OneAgentPerPayout
  BY <1>1 DEF OneAgentPerPayout
<1> QED
  BY <1>2, SpecPayout, PTL

-----------------------------------------------------------------------------
\* What a step on an undisturbed payout may not do to it.
Final(p) ==
    /\ status[p] \in {"PAID", "REJECTED"} /\ (Solo \/ refunds[p] = 0) => status'[p] = status[p]
    /\ momo[p] = "CANCELLED" => momo'[p] = "CANCELLED"

\* A handler alone on its payout does not leave a final status.
LEMMA HandlersKeepFinal ==
    ASSUME TypeInv, NEW t \in tasks, Born(t.p), Told(t.p), Fits(t.p), Continues(t) \/ Fails(t)
    PROVE  Final(t.p)
<1> t \in Task /\ t.p \in Rows /\ t \in Handling(t.p)
  BY DEF TypeInv, TypeOK, Task, Handling
<1>1. /\ HandlerFits(t, t.p) /\ RowFits(t.p)
      /\ t.at = "debit" => status[t.p] = "none" /\ momo[t.p] = "none"
  BY DEF Fits, Born, Unborn
<1> USE <1>1 DEF Final, walletVars, payoutVars, deskVars, outVars, At, TypeInv, TypeOK
<1>2. ASSUME status' = status, momo' = momo PROVE Final(t.p)
  BY <1>2
<1>3. CASE WithdrawSteps(t)
  <2>1. CASE WithdrawCommits(t)
    BY <2>1 DEF WithdrawCommits
  <2>2. CASE MomoQuoteFails(t)
    BY <1>2, <2>2 DEF MomoQuoteFails
  <2>3. CASE MomoP2pCreated(t)
    BY <2>3 DEF MomoP2pCreated, HandlerFits
  <2>4. CASE MomoEmailed(t)
    BY <2>4 DEF MomoEmailed, HandlerFits, DeskOpen
  <2> QED
    BY <1>3, <2>1, <2>2, <2>3, <2>4 DEF WithdrawSteps
<1>4. CASE SendSteps(t) \/ ReplyLost(t)
  <2>1. CASE SettleExternally(t) \/ PayMomoByHand(t) \/ MarkPaid(t) \/ MarkApproved(t)
    <3>1. t.at \in {"dispatch", "markPaid", "markApproved"}
      BY <2>1 DEF SettleExternally, PayMomoByHand, MarkPaid, MarkApproved
    <3>2. status[t.p] = "PENDING"
      BY <3>1 DEF HandlerFits
    <3>3. momo' = momo
      BY <2>1 DEF SettleExternally, PayMomoByHand, MarkPaid, MarkApproved
    <3> QED
      BY <3>2, <3>3
  <2>2. CASE ApproveReads(t) \/ SendFails(t)
    BY <1>2, <2>2 DEF ApproveReads, SendFails
  <2>3. CASE Dispatch(t) \/ ReplyLost(t)
    BY <1>2, <2>3 DEF Dispatch, ReplyLost, ChainSends, QueueTransfer, GatewayQueues
  <2> QED
    BY <1>4, <2>1, <2>2, <2>3 DEF SendSteps
<1>5. CASE OtherSteps(t) \/ Crash(t)
  <2>1. CASE CancelClaims(t) \/ RefundReadsWallet(t) \/ RefundCredits(t) \/ Crash(t)
    BY <1>2, <2>1 DEF CancelClaims, RefundReadsWallet, RefundCredits, Crash
  <2>2. CASE CancelCommits(t)
    BY <2>2 DEF CancelCommits, HandlerFits
  <2>3. CASE RefundRejects(t)
    BY <2>3 DEF RefundRejects, HandlerFits
  <2>4. CASE RequestReopens(t)
    BY <2>4 DEF RequestReopens, HandlerFits
  <2>5. CASE TakeCommits(t)
    BY <2>5 DEF TakeCommits, HandlerFits, DeskOpen
  <2>6. CASE CompleteCommits(t)
    <3>1. DeskOpen(t.p)
      BY <2>6 DEF CompleteCommits, HandlerFits
    <3>2. status[t.p] = "PENDING" \/ (refunds[t.p] = 1 /\ ~Solo)
      BY <3>1 DEF RowFits
    <3> QED
      BY <3>1, <3>2 DEF DeskOpen
  <2> QED
    BY <1>5, <2>1, <2>2, <2>3, <2>4, <2>5, <2>6 DEF OtherSteps
<1> QED
  BY <1>3, <1>4, <1>5 DEF Continues, Fails

\* Nor does a callback of a gateway.
LEMMA CallbacksKeepFinal ==
    ASSUME TypeInv, NEW p \in Rows, RowFits(p), Outside(p)
    PROVE  Final(p)
<1> USE DEF Final, walletVars, payoutVars, deskVars, outVars, TypeInv, TypeOK
<1>1. CASE PayoutIpn(p)
  BY <1>1 DEF PayoutIpn, Callback, SetStatus, RowFits
<1>2. CASE TransferWebhook(p)
  BY <1>2 DEF TransferWebhook, Callback, SetStatus, RowFits
<1>3. CASE FlutterwaveSettles(p)
  BY <1>3 DEF FlutterwaveSettles
<1> QED
  BY <1>1, <1>2, <1>3 DEF Outside

\* Nor any step after which the payout is still undisturbed.
LEMMA StepKeepsFinal ==
    ASSUME TypeInv, PayoutInv, [Next]_vars, NEW q \in Rows, ~disturbed'[q]
    PROVE  Final(q)
<1> Born(q) /\ Told(q) /\ Undisturbed(q)
  BY DEF PayoutInv
<1>1. CASE UNCHANGED vars
  BY <1>1 DEF Final, vars, payoutVars, deskVars
<1>2. ASSUME NEW p \in Rows, WorksOn(p), q # p
      PROVE  Final(q)
  BY <1>2, Elsewhere DEF WorksOn, Same, Final
<1>3. CASE Outside(q)
  <2>1. ~disturbed[q]
    BY <1>3 DEF Outside, PayoutIpn, TransferWebhook, Callback, FlutterwaveSettles, taskVars,
                TypeInv, TypeOK
  <2> QED
    BY <1>3, <2>1, CallbacksKeepFinal DEF Undisturbed, Fits
<1>4. ASSUME NEW t \in tasks, t.p = q, Continues(t) \/ Fails(t)
      PROVE  Final(q)
  <2>1. disturbed' = disturbed \/ LoseTrack(t)
    BY <1>4 DEF Continues, Fails, WithdrawSteps, SendSteps, OtherSteps, WithdrawCommits,
         MomoQuoteFails, MomoP2pCreated, MomoEmailed, ApproveReads, SettleExternally, SendFails,
         PayMomoByHand, Dispatch, MarkPaid, MarkApproved, CancelClaims, CancelCommits,
         RefundReadsWallet, RefundCredits, RefundRejects, RequestReopens, TakeCommits,
         CompleteCommits, ReplyLost, Crash, Move, Continue, Return
  <2>2. ~disturbed[q]
    BY <1>4, <2>1 DEF LoseTrack, TypeInv, TypeOK
  <2> QED
    BY <1>4, <2>2, HandlersKeepFinal DEF Undisturbed
<1>5. ASSUME NEW w \in Workers, Starts(w, q)
      PROVE  Final(q)
  BY <1>5 DEF Starts, Final, WithdrawReads, FlushPicks, AdminApproves, CancelReads, RefundReads,
              RequestReads, TakeReads, CompleteReads, payoutVars, deskVars
<1> QED
  BY <1>1, <1>2, <1>3, <1>4, <1>5, NextWorksOn DEF WorksOn

\* A payout that is PAID or REJECTED stays so, unless its handlers overlap or an
\* admin refunds it (refundWalletWithdrawal): no late handler or callback takes a
\* final status back.
THEOREM SettledStaysSettled == Spec => SettledIsFinal
<1>1. TypeInv /\ PayoutInv /\ [Next]_vars =>
        [\A p \in Rows :
           /\ status[p] \in {"PAID", "REJECTED"} /\ ~disturbed'[p]
           /\ Solo \/ refunds[p] = 0
           => status'[p] = status[p]]_vars
  BY StepKeepsFinal DEF Final
<1> QED
  BY <1>1, SpecPayout, PTL DEF Spec, SettledIsFinal

\* The desk never takes up a withdrawal again that its user cancelled
\* (cancelPendingWithdrawalByUser), unless handlers overlapped: no step reopens its
\* row.
THEOREM CancelledIsFinal == Spec => CancelledStaysClosed
<1>1. TypeInv /\ PayoutInv /\ [Next]_vars =>
        [\A p \in Rows : momo[p] = "CANCELLED" /\ ~disturbed'[p] => momo'[p] = "CANCELLED"]_vars
  BY StepKeepsFinal DEF Final
<1> QED
  BY <1>1, SpecPayout, PTL DEF Spec, CancelledStaysClosed

-----------------------------------------------------------------------------
\* In Solo a refund is the last thing that happens to a payout, but for what
\* leaves its refunds alone.
LEMMA ClosedKept ==
    ASSUME NEW p, ClosedByRefund(p), refunds'[p] = refunds[p],
           \/ status'[p] = status[p]
           \/ Unlocked(p) /\ status'[p] \notin {"none", "PENDING"},
           \A x \in Handling(p)' :
             x \in Handling(p)
               \/ x.at \notin {"readWallet", "credit", "reject", "reopen", "release"}
    PROVE  ClosedByRefund(p)'
<1>1. Unlocked(p) => \A x \in Handling(p) : x.at # "release"
  BY DEF Unlocked, Handling
<1> QED
  BY <1>1 DEF ClosedByRefund

\* A handler that starts keeps that ...
LEMMA StartIsClosed ==
    ASSUME TypeInv, NEW p \in Rows, NEW w \in Workers, Starts(w, p), ClosedByRefund(p),
           Solo, "request" \notin Handlers
    PROVE  ClosedByRefund(p)'
<1> USE DEF walletVars, payoutVars, deskVars, outVars
<1>1. status' = status /\ refunds' = refunds
  BY DEF Starts, WithdrawReads, FlushPicks, AdminApproves, CancelReads, RefundReads, RequestReads,
         TakeReads, CompleteReads
<1>2. ASSUME NEW u \in Task, StartWith(u), u.p = p,
             u.at \notin {"readWallet", "credit", "reject", "reopen", "release"}
      PROVE  ClosedByRefund(p)'
  BY <1>1, <1>2, AfterStart, ClosedKept
<1>3. ASSUME NEW s \in Steps
      PROVE  TaskOn(w, p, s) \in Task /\ TaskOn(w, p, s).p = p /\ TaskOn(w, p, s).at = s
  BY DEF TaskOn, Task, TypeInv, TypeOK
<1>4. CASE WithdrawReads(w, p)
  <2>1. PICK a \in Amounts, r \in Routes :
          StartWith([TaskOn(w, p, "debit") EXCEPT
                       !.amount = a, !.route = r, !.seen = available[Owner[p]]])
    BY <1>4 DEF WithdrawReads
  <2> DEFINE u == [TaskOn(w, p, "debit") EXCEPT
                     !.amount = a, !.route = r, !.seen = available[Owner[p]]]
  <2>2. a \in Nat /\ r \in AllRoutes /\ available[Owner[p]] \in Nat
    BY WithdrawAssumption DEF TypeInv, TypeOK, WalletTypeOK
  <2>3. u \in Task /\ u.p = p /\ u.at = "debit"
    BY <2>2 DEF TaskOn, Task, Steps, TypeInv, TypeOK
  <2>4. StartWith(u)
    BY <2>1
  <2> HIDE DEF u
  <2> QED
    BY <1>2, <2>3, <2>4
<1>5. CASE FlushPicks(w, p) \/ CancelReads(w, p)
  BY <1>2, <1>3, <1>5 DEF FlushPicks, CancelReads, Start, Steps
<1>6. CASE \E g \in Agents \cup {NoAgent} : CompleteReads(w, p, g)
  <2>1. PICK g \in Agents \cup {NoAgent} : StartWith([TaskOn(w, p, "complete") EXCEPT !.agent = g])
    BY <1>6 DEF CompleteReads, TypeInv, TypeOK
  <2> DEFINE u == [TaskOn(w, p, "complete") EXCEPT !.agent = g]
  <2>2. u \in Task /\ u.p = p /\ u.at = "complete"
    BY DEF TaskOn, Task, Steps, TypeInv, TypeOK
  <2>3. StartWith(u)
    BY <2>1
  <2> HIDE DEF u
  <2> QED
    BY <1>2, <2>2, <2>3
<1> QED
  BY <1>4, <1>5, <1>6 DEF Starts, AdminApproves, RefundReads, TakeReads, On

\* ... and so does every step of a handler ...
LEMMA HandlersAreClosed ==
    ASSUME TypeInv, NEW t \in tasks, Born(t.p), ClosedByRefund(t.p), Continues(t) \/ Fails(t),
           Solo, "request" \notin Handlers
    PROVE  ClosedByRefund(t.p)'
<1> t \in Task /\ t.p \in Rows /\ t \in Handling(t.p) /\ refunds[t.p] \in Nat
  BY DEF TypeInv, TypeOK, Task, Handling
<1> USE DEF walletVars, payoutVars, deskVars, outVars, At
<1>1. t.at \notin {"readWallet", "credit", "reject", "reopen"}
  BY DEF ClosedByRefund
<1>2. ASSUME Return(t) \/ LoseTrack(t), refunds' = refunds,
             \/ status'[t.p] = status[t.p]
             \/ Unlocked(t.p) /\ status'[t.p] \notin {"none", "PENDING"}
      PROVE  ClosedByRefund(t.p)'
  BY <1>2, AfterEnd, ClosedKept
<1>3. ASSUME NEW s, Move(t, s), refunds' = refunds, status' = status,
             s \notin {"readWallet", "credit", "reject", "reopen", "release"}
      PROVE  ClosedByRefund(t.p)'
  BY <1>3, AfterStep, ClosedKept
<1>4. CASE WithdrawCommits(t)
  <2>1. Handling(t.p) = {t} /\ refunds[t.p] = 0
    BY <1>4 DEF WithdrawCommits, Born, Unborn
  <2>2. \A x \in Handling(t.p)' : x.at \in {"quote", "approve"}
    <3>1. Move(t, "quote") \/ Move(t, "approve") \/ Return(t)
      BY <1>4 DEF WithdrawCommits
    <3>2. ASSUME NEW s \in {"quote", "approve"}, Move(t, s)
          PROVE  \A x \in Handling(t.p)' : x.at = s
      BY <2>1, <3>2, AfterStep
    <3>3. Return(t) => Handling(t.p)' = {}
      BY <2>1, AfterEnd
    <3> QED
      BY <3>1, <3>2, <3>3
  <2>3. refunds'[t.p] = 0
    BY <1>4, <2>1 DEF WithdrawCommits
  <2> QED
    BY <2>2, <2>3 DEF ClosedByRefund
<1>5. CASE MomoQuoteFails(t) \/ MomoEmailed(t) \/ SendFails(t)
  BY <1>2, <1>5 DEF MomoQuoteFails, MomoEmailed, SendFails
<1>6. CASE MomoP2pCreated(t)
  BY <1>3, <1>6 DEF MomoP2pCreated
<1>7. CASE ApproveReads(t)
  <2> DEFINE u == [t EXCEPT !.at = "dispatch", !.route = route[t.p]]
  <2>1. u.p = t.p /\ u.at = "dispatch"
    BY DEF Task
  <2>2. status' = status /\ refunds' = refunds /\ (Return(t) \/ Continue(t, u))
    BY <1>7 DEF ApproveReads
  <2> HIDE DEF u
  <2> QED
    BY <1>2, <2>1, <2>2, AfterMove, ClosedKept
<1>8. CASE SettleExternally(t) \/ PayMomoByHand(t) \/ MarkPaid(t) \/ MarkApproved(t)
           \/ CompleteCommits(t) \/ TakeCommits(t)
  <2>1. Return(t) \/ LoseTrack(t)
    BY <1>8, Zenon DEF SettleExternally, PayMomoByHand, MarkPaid, MarkApproved, CompleteCommits,
         TakeCommits
  <2>2. refunds' = refunds
    BY <1>8 DEF SettleExternally, PayMomoByHand, MarkPaid, MarkApproved, CompleteCommits,
                TakeCommits, OneMoreSend
  <2>3. \/ status' = status
        \/ \E s \in {"PAID", "APPROVED"} : SetStatus(t.p, s)
    BY <1>8 DEF SettleExternally, PayMomoByHand, MarkPaid, MarkApproved, CompleteCommits,
         TakeCommits
  <2>4. \/ status'[t.p] = status[t.p]
        \/ Unlocked(t.p) /\ status'[t.p] \notin {"none", "PENDING"}
    BY <2>3 DEF SetStatus, TypeInv, TypeOK
  <2> QED
    BY <1>2, <2>1, <2>2, <2>4
<1>9. CASE Dispatch(t)
  BY <1>3, <1>9 DEF Dispatch, ChainSends, QueueTransfer, GatewayQueues, OneMoreSend
<1>10. CASE ReplyLost(t) \/ Crash(t)
  BY <1>2, <1>10 DEF ReplyLost, Crash, ChainSends, QueueTransfer, GatewayQueues, OneMoreSend
<1>11. CASE CancelClaims(t)
  <2> DEFINE u == [t EXCEPT !.at = "release", !.seen = available[Owner[t.p]]]
  <2>1. u.p = t.p /\ u.at = "release"
    BY DEF Task
  <2>2. /\ status' = status /\ refunds' = refunds /\ Unlocked(t.p)
        /\ Return(t) \/ (status[t.p] = "PENDING" /\ Continue(t, u))
    BY <1>11 DEF CancelClaims
  <2> HIDE DEF u
  <2>3. CASE Return(t)
    BY <1>2, <2>2, <2>3
  <2>4. CASE status[t.p] = "PENDING" /\ Continue(t, u)
    <3>1. Handling(t.p)' = (Handling(t.p) \ {t}) \cup {u}
      BY <2>1, <2>4, AfterMove
    <3>2. \A x \in Handling(t.p) : x.at # "release"
      BY <2>2 DEF Unlocked, Handling
    <3>3. refunds[t.p] = 0
      BY <2>4 DEF ClosedByRefund
    <3> QED
      BY <2>1, <2>2, <2>4, <3>1, <3>2, <3>3 DEF ClosedByRefund
  <2> QED
    BY <2>2, <2>3, <2>4
<1>12. CASE CancelCommits(t)
  <2>1. Handling(t.p)' = Handling(t.p) \ {t} /\ t.at = "release"
    BY <1>12, AfterEnd DEF CancelCommits
  <2>2. refunds'[t.p] = refunds[t.p] + 1 /\ status'[t.p] = "REJECTED"
    BY <1>12 DEF CancelCommits, TypeInv, TypeOK
  <2> QED
    BY <2>1, <2>2 DEF ClosedByRefund
<1> QED
  BY <1>1, <1>4, <1>5, <1>6, <1>7, <1>8, <1>9, <1>10, <1>11, <1>12
     DEF Continues, Fails, WithdrawSteps, SendSteps, OtherSteps, RefundReadsWallet, RefundCredits,
         RefundRejects, RequestReopens

\* ... and every callback.
LEMMA CallbacksAreClosed ==
    ASSUME TypeInv, NEW p \in Rows, ClosedByRefund(p), Outside(p)
    PROVE  ClosedByRefund(p)'
<1> USE DEF walletVars, payoutVars, deskVars, outVars, taskVars
<1>1. Handling(p)' = Handling(p)
  BY DEF Outside, PayoutIpn, TransferWebhook, FlutterwaveSettles, Callback, Handling
<1>2. refunds' = refunds
  BY DEF Outside, PayoutIpn, TransferWebhook, FlutterwaveSettles, Callback
<1>3. \/ status' = status
      \/ Unlocked(p) /\ status'[p] \in {"PAID", "REJECTED"}
  BY DEF Outside, PayoutIpn, TransferWebhook, FlutterwaveSettles, Callback, SetStatus, TypeInv,
       TypeOK
<1> QED
  BY <1>1, <1>2, <1>3, ClosedKept

\* The invariant of all payouts under the Solo guard.
SoloInv == \A p \in Rows : ClosedByRefund(p)

\* It holds at first.
LEMMA InitSolo == Init => SoloInv
BY DEF Init, SoloInv, ClosedByRefund, Handling

\* Every step keeps it, as long as no request reopens a payout.
LEMMA StepSolo ==
    ASSUME Solo, "request" \notin Handlers
    PROVE  TypeInv /\ PayoutInv /\ SoloInv /\ [Next]_vars => SoloInv'
<1> SUFFICES ASSUME TypeInv, PayoutInv, SoloInv, [Next]_vars, NEW q \in Rows
             PROVE  ClosedByRefund(q)'
  BY DEF SoloInv
<1> ClosedByRefund(q) /\ Born(q)
  BY DEF SoloInv, PayoutInv
<1>1. CASE UNCHANGED vars
  BY <1>1, Framed DEF Same, Handling, vars, payoutVars, deskVars, outVars, taskVars
<1>2. ASSUME NEW p \in Rows, WorksOn(p)
      PROVE  ClosedByRefund(q)'
  <2>1. CASE q = p
    BY <1>2, <2>1, StartIsClosed, HandlersAreClosed, CallbacksAreClosed DEF WorksOn
  <2>2. CASE q # p
    BY <1>2, <2>2, Elsewhere, Framed DEF WorksOn
  <2> QED
    BY <2>1, <2>2
<1> QED
  BY <1>1, <1>2, NextWorksOn

\* In Solo a withdrawal is refunded at most once, whatever overlaps, because the
\* cancellation claims the payout under a row lock; as long as requestPayout, which
\* turns a cancelled payout PENDING again, is not among the handlers.
THEOREM RefundedAtMostOnce ==
    ASSUME Solo, "request" \notin Handlers
    PROVE  Spec => []RefundedOnce
<1>1. SoloInv => RefundedOnce
  BY DEF SoloInv, ClosedByRefund, RefundedOnce
<1> QED
  BY <1>1, InitSolo, StepSolo, SpecPayout, PTL DEF Spec

-----------------------------------------------------------------------------
\* What a payout took out of the wallet is an integer.
LEMMA NetInt ==
    ASSUME TypeInv
    PROVE  \A p \in Rows : net[p] = gross[p] - refunds[p] * gross[p] /\ net[p] \in Int
<1> SUFFICES ASSUME NEW p \in Rows
             PROVE  net[p] = gross[p] - refunds[p] * gross[p] /\ net[p] \in Int
  OBVIOUS
<1>1. gross[p] \in Nat /\ refunds[p] \in Nat
  BY DEF TypeInv, TypeOK
<1>2. refunds[p] * gross[p] \in Int
  BY <1>1
<1> QED
  BY <1>1, <1>2 DEF net

\* The sum over the payouts of every user that a transaction is not about
\* stays, and the sum for its user moves by what the payout moved.
LEMMA NetMoves ==
    ASSUME TypeInv, TypeInv', NEW p \in Rows, NEW amount \in Int,
           net'[p] = net[p] - amount, \A q \in Rows \ {p} : net'[q] = net[q]
    PROVE  \A u \in Users :
             SumOver(net', Mine(u)) =
               IF u = Owner[p] THEN SumOver(net, Mine(u)) - amount ELSE SumOver(net, Mine(u))
<1> SUFFICES ASSUME NEW u \in Users
             PROVE  SumOver(net', Mine(u)) =
                      IF u = Owner[p] THEN SumOver(net, Mine(u)) - amount ELSE SumOver(net, Mine(u))
  OBVIOUS
<1>1. IsFiniteSet(Mine(u)) /\ Mine(u) \subseteq Rows
  BY WithdrawAssumption, FS_Subset DEF Mine
<1>2. (\A q \in Mine(u) : net[q] \in Int) /\ net[p] \in Int
  BY <1>1, NetInt
<1>3. CASE u = Owner[p]
  <2>1. p \in Mine(u)
    BY <1>3 DEF Mine
  <2>2. net'[p] \in Int /\ \A q \in Mine(u) \ {p} : net'[q] = net[q]
    BY <1>1, <1>2
  <2>3. /\ SumOver(net, Mine(u)) \in Int
        /\ SumOver(net', Mine(u)) = SumOver(net, Mine(u)) + (net'[p] - net[p])
    <3>1. DifferAt(net, net', Mine(u), p)
      BY <1>1, <1>2, <2>1, <2>2 DEF DifferAt
    <3> QED
      BY <3>1, SumOverChange
  <2> QED
    BY <1>2, <1>3, <2>3
<1>4. CASE u # Owner[p]
  <2> DEFINE S == Mine(u)
             f == net
             g == net'
  <2>1. IsFiniteSet(S) /\ \A y \in S : f[y] = g[y]
    BY <1>1, <1>4 DEF Mine
  <2> HIDE DEF S, f, g
  <2>2. SumOver(f, S) = SumOver(g, S)
    BY <2>1, SumOverSame
  <2> QED
    BY <1>4, <2>2 DEF S, f, g
<1> QED
  BY <1>3, <1>4

\* So the books follow a transaction that moves its amount into a wallet and
\* out of a payout ...
LEMMA BooksPosted ==
    ASSUME TypeInv, TypeInv', BooksInv, NEW t \in tasks, NEW amount \in Int,
           AssignAndPost(Owner[t.p], t.seen, amount, t.seen = available[Owner[t.p]]),
           net'[t.p] = net[t.p] - amount, \A q \in Rows \ {t.p} : net'[q] = net[q]
    PROVE  BooksInv'
<1> DEFINE o == Owner[t.p]
<1>1. t.p \in Rows /\ t.seen \in Nat /\ o \in Users
  BY WithdrawAssumption DEF TypeInv, TypeOK, Task
<1>2. WalletTypeOK /\ \A v \in Users : RowsExplain(v)
  BY DEF TypeInv, TypeOK, BooksInv
<1>3. AssignAndPost(o, t.seen, amount, t.seen = available[o])
  OBVIOUS
<1> HIDE DEF o
<1>4. /\ \A v \in Users : RowsExplain(v)'
      /\ rowSum'[o] = rowSum[o] + amount
      /\ \A v \in Users \ {o} : rowSum'[v] = rowSum[v]
  BY <1>1, <1>2, <1>3, PostExplained
<1>5. ASSUME NEW u \in Users PROVE rowSum'[u] = 0 - SumOver(net', Mine(u))
  <2>1. SumOver(net', Mine(u)) =
          IF u = o THEN SumOver(net, Mine(u)) - amount ELSE SumOver(net, Mine(u))
    BY <1>1, NetMoves DEF o
  <2>2. rowSum[u] = 0 - SumOver(net, Mine(u)) /\ SumOver(net, Mine(u)) \in Int
    <3>1. rowSum[u] = 0 - SumOver(net, Mine(u))
      BY DEF BooksInv
    <3>2. IsFiniteSet(Mine(u)) /\ \A q \in Mine(u) : net[q] \in Int
      BY WithdrawAssumption, FS_Subset, NetInt DEF Mine
    <3> DEFINE f == net
               S == Mine(u)
    <3>3. IsFiniteSet(S) /\ \A q \in S : f[q] \in Int
      BY <3>2
    <3> HIDE DEF f, S
    <3>4. SumOver(f, S) \in Int
      BY <3>3, SumOverType
    <3> QED
      BY <3>1, <3>4 DEF f, S
  <2> HIDE DEF net, Mine
  <2> QED
    BY <1>4, <2>1, <2>2
<1> QED
  BY <1>4, <1>5 DEF BooksInv

\* ... and everything that touches neither.
LEMMA BooksKept ==
    ASSUME BooksInv, UNCHANGED walletVars, UNCHANGED <<gross, refunds>>
    PROVE  BooksInv'
BY DEF BooksInv, RowsExplain, net, walletVars, Mine

\* A withdrawal posts what its payout takes ...
LEMMA CommitBooks ==
    ASSUME TypeInv, TypeInv', BooksInv, NEW t \in tasks, Born(t.p), WithdrawCommits(t)
    PROVE  BooksInv'
<1>1. t.p \in Rows /\ t.amount \in Nat /\ t \in Handling(t.p) /\ t.at = "debit"
  BY DEF TypeInv, TypeOK, Task, WithdrawCommits, At, Handling
<1>2. gross[t.p] = 0 /\ refunds[t.p] = 0
  BY <1>1 DEF Born, Unborn
<1>3. refunds' = refunds /\ gross'[t.p] = t.amount /\ \A q \in Rows \ {t.p} : gross'[q] = gross[q]
  BY <1>1 DEF WithdrawCommits, outVars, TypeInv, TypeOK
<1>4. /\ \A q \in Rows : net'[q] = gross'[q] - refunds'[q] * gross'[q]
      /\ \A q \in Rows : net[q] = gross[q] - refunds[q] * gross[q]
  BY DEF net
<1>5. net'[t.p] = t.amount - 0 * t.amount /\ net[t.p] = 0 - 0 * 0
  BY <1>1, <1>2, <1>3, <1>4
<1>6. net'[t.p] = net[t.p] - (-t.amount)
  BY <1>1, <1>5
<1>7. \A q \in Rows \ {t.p} : net'[q] = net[q]
  BY <1>3, <1>4
<1>8. AssignAndPost(Owner[t.p], t.seen, -t.amount, t.seen = available[Owner[t.p]])
  BY DEF WithdrawCommits
<1> QED
  BY <1>1, <1>6, <1>7, <1>8, BooksPosted

\* ... and a cancellation or refund what it gives back.
LEMMA CreditBooks ==
    ASSUME TypeInv, TypeInv', BooksInv, NEW t \in tasks, Born(t.p),
           CancelCommits(t) \/ RefundCredits(t)
    PROVE  BooksInv'
<1>1. t.p \in Rows /\ t.amount \in Nat /\ t \in Handling(t.p) /\ t.at # "debit"
  BY DEF TypeInv, TypeOK, Task, CancelCommits, RefundCredits, At, Handling
<1>2. t.amount = gross[t.p] /\ refunds[t.p] \in Nat
  BY <1>1, Knows DEF TypeInv, TypeOK
<1>3. gross' = gross /\ refunds'[t.p] = refunds[t.p] + 1
      /\ \A q \in Rows \ {t.p} : refunds'[q] = refunds[q]
  BY <1>1 DEF CancelCommits, RefundCredits, payoutVars, TypeInv, TypeOK
<1>4. /\ \A q \in Rows : net'[q] = gross'[q] - refunds'[q] * gross'[q]
      /\ \A q \in Rows : net[q] = gross[q] - refunds[q] * gross[q]
  BY DEF net
<1>5. \A r, g \in Nat : g - (r + 1) * g = (g - r * g) - g
  OBVIOUS
<1>6. /\ net'[t.p] = t.amount - (refunds[t.p] + 1) * t.amount
      /\ net[t.p] = t.amount - refunds[t.p] * t.amount
  BY <1>1, <1>2, <1>3, <1>4
<1>7. net'[t.p] = net[t.p] - t.amount
  BY <1>1, <1>2, <1>5, <1>6
<1>8. \A q \in Rows \ {t.p} : net'[q] = net[q]
  BY <1>3, <1>4
<1>9. AssignAndPost(Owner[t.p], t.seen, t.amount, t.seen = available[Owner[t.p]])
  BY DEF CancelCommits, RefundCredits
<1> QED
  BY <1>1, <1>7, <1>8, <1>9, BooksPosted

\* The books are empty at first.
LEMMA InitBooks == Init => BooksInv
<1> SUFFICES ASSUME Init, NEW u \in Users
             PROVE  rowSum[u] = 0 - SumOver(net, Mine(u)) /\ RowsExplain(u)
  BY DEF BooksInv
<1>1. \A p \in Mine(u) : net[p] = 0
  BY DEF Init, net, Mine
<1>2. IsFiniteSet(Mine(u))
  BY WithdrawAssumption, FS_Subset DEF Mine
<1>3. SumOver(net, Mine(u)) = 0
  BY <1>1, <1>2, SumOverZero
<1>4. rowSum[u] = 0 /\ available[u] = Opening[u] /\ Opening[u] \in Nat
  BY OpeningAssumption DEF Init, WalletInit
<1>5. RowsExplain(u)
  BY <1>4 DEF RowsExplain
<1> QED
  BY ONLY <1>3, <1>4, <1>5

\* Every step keeps the books.
LEMMA StepBooks == TypeInv /\ TypeInv' /\ PayoutInv /\ BooksInv /\ [Next]_vars => BooksInv'
<1> SUFFICES ASSUME TypeInv, TypeInv', PayoutInv, BooksInv, [Next]_vars PROVE BooksInv'
  OBVIOUS
<1> USE DEF payoutVars, outVars
<1>1. CASE UNCHANGED vars
  BY <1>1, BooksKept DEF vars
<1>2. ASSUME NEW p \in Rows, NEW w \in Workers, Starts(w, p) PROVE BooksInv'
  BY <1>2, BooksKept DEF Starts, WithdrawReads, FlushPicks, AdminApproves, CancelReads, RefundReads,
                         RequestReads, TakeReads, CompleteReads
<1>3. ASSUME NEW p \in Rows, Outside(p) PROVE BooksInv'
  BY <1>3, BooksKept DEF Outside, PayoutIpn, TransferWebhook, FlutterwaveSettles, Callback,
       SetStatus
<1>4. ASSUME NEW t \in tasks, Continues(t) \/ Fails(t) PROVE BooksInv'
  <2>1. CASE WithdrawCommits(t) \/ CancelCommits(t) \/ RefundCredits(t)
    <3>1. Born(t.p)
      BY DEF PayoutInv, TypeInv, TypeOK, Task
    <3> QED
      BY <2>1, <3>1, CommitBooks, CreditBooks
  <2>2. CASE MomoQuoteFails(t) \/ MomoP2pCreated(t) \/ MomoEmailed(t)
    BY <2>2, BooksKept DEF MomoQuoteFails, MomoP2pCreated, MomoEmailed
  <2>3. CASE SendSteps(t) \/ ReplyLost(t)
    BY <2>3, BooksKept DEF SendSteps, Dispatch, ReplyLost, ApproveReads, SettleExternally,
         SendFails,
         PayMomoByHand, ChainSends, QueueTransfer, GatewayQueues, MarkPaid, MarkApproved,
         SetStatus, OneMoreSend
  <2>4. CASE CancelClaims(t) \/ RefundReadsWallet(t) \/ RefundRejects(t) \/ RequestReopens(t)
               \/ TakeCommits(t) \/ CompleteCommits(t) \/ Crash(t)
    BY <2>4, BooksKept DEF CancelClaims, RefundReadsWallet, RefundRejects, RequestReopens,
         TakeCommits, CompleteCommits, Crash, SetStatus, OneMoreSend
  <2> QED
    BY <1>4, <2>1, <2>2, <2>3, <2>4 DEF Continues, Fails, WithdrawSteps, OtherSteps
<1> QED
  BY <1>1, <1>2, <1>3, <1>4 DEF Next

\* A wallet whose writes were never stale holds the opening balance less every
\* payout's gross amount plus every refund of it; for any number of payouts.
THEOREM PayoutBooks == Spec => []BooksFollowPayouts
<1>1. ASSUME BooksInv, TypeInv, NEW u \in Users, ~stale[u]
      PROVE  available[u] = Opening[u] - SumOver(net, Mine(u))
  <2>1. rowSum[u] = 0 - SumOver(net, Mine(u)) /\ available[u] = Opening[u] + rowSum[u]
    BY <1>1 DEF BooksInv, RowsExplain
  <2>2. IsFiniteSet(Mine(u)) /\ \A q \in Mine(u) : net[q] \in Int
    BY <1>1, WithdrawAssumption, FS_Subset, NetInt DEF Mine
  <2>3. SumOver(net, Mine(u)) \in Int
    BY <2>2, SumOverType
  <2>4. Opening[u] \in Nat
    BY OpeningAssumption
  <2> HIDE DEF net, Mine
  <2> QED
    BY <2>1, <2>3, <2>4
<1>2. BooksInv /\ TypeInv => BooksFollowPayouts
  BY <1>1 DEF BooksFollowPayouts, Mine
<1> QED
  BY <1>2, InitBooks, StepBooks, SpecPayout, PTL DEF Spec

=============================================================================
