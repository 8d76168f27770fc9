---------------------------- MODULE DepositsProofs ----------------------------
(***************************************************************************)
(* Proofs about Deposits, for any set of users, payments and workers, any  *)
(* amounts and opening balances, whether or not the gateway gives payments *)
(* up, and whichever processes die.                                        *)
(*                                                                         *)
(* As in WithdrawalsProofs the invariants are stated per payment, over the *)
(* handlers at work on it.                                                 *)
(***************************************************************************)
EXTENDS Deposits, WalletLemmas

\* The handlers at work on a payment.
Handling(p) == {t \in tasks : t.p = p}

\* Whoever is about to credit a payment, and whatever says that it is paid,
\* follows the arrival of the money.
Arrived(p) ==
    /\ "paid" \in notices[p] => onChain[p]
    /\ live[p] = "paid" => onChain[p]
    /\ credits[p] > 0 \/ status[p] = "CONFIRMED" => onChain[p]
    /\ \A t \in Handling(p) : t.at \in {"check", "mark", "wallet", "credit"} => onChain[p]

\* A handler that marked a payment and has not credited it yet.
Marked(t) == t.at \in {"wallet", "credit"}

\* A payment whose handlers did not overlap or die between mark and credit has
\* one handler at a time, and what is CONFIRMED is credited or about to be.
Confirmed(p) ==
    /\ \A t \in Handling(p) : Handling(p) = {t}
    /\ status[p] = "CONFIRMED" => credits[p] >= 1 \/ \E t \in Handling(p) : Marked(t)

\* If besides no CONFIRMED status was overwritten, the status tells a handler
\* that asks whether the credit is still to be made.
Credits(p) ==
    /\ credits[p] <= 1
    /\ credits[p] = 1 => status[p] = "CONFIRMED"
    /\ \A t \in Handling(p) :
         /\ t.at = "mark" => status[p] # "CONFIRMED"
         /\ Marked(t) => status[p] = "CONFIRMED" /\ credits[p] = 0

Fits(p) == ~disturbed[p] => Confirmed(p) /\ (~reverted[p] => Credits(p))

PaymentInv == \A p \in Rows : Arrived(p) /\ Fits(p)

-----------------------------------------------------------------------------
\* A handler at another step.
LEMMA AtStep ==
    ASSUME NEW t \in Task,
           NEW s \in {"ask", "askUser", "askUserConfirmed", "check", "mark", "wallet", "credit",
                      "FAILED", "EXPIRED"}
    PROVE  /\ [t EXCEPT !.at = s] \in Task
           /\ [t EXCEPT !.at = s].at = s /\ [t EXCEPT !.at = s].p = t.p
BY DEF Task

\* The step a verdict leads to.
LEMMA VerdictIs ==
    ASSUME NEW v \in {"paid", "failed", "expired"}
    PROVE  /\ v = "paid" => Verdict(v) = "check"
           /\ v # "paid" => Verdict(v) \in {"FAILED", "EXPIRED"}
BY DEF Verdict

\* What is left of the lists stays a set of payments.
ScanTyped == old' \subseteq Rows /\ scan' \in [Workers -> SUBSET Rows]

\* A handler that has learned something starts at a step of its own; one that has
\* read a list may pass a payment over.
LEMMA LearnsStarts ==
    ASSUME TypeOK, NEW w \in Workers, NEW p \in Rows, Learns(w, p)
    PROVE  /\ UNCHANGED <<walletVars, status, gatewayVars, credits, reverted>> /\ ScanTyped
           /\ \/ UNCHANGED taskVars
              \/ \E t \in Task :
                   /\ t.p = p /\ StartWith(t)
                   /\ \/ t.at \in {"ask", "askUser", "askUserConfirmed", "FAILED", "EXPIRED"}
                      \/ t.at = "check" /\ ("paid" \in notices[p] \/ live[p] = "paid")
<1> DEFINE T(s) == Handler(w, p, s)
           S == {"ask", "askUser", "askUserConfirmed", "FAILED", "EXPIRED", "check"}
<1>1. \A s \in S : T(s) \in Task /\ T(s).p = p /\ T(s).at = s
  BY DEF Task, Handler
<1>2. \/ UNCHANGED taskVars
      \/ \E s \in S : /\ StartWith(T(s))
                      /\ s = "check" => "paid" \in notices[p] \/ live[p] = "paid"
  <2>1. CASE Ipn(w, p) \/ ChargeWebhook(w, p)
    <3>1. PICK v \in notices[p] : Start(w, p, Verdict(v))
      BY <2>1 DEF Ipn, ChargeWebhook
    <3>2. v \in {"paid", "failed", "expired"}
      BY DEF TypeOK
    <3> QED
      BY <3>1, <3>2, VerdictIs DEF Start
  <2>2. CASE MonitorReads(w, p)
    BY <2>2 DEF MonitorReads
  <2>3. CASE UserPolls(w, p)
    BY <2>3 DEF UserPolls, Start
  <2> QED
    BY <2>1, <2>2, <2>3 DEF Learns
<1>3. UNCHANGED <<walletVars, status, gatewayVars, credits, reverted>>
  BY DEF Learns, Ipn, ChargeWebhook, MonitorReads, UserPolls
<1>4. ScanTyped
  <2>1. CASE MonitorReads(w, p)
    BY <2>1 DEF MonitorReads, TypeOK, ScanTyped
  <2>2. CASE UNCHANGED scanVars
    BY <2>2 DEF scanVars, TypeOK, ScanTyped
  <2> QED
    BY <2>1, <2>2 DEF Learns, Ipn, ChargeWebhook, UserPolls
<1>5. CASE UNCHANGED taskVars
  BY <1>3, <1>4, <1>5
<1>6. ASSUME NEW s \in S, StartWith(T(s)), s = "check" => "paid" \in notices[p] \/ live[p] = "paid"
      PROVE  \E t \in Task :
               /\ t.p = p /\ StartWith(t)
               /\ \/ t.at \in {"ask", "askUser", "askUserConfirmed", "FAILED", "EXPIRED"}
                  \/ t.at = "check" /\ ("paid" \in notices[p] \/ live[p] = "paid")
  <2>1. T(s) \in Task /\ T(s).p = p /\ T(s).at = s
    BY <1>1
  <2> HIDE DEF T
  <2> QED
    BY <1>6, <2>1
<1> HIDE DEF T
<1> QED
  BY <1>2, <1>3, <1>4, <1>5, <1>6

\* A question to the gateway moves a handler on, or ends it.
LEMMA AsksMove ==
    ASSUME TypeOK, NEW t \in tasks, MonitorAsks(t) \/ UserPollAsks(t)
    PROVE  /\ UNCHANGED <<walletVars, status, gatewayVars, credits, reverted, scanVars>>
           /\ t.at \in {"ask", "askUser", "askUserConfirmed"}
           /\ \/ Return(t)
              \/ \E s \in {"check", "FAILED", "EXPIRED"} :
                   /\ Move(t, s)
                   /\ s = "check" => live[t.p] = "paid" \/ onChain[t.p]
<1>1. t.p \in Rows /\ live[t.p] \in {"waiting", "paid", "failed", "expired"}
  BY DEF TypeOK, Task
<1>2. CASE MonitorAsks(t)
  BY <1>1, <1>2, VerdictIs DEF MonitorAsks, ChainMatches, At
<1>3. CASE UserPollAsks(t)
  BY <1>1, <1>3, VerdictIs DEF UserPollAsks, At
<1> QED
  BY <1>2, <1>3

\* A handler that starts, goes on or ends leaves well-typed handlers, and those
\* of its payment are known.
LEMMA PoolStarts ==
    ASSUME TypeOK, NEW t \in Task, StartWith(t)
    PROVE  /\ tasks' \subseteq Task /\ disturbed' \in [Rows -> BOOLEAN]
           /\ Handling(t.p)' = Handling(t.p) \cup {t}
           /\ ~disturbed'[t.p] => ~disturbed[t.p] /\ Handling(t.p) = {}
           /\ \A q \in Rows \ {t.p} :
                Handling(q)' = Handling(q) /\ disturbed'[q] = disturbed[q]
<1>1. t.p \in Rows
  BY DEF Task
<1>2. disturbed' = [disturbed EXCEPT ![t.p] = @ \/ Running(t.p)] /\ tasks' = tasks \cup {t}
  BY DEF StartWith
<1>3. Running(t.p) \in BOOLEAN /\ (Handling(t.p) # {} => Running(t.p))
  BY DEF Running, Handling
<1>4. tasks' \subseteq Task /\ disturbed' \in [Rows -> BOOLEAN]
  BY <1>1, <1>2, <1>3 DEF TypeOK
<1>5. disturbed'[t.p] = (disturbed[t.p] \/ Running(t.p))
  BY <1>1, <1>2 DEF TypeOK
<1>6. /\ Handling(t.p)' = Handling(t.p) \cup {t}
      /\ \A q \in Rows \ {t.p} : Handling(q)' = Handling(q) /\ disturbed'[q] = disturbed[q]
  BY <1>1, <1>2 DEF Handling, TypeOK
<1> QED
  BY <1>3, <1>4, <1>5, <1>6

\* The same of one that goes on ...
LEMMA PoolMoves ==
    ASSUME TypeOK, NEW t \in tasks, NEW u \in Task, u.p = t.p, Continue(t, u)
    PROVE  /\ tasks' \subseteq Task /\ disturbed' = disturbed
           /\ Handling(t.p)' = (Handling(t.p) \ {t}) \cup {u}
           /\ \A q \in Rows \ {t.p} : Handling(q)' = Handling(q)
BY DEF TypeOK, Continue, Handling

\* ... and of one that ends.
LEMMA PoolEnds ==
    ASSUME TypeOK, NEW t \in tasks, Return(t) \/ LoseTrack(t)
    PROVE  /\ tasks' \subseteq Task /\ disturbed' \in [Rows -> BOOLEAN]
           /\ Handling(t.p)' = Handling(t.p) \ {t}
           /\ IF Return(t) THEN disturbed' = disturbed ELSE disturbed'[t.p]
           /\ \A q \in Rows \ {t.p} : Handling(q)' = Handling(q) /\ disturbed'[q] = disturbed[q]
<1>1. t.p \in Rows
  BY DEF TypeOK, Task
<1>2. /\ Handling(t.p)' = Handling(t.p) \ {t}
      /\ \A q \in Rows \ {t.p} : Handling(q)' = Handling(q)
  BY DEF Return, LoseTrack, Handling
<1>3. tasks' \subseteq Task
  BY DEF TypeOK, Return, LoseTrack
<1>4. disturbed \in [Rows -> BOOLEAN]
  BY DEF TypeOK
<1>5. CASE Return(t)
  BY <1>2, <1>3, <1>4, <1>5 DEF Return
<1>6. CASE LoseTrack(t) /\ ~Return(t)
  BY <1>1, <1>2, <1>3, <1>4, <1>6 DEF LoseTrack
<1> QED
  BY <1>5, <1>6

-----------------------------------------------------------------------------
\* A step of the system works on one payment.
WorksOn(p) ==
    \/ \E w \in Workers : Learns(w, p)
    \/ \E t \in tasks : t.p = p /\ (Acts(t) \/ Crash(t))
    \/ UserPays(p) \/ GatewayDecides(p)

\* Time and the lists touch no payment.
TouchesNone ==
    /\ UNCHANGED <<walletVars, taskVars, status, gatewayVars, credits, reverted>>
    /\ ScanTyped

\* Every step is of the one form or the other, or changes nothing.
LEMMA NextWorksOn ==
    ASSUME TypeOK, [Next]_vars
    PROVE  UNCHANGED vars \/ TouchesNone \/ \E p \in Rows : WorksOn(p)
<1>1. \A t \in tasks : t.p \in Rows
  BY DEF TypeOK, Task
<1>2. ASSUME NEW w \in Workers, Scans(w) PROVE TouchesNone
  <2>1. ASSUME NEW list \in SUBSET Rows, Lists(w, list) PROVE TouchesNone
    BY <2>1 DEF Lists, TouchesNone, ScanTyped, TypeOK
  <2>2. CASE ScanCrash(w)
    BY <2>2 DEF ScanCrash, TouchesNone, ScanTyped, TypeOK
  <2>3. \A n, S : S \subseteq Rows => Oldest(n, S) \subseteq Rows /\ Newest(n, S) \subseteq Rows
    BY DEF Oldest, Newest
  <2>4. Listable \subseteq Rows /\ \A u : {p \in Listable : Owner[p] = u} \subseteq Rows
    BY DEF Listable
  <2> QED
    BY <1>2, <2>1, <2>2, <2>3, <2>4 DEF Scans, MonitorLists, VisitLists
<1>3. ASSUME NEW p \in Rows, GrowsOld(p) PROVE TouchesNone
  BY <1>3 DEF GrowsOld, TouchesNone, ScanTyped, TypeOK
<1> QED
  BY <1>1, <1>2, <1>3 DEF Next, WorksOn

\* The handlers, seen from payment p, after a step that works on it.
PoolStep(p) ==
    /\ tasks' \subseteq Task /\ disturbed' \in [Rows -> BOOLEAN]
    /\ \A q \in Rows \ {p} : Handling(q)' = Handling(q) /\ disturbed'[q] = disturbed[q]

\* A handler that moves to another step.
LEMMA MovesTo ==
    ASSUME TypeOK, NEW t \in tasks,
           NEW s \in {"check", "mark", "wallet", "FAILED", "EXPIRED"}, Move(t, s)
    PROVE  /\ PoolStep(t.p) /\ disturbed' = disturbed
           /\ \E u \in Task : u.at = s /\ Handling(t.p)' = (Handling(t.p) \ {t}) \cup {u}
<1> DEFINE u == [t EXCEPT !.at = s]
<1>1. u \in Task /\ u.p = t.p /\ u.at = s
  <2> t \in Task
    BY DEF TypeOK
  <2> QED
    BY DEF Task
<1>2. Continue(t, u)
  BY DEF Move
<1> HIDE DEF u
<1> QED
  BY <1>1, <1>2, PoolMoves DEF PoolStep, TypeOK

\* A handler that ends.
LEMMA Ends ==
    ASSUME TypeOK, NEW t \in tasks, Return(t) \/ LoseTrack(t)
    PROVE  /\ PoolStep(t.p) /\ Handling(t.p)' = Handling(t.p) \ {t}
           /\ IF Return(t) THEN disturbed' = disturbed ELSE disturbed'[t.p]
BY PoolEnds DEF PoolStep

-----------------------------------------------------------------------------
\* Nothing about payment q, nor about the handlers at work on it, changes.
Same(q) ==
    /\ status'[q] = status[q] /\ live'[q] = live[q] /\ notices'[q] = notices[q]
    /\ onChain'[q] = onChain[q] /\ credits'[q] = credits[q] /\ reverted'[q] = reverted[q]
    /\ disturbed'[q] = disturbed[q] /\ Handling(q)' = Handling(q)

\* What a step on payment p keeps.
Kept(p) == TypeOK' /\ Arrived(p)' /\ Fits(p)' /\ \A q \in Rows \ {p} : Same(q)

\* A handler that learned of a payment starts.
LEMMA LearnsKeeps ==
    ASSUME TypeOK, NEW p \in Rows, Arrived(p), Fits(p), NEW w \in Workers, Learns(w, p)
    PROVE  Kept(p)
<1>1. UNCHANGED <<walletVars, status, gatewayVars, credits, reverted>> /\ ScanTyped
  BY LearnsStarts
<1> USE <1>1 DEF walletVars, gatewayVars, ScanTyped
<1>2. CASE UNCHANGED taskVars
  <2>1. TypeOK' /\ \A q \in Rows : Same(q)
    BY <1>2 DEF TypeOK, WalletTypeOK, Same, taskVars, Handling
  <2>2. Arrived(p)' /\ Fits(p)'
    BY <2>1 DEF Same, Arrived, Fits, Confirmed, Credits
  <2> QED
    BY <2>1, <2>2 DEF Kept
<1>3. ASSUME NEW t \in Task, t.p = p, StartWith(t),
             \/ t.at \in {"ask", "askUser", "askUserConfirmed", "FAILED", "EXPIRED"}
             \/ t.at = "check" /\ ("paid" \in notices[p] \/ live[p] = "paid")
      PROVE  Kept(p)
  <2> USE <1>3, PoolStarts
  <2>1. TypeOK'
    BY DEF TypeOK, WalletTypeOK
  <2>2. Arrived(p)'
    BY DEF Arrived
  <2>3. Fits(p)'
    BY DEF Fits, Confirmed, Credits, Marked
  <2>4. \A q \in Rows \ {p} : Same(q)
    BY DEF Same
  <2> QED
    BY <2>1, <2>2, <2>3, <2>4 DEF Kept
<1> QED
  BY <1>2, <1>3, LearnsStarts

\* A handler asks the gateway.
LEMMA AsksKeeps ==
    ASSUME TypeOK, NEW t \in tasks, Arrived(t.p), Fits(t.p), MonitorAsks(t) \/ UserPollAsks(t)
    PROVE  Kept(t.p)
<1>1. /\ UNCHANGED <<walletVars, status, gatewayVars, credits, reverted, scanVars>>
      /\ t.at \in {"ask", "askUser", "askUserConfirmed"}
      /\ t.p \in Rows /\ t \in Handling(t.p)
  BY AsksMove DEF TypeOK, Task, Handling
<1> USE <1>1 DEF walletVars, gatewayVars, scanVars
<1>2. CASE Return(t)
  <2> USE <1>2, Ends DEF PoolStep
  <2>1. TypeOK'
    BY DEF TypeOK, WalletTypeOK
  <2>2. Arrived(t.p)'
    BY DEF Arrived
  <2>3. Fits(t.p)'
    BY DEF Fits, Confirmed, Credits, Marked
  <2> QED
    BY <2>1, <2>2, <2>3 DEF Kept, Same
<1>3. ASSUME NEW s \in {"check", "FAILED", "EXPIRED"}, Move(t, s),
             s = "check" => live[t.p] = "paid" \/ onChain[t.p]
      PROVE  Kept(t.p)
  <2> s \in {"check", "mark", "wallet", "FAILED", "EXPIRED"} /\ Move(t, s)
    BY <1>3
  <2>1. /\ PoolStep(t.p) /\ disturbed' = disturbed
        /\ \E u \in Task : u.at = s /\ Handling(t.p)' = (Handling(t.p) \ {t}) \cup {u}
    BY MovesTo
  <2> PICK u \in Task : u.at = s /\ Handling(t.p)' = (Handling(t.p) \ {t}) \cup {u}
    BY <2>1
  <2> USE <1>3, <2>1 DEF PoolStep
  <2>2. TypeOK'
    BY DEF TypeOK, WalletTypeOK
  <2>3. Arrived(t.p)'
    BY DEF Arrived
  <2>4. Fits(t.p)'
    BY DEF Fits, Confirmed, Credits, Marked
  <2> QED
    BY <2>2, <2>3, <2>4 DEF Kept, Same
<1> QED
  BY <1>2, <1>3, AsksMove

\* A status is overwritten by id.
LEMMA OverwriteKeeps ==
    ASSUME TypeOK, NEW t \in tasks, Arrived(t.p), Fits(t.p), Overwrite(t)
    PROVE  Kept(t.p)
<1>1. t.p \in Rows /\ t \in Handling(t.p)
  BY DEF TypeOK, Task, Handling
<1>2. PICK s \in {"FAILED", "EXPIRED"} : At(t, s) /\ status' = [status EXCEPT ![t.p] = s]
  BY DEF Overwrite
<1>3. /\ reverted' = [reverted EXCEPT ![t.p] = @ \/ status[t.p] = "CONFIRMED"]
      /\ Return(t) /\ UNCHANGED <<walletVars, gatewayVars, credits, scanVars>>
  BY DEF Overwrite
<1>4. PoolStep(t.p) /\ Handling(t.p)' = Handling(t.p) \ {t} /\ disturbed' = disturbed
  BY <1>3, Ends
<1>5. /\ status'[t.p] = s /\ t.at = s
      /\ reverted'[t.p] = (reverted[t.p] \/ status[t.p] = "CONFIRMED")
  BY <1>1, <1>2, <1>3 DEF TypeOK, At
<1> USE <1>1, <1>2, <1>3, <1>4, <1>5 DEF walletVars, gatewayVars, scanVars, PoolStep
<1>6. TypeOK'
  BY DEF TypeOK, WalletTypeOK
<1>7. Arrived(t.p)'
  BY DEF Arrived
<1>8. Fits(t.p)'
  BY DEF Fits, Confirmed, Credits, Marked, TypeOK
<1>9. \A q \in Rows \ {t.p} : Same(q)
  BY DEF Same, TypeOK
<1> QED
  BY <1>6, <1>7, <1>8, <1>9 DEF Kept

\* confirmWalletDeposit reads the payment ...
LEMMA CheckKeeps ==
    ASSUME TypeOK, NEW t \in tasks, Arrived(t.p), Fits(t.p), Check(t)
    PROVE  Kept(t.p)
<1>1. /\ t.p \in Rows /\ t \in Handling(t.p) /\ t.at = "check"
      /\ UNCHANGED <<walletVars, status, gatewayVars, credits, reverted, scanVars>>
  BY DEF TypeOK, Task, Handling, Check, At
<1> USE <1>1 DEF walletVars, gatewayVars, scanVars, PoolStep
<1>2. CASE Return(t)
  <2>1. PoolStep(t.p) /\ Handling(t.p)' = Handling(t.p) \ {t} /\ disturbed' = disturbed
    BY <1>2, Ends
  <2> USE <2>1
  <2>2. TypeOK'
    BY DEF TypeOK, WalletTypeOK
  <2>3. Arrived(t.p)'
    BY DEF Arrived
  <2>4. Fits(t.p)'
    BY DEF Fits, Confirmed, Credits, Marked
  <2> QED
    BY <2>2, <2>3, <2>4 DEF Kept, Same
<1>3. CASE status[t.p] # "CONFIRMED" /\ Move(t, "mark")
  <2>1. /\ PoolStep(t.p) /\ disturbed' = disturbed
        /\ \E u \in Task : u.at = "mark" /\ Handling(t.p)' = (Handling(t.p) \ {t}) \cup {u}
    BY <1>3, MovesTo
  <2> PICK u \in Task : u.at = "mark" /\ Handling(t.p)' = (Handling(t.p) \ {t}) \cup {u}
    BY <2>1
  <2> USE <1>3, <2>1
  <2>2. TypeOK'
    BY DEF TypeOK, WalletTypeOK
  <2>3. Arrived(t.p)'
    BY DEF Arrived
  <2>4. Fits(t.p)'
    BY DEF Fits, Confirmed, Credits, Marked
  <2> QED
    BY <2>2, <2>3, <2>4 DEF Kept, Same
<1> QED
  BY <1>2, <1>3 DEF Check

\* ... marks it CONFIRMED ...
LEMMA MarkKeeps ==
    ASSUME TypeOK, NEW t \in tasks, Arrived(t.p), Fits(t.p), Mark(t)
    PROVE  Kept(t.p)
<1>1. /\ t.p \in Rows /\ t \in Handling(t.p) /\ t.at = "mark"
      /\ UNCHANGED <<walletVars, gatewayVars, credits, reverted, scanVars>>
      /\ credits[t.p] \in Nat
  BY DEF TypeOK, Task, Handling, Mark, At
<1>2. status'[t.p] = "CONFIRMED" /\ status' = [status EXCEPT ![t.p] = "CONFIRMED"]
  BY <1>1 DEF Mark, TypeOK
<1>3. /\ PoolStep(t.p) /\ disturbed' = disturbed
      /\ \E u \in Task : u.at = "wallet" /\ Handling(t.p)' = (Handling(t.p) \ {t}) \cup {u}
  BY MovesTo DEF Mark
<1>4. PICK u \in Task : u.at = "wallet" /\ Handling(t.p)' = (Handling(t.p) \ {t}) \cup {u}
  BY <1>3
<1> USE <1>1, <1>2, <1>3, <1>4 DEF walletVars, gatewayVars, scanVars, PoolStep
<1>5. TypeOK'
  BY DEF TypeOK, WalletTypeOK
<1>6. Arrived(t.p)'
  BY DEF Arrived
<1>7. Fits(t.p)'
  BY DEF Fits, Confirmed, Credits, Marked
<1>8. \A q \in Rows \ {t.p} : Same(q)
  BY DEF Same, TypeOK
<1> QED
  BY <1>5, <1>6, <1>7, <1>8 DEF Kept

\* ... reads the wallet ...
LEMMA ReadWalletKeeps ==
    ASSUME TypeOK, NEW t \in tasks, Arrived(t.p), Fits(t.p), ReadWallet(t)
    PROVE  Kept(t.p)
<1>1. /\ t \in Task /\ t.p \in Rows /\ t \in Handling(t.p) /\ t.at = "wallet"
      /\ UNCHANGED <<walletVars, status, gatewayVars, credits, reverted, scanVars>>
  BY DEF TypeOK, Task, Handling, ReadWallet, At
<1>2. available[Owner[t.p]] \in Nat
  BY <1>1, DepositAssumption DEF TypeOK, WalletTypeOK
<1> DEFINE u == [t EXCEPT !.at = "credit", !.seen = available[Owner[t.p]]]
<1>3. u \in Task /\ u.p = t.p /\ u.at = "credit"
  BY <1>1, <1>2 DEF Task
<1>4. Continue(t, u)
  BY DEF ReadWallet
<1> HIDE DEF u
<1>5. /\ tasks' \subseteq Task /\ disturbed' = disturbed
      /\ Handling(t.p)' = (Handling(t.p) \ {t}) \cup {u}
      /\ \A q \in Rows \ {t.p} : Handling(q)' = Handling(q)
  BY <1>3, <1>4, PoolMoves
<1> USE <1>1, <1>3, <1>5 DEF walletVars, gatewayVars, scanVars
<1>6. TypeOK'
  BY DEF TypeOK, WalletTypeOK
<1>7. Arrived(t.p)'
  BY DEF Arrived
<1>8. Fits(t.p)'
  BY DEF Fits, Confirmed, Credits, Marked
<1> QED
  BY <1>6, <1>7, <1>8 DEF Kept, Same

\* ... and credits it.
LEMMA CreditKeeps ==
    ASSUME TypeOK, NEW t \in tasks, Arrived(t.p), Fits(t.p), Credit(t)
    PROVE  Kept(t.p)
<1>1. /\ t \in Task /\ t.p \in Rows /\ t \in Handling(t.p) /\ t.at = "credit"
      /\ UNCHANGED <<status, gatewayVars, reverted, scanVars>>
      /\ credits[t.p] \in Nat
  BY DEF TypeOK, Task, Handling, Credit, At
<1>2. credits'[t.p] = credits[t.p] + 1 /\ credits' = [credits EXCEPT ![t.p] = credits[t.p] + 1]
  BY <1>1 DEF Credit, TypeOK
<1>3. PoolStep(t.p) /\ Handling(t.p)' = Handling(t.p) \ {t} /\ disturbed' = disturbed
  BY Ends DEF Credit
<1>4. WalletTypeOK'
  <2>1. t.seen \in Nat /\ Amount[t.p] \in Nat /\ Owner[t.p] \in Users
    BY <1>1, DepositAssumption DEF Task
  <2>2. t.seen + Amount[t.p] \in Nat
    BY <2>1
  <2> QED
    BY <2>1, <2>2 DEF Credit, AssignAndPost, TypeOK, WalletTypeOK
<1> USE <1>1, <1>2, <1>3 DEF gatewayVars, scanVars, PoolStep
<1>5. TypeOK'
  BY <1>4 DEF TypeOK
<1>6. Arrived(t.p)'
  BY DEF Arrived
<1>7. Fits(t.p)'
  BY DEF Fits, Confirmed, Credits, Marked
<1>8. \A q \in Rows \ {t.p} : Same(q)
  BY DEF Same, TypeOK
<1> QED
  BY <1>5, <1>6, <1>7, <1>8 DEF Kept

\* A handler dies.
LEMMA CrashKeeps ==
    ASSUME TypeOK, NEW t \in tasks, Arrived(t.p), Fits(t.p), Crash(t)
    PROVE  Kept(t.p)
<1>1. /\ t.p \in Rows /\ t \in Handling(t.p)
      /\ UNCHANGED <<walletVars, status, gatewayVars, credits, reverted>>
      /\ IF Marked(t) THEN LoseTrack(t) ELSE Return(t)
      /\ ScanTyped
  BY DEF TypeOK, Task, Handling, Crash, Marked, ScanTyped
<1>2. /\ PoolStep(t.p) /\ Handling(t.p)' = Handling(t.p) \ {t}
      /\ ~Marked(t) => disturbed' = disturbed
      /\ Marked(t) => disturbed'[t.p] \/ disturbed' = disturbed
  BY <1>1, Ends
<1>3. Marked(t) => disturbed'[t.p]
  BY <1>1 DEF LoseTrack, TypeOK
<1> USE <1>1, <1>2, <1>3 DEF walletVars, gatewayVars, PoolStep, ScanTyped
<1>4. TypeOK'
  BY DEF TypeOK, WalletTypeOK
<1>5. Arrived(t.p)'
  BY DEF Arrived
<1>6. Fits(t.p)'
  BY DEF Fits, Confirmed, Credits, Marked
<1> QED
  BY <1>4, <1>5, <1>6 DEF Kept, Same

\* The user pays, or the gateway decides.
LEMMA OutsideKeeps ==
    ASSUME TypeOK, NEW p \in Rows, Arrived(p), Fits(p), UserPays(p) \/ GatewayDecides(p)
    PROVE  Kept(p)
<1>1. /\ UNCHANGED <<walletVars, status, credits, reverted, disturbed, scanVars>>
      /\ \A q \in Rows : Handling(q)' = Handling(q)
      /\ tasks' = tasks
  BY DEF UserPays, GatewayDecides, Handling, taskVars
<1> USE <1>1 DEF walletVars, scanVars
<1>2. Fits(p)'
  BY DEF Fits, Confirmed, Credits, Marked
<1>3. CASE UserPays(p)
  <2>1. /\ onChain' = [onChain EXCEPT ![p] = TRUE] /\ onChain'[p]
        /\ live' = live /\ notices' = notices
    BY <1>3 DEF UserPays, TypeOK
  <2> USE <2>1
  <2>2. TypeOK'
    BY DEF TypeOK, WalletTypeOK
  <2>3. Arrived(p)'
    BY DEF Arrived
  <2>4. \A q \in Rows \ {p} : Same(q)
    BY DEF Same, TypeOK
  <2> QED
    BY <1>2, <2>2, <2>3, <2>4 DEF Kept
<1>4. CASE GatewayDecides(p)
  <2>1. PICK v \in {"paid", "failed", "expired"} :
          /\ v = "paid" => onChain[p]
          /\ live' = [live EXCEPT ![p] = v]
          /\ notices' = [notices EXCEPT ![p] = @ \cup {v}]
    BY <1>4 DEF GatewayDecides, GivesUp
  <2>2. live'[p] = v /\ notices'[p] = notices[p] \cup {v} /\ onChain' = onChain
    BY <1>4, <2>1 DEF GatewayDecides, TypeOK
  <2> USE <2>1, <2>2
  <2>3. TypeOK'
    BY DEF TypeOK, WalletTypeOK
  <2>4. Arrived(p)'
    BY DEF Arrived
  <2>5. \A q \in Rows \ {p} : Same(q)
    BY DEF Same, TypeOK
  <2> QED
    BY <1>2, <2>3, <2>4, <2>5 DEF Kept
<1> QED
  BY <1>3, <1>4

-----------------------------------------------------------------------------
\* The inductive invariant holds at first ...
LEMMA InitPayment == Init => TypeOK /\ PaymentInv
<1> SUFFICES ASSUME Init PROVE TypeOK /\ PaymentInv
  OBVIOUS
<1>1. TypeOK
  BY OpeningAssumption DEF Init, WalletInit, TypeOK, WalletTypeOK
<1>2. ASSUME NEW p \in Rows PROVE Arrived(p) /\ Fits(p)
  BY DEF Init, Arrived, Fits, Confirmed, Credits, Handling
<1> QED
  BY <1>1, <1>2 DEF PaymentInv

\* ... and is kept by a step on a payment ...
LEMMA WorkKeeps ==
    ASSUME TypeOK, NEW p \in Rows, Arrived(p), Fits(p), WorksOn(p)
    PROVE  Kept(p)
BY LearnsKeeps, AsksKeeps, OverwriteKeeps, CheckKeeps, MarkKeeps, ReadWalletKeeps, CreditKeeps,
   CrashKeeps, OutsideKeeps DEF WorksOn, Acts

\* ... for it, and for the payments it leaves alone.
LEMMA StepPayment == TypeOK /\ PaymentInv /\ [Next]_vars => TypeOK' /\ PaymentInv'
<1> SUFFICES ASSUME TypeOK, PaymentInv, [Next]_vars PROVE TypeOK' /\ PaymentInv'
  OBVIOUS
<1>1. ASSUME NEW q \in Rows, Same(q) PROVE Arrived(q)' /\ Fits(q)'
  BY <1>1 DEF PaymentInv, Same, Arrived, Fits, Confirmed, Credits
<1>2. CASE UNCHANGED vars
  <2>1. TypeOK' /\ \A q \in Rows : Same(q)
    BY <1>2 DEF vars, walletVars, taskVars, gatewayVars, scanVars, TypeOK, WalletTypeOK, Same, Handling
  <2> QED
    BY <1>1, <2>1 DEF PaymentInv
<1>3. ASSUME NEW p \in Rows, WorksOn(p) PROVE TypeOK' /\ PaymentInv'
  <2>1. Kept(p)
    BY <1>3, WorkKeeps DEF PaymentInv
  <2> QED
    BY <1>1, <2>1 DEF Kept, PaymentInv
<1>4. CASE TouchesNone
  <2>1. TypeOK' /\ \A q \in Rows : Same(q)
    BY <1>4 DEF TouchesNone, ScanTyped, walletVars, taskVars, gatewayVars, TypeOK, WalletTypeOK,
                Same, Handling
  <2> QED
    BY <1>1, <2>1 DEF PaymentInv
<1> QED
  BY <1>2, <1>3, <1>4, NextWorksOn

\* Every reachable state satisfies it.
LEMMA SpecPayment == Spec => [](TypeOK /\ PaymentInv)
BY InitPayment, StepPayment, PTL DEF Spec

\* No balance is ever negative and no count leaves its range, whatever the gateway
\* tells payments.service.ts and however often.
THEOREM DepositsTyped == Spec => []TypeOK
BY SpecPayment, PTL

\* A payment is credited at most once by confirmWalletDeposit, however often its
\* IPN is repeated, as long as its handlers do not overlap and no CONFIRMED status
\* is overwritten by a later notice.
THEOREM CreditedAtMostOnce == Spec => []CreditedOnce
<1>1. PaymentInv => CreditedOnce
  BY DEF PaymentInv, Fits, Credits, CreditedOnce
<1> QED
  BY <1>1, SpecPayment, PTL

\* Whatever overlaps, confirmWalletDeposit credits a wallet only for money that
\* arrived; and a CONFIRMED payment is credited, unless its handlers overlapped or
\* one died between the two writes.
THEOREM CreditIsPaidFor == Spec => []CreditFollowsPayment
<1>1. ASSUME TypeOK, PaymentInv PROVE CreditFollowsPayment
  <2>1. ASSUME NEW t \in tasks, t.at \in {"check", "mark", "wallet", "credit"}
        PROVE  onChain[t.p]
    BY <1>1, <2>1 DEF TypeOK, Task, PaymentInv, Arrived, Handling
  <2>2. ASSUME NEW p \in Rows
        PROVE  /\ credits[p] > 0 \/ status[p] = "CONFIRMED" => onChain[p]
               /\ status[p] = "CONFIRMED" /\ ~Running(p) /\ ~disturbed[p] => credits[p] >= 1
    BY <1>1 DEF PaymentInv, Arrived, Fits, Confirmed, Running, Handling
  <2> QED
    BY <2>1, <2>2 DEF CreditFollowsPayment
<1> QED
  BY <1>1, SpecPayment, PTL

-----------------------------------------------------------------------------
\* The rows of a wallet are the credits of its owner's payments.
Mine(u) == {p \in Rows : Owner[p] = u}

BooksInv ==
    \A u \in Users :
        /\ rowSum[u] = SumOver(credited, Mine(u))
        /\ RowsExplain(u)

\* What a payment has put into the wallet is an integer.
LEMMA CreditedInt ==
    ASSUME TypeOK
    PROVE  \A p \in Rows : credited[p] = credits[p] * Amount[p] /\ credited[p] \in Int
<1> SUFFICES ASSUME NEW p \in Rows
             PROVE  credited[p] = credits[p] * Amount[p] /\ credited[p] \in Int
  OBVIOUS
<1>1. credits[p] \in Nat /\ Amount[p] \in Nat
  BY DepositAssumption DEF TypeOK
<1>2. credits[p] * Amount[p] \in Int
  BY <1>1
<1> QED
  BY <1>2 DEF credited

\* A credit posts the amount of its payment.
LEMMA CreditBooks ==
    ASSUME TypeOK, TypeOK', BooksInv, NEW t \in tasks, Credit(t)
    PROVE  BooksInv'
<1> DEFINE o == Owner[t.p]
           a == Amount[t.p]
<1>1. t.p \in Rows /\ t.seen \in Nat /\ o \in Users /\ a \in Int
  BY DepositAssumption DEF TypeOK, Task
<1>2. WalletTypeOK /\ \A v \in Users : RowsExplain(v)
  BY DEF TypeOK, BooksInv
<1>3. AssignAndPost(o, t.seen, a, t.seen = available[o])
  BY DEF Credit
<1>4. /\ credits[t.p] \in Nat /\ credits'[t.p] = credits[t.p] + 1
      /\ \A q \in Rows \ {t.p} : credits'[q] = credits[q]
  BY <1>1 DEF Credit, TypeOK
<1>5. /\ \A q \in Rows : credited[q] \in Int /\ credited'[q] = credits'[q] * Amount[q]
      /\ \A q \in Rows : credited[q] = credits[q] * Amount[q]
  BY CreditedInt DEF credited
<1>6. \A n, m \in Int : (n + 1) * m = n * m + m
  OBVIOUS
<1>7. credited'[t.p] = credited[t.p] + a /\ \A q \in Rows \ {t.p} : credited'[q] = credited[q]
  <2>1. credited'[t.p] = (credits[t.p] + 1) * a /\ credited[t.p] = credits[t.p] * a
    BY <1>1, <1>4, <1>5
  <2>2. (credits[t.p] + 1) * a = credits[t.p] * a + a
    BY <1>1, <1>4, <1>6
  <2> QED
    BY <1>4, <1>5, <2>1, <2>2
<1> HIDE DEF o, a
<1>8. /\ \A v \in Users : RowsExplain(v)'
      /\ rowSum'[o] = rowSum[o] + a
      /\ \A v \in Users \ {o} : rowSum'[v] = rowSum[v]
  BY <1>1, <1>2, <1>3, PostExplained
<1>9. ASSUME NEW u \in Users PROVE rowSum'[u] = SumOver(credited', Mine(u))
  <2>1. IsFiniteSet(Mine(u)) /\ Mine(u) \subseteq Rows /\ rowSum[u] = SumOver(credited, Mine(u))
    BY DepositAssumption, FS_Subset DEF Mine, BooksInv
  <2>2. CASE u = o
    <3>1. t.p \in Mine(u)
      BY <1>1, <2>2 DEF Mine, o
    <3>2. DifferAt(credited, credited', Mine(u), t.p)
      BY <1>1, <1>5, <1>7, <2>1, <3>1 DEF DifferAt
    <3>3. /\ SumOver(credited, Mine(u)) \in Int
          /\ SumOver(credited', Mine(u)) =
               SumOver(credited, Mine(u)) + (credited'[t.p] - credited[t.p])
      BY <3>2, SumOverChange
    <3> QED
      BY <1>1, <1>5, <1>7, <1>8, <2>1, <2>2, <3>3
  <2>3. CASE u # o
    <3> DEFINE S == Mine(u)
               f == credited
               g == credited'
    <3>1. IsFiniteSet(S) /\ \A q \in S : f[q] = g[q]
      BY <1>7, <2>1, <2>3 DEF Mine, o
    <3> HIDE DEF S, f, g
    <3>2. SumOver(f, S) = SumOver(g, S)
      BY <3>1, SumOverSame
    <3> QED
      BY <1>8, <2>1, <2>3, <3>2 DEF S, f, g
  <2> QED
    BY <2>2, <2>3
<1> QED
  BY <1>8, <1>9 DEF BooksInv

\* The books are empty at first.
LEMMA InitBooks == Init => BooksInv
<1> SUFFICES ASSUME Init, NEW u \in Users
             PROVE  rowSum[u] = SumOver(credited, Mine(u)) /\ RowsExplain(u)
  BY DEF BooksInv
<1>1. \A p \in Mine(u) : credited[p] = 0
  BY DepositAssumption DEF Init, credited, Mine
<1>2. IsFiniteSet(Mine(u))
  BY DepositAssumption, FS_Subset DEF Mine
<1>3. SumOver(credited, Mine(u)) = 0
  BY <1>1, <1>2, SumOverZero
<1>4. rowSum[u] = 0 /\ available[u] = Opening[u] /\ Opening[u] \in Nat
  BY OpeningAssumption DEF Init, WalletInit
<1> QED
  BY <1>3, <1>4 DEF RowsExplain

\* Every step keeps them: nothing but a credit touches a wallet.
LEMMA StepBooks == TypeOK /\ TypeOK' /\ BooksInv /\ [Next]_vars => BooksInv'
<1> SUFFICES ASSUME TypeOK, TypeOK', BooksInv, [Next]_vars PROVE BooksInv'
  OBVIOUS
<1>1. ASSUME UNCHANGED <<walletVars, credits>> PROVE BooksInv'
  BY <1>1 DEF BooksInv, RowsExplain, credited, walletVars, Mine
<1>2. CASE UNCHANGED vars
  BY <1>1, <1>2 DEF vars
<1>3. CASE \E p \in Rows : UserPays(p) \/ GatewayDecides(p) \/ \E w \in Workers : Learns(w, p)
  BY <1>1, <1>3 DEF UserPays, GatewayDecides, Learns, Ipn, ChargeWebhook, MonitorReads, UserPolls
<1>5. CASE TouchesNone
  BY <1>1, <1>5 DEF TouchesNone
<1>4. ASSUME NEW t \in tasks, Acts(t) \/ Crash(t), ~Credit(t) PROVE BooksInv'
  BY <1>1, <1>4 DEF Acts, Crash, MonitorAsks, ChainMatches, UserPollAsks, Overwrite, Check, Mark, ReadWallet
<1>6. ASSUME NEW p \in Rows, WorksOn(p) PROVE BooksInv'
  BY <1>3, <1>4, <1>6, CreditBooks DEF WorksOn, Acts
<1> QED
  BY <1>2, <1>5, <1>6, NextWorksOn

\* A wallet whose writes were never stale holds the opening balance plus every
\* credited payment; for any number of payments.
THEOREM DepositBooks == Spec => []BooksFollowDeposits
<1>1. BooksInv => BooksFollowDeposits
  BY DEF BooksInv, BooksFollowDeposits, RowsExplain, Mine
<1> QED
  BY <1>1, InitBooks, StepBooks, SpecPayment, PTL DEF Spec

=============================================================================
