------------------------------ MODULE LoansProofs ------------------------------
(***************************************************************************)
(* Proofs about Loans, for any set of users, loans and workers, any        *)
(* principals, amounts and balances, and whichever handlers run.           *)
(*                                                                         *)
(* A loan is worked on by the handlers of its own row and by those of its  *)
(* owner's, so the invariants are stated per loan and per user.            *)
(***************************************************************************)
EXTENDS Loans, WalletLemmas

\* The handlers at work on a loan or a user.
Handling(r) == {t \in tasks : t.p = r}

\* The steps of the handlers of a loan; the others are those of a user.
LoanSteps == {"disburseReads", "disburse", "open", "repayReads", "collect", "close",
              "clawReads", "clawSums", "claw"} \cup Closing

\* What a handler holds: its one loan, if any; the amount it was asked for; and
\* a snapshot that covers what it is going to take.
Formed(t) ==
    /\ t.at \in LoanSteps => t.p \in Loans /\ t.loan = {t.p}
    /\ t.at \notin LoanSteps => t.p \in Users /\ \A l \in t.loan : Owner[l] = t.p
    /\ t.at \in {"create", "count"} => t.loan # {}
    /\ \A k, l \in t.loan : k = l
    /\ t.at \notin LoanSteps \cup {"create"} => t.amount \in Amounts
    /\ t.at = "collect" => t.seen >= TotalDue(t.p)
    /\ t.at \in {"debit", "allocate"} => t.amount <= t.seen
    /\ t.at = "claw" => t.amount <= t.seenInvested

\* A loan that does not exist yet is known to the handler that creates it only.
Known(t) ==
    /\ \A l \in t.loan : status[l] = "none" <=> t.at = "create"
    /\ t.at = "create" => \A s \in tasks : s.loan \cap t.loan # {} => s = t

HandlerInv == \A t \in tasks : Formed(t) /\ Known(t)

\* What a handler of a loan found its status to be.
Found(s) == IF s \in {"disburseReads", "disburse", "open", "CANCELLED", "REJECTED"}
            THEN "PENDING" ELSE "APPROVED"

Opened == {"APPROVED", "REPAID", "DEFAULTED"}

\* A loan whose handlers did not overlap or die half-way has one at a time, the
\* status is still what that one found, and the money agrees with the status and
\* with what the handler has yet to record.
LoanFits(l) == ~disturbed[l] =>
    /\ \A t \in Handling(l) : Handling(l) = {t}
    /\ \A t \in Handling(l) : t.at \in {"clawReads", "clawSums", "claw"} \/ status[l] = Found(t.at)
    /\ disbursed[l] =
         IF status[l] \in Opened \/ \E t \in Handling(l) : t.at = "open" THEN 1 ELSE 0
    /\ collected[l] =
         IF status[l] = "REPAID" \/ \E t \in Handling(l) : t.at = "close" THEN 1 ELSE 0

\* At most one loan, and none when a request has passed its check.
OneLoan(u) ==
    /\ \A k, l \in LoansOf(u) : k \in Blocking(u) /\ l \in Blocking(u) => k = l
    /\ \A t \in Handling(u) : t.at = "create" => \A l \in LoansOf(u) : l \notin Blocking(u)

\* What is withdrawn against a loan, or about to be, is within its principal;
\* and if it is open, recorded or about to be.
Drawn(u, l) ==
    /\ drawn[l] <= Principal[l]
    /\ status[l] \in {"none", "PENDING"} =>
         drawn[l] = 0 /\ \A t \in Handling(u) : l \in t.loan => t.at = "create"
    /\ \A t \in Handling(u) : l \in t.loan =>
         /\ t.at \in {"withdrawReads", "debit"} => drawn[l] + t.amount <= Principal[l]
         /\ t.at = "count" => t.seen = advanced[l]
    /\ status[l] = "APPROVED" =>
         \/ drawn[l] <= advanced[l]
         \/ \E t \in Handling(u) : /\ t.at \in {"record", "count"} /\ l \in t.loan
                                   /\ drawn[l] <= advanced[l] + t.amount

\* A user none of whose handlers, and no two handlers of one of whose loans,
\* overlapped.
UserFits(u) == Orderly(u) =>
    /\ \A t \in Handling(u) : Handling(u) = {t}
    /\ OneLoan(u)
    /\ \A l \in LoansOf(u) : Drawn(u, l)

Fits(u) == UserFits(u) /\ \A l \in LoansOf(u) : LoanFits(l)

FitsInv == \A u \in Users : Fits(u)

\* Writes that were not stale keep to the books.
BooksOf(u) == ~stale[u] =>
    /\ available[u] = Opening[u] + rowSum[u]
    /\ available[u] + invested[u] = Opening[u] + Capital[u] - paidOut[u] + SumOver(net, LoansOf(u))

BooksInv == \A u \in Users : BooksOf(u)

IInv == TypeOK /\ HandlerInv /\ FitsInv

-----------------------------------------------------------------------------
\* What is due on a loan is a natural number of cents.
LEMMA DueNat == \A l \in Loans : Principal[l] \in Nat /\ TotalDue(l) \in Nat
<1> SUFFICES ASSUME NEW l \in Loans PROVE Principal[l] \in Nat /\ TotalDue(l) \in Nat
  OBVIOUS
<1>1. Principal[l] \in Nat
  BY LoanAssumption
<1>2. \A n \in Nat : n + (n * 20 + 50) \div 100 \in Nat
  OBVIOUS
<1> QED
  BY <1>1, <1>2 DEF TotalDue

\* The handler of a loan works on that loan and its owner's wallet.
LEMMA OfLoan ==
    ASSUME TypeOK, HandlerInv, NEW t \in tasks, t.at \in LoanSteps
    PROVE  /\ t \in Task /\ t.p \in Loans /\ t.loan = {t.p} /\ LoanOf(t) = t.p
           /\ UserOf(t) = Owner[t.p] /\ UserOf(t) \in Users /\ t.p \in LoansOf(UserOf(t))
           /\ status[t.p] # "none"
<1>1. t \in Task /\ t.p \in Loans /\ t.loan = {t.p} /\ status[t.p] # "none"
  BY DEF TypeOK, HandlerInv, Formed, Known, LoanSteps, Closing
<1>2. t.p \notin Users /\ Owner[t.p] \in Users
  BY <1>1, LoanAssumption
<1> QED
  BY <1>1, <1>2 DEF LoanOf, UserOf, LoansOf

\* The handler of a user works on that user's wallet, and on a loan of that user.
LEMMA OfUser ==
    ASSUME TypeOK, HandlerInv, NEW t \in tasks, t.at \notin LoanSteps
    PROVE  /\ t \in Task /\ t.p \in Users /\ UserOf(t) = t.p /\ t.loan \subseteq LoansOf(t.p)
           /\ t.at \in {"create", "count"} => LoanOf(t) \in t.loan /\ t.loan = {LoanOf(t)}
           /\ t.at # "create" => \A l \in t.loan : status[l] # "none"
           /\ t.at # "create" => t.amount \in Amounts /\ t.amount \in Nat
<1>1. /\ t \in Task /\ t.p \in Users /\ \A l \in t.loan : Owner[l] = t.p
      /\ t.at # "create" => t.amount \in Amounts /\ \A l \in t.loan : status[l] # "none"
  BY DEF TypeOK, HandlerInv, Formed, Known
<1>2. t.at \in {"create", "count"} => t.loan # {} /\ \A k, l \in t.loan : k = l
  BY DEF HandlerInv, Formed
<1>3. t.at \in {"create", "count"} => LoanOf(t) \in t.loan /\ t.loan = {LoanOf(t)}
  BY <1>2 DEF LoanOf
<1>4. t.loan \subseteq Loans /\ t.amount \in Nat
  BY <1>1 DEF Task
<1> QED
  BY <1>1, <1>3, <1>4 DEF LoansOf, UserOf

\* A handler starts, goes on or ends, seen from its row and from the others.
LEMMA PoolStarts ==
    ASSUME TypeOK, NEW t \in Task, StartWith(t)
    PROVE  /\ tasks' \subseteq Task /\ disturbed' \in [Rows -> BOOLEAN]
           /\ tasks' = tasks \cup {t} /\ Handling(t.p)' = Handling(t.p) \cup {t}
           /\ ~disturbed'[t.p] => ~disturbed[t.p] /\ Handling(t.p) = {}
           /\ \A q \in Rows \ {t.p} :
                Handling(q)' = Handling(q) /\ disturbed'[q] = disturbed[q]
<1>1. t.p \in Rows
  BY DEF Task
<1>2. disturbed' = [disturbed EXCEPT ![t.p] = @ \/ Running(t.p)] /\ tasks' = tasks \cup {t}
  BY DEF StartWith
<1>3. Running(t.p) \in BOOLEAN /\ (Handling(t.p) # {} => Running(t.p))
  BY DEF Running, Handling
<1>4. tasks' \subseteq Task /\ disturbed' \in [Rows -> BOOLEAN]
  BY <1>1, <1>2, <1>3 DEF TypeOK
<1>5. disturbed'[t.p] = (disturbed[t.p] \/ Running(t.p))
  BY <1>1, <1>2 DEF TypeOK
<1>6. /\ Handling(t.p)' = Handling(t.p) \cup {t}
      /\ \A q \in Rows \ {t.p} : Handling(q)' = Handling(q) /\ disturbed'[q] = disturbed[q]
  BY <1>1, <1>2 DEF Handling, TypeOK
<1> QED
  BY <1>2, <1>3, <1>4, <1>5, <1>6

LEMMA PoolMoves ==
    ASSUME TypeOK, NEW t \in tasks, NEW u \in Task, u.p = t.p, Continue(t, u)
    PROVE  /\ tasks' \subseteq Task /\ tasks' = (tasks \ {t}) \cup {u} /\ disturbed' = disturbed
           /\ Handling(t.p)' = (Handling(t.p) \ {t}) \cup {u}
           /\ \A q \in Rows \ {t.p} : Handling(q)' = Handling(q)
BY DEF TypeOK, Continue, Handling

LEMMA PoolEnds ==
    ASSUME TypeOK, NEW t \in tasks, Return(t) \/ LoseTrack(t)
    PROVE  /\ tasks' \subseteq Task /\ tasks' = tasks \ {t} /\ disturbed' \in [Rows -> BOOLEAN]
           /\ Handling(t.p)' = Handling(t.p) \ {t}
           /\ IF Return(t) THEN disturbed' = disturbed ELSE disturbed'[t.p]
           /\ \A q \in Rows \ {t.p} : Handling(q)' = Handling(q) /\ disturbed'[q] = disturbed[q]
<1>1. t.p \in Rows
  BY DEF TypeOK, Task
<1> QED
  BY <1>1 DEF TypeOK, Return, LoseTrack, Handling

\* A handler at another step.
LEMMA AtStep ==
    ASSUME NEW t \in Task, NEW s \in Steps
    PROVE  /\ [t EXCEPT !.at = s] \in Task
           /\ [t EXCEPT !.at = s].at = s /\ [t EXCEPT !.at = s].p = t.p
           /\ [t EXCEPT !.at = s].loan = t.loan /\ [t EXCEPT !.at = s].amount = t.amount
           /\ [t EXCEPT !.at = s].seen = t.seen
           /\ [t EXCEPT !.at = s].seenInvested = t.seenInvested
BY DEF Task

\* A handler that read the wallet.
LEMMA Snapshots ==
    ASSUME TypeOK, NEW t \in tasks, UserOf(t) \in Users, NEW s \in Steps, Snapshot(t, s)
    PROVE  \E u \in Task :
             /\ Continue(t, u) /\ u.p = t.p /\ u.loan = t.loan /\ u.at = s /\ u.amount = t.amount
             /\ u.seen = available[UserOf(t)] /\ u.seenInvested = invested[UserOf(t)]
<1> DEFINE u == [t EXCEPT !.at = s, !.seen = available[UserOf(t)],
                          !.seenInvested = invested[UserOf(t)]]
<1>1. available[UserOf(t)] \in Nat /\ invested[UserOf(t)] \in Nat /\ t \in Task
  BY DEF TypeOK, WalletTypeOK
<1>2. /\ u \in Task /\ u.p = t.p /\ u.loan = t.loan /\ u.at = s /\ u.amount = t.amount
      /\ u.seen = available[UserOf(t)] /\ u.seenInvested = invested[UserOf(t)]
  BY <1>1 DEF Task
<1>3. Continue(t, u)
  BY DEF Snapshot
<1> HIDE DEF u
<1> QED
  BY <1>2, <1>3

-----------------------------------------------------------------------------
\* The steps handlers start at.
Entries == {"create", "disburseReads", "repayReads", "clawReads", "withdrawReads",
            "refundReads", "allocateReads"} \cup Closing

\* What a handler has checked when it starts.
Ready(t) ==
    /\ t.at \in Entries
    /\ t.at \in LoanSteps \ {"clawReads"} => status[t.p] = Found(t.at)
    /\ \A l \in t.loan :
         IF t.at = "create"
         THEN status[l] = "none" /\ Blocking(Owner[l]) = {} /\ \A s \in tasks : l \notin s.loan
         ELSE status[l] # "none"
    /\ t.at = "withdrawReads" =>
         \A l \in t.loan : status[l] = "APPROVED" /\ WithinAdvance(t.amount, l)
    /\ t.at \in {"refundReads", "allocateReads"} => t.loan = {}

Begins(t) ==
    /\ StartWith(t) /\ Formed(t) /\ Ready(t) /\ left' \in Nat
    /\ UNCHANGED <<walletVars, loanVars, payoutVars, capitalVars>>

\* A handler as Start makes it.
LEMMA Started ==
    ASSUME TypeOK, NEW w \in Workers, NEW r \in Rows, NEW L \in SUBSET Loans, NEW s \in Steps,
           NEW a \in Nat, Start(w, r, L, s, a)
    PROVE  \E t \in Task : /\ t.p = r /\ t.loan = L /\ t.at = s /\ t.amount = a
                           /\ StartWith(t) /\ left' \in Nat
<1> DEFINE t == [worker |-> w, p |-> r, loan |-> L, at |-> s, amount |-> a,
                 seen |-> 0, seenInvested |-> 0]
<1>1. t \in Task /\ t.p = r /\ t.loan = L /\ t.at = s /\ t.amount = a
  BY DEF Task
<1>2. StartWith(t) /\ left' \in Nat
  BY DEF Start, StartsWith, TypeOK
<1> HIDE DEF t
<1> QED
  BY <1>1, <1>2

\* Every handler of a loan starts like that ...
LEMMA LoanBegins ==
    ASSUME TypeOK, NEW w \in Workers, NEW l \in Loans, StartsOnLoan(w, l)
    PROVE  \E t \in Task : Begins(t) /\ UserOf(t) = Owner[l]
<1>1. l \in Rows /\ l \notin Users /\ Owner[l] \in Users /\ Owner[l] \in Rows
  BY LoanAssumption
<1>2. UNCHANGED <<walletVars, loanVars, payoutVars, capitalVars>>
  BY DEF StartsOnLoan, RequestReads, ApproveReads, RepayReads, ReviewReads, ClawbackLists
<1>3. CASE RequestReads(w, l)
  <2>1. Start(w, Owner[l], {l}, "create", 0) /\ {l} \in SUBSET Loans /\ "create" \in Steps
    BY <1>3 DEF RequestReads, Steps
  <2>2. PICK t \in Task : /\ t.p = Owner[l] /\ t.loan = {l} /\ t.at = "create" /\ t.amount = 0
                          /\ StartWith(t) /\ left' \in Nat
    BY <1>1, <2>1, Started
  <2> QED
    BY <1>1, <1>2, <1>3, <2>2
       DEF RequestReads, Begins, Formed, Ready, Entries, LoanSteps, Closing, UserOf
<1>4. ASSUME NEW s \in {"disburseReads", "repayReads", "clawReads"} \cup Closing,
             Start(w, l, {l}, s, 0), status[l] # "none",
             s # "clawReads" => status[l] = Found(s)
      PROVE  \E t \in Task : Begins(t) /\ UserOf(t) = Owner[l]
  <2>1. {l} \in SUBSET Loans /\ s \in Steps
    BY DEF Steps
  <2>2. PICK t \in Task : /\ t.p = l /\ t.loan = {l} /\ t.at = s /\ t.amount = 0
                          /\ StartWith(t) /\ left' \in Nat
    BY <1>1, <1>4, <2>1, Started
  <2> QED
    BY <1>1, <1>2, <1>4, <2>2 DEF Begins, Formed, Ready, Entries, LoanSteps, Closing, UserOf
<1>5. CASE ApproveReads(w, l) \/ RepayReads(w, l) \/ ClawbackLists(w, l)
  BY <1>4, <1>5 DEF ApproveReads, RepayReads, ClawbackLists, Found
<1>6. CASE ReviewReads(w, l)
  <2>1. PICK s \in Closing : /\ status[l] = IF s = "DEFAULTED" THEN "APPROVED" ELSE "PENDING"
                             /\ Start(w, l, {l}, s, 0)
    BY <1>6 DEF ReviewReads
  <2>2. status[l] # "none" /\ status[l] = Found(s)
    BY <2>1 DEF Closing, Found
  <2> QED
    BY <1>4, <2>1, <2>2
<1> QED
  BY <1>3, <1>5, <1>6 DEF StartsOnLoan

\* ... and every handler of a user.
LEMMA WalletBegins ==
    ASSUME TypeOK, NEW w \in Workers, NEW u \in Users, StartsOnWallet(w, u)
    PROVE  \E t \in Task : Begins(t) /\ UserOf(t) = u
<1>1. u \in Rows /\ Amounts \subseteq Nat
  BY LoanAssumption
<1>2. UNCHANGED <<walletVars, loanVars, payoutVars, capitalVars>>
  BY DEF StartsOnWallet, WithdrawChecks, RefundChecks, AllocateChecks, ReinvestChecks
<1>3. ASSUME NEW s \in {"withdrawReads", "refundReads", "allocateReads"}, NEW a \in Amounts,
             NEW L \in SUBSET Open(u), Start(w, u, L, s, a),
             \A k, l \in L : k = l,
             IF s = "withdrawReads" THEN \A l \in L : WithinAdvance(a, l) ELSE L = {}
      PROVE  \E t \in Task : Begins(t) /\ UserOf(t) = u
  <2>1. /\ L \in SUBSET Loans /\ s \in Steps /\ a \in Nat
        /\ \A l \in L : Owner[l] = u /\ status[l] = "APPROVED"
    BY <1>1 DEF Steps, Open
  <2>2. PICK t \in Task : /\ t.p = u /\ t.loan = L /\ t.at = s /\ t.amount = a
                          /\ StartWith(t) /\ left' \in Nat
    BY <1>1, <1>3, <2>1, Started
  <2> QED
    BY <1>1, <1>2, <1>3, <2>1, <2>2 DEF Begins, Formed, Ready, Entries, LoanSteps, Closing, UserOf
<1>4. CASE WithdrawChecks(w, u)
  <2>1. PICK a \in Amounts :
          \/ Open(u) = {} /\ Start(w, u, {}, "withdrawReads", a)
          \/ \E l \in Open(u) : WithinAdvance(a, l) /\ Start(w, u, {l}, "withdrawReads", a)
    BY <1>4 DEF WithdrawChecks
  <2>2. CASE Start(w, u, {}, "withdrawReads", a)
    <3>1. {} \in SUBSET Open(u) /\ \A k, l \in {} : k = l
      OBVIOUS
    <3> QED
      BY <1>3, <2>2, <3>1
  <2>3. ASSUME NEW l \in Open(u), WithinAdvance(a, l), Start(w, u, {l}, "withdrawReads", a)
        PROVE  \E t \in Task : Begins(t) /\ UserOf(t) = u
    <3>1. {l} \in SUBSET Open(u) /\ \A k, m \in {l} : k = m
      OBVIOUS
    <3> QED
      BY <1>3, <2>3, <3>1
  <2> QED
    BY <2>1, <2>2, <2>3
<1>5. CASE RefundChecks(w, u)
  <2>1. PICK a \in pending[u] : Start(w, u, {}, "refundReads", a)
    BY <1>5 DEF RefundChecks
  <2>2. a \in Amounts
    BY DEF TypeOK
  <2> QED
    BY <1>3, <2>1, <2>2
<1>6. CASE AllocateChecks(w, u)
  BY <1>3, <1>6 DEF AllocateChecks
<1> QED
  BY <1>4, <1>5, <1>6 DEF StartsOnWallet, ReinvestChecks

-----------------------------------------------------------------------------
\* The handlers stay well-formed when one starts ...
LEMMA StartHandlers ==
    ASSUME TypeOK, HandlerInv, NEW t \in Task, Begins(t)
    PROVE  TypeOK' /\ HandlerInv'
<1>1. tasks' = tasks \cup {t} /\ tasks' \subseteq Task /\ disturbed' \in [Rows -> BOOLEAN]
  BY PoolStarts DEF Begins
<1>2. UNCHANGED <<walletVars, loanVars, payoutVars, capitalVars>> /\ left' \in Nat
  BY DEF Begins
<1>3. TypeOK'
  BY <1>1, <1>2 DEF TypeOK, WalletTypeOK, walletVars, loanVars, payoutVars, capitalVars
<1>4. status' = status
  BY <1>2 DEF loanVars
<1>5. \A s \in tasks' : Formed(s)'
  BY <1>1 DEF Begins, HandlerInv, Formed, TotalDue
<1>6. \A s \in tasks' : Known(s)'
  BY <1>1, <1>4 DEF Begins, Ready, HandlerInv, Known
<1> QED
  BY <1>3, <1>5, <1>6 DEF HandlerInv

\* ... goes on ...
LEMMA MoveHandlers ==
    ASSUME TypeOK, HandlerInv, NEW t \in tasks, NEW u \in Task, u.p = t.p, Continue(t, u),
           UNCHANGED status, t.at # "create", u.at # "create", Formed(u),
           \A l \in u.loan : status[l] # "none"
    PROVE  HandlerInv'
<1>1. tasks' = (tasks \ {t}) \cup {u}
  BY DEF Continue
<1>2. \A s \in tasks' : Formed(s)'
  BY <1>1 DEF HandlerInv, Formed, TotalDue
<1>3. \A s \in tasks' : Known(s)'
  BY <1>1 DEF HandlerInv, Known
<1> QED
  BY <1>2, <1>3 DEF HandlerInv

\* ... or ends, possibly setting the status of its loan.
LEMMA EndHandlers ==
    ASSUME TypeOK, HandlerInv, NEW t \in tasks, tasks' = tasks \ {t},
           \/ UNCHANGED status
           \/ \E l \in t.loan, s \in Statuses \ {"none"} : status' = [status EXCEPT ![l] = s]
    PROVE  HandlerInv'
<1>1. \A s \in tasks' : Formed(s)'
  BY DEF HandlerInv, Formed, TotalDue
<1>2. CASE UNCHANGED status
  BY <1>1, <1>2 DEF HandlerInv, Known
<1>3. ASSUME NEW l \in t.loan, NEW s \in Statuses \ {"none"}, status' = [status EXCEPT ![l] = s]
      PROVE  HandlerInv'
  <2>1. l \in Loans /\ \A q \in tasks : q.loan \subseteq Loans
    BY DEF TypeOK, Task
  <2>2. status'[l] # "none" /\ \A k \in Loans \ {l} : status'[k] = status[k]
    BY <1>3, <2>1 DEF TypeOK
  <2>3. \A q \in tasks \ {t} : l \in q.loan => status[l] # "none"
    BY <1>3 DEF HandlerInv, Known
  <2>4. \A q \in tasks \ {t} : Known(q)'
    BY <2>1, <2>2, <2>3 DEF HandlerInv, Known
  <2> QED
    BY <1>1, <2>4 DEF HandlerInv
<1> QED
  BY <1>2, <1>3

-----------------------------------------------------------------------------
\* The steps that only read, and lead to another step or to the end.
Reads(t) ==
    \/ DisburseReads(t) \/ CollectReads(t) \/ WithdrawReads(t) \/ RecordReads(t)
    \/ RefundReads(t) \/ AllocateReads(t) \/ ClawbackReads(t) \/ ClawbackSums(t)

Pairs == {<<"disburseReads", "disburse">>, <<"repayReads", "collect">>,
          <<"withdrawReads", "debit">>, <<"record", "count">>, <<"refundReads", "refund">>,
          <<"allocateReads", "allocate">>, <<"clawReads", "clawSums">>, <<"clawSums", "claw">>}

\* A handler t that has read something, and goes on as u.
ReadsTo(t, u) ==
    /\ Continue(t, u) /\ u.p = t.p /\ Formed(u) /\ <<t.at, u.at>> \in Pairs
    /\ t.at # "clawSums" => u.amount = t.amount
    /\ IF t.at = "record"
       THEN \E l \in Open(t.p) : u.loan = {l} /\ u.seen = advanced[l]
       ELSE u.loan = t.loan

LEMMA ReadsAre ==
    ASSUME TypeOK, HandlerInv, NEW t \in tasks, Reads(t)
    PROVE  /\ UNCHANGED <<walletVars, loanVars, payoutVars, capitalVars>>
           /\ t.at \in {"disburseReads", "repayReads", "withdrawReads", "record", "refundReads",
                        "allocateReads", "clawReads", "clawSums"}
           /\ \/ Return(t) /\ (t.at = "record" => Open(t.p) = {})
              \/ \E u \in Task : ReadsTo(t, u)
<1>1. Formed(t) /\ t \in Task
  BY DEF HandlerInv, TypeOK
<1>2. ASSUME NEW s \in Steps, NEW q \in {t.at}, <<q, s>> \in Pairs, q \notin {"record", "clawSums"},
             UserOf(t) \in Users, Snapshot(t, s),
             s = "collect" => available[UserOf(t)] >= TotalDue(t.p),
             s \in {"debit", "allocate"} => t.amount <= available[UserOf(t)]
      PROVE  \E u \in Task : ReadsTo(t, u)
  <2>1. PICK u \in Task :
          /\ Continue(t, u) /\ u.p = t.p /\ u.loan = t.loan /\ u.at = s /\ u.amount = t.amount
          /\ u.seen = available[UserOf(t)] /\ u.seenInvested = invested[UserOf(t)]
    BY <1>2, Snapshots
  <2>2. Formed(u)
    BY <1>1, <1>2, <2>1 DEF Formed, Pairs, LoanSteps, Closing
  <2> QED
    BY <1>2, <2>1, <2>2 DEF ReadsTo
<1>3. CASE DisburseReads(t) \/ CollectReads(t) \/ ClawbackReads(t)
  <2>1. t.at \in {"disburseReads", "repayReads", "clawReads"}
    BY <1>3 DEF DisburseReads, CollectReads, ClawbackReads, At
  <2>2. UserOf(t) \in Users /\ LoanOf(t) = t.p
    BY <2>1, OfLoan DEF LoanSteps
  <2>3. UNCHANGED <<walletVars, loanVars, payoutVars, capitalVars>>
    BY <1>3 DEF DisburseReads, CollectReads, ClawbackReads
  <2>4. CASE DisburseReads(t)
    BY <1>2, <2>2, <2>3, <2>4 DEF DisburseReads, At, Pairs, Steps
  <2>5. CASE CollectReads(t)
    BY <1>2, <2>2, <2>3, <2>5 DEF CollectReads, At, Pairs, Steps
  <2>6. CASE ClawbackReads(t)
    BY <1>2, <2>2, <2>3, <2>6 DEF ClawbackReads, At, Pairs, Steps
  <2> QED
    BY <1>3, <2>4, <2>5, <2>6
<1>4. CASE WithdrawReads(t) \/ RefundReads(t) \/ AllocateReads(t)
  <2>1. t.at \in {"withdrawReads", "refundReads", "allocateReads"}
    BY <1>4 DEF WithdrawReads, RefundReads, AllocateReads, At
  <2>2. UserOf(t) \in Users /\ UserOf(t) = t.p
    BY <2>1, OfUser DEF LoanSteps, Closing
  <2>3. UNCHANGED <<walletVars, loanVars, payoutVars, capitalVars>>
    BY <1>4 DEF WithdrawReads, RefundReads, AllocateReads
  <2>4. CASE WithdrawReads(t)
    BY <1>2, <2>2, <2>3, <2>4 DEF WithdrawReads, At, Pairs, Steps
  <2>5. CASE RefundReads(t)
    BY <1>2, <2>2, <2>3, <2>5 DEF RefundReads, At, Pairs, Steps
  <2>6. CASE AllocateReads(t)
    BY <1>2, <2>2, <2>3, <2>6 DEF AllocateReads, At, Pairs, Steps
  <2> QED
    BY <1>4, <2>4, <2>5, <2>6
<1>5. CASE RecordReads(t)
  <2>1. t.at = "record" /\ UNCHANGED <<walletVars, loanVars, payoutVars, capitalVars>>
    BY <1>5 DEF RecordReads, At
  <2>2. UserOf(t) = t.p /\ t.p \in Users
    BY <2>1, OfUser DEF LoanSteps, Closing
  <2>3. ASSUME NEW l \in Open(t.p), Continue(t, [t EXCEPT !.at = "count", !.loan = {l},
                                                          !.seen = advanced[l]])
        PROVE  \E u \in Task : ReadsTo(t, u)
    <3> DEFINE u == [t EXCEPT !.at = "count", !.loan = {l}, !.seen = advanced[l]]
    <3>1. l \in Loans /\ Owner[l] = t.p /\ advanced[l] \in Nat
      BY DEF Open, TypeOK
    <3>2. /\ u \in Task /\ u.p = t.p /\ u.loan = {l} /\ u.at = "count" /\ u.amount = t.amount
          /\ u.seen = advanced[l]
      BY <1>1, <3>1 DEF Task, Steps
    <3>3. Continue(t, u)
      BY <2>3
    <3> HIDE DEF u
    <3>4. Formed(u)
      BY <1>1, <2>1, <2>2, <3>1, <3>2 DEF Formed, LoanSteps, Closing
    <3> QED
      BY <2>1, <3>1, <3>2, <3>3, <3>4 DEF ReadsTo, Pairs
  <2> QED
    BY <1>5, <2>1, <2>2, <2>3 DEF RecordReads
<1>6. CASE ClawbackSums(t)
  <2> DEFINE strip == IF t.seenInvested < moved[t.p] THEN t.seenInvested ELSE moved[t.p]
             u == [t EXCEPT !.at = "claw", !.amount = strip]
  <2>1. t.at = "clawSums" /\ UNCHANGED <<walletVars, loanVars, payoutVars, capitalVars>>
    BY <1>6 DEF ClawbackSums, At
  <2>2. t.p \in Loans
    BY <2>1, OfLoan DEF LoanSteps
  <2>3. t.seenInvested \in Nat /\ moved[t.p] \in Nat
    BY <1>1, <2>2 DEF Task, TypeOK
  <2>4. strip \in Nat /\ strip <= t.seenInvested
    BY <2>3
  <2>5. (strip = 0 /\ Return(t)) \/ Continue(t, u)
    BY <1>6 DEF ClawbackSums
  <2> HIDE DEF strip
  <2>6. /\ u \in Task /\ u.p = t.p /\ u.loan = t.loan /\ u.at = "claw" /\ u.amount = strip
        /\ u.seenInvested = t.seenInvested
    BY <1>1, <2>4 DEF Task, Steps
  <2> HIDE DEF u
  <2>7. Formed(u)
    BY <1>1, <2>1, <2>4, <2>6 DEF Formed, LoanSteps, Closing
  <2>8. CASE Return(t)
    BY <2>1, <2>8
  <2>9. CASE Continue(t, u)
    BY <2>1, <2>6, <2>7, <2>9 DEF ReadsTo, Pairs
  <2> QED
    BY <2>5, <2>8, <2>9
<1> QED
  BY <1>3, <1>4, <1>5, <1>6 DEF Reads

-----------------------------------------------------------------------------
\* Well-formed handlers and columns after a step.
Typed == TypeOK' /\ HandlerInv'

LEMMA ReadsTyped ==
    ASSUME TypeOK, HandlerInv, NEW t \in tasks, Reads(t), UNCHANGED left
    PROVE  Typed
<1>1. UNCHANGED <<walletVars, loanVars, payoutVars, capitalVars>>
  BY ReadsAre
<1>2. UNCHANGED status
  BY <1>1 DEF loanVars
<1>3. CASE Return(t)
  <2>1. tasks' \subseteq Task /\ tasks' = tasks \ {t} /\ disturbed' = disturbed
    BY <1>3, PoolEnds
  <2>2. HandlerInv'
    BY <1>2, <2>1, EndHandlers
  <2>3. TypeOK'
    BY <1>1, <2>1 DEF TypeOK, WalletTypeOK, walletVars, loanVars, payoutVars, capitalVars
  <2> QED
    BY <2>2, <2>3 DEF Typed
<1>4. ASSUME NEW u \in Task, ReadsTo(t, u) PROVE Typed
  <2>1. Continue(t, u) /\ u.p = t.p /\ Formed(u)
    BY <1>4 DEF ReadsTo
  <2>2. tasks' \subseteq Task /\ disturbed' = disturbed
    BY <2>1, PoolMoves
  <2>3. t.at # "create" /\ u.at # "create"
    BY <1>4 DEF ReadsTo, Pairs
  <2>4. \A l \in u.loan : status[l] # "none"
    <3>1. CASE t.at = "record"
      BY <1>4, <3>1 DEF ReadsTo, Open
    <3>2. CASE t.at # "record"
      BY <1>4, <2>3, <3>2 DEF ReadsTo, HandlerInv, Known
    <3> QED
      BY <3>1, <3>2
  <2>5. HandlerInv'
    BY <1>2, <2>1, <2>3, <2>4, MoveHandlers
  <2>6. TypeOK'
    BY <1>1, <2>2 DEF TypeOK, WalletTypeOK, walletVars, loanVars, payoutVars, capitalVars
  <2> QED
    BY <2>5, <2>6 DEF Typed
<1> QED
  BY <1>3, <1>4, ReadsAre

\* The steps that set the status of a loan, and how.
Sets(t, s) ==
    \/ RequestCreates(t) /\ s = "PENDING"
    \/ ReviewCommits(t) /\ s = t.at
    \/ ApproveCommits(t) /\ s = "APPROVED"
    \/ RepayCommits(t) /\ s = "REPAID"

SetsStep == {<<"create", "PENDING">>, <<"open", "APPROVED">>, <<"close", "REPAID">>,
             <<"CANCELLED", "CANCELLED">>, <<"REJECTED", "REJECTED">>,
             <<"DEFAULTED", "DEFAULTED">>}

LEMMA SetsAre ==
    ASSUME TypeOK, HandlerInv, NEW t \in tasks, NEW s \in Statuses, Sets(t, s)
    PROVE  /\ <<t.at, s>> \in SetsStep /\ s # "none"
           /\ LoanOf(t) \in Loans /\ t.loan = {LoanOf(t)} /\ Return(t)
           /\ status' = [status EXCEPT ![LoanOf(t)] = s]
           /\ status'[LoanOf(t)] = s
           /\ \A l \in Loans \ {LoanOf(t)} : status'[l] = status[l]
           /\ IF t.at = "create" THEN t.p = Owner[LoanOf(t)] /\ t.p \in Users
                                 ELSE t.p = LoanOf(t) /\ t.at \in LoanSteps
           /\ UNCHANGED <<walletVars, advanced, disbursed, collected, drawn, payoutVars, invested,
                          stripped>>
           /\ moved' \in [Loans -> Nat]
<1>1. /\ <<t.at, s>> \in SetsStep /\ s # "none"
      /\ Return(t) /\ status' = [status EXCEPT ![LoanOf(t)] = s]
      /\ UNCHANGED <<walletVars, advanced, disbursed, collected, drawn, payoutVars, invested,
                     stripped>>
  BY DEF Sets, SetsStep, RequestCreates, ReviewCommits, ApproveCommits, RepayCommits, SetStatus,
         At, Closing, capitalVars
<1>2. /\ LoanOf(t) \in Loans /\ t.loan = {LoanOf(t)}
      /\ IF t.at = "create" THEN t.p = Owner[LoanOf(t)] /\ t.p \in Users
                            ELSE t.p = LoanOf(t) /\ t.at \in LoanSteps
  <2>1. CASE t.at = "create"
    <3>1. /\ t.p \in Users /\ t.loan \subseteq LoansOf(t.p)
          /\ LoanOf(t) \in t.loan /\ t.loan = {LoanOf(t)}
      BY <2>1, OfUser DEF LoanSteps, Closing
    <3> QED
      BY <2>1, <3>1 DEF LoansOf
  <2>2. CASE t.at # "create"
    <3>1. t.at \in LoanSteps
      BY <1>1, <2>2 DEF SetsStep, LoanSteps, Closing
    <3> QED
      BY <2>2, <3>1, OfLoan
  <2> QED
    BY <2>1, <2>2
<1>3. moved' \in [Loans -> Nat]
  BY DEF Sets, RequestCreates, ReviewCommits, ApproveCommits, RepayCommits, TypeOK, capitalVars
<1> QED
  BY <1>1, <1>2, <1>3 DEF TypeOK

LEMMA SetsTyped ==
    ASSUME TypeOK, HandlerInv, NEW t \in tasks, NEW s \in Statuses, Sets(t, s), UNCHANGED left
    PROVE  Typed
<1>1. tasks' \subseteq Task /\ tasks' = tasks \ {t} /\ disturbed' = disturbed
  BY PoolEnds, SetsAre
<1>2. /\ LoanOf(t) \in t.loan /\ s \in Statuses \ {"none"}
      /\ status' = [status EXCEPT ![LoanOf(t)] = s]
  BY SetsAre
<1>3. \E l \in t.loan, q \in Statuses \ {"none"} : status' = [status EXCEPT ![l] = q]
  BY <1>2
<1>4. HandlerInv'
  BY <1>1, <1>3, EndHandlers
<1>5. /\ UNCHANGED <<walletVars, advanced, disbursed, collected, drawn, payoutVars, invested,
                     stripped>>
      /\ moved' \in [Loans -> Nat]
  BY SetsAre
<1>6. TypeOK'
  BY <1>1, <1>2, <1>5 DEF TypeOK, WalletTypeOK, walletVars, payoutVars
<1> QED
  BY <1>4, <1>6 DEF Typed

\* A transaction leaves a wallet well-typed if what it assigns is not negative.
LEMMA PostTyped ==
    ASSUME WalletTypeOK, NEW u \in Users, NEW seen \in Nat, NEW amount \in Int,
           seen + amount \in Nat, NEW intact, AssignAndPost(u, seen, amount, intact)
    PROVE  WalletTypeOK'
<1>1. available' \in [Users -> Nat] /\ balanceAfter' \in [Users -> Int]
  BY DEF AssignAndPost, WalletTypeOK
<1>2. rowSum' \in [Users -> Int]
  <2>1. rowSum[u] + amount \in Int
    BY DEF WalletTypeOK
  <2> QED
    BY <2>1 DEF AssignAndPost, WalletTypeOK
<1>3. stale' \in [Users -> BOOLEAN]
  BY DEF AssignAndPost, WalletTypeOK
<1> QED
  BY <1>1, <1>2, <1>3 DEF WalletTypeOK

\* The steps that move money, and the steps they lead to.
Pays(t) ==
    \/ Disburse(t) \/ Collect(t) \/ WithdrawCommits(t) \/ RefundCredits(t)
    \/ AllocateCommits(t) \/ ClawbackCommits(t)

\* Disburse and Collect: the loan's own row, and the wallet.
LEMMA DisburseIs ==
    ASSUME TypeOK, HandlerInv, NEW t \in tasks, Disburse(t)
    PROVE  /\ t.at = "disburse" /\ t.p \in Loans
           /\ t.p \in LoansOf(UserOf(t)) /\ UserOf(t) \in Users
           /\ AssignAndPost(UserOf(t), t.seen, Principal[t.p], t.seen = available[UserOf(t)])
           /\ Move(t, "open") /\ t.seen \in Nat
           /\ disbursed' \in [Loans -> Nat] /\ disbursed'[t.p] = disbursed[t.p] + 1
           /\ \A l \in Loans \ {t.p} : disbursed'[l] = disbursed[l]
           /\ UNCHANGED <<status, advanced, collected, drawn, payoutVars, capitalVars>>
<1>1. /\ t.at = "disburse" /\ Post(t, Principal[LoanOf(t)]) /\ Move(t, "open")
      /\ disbursed' = [disbursed EXCEPT ![LoanOf(t)] = @ + 1]
      /\ UNCHANGED <<status, advanced, collected, drawn, payoutVars, capitalVars>>
  BY DEF Disburse, At
<1>2. /\ t \in Task /\ t.p \in Loans /\ LoanOf(t) = t.p /\ UserOf(t) \in Users
      /\ t.p \in LoansOf(UserOf(t))
  BY <1>1, OfLoan DEF LoanSteps
<1>3. disbursed \in [Loans -> Nat] /\ t.seen \in Nat
  BY <1>2 DEF TypeOK, Task
<1> QED
  BY <1>1, <1>2, <1>3 DEF Post

LEMMA CollectIs ==
    ASSUME TypeOK, HandlerInv, NEW t \in tasks, Collect(t)
    PROVE  /\ t.at = "collect" /\ t.p \in Loans /\ t.p \in LoansOf(UserOf(t)) /\ UserOf(t) \in Users
           /\ AssignAndPost(UserOf(t), t.seen, 0 - TotalDue(t.p), t.seen = available[UserOf(t)])
           /\ Move(t, "close") /\ t.seen \in Nat /\ t.seen >= TotalDue(t.p)
           /\ collected' \in [Loans -> Nat] /\ collected'[t.p] = collected[t.p] + 1
           /\ \A l \in Loans \ {t.p} : collected'[l] = collected[l]
           /\ UNCHANGED <<status, advanced, disbursed, drawn, payoutVars, capitalVars>>
<1>1. /\ t.at = "collect" /\ Post(t, -TotalDue(LoanOf(t))) /\ Move(t, "close")
      /\ collected' = [collected EXCEPT ![LoanOf(t)] = @ + 1]
      /\ UNCHANGED <<status, advanced, disbursed, drawn, payoutVars, capitalVars>>
  BY DEF Collect, At
<1>2. /\ t \in Task /\ t.p \in Loans /\ LoanOf(t) = t.p /\ UserOf(t) \in Users
      /\ t.p \in LoansOf(UserOf(t))
  BY <1>1, OfLoan DEF LoanSteps
<1>3. collected \in [Loans -> Nat] /\ t.seen \in Nat /\ t.seen >= TotalDue(t.p)
  BY <1>1, <1>2 DEF TypeOK, Task, HandlerInv, Formed
<1>4. -TotalDue(t.p) = 0 - TotalDue(t.p)
  BY <1>2, DueNat
<1>5. AssignAndPost(UserOf(t), t.seen, 0 - TotalDue(t.p), t.seen = available[UserOf(t)])
  BY <1>1, <1>2, <1>4 DEF Post
<1> QED
  BY <1>1, <1>2, <1>3, <1>5

\* A withdrawal, which is drawn against the loan its gate found open, if any.
LEMMA WithdrawIs ==
    ASSUME TypeOK, HandlerInv, NEW t \in tasks, WithdrawCommits(t)
    PROVE  /\ t.at = "debit" /\ t.p \in Users /\ t.amount \in Amounts /\ t.amount \in Nat
           /\ AssignAndPost(t.p, t.seen, 0 - t.amount, t.seen = available[t.p])
           /\ Move(t, "record") /\ t.seen \in Nat /\ t.seen >= t.amount
           /\ t.loan \subseteq LoansOf(t.p)
           /\ pending' \in [Users -> SUBSET Amounts]
           /\ paidOut' \in [Users -> Int] /\ paidOut'[t.p] = paidOut[t.p] + t.amount
           /\ \A v \in Users \ {t.p} : paidOut'[v] = paidOut[v]
           /\ drawn' \in [Loans -> Nat]
           /\ \A l \in Loans : drawn'[l] = IF l \in t.loan THEN drawn[l] + t.amount ELSE drawn[l]
           /\ UNCHANGED <<status, advanced, disbursed, collected, capitalVars>>
<1>1. /\ t.at = "debit" /\ Post(t, -t.amount) /\ Move(t, "record")
      /\ pending' = [pending EXCEPT ![t.p] = @ \cup {t.amount}]
      /\ paidOut' = [paidOut EXCEPT ![t.p] = @ + t.amount]
      /\ drawn' = [l \in Loans |-> drawn[l] + IF l \in t.loan THEN t.amount ELSE 0]
      /\ UNCHANGED <<status, advanced, disbursed, collected, capitalVars>>
  BY DEF WithdrawCommits, At
<1>2. /\ t \in Task /\ t.p \in Users /\ UserOf(t) = t.p /\ t.loan \subseteq LoansOf(t.p)
      /\ t.amount \in Amounts /\ t.amount \in Nat
  BY <1>1, OfUser DEF LoanSteps, Closing
<1>3. t.seen \in Nat /\ t.seen >= t.amount
  BY <1>1, <1>2 DEF Task, HandlerInv, Formed
<1>4. -t.amount = 0 - t.amount
  BY <1>2
<1>5. AssignAndPost(t.p, t.seen, 0 - t.amount, t.seen = available[t.p])
  BY <1>1, <1>2, <1>4 DEF Post
<1>6. pending' \in [Users -> SUBSET Amounts]
  BY <1>1, <1>2 DEF TypeOK
<1>7. /\ paidOut' \in [Users -> Int] /\ paidOut'[t.p] = paidOut[t.p] + t.amount
      /\ \A v \in Users \ {t.p} : paidOut'[v] = paidOut[v]
  BY <1>1, <1>2 DEF TypeOK
<1>8. \A l \in Loans : drawn'[l] = IF l \in t.loan THEN drawn[l] + t.amount ELSE drawn[l]
  BY <1>1, <1>2 DEF TypeOK
<1>9. drawn' \in [Loans -> Nat]
  BY <1>1, <1>2 DEF TypeOK
<1> QED
  BY <1>1, <1>2, <1>3, <1>5, <1>6, <1>7, <1>8, <1>9

\* A refund.
LEMMA RefundIs ==
    ASSUME TypeOK, HandlerInv, NEW t \in tasks, RefundCredits(t)
    PROVE  /\ t.at = "refund" /\ t.p \in Users /\ t.amount \in Nat
           /\ AssignAndPost(t.p, t.seen, t.amount, t.seen = available[t.p])
           /\ Return(t) /\ t.seen \in Nat
           /\ pending' \in [Users -> SUBSET Amounts]
           /\ paidOut' \in [Users -> Int] /\ paidOut'[t.p] = paidOut[t.p] - t.amount
           /\ \A v \in Users \ {t.p} : paidOut'[v] = paidOut[v]
           /\ UNCHANGED <<loanVars, capitalVars>>
<1>1. /\ t.at = "refund" /\ Post(t, t.amount) /\ Return(t)
      /\ pending' = [pending EXCEPT ![t.p] = @ \ {t.amount}]
      /\ paidOut' = [paidOut EXCEPT ![t.p] = @ - t.amount]
      /\ UNCHANGED <<loanVars, capitalVars>>
  BY DEF RefundCredits, RefundRow, At
<1>2. t \in Task /\ t.p \in Users /\ UserOf(t) = t.p /\ t.amount \in Nat
  BY <1>1, OfUser DEF LoanSteps, Closing
<1>3. t.seen \in Nat
  BY <1>2 DEF Task
<1>4. pending' \in [Users -> SUBSET Amounts]
  BY <1>1, <1>2 DEF TypeOK
<1>5. /\ paidOut' \in [Users -> Int] /\ paidOut'[t.p] = paidOut[t.p] - t.amount
      /\ \A v \in Users \ {t.p} : paidOut'[v] = paidOut[v]
  BY <1>1, <1>2 DEF TypeOK
<1> QED
  BY <1>1, <1>2, <1>3, <1>4, <1>5 DEF Post

\* Capital moved from the wallet to the investment ...
LEMMA AllocateIs ==
    ASSUME TypeOK, HandlerInv, NEW t \in tasks, AllocateCommits(t)
    PROVE  /\ t.at = "allocate" /\ t.p \in Users /\ t.amount \in Nat
           /\ AssignAndPost(t.p, t.seen, 0 - t.amount,
                            t.seen = available[t.p] /\ t.seenInvested = invested[t.p])
           /\ Return(t) /\ t.seen \in Nat /\ t.seen >= t.amount /\ t.seenInvested \in Nat
           /\ invested' \in [Users -> Nat] /\ invested'[t.p] = t.seenInvested + t.amount
           /\ \A v \in Users \ {t.p} : invested'[v] = invested[v]
           /\ moved' \in [Loans -> Nat]
           /\ UNCHANGED <<loanVars, payoutVars, stripped>>
<1>1. /\ t.at = "allocate" /\ Return(t)
      /\ AssignAndPost(UserOf(t), t.seen, -t.amount,
                       t.seen = available[UserOf(t)] /\ t.seenInvested = invested[UserOf(t)])
      /\ invested' = [invested EXCEPT ![UserOf(t)] = t.seenInvested + t.amount]
      /\ moved' = [l \in Loans |-> moved[l] + IF l \in OpenedOf(UserOf(t)) THEN t.amount ELSE 0]
      /\ UNCHANGED <<loanVars, payoutVars, stripped>>
  BY DEF AllocateCommits, AssignCapital, At
<1>2. t \in Task /\ t.p \in Users /\ UserOf(t) = t.p /\ t.amount \in Nat
  BY <1>1, OfUser DEF LoanSteps, Closing
<1>3. t.seen \in Nat /\ t.seenInvested \in Nat /\ t.seen >= t.amount
  BY <1>1, <1>2 DEF Task, HandlerInv, Formed
<1>4. -t.amount = 0 - t.amount
  BY <1>2
<1>5. AssignAndPost(t.p, t.seen, 0 - t.amount,
                    t.seen = available[t.p] /\ t.seenInvested = invested[t.p])
  BY <1>1, <1>2, <1>4
<1>6. /\ invested' \in [Users -> Nat] /\ invested'[t.p] = t.seenInvested + t.amount
      /\ \A v \in Users \ {t.p} : invested'[v] = invested[v]
  BY <1>1, <1>2, <1>3 DEF TypeOK
<1>7. moved' \in [Loans -> Nat]
  BY <1>1, <1>2 DEF TypeOK
<1> QED
  BY <1>1, <1>2, <1>3, <1>5, <1>6, <1>7

\* ... and taken back from it.
LEMMA ClawbackIs ==
    ASSUME TypeOK, HandlerInv, NEW t \in tasks, ClawbackCommits(t)
    PROVE  /\ t.at = "claw" /\ t.p \in Loans /\ t.p \in LoansOf(UserOf(t)) /\ UserOf(t) \in Users
           /\ t.amount \in Nat /\ t.amount <= t.seenInvested
           /\ t.seen \in Nat /\ t.seenInvested \in Nat /\ Return(t)
           /\ WalletTypeOK' /\ available'[UserOf(t)] = t.seen
           /\ stale'[UserOf(t)] = (\/ stale[UserOf(t)] \/ t.seen # available[UserOf(t)]
                                   \/ t.seenInvested # invested[UserOf(t)])
           /\ \A v \in Users \ {UserOf(t)} :
                available'[v] = available[v] /\ stale'[v] = stale[v] /\ invested'[v] = invested[v]
           /\ invested' \in [Users -> Nat] /\ invested'[UserOf(t)] = t.seenInvested - t.amount
           /\ stripped' \in [Loans -> Nat] /\ stripped'[t.p] = stripped[t.p] + t.amount
           /\ \A l \in Loans \ {t.p} : stripped'[l] = stripped[l]
           /\ UNCHANGED <<rowSum, loanVars, payoutVars, moved>>
<1> DEFINE o == UserOf(t)
<1>1. /\ t.at = "claw" /\ Return(t)
      /\ available' = [available EXCEPT ![o] = t.seen]
      /\ balanceAfter' = [balanceAfter EXCEPT ![o] = IF t.amount > 0 THEN t.seen
                                                                   ELSE balanceAfter[o]]
      /\ stale' = [stale EXCEPT ![o] = @ \/ t.seen # available[o] \/ t.seenInvested # invested[o]]
      /\ invested' = [invested EXCEPT ![o] = t.seenInvested + (-t.amount)]
      /\ stripped' = [stripped EXCEPT ![t.p] = @ + t.amount]
      /\ UNCHANGED <<rowSum, loanVars, payoutVars, moved>>
  BY DEF ClawbackCommits, AssignCapital, At
<1>2. t \in Task /\ t.p \in Loans /\ t.p \in LoansOf(o) /\ o \in Users
  BY <1>1, OfLoan DEF LoanSteps
<1>3. t.seen \in Nat /\ t.seenInvested \in Nat /\ t.amount \in Nat /\ t.amount <= t.seenInvested
  BY <1>1, <1>2 DEF Task, HandlerInv, Formed
<1> HIDE DEF o
<1>4. WalletTypeOK' /\ available'[o] = t.seen
  BY <1>1, <1>2, <1>3 DEF TypeOK, WalletTypeOK
<1>5. /\ stale'[o] = (stale[o] \/ t.seen # available[o] \/ t.seenInvested # invested[o])
      /\ \A v \in Users \ {o} :
           available'[v] = available[v] /\ stale'[v] = stale[v] /\ invested'[v] = invested[v]
  BY <1>1, <1>2 DEF TypeOK, WalletTypeOK
<1>6. t.seenInvested + (-t.amount) = t.seenInvested - t.amount /\ t.seenInvested - t.amount \in Nat
  BY <1>3
<1>7. invested' \in [Users -> Nat] /\ invested'[o] = t.seenInvested - t.amount
  BY <1>1, <1>2, <1>6 DEF TypeOK
<1>8. /\ stripped' \in [Loans -> Nat] /\ stripped'[t.p] = stripped[t.p] + t.amount
      /\ \A l \in Loans \ {t.p} : stripped'[l] = stripped[l]
  BY <1>1, <1>2, <1>3 DEF TypeOK
<1> QED
  BY <1>1, <1>2, <1>3, <1>4, <1>5, <1>7, <1>8 DEF o

\* A handler that moves to another step without touching a loan's status.
LEMMA MovesTyped ==
    ASSUME TypeOK, HandlerInv, NEW t \in tasks, NEW s \in {"open", "close", "record"},
           Move(t, s), UNCHANGED status,
           s = "record" <=> t.at = "debit", t.at \in {"disburse", "collect", "debit"}
    PROVE  /\ HandlerInv' /\ tasks' \subseteq Task /\ disturbed' = disturbed
           /\ \E u \in Task : /\ u.p = t.p /\ u.loan = t.loan /\ u.at = s /\ u.amount = t.amount
                              /\ Handling(t.p)' = (Handling(t.p) \ {t}) \cup {u}
           /\ \A r \in Rows \ {t.p} : Handling(r)' = Handling(r)
<1> DEFINE u == [t EXCEPT !.at = s]
<1>1. t \in Task /\ s \in Steps /\ Formed(t) /\ Known(t)
  BY DEF TypeOK, Steps, HandlerInv
<1>2. /\ u \in Task /\ u.at = s /\ u.p = t.p /\ u.loan = t.loan /\ u.amount = t.amount
      /\ u.seen = t.seen /\ u.seenInvested = t.seenInvested
  BY <1>1, AtStep
<1>3. Continue(t, u)
  BY DEF Move
<1> HIDE DEF u
<1>4. Formed(u)
  BY <1>1, <1>2 DEF Formed, LoanSteps, Closing
<1>5. \A l \in u.loan : status[l] # "none"
  BY <1>1, <1>2 DEF Known
<1>6. HandlerInv'
  BY <1>2, <1>3, <1>4, <1>5, MoveHandlers
<1>7. /\ tasks' \subseteq Task /\ disturbed' = disturbed
      /\ Handling(t.p)' = (Handling(t.p) \ {t}) \cup {u}
      /\ \A r \in Rows \ {t.p} : Handling(r)' = Handling(r)
  BY <1>2, <1>3, PoolMoves
<1> QED
  BY <1>2, <1>6, <1>7

\* A handler that returns without touching a loan's status.
LEMMA ReturnsTyped ==
    ASSUME TypeOK, HandlerInv, NEW t \in tasks, Return(t), UNCHANGED status
    PROVE  /\ HandlerInv' /\ tasks' \subseteq Task /\ disturbed' = disturbed
           /\ Handling(t.p)' = Handling(t.p) \ {t}
           /\ \A r \in Rows \ {t.p} : Handling(r)' = Handling(r)
<1>1. /\ tasks' \subseteq Task /\ tasks' = tasks \ {t} /\ disturbed' = disturbed
      /\ Handling(t.p)' = Handling(t.p) \ {t}
      /\ \A r \in Rows \ {t.p} : Handling(r)' = Handling(r)
  BY PoolEnds
<1> QED
  BY <1>1, EndHandlers

LEMMA PaysTyped ==
    ASSUME TypeOK, HandlerInv, NEW t \in tasks, Pays(t), UNCHANGED left
    PROVE  Typed
<1>0. WalletTypeOK
  BY DEF TypeOK
<1>1. CASE Disburse(t)
  <2>1. Principal[t.p] \in Nat /\ t.seen + Principal[t.p] \in Nat
    BY <1>1, DisburseIs, DueNat
  <2>2. WalletTypeOK'
    BY <1>0, <1>1, <2>1, DisburseIs, PostTyped
  <2>3. HandlerInv' /\ tasks' \subseteq Task /\ disturbed' = disturbed
    BY <1>1, DisburseIs, MovesTyped
  <2> QED
    BY <1>1, <2>2, <2>3, DisburseIs DEF Typed, TypeOK, payoutVars, capitalVars
<1>2. CASE Collect(t)
  <2>1. TotalDue(t.p) \in Nat /\ 0 - TotalDue(t.p) \in Int /\ t.seen + (0 - TotalDue(t.p)) \in Nat
    BY <1>2, CollectIs, DueNat
  <2>2. WalletTypeOK'
    BY <1>0, <1>2, <2>1, CollectIs, PostTyped
  <2>3. HandlerInv' /\ tasks' \subseteq Task /\ disturbed' = disturbed
    BY <1>2, CollectIs, MovesTyped
  <2> QED
    BY <1>2, <2>2, <2>3, CollectIs DEF Typed, TypeOK, payoutVars, capitalVars
<1>3. CASE WithdrawCommits(t)
  <2>1. 0 - t.amount \in Int /\ t.seen + (0 - t.amount) \in Nat
    BY <1>3, WithdrawIs
  <2>2. WalletTypeOK'
    BY <1>0, <1>3, <2>1, WithdrawIs, PostTyped
  <2>3. HandlerInv' /\ tasks' \subseteq Task /\ disturbed' = disturbed
    BY <1>3, WithdrawIs, MovesTyped
  <2> QED
    BY <1>3, <2>2, <2>3, WithdrawIs DEF Typed, TypeOK, capitalVars
<1>4. CASE RefundCredits(t)
  <2>1. t.seen + t.amount \in Nat
    BY <1>4, RefundIs
  <2>2. WalletTypeOK'
    BY <1>0, <1>4, <2>1, RefundIs, PostTyped
  <2>3. UNCHANGED status
    BY <1>4, RefundIs DEF loanVars
  <2>4. HandlerInv' /\ tasks' \subseteq Task /\ disturbed' = disturbed
    BY <1>4, <2>3, RefundIs, ReturnsTyped
  <2> QED
    BY <1>4, <2>2, <2>4, RefundIs DEF Typed, TypeOK, loanVars, capitalVars
<1>5. CASE AllocateCommits(t)
  <2>1. 0 - t.amount \in Int /\ t.seen + (0 - t.amount) \in Nat
    BY <1>5, AllocateIs
  <2>2. WalletTypeOK'
    BY <1>0, <1>5, <2>1, AllocateIs, PostTyped
  <2>3. UNCHANGED status
    BY <1>5, AllocateIs DEF loanVars
  <2>4. HandlerInv' /\ tasks' \subseteq Task /\ disturbed' = disturbed
    BY <1>5, <2>3, AllocateIs, ReturnsTyped
  <2> QED
    BY <1>5, <2>2, <2>4, AllocateIs DEF Typed, TypeOK, loanVars, payoutVars
<1>6. CASE ClawbackCommits(t)
  <2>1. UNCHANGED status
    BY <1>6, ClawbackIs DEF loanVars
  <2>2. HandlerInv' /\ tasks' \subseteq Task /\ disturbed' = disturbed
    BY <1>6, <2>1, ClawbackIs, ReturnsTyped
  <2> QED
    BY <1>6, <2>2, ClawbackIs DEF Typed, TypeOK, loanVars, payoutVars
<1> QED
  BY <1>1, <1>2, <1>3, <1>4, <1>5, <1>6 DEF Pays

\* What is recorded against the loan is the sum, up to the principal.
LEMMA RecordIs ==
    ASSUME TypeOK, HandlerInv, NEW t \in tasks, RecordCommits(t)
    PROVE  /\ t.at = "count" /\ t.p \in Users /\ t.seen \in Nat /\ t.amount \in Nat
           /\ LoanOf(t) \in LoansOf(t.p) /\ t.loan = {LoanOf(t)}
           /\ advanced' \in [Loans -> Nat]
           /\ advanced'[LoanOf(t)] = IF t.seen + t.amount < Principal[LoanOf(t)]
                                     THEN t.seen + t.amount ELSE Principal[LoanOf(t)]
           /\ \A l \in Loans \ {LoanOf(t)} : advanced'[l] = advanced[l]
           /\ Return(t)
           /\ UNCHANGED <<walletVars, status, disbursed, collected, drawn, payoutVars, capitalVars>>
<1> DEFINE l == LoanOf(t)
           sum == t.seen + t.amount
<1>1. /\ t.at = "count" /\ Return(t)
      /\ advanced' = [advanced EXCEPT ![l] = IF sum < Principal[l] THEN sum ELSE Principal[l]]
      /\ UNCHANGED <<walletVars, status, disbursed, collected, drawn, payoutVars, capitalVars>>
  BY DEF RecordCommits, At
<1>2. /\ t \in Task /\ t.p \in Users /\ l \in LoansOf(t.p) /\ t.loan = {l} /\ t.amount \in Nat
  BY <1>1, OfUser DEF LoanSteps, Closing
<1>3. t.seen \in Nat /\ l \in Loans /\ Principal[l] \in Nat
  BY <1>2, DueNat DEF Task, LoansOf
<1>4. sum \in Nat
  BY <1>2, <1>3
<1> HIDE DEF l, sum
<1>5. /\ advanced' \in [Loans -> Nat]
      /\ advanced'[l] = IF sum < Principal[l] THEN sum ELSE Principal[l]
      /\ \A k \in Loans \ {l} : advanced'[k] = advanced[k]
  BY <1>1, <1>3, <1>4 DEF TypeOK
<1> QED
  BY <1>1, <1>2, <1>3, <1>5 DEF l, sum

LEMMA RecordTyped ==
    ASSUME TypeOK, HandlerInv, NEW t \in tasks, RecordCommits(t), UNCHANGED left
    PROVE  Typed
<1>1. HandlerInv' /\ tasks' \subseteq Task /\ disturbed' = disturbed
  BY RecordIs, ReturnsTyped
<1> QED
  BY <1>1, RecordIs DEF Typed, TypeOK, WalletTypeOK, walletVars, payoutVars, capitalVars

LEMMA CrashTyped ==
    ASSUME TypeOK, HandlerInv, NEW t \in tasks, Crash(t), UNCHANGED left
    PROVE  Typed
<1>1. /\ Return(t) \/ LoseTrack(t)
      /\ UNCHANGED <<walletVars, loanVars, payoutVars, capitalVars>>
  BY DEF Crash
<1>2. tasks' \subseteq Task /\ tasks' = tasks \ {t} /\ disturbed' \in [Rows -> BOOLEAN]
  BY <1>1, PoolEnds
<1>3. HandlerInv'
  BY <1>1, <1>2, EndHandlers DEF loanVars
<1> QED
  BY <1>1, <1>2, <1>3
     DEF Typed, TypeOK, WalletTypeOK, walletVars, loanVars, payoutVars, capitalVars

-----------------------------------------------------------------------------
\* A step of the system: a handler starts, or takes one of its steps.
LEMMA NextIs ==
    ASSUME TypeOK, [Next]_vars
    PROVE  \/ UNCHANGED vars
           \/ \E t \in Task : Begins(t) /\ UserOf(t) \in Users
           \/ \E t \in tasks :
                /\ UNCHANGED left
                /\ \/ Reads(t) \/ Pays(t) \/ RecordCommits(t) \/ Crash(t)
                   \/ \E s \in Statuses : Sets(t, s)
<1>1. ASSUME NEW w \in Workers, NEW l \in Loans, StartsOnLoan(w, l)
      PROVE  \E t \in Task : Begins(t) /\ UserOf(t) \in Users
  <2>1. Owner[l] \in Users
    BY LoanAssumption
  <2> QED
    BY <1>1, <2>1, LoanBegins
<1>2. ASSUME NEW w \in Workers, NEW u \in Users, StartsOnWallet(w, u)
      PROVE  \E t \in Task : Begins(t) /\ UserOf(t) \in Users
  BY <1>2, WalletBegins
<1>3. ASSUME NEW t \in tasks, Continues(t)
      PROVE  \/ Reads(t) \/ Pays(t) \/ RecordCommits(t)
             \/ \E s \in Statuses : Sets(t, s)
  <2>1. CASE RequestCreates(t) \/ ReviewCommits(t) \/ ApproveCommits(t) \/ RepayCommits(t)
    <3>1. {"PENDING", "APPROVED", "REPAID"} \cup Closing \subseteq Statuses
      BY DEF Statuses, Closing
    <3>2. ReviewCommits(t) => t.at \in Closing
      BY DEF ReviewCommits
    <3> QED
      BY <2>1, <3>1, <3>2 DEF Sets
  <2> QED
    BY <1>3, <2>1 DEF Continues, Reads, Pays
<1> QED
  BY <1>1, <1>2, <1>3 DEF Next

\* The columns and the handlers stay well-formed at every step.
LEMMA StepTyped == TypeOK /\ HandlerInv /\ [Next]_vars => TypeOK' /\ HandlerInv'
<1> SUFFICES ASSUME TypeOK, HandlerInv, [Next]_vars PROVE TypeOK' /\ HandlerInv'
  OBVIOUS
<1>1. CASE UNCHANGED vars
  <2>1. TypeOK'
    BY <1>1 DEF vars, walletVars, taskVars, loanVars, payoutVars, capitalVars, TypeOK, WalletTypeOK
  <2>2. HandlerInv'
    BY <1>1 DEF vars, taskVars, loanVars, HandlerInv, Formed, Known, TotalDue
  <2> QED
    BY <2>1, <2>2
<1> QED
  BY <1>1, NextIs, StartHandlers, ReadsTyped, PaysTyped, RecordTyped, CrashTyped, SetsTyped
     DEF Typed

-----------------------------------------------------------------------------
\* Row r has the same handlers; loan l the same columns.
Quiet(r) == Handling(r)' = Handling(r) /\ disturbed'[r] = disturbed[r]

Columns(l) ==
    /\ status'[l] = status[l] /\ advanced'[l] = advanced[l] /\ disbursed'[l] = disbursed[l]
    /\ collected'[l] = collected[l] /\ drawn'[l] = drawn[l]

\* What is not touched stays as it was.
LEMMA LoanQuiet ==
    ASSUME NEW l \in Loans, Quiet(l), LoanFits(l),
           status'[l] = status[l], disbursed'[l] = disbursed[l], collected'[l] = collected[l]
    PROVE  LoanFits(l)'
BY DEF Quiet, LoanFits

\* The rows of a user and of the user's loans.
LEMMA RowsOf ==
    \A u \in Users : u \in Rows /\ \A l \in LoansOf(u) : l \in Loans /\ l \in Rows /\ Owner[l] = u
BY LoanAssumption DEF LoansOf

LEMMA UserQuiet ==
    ASSUME NEW u \in Users, Quiet(u), UserFits(u), Orderly(u)' => Orderly(u),
           \A l \in LoansOf(u) : Columns(l)
    PROVE  UserFits(u)'
<1> SUFFICES ASSUME Orderly(u)'
             PROVE  /\ \A t \in Handling(u)' : Handling(u)' = {t}
                    /\ OneLoan(u)'
                    /\ \A l \in LoansOf(u) : Drawn(u, l)'
  BY DEF UserFits, LoansOf
<1>1. /\ \A t \in Handling(u) : Handling(u) = {t}
      /\ OneLoan(u) /\ \A l \in LoansOf(u) : Drawn(u, l)
  BY DEF UserFits
<1>2. Handling(u)' = Handling(u) /\ LoansOf(u)' = LoansOf(u)
  BY DEF Quiet, LoansOf
<1>3. \A l \in LoansOf(u) : l \in Blocking(u)' <=> l \in Blocking(u)
  BY DEF Columns, Blocking, LoansOf
<1>4. OneLoan(u)'
  BY <1>1, <1>2, <1>3 DEF OneLoan
<1>5. ASSUME NEW l \in LoansOf(u) PROVE Drawn(u, l)'
  <2>1. Drawn(u, l) /\ Columns(l)
    BY <1>1
  <2> QED
    BY <1>2, <2>1 DEF Drawn, Columns
<1> QED
  BY <1>1, <1>2, <1>4, <1>5

\* A step of one handler touches one row, and the loans of one user.
LEMMA Elsewhere ==
    ASSUME FitsInv, NEW o \in Users, NEW p \in LoansOf(o) \cup {o},
           \A r \in Rows \ {p} : Quiet(r), \A l \in Loans \ LoansOf(o) : Columns(l), Fits(o)'
    PROVE  FitsInv'
<1>1. ASSUME NEW v \in Users \ {o} PROVE Fits(v)'
  <2>1. \A r \in LoansOf(v) \cup {v} : r \in Rows \ {p}
    BY RowsOf, LoanAssumption DEF LoansOf
  <2>2. \A l \in LoansOf(v) : l \in Loans /\ Columns(l) /\ LoanFits(l)
    BY DEF LoansOf, FitsInv, Fits
  <2>3. \A l \in LoansOf(v) : LoanFits(l)'
    BY <2>1, <2>2, LoanQuiet DEF Columns
  <2>4. Orderly(v)' => Orderly(v)
    BY <2>1 DEF Orderly, Quiet, LoansOf
  <2>5. UserFits(v)'
    BY <2>1, <2>2, <2>4, UserQuiet DEF FitsInv, Fits
  <2> QED
    BY <2>3, <2>5 DEF Fits, LoansOf
<1> QED
  BY <1>1 DEF FitsInv

\* A step of a handler of loan l that leaves the columns the user's invariant is
\* about: only the loan's own invariant is at stake.
LEMMA OnLoan ==
    ASSUME FitsInv, NEW o \in Users, NEW l \in LoansOf(o), \A r \in Rows \ {l} : Quiet(r),
           ~disturbed'[l] => ~disturbed[l], LoanFits(l)',
           UNCHANGED <<status, advanced, drawn>>,
           \A k \in Loans \ {l} : disbursed'[k] = disbursed[k] /\ collected'[k] = collected[k]
    PROVE  FitsInv'
<1>1. /\ o \in Rows \ {l} /\ \A k \in LoansOf(o) \ {l} : k \in Rows \ {l} /\ k \in Loans
      /\ l \in Loans /\ \A k \in LoansOf(o) : LoanFits(k)
  BY RowsOf, LoanAssumption DEF LoansOf, FitsInv, Fits
<1>2. \A k \in LoansOf(o) : LoanFits(k)'
  BY <1>1, LoanQuiet
<1>3. UserFits(o)'
  <2>1. UserFits(o) /\ Quiet(o) /\ Handling(o)' = Handling(o) /\ LoansOf(o)' = LoansOf(o)
    BY <1>1 DEF FitsInv, Fits, Quiet, LoansOf
  <2>2. Orderly(o)' => Orderly(o)
    BY <1>1, <2>1 DEF Orderly, Quiet
  <2>3. Blocking(o)' = Blocking(o)
    BY DEF Blocking
  <2> QED
    BY <2>1, <2>2, <2>3 DEF UserFits, OneLoan, Drawn
<1>4. Fits(o)'
  BY <1>2, <1>3 DEF Fits, LoansOf
<1>5. \A k \in Loans \ LoansOf(o) : Columns(k)
  BY DEF Columns
<1> QED
  BY <1>4, <1>5, Elsewhere

\* A step of a handler of user u: the user's own invariant is at stake, and the
\* loans whose status changes.
LEMMA OnUser ==
    ASSUME FitsInv, NEW u \in Users, \A r \in Rows \ {u} : Quiet(r), UserFits(u)',
           \A l \in Loans \ LoansOf(u) : Columns(l),
           \A l \in LoansOf(u) : /\ disbursed'[l] = disbursed[l] /\ collected'[l] = collected[l]
                                 /\ status'[l] = status[l] \/ LoanFits(l)'
    PROVE  FitsInv'
<1>1. \A l \in LoansOf(u) : l \in Loans /\ l \in Rows \ {u} /\ LoanFits(l)
  BY RowsOf, LoanAssumption DEF LoansOf, FitsInv, Fits
<1>2. \A l \in LoansOf(u) : LoanFits(l)'
  BY <1>1, LoanQuiet
<1>3. Fits(u)'
  BY <1>2 DEF Fits, LoansOf
<1> QED
  BY <1>3, Elsewhere

\* An orderly user's loans and user row were undisturbed before a step that only
\* touches the row of the user.
LEMMA OrderlyBefore ==
    ASSUME NEW u \in Users, \A r \in Rows \ {u} : Quiet(r), ~disturbed'[u] => ~disturbed[u],
           Orderly(u)'
    PROVE  /\ Orderly(u) /\ ~disturbed'[u]
           /\ \A l \in LoansOf(u) : ~disturbed[l] /\ ~disturbed'[l]
BY RowsOf, LoanAssumption DEF Orderly, Quiet, LoansOf

-----------------------------------------------------------------------------
\* A handler starts.
LEMMA BeginsFits ==
    ASSUME TypeOK, HandlerInv, FitsInv, NEW t \in Task, Begins(t), UserOf(t) \in Users
    PROVE  FitsInv'
<1>1. /\ Handling(t.p)' = Handling(t.p) \cup {t}
      /\ ~disturbed'[t.p] => ~disturbed[t.p] /\ Handling(t.p) = {}
      /\ \A r \in Rows \ {t.p} : Quiet(r)
  BY PoolStarts DEF Begins, Quiet
<1>2. UNCHANGED <<status, advanced, disbursed, collected, drawn>> /\ Ready(t) /\ Formed(t)
  BY DEF Begins, loanVars
<1>3. CASE t.at \in LoanSteps
  <2>1. t.p \in Loans /\ t.p \in LoansOf(UserOf(t))
    <3>1. t.p \in Loans
      BY <1>2, <1>3 DEF Formed
    <3> QED
      BY <3>1, LoanAssumption DEF UserOf, LoansOf
  <2>2. LoanFits(t.p)
    BY <2>1 DEF FitsInv, Fits
  <2>3. LoanFits(t.p)'
    BY <1>1, <1>2, <1>3, <2>2 DEF LoanFits, Ready, Entries, LoanSteps, Closing
  <2> QED
    BY <1>1, <1>2, <2>1, <2>3, OnLoan
<1>4. CASE t.at \notin LoanSteps
  <2>1. t.p \in Users /\ \A l \in t.loan : Owner[l] = t.p /\ l \in LoansOf(t.p)
    BY <1>2, <1>4 DEF Formed, Task, LoansOf
  <2> DEFINE u == t.p
  <2>2. UserFits(u)
    BY <2>1 DEF FitsInv, Fits
  <2>3. UserFits(u)'
    <3> SUFFICES ASSUME Orderly(u)'
                 PROVE  /\ \A s \in Handling(u)' : Handling(u)' = {s}
                        /\ OneLoan(u)'
                        /\ \A l \in LoansOf(u) : Drawn(u, l)'
      BY DEF UserFits, LoansOf
    <3>1. Orderly(u) /\ ~disturbed'[u]
      BY <1>1, <2>1, OrderlyBefore
    <3>2. Handling(u) = {} /\ Handling(u)' = {t}
      BY <1>1, <3>1
    <3>3. OneLoan(u) /\ \A l \in LoansOf(u) : Drawn(u, l)
      BY <2>2, <3>1 DEF UserFits
    <3>4. Blocking(u)' = Blocking(u) /\ LoansOf(u)' = LoansOf(u)
      BY <1>2 DEF Blocking, LoansOf
    <3>5. t.at = "create" => Blocking(u) = {}
      BY <1>2, <2>1 DEF Ready, Formed
    <3>6. OneLoan(u)'
      BY <3>2, <3>3, <3>4, <3>5 DEF OneLoan
    <3>7. ASSUME NEW l \in LoansOf(u) PROVE Drawn(u, l)'
      <4>1. Drawn(u, l) /\ l \in Loans
        BY <3>3 DEF LoansOf
      <4>2. drawn[l] \in Nat /\ advanced[l] \in Nat /\ Principal[l] \in Nat /\ t.amount \in Nat
        BY <4>1, DueNat DEF TypeOK, Task
      <4>3. status[l] = "APPROVED" => drawn[l] <= advanced[l]
        BY <3>2, <4>1 DEF Drawn
      <4>4. l \in t.loan /\ t.at = "withdrawReads" => drawn[l] + t.amount <= Principal[l]
        BY <1>2, <4>2, <4>3 DEF Ready, WithinAdvance
      <4>5. /\ l \in t.loan /\ t.at # "create" => t.at = "withdrawReads" /\ status[l] = "APPROVED"
            /\ t.at \notin {"debit", "count"}
        <5>1. /\ t.at \in Entries
              /\ t.at = "withdrawReads" => \A k \in t.loan : status[k] = "APPROVED"
          BY <1>2 DEF Ready
        <5>2. t.at \in {"refundReads", "allocateReads"} => t.loan = {}
          BY <1>2 DEF Ready
        <5> QED
          BY <1>4, <5>1, <5>2 DEF Entries, LoanSteps
      <4> QED
        BY <1>2, <3>2, <4>1, <4>3, <4>4, <4>5 DEF Drawn
    <3> QED
      BY <3>2, <3>6, <3>7
  <2>4. \A l \in Loans \ LoansOf(u) : Columns(l)
    BY <1>2 DEF Columns
  <2> QED
    BY <1>1, <1>2, <2>1, <2>3, <2>4, OnUser
<1> QED
  BY <1>3, <1>4

\* A handler reads, and goes on or returns.
LEMMA ReadsFits ==
    ASSUME TypeOK, HandlerInv, FitsInv, NEW t \in tasks, Reads(t)
    PROVE  FitsInv'
<1>1. UNCHANGED <<status, advanced, disbursed, collected, drawn>>
  BY ReadsAre DEF loanVars
<1>2. t.at \in {"disburseReads", "repayReads", "withdrawReads", "record", "refundReads",
                "allocateReads", "clawReads", "clawSums"}
  BY ReadsAre
<1>3. /\ disturbed' = disturbed /\ t \in Handling(t.p)
      /\ \A r \in Rows \ {t.p} : Quiet(r)
      /\ \/ Handling(t.p)' = Handling(t.p) \ {t} /\ (t.at = "record" => Open(t.p) = {})
         \/ \E u \in Task : ReadsTo(t, u) /\ Handling(t.p)' = (Handling(t.p) \ {t}) \cup {u}
  <2>1. CASE Return(t) /\ (t.at = "record" => Open(t.p) = {})
    BY <2>1, PoolEnds DEF Quiet, Handling
  <2>2. ASSUME NEW u \in Task, ReadsTo(t, u)
        PROVE  /\ disturbed' = disturbed /\ Handling(t.p)' = (Handling(t.p) \ {t}) \cup {u}
               /\ \A r \in Rows \ {t.p} : Quiet(r)
    <3>1. Continue(t, u) /\ u.p = t.p
      BY <2>2 DEF ReadsTo
    <3> QED
      BY <3>1, PoolMoves DEF Quiet
  <2>3. t \in Handling(t.p)
    BY DEF Handling
  <2> QED
    BY <2>1, <2>2, <2>3, ReadsAre
<1>4. CASE t.at \in LoanSteps
  <2>1. t.p \in LoansOf(UserOf(t)) /\ UserOf(t) \in Users
    BY <1>4, OfLoan
  <2>2. LoanFits(t.p)
    BY <2>1 DEF FitsInv, Fits
  <2>3. t.at \in {"disburseReads", "repayReads", "clawReads", "clawSums"}
    BY <1>2, <1>4 DEF LoanSteps, Closing
  <2>4. ASSUME Handling(t.p)' = Handling(t.p) \ {t} PROVE LoanFits(t.p)'
    <3>1. ~disturbed[t.p] => Handling(t.p) = {t}
      BY <1>3, <2>2 DEF LoanFits
    <3>2. ~disturbed[t.p] => Handling(t.p)' = {}
      BY <2>4, <3>1
    <3>3. ~disturbed[t.p] => /\ disbursed[t.p] = IF status[t.p] \in Opened THEN 1 ELSE 0
                             /\ collected[t.p] = IF status[t.p] = "REPAID" THEN 1 ELSE 0
      BY <2>2, <2>3, <3>1 DEF LoanFits
    <3>4. disturbed' = disturbed
      BY <1>3
    <3> QED
      BY <1>1, <3>2, <3>3, <3>4 DEF LoanFits
  <2>5. ASSUME NEW u \in Task, ReadsTo(t, u), Handling(t.p)' = (Handling(t.p) \ {t}) \cup {u}
        PROVE  LoanFits(t.p)'
    <3>1. <<t.at, u.at>> \in {<<"disburseReads", "disburse">>, <<"repayReads", "collect">>,
                              <<"clawReads", "clawSums">>, <<"clawSums", "claw">>}
      BY <2>3, <2>5 DEF ReadsTo, Pairs
    <3>2. u.at \in {"clawSums", "claw"} \/ Found(u.at) = Found(t.at)
      BY <3>1 DEF Found
    <3>3. /\ u.at \notin {"open", "close"}
          /\ t.at \in {"clawReads", "clawSums"} => u.at \in {"clawSums", "claw"}
      BY <3>1
    <3> QED
      BY <1>1, <1>3, <2>2, <2>3, <2>5, <3>2, <3>3 DEF LoanFits
  <2> QED
    BY <1>1, <1>3, <2>1, <2>4, <2>5, OnLoan
<1>5. CASE t.at \notin LoanSteps
  <2> DEFINE u == t.p
  <2>1. u \in Users /\ t.loan \subseteq LoansOf(u)
    BY <1>5, OfUser
  <2>2. UserFits(u)
    BY <2>1 DEF FitsInv, Fits
  <2>3. t.at \in {"withdrawReads", "record", "refundReads", "allocateReads"}
    BY <1>2, <1>5 DEF LoanSteps
  <2>4. UserFits(u)'
    <3> SUFFICES ASSUME Orderly(u)'
                 PROVE  /\ \A s \in Handling(u)' : Handling(u)' = {s}
                        /\ OneLoan(u)'
                        /\ \A l \in LoansOf(u) : Drawn(u, l)'
      BY DEF UserFits, LoansOf
    <3>1. Orderly(u)
      BY <1>3, <2>1, OrderlyBefore
    <3>2. Handling(u) = {t} /\ OneLoan(u) /\ \A l \in LoansOf(u) : Drawn(u, l)
      BY <1>3, <2>2, <3>1 DEF UserFits
    <3>3. Blocking(u)' = Blocking(u) /\ LoansOf(u)' = LoansOf(u)
      BY <1>1 DEF Blocking, LoansOf
    <3>4. CASE Handling(u)' = Handling(u) \ {t} /\ (t.at = "record" => Open(u) = {})
      <4>1. Handling(u)' = {}
        BY <3>2, <3>4
      <4>2. OneLoan(u)'
        BY <3>2, <3>3, <4>1 DEF OneLoan
      <4>3. ASSUME NEW l \in LoansOf(u) PROVE Drawn(u, l)'
        <5>1. Drawn(u, l)
          BY <3>2
        <5>2. t.at = "record" => status[l] # "APPROVED"
          BY <3>4 DEF Open, LoansOf
        <5> QED
          BY <1>1, <2>3, <3>2, <4>1, <5>1, <5>2 DEF Drawn
      <4> QED
        BY <4>1, <4>2, <4>3
    <3>5. ASSUME NEW n \in Task, ReadsTo(t, n), Handling(u)' = (Handling(u) \ {t}) \cup {n}
          PROVE  /\ \A s \in Handling(u)' : Handling(u)' = {s}
                 /\ OneLoan(u)'
                 /\ \A l \in LoansOf(u) : Drawn(u, l)'
      <4>1. Handling(u)' = {n}
        BY <3>2, <3>5
      <4>2. /\ <<t.at, n.at>> \in {<<"withdrawReads", "debit">>, <<"record", "count">>,
                                   <<"refundReads", "refund">>, <<"allocateReads", "allocate">>}
            /\ n.amount = t.amount
        BY <2>3, <3>5 DEF ReadsTo, Pairs
      <4>3. OneLoan(u)'
        BY <3>2, <3>3, <4>1, <4>2 DEF OneLoan
      <4>4. ASSUME NEW l \in LoansOf(u) PROVE Drawn(u, l)'
        <5>1. Drawn(u, l) /\ l \in Loans
          BY <3>2 DEF LoansOf
        <5>2. CASE t.at # "record"
          <6>1. n.loan = t.loan
            BY <3>5, <5>2 DEF ReadsTo
          <6> QED
            BY <1>1, <2>3, <3>2, <4>1, <4>2, <5>1, <5>2, <6>1 DEF Drawn
        <5>3. CASE t.at = "record"
          <6>1. PICK k \in Open(u) : n.loan = {k} /\ n.seen = advanced[k]
            BY <3>5, <5>3 DEF ReadsTo
          <6>2. k \in LoansOf(u) /\ status[k] = "APPROVED" /\ k \in Blocking(u)
            BY <6>1 DEF Open, LoansOf, Blocking
          <6>3. status[l] = "APPROVED" => l = k
            <7>1. status[l] = "APPROVED" => l \in Blocking(u)
              BY DEF LoansOf, Blocking
            <7> QED
              BY <3>2, <6>2, <7>1 DEF OneLoan
          <6>4. l \in n.loan => l = k
            BY <6>1
          <6> QED
            BY <1>1, <3>2, <4>1, <4>2, <5>1, <5>3, <6>1, <6>2, <6>3, <6>4 DEF Drawn
        <5> QED
          BY <5>2, <5>3
      <4> QED
        BY <4>1, <4>3, <4>4
    <3> QED
      BY <1>3, <3>4, <3>5
  <2>5. \A l \in Loans \ LoansOf(u) : Columns(l)
    BY <1>1 DEF Columns
  <2> QED
    BY <1>1, <1>3, <2>1, <2>4, <2>5, OnUser
<1> QED
  BY <1>4, <1>5

\* A handler sets the status of its loan and returns.
LEMMA SetsFits ==
    ASSUME TypeOK, HandlerInv, FitsInv, NEW t \in tasks, NEW s \in Statuses, Sets(t, s)
    PROVE  FitsInv'
<1> DEFINE l == LoanOf(t)
           o == Owner[l]
<1>1. /\ <<t.at, s>> \in SetsStep /\ l \in Loans /\ t.loan = {l} /\ status'[l] = s
      /\ \A k \in Loans \ {l} : status'[k] = status[k]
      /\ UNCHANGED <<advanced, disbursed, collected, drawn>>
      /\ IF t.at = "create" THEN t.p = o /\ t.p \in Users ELSE t.p = l /\ t.at \in LoanSteps
  BY SetsAre
<1>2. /\ disturbed' = disturbed /\ t \in Handling(t.p) /\ Handling(t.p)' = Handling(t.p) \ {t}
      /\ \A r \in Rows \ {t.p} : Quiet(r)
  BY PoolEnds, SetsAre DEF Quiet, Handling
<1>3. o \in Users /\ l \in LoansOf(o) /\ l \notin Users /\ l # o
  BY <1>1, LoanAssumption DEF LoansOf
<1>4. LoanFits(l) /\ UserFits(o) /\ \A k \in LoansOf(o) : k \in Loans /\ LoanFits(k)
  BY <1>3 DEF FitsInv, Fits, LoansOf
<1> HIDE DEF l, o
<1>5. LoansOf(o)' = LoansOf(o) /\ \A k \in Loans \ LoansOf(o) : Columns(k)
  BY <1>1, <1>3 DEF LoansOf, Columns
<1>6. \A k \in LoansOf(o) \ {l} : k \in Blocking(o)' <=> k \in Blocking(o)
  BY <1>1, <1>4 DEF Blocking, LoansOf
<1>7. CASE t.at = "create"
  <2>1. t.p = o /\ s = "PENDING"
    BY <1>1, <1>7 DEF SetsStep
  <2>2. status[l] = "none"
    BY <1>1, <1>7 DEF HandlerInv, Known
  <2>3. LoanFits(l)'
    <3>1. Handling(l) = {}
      <4>1. ASSUME NEW q \in Handling(l) PROVE FALSE
        <5>1. q \in tasks /\ q.p = l /\ l \notin Users
          BY <1>3 DEF Handling
        <5>2. q.at \in LoanSteps
          BY <5>1 DEF HandlerInv, Formed
        <5> QED
          BY <2>2, <5>1, <5>2, OfLoan
      <4> QED
        BY <4>1
    <3>2. Quiet(l)
      BY <1>1, <1>2, <1>3, <2>1, LoanAssumption
    <3> QED
      BY <1>1, <1>4, <2>1, <2>2, <3>1, <3>2 DEF LoanFits, Quiet, Opened
  <2>4. UserFits(o)'
    <3> SUFFICES ASSUME Orderly(o)'
                 PROVE  /\ \A q \in Handling(o)' : Handling(o)' = {q}
                        /\ OneLoan(o)'
                        /\ \A k \in LoansOf(o) : Drawn(o, k)'
      BY DEF UserFits, LoansOf
    <3>1. Orderly(o)
      BY <1>2, <1>3, <2>1, OrderlyBefore
    <3>2. Handling(o) = {t} /\ OneLoan(o) /\ \A k \in LoansOf(o) : Drawn(o, k)
      BY <1>2, <1>4, <2>1, <3>1 DEF UserFits
    <3>3. Handling(o)' = {}
      BY <1>2, <2>1, <3>2
    <3>4. \A k \in LoansOf(o) : k \notin Blocking(o)
      BY <1>7, <3>2 DEF OneLoan
    <3>5. OneLoan(o)'
      BY <1>5, <1>6, <3>3, <3>4 DEF OneLoan
    <3>6. ASSUME NEW k \in LoansOf(o) PROVE Drawn(o, k)'
      <4>1. Drawn(o, k) /\ k \in Loans /\ t.at \notin {"record", "count"}
        BY <1>4, <1>7, <3>2
      <4>2. CASE k = l
        BY <1>1, <2>1, <2>2, <3>2, <3>3, <4>1, <4>2 DEF Drawn
      <4>3. CASE k # l
        BY <1>1, <3>2, <3>3, <4>1, <4>3 DEF Drawn
      <4> QED
        BY <4>2, <4>3
    <3> QED
      BY <3>3, <3>5, <3>6
  <2> QED
    BY <1>1, <1>2, <1>3, <1>4, <1>5, <2>1, <2>3, <2>4, OnUser
<1>8. CASE t.at # "create"
  <2>1. /\ t.p = l
        /\ <<t.at, s>> \in {<<"open", "APPROVED">>, <<"close", "REPAID">>,
                            <<"CANCELLED", "CANCELLED">>, <<"REJECTED", "REJECTED">>,
                            <<"DEFAULTED", "DEFAULTED">>}
    BY <1>1, <1>8 DEF SetsStep
  <2>2. ~disturbed[l] =>
          /\ Handling(l) = {t} /\ Handling(l)' = {} /\ status[l] = Found(t.at)
          /\ disbursed[l] = IF status[l] \in Opened \/ t.at = "open" THEN 1 ELSE 0
          /\ collected[l] = IF status[l] = "REPAID" \/ t.at = "close" THEN 1 ELSE 0
    BY <1>2, <1>4, <2>1 DEF LoanFits
  <2>3. LoanFits(l)'
    BY <1>1, <1>2, <2>1, <2>2 DEF LoanFits, Found, Opened
  <2>4. Quiet(o)
    BY <1>2, <1>3, <2>1, LoanAssumption
  <2>5. UserFits(o)'
    <3> SUFFICES ASSUME Orderly(o)'
                 PROVE  /\ \A q \in Handling(o)' : Handling(o)' = {q}
                        /\ OneLoan(o)'
                        /\ \A k \in LoansOf(o) : Drawn(o, k)'
      BY DEF UserFits, LoansOf
    <3>1. Orderly(o) /\ ~disturbed[l]
      BY <1>2, <1>3, <1>5 DEF Orderly
    <3>2. /\ \A q \in Handling(o) : Handling(o) = {q}
          /\ OneLoan(o) /\ \A k \in LoansOf(o) : Drawn(o, k)
      BY <1>4, <3>1 DEF UserFits
    <3>3. Handling(o)' = Handling(o)
      BY <2>4 DEF Quiet
    <3>4. status[l] \in {"PENDING", "APPROVED"} /\ status[l] = Found(t.at)
      BY <2>2, <3>1 DEF Found
    <3>5. l \in Blocking(o)
      BY <1>3, <3>4 DEF Blocking, LoansOf
    <3>6. OneLoan(o)'
      BY <1>5, <1>6, <3>2, <3>3, <3>5 DEF OneLoan
    <3>7. ASSUME NEW k \in LoansOf(o) PROVE Drawn(o, k)'
      <4>1. Drawn(o, k) /\ k \in Loans /\ drawn[k] \in Nat /\ advanced[k] \in Nat
        BY <1>4, <3>2 DEF TypeOK
      <4>2. CASE k = l
        <5>1. s = "APPROVED" => drawn[l] = 0
          BY <2>1, <3>4, <4>1, <4>2 DEF Drawn, Found
        <5>2. status'[l] \notin {"none", "PENDING"} /\ status'[l] = s
          BY <1>1, <2>1
        <5> QED
          BY <1>1, <3>3, <4>1, <4>2, <5>1, <5>2 DEF Drawn
      <4>3. CASE k # l
        BY <1>1, <3>3, <4>1, <4>3 DEF Drawn
      <4> QED
        BY <4>2, <4>3
    <3> QED
      BY <3>2, <3>3, <3>6, <3>7
  <2>6. \A r \in Rows \ {l} : Quiet(r)
    BY <1>2, <2>1
  <2>7. \A k \in LoansOf(o) : LoanFits(k)'
    <3>1. ASSUME NEW k \in LoansOf(o) \ {l} PROVE LoanFits(k)'
      <4>1. k \in Loans /\ k \in Rows \ {l} /\ LoanFits(k)
        BY <1>4, LoanAssumption
      <4> QED
        BY <1>1, <2>6, <4>1, LoanQuiet
    <3> QED
      BY <2>3, <3>1
  <2>8. Fits(o)'
    BY <1>5, <2>5, <2>7 DEF Fits
  <2> QED
    BY <1>3, <1>5, <2>6, <2>8, Elsewhere
<1> QED
  BY <1>7, <1>8

\* A loan is paid out or collected, and the handler goes on to record it.
LEMMA LendsFits ==
    ASSUME TypeOK, HandlerInv, FitsInv, NEW t \in tasks, Disburse(t) \/ Collect(t)
    PROVE  FitsInv'
<1> DEFINE l == t.p
           o == UserOf(t)
<1>1. /\ l \in Loans /\ l \in LoansOf(o) /\ o \in Users /\ UNCHANGED <<status, advanced, drawn>>
      /\ \A k \in Loans \ {l} : disbursed'[k] = disbursed[k] /\ collected'[k] = collected[k]
      /\ \/ /\ t.at = "disburse" /\ Move(t, "open")
            /\ disbursed'[l] = disbursed[l] + 1 /\ collected'[l] = collected[l]
         \/ /\ t.at = "collect" /\ Move(t, "close")
            /\ collected'[l] = collected[l] + 1 /\ disbursed'[l] = disbursed[l]
  BY DisburseIs, CollectIs
<1>2. PICK s \in {"open", "close"} : Move(t, s) /\ (s = "open" <=> t.at = "disburse")
  BY <1>1
<1>3. /\ disturbed' = disturbed /\ \A r \in Rows \ {l} : Quiet(r)
      /\ \E u \in Task : u.at = s /\ Handling(l)' = (Handling(l) \ {t}) \cup {u}
  BY <1>1, <1>2, MovesTyped DEF Quiet
<1>4. PICK u \in Task : u.at = s /\ Handling(l)' = (Handling(l) \ {t}) \cup {u}
  BY <1>3
<1>5. LoanFits(l) /\ t \in Handling(l)
  BY <1>1 DEF FitsInv, Fits, Handling
<1> HIDE DEF l, o
<1>6. ~disturbed[l] =>
        /\ Handling(l)' = {u} /\ status[l] = Found(t.at)
        /\ disbursed[l] = IF status[l] \in Opened THEN 1 ELSE 0
        /\ collected[l] = IF status[l] = "REPAID" THEN 1 ELSE 0
  <2>1. ~disturbed[l] => Handling(l) = {t} /\ status[l] = Found(t.at)
    BY <1>1, <1>5 DEF LoanFits
  <2> QED
    BY <1>1, <1>4, <1>5, <2>1 DEF LoanFits
<1>7. LoanFits(l)'
  BY <1>1, <1>2, <1>3, <1>4, <1>6 DEF LoanFits, Found, Opened
<1> QED
  BY <1>1, <1>3, <1>7, OnLoan

\* A withdrawal is debited, and drawn against the loan its gate found.
LEMMA WithdrawFits ==
    ASSUME TypeOK, HandlerInv, FitsInv, NEW t \in tasks, WithdrawCommits(t)
    PROVE  FitsInv'
<1> DEFINE u == t.p
<1>1. /\ t.at = "debit" /\ u \in Users /\ t.amount \in Nat /\ Move(t, "record")
      /\ t.loan \subseteq LoansOf(u)
      /\ \A l \in Loans : drawn'[l] = IF l \in t.loan THEN drawn[l] + t.amount ELSE drawn[l]
      /\ UNCHANGED <<status, advanced, disbursed, collected>>
  BY WithdrawIs
<1>2. /\ disturbed' = disturbed /\ \A r \in Rows \ {u} : Quiet(r)
      /\ \E n \in Task : /\ n.loan = t.loan /\ n.at = "record" /\ n.amount = t.amount
                         /\ Handling(u)' = (Handling(u) \ {t}) \cup {n}
  BY <1>1, MovesTyped DEF Quiet
<1>3. PICK n \in Task : /\ n.loan = t.loan /\ n.at = "record" /\ n.amount = t.amount
                        /\ Handling(u)' = (Handling(u) \ {t}) \cup {n}
  BY <1>2
<1>4. UserFits(u) /\ t \in Handling(u)
  BY <1>1 DEF FitsInv, Fits, Handling
<1>5. LoansOf(u)' = LoansOf(u) /\ Blocking(u)' = Blocking(u)
  BY <1>1 DEF LoansOf, Blocking
<1> HIDE DEF u
<1>6. UserFits(u)'
  <2> SUFFICES ASSUME Orderly(u)'
               PROVE  /\ \A q \in Handling(u)' : Handling(u)' = {q}
                      /\ OneLoan(u)'
                      /\ \A l \in LoansOf(u) : Drawn(u, l)'
    BY DEF UserFits, LoansOf
  <2>1. Orderly(u)
    BY <1>1, <1>2, OrderlyBefore
  <2>2. Handling(u) = {t} /\ OneLoan(u) /\ \A l \in LoansOf(u) : Drawn(u, l)
    BY <1>4, <2>1 DEF UserFits
  <2>3. Handling(u)' = {n}
    BY <1>3, <2>2
  <2>4. OneLoan(u)'
    BY <1>3, <1>5, <2>2, <2>3 DEF OneLoan
  <2>5. ASSUME NEW l \in LoansOf(u) PROVE Drawn(u, l)'
    <3>1. /\ Drawn(u, l) /\ l \in Loans /\ drawn[l] \in Nat /\ advanced[l] \in Nat
          /\ Principal[l] \in Nat
      BY <2>2, DueNat DEF LoansOf, TypeOK
    <3>2. status[l] = "APPROVED" => drawn[l] <= advanced[l]
      BY <1>1, <2>2, <3>1 DEF Drawn
    <3> QED
      BY <1>1, <1>3, <2>2, <2>3, <3>1, <3>2 DEF Drawn
  <2> QED
    BY <2>3, <2>4, <2>5
<1>7. /\ \A l \in Loans \ LoansOf(u) : Columns(l)
      /\ \A l \in LoansOf(u) : l \in Loans
  BY <1>1 DEF Columns, LoansOf
<1> QED
  BY <1>1, <1>2, <1>6, <1>7, OnUser

\* A handler of a user that leaves the loans alone returns.
LEMMA ReturnFits ==
    ASSUME TypeOK, HandlerInv, FitsInv, NEW t \in tasks, t.at \notin LoanSteps,
           Return(t) \/ LoseTrack(t), UNCHANGED <<status, advanced, disbursed, collected, drawn>>,
           Return(t) => t.at \notin {"record", "count"}
    PROVE  FitsInv'
<1> DEFINE u == t.p
<1>1. u \in Users /\ t \in Handling(u)
  BY OfUser DEF Handling
<1>2. /\ Handling(u)' = Handling(u) \ {t} /\ \A r \in Rows \ {u} : Quiet(r)
      /\ IF Return(t) THEN disturbed' = disturbed ELSE disturbed'[u]
  BY PoolEnds DEF Quiet
<1>3. UserFits(u)
  BY <1>1 DEF FitsInv, Fits
<1>4. LoansOf(u)' = LoansOf(u) /\ Blocking(u)' = Blocking(u)
  BY DEF LoansOf, Blocking
<1> HIDE DEF u
<1>5. UserFits(u)'
  <2> SUFFICES ASSUME Orderly(u)'
               PROVE  /\ \A q \in Handling(u)' : Handling(u)' = {q}
                      /\ OneLoan(u)'
                      /\ \A l \in LoansOf(u) : Drawn(u, l)'
    BY DEF UserFits, LoansOf
  <2>1. Return(t)
    BY <1>2 DEF Orderly
  <2>2. Orderly(u)
    BY <1>1, <1>2, <2>1, OrderlyBefore
  <2>3. Handling(u) = {t} /\ OneLoan(u) /\ \A l \in LoansOf(u) : Drawn(u, l)
    BY <1>1, <1>3, <2>2 DEF UserFits
  <2>4. Handling(u)' = {}
    BY <1>2, <2>3
  <2>5. OneLoan(u)'
    BY <1>4, <2>3, <2>4 DEF OneLoan
  <2>6. \A l \in LoansOf(u) : Drawn(u, l)'
    BY <2>1, <2>3, <2>4 DEF Drawn
  <2> QED
    BY <2>4, <2>5, <2>6
<1>6. /\ \A l \in Loans \ LoansOf(u) : Columns(l)
  BY DEF Columns
<1> QED
  BY <1>1, <1>2, <1>5, <1>6, OnUser

\* A handler of a loan that leaves the loans alone returns.
LEMMA LoanReturnFits ==
    ASSUME TypeOK, HandlerInv, FitsInv, NEW t \in tasks, t.at \in LoanSteps,
           Return(t) \/ LoseTrack(t), UNCHANGED <<status, advanced, disbursed, collected, drawn>>,
           Return(t) => t.at \notin {"open", "close"}
    PROVE  FitsInv'
<1>1. /\ t.p \in LoansOf(UserOf(t)) /\ UserOf(t) \in Users /\ t \in Handling(t.p)
      /\ t.p \in Rows
  BY OfLoan DEF Handling, Task
<1>2. /\ Handling(t.p)' = Handling(t.p) \ {t} /\ \A r \in Rows \ {t.p} : Quiet(r)
      /\ IF Return(t) THEN disturbed' = disturbed ELSE disturbed'[t.p]
  BY PoolEnds DEF Quiet
<1>3. LoanFits(t.p)
  BY <1>1 DEF FitsInv, Fits
<1>4. ~disturbed'[t.p] => ~disturbed[t.p] /\ Handling(t.p) = {t} /\ Handling(t.p)' = {}
  BY <1>1, <1>2, <1>3 DEF LoanFits
<1>5. LoanFits(t.p)'
  BY <1>2, <1>3, <1>4 DEF LoanFits
<1> QED
  BY <1>1, <1>2, <1>4, <1>5, OnLoan

\* The gate records what was withdrawn against the loan.
LEMMA RecordFits ==
    ASSUME TypeOK, HandlerInv, FitsInv, NEW t \in tasks, RecordCommits(t)
    PROVE  FitsInv'
<1> DEFINE u == t.p
           k == LoanOf(t)
<1>1. /\ t.at = "count" /\ u \in Users /\ t.seen \in Nat /\ t.amount \in Nat
      /\ k \in LoansOf(u) /\ t.loan = {k} /\ Return(t)
      /\ advanced'[k] = IF t.seen + t.amount < Principal[k] THEN t.seen + t.amount ELSE Principal[k]
      /\ \A l \in Loans \ {k} : advanced'[l] = advanced[l]
      /\ UNCHANGED <<status, disbursed, collected, drawn>>
  BY RecordIs
<1>2. /\ disturbed' = disturbed /\ \A r \in Rows \ {u} : Quiet(r)
      /\ Handling(u)' = Handling(u) \ {t} /\ t \in Handling(u)
  BY <1>1, PoolEnds DEF Quiet, Handling
<1>3. UserFits(u)
  BY <1>1 DEF FitsInv, Fits
<1>4. LoansOf(u)' = LoansOf(u) /\ Blocking(u)' = Blocking(u)
  BY <1>1 DEF LoansOf, Blocking
<1> HIDE DEF u, k
<1>5. UserFits(u)'
  <2> SUFFICES ASSUME Orderly(u)'
               PROVE  /\ \A q \in Handling(u)' : Handling(u)' = {q}
                      /\ OneLoan(u)'
                      /\ \A l \in LoansOf(u) : Drawn(u, l)'
    BY DEF UserFits, LoansOf
  <2>1. Orderly(u)
    BY <1>1, <1>2, OrderlyBefore
  <2>2. Handling(u) = {t} /\ OneLoan(u) /\ \A l \in LoansOf(u) : Drawn(u, l)
    BY <1>2, <1>3, <2>1 DEF UserFits
  <2>3. Handling(u)' = {}
    BY <1>2, <2>2
  <2>4. OneLoan(u)'
    BY <1>4, <2>2, <2>3 DEF OneLoan
  <2>5. ASSUME NEW l \in LoansOf(u) PROVE Drawn(u, l)'
    <3>1. /\ Drawn(u, l) /\ l \in Loans /\ drawn[l] \in Nat /\ advanced[l] \in Nat
          /\ Principal[l] \in Nat
      BY <2>2, DueNat DEF LoansOf, TypeOK
    <3>2. CASE l = k
      <4>1. t.seen = advanced[l] /\ drawn[l] <= Principal[l]
        BY <1>1, <2>2, <3>1, <3>2 DEF Drawn
      <4>2. status[l] = "APPROVED" => drawn[l] <= advanced[l] + t.amount
        BY <1>1, <2>2, <3>1 DEF Drawn
      <4>3. status[l] = "APPROVED" => drawn[l] <= advanced'[l]
        BY <1>1, <3>1, <3>2, <4>1, <4>2
      <4> QED
        BY <1>1, <2>3, <3>1, <4>3 DEF Drawn
    <3>3. CASE l # k
      BY <1>1, <2>2, <2>3, <3>1, <3>3 DEF Drawn
    <3> QED
      BY <3>2, <3>3
  <2> QED
    BY <2>3, <2>4, <2>5
<1>6. /\ \A l \in Loans \ LoansOf(u) : Columns(l)
      /\ \A l \in LoansOf(u) : l \in Loans
  BY <1>1 DEF Columns, LoansOf
<1> QED
  BY <1>1, <1>2, <1>5, <1>6, OnUser

\* A step of a handler that moves money.
LEMMA PaysFits ==
    ASSUME TypeOK, HandlerInv, FitsInv, NEW t \in tasks, Pays(t)
    PROVE  FitsInv'
<1>1. CASE RefundCredits(t)
  <2>1. t.at = "refund" /\ Return(t) /\ UNCHANGED loanVars
    BY <1>1, RefundIs
  <2> QED
    BY <2>1, ReturnFits DEF LoanSteps, Closing, loanVars
<1>2. CASE AllocateCommits(t)
  <2>1. t.at = "allocate" /\ Return(t) /\ UNCHANGED loanVars
    BY <1>2, AllocateIs
  <2> QED
    BY <2>1, ReturnFits DEF LoanSteps, Closing, loanVars
<1>3. CASE ClawbackCommits(t)
  <2>1. t.at = "claw" /\ Return(t) /\ UNCHANGED loanVars
    BY <1>3, ClawbackIs
  <2> QED
    BY <2>1, LoanReturnFits DEF LoanSteps, Closing, loanVars
<1> QED
  BY <1>1, <1>2, <1>3, LendsFits, WithdrawFits DEF Pays

\* A process dies.
LEMMA CrashFits ==
    ASSUME TypeOK, HandlerInv, FitsInv, NEW t \in tasks, Crash(t)
    PROVE  FitsInv'
<1>1. /\ IF t.at \in {"open", "close", "record", "count"} THEN LoseTrack(t) ELSE Return(t)
      /\ UNCHANGED loanVars
  BY DEF Crash
<1>2. CASE t.at \in {"open", "close", "record", "count"}
  <2>1. t.p \in Rows
    BY DEF TypeOK, Task
  <2>2. LoseTrack(t) /\ disturbed'[t.p]
    BY <1>1, <1>2, <2>1 DEF LoseTrack, TypeOK
  <2>3. CASE t.at \in LoanSteps
    <3>1. ~Return(t) \/ disturbed' = disturbed
      BY DEF Return
    <3>2. /\ t.p \in LoansOf(UserOf(t)) /\ UserOf(t) \in Users
          /\ \A r \in Rows \ {t.p} : Quiet(r)
      BY <2>2, <2>3, OfLoan, PoolEnds DEF Quiet
    <3>3. LoanFits(t.p)'
      BY <2>2 DEF LoanFits
    <3> QED
      BY <1>1, <2>2, <3>2, <3>3, OnLoan DEF loanVars
  <2>4. CASE t.at \notin LoanSteps
    <3>1. t.p \in Users /\ \A r \in Rows \ {t.p} : Quiet(r)
      BY <2>2, <2>4, OfUser, PoolEnds DEF Quiet
    <3>2. UserFits(t.p)'
      BY <2>2 DEF UserFits, Orderly
    <3>3. \A l \in Loans : Columns(l)
      BY <1>1 DEF loanVars, Columns
    <3> QED
      BY <1>1, <3>1, <3>2, <3>3, OnUser DEF loanVars
  <2> QED
    BY <2>3, <2>4
<1>3. CASE t.at \notin {"open", "close", "record", "count"}
  <2>1. Return(t) /\ UNCHANGED <<status, advanced, disbursed, collected, drawn>>
    BY <1>1, <1>3 DEF loanVars
  <2> QED
    BY <1>3, <2>1, ReturnFits, LoanReturnFits
<1> QED
  BY <1>2, <1>3

-----------------------------------------------------------------------------
\* The inductive invariant holds at first ...
LEMMA InitInv == Init => IInv
<1> SUFFICES ASSUME Init PROVE IInv
  OBVIOUS
<1>1. TypeOK
  BY OpeningAssumption, LoanAssumption DEF Init, WalletInit, TypeOK, WalletTypeOK, Statuses
<1>2. HandlerInv
  BY DEF Init, HandlerInv
<1>3. \A r \in Rows : Handling(r) = {}
  BY DEF Init, Handling
<1>4. \A l \in Loans : /\ status[l] = "none" /\ disbursed[l] = 0 /\ collected[l] = 0
                       /\ drawn[l] = 0 /\ advanced[l] = 0 /\ Principal[l] \in Nat
  BY DueNat DEF Init
<1>5. ASSUME NEW u \in Users PROVE Fits(u)
  <2>1. \A l \in LoansOf(u) : LoanFits(l)
    BY <1>3, <1>4, RowsOf DEF LoanFits, Opened
  <2>2. Handling(u) = {} /\ \A l \in LoansOf(u) : l \notin Blocking(u)
    BY <1>3, <1>4, RowsOf DEF Blocking
  <2>3. \A l \in LoansOf(u) : Drawn(u, l)
    BY <1>4, <2>2, RowsOf DEF Drawn
  <2> QED
    BY <2>1, <2>2, <2>3 DEF Fits, UserFits, OneLoan
<1> QED
  BY <1>1, <1>2, <1>5 DEF IInv, FitsInv

\* ... is kept by every step ...
LEMMA StepFits == TypeOK /\ HandlerInv /\ FitsInv /\ [Next]_vars => FitsInv'
<1> SUFFICES ASSUME TypeOK, HandlerInv, FitsInv, [Next]_vars PROVE FitsInv'
  OBVIOUS
<1>1. CASE UNCHANGED vars
  <2>1. \A l \in Loans : Columns(l)
    BY <1>1 DEF vars, loanVars, Columns
  <2>2. \A r \in Rows : Quiet(r)
    BY <1>1 DEF vars, taskVars, Quiet, Handling
  <2>3. ASSUME NEW u \in Users PROVE Fits(u)'
    <3>1. UserFits(u) /\ \A l \in LoansOf(u) : LoanFits(l) /\ l \in Loans /\ l \in Rows
      BY RowsOf DEF FitsInv, Fits
    <3>2. \A l \in LoansOf(u) : LoanFits(l)'
      BY <2>1, <2>2, <3>1, LoanQuiet DEF Columns
    <3>3. Quiet(u) /\ \A l \in LoansOf(u) : Quiet(l)
      BY <2>2, <3>1, RowsOf
    <3>4. Orderly(u)' => Orderly(u)
      BY <3>3 DEF Orderly, Quiet, LoansOf
    <3>5. UserFits(u)'
      BY <2>1, <3>1, <3>3, <3>4, UserQuiet
    <3> QED
      BY <3>2, <3>5 DEF Fits, LoansOf
  <2> QED
    BY <2>3 DEF FitsInv
<1> QED
  BY <1>1, NextIs, BeginsFits, ReadsFits, PaysFits, RecordFits, CrashFits, SetsFits

\* ... and holds for ever.
LEMMA SpecInv == Spec => []IInv
<1>1. IInv /\ [Next]_vars => IInv'
  BY StepTyped, StepFits DEF IInv
<1> QED
  BY InitInv, <1>1, PTL DEF Spec

\* No balance, investment or count is ever negative: no repayment, withdrawal or
\* capital move takes more than its handler read, and no clawback more than was
\* invested.
THEOREM LoansTyped == Spec => []TypeOK
BY SpecInv, PTL DEF IInv

\* A user none of whose handlers overlapped has one loan at most: a request of
\* loans.service.ts that found none pending or open is still right when it creates
\* the row.
THEOREM OneLoanOnly == Spec => []OneLoanAtATime
<1>1. ASSUME FitsInv PROVE OneLoanAtATime
  <2>1. ASSUME NEW u \in Users, Orderly(u) PROVE Cardinality(Blocking(u)) <= 1
    <3>1. \A k, l \in Blocking(u) : k = l
      BY <1>1, <2>1 DEF FitsInv, Fits, UserFits, OneLoan, Blocking, LoansOf
    <3>2. CASE Blocking(u) = {}
      BY <3>2, FS_EmptySet
    <3>3. ASSUME NEW l \in Blocking(u) PROVE Cardinality(Blocking(u)) <= 1
      <4>1. Blocking(u) = {l}
        BY <3>1
      <4>2. Cardinality({l}) = 1
        BY FS_Singleton
      <4> QED
        BY <4>1, <4>2
    <3> QED
      BY <3>2, <3>3
  <2> QED
    BY <2>1 DEF OneLoanAtATime
<1> QED
  BY <1>1, SpecInv, PTL DEF IInv

\* Between the handlers of a loan that did not overlap or die half-way, the
\* principal that was paid out and the debt that was collected are what the status
\* says (approval, repayment and clawback of loans.service.ts).
THEOREM LoanMoneyIsTrue == Spec => []MoneyFollowsStatus
<1>1. ASSUME FitsInv PROVE MoneyFollowsStatus
  <2>1. ASSUME NEW l \in Loans, ~disturbed[l], ~Running(l)
        PROVE  /\ disbursed[l] = IF status[l] \in Opened THEN 1 ELSE 0
               /\ collected[l] = IF status[l] = "REPAID" THEN 1 ELSE 0
    <3>1. Owner[l] \in Users /\ l \in LoansOf(Owner[l])
      BY LoanAssumption DEF LoansOf
    <3>2. LoanFits(l) /\ Handling(l) = {}
      BY <1>1, <2>1, <3>1 DEF FitsInv, Fits, Running, Handling
    <3> QED
      BY <2>1, <3>2 DEF LoanFits
  <2> QED
    BY <2>1 DEF MoneyFollowsStatus, Opened
<1> QED
  BY <1>1, SpecInv, PTL DEF IInv

\* An orderly user never withdraws more against a loan than its principal, and
\* while it is open its withdrawnAgainstLoan hides nothing: the gate of
\* executeDepositorWithdraw reads what the last withdrawal counted.
THEOREM AdvanceLimits == Spec => []AdvanceIsTheLimit
<1>1. ASSUME TypeOK, FitsInv PROVE AdvanceIsTheLimit
  <2>1. ASSUME NEW l \in Loans, Orderly(Owner[l])
        PROVE  /\ drawn[l] <= Principal[l]
               /\ status[l] = "APPROVED" /\ ~Running(Owner[l]) => advanced[l] >= drawn[l]
    <3>1. Owner[l] \in Users /\ l \in LoansOf(Owner[l])
      BY LoanAssumption DEF LoansOf
    <3>2. Drawn(Owner[l], l) /\ (~Running(Owner[l]) => Handling(Owner[l]) = {})
      BY <1>1, <2>1, <3>1 DEF FitsInv, Fits, UserFits, Running, Handling
    <3>3. drawn[l] \in Nat /\ advanced[l] \in Nat
      BY <1>1 DEF TypeOK
    <3> QED
      BY <3>2, <3>3 DEF Drawn
  <2> QED
    BY <2>1 DEF AdvanceIsTheLimit
<1> QED
  BY <1>1, SpecInv, PTL DEF IInv

-----------------------------------------------------------------------------
\* What a loan has put into its owner's wallet and capital is an integer.
LEMMA NetInt ==
    ASSUME TypeOK
    PROVE  \A l \in Loans :
             /\ net[l] = disbursed[l] * Principal[l] - collected[l] * TotalDue(l) - stripped[l]
             /\ net[l] \in Int
<1> SUFFICES ASSUME NEW l \in Loans
             PROVE  /\ net[l] = disbursed[l] * Principal[l] - collected[l] * TotalDue(l)
                                - stripped[l]
                    /\ net[l] \in Int
  OBVIOUS
<1>1. /\ disbursed[l] \in Nat /\ collected[l] \in Nat /\ stripped[l] \in Nat
      /\ Principal[l] \in Nat /\ TotalDue(l) \in Nat
  BY DueNat DEF TypeOK
<1>2. disbursed[l] * Principal[l] - collected[l] * TotalDue(l) - stripped[l] \in Int
  BY <1>1
<1> QED
  BY <1>2 DEF net

\* A step that moves i into o's capital and a into the wallet, because of a change
\* p of what is paid out and n of what loans have brought.
BooksChange(o, a, i, p, n) ==
    /\ a + i = n - p
    /\ \A v \in Users \ {o} : /\ available'[v] = available[v] /\ rowSum'[v] = rowSum[v]
                              /\ stale'[v] = stale[v] /\ invested'[v] = invested[v]
                              /\ paidOut'[v] = paidOut[v]
                              /\ SumOver(net', LoansOf(v)) = SumOver(net, LoansOf(v))
    /\ SumOver(net, LoansOf(o)) \in Int
    /\ SumOver(net', LoansOf(o)) = SumOver(net, LoansOf(o)) + n
    /\ rowSum'[o] = rowSum[o] + a /\ paidOut'[o] = paidOut[o] + p
    /\ ~stale'[o] => /\ ~stale[o] /\ available'[o] = available[o] + a
                     /\ invested'[o] = invested[o] + i

LEMMA BooksMove ==
    ASSUME TypeOK, TypeOK', BooksInv, NEW o \in Users,
           NEW a \in Int, NEW i \in Int, NEW p \in Int, NEW n \in Int, BooksChange(o, a, i, p, n)
    PROVE  BooksInv'
<1> USE DEF BooksChange
<1>1. ASSUME NEW v \in Users \ {o} PROVE BooksOf(v)'
  <2>1. BooksOf(v)
    BY DEF BooksInv
  <2>2. LoansOf(v)' = LoansOf(v)
    BY DEF LoansOf
  <2> QED
    BY <2>1, <2>2 DEF BooksOf
<1>2. BooksOf(o)'
  <2>1. BooksOf(o) /\ LoansOf(o)' = LoansOf(o)
    BY DEF BooksInv, LoansOf
  <2>2. /\ available[o] \in Int /\ rowSum[o] \in Int /\ invested[o] \in Int /\ paidOut[o] \in Int
        /\ Opening[o] \in Int /\ Capital[o] \in Int
    BY OpeningAssumption, LoanAssumption DEF TypeOK, WalletTypeOK
  <2>3. ASSUME ~stale'[o]
        PROVE  /\ available'[o] = Opening[o] + rowSum'[o]
               /\ available'[o] + invested'[o] =
                    Opening[o] + Capital[o] - paidOut'[o] + SumOver(net', LoansOf(o))
    <3>1. /\ available[o] = Opening[o] + rowSum[o]
          /\ available[o] + invested[o] =
               Opening[o] + Capital[o] - paidOut[o] + SumOver(net, LoansOf(o))
      BY <2>1, <2>3 DEF BooksOf
    <3> DEFINE S == SumOver(net, LoansOf(o))
               T == SumOver(net', LoansOf(o))
    <3>2. S \in Int /\ T = S + n
      OBVIOUS
    <3>3. /\ available[o] = Opening[o] + rowSum[o]
          /\ available[o] + invested[o] = Opening[o] + Capital[o] - paidOut[o] + S
      BY <3>1
    <3>4. /\ available'[o] = available[o] + a /\ invested'[o] = invested[o] + i
          /\ rowSum'[o] = rowSum[o] + a /\ paidOut'[o] = paidOut[o] + p
      BY <2>3
    <3> HIDE DEF S, T
    <3>5. available'[o] = Opening[o] + rowSum'[o]
      BY <2>2, <3>3, <3>4
    <3>6. available'[o] + invested'[o] = (available[o] + invested[o]) + (n - p)
      BY <2>2, <3>4
    <3>7. available'[o] + invested'[o] = Opening[o] + Capital[o] - paidOut'[o] + T
      BY <2>2, <3>2, <3>3, <3>4, <3>6
    <3> QED
      BY <3>5, <3>7 DEF T
  <2> QED
    BY <2>1, <2>3 DEF BooksOf
<1> QED
  BY <1>1, <1>2 DEF BooksInv

\* The loans of a user are finitely many, and of that user only.
LEMMA FiniteLoans ==
    ASSUME TypeOK, NEW u \in Users
    PROVE  /\ LoansOf(u) \in SUBSET Loans /\ IsFiniteSet(LoansOf(u))
           /\ SumOver(net, LoansOf(u)) \in Int
           /\ \A v \in Users \ {u} : \A l \in LoansOf(u) : l \notin LoansOf(v)
<1>1. LoansOf(u) \in SUBSET Loans /\ IsFiniteSet(LoansOf(u))
  BY LoanAssumption, FS_Subset DEF LoansOf
<1>2. \A l \in LoansOf(u) : net[l] \in Int
  BY <1>1, NetInt
<1>3. SumOver(net, LoansOf(u)) \in Int
  BY <1>1, <1>2, SumOverType
<1> QED
  BY <1>1, <1>3 DEF LoansOf

\* A step that moves nothing because of a loan ...
LEMMA NetSame ==
    ASSUME UNCHANGED <<disbursed, collected, stripped>>
    PROVE  net' = net
BY DEF net, TotalDue

\* ... or something because of one of them.
LEMMA NetMoves ==
    ASSUME TypeOK, TypeOK', NEW o \in Users, NEW l \in LoansOf(o), NEW n \in Int,
           \A k \in Loans \ {l} : /\ disbursed'[k] = disbursed[k] /\ collected'[k] = collected[k]
                                  /\ stripped'[k] = stripped[k],
           net'[l] = net[l] + n
    PROVE  /\ SumOver(net', LoansOf(o)) = SumOver(net, LoansOf(o)) + n
           /\ \A v \in Users \ {o} : SumOver(net', LoansOf(v)) = SumOver(net, LoansOf(v))
<1>1. l \in Loans /\ IsFiniteSet(Loans)
  BY LoanAssumption DEF LoansOf
<1>2. \A k \in Loans : /\ net[k] \in Int
                       /\ net[k] = disbursed[k] * Principal[k] - collected[k] * TotalDue(k)
                                   - stripped[k]
  BY NetInt
<1>3. \A k \in Loans :
        net'[k] = disbursed'[k] * Principal[k] - collected'[k] * TotalDue(k) - stripped'[k]
  BY DEF net, TotalDue
<1>4. \A k \in Loans \ {l} : net'[k] = net[k]
  BY <1>2, <1>3
<1>5. net[l] \in Int /\ net'[l] \in Int /\ net'[l] - net[l] = n
  BY <1>1, <1>2
<1>6. DifferAt(net, net', Loans, l)
  BY <1>1, <1>2, <1>4, <1>5 DEF DifferAt
<1>7. ASSUME NEW v \in Users
      PROVE  SumOver(net', LoansOf(v)) = IF l \in LoansOf(v) THEN SumOver(net, LoansOf(v)) + n
                                         ELSE SumOver(net, LoansOf(v))
  <2>1. LoansOf(v) \in SUBSET Loans
    BY DEF LoansOf
  <2>2. SumOver(net', LoansOf(v)) =
          IF l \in LoansOf(v) THEN SumOver(net, LoansOf(v)) + (net'[l] - net[l])
          ELSE SumOver(net, LoansOf(v))
    BY <1>6, <2>1, SumOverMoves
  <2> QED
    BY <1>5, <2>2
<1>8. \A v \in Users \ {o} : l \notin LoansOf(v)
  BY DEF LoansOf
<1> QED
  BY <1>7, <1>8

-----------------------------------------------------------------------------
\* A loan paid out or collected: the wallet and the loan's sum move alike.
LEMMA LendsBooks ==
    ASSUME TypeOK, HandlerInv, TypeOK', BooksInv, NEW t \in tasks, Disburse(t) \/ Collect(t)
    PROVE  BooksInv'
<1> DEFINE o == UserOf(t)
           l == t.p
<1>1. ASSUME NEW a \in Int, AssignAndPost(o, t.seen, a, t.seen = available[o]),
             o \in Users, l \in LoansOf(o), t.seen \in Nat,
             UNCHANGED <<paidOut, invested, stripped>>,
             net'[l] = net[l] + a,
             \A k \in Loans \ {l} : disbursed'[k] = disbursed[k] /\ collected'[k] = collected[k]
      PROVE  BooksInv'
  <2>1. WalletTypeOK /\ a + 0 = a - 0
    BY <1>1 DEF TypeOK
  <2>2. /\ available'[o] = t.seen + a /\ rowSum'[o] = rowSum[o] + a
        /\ stale'[o] = (stale[o] \/ ~(t.seen = available[o]))
        /\ \A v \in Users \ {o} : /\ available'[v] = available[v] /\ rowSum'[v] = rowSum[v]
                                  /\ stale'[v] = stale[v]
    BY <1>1, <2>1 DEF AssignAndPost, WalletTypeOK
  <2>3. /\ SumOver(net', LoansOf(o)) = SumOver(net, LoansOf(o)) + a
        /\ \A v \in Users \ {o} : SumOver(net', LoansOf(v)) = SumOver(net, LoansOf(v))
    BY <1>1, NetMoves
  <2>4. /\ invested[o] \in Int /\ paidOut[o] \in Int /\ SumOver(net, LoansOf(o)) \in Int
    BY <1>1, FiniteLoans DEF TypeOK
  <2>5. invested'[o] = invested[o] + 0 /\ paidOut'[o] = paidOut[o] + 0
    BY <1>1, <2>4
  <2> HIDE DEF o, l
  <2>6. 0 \in Int
    OBVIOUS
  <2>7. BooksChange(o, a, 0, 0, a)
    BY <1>1, <2>1, <2>2, <2>3, <2>4, <2>5 DEF BooksChange
  <2> QED
    BY <1>1, <2>6, <2>7, BooksMove
<1>2. CASE Disburse(t)
  <2>1. /\ l \in Loans /\ disbursed'[l] = disbursed[l] + 1 /\ collected' = collected
        /\ stripped' = stripped
    BY <1>2, DisburseIs DEF capitalVars
  <2>2. /\ disbursed[l] \in Nat /\ collected[l] \in Nat /\ stripped[l] \in Nat
        /\ Principal[l] \in Nat /\ TotalDue(l) \in Nat
    BY <2>1, DueNat DEF TypeOK
  <2>3. \A d, m \in Int : (d + 1) * m = d * m + m
    OBVIOUS
  <2>4. disbursed'[l] * Principal[l] = disbursed[l] * Principal[l] + Principal[l]
    BY <2>1, <2>2, <2>3
  <2>5. /\ net[l] = disbursed[l] * Principal[l] - collected[l] * TotalDue(l) - stripped[l]
        /\ net'[l] = disbursed'[l] * Principal[l] - collected[l] * TotalDue(l) - stripped[l]
        /\ disbursed[l] * Principal[l] \in Int /\ collected[l] * TotalDue(l) \in Int
    BY <2>1, <2>2, NetInt DEF net, TotalDue
  <2>6. net'[l] = net[l] + Principal[l]
    BY <2>2, <2>4, <2>5
  <2> QED
    BY <1>1, <1>2, <2>2, <2>6, DisburseIs DEF payoutVars, capitalVars
<1>3. CASE Collect(t)
  <2>1. /\ l \in Loans /\ collected'[l] = collected[l] + 1 /\ disbursed' = disbursed
        /\ stripped' = stripped
    BY <1>3, CollectIs DEF capitalVars
  <2>2. /\ disbursed[l] \in Nat /\ collected[l] \in Nat /\ stripped[l] \in Nat
        /\ Principal[l] \in Nat /\ TotalDue(l) \in Nat
    BY <2>1, DueNat DEF TypeOK
  <2>3. \A d, m \in Int : (d + 1) * m = d * m + m
    OBVIOUS
  <2>4. collected'[l] * TotalDue(l) = collected[l] * TotalDue(l) + TotalDue(l)
    BY <2>1, <2>2, <2>3
  <2>5. /\ net[l] = disbursed[l] * Principal[l] - collected[l] * TotalDue(l) - stripped[l]
        /\ net'[l] = disbursed[l] * Principal[l] - collected'[l] * TotalDue(l) - stripped[l]
        /\ disbursed[l] * Principal[l] \in Int /\ collected[l] * TotalDue(l) \in Int
    BY <2>1, <2>2, NetInt DEF net, TotalDue
  <2>6. net'[l] = net[l] + (0 - TotalDue(l)) /\ 0 - TotalDue(l) \in Int
    BY <2>2, <2>4, <2>5
  <2> QED
    BY <1>1, <1>3, <2>6, CollectIs DEF payoutVars, capitalVars
<1> QED
  BY <1>2, <1>3

\* A withdrawal or a refund: the wallet and what is paid out.
LEMMA PayoutBooks ==
    ASSUME TypeOK, HandlerInv, TypeOK', BooksInv, NEW t \in tasks,
           WithdrawCommits(t) \/ RefundCredits(t)
    PROVE  BooksInv'
<1> DEFINE o == t.p
<1>1. PICK a \in Int :
        /\ AssignAndPost(o, t.seen, a, t.seen = available[o]) /\ paidOut'[o] = paidOut[o] + (0 - a)
  <2>1. CASE WithdrawCommits(t)
    <3>1. /\ AssignAndPost(o, t.seen, 0 - t.amount, t.seen = available[o])
          /\ paidOut'[o] = paidOut[o] + t.amount /\ t.amount \in Nat
      BY <2>1, WithdrawIs
    <3>2. 0 - t.amount \in Int /\ 0 - (0 - t.amount) = t.amount
      BY <3>1
    <3> QED
      BY <3>1, <3>2
  <2>2. CASE RefundCredits(t)
    <3>1. /\ AssignAndPost(o, t.seen, t.amount, t.seen = available[o]) /\ o \in Users
          /\ paidOut'[o] = paidOut[o] - t.amount /\ t.amount \in Nat
      BY <2>2, RefundIs
    <3>2. paidOut[o] \in Int /\ t.amount \in Int
      BY <3>1 DEF TypeOK
    <3>3. paidOut[o] - t.amount = paidOut[o] + (0 - t.amount)
      BY <3>2
    <3> QED
      BY <3>1, <3>2, <3>3
  <2> QED
    BY <2>1, <2>2
<1>2. /\ o \in Users /\ \A v \in Users \ {o} : paidOut'[v] = paidOut[v]
      /\ UNCHANGED <<disbursed, collected, stripped, invested>>
  BY WithdrawIs, RefundIs DEF loanVars, capitalVars
<1>3. WalletTypeOK /\ a + 0 = 0 - (0 - a) /\ 0 \in Int /\ 0 - a \in Int
  BY DEF TypeOK
<1>4. /\ available'[o] = t.seen + a /\ rowSum'[o] = rowSum[o] + a
      /\ stale'[o] = (stale[o] \/ ~(t.seen = available[o]))
      /\ \A v \in Users \ {o} : /\ available'[v] = available[v] /\ rowSum'[v] = rowSum[v]
                                /\ stale'[v] = stale[v]
  BY <1>1, <1>2, <1>3 DEF AssignAndPost, WalletTypeOK
<1>5. invested[o] \in Int /\ SumOver(net, LoansOf(o)) \in Int /\ net' = net
  BY <1>2, FiniteLoans, NetSame DEF TypeOK
<1>6. SumOver(net', LoansOf(o)) = SumOver(net, LoansOf(o)) + 0 /\ invested'[o] = invested[o] + 0
  BY <1>2, <1>5
<1>7. \A v \in Users \ {o} : SumOver(net', LoansOf(v)) = SumOver(net, LoansOf(v))
  BY <1>5
<1> HIDE DEF o
<1>8. BooksChange(o, a, 0, 0 - a, 0)
  BY <1>1, <1>2, <1>3, <1>4, <1>5, <1>6, <1>7 DEF BooksChange
<1> QED
  BY <1>2, <1>3, <1>8, BooksMove

\* Capital moved into the investment.
LEMMA AllocateBooks ==
    ASSUME TypeOK, HandlerInv, TypeOK', BooksInv, NEW t \in tasks, AllocateCommits(t)
    PROVE  BooksInv'
<1> DEFINE o == t.p
           a == 0 - t.amount
<1>1. /\ AssignAndPost(o, t.seen, a, t.seen = available[o] /\ t.seenInvested = invested[o])
      /\ o \in Users /\ t.amount \in Nat /\ invested'[o] = t.seenInvested + t.amount
      /\ \A v \in Users \ {o} : invested'[v] = invested[v]
      /\ UNCHANGED <<disbursed, collected, stripped, paidOut>>
  BY AllocateIs DEF loanVars, payoutVars
<1>2. /\ WalletTypeOK /\ a \in Int /\ 0 \in Int /\ t.amount \in Int /\ a + t.amount = 0 - 0
  BY <1>1 DEF TypeOK
<1>3. /\ available'[o] = t.seen + a /\ rowSum'[o] = rowSum[o] + a
      /\ stale'[o] = (stale[o] \/ ~(t.seen = available[o] /\ t.seenInvested = invested[o]))
      /\ \A v \in Users \ {o} : /\ available'[v] = available[v] /\ rowSum'[v] = rowSum[v]
                                /\ stale'[v] = stale[v]
  BY <1>1, <1>2 DEF AssignAndPost, WalletTypeOK
<1>4. paidOut[o] \in Int /\ SumOver(net, LoansOf(o)) \in Int /\ net' = net
  BY <1>1, FiniteLoans, NetSame DEF TypeOK
<1>5. SumOver(net', LoansOf(o)) = SumOver(net, LoansOf(o)) + 0 /\ paidOut'[o] = paidOut[o] + 0
  BY <1>1, <1>4
<1>6. \A v \in Users \ {o} : /\ SumOver(net', LoansOf(v)) = SumOver(net, LoansOf(v))
                             /\ paidOut'[v] = paidOut[v]
  BY <1>1, <1>4
<1> HIDE DEF o, a
<1>7. BooksChange(o, a, t.amount, 0, 0)
  BY <1>1, <1>2, <1>3, <1>4, <1>5, <1>6 DEF BooksChange
<1> QED
  BY <1>1, <1>2, <1>7, BooksMove

\* Capital taken back because of a loan.
LEMMA ClawbackBooks ==
    ASSUME TypeOK, HandlerInv, TypeOK', BooksInv, NEW t \in tasks, ClawbackCommits(t)
    PROVE  BooksInv'
<1> DEFINE o == UserOf(t)
           l == t.p
           i == 0 - t.amount
<1>1. /\ o \in Users /\ l \in LoansOf(o) /\ t.amount \in Nat /\ t.seenInvested \in Nat
      /\ available'[o] = t.seen /\ invested'[o] = t.seenInvested - t.amount
      /\ stale'[o] = (stale[o] \/ t.seen # available[o] \/ t.seenInvested # invested[o])
      /\ \A v \in Users \ {o} :
           available'[v] = available[v] /\ stale'[v] = stale[v] /\ invested'[v] = invested[v]
      /\ stripped'[l] = stripped[l] + t.amount
      /\ \A k \in Loans \ {l} : stripped'[k] = stripped[k]
      /\ UNCHANGED <<rowSum, disbursed, collected, paidOut>>
  BY ClawbackIs DEF loanVars, payoutVars
<1>0. l \in Loans /\ SumOver(net, LoansOf(o)) \in Int
  BY <1>1, FiniteLoans
<1>2. /\ available[o] \in Int /\ invested[o] \in Int /\ rowSum[o] \in Int /\ paidOut[o] \in Int
      /\ SumOver(net, LoansOf(o)) \in Int /\ l \in Loans /\ stripped[l] \in Int
  BY <1>0, <1>1 DEF TypeOK, WalletTypeOK
<1>3. /\ i \in Int /\ 0 \in Int /\ 0 + i = i - 0
      /\ rowSum'[o] = rowSum[o] + 0 /\ paidOut'[o] = paidOut[o] + 0
  BY <1>1, <1>2
<1>4. ~stale'[o] => /\ ~stale[o] /\ available'[o] = available[o] + 0
                    /\ invested'[o] = invested[o] + i
  <2>1. \A x, y \in Int : x - y = x + (0 - y) /\ x + 0 = x
    OBVIOUS
  <2>2. ~stale'[o] => /\ ~stale[o] /\ t.seen = available[o] /\ t.seenInvested = invested[o]
    BY <1>1
  <2>3. invested[o] - t.amount = invested[o] + i /\ available[o] + 0 = available[o]
    BY <1>1, <1>2, <2>1
  <2> HIDE DEF i
  <2> QED
    BY <1>1, <2>2, <2>3
<1>5. net'[l] = net[l] + i
  <2>1. /\ disbursed[l] \in Nat /\ collected[l] \in Nat
        /\ Principal[l] \in Nat /\ TotalDue(l) \in Nat
    BY <1>2, DueNat DEF TypeOK
  <2>2. /\ net[l] = disbursed[l] * Principal[l] - collected[l] * TotalDue(l) - stripped[l]
        /\ net'[l] = disbursed[l] * Principal[l] - collected[l] * TotalDue(l) - stripped'[l]
        /\ disbursed[l] * Principal[l] \in Int /\ collected[l] * TotalDue(l) \in Int
    BY <1>1, <1>2, <2>1, NetInt DEF net, TotalDue
  <2> QED
    BY <1>1, <1>2, <2>2
<1>6. /\ SumOver(net', LoansOf(o)) = SumOver(net, LoansOf(o)) + i
      /\ \A v \in Users \ {o} : SumOver(net', LoansOf(v)) = SumOver(net, LoansOf(v))
  BY <1>1, <1>3, <1>5, NetMoves
<1>7. \A v \in Users \ {o} : rowSum'[v] = rowSum[v] /\ paidOut'[v] = paidOut[v]
  BY <1>1
<1> HIDE DEF o, l, i
<1>8. BooksChange(o, 0, i, 0, i)
  BY <1>1, <1>2, <1>3, <1>4, <1>6, <1>7 DEF BooksChange
<1> QED
  BY <1>1, <1>3, <1>8, BooksMove

-----------------------------------------------------------------------------
\* The books balance at first ...
LEMMA InitBooks == Init => BooksInv
<1> SUFFICES ASSUME Init, NEW u \in Users PROVE BooksOf(u)
  BY DEF BooksInv
<1>1. \A l \in LoansOf(u) : net[l] = 0
  <2>1. ASSUME NEW l \in Loans PROVE net[l] = 0
    <3>1. Principal[l] \in Nat /\ TotalDue(l) \in Nat
      BY DueNat
    <3>2. 0 * Principal[l] - 0 * TotalDue(l) - 0 = 0
      BY <3>1
    <3> QED
      BY <3>2 DEF Init, net
  <2> QED
    BY <2>1 DEF LoansOf
<1>2. IsFiniteSet(LoansOf(u))
  BY LoanAssumption, FS_Subset DEF LoansOf
<1>3. SumOver(net, LoansOf(u)) = 0
  BY <1>1, <1>2, SumOverZero
<1>4. /\ rowSum[u] = 0 /\ paidOut[u] = 0 /\ available[u] = Opening[u] /\ invested[u] = Capital[u]
      /\ Opening[u] \in Nat /\ Capital[u] \in Nat
  BY OpeningAssumption, LoanAssumption DEF Init, WalletInit
<1> QED
  BY <1>3, <1>4 DEF BooksOf

\* ... and every step keeps them: most touch neither wallets nor sums.
LEMMA StepBooks == TypeOK /\ HandlerInv /\ TypeOK' /\ BooksInv /\ [Next]_vars => BooksInv'
<1> SUFFICES ASSUME TypeOK, HandlerInv, TypeOK', BooksInv, [Next]_vars PROVE BooksInv'
  OBVIOUS
<1>1. ASSUME UNCHANGED <<walletVars, disbursed, collected, stripped, invested, paidOut>>
      PROVE  BooksInv'
  <2>1. net' = net
    BY <1>1, NetSame
  <2> QED
    BY <1>1, <2>1 DEF BooksInv, BooksOf, walletVars, LoansOf
<1>2. CASE UNCHANGED vars
  BY <1>1, <1>2 DEF vars, loanVars, payoutVars, capitalVars
<1>3. ASSUME NEW t \in Task, Begins(t) PROVE BooksInv'
  BY <1>1, <1>3 DEF Begins, loanVars, payoutVars, capitalVars
<1>4. ASSUME NEW t \in tasks, Reads(t) \/ RecordCommits(t) \/ Crash(t) PROVE BooksInv'
  BY <1>1, <1>4, ReadsAre, RecordIs DEF Crash, loanVars, payoutVars, capitalVars
<1>5. ASSUME NEW t \in tasks, NEW s \in Statuses, Sets(t, s) PROVE BooksInv'
  BY <1>1, <1>5, SetsAre DEF payoutVars
<1>6. ASSUME NEW t \in tasks, Pays(t) PROVE BooksInv'
  BY <1>6, LendsBooks, PayoutBooks, AllocateBooks, ClawbackBooks DEF Pays
<1> QED
  BY <1>2, <1>3, <1>4, <1>5, <1>6, NextIs

\* A wallet and an investment none of whose writes were stale are what the loans,
\* the withdrawals and the capital moves made of them; for any number of loans.
THEOREM LoanBooks == Spec => []BooksFollowLoans
<1>1. BooksInv => BooksFollowLoans
  BY DEF BooksInv, BooksOf, BooksFollowLoans
<1>2. IInv => TypeOK /\ HandlerInv
  BY DEF IInv
<1> QED
  BY <1>1, <1>2, InitBooks, StepBooks, SpecInv, PTL DEF Spec

=============================================================================
