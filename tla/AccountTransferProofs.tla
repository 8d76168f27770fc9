------------------------- MODULE AccountTransferProofs -------------------------
(***************************************************************************)
(* Proofs about AccountTransfer, for any set of users, codes, accounts and *)
(* workers, any amounts and balances, and whichever processes die.         *)
(*                                                                         *)
(* Three kinds of handlers share the wallets: those of a code, which work  *)
(* on its row; those of the reserve; and those of an account transfer,     *)
(* which work on the row of the source account.                            *)
(***************************************************************************)
EXTENDS AccountTransfer, WalletLemmas

\* The handlers at work on a row.
Handling(r) == {t \in tasks : t.p = r}

CodeSteps == {"supersede", "create", "mail", "wrong", "pay", "consume", "withdraw", "debit"}
HoldSteps == {"seed", "sweep", "release"}
ReviewSteps == {"offer", "invite", "agree", "cancel", "apply", "merge", "complete"}

\* What a handler works on, and what it has read that its write relies on.
Formed(t) ==
    /\ t.at \in CodeSteps => t.p \in Codes /\ t.user = From[t.p] /\ t.about = {}
    /\ t.at \in HoldSteps => t.p = "reserve" /\ t.about = {}
    /\ t.at \in ReviewSteps => \E a \in Accounts : t.about = {a} /\ t.p = Source[a]
    /\ t.at = "pay" => t.p \in TransferCodes
    /\ t.at \in {"consume", "withdraw", "debit"} => t.p \in WithdrawCodes
    /\ t.at = "debit" => t.seen >= CodeAmount[t.p]
    /\ t.at = "seed" => t.amount = Gross(t.user) /\ t.other = 0
    /\ t.at = "sweep" => t.amount = t.seen
    /\ t.at = "release" => t.amount <= t.other

HandlerInv == \A t \in tasks : Formed(t)

Requesting == {"supersede", "create"}

\* A code that does not exist yet has not paid, and nobody works on it but the one
\* request that is about to create it; the code of a transfer pays once at most.
CodeFits(c) ==
    /\ code[c] = "none" => spent[c] = 0 /\ \A t \in Handling(c) : t.at \in Requesting
    /\ \A t \in Handling(c) : t.at \in Requesting => code[c] = "none" /\ Handling(c) = {t}
    /\ c \in TransferCodes => spent[c] <= 1

\* The code of a withdrawal whose handlers did not overlap is used before it pays,
\* and pays once at most.
PaysOnce(c) == c \in WithdrawCodes /\ ~disturbed[c] =>
    /\ \A t \in Handling(c) : Handling(c) = {t}
    /\ spent[c] <= 1
    /\ code[c] # "used" => spent[c] = 0
    /\ \A t \in Handling(c) :
         /\ t.at \in {"consume", "withdraw", "debit"} => spent[c] = 0
         /\ t.at \in {"withdraw", "debit"} => code[c] = "used"

CodeInv == \A c \in Codes : CodeFits(c) /\ PaysOnce(c)

\* The account transfers of a source account.
Of(u) == {a \in Accounts : Source[a] = u}

\* A transfer that is open, or that a handler works on.
Live(u, a) == IsOpen(a) \/ \E t \in Handling(u) : a \in t.about

\* What the status of a transfer says of the merger and of the source account.
Merged(u, a) ==
    /\ acct[a] = "COMPLETED" => merged[a] = 1 /\ userStatus[u] = "BANNED"
    /\ acct[a] = "IN_REVIEW" =>
         /\ userStatus[u] # "ACTIVE"
         /\ merged[a] = 0 \/ \E t \in Handling(u) : a \in t.about /\ t.at = "complete"
    /\ acct[a] \in {"none", "PENDING_USER", "CANCELLED", "FAILED"} => merged[a] = 0
    /\ acct[a] = "PENDING_USER" => userStatus[u] # "BANNED"

\* What a handler of a transfer found is still so.
Found(u, t, a) ==
    /\ t.at = "offer" => acct[a] = "none" /\ userStatus[u] # "BANNED"
    /\ t.at \in {"invite", "agree", "cancel"} => acct[a] = "PENDING_USER"
    /\ t.at \in {"apply", "merge"} => acct[a] = "IN_REVIEW" /\ merged[a] = 0
    /\ t.at = "complete" =>
         acct[a] = "IN_REVIEW" /\ merged[a] = 1 /\ userStatus[u] = "BANNED"

\* A source account whose handlers did not overlap, and none of which died after
\* a merger, has one handler and one transfer going on at a time.
SourceFits(u) == ~disturbed[u] =>
    /\ \A t \in Handling(u) : Handling(u) = {t}
    /\ \A a, b \in Of(u) : Live(u, a) /\ Live(u, b) => a = b
    /\ \A a \in Of(u) : Merged(u, a)
    /\ \A t \in Handling(u) : \A a \in t.about : Found(u, t, a)

SourceInv == \A u \in Users : SourceFits(u)

\* The books, with every payment of a code, also a second one.
paidFor == [c \in WithdrawCodes |-> CodeAmount[c] * spent[c]]

Books ==
    (\A u \in Users : ~stale[u]) =>
        Total(available) + Total(reserve)
            = Total(Opening) + Total(minted) - SumOver(paidFor, WithdrawCodes)

Typed == TypeOK /\ HandlerInv

-----------------------------------------------------------------------------
\* What handlers do on their row, and what that leaves alone.
Elsewhere(r) ==
    \A q \in Rows \ {r} : Handling(q)' = Handling(q) /\ disturbed'[q] = disturbed[q]

\* The pool stays well-formed, and no handler comes to a payment on its way.
PoolKept == tasks' \subseteq Handler /\ disturbed' \in [Rows -> BOOLEAN] /\ HandlerInv'

LEMMA PoolStarts ==
    ASSUME Typed, NEW t \in Handler, Formed(t), StartWith(t)
    PROVE  /\ PoolKept /\ Elsewhere(t.p)
           /\ tasks' = tasks \cup {t} /\ Handling(t.p)' = Handling(t.p) \cup {t}
           /\ ~disturbed'[t.p] => ~disturbed[t.p] /\ Handling(t.p) = {}
<1>1. t.p \in Rows
  BY DEF Handler
<1>2. disturbed' = [disturbed EXCEPT ![t.p] = @ \/ Running(t.p)] /\ tasks' = tasks \cup {t}
  BY DEF StartWith
<1>3. Running(t.p) \in BOOLEAN /\ (Handling(t.p) # {} => Running(t.p))
  BY DEF Running, Handling
<1>4. tasks' \subseteq Handler /\ disturbed' \in [Rows -> BOOLEAN]
  BY <1>1, <1>2, <1>3 DEF Typed, TypeOK
<1>5. disturbed'[t.p] = (disturbed[t.p] \/ Running(t.p))
  BY <1>1, <1>2 DEF Typed, TypeOK
<1>6. Handling(t.p)' = Handling(t.p) \cup {t} /\ Elsewhere(t.p)
  BY <1>1, <1>2 DEF Handling, Typed, TypeOK, Elsewhere
<1>7. HandlerInv'
  BY <1>2 DEF Typed, HandlerInv, Formed, Gross
<1> QED
  BY <1>2, <1>3, <1>4, <1>5, <1>6, <1>7 DEF PoolKept

LEMMA PoolMoves ==
    ASSUME Typed, NEW t \in tasks, NEW u \in Handler, Formed(u), u.p = t.p, Continue(t, u)
    PROVE  /\ PoolKept /\ Elsewhere(t.p)
           /\ tasks' = (tasks \ {t}) \cup {u} /\ disturbed' = disturbed
           /\ Handling(t.p)' = (Handling(t.p) \ {t}) \cup {u}
<1>1. tasks' = (tasks \ {t}) \cup {u} /\ disturbed' = disturbed
  BY DEF Continue
<1>2. HandlerInv'
  BY <1>1 DEF Typed, HandlerInv, Formed, Gross
<1> QED
  BY <1>1, <1>2 DEF Typed, TypeOK, Handling, PoolKept, Elsewhere

LEMMA PoolEnds ==
    ASSUME Typed, NEW t \in tasks, Return(t) \/ LoseTrack(t)
    PROVE  /\ PoolKept /\ Elsewhere(t.p) /\ tasks' = tasks \ {t}
           /\ Handling(t.p)' = Handling(t.p) \ {t}
           /\ IF Return(t) THEN disturbed' = disturbed ELSE disturbed'[t.p]
<1>1. t.p \in Rows /\ tasks' = tasks \ {t}
  BY DEF Typed, TypeOK, Handler, Return, LoseTrack
<1>2. HandlerInv'
  BY <1>1 DEF Typed, HandlerInv, Formed, Gross
<1> QED
  BY <1>1, <1>2 DEF Typed, TypeOK, Return, LoseTrack, Handling, PoolKept, Elsewhere

-----------------------------------------------------------------------------
\* The rows of codes, of users and of the reserve are different ones.
LEMMA OfCode ==
    ASSUME Typed, NEW t \in tasks, t.at \in CodeSteps
    PROVE  /\ t \in Handler /\ t.p \in Codes /\ t.p \in Rows /\ t.p \notin Users
           /\ t.user = From[t.p] /\ t.user \in Users /\ CodeAmount[t.p] \in Nat
           /\ t.at = "pay" => t.p \in TransferCodes
           /\ t.at \in {"consume", "withdraw", "debit"} => t.p \in WithdrawCodes
           /\ t.at = "debit" => t.seen >= CodeAmount[t.p]
BY AccountAssumption, CodeAssumption DEF Typed, TypeOK, Handler, HandlerInv, Formed

LEMMA OfReserve ==
    ASSUME Typed, NEW t \in tasks, t.at \in HoldSteps
    PROVE  /\ t \in Handler /\ t.p \in Rows /\ t.p \notin Users /\ t.p \notin Codes
           /\ t.user \in Users
           /\ t.at = "seed" => t.amount = Gross(t.user) /\ t.other = 0
           /\ t.at = "sweep" => t.amount = t.seen
           /\ t.at = "release" => t.amount <= t.other
BY AccountAssumption DEF Typed, TypeOK, Handler, HandlerInv, Formed

LEMMA OfReview ==
    ASSUME Typed, NEW t \in tasks, t.at \in ReviewSteps, NEW a \in t.about
    PROVE  /\ t \in Handler /\ a \in Accounts /\ t.about = {a} /\ t.p = Source[a]
           /\ t.p \in Users /\ t.p \in Rows /\ t.p \notin Codes
           /\ Destination[a] \in Users /\ Destination[a] # Source[a]
<1>1. Formed(t) /\ t \in Handler
  BY DEF Typed, TypeOK, HandlerInv
<1>2. PICK b \in Accounts : t.about = {b} /\ t.p = Source[b]
  BY <1>1 DEF Formed
<1> QED
  BY <1>1, <1>2, AccountAssumption

-----------------------------------------------------------------------------
\* The steps a handler may go on to.
Pairs == {<<"supersede", "create">>, <<"create", "mail">>, <<"consume", "withdraw">>,
          <<"withdraw", "debit">>, <<"offer", "invite">>, <<"apply", "merge">>,
          <<"merge", "complete">>}

\* A handler t goes on as u.
GoesOn(t, u) ==
    /\ Continue(t, u) /\ Formed(u) /\ <<t.at, u.at>> \in Pairs
    /\ u.p = t.p /\ u.about = t.about

LEMMA Goes ==
    ASSUME Typed, NEW t \in tasks, NEW s \in Steps, NEW n \in Nat, NEW m \in Nat,
           <<t.at, s>> \in Pairs, s = "debit" => n >= CodeAmount[t.p],
           Continue(t, [t EXCEPT !.at = s, !.seen = n, !.other = m])
    PROVE  \E u \in Handler : GoesOn(t, u) /\ u.at = s
<1> DEFINE u == [t EXCEPT !.at = s, !.seen = n, !.other = m]
<1>1. t \in Handler /\ Formed(t)
  BY DEF Typed, TypeOK, HandlerInv
<1>2. /\ u \in Handler /\ u.p = t.p /\ u.about = t.about /\ u.at = s /\ u.user = t.user
      /\ u.seen = n /\ u.other = m
  BY <1>1 DEF Handler
<1>3. Continue(t, u)
  OBVIOUS
<1> HIDE DEF u
<1>4. Formed(u)
  BY <1>1, <1>2 DEF Formed, Pairs, CodeSteps, HoldSteps, ReviewSteps
<1> QED
  BY <1>2, <1>3, <1>4 DEF GoesOn

LEMMA Moves ==
    ASSUME Typed, NEW t \in tasks, NEW s \in Steps \ {"debit"}, <<t.at, s>> \in Pairs, Move(t, s)
    PROVE  \E u \in Handler : GoesOn(t, u) /\ u.at = s
<1>1. t \in Handler
  BY DEF Typed, TypeOK
<1>2. t.seen \in Nat /\ t.other \in Nat
      /\ [t EXCEPT !.at = s] = [t EXCEPT !.at = s, !.seen = t.seen, !.other = t.other]
  BY <1>1 DEF Handler
<1> QED
  BY <1>2, Goes DEF Move

LEMMA MovesSeeing ==
    ASSUME Typed, NEW t \in tasks, NEW n \in Nat, t.at = "withdraw", n >= CodeAmount[t.p],
           Continue(t, [t EXCEPT !.at = "debit", !.seen = n])
    PROVE  \E u \in Handler : GoesOn(t, u) /\ u.at = "debit"
<1>1. t \in Handler
  BY DEF Typed, TypeOK
<1>2. t.other \in Nat
      /\ [t EXCEPT !.at = "debit", !.seen = n]
           = [t EXCEPT !.at = "debit", !.seen = n, !.other = t.other]
  BY <1>1 DEF Handler
<1>3. Continue(t, [t EXCEPT !.at = "debit", !.seen = n, !.other = t.other])
  BY <1>2
<1>4. <<t.at, "debit">> \in Pairs /\ "debit" \in Steps
  BY DEF Pairs, Steps
<1> QED
  BY <1>2, <1>3, <1>4, Goes

-----------------------------------------------------------------------------
\* The steps handlers start at, and what they have checked by then.
Entries == {"supersede", "wrong", "pay", "consume"} \cup HoldSteps
           \cup {"offer", "agree", "cancel", "apply"}

Ready(t) ==
    /\ t.at \in Entries
    /\ t.at = "supersede" => code[t.p] = "none" /\ ~Running(t.p)
    /\ t.at \in {"wrong", "pay", "consume"} => Valid(t.p)
    /\ \A a \in t.about :
         /\ t.at = "offer" =>
              /\ acct[a] = "none" /\ userStatus[t.p] # "BANNED"
              /\ \A b \in Of(t.p) : ~IsOpen(b)
         /\ t.at \in {"agree", "cancel"} => acct[a] = "PENDING_USER"
         /\ t.at = "apply" => acct[a] = "IN_REVIEW"

Begins(t) ==
    /\ StartWith(t) /\ Formed(t) /\ Ready(t)
    /\ UNCHANGED <<walletVars, transferVars, reserveVars, accountVars>>

LEMMA CodeBegins ==
    ASSUME Typed, NEW w \in Workers, TransferStarts(w),
           UNCHANGED <<reserveVars, accountVars>>
    PROVE  \E t \in Handler : Begins(t)
<1>1. PICK c \in Codes : RequestReads(w, c) \/ ConfirmReads(w, c)
  BY DEF TransferStarts
<1>2. From[c] \in Users /\ c \in Rows
  BY AccountAssumption, CodeAssumption
<1>3. UNCHANGED <<walletVars, transferVars, reserveVars, accountVars>>
  BY <1>1 DEF RequestReads, ConfirmReads
<1>4. ASSUME NEW s \in {"supersede", "wrong", "pay", "consume"}
      PROVE  LET t == Task(w, c, From[c], s)
             IN  t \in Handler /\ t.p = c /\ t.at = s /\ t.user = From[c] /\ t.about = {}
  BY <1>2 DEF Task, Handler, Steps, Typed, TypeOK, WalletTypeOK
<1>5. CASE RequestReads(w, c)
  <2> DEFINE t == Task(w, c, From[c], "supersede")
  <2>1. t \in Handler /\ t.p = c /\ t.at = "supersede" /\ t.user = From[c] /\ t.about = {}
    BY <1>4
  <2>2. StartWith(t) /\ code[c] = "none" /\ ~Running(c)
    BY <1>5 DEF RequestReads
  <2> HIDE DEF t
  <2> QED
    BY <1>3, <2>1, <2>2
       DEF Begins, Formed, Ready, Entries, CodeSteps, HoldSteps, ReviewSteps
<1>6. CASE ConfirmReads(w, c)
  <2>1. PICK s \in Verdicts(c) : StartWith(Task(w, c, From[c], s)) /\ Valid(c)
    BY <1>6 DEF ConfirmReads
  <2>2. /\ s \in {"wrong", "pay", "consume"}
        /\ s = "pay" => c \in TransferCodes
        /\ s = "consume" => c \in WithdrawCodes
    BY DEF Verdicts, WithdrawCodes
  <2> DEFINE t == Task(w, c, From[c], s)
  <2>3. t \in Handler /\ t.p = c /\ t.at = s /\ t.user = From[c] /\ t.about = {}
    BY <1>4, <2>2
  <2>4. StartWith(t)
    BY <2>1
  <2> HIDE DEF t
  <2> QED
    BY <1>3, <2>1, <2>2, <2>3, <2>4
       DEF Begins, Formed, Ready, Entries, CodeSteps, HoldSteps, ReviewSteps
<1> QED
  BY <1>1, <1>5, <1>6

LEMMA ReserveBegins ==
    ASSUME Typed, NEW w \in Workers, ReserveStarts(w),
           UNCHANGED <<transferVars, accountVars>>
    PROVE  \E t \in Handler : Begins(t)
<1>1. PICK u \in Users : SeedReads(w, u) \/ SweepReads(w, u) \/ ReleaseReads(w, u)
  BY DEF ReserveStarts
<1>2. UNCHANGED <<walletVars, transferVars, reserveVars, accountVars>>
  BY <1>1 DEF SeedReads, SweepReads, ReleaseReads
<1>3. PICK s \in HoldSteps, n \in Nat :
        /\ Reserving(w, u, s, n)
        /\ s = "seed" => n = Gross(u) /\ reserve[u] = 0
        /\ s = "sweep" => n = available[u]
        /\ s = "release" => n <= reserve[u]
  <2>1. available[u] \in Nat /\ Gross(u) \in Nat /\ ReleaseAmounts \subseteq Nat
    BY ReserveAssumption DEF Typed, TypeOK, WalletTypeOK, Gross
  <2> QED
    BY <1>1, <2>1 DEF SeedReads, SweepReads, ReleaseReads, HoldSteps
<1> DEFINE t == [worker |-> w, p |-> "reserve", at |-> s, user |-> u,
                 seen |-> available[u], other |-> reserve[u], about |-> {}, amount |-> n]
<1>4. /\ t \in Handler /\ t.p = "reserve" /\ t.at = s /\ t.user = u /\ t.about = {}
      /\ t.seen = available[u] /\ t.other = reserve[u] /\ t.amount = n
  BY AccountAssumption
     DEF Handler, Steps, HoldSteps, Typed, TypeOK, WalletTypeOK, ReserveTypeOK
<1>5. StartWith(t)
  BY <1>3 DEF Reserving
<1> HIDE DEF t
<1> QED
  BY <1>2, <1>3, <1>4, <1>5
     DEF Begins, Formed, Ready, Entries, CodeSteps, HoldSteps, ReviewSteps

LEMMA AccountBegins ==
    ASSUME Typed, NEW w \in Workers, AccountStarts(w),
           UNCHANGED <<walletVars, transferVars, reserveVars>>
    PROVE  \E t \in Handler : Begins(t)
<1>1. PICK a \in Accounts :
        CreateReads(w, a) \/ AgreeReads(w, a) \/ CancelReads(w, a) \/ FinalizeReads(w, a)
  BY DEF AccountStarts
<1>2. Source[a] \in Users /\ Source[a] \in Rows
  BY AccountAssumption
<1>3. PICK s \in {"offer", "agree", "cancel", "apply"} :
        /\ Starts(w, a, s) /\ UNCHANGED accountVars
        /\ s = "offer" =>
             /\ acct[a] = "none" /\ userStatus[Source[a]] # "BANNED"
             /\ \A b \in Of(Source[a]) : ~IsOpen(b)
        /\ s \in {"agree", "cancel"} => acct[a] = "PENDING_USER"
        /\ s = "apply" => acct[a] = "IN_REVIEW"
  <2>1. CASE CreateReads(w, a)
    <3>1. userStatus[Source[a]] # "BANNED" /\ \A b \in Of(Source[a]) : ~IsOpen(b)
      BY <2>1 DEF CreateReads, Parties, Of
    <3> QED
      BY <2>1, <3>1 DEF CreateReads
  <2>2. CASE AgreeReads(w, a) \/ CancelReads(w, a) \/ FinalizeReads(w, a)
    BY <2>2 DEF AgreeReads, CancelReads, FinalizeReads
  <2> QED
    BY <1>1, <2>1, <2>2
<1> DEFINE t == [Task(w, Source[a], Source[a], s) EXCEPT !.about = {a}]
<1>4. t \in Handler /\ t.p = Source[a] /\ t.at = s /\ t.about = {a}
  BY <1>2 DEF Task, Handler, Steps, Typed, TypeOK, WalletTypeOK
<1>5. StartWith(t)
  BY <1>3 DEF Starts
<1> HIDE DEF t
<1> QED
  BY <1>3, <1>4, <1>5
     DEF Begins, Formed, Ready, Entries, CodeSteps, HoldSteps, ReviewSteps

LEMMA StartBegins ==
    ASSUME Typed, NEW w \in Workers, Start(w)
    PROVE  left' \in 0 .. MaxStarts /\ \E t \in Handler : Begins(t)
<1>1. left' \in 0 .. MaxStarts
  BY AccountAssumption DEF Typed, TypeOK, Start
<1> QED
  BY <1>1, CodeBegins, ReserveBegins, AccountBegins DEF Start

-----------------------------------------------------------------------------
\* Every step of a handler ends it, or leads to its next step.
Passes(t) == Return(t) \/ \E u \in Handler : GoesOn(t, u)

LEMMA CodePasses ==
    ASSUME Typed, NEW t \in tasks, TransferSteps(t)
    PROVE  t.at \in CodeSteps /\ Passes(t)
<1>1. CASE Supersedes(t) \/ Creates(t) \/ Consumes(t)
  <2>1. PICK s \in {"create", "mail", "withdraw"} : <<t.at, s>> \in Pairs /\ Move(t, s)
    BY <1>1 DEF Supersedes, Creates, Consumes, At, Pairs
  <2>2. s \in Steps \ {"debit"}
    BY DEF Steps
  <2> QED
    BY <1>1, <2>1, <2>2, Moves DEF Passes, Supersedes, Creates, Consumes, At, CodeSteps
<1>2. CASE WithdrawReads(t)
  <2>1. t.at = "withdraw"
    BY <1>2 DEF WithdrawReads, At
  <2>2. t.user = From[t.p] /\ t.user \in Users /\ t.at \in CodeSteps
    BY <2>1, OfCode DEF CodeSteps
  <2>3. available[t.user] \in Nat
    BY <2>2 DEF Typed, TypeOK, WalletTypeOK
  <2>4. CASE CanPay(t.p)
    BY <1>2, <2>1, <2>2, <2>3, <2>4, MovesSeeing DEF WithdrawReads, CanPay, Passes
  <2>5. CASE ~CanPay(t.p)
    BY <1>2, <2>2, <2>5 DEF WithdrawReads, Passes
  <2> QED
    BY <2>4, <2>5
<1>3. CASE Mails(t) \/ WrongCode(t) \/ TransferRefused(t) \/ TransferCommits(t)
           \/ WithdrawCommits(t)
  BY <1>3 DEF Mails, WrongCode, TransferRefused, TransferCommits, WithdrawCommits, At,
              CodeSteps, Passes
<1> QED
  BY <1>1, <1>2, <1>3 DEF TransferSteps

LEMMA ReservePasses ==
    ASSUME Typed, NEW t \in tasks, ReserveSteps(t)
    PROVE  t.at \in HoldSteps /\ Return(t)
BY DEF ReserveSteps, SeedCommits, SweepCommits, ReleaseCommits, Hold, At, HoldSteps

LEMMA AccountPasses ==
    ASSUME Typed, NEW t \in tasks, AccountSteps(t)
    PROVE  t.at \in ReviewSteps /\ Passes(t)
<1>1. PICK a \in t.about :
        \/ Offers(t, a) \/ Invites(t, a) \/ AgreeCommits(t, a) \/ CancelCommits(t, a)
        \/ ApplyReads(t, a) \/ ApplyCommits(t, a) \/ ApplyFails(t, a)
        \/ CompleteCommits(t, a)
  BY DEF AccountSteps
<1>2. CASE Offers(t, a) \/ ApplyCommits(t, a)
  <2>1. PICK s \in {"invite", "complete"} : <<t.at, s>> \in Pairs /\ Move(t, s)
    BY <1>2 DEF Offers, ApplyCommits, At, Pairs
  <2>2. s \in Steps \ {"debit"}
    BY DEF Steps
  <2> QED
    BY <1>2, <2>1, <2>2, Moves DEF Passes, Offers, ApplyCommits, At, ReviewSteps
<1>3. CASE ApplyReads(t, a)
  <2>1. t.at = "apply" /\ t.at \in ReviewSteps
    BY <1>3 DEF ApplyReads, At, ReviewSteps
  <2>2. available[Source[a]] \in Nat /\ available[Destination[a]] \in Nat
    BY <2>1, OfReview DEF Typed, TypeOK, WalletTypeOK
  <2>3. <<t.at, "merge">> \in Pairs /\ "merge" \in Steps
    BY <2>1 DEF Pairs, Steps
  <2>4. Continue(t, [t EXCEPT !.at = "merge", !.seen = available[Source[a]],
                              !.other = available[Destination[a]]])
    BY <1>3 DEF ApplyReads
  <2> QED
    BY <2>1, <2>2, <2>3, <2>4, Goes DEF Passes
<1>4. CASE Invites(t, a) \/ AgreeCommits(t, a) \/ CancelCommits(t, a) \/ ApplyFails(t, a)
           \/ CompleteCommits(t, a)
  BY <1>4 DEF Invites, AgreeCommits, CancelCommits, ApplyFails, CompleteCommits, At,
              ReviewSteps, Passes
<1> QED
  BY <1>1, <1>2, <1>3, <1>4

\* However a step goes, it leaves the pool well-formed and the other rows alone.
LEMMA PassKeeps ==
    ASSUME Typed, NEW t \in tasks, Passes(t) \/ LoseTrack(t)
    PROVE  /\ PoolKept /\ Elsewhere(t.p)
           /\ \A s \in tasks' : s.at = "pay" => s \in tasks
<1>1. CASE Return(t) \/ LoseTrack(t)
  BY <1>1, PoolEnds
<1>2. ASSUME NEW u \in Handler, GoesOn(t, u)
      PROVE  /\ PoolKept /\ Elsewhere(t.p)
             /\ \A s \in tasks' : s.at = "pay" => s \in tasks
  <2>1. PoolKept /\ Elsewhere(t.p) /\ tasks' = (tasks \ {t}) \cup {u}
    BY <1>2, PoolMoves DEF GoesOn
  <2>2. u.at # "pay"
    BY <1>2 DEF GoesOn, Pairs
  <2> QED
    BY <2>1, <2>2
<1> QED
  BY <1>1, <1>2 DEF Passes

LEMMA CrashPasses ==
    ASSUME NEW t \in tasks, Crash(t)
    PROVE  Passes(t) \/ LoseTrack(t)
BY DEF Crash, Passes

LEMMA StepPasses ==
    ASSUME Typed, NEW t \in tasks, Step(t)
    PROVE  Passes(t) \/ LoseTrack(t)
BY CodePasses, ReservePasses, AccountPasses, CrashPasses DEF Step, Passes

-----------------------------------------------------------------------------
\* The columns after a step.
Columns ==
    /\ WalletTypeOK /\ TransferTypeOK /\ ReserveTypeOK
    /\ acct \in [Accounts -> Statuses] /\ merged \in [Accounts -> Nat]

LEMMA Posts ==
    ASSUME WalletTypeOK, NEW u \in Users, NEW seen \in Nat, NEW n \in Int, seen + n \in Nat,
           NEW intact \in BOOLEAN, AssignAndPost(u, seen, n, intact)
    PROVE  /\ WalletTypeOK'
           /\ available' = [available EXCEPT ![u] = seen + n]
           /\ ~stale'[u] => intact
           /\ \A v \in Users : ~stale'[v] => ~stale[v]
<1>1. WalletTypeOK'
  BY DEF AssignAndPost, WalletTypeOK
<1> QED
  BY <1>1 DEF AssignAndPost, WalletTypeOK

\* A transfer that commits takes from one user what it gives to the other.
MovesFor(f, c) ==
    [f EXCEPT ![From[c]] = @ - CodeAmount[c], ![To[c]] = @ + CodeAmount[c]]

LEMMA CommitIs ==
    ASSUME Typed, NEW t \in tasks, TransferCommits(t)
    PROVE  /\ t.p \in TransferCodes /\ t.p \in Codes /\ spent[t.p] = 0
           /\ From[t.p] \in Users /\ To[t.p] \in Users /\ From[t.p] # To[t.p]
           /\ CodeAmount[t.p] \in Nat /\ available[From[t.p]] >= CodeAmount[t.p]
           /\ available' = MovesFor(available, t.p)
           /\ transferred' = MovesFor(transferred, t.p)
           /\ rowSum' = MovesFor(rowSum, t.p)
           /\ spent' = [spent EXCEPT ![t.p] = @ + 1]
           /\ code' = [code EXCEPT ![t.p] = "used"]
           /\ t.at = "pay" /\ Return(t)
           /\ UNCHANGED <<stale, userStatus, age, attempts>>
<1>1. t.at = "pay" /\ t.p \in Codes /\ t.p \in TransferCodes
  BY OfCode DEF TransferCommits, At, CodeSteps
<1>2. From[t.p] \in Users /\ To[t.p] \in Users /\ From[t.p] # To[t.p] /\ CodeAmount[t.p] \in Nat
  BY <1>1, CodeAssumption
<1>3. spent[t.p] = 0 /\ available[From[t.p]] >= CodeAmount[t.p]
  BY <1>1, <1>2
     DEF TransferCommits, Refused, CanPay, Typed, TypeOK, TransferTypeOK, WalletTypeOK
<1> QED
  BY <1>1, <1>2, <1>3 DEF TransferCommits, MovesFor

LEMMA CodeColumns ==
    ASSUME Typed, NEW t \in tasks, TransferSteps(t), UNCHANGED <<reserveVars, accountVars>>
    PROVE  Columns'
<1>1. Columns
  BY DEF Typed, TypeOK, Columns
<1>2. ReserveTypeOK' /\ acct' \in [Accounts -> Statuses] /\ merged' \in [Accounts -> Nat]
  BY <1>1 DEF Columns, ReserveTypeOK, reserveVars, accountVars
<1>3. t.at \in CodeSteps
  BY CodePasses
<1>4. t.p \in Codes /\ t.user \in Users /\ t.user = From[t.p] /\ t \in Handler
      /\ CodeAmount[t.p] \in Nat
  BY <1>3, OfCode
<1>5. CASE TransferCommits(t)
  <2>1. WalletTypeOK'
    <3>1. available' \in [Users -> Nat] /\ rowSum' \in [Users -> Int]
      BY <1>1, <1>5, CommitIs DEF Columns, WalletTypeOK, MovesFor
    <3>2. balanceAfter' \in [Users -> Int]
      <4>1. available'[From[t.p]] \in Int /\ available'[To[t.p]] \in Int
        BY <1>5, <3>1, CommitIs
      <4> QED
        BY <1>1, <1>5, <4>1 DEF TransferCommits, Columns, WalletTypeOK
    <3>3. stale' \in [Users -> BOOLEAN]
      BY <1>1, <1>5, CommitIs DEF Columns, WalletTypeOK
    <3> QED
      BY <3>1, <3>2, <3>3 DEF WalletTypeOK
  <2>2. transferred' \in [Users -> Int]
    BY <1>1, <1>5, CommitIs DEF Columns, TransferTypeOK, MovesFor
  <2>3. spent' \in [Codes -> Nat] /\ code' \in [Codes -> {"none", "open", "used"}]
    BY <1>1, <1>5, CommitIs DEF Columns, TransferTypeOK
  <2>4. TransferTypeOK'
    BY <1>1, <1>5, <2>2, <2>3, CommitIs DEF Columns, TransferTypeOK
  <2> QED
    BY <1>2, <2>1, <2>4 DEF Columns
<1>6. CASE WithdrawCommits(t)
  <2>1. /\ AssignAndPost(t.user, t.seen, -CodeAmount[t.p], t.seen = available[t.user])
        /\ t.at = "debit"
    BY <1>6 DEF WithdrawCommits, At
  <2>2. -CodeAmount[t.p] = 0 - CodeAmount[t.p] /\ t.seen \in Nat /\ t.seen >= CodeAmount[t.p]
    BY <1>3, <1>4, <2>1, OfCode DEF Handler
  <2>3. t.seen + (-CodeAmount[t.p]) \in Nat /\ -CodeAmount[t.p] \in Int
    BY <1>4, <2>2
  <2>4. WalletTypeOK'
    BY <1>1, <1>4, <2>1, <2>2, <2>3, Posts DEF Columns
  <2>5. TransferTypeOK'
    BY <1>1, <1>4, <1>6 DEF WithdrawCommits, Columns, TransferTypeOK
  <2> QED
    BY <1>2, <2>4, <2>5 DEF Columns
<1>7. CASE Supersedes(t) \/ Creates(t) \/ Mails(t) \/ WrongCode(t) \/ TransferRefused(t)
           \/ Consumes(t) \/ WithdrawReads(t)
  <2>1. UNCHANGED <<walletVars, userStatus, age, spent, transferred>>
    BY <1>7 DEF Supersedes, Creates, Mails, WrongCode, TransferRefused, Consumes,
                WithdrawReads, transferVars, codeVars
  <2>2. code' \in [Codes -> {"none", "open", "used"}]
    <3>1. UNCHANGED code \/ (\E s \in {"open", "used"} : code' = [code EXCEPT ![t.p] = s])
          \/ code' = [d \in Codes |-> IF d \in Rivals(t.p) THEN "used" ELSE code[d]]
      BY <1>7 DEF Supersedes, Creates, Mails, WrongCode, TransferRefused, Consumes,
                  WithdrawReads, transferVars, codeVars
    <3> QED
      BY <1>1, <3>1 DEF Columns, TransferTypeOK
  <2>3. attempts' \in [Codes -> Nat]
    <3>1. UNCHANGED attempts \/ attempts' = [attempts EXCEPT ![t.p] = @ + 1]
      BY <1>7 DEF Supersedes, Creates, Mails, WrongCode, TransferRefused, Consumes,
                  WithdrawReads, transferVars, codeVars
    <3> QED
      BY <1>1, <3>1 DEF Columns, TransferTypeOK
  <2> QED
    BY <1>1, <1>2, <2>1, <2>2, <2>3 DEF Columns, TransferTypeOK, WalletTypeOK, walletVars
<1> QED
  BY <1>5, <1>6, <1>7 DEF TransferSteps

\* What a run on the reserve writes.
Taken(t) == Least(t.seen, RejectedGross[t.user])

LEMMA HoldIs ==
    ASSUME Typed, NEW t \in tasks, ReserveSteps(t)
    PROVE  /\ t.user \in Users /\ WalletTypeOK' /\ ReserveTypeOK'
           /\ \A v \in Users : ~stale'[v] => ~stale[v]
           /\ \E n \in Int, m \in Nat, k \in Nat :
                /\ available' = [available EXCEPT ![t.user] = t.seen + n]
                /\ reserve' = [reserve EXCEPT ![t.user] = m]
                /\ minted' = [minted EXCEPT ![t.user] = @ + k]
                /\ n + m = t.other + k
           /\ ~stale'[t.user] => t.seen = available[t.user] /\ t.other = reserve[t.user]
<1>1. t.at \in HoldSteps
  BY ReservePasses
<1>2. /\ t \in Handler /\ t.user \in Users
      /\ t.at = "seed" => t.amount = Gross(t.user) /\ t.other = 0
      /\ t.at = "sweep" => t.amount = t.seen
      /\ t.at = "release" => t.amount <= t.other
  BY <1>1, OfReserve
<1>3. t.seen \in Nat /\ t.other \in Nat /\ t.amount \in Nat
  BY <1>2 DEF Handler
<1>4. /\ WalletTypeOK /\ ReserveTypeOK /\ reserve[t.user] \in Nat /\ minted[t.user] \in Nat
  BY <1>2 DEF Typed, TypeOK, ReserveTypeOK
<1>5. ASSUME NEW n \in Int, NEW m \in Nat, NEW k \in Nat, t.seen + n \in Nat,
             n + m = t.other + k, Hold(t, n, m), minted' = [minted EXCEPT ![t.user] = @ + k]
      PROVE  /\ WalletTypeOK' /\ ReserveTypeOK'
             /\ \A v \in Users : ~stale'[v] => ~stale[v]
             /\ available' = [available EXCEPT ![t.user] = t.seen + n]
             /\ reserve' = [reserve EXCEPT ![t.user] = m]
             /\ ~stale'[t.user] => t.seen = available[t.user] /\ t.other = reserve[t.user]
  <2> DEFINE intact == t.seen = available[t.user] /\ t.other = reserve[t.user]
  <2>1. AssignAndPost(t.user, t.seen, n, intact) /\ reserve' = [reserve EXCEPT ![t.user] = m]
    BY <1>5 DEF Hold
  <2>2. intact \in BOOLEAN /\ (intact => t.seen = available[t.user] /\ t.other = reserve[t.user])
    OBVIOUS
  <2> HIDE DEF intact
  <2>3. /\ WalletTypeOK' /\ available' = [available EXCEPT ![t.user] = t.seen + n]
        /\ ~stale'[t.user] => intact
        /\ \A v \in Users : ~stale'[v] => ~stale[v]
    BY <1>2, <1>3, <1>4, <1>5, <2>1, <2>2, Posts
  <2>4. ReserveTypeOK'
    BY <1>2, <1>4, <1>5, <2>1 DEF ReserveTypeOK
  <2> QED
    BY <2>1, <2>2, <2>3, <2>4
<1>6. PICK n \in Int, m \in Nat, k \in Nat :
        /\ t.seen + n \in Nat /\ n + m = t.other + k
        /\ Hold(t, n, m) /\ minted' = [minted EXCEPT ![t.user] = @ + k]
  <2>1. CASE SeedCommits(t)
    <3> DEFINE moved == Taken(t)
    <3>1. /\ t.at = "seed" /\ Hold(t, -moved, t.amount)
          /\ minted' = [minted EXCEPT ![t.user] = @ + t.amount - moved]
      BY <2>1 DEF SeedCommits, At, Taken
    <3>2. /\ PendingGross[t.user] \in Nat /\ RejectedGross[t.user] \in Nat
          /\ t.amount = PendingGross[t.user] + RejectedGross[t.user] /\ t.other = 0
      BY <1>2, <3>1, ReserveAssumption DEF Gross
    <3>3. moved \in Nat /\ moved <= t.seen /\ moved <= t.amount
      BY <1>3, <3>2 DEF Taken, Least
    <3> HIDE DEF moved
    <3>4. -moved = 0 - moved
      BY <3>3
    <3>5. /\ -moved \in Int /\ t.seen + (-moved) \in Nat /\ t.amount - moved \in Nat
          /\ (-moved) + t.amount = t.other + (t.amount - moved)
      BY <1>3, <3>2, <3>3, <3>4
    <3>6. minted[t.user] + t.amount - moved = minted[t.user] + (t.amount - moved)
      BY <1>3, <1>4, <3>3
    <3>7. minted' = [minted EXCEPT ![t.user] = @ + (t.amount - moved)]
      BY <1>2, <1>4, <3>1, <3>6 DEF ReserveTypeOK
    <3> QED
      BY <1>3, <3>1, <3>5, <3>7
  <2>2. CASE SweepCommits(t)
    <3>1. /\ t.at = "sweep" /\ Hold(t, -t.amount, t.other + t.amount) /\ UNCHANGED minted
      BY <2>2 DEF SweepCommits, At
    <3>2. t.amount = t.seen /\ -t.amount = 0 - t.amount
      BY <1>2, <1>3, <3>1
    <3>3. /\ -t.amount \in Int /\ t.other + t.amount \in Nat /\ t.seen + (-t.amount) \in Nat
          /\ (-t.amount) + (t.other + t.amount) = t.other + 0
      BY <1>3, <3>2
    <3>4. minted' = [minted EXCEPT ![t.user] = @ + 0]
      BY <1>2, <1>4, <3>1 DEF ReserveTypeOK
    <3> QED
      BY <3>1, <3>3, <3>4
  <2>3. CASE ReleaseCommits(t)
    <3>1. /\ t.at = "release" /\ Hold(t, t.amount, t.other - t.amount) /\ UNCHANGED minted
      BY <2>3 DEF ReleaseCommits, At
    <3>2. t.amount <= t.other
      BY <1>2, <3>1
    <3>3. /\ t.amount \in Int /\ t.other - t.amount \in Nat /\ t.seen + t.amount \in Nat
          /\ t.amount + (t.other - t.amount) = t.other + 0
      BY <1>3, <3>2
    <3>4. minted' = [minted EXCEPT ![t.user] = @ + 0]
      BY <1>2, <1>4, <3>1 DEF ReserveTypeOK
    <3> QED
      BY <3>1, <3>3, <3>4
  <2> QED
    BY <2>1, <2>2, <2>3 DEF ReserveSteps
<1> QED
  BY <1>2, <1>5, <1>6

\* What the merger of two accounts writes.
LEMMA MergeIs ==
    ASSUME Typed, NEW t \in tasks, NEW a \in t.about, ApplyCommits(t, a)
    PROVE  LET u == Source[a]
               v == Destination[a]
           IN  /\ a \in Accounts /\ u \in Users /\ v \in Users /\ u # v /\ t.p = u
               /\ t.at = "merge" /\ t.seen \in Nat /\ t.other \in Nat
               /\ available' = [available EXCEPT ![u] = 0, ![v] = t.seen + t.other]
               /\ transferred' = [transferred EXCEPT ![u] = 0, ![v] = @ + transferred[u]]
               /\ userStatus' = [userStatus EXCEPT ![u] = "BANNED"]
               /\ merged' = [merged EXCEPT ![a] = @ + 1]
               /\ UNCHANGED acct
               /\ \A x \in Users : ~stale'[x] =>
                    /\ ~stale[x]
                    /\ x = u => t.seen = available[u] /\ t.other = available[v]
<1>1. t.at = "merge" /\ t.at \in ReviewSteps
  BY DEF ApplyCommits, At, ReviewSteps
<1>2. /\ t \in Handler /\ a \in Accounts /\ t.p = Source[a] /\ Source[a] \in Users
      /\ Destination[a] \in Users /\ Destination[a] # Source[a]
  BY <1>1, OfReview
<1>3. \A x \in Users : stale'[x] =
        (stale[x] \/ (x \in {Source[a], Destination[a]}
                      /\ (t.seen # available[Source[a]] \/ t.other # available[Destination[a]])))
  BY DEF ApplyCommits
<1>4. t.seen \in Nat /\ t.other \in Nat
  BY <1>2 DEF Handler
<1> QED
  BY <1>1, <1>2, <1>3, <1>4 DEF ApplyCommits

LEMMA AccountColumns ==
    ASSUME Typed, NEW t \in tasks, AccountSteps(t), UNCHANGED <<codeVars, reserveVars>>
    PROVE  Columns'
<1>1. Columns
  BY DEF Typed, TypeOK, Columns
<1>2. ReserveTypeOK'
  BY <1>1 DEF Columns, ReserveTypeOK, reserveVars
<1>3. PICK a \in t.about :
        \/ Offers(t, a) \/ Invites(t, a) \/ AgreeCommits(t, a) \/ CancelCommits(t, a)
        \/ ApplyReads(t, a) \/ ApplyCommits(t, a) \/ ApplyFails(t, a)
        \/ CompleteCommits(t, a)
  BY DEF AccountSteps
<1>4. t.at \in ReviewSteps
  BY AccountPasses
<1>5. a \in Accounts /\ Source[a] \in Users
  BY <1>4, OfReview
<1>6. CASE ApplyCommits(t, a)
  <2> DEFINE u == Source[a]
             v == Destination[a]
  <2>1. u \in Users /\ v \in Users /\ u # v /\ t.seen \in Nat /\ t.other \in Nat
    BY <1>6, MergeIs
  <2>2. available' = [available EXCEPT ![u] = 0, ![v] = t.seen + t.other]
        /\ transferred' = [transferred EXCEPT ![u] = 0, ![v] = @ + transferred[u]]
        /\ userStatus' = [userStatus EXCEPT ![u] = "BANNED"]
        /\ merged' = [merged EXCEPT ![a] = @ + 1] /\ UNCHANGED acct
    BY <1>6, MergeIs
  <2>3. /\ rowSum' = [rowSum EXCEPT ![u] = 0, ![v] = @ + rowSum[u] + t.seen]
        /\ balanceAfter' = [balanceAfter EXCEPT
                              ![v] = IF t.seen > 0 THEN t.seen + t.other ELSE @]
        /\ stale' = [x \in Users |-> stale[x] \/ (x \in {u, v}
                       /\ (t.seen # available[u] \/ t.other # available[v]))]
    BY <1>6 DEF ApplyCommits
  <2> HIDE DEF u, v
  <2>4. t.seen + t.other \in Nat
    BY <2>1
  <2>5. available' \in [Users -> Nat] /\ balanceAfter' \in [Users -> Int]
    BY <1>1, <2>1, <2>2, <2>3, <2>4 DEF Columns, WalletTypeOK
  <2>6. rowSum' \in [Users -> Int] /\ transferred' \in [Users -> Int]
    BY <1>1, <2>1, <2>2, <2>3 DEF Columns, WalletTypeOK, TransferTypeOK
  <2>7. stale' \in [Users -> BOOLEAN]
    <3> DEFINE lost == t.seen # available[u] \/ t.other # available[v]
    <3>1. stale' = [x \in Users |-> stale[x] \/ (x \in {u, v} /\ lost)]
      BY <2>3
    <3>2. lost \in BOOLEAN
      OBVIOUS
    <3> HIDE DEF lost
    <3> QED
      BY <1>1, <3>1, <3>2 DEF Columns, WalletTypeOK
  <2>8. merged' \in [Accounts -> Nat]
    BY <1>1, <1>5, <2>2 DEF Columns
  <2>9. /\ userStatus' \in [Users -> {"ACTIVE", "SUSPENDED", "BANNED"}]
        /\ acct' \in [Accounts -> Statuses]
    BY <1>1, <2>2 DEF Columns, TransferTypeOK
  <2>10. TransferTypeOK'
    BY <1>1, <2>6, <2>9 DEF Columns, TransferTypeOK, codeVars
  <2> QED
    BY <1>2, <2>5, <2>6, <2>7, <2>8, <2>9, <2>10 DEF Columns, WalletTypeOK
<1>7. CASE Offers(t, a) \/ Invites(t, a) \/ AgreeCommits(t, a) \/ CancelCommits(t, a)
           \/ ApplyReads(t, a) \/ ApplyFails(t, a) \/ CompleteCommits(t, a)
  <2>1. UNCHANGED <<walletVars, transferred, merged>>
    BY <1>7 DEF Offers, Invites, AgreeCommits, CancelCommits, ApplyReads, ApplyFails,
                CompleteCommits, accountVars
  <2>2. acct' \in [Accounts -> Statuses]
    <3>1. UNCHANGED acct \/ \E s \in Statuses : acct' = [acct EXCEPT ![a] = s]
      BY <1>7 DEF Offers, Invites, AgreeCommits, CancelCommits, ApplyReads, ApplyFails,
                  CompleteCommits, accountVars, Statuses
    <3> QED
      BY <1>1, <3>1 DEF Columns
  <2>3. userStatus' \in [Users -> {"ACTIVE", "SUSPENDED", "BANNED"}]
    <3>1. UNCHANGED userStatus \/ userStatus' = [userStatus EXCEPT ![Source[a]] = "SUSPENDED"]
      BY <1>7 DEF Offers, Invites, AgreeCommits, CancelCommits, ApplyReads, ApplyFails,
                  CompleteCommits
    <3> QED
      BY <1>1, <3>1 DEF Columns, TransferTypeOK
  <2> QED
    BY <1>1, <1>2, <2>1, <2>2, <2>3
       DEF Columns, WalletTypeOK, TransferTypeOK, walletVars, codeVars
<1> QED
  BY <1>3, <1>6, <1>7

-----------------------------------------------------------------------------
\* Types and well-formed handlers are kept by every step.
LEMMA StartTyped ==
    ASSUME Typed, NEW w \in Workers, Start(w)
    PROVE  Typed'
<1>1. PICK t \in Handler : Begins(t)
  BY StartBegins
<1>2. PoolKept
  BY <1>1, PoolStarts DEF Begins
<1>3. Columns'
  BY <1>1 DEF Begins, Typed, TypeOK, Columns, WalletTypeOK, TransferTypeOK, ReserveTypeOK,
              walletVars, transferVars, codeVars, reserveVars, accountVars
<1> QED
  BY <1>2, <1>3, StartBegins DEF Typed, TypeOK, Columns, PoolKept

LEMMA StepTyped ==
    ASSUME Typed, NEW t \in tasks, Step(t)
    PROVE  Typed'
<1>1. PoolKept
  BY StepPasses, PassKeeps
<1>2. left' \in 0 .. MaxStarts
  BY DEF Typed, TypeOK, Step
<1>3. Columns
  BY DEF Typed, TypeOK, Columns
<1>4. Columns'
  <2>1. CASE TransferSteps(t) /\ UNCHANGED <<reserveVars, accountVars>>
    BY <2>1, CodeColumns
  <2>2. CASE ReserveSteps(t) /\ UNCHANGED <<transferVars, accountVars>>
    BY <1>3, <2>2, HoldIs DEF Columns, TransferTypeOK, transferVars, codeVars, accountVars
  <2>3. CASE AccountSteps(t) /\ UNCHANGED <<codeVars, reserveVars>>
    BY <2>3, AccountColumns
  <2>4. CASE Crash(t) /\ UNCHANGED <<reserveVars, accountVars>>
    BY <1>3, <2>4 DEF Crash, Columns, WalletTypeOK, TransferTypeOK, ReserveTypeOK, walletVars,
                      transferVars, codeVars, reserveVars, accountVars
  <2> QED
    BY <2>1, <2>2, <2>3, <2>4 DEF Step
<1> QED
  BY <1>1, <1>2, <1>4 DEF Typed, TypeOK, Columns, PoolKept

LEMMA MinuteTyped ==
    ASSUME Typed, NEW c \in Codes, Minutes(c), UNCHANGED <<reserveVars, accountVars, left>>
    PROVE  Typed'
<1>1. age' \in [Codes -> Ages]
  BY DEF Minutes, Typed, TypeOK, TransferTypeOK, Ages
<1> QED
  BY <1>1 DEF Minutes, Typed, TypeOK, WalletTypeOK, TransferTypeOK, ReserveTypeOK, walletVars,
              taskVars, reserveVars, accountVars, HandlerInv, Formed, Gross

LEMMA StutterTyped ==
    ASSUME Typed, UNCHANGED vars
    PROVE  Typed'
BY DEF vars, Typed, TypeOK, WalletTypeOK, TransferTypeOK, ReserveTypeOK, walletVars, taskVars,
       transferVars, codeVars, reserveVars, accountVars, HandlerInv, Formed, Gross

LEMMA InitTyped == Init => Typed
<1> SUFFICES ASSUME Init PROVE Typed
  OBVIOUS
<1>1. WalletTypeOK
  BY OpeningAssumption DEF Init, WalletInit, WalletTypeOK
<1>2. TransferTypeOK /\ ReserveTypeOK
  BY DEF Init, TransferInit, ReserveInit, TransferTypeOK, ReserveTypeOK, Ages
<1>3. acct \in [Accounts -> Statuses] /\ merged \in [Accounts -> Nat] /\ left \in 0 .. MaxStarts
  BY AccountAssumption DEF Init, Statuses
<1>4. tasks \subseteq Handler /\ disturbed \in [Rows -> BOOLEAN] /\ HandlerInv
  BY DEF Init, HandlerInv
<1> QED
  BY <1>1, <1>2, <1>3, <1>4 DEF Typed, TypeOK

LEMMA NextTyped ==
    ASSUME Typed, [Next]_vars
    PROVE  Typed'
BY StartTyped, StepTyped, MinuteTyped, StutterTyped DEF Next

\* No wallet, reserve or count ever goes below zero: a transfer decrements under
\* its condition, a withdrawal and a release within what they read, a sweep takes
\* what it read (wallet.service.ts, account-transfer.service.ts).
THEOREM AccountsTyped == Spec => []TypeOK
<1>1. Init => Typed
  BY InitTyped
<1>2. Typed /\ [Next]_vars => Typed'
  BY NextTyped
<1>3. Typed => TypeOK
  BY DEF Typed
<1> QED
  BY <1>1, <1>2, <1>3, PTL DEF Spec

-----------------------------------------------------------------------------
\* Codes.  An open code that nobody works on may be used up by a newer request.
LEMMA CodeElsewhere ==
    ASSUME NEW c \in Codes, Handling(c)' = Handling(c), disturbed'[c] = disturbed[c],
           spent'[c] = spent[c],
           code'[c] = code[c] \/ (code[c] = "open" /\ code'[c] = "used"),
           CodeFits(c), PaysOnce(c)
    PROVE  CodeFits(c)' /\ PaysOnce(c)'
<1>1. CodeFits(c)'
  BY DEF CodeFits, Requesting
<1>2. PaysOnce(c)'
  BY DEF PaysOnce
<1> QED
  BY <1>1, <1>2

LEMMA CodesElsewhere ==
    ASSUME Typed, NEW r \in Rows, Elsewhere(r), CodeInv, UNCHANGED <<code, spent>>
    PROVE  \A c \in Codes \ {r} : CodeFits(c)' /\ PaysOnce(c)'
<1> SUFFICES ASSUME NEW c \in Codes, c # r PROVE CodeFits(c)' /\ PaysOnce(c)'
  OBVIOUS
<1>1. c \in Rows \ {r}
  BY AccountAssumption
<1> QED
  BY <1>1, CodeElsewhere DEF Elsewhere, CodeInv

LEMMA StartCodes ==
    ASSUME Typed, CodeInv, NEW t \in Handler, Begins(t)
    PROVE  CodeInv'
<1>1. /\ Elsewhere(t.p) /\ Handling(t.p)' = Handling(t.p) \cup {t} /\ t.p \in Rows
      /\ ~disturbed'[t.p] => ~disturbed[t.p] /\ Handling(t.p) = {}
  BY PoolStarts DEF Begins, Handler
<1>2. UNCHANGED <<code, spent>>
  BY DEF Begins, transferVars, codeVars
<1>3. \A c \in Codes \ {t.p} : CodeFits(c)' /\ PaysOnce(c)'
  BY <1>1, <1>2, CodesElsewhere
<1>4. ASSUME t.p \in Codes
      PROVE  CodeFits(t.p)' /\ PaysOnce(t.p)'
  <2>1. CodeFits(t.p) /\ PaysOnce(t.p)
    BY <1>4 DEF CodeInv
  <2>2. /\ t.at = "supersede" => code[t.p] = "none" /\ Handling(t.p) = {}
        /\ t.at # "supersede" => code[t.p] = "open" /\ t.at \notin Requesting
        /\ t.at \notin {"withdraw", "debit"}
    <3>1. t.at \in {"supersede", "wrong", "pay", "consume"}
      <4>1. t.p \notin Users /\ t.p # "reserve"
        BY <1>4, AccountAssumption
      <4> QED
        BY <4>1, AccountAssumption
           DEF Begins, Ready, Entries, Formed, HoldSteps, CodeSteps, ReviewSteps
    <3> QED
      BY <3>1 DEF Begins, Ready, Valid, Requesting, Running, Handling
  <2>3. CodeFits(t.p)'
    <3>1. ASSUME NEW s \in Handling(t.p)', s.at \in Requesting
          PROVE  code[t.p] = "none" /\ Handling(t.p)' = {s}
      <4>1. CASE s = t
        BY <1>1, <2>2, <3>1, <4>1
      <4>2. CASE s \in Handling(t.p)
        <5>1. code[t.p] = "none" /\ t.at = "supersede"
          BY <2>1, <2>2, <3>1, <4>2 DEF CodeFits
        <5> QED
          BY <2>2, <4>2, <5>1
      <4> QED
        BY <1>1, <4>1, <4>2
    <3>2. code[t.p] = "none" => spent[t.p] = 0 /\ \A s \in Handling(t.p)' : s.at \in Requesting
      BY <1>1, <2>1, <2>2 DEF CodeFits, Requesting
    <3> QED
      BY <1>2, <2>1, <3>1, <3>2 DEF CodeFits, Requesting
  <2>4. PaysOnce(t.p)'
    <3>1. ASSUME t.p \in WithdrawCodes, ~disturbed'[t.p]
          PROVE  /\ \A s \in Handling(t.p)' : Handling(t.p)' = {s}
                 /\ spent[t.p] <= 1
                 /\ code[t.p] # "used" => spent[t.p] = 0
                 /\ \A s \in Handling(t.p)' :
                      /\ s.at \in {"consume", "withdraw", "debit"} => spent[t.p] = 0
                      /\ s.at \in {"withdraw", "debit"} => code[t.p] = "used"
      <4>1. Handling(t.p)' = {t} /\ ~disturbed[t.p]
        BY <1>1, <3>1
      <4>2. spent[t.p] <= 1 /\ (code[t.p] # "used" => spent[t.p] = 0)
        BY <2>1, <3>1, <4>1 DEF PaysOnce
      <4>3. code[t.p] # "used"
        BY <2>2
      <4> QED
        BY <2>2, <4>1, <4>2, <4>3
    <3> QED
      BY <1>2, <3>1 DEF PaysOnce, WithdrawCodes
  <2> QED
    BY <2>3, <2>4
<1> QED
  BY <1>3, <1>4 DEF CodeInv

\* A step of a handler of the code, which may be used from then on.
LEMMA CodeStep ==
    ASSUME Typed, CodeInv, NEW t \in tasks, t.at \in CodeSteps, t.p \in Codes,
           UNCHANGED spent, UNCHANGED disturbed, Elsewhere(t.p),
           \A c \in Codes \ {t.p} :
             code'[c] = code[c] \/ (code[c] = "open" /\ code'[c] = "used"),
           code'[t.p] = code[t.p] \/ code'[t.p] = "used" \/ t.at = "create",
           t.at = "supersede" => UNCHANGED <<code[t.p]>>,
           t.at = "create" => code'[t.p] = "open",
           \/ Handling(t.p)' = Handling(t.p) \ {t}
           \/ \E u \in Handler : /\ Handling(t.p)' = (Handling(t.p) \ {t}) \cup {u}
                                 /\ <<t.at, u.at>> \in Pairs
                                 /\ u.at = "withdraw" => code'[t.p] = "used"
    PROVE  CodeInv'
<1>1. ASSUME NEW c \in Codes \ {t.p} PROVE CodeFits(c)' /\ PaysOnce(c)'
  <2>1. c \in Rows \ {t.p}
    BY AccountAssumption
  <2> QED
    BY <2>1, CodeElsewhere DEF CodeInv, Elsewhere
<1>2. CodeFits(t.p) /\ PaysOnce(t.p) /\ t \in Handling(t.p)
  BY DEF CodeInv, Handling
<1>3. t.at \in Requesting => code[t.p] = "none" /\ Handling(t.p) = {t} /\ spent[t.p] = 0
  BY <1>2 DEF CodeFits
<1>4. t.at \notin Requesting =>
        code[t.p] # "none" /\ \A s \in Handling(t.p) : s.at \notin Requesting
  BY <1>2 DEF CodeFits
<1>5. CodeFits(t.p)'
  <2>1. CASE t.at \in Requesting
    BY <1>2, <1>3, <2>1 DEF CodeFits, Requesting, Pairs
  <2>2. CASE t.at \notin Requesting
    <3>1. code'[t.p] # "none"
      BY <1>4, <2>2 DEF Requesting
    <3>2. \A s \in Handling(t.p)' : s.at \notin Requesting
      BY <1>4, <2>2 DEF Requesting, Pairs
    <3> QED
      BY <1>2, <3>1, <3>2 DEF CodeFits
  <2> QED
    BY <2>1, <2>2
<1>6. PaysOnce(t.p)'
  <2> SUFFICES ASSUME t.p \in WithdrawCodes, ~disturbed[t.p]
               PROVE  /\ \A s \in Handling(t.p)' : Handling(t.p)' = {s}
                      /\ spent[t.p] <= 1
                      /\ code'[t.p] # "used" => spent[t.p] = 0
                      /\ \A s \in Handling(t.p)' :
                           /\ s.at \in {"consume", "withdraw", "debit"} => spent[t.p] = 0
                           /\ s.at \in {"withdraw", "debit"} => code'[t.p] = "used"
    BY DEF PaysOnce, WithdrawCodes
  <2>1. /\ Handling(t.p) = {t} /\ spent[t.p] <= 1
        /\ code[t.p] # "used" => spent[t.p] = 0
        /\ t.at \in {"consume", "withdraw", "debit"} => spent[t.p] = 0
        /\ t.at \in {"withdraw", "debit"} => code[t.p] = "used"
    BY <1>2 DEF PaysOnce
  <2>2. code'[t.p] # "used" => spent[t.p] = 0
    BY <1>3, <2>1 DEF Requesting
  <2>3. CASE Handling(t.p)' = Handling(t.p) \ {t}
    BY <2>1, <2>2, <2>3
  <2>4. ASSUME NEW u \in Handler, Handling(t.p)' = (Handling(t.p) \ {t}) \cup {u},
               <<t.at, u.at>> \in Pairs, u.at = "withdraw" => code'[t.p] = "used"
        PROVE  /\ Handling(t.p)' = {u}
               /\ u.at \in {"consume", "withdraw", "debit"} => spent[t.p] = 0
               /\ u.at \in {"withdraw", "debit"} => code'[t.p] = "used"
    <3>1. u.at # "consume" /\ (u.at = "withdraw" => t.at = "consume")
          /\ (u.at = "debit" => t.at = "withdraw")
      BY <2>4 DEF Pairs
    <3> QED
      BY <2>1, <2>4, <3>1
  <2> QED
    BY <2>1, <2>2, <2>3, <2>4
<1> QED
  BY <1>1, <1>5, <1>6 DEF CodeInv

\* The pool after a step, on the row of the handler.
LEMMA PassPool ==
    ASSUME Typed, NEW t \in tasks, Passes(t)
    PROVE  /\ UNCHANGED disturbed /\ Elsewhere(t.p)
           /\ \/ Handling(t.p)' = Handling(t.p) \ {t}
              \/ \E u \in Handler : /\ GoesOn(t, u) /\ <<t.at, u.at>> \in Pairs
                                    /\ Handling(t.p)' = (Handling(t.p) \ {t}) \cup {u}
BY PoolEnds, PoolMoves DEF Passes, GoesOn

\* A payment of a code that has not been paid for.
LEMMA CodePays ==
    ASSUME Typed, CodeInv, NEW t \in tasks, t.p \in Codes, Return(t),
           spent' = [spent EXCEPT ![t.p] = @ + 1],
           \A c \in Codes \ {t.p} : code'[c] = code[c],
           \/ t.at = "pay" /\ t.p \in TransferCodes /\ spent[t.p] = 0 /\ code'[t.p] = "used"
           \/ t.at = "debit" /\ t.p \in WithdrawCodes /\ code'[t.p] = code[t.p]
    PROVE  CodeInv'
<1>1. /\ Elsewhere(t.p) /\ Handling(t.p)' = Handling(t.p) \ {t} /\ disturbed' = disturbed
  BY PoolEnds
<1>2. spent'[t.p] = spent[t.p] + 1 /\ \A c \in Codes \ {t.p} : spent'[c] = spent[c]
  BY DEF Typed, TypeOK, TransferTypeOK
<1>3. ASSUME NEW c \in Codes \ {t.p} PROVE CodeFits(c)' /\ PaysOnce(c)'
  <2>1. c \in Rows \ {t.p}
    BY AccountAssumption
  <2> QED
    BY <1>1, <1>2, <2>1, CodeElsewhere DEF CodeInv, Elsewhere
<1>4. CodeFits(t.p) /\ PaysOnce(t.p) /\ t \in Handling(t.p)
  BY DEF CodeInv, Handling
<1>5. code[t.p] # "none" /\ \A s \in Handling(t.p) : s.at \notin Requesting
  BY <1>4 DEF CodeFits, Requesting
<1>6. code'[t.p] # "none" /\ (t.p \in TransferCodes => spent'[t.p] <= 1)
  BY <1>2, <1>5 DEF WithdrawCodes
<1>7. CodeFits(t.p)'
  BY <1>1, <1>5, <1>6 DEF CodeFits
<1>8. PaysOnce(t.p)'
  <2> SUFFICES ASSUME t.p \in WithdrawCodes, ~disturbed[t.p]
               PROVE  /\ Handling(t.p)' = {} /\ spent'[t.p] <= 1 /\ code'[t.p] = "used"
    BY <1>1 DEF PaysOnce, WithdrawCodes
  <2>1. t.at = "debit" /\ code'[t.p] = code[t.p]
    BY DEF WithdrawCodes
  <2>2. Handling(t.p) = {t} /\ spent[t.p] = 0 /\ code[t.p] = "used"
    BY <1>4, <2>1 DEF PaysOnce
  <2> QED
    BY <1>1, <1>2, <2>1, <2>2
<1> QED
  BY <1>3, <1>7, <1>8 DEF CodeInv

LEMMA CodeStepCodes ==
    ASSUME Typed, CodeInv, NEW t \in tasks, TransferSteps(t)
    PROVE  CodeInv'
<1>1. t.at \in CodeSteps /\ Passes(t)
  BY CodePasses
<1>2. t.p \in Codes /\ code \in [Codes -> {"none", "open", "used"}]
  BY <1>1, OfCode DEF Typed, TypeOK, TransferTypeOK
<1>3. /\ UNCHANGED disturbed /\ Elsewhere(t.p)
      /\ \/ Handling(t.p)' = Handling(t.p) \ {t}
         \/ \E u \in Handler : /\ GoesOn(t, u) /\ <<t.at, u.at>> \in Pairs
                               /\ Handling(t.p)' = (Handling(t.p) \ {t}) \cup {u}
  BY <1>1, PassPool
<1>4. ASSUME UNCHANGED spent,
             \A c \in Codes \ {t.p} :
               code'[c] = code[c] \/ (code[c] = "open" /\ code'[c] = "used"),
             code'[t.p] = code[t.p] \/ code'[t.p] = "used" \/ t.at = "create",
             t.at = "supersede" => UNCHANGED <<code[t.p]>>,
             t.at = "create" => code'[t.p] = "open",
             t.at = "consume" => code'[t.p] = "used"
      PROVE  CodeInv'
  <2>1. \/ Handling(t.p)' = Handling(t.p) \ {t}
        \/ \E u \in Handler : /\ Handling(t.p)' = (Handling(t.p) \ {t}) \cup {u}
                              /\ <<t.at, u.at>> \in Pairs
                              /\ u.at = "withdraw" => code'[t.p] = "used"
    BY <1>3, <1>4 DEF Pairs
  <2> QED
    BY <1>1, <1>2, <1>3, <1>4, <2>1, CodeStep
<1>5. CASE Supersedes(t)
  <2>1. t.at = "supersede" /\ UNCHANGED spent
    BY <1>5 DEF Supersedes, At
  <2>2. code[t.p] = "none"
    BY <1>2, <2>1 DEF CodeInv, CodeFits, Requesting, Handling
  <2>3. \A c \in Codes : code'[c] = IF c \in Rivals(t.p) THEN "used" ELSE code[c]
    BY <1>5 DEF Supersedes
  <2>4. \A c \in Rivals(t.p) : code[c] = "open"
    BY DEF Rivals
  <2> QED
    BY <1>2, <1>4, <2>1, <2>2, <2>3, <2>4
<1>6. CASE Creates(t)
  <2>1. t.at = "create" /\ UNCHANGED spent /\ code' = [code EXCEPT ![t.p] = "open"]
    BY <1>6 DEF Creates, At
  <2> QED
    BY <1>2, <1>4, <2>1
<1>7. CASE Mails(t) \/ WrongCode(t) \/ TransferRefused(t) \/ WithdrawReads(t)
  <2>1. /\ t.at \in {"mail", "wrong", "pay", "withdraw"} /\ UNCHANGED spent
        /\ UNCHANGED code \/ code' = [code EXCEPT ![t.p] = "used"]
    BY <1>7 DEF Mails, WrongCode, TransferRefused, WithdrawReads, At, transferVars, codeVars
  <2> QED
    BY <1>2, <1>4, <2>1
<1>8. CASE Consumes(t)
  <2>1. t.at = "consume" /\ UNCHANGED spent /\ code' = [code EXCEPT ![t.p] = "used"]
    BY <1>8 DEF Consumes, At
  <2> QED
    BY <1>2, <1>4, <2>1
<1>9. CASE TransferCommits(t)
  BY <1>2, <1>9, CommitIs, CodePays
<1>10. CASE WithdrawCommits(t)
  <2>1. t.at = "debit" /\ Return(t) /\ spent' = [spent EXCEPT ![t.p] = @ + 1] /\ UNCHANGED code
    BY <1>10 DEF WithdrawCommits, At
  <2>2. t.p \in WithdrawCodes
    BY <1>1, <2>1, OfCode
  <2> QED
    BY <1>2, <2>1, <2>2, CodePays
<1> QED
  BY <1>5, <1>6, <1>7, <1>8, <1>9, <1>10 DEF TransferSteps

LEMMA CrashCodes ==
    ASSUME Typed, CodeInv, NEW t \in tasks, t.p \in Codes, Return(t), UNCHANGED <<code, spent>>
    PROVE  CodeInv'
<1>1. UNCHANGED disturbed /\ Elsewhere(t.p) /\ Handling(t.p)' = Handling(t.p) \ {t}
  BY PoolEnds
<1>2. CodeFits(t.p) /\ PaysOnce(t.p)
  BY DEF CodeInv
<1>3. CodeFits(t.p)'
  BY <1>1, <1>2 DEF CodeFits
<1>4. PaysOnce(t.p)'
  BY <1>1, <1>2 DEF PaysOnce
<1>5. t.p \in Rows
  BY DEF Typed, TypeOK, Handler
<1> QED
  BY <1>1, <1>3, <1>4, <1>5, CodesElsewhere DEF CodeInv

LEMMA NextCodes ==
    ASSUME Typed, CodeInv, [Next]_vars
    PROVE  CodeInv'
<1>1. ASSUME NEW w \in Workers, Start(w) PROVE CodeInv'
  BY <1>1, StartBegins, StartCodes
<1>2. ASSUME NEW t \in tasks, Step(t) PROVE CodeInv'
  <2>1. CASE TransferSteps(t)
    BY <2>1, CodeStepCodes
  <2>2. t.p \in Rows /\ t \in Handler /\ Formed(t) /\ t.at \in Steps
    BY DEF Typed, TypeOK, HandlerInv, Handler
  <2>3. Elsewhere(t.p)
    BY <1>2, StepPasses, PassKeeps
  <2>4. CASE (ReserveSteps(t) /\ UNCHANGED transferVars) \/ (AccountSteps(t) /\ UNCHANGED codeVars)
    <3>1. UNCHANGED <<code, spent>>
      BY <2>4 DEF transferVars, codeVars
    <3>2. t.p \notin Codes
      <4>1. CASE ReserveSteps(t)
        BY <4>1, ReservePasses, OfReserve
      <4>2. CASE AccountSteps(t)
        <5>1. t.at \in ReviewSteps /\ t.about # {}
          BY <4>2, AccountPasses DEF AccountSteps
        <5> QED
          BY <5>1, OfReview
      <4> QED
        BY <2>4, <4>1, <4>2
    <3> QED
      BY <2>2, <2>3, <3>1, <3>2, CodesElsewhere DEF CodeInv
  <2>5. CASE Crash(t)
    <3>1. UNCHANGED <<code, spent>>
      BY <2>5 DEF Crash, transferVars, codeVars
    <3>2. CASE t.p \in Codes
      <4>1. t.at # "complete"
        BY <2>2, <3>2, AccountAssumption DEF Formed, ReviewSteps
      <4>2. Return(t)
        BY <2>5, <4>1 DEF Crash
      <4> QED
        BY <3>1, <3>2, <4>2, CrashCodes
    <3>3. CASE t.p \notin Codes
      BY <2>2, <2>3, <3>1, <3>3, CodesElsewhere DEF CodeInv
    <3> QED
      BY <3>2, <3>3
  <2> QED
    BY <1>2, <2>1, <2>4, <2>5 DEF Step
<1>3. ASSUME NEW c \in Codes, Minutes(c) PROVE CodeInv'
  BY <1>3 DEF Minutes, taskVars, CodeInv, CodeFits, PaysOnce, Handling
<1>4. CASE UNCHANGED vars
  BY <1>4 DEF vars, taskVars, transferVars, codeVars, CodeInv, CodeFits, PaysOnce, Handling
<1> QED
  BY <1>1, <1>2, <1>3, <1>4 DEF Next

LEMMA InitCodes == Init => CodeInv
BY DEF Init, TransferInit, CodeInv, CodeFits, PaysOnce, Handling, WithdrawCodes

-----------------------------------------------------------------------------
\* Source accounts.  Nothing changes for one whose rows are left alone.
SameFor(u) ==
    /\ userStatus'[u] = userStatus[u]
    /\ \A a \in Of(u) : acct'[a] = acct[a] /\ merged'[a] = merged[a]

LEMMA OnSource ==
    ASSUME Typed, NEW u \in Users, NEW t \in Handling(u)
    PROVE  t.at \in ReviewSteps /\ \E a \in Of(u) : t.about = {a}
<1>1. t \in tasks /\ t.p = u /\ t.at \in Steps /\ Formed(t)
  BY DEF Handling, Typed, TypeOK, Handler, HandlerInv
<1>2. t.p \notin Codes /\ t.p # "reserve"
  BY <1>1, AccountAssumption
<1> QED
  BY <1>1, <1>2 DEF Formed, Steps, CodeSteps, HoldSteps, ReviewSteps, Of

LEMMA SourceElsewhere ==
    ASSUME Typed, NEW u \in Users, Handling(u)' = Handling(u), disturbed'[u] = disturbed[u],
           SameFor(u), SourceFits(u)
    PROVE  SourceFits(u)'
<1> SUFFICES ASSUME ~disturbed[u]
             PROVE  /\ \A t \in Handling(u) : Handling(u) = {t}
                    /\ \A a, b \in Of(u) : Live(u, a)' /\ Live(u, b)' => a = b
                    /\ \A a \in Of(u) : Merged(u, a)'
                    /\ \A t \in Handling(u) : \A a \in t.about : Found(u, t, a)'
  BY DEF SourceFits, Of
<1>1. \A a \in Of(u) : Live(u, a)' = Live(u, a)
  BY DEF SameFor, Live, IsOpen
<1>2. \A a \in Of(u) : Merged(u, a) => Merged(u, a)'
  BY DEF SameFor, Merged
<1>3. ASSUME NEW t \in Handling(u), NEW a \in t.about, Found(u, t, a) PROVE Found(u, t, a)'
  <2>1. a \in Of(u) => Found(u, t, a)'
    BY <1>3 DEF SameFor, Found
  <2>2. a \in Of(u)
    BY OnSource
  <2> QED
    BY <2>1, <2>2
<1> QED
  BY <1>1, <1>2, <1>3 DEF SourceFits

LEMMA SourcesElsewhere ==
    ASSUME Typed, NEW r \in Rows, Elsewhere(r), SourceInv, \A u \in Users \ {r} : SameFor(u)
    PROVE  \A u \in Users \ {r} : SourceFits(u)'
<1> SUFFICES ASSUME NEW u \in Users, u # r PROVE SourceFits(u)'
  OBVIOUS
<1>1. u \in Rows \ {r}
  BY AccountAssumption
<1> QED
  BY <1>1, SourceElsewhere DEF Elsewhere, SourceInv

\* What the handler of a transfer leaves of the source account: at most its own
\* next step, and of the other transfers nothing but that the account is now
\* banned, or suspended when it was not banned before.
Leaves(u, a) ==
    /\ a \in Of(u)
    /\ Handling(u)' = {} \/ \E t : Handling(u)' = {t} /\ t.about = {a} /\ Found(u, t, a)'
    /\ Merged(u, a)'
    /\ \A b \in Of(u) \ {a} : acct'[b] = acct[b] /\ merged'[b] = merged[b] /\ ~IsOpen(b)
    /\ \/ userStatus'[u] = userStatus[u]
       \/ userStatus'[u] = "BANNED"
       \/ userStatus[u] # "BANNED"

LEMMA SourceLeft ==
    ASSUME Typed, NEW u \in Users, NEW a, Leaves(u, a), \A b \in Of(u) : Merged(u, b)
    PROVE  SourceFits(u)'
<1> USE DEF Leaves
<1>1. \A t \in Handling(u)' : Handling(u)' = {t}
  OBVIOUS
<1>2. ASSUME NEW b \in Of(u) \ {a} PROVE ~Live(u, b)' /\ Merged(u, b)'
  <2>1. acct'[b] = acct[b] /\ merged'[b] = merged[b] /\ ~IsOpen(b) /\ Merged(u, b)
    OBVIOUS
  <2>2. ~Live(u, b)'
    BY <2>1 DEF Live, IsOpen
  <2> HIDE DEF Leaves
  <2>3. Merged(u, b)'
    <3>1. acct'[b] \notin {"PENDING_USER", "IN_REVIEW"}
      BY <2>1 DEF IsOpen
    <3>2. acct'[b] = "COMPLETED" => merged'[b] = 1 /\ userStatus'[u] = "BANNED"
      BY <2>1 DEF Merged, Leaves
    <3>3. acct'[b] \in {"none", "CANCELLED", "FAILED"} => merged'[b] = 0
      BY <2>1 DEF Merged
    <3> QED
      BY <3>1, <3>2, <3>3 DEF Merged
  <2> QED
    BY <2>2, <2>3
<1>3. \A t \in Handling(u)' : \A b \in t.about : Found(u, t, b)'
  OBVIOUS
<1> HIDE DEF Leaves
<1>4. \A b, c \in Of(u) : Live(u, b)' /\ Live(u, c)' => b = c
  BY <1>2
<1>5. \A b \in Of(u) : Merged(u, b)'
  BY <1>2 DEF Leaves
<1> QED
  BY <1>1, <1>3, <1>4, <1>5 DEF SourceFits, Of

LEMMA StartSources ==
    ASSUME Typed, SourceInv, NEW t \in Handler, Begins(t)
    PROVE  SourceInv'
<1>1. /\ Elsewhere(t.p) /\ Handling(t.p)' = Handling(t.p) \cup {t} /\ t.p \in Rows
      /\ ~disturbed'[t.p] => ~disturbed[t.p] /\ Handling(t.p) = {}
  BY PoolStarts DEF Begins, Handler
<1>2. UNCHANGED <<userStatus, acct, merged>>
  BY DEF Begins, transferVars, accountVars
<1>3. \A u \in Users \ {t.p} : SourceFits(u)'
  <2>1. \A u \in Users : SameFor(u)
    BY <1>2 DEF SameFor
  <2> QED
    BY <1>1, <2>1, SourcesElsewhere
<1>4. ASSUME t.p \in Users, ~disturbed'[t.p]
      PROVE  SourceFits(t.p)'
  <2> DEFINE u == t.p
  <2>1. Handling(u)' = {t} /\ Handling(u) = {} /\ ~disturbed[u]
    BY <1>1, <1>4
  <2>2. PICK a \in Of(u) : t.about = {a} /\ t.at \in {"offer", "agree", "cancel", "apply"}
    <3>1. t.p \notin Codes /\ t.p # "reserve"
      BY <1>4, AccountAssumption
    <3> QED
      BY <3>1 DEF Begins, Formed, Ready, Entries, CodeSteps, HoldSteps, ReviewSteps, Of
  <2>3. /\ \A b, c \in Of(u) : IsOpen(b) /\ IsOpen(c) => b = c
        /\ \A b \in Of(u) : Merged(u, b)
    BY <1>4, <2>1 DEF SourceInv, SourceFits, Live
  <2>4. /\ t.at = "offer" => /\ acct[a] = "none" /\ userStatus[u] # "BANNED"
                             /\ \A b \in Of(u) : ~IsOpen(b)
        /\ t.at \in {"agree", "cancel"} => acct[a] = "PENDING_USER"
        /\ t.at = "apply" => acct[a] = "IN_REVIEW"
    BY <2>2 DEF Begins, Ready
  <2>5. \A b \in Of(u) \ {a} : ~IsOpen(b)
    BY <2>2, <2>3, <2>4 DEF IsOpen
  <2>6. Found(u, t, a)'
    BY <1>2, <2>1, <2>2, <2>3, <2>4 DEF Found, Merged
  <2>7. Merged(u, a)'
    BY <1>2, <2>1, <2>3 DEF Merged
  <2> HIDE DEF u
  <2>8. Leaves(u, a)
    BY <1>2, <2>1, <2>2, <2>5, <2>6, <2>7 DEF Leaves
  <2> QED
    BY <1>4, <2>3, <2>8, SourceLeft DEF u
<1>5. ASSUME t.p \in Users, disturbed'[t.p] PROVE SourceFits(t.p)'
  BY <1>5 DEF SourceFits
<1> QED
  BY <1>3, <1>4, <1>5 DEF SourceInv

\* An undisturbed source account has this handler and no other, and no other
\* transfer is going on.
LEMMA SourceAlone ==
    ASSUME Typed, SourceInv, NEW t \in tasks, t.at \in ReviewSteps, NEW a \in t.about,
           ~disturbed[t.p]
    PROVE  /\ Handling(t.p) = {t} /\ Merged(t.p, a) /\ Found(t.p, t, a)
           /\ \A b \in Of(t.p) : Merged(t.p, b)
           /\ \A b \in Of(t.p) \ {a} : ~IsOpen(b)
<1>1. t.p \in Users /\ a \in Of(t.p) /\ t \in Handling(t.p)
  BY OfReview DEF Of, Handling
<1>2. SourceFits(t.p)
  BY <1>1 DEF SourceInv
<1>3. /\ Handling(t.p) = {t} /\ Merged(t.p, a) /\ Found(t.p, t, a)
      /\ \A b \in Of(t.p) : Merged(t.p, b)
      /\ \A b, c \in Of(t.p) : Live(t.p, b) /\ Live(t.p, c) => b = c
  BY <1>1, <1>2 DEF SourceFits
<1>4. \A b \in Of(t.p) \ {a} : ~IsOpen(b)
  BY <1>1, <1>3 DEF Live
<1> QED
  BY <1>3, <1>4

\* The three columns of a transfer after its handler's step.
Writes(t, a) ==
    /\ \A b \in Accounts \ {a} : acct'[b] = acct[b] /\ merged'[b] = merged[b]
    /\ \A u \in Users \ {t.p} : userStatus'[u] = userStatus[u]
    /\ LET kept == acct'[a] = acct[a] /\ merged'[a] = merged[a]
                   /\ userStatus'[t.p] = userStatus[t.p]
           sets(s) == acct'[a] = s /\ merged'[a] = merged[a]
                      /\ userStatus'[t.p] = userStatus[t.p]
       IN  \/ t.at = "offer" /\ sets("PENDING_USER")
              /\ \E u \in Handler : GoesOn(t, u) /\ u.at = "invite"
           \/ t.at \in {"invite", "cancel"} /\ (kept \/ sets("CANCELLED")) /\ Return(t)
           \/ /\ t.at = "agree" /\ Return(t)
              /\ acct'[a] = "IN_REVIEW" /\ merged'[a] = merged[a]
              /\ userStatus'[t.p] = "SUSPENDED"
           \/ t.at = "apply" /\ kept /\ \E u \in Handler : GoesOn(t, u) /\ u.at = "merge"
           \/ /\ t.at = "merge" /\ \E u \in Handler : GoesOn(t, u) /\ u.at = "complete"
              /\ acct'[a] = acct[a] /\ merged'[a] = merged[a] + 1
              /\ userStatus'[t.p] = "BANNED"
           \/ t.at = "merge" /\ sets("FAILED") /\ Return(t)
           \/ t.at = "complete" /\ sets("COMPLETED") /\ Return(t)

LEMMA AccountWrites ==
    ASSUME Typed, NEW t \in tasks, AccountSteps(t)
    PROVE  /\ t.at \in ReviewSteps
           /\ \E a \in t.about : a \in Accounts /\ t.p = Source[a] /\ t.p \in Users /\ Writes(t, a)
<1>1. PICK a \in t.about :
        \/ Offers(t, a) \/ Invites(t, a) \/ AgreeCommits(t, a) \/ CancelCommits(t, a)
        \/ ApplyReads(t, a) \/ ApplyCommits(t, a) \/ ApplyFails(t, a)
        \/ CompleteCommits(t, a)
  BY DEF AccountSteps
<1>2. t.at \in ReviewSteps
  BY AccountPasses
<1>3. /\ a \in Accounts /\ t.p = Source[a] /\ t.p \in Users
      /\ Destination[a] \in Users
  BY <1>2, OfReview
<1>4. /\ acct \in [Accounts -> Statuses] /\ merged \in [Accounts -> Nat]
      /\ userStatus \in [Users -> {"ACTIVE", "SUSPENDED", "BANNED"}]
  BY DEF Typed, TypeOK, TransferTypeOK
<1>5. CASE Offers(t, a)
  <2>1. <<t.at, "invite">> \in Pairs /\ "invite" \in Steps \ {"debit"} /\ Move(t, "invite")
    BY <1>5 DEF Offers, At, Pairs, Steps
  <2>2. \E u \in Handler : GoesOn(t, u) /\ u.at = "invite"
    BY <2>1, Moves
  <2> QED
    BY <1>2, <1>3, <1>4, <1>5, <2>2 DEF Offers, At, Writes
<1>6. CASE Invites(t, a) \/ CancelCommits(t, a)
  BY <1>2, <1>3, <1>4, <1>6 DEF Invites, CancelCommits, At, Writes
<1>7. CASE AgreeCommits(t, a)
  BY <1>2, <1>3, <1>4, <1>7 DEF AgreeCommits, At, Writes
<1>8. CASE ApplyReads(t, a)
  <2>1. available[Source[a]] \in Nat /\ available[Destination[a]] \in Nat
    BY <1>3 DEF Typed, TypeOK, WalletTypeOK
  <2>2. t.at = "apply" /\ UNCHANGED <<acct, merged, userStatus>>
    BY <1>8 DEF ApplyReads, At, accountVars
  <2>3. <<t.at, "merge">> \in Pairs /\ "merge" \in Steps
    BY <2>2 DEF Pairs, Steps
  <2>4. Continue(t, [t EXCEPT !.at = "merge", !.seen = available[Source[a]],
                              !.other = available[Destination[a]]])
    BY <1>8 DEF ApplyReads
  <2>5. \E u \in Handler : GoesOn(t, u) /\ u.at = "merge"
    BY <2>1, <2>3, <2>4, Goes
  <2> QED
    BY <1>2, <1>3, <2>2, <2>5 DEF Writes
<1>9. CASE ApplyCommits(t, a)
  <2>1. <<t.at, "complete">> \in Pairs /\ "complete" \in Steps \ {"debit"} /\ Move(t, "complete")
    BY <1>9 DEF ApplyCommits, At, Pairs, Steps
  <2>2. \E u \in Handler : GoesOn(t, u) /\ u.at = "complete"
    BY <2>1, Moves
  <2>3. /\ t.at = "merge" /\ userStatus' = [userStatus EXCEPT ![t.p] = "BANNED"]
        /\ merged' = [merged EXCEPT ![a] = @ + 1] /\ UNCHANGED acct
    BY <1>3, <1>9, MergeIs
  <2> QED
    BY <1>2, <1>3, <1>4, <2>2, <2>3 DEF Writes
<1>10. CASE ApplyFails(t, a)
  BY <1>2, <1>3, <1>4, <1>10 DEF ApplyFails, At, Writes
<1>11. CASE CompleteCommits(t, a)
  BY <1>2, <1>3, <1>4, <1>11 DEF CompleteCommits, At, Writes
<1> QED
  BY <1>1, <1>5, <1>6, <1>7, <1>8, <1>9, <1>10, <1>11

LEMMA AccountStepSources ==
    ASSUME Typed, SourceInv, NEW t \in tasks, AccountSteps(t)
    PROVE  SourceInv'
<1>1. t.at \in ReviewSteps /\ Passes(t)
  BY AccountPasses
<1>2. PICK a \in t.about : a \in Accounts /\ t.p = Source[a] /\ t.p \in Users /\ Writes(t, a)
  BY AccountWrites
<1>3. UNCHANGED disturbed /\ Elsewhere(t.p) /\ t.p \in Rows /\ t.about = {a}
  BY <1>1, PassPool, OfReview
<1>4. \A v \in Users \ {t.p} : SourceFits(v)'
  <2>1. \A v \in Users \ {t.p} : SameFor(v)
    BY <1>2 DEF SameFor, Writes, Of
  <2> QED
    BY <1>3, <2>1, SourcesElsewhere
<1>5. CASE disturbed[t.p]
  BY <1>3, <1>4, <1>5 DEF SourceInv, SourceFits
<1>6. CASE ~disturbed[t.p]
  <2> DEFINE u == t.p
  <2>1. /\ Handling(u) = {t} /\ Merged(u, a) /\ Found(u, t, a)
        /\ \A b \in Of(u) : Merged(u, b)
        /\ \A b \in Of(u) \ {a} : ~IsOpen(b)
    BY <1>1, <1>6, SourceAlone
  <2>2. a \in Of(u) /\ merged[a] \in Nat
    BY <1>2 DEF Of, Typed, TypeOK
  <2>3. \A b \in Of(u) \ {a} : acct'[b] = acct[b] /\ merged'[b] = merged[b] /\ ~IsOpen(b)
    BY <1>2, <2>1 DEF Of, Writes
  <2>4. ASSUME Return(t)
        PROVE  Handling(u)' = {}
    BY <2>1, <2>4, PoolEnds
  <2>5. ASSUME NEW s, \E w \in Handler : GoesOn(t, w) /\ w.at = s
        PROVE  \E w : Handling(u)' = {w} /\ w.about = {a} /\ w.at = s
    BY <1>3, <2>1, <2>5, PoolMoves DEF GoesOn
  <2>6. ASSUME t.at = "offer"
        PROVE  Leaves(u, a)
    <3>1. acct'[a] = "PENDING_USER" /\ merged'[a] = merged[a] /\ userStatus'[u] = userStatus[u]
          /\ \E w \in Handler : GoesOn(t, w) /\ w.at = "invite"
      BY <1>2, <2>6 DEF Writes
    <3>2. acct[a] = "none" /\ userStatus[u] # "BANNED" /\ merged[a] = 0
      BY <2>1, <2>6 DEF Found, Merged
    <3>3. PICK w : Handling(u)' = {w} /\ w.about = {a} /\ w.at = "invite"
      BY <2>5, <3>1
    <3>4. Found(u, w, a)' /\ Merged(u, a)'
      BY <3>1, <3>2, <3>3 DEF Found, Merged
    <3> QED
      BY <2>2, <2>3, <3>1, <3>3, <3>4 DEF Leaves
  <2>7. ASSUME t.at \in {"invite", "cancel"}
        PROVE  Leaves(u, a)
    <3>1. /\ acct'[a] \in {acct[a], "CANCELLED"} /\ merged'[a] = merged[a]
          /\ userStatus'[u] = userStatus[u] /\ Return(t)
      BY <1>2, <2>7 DEF Writes
    <3>2. acct[a] = "PENDING_USER" /\ merged[a] = 0 /\ userStatus[u] # "BANNED"
      BY <2>1, <2>7 DEF Found, Merged
    <3>3. Merged(u, a)'
      BY <3>1, <3>2 DEF Merged
    <3> QED
      BY <2>2, <2>3, <2>4, <3>1, <3>3 DEF Leaves
  <2>8. ASSUME t.at = "agree"
        PROVE  Leaves(u, a)
    <3>1. /\ acct'[a] = "IN_REVIEW" /\ merged'[a] = merged[a]
          /\ userStatus'[u] = "SUSPENDED" /\ Return(t)
      BY <1>2, <2>8 DEF Writes
    <3>2. acct[a] = "PENDING_USER" /\ merged[a] = 0 /\ userStatus[u] # "BANNED"
      BY <2>1, <2>8 DEF Found, Merged
    <3>3. Merged(u, a)'
      BY <3>1, <3>2 DEF Merged
    <3> QED
      BY <2>2, <2>3, <2>4, <3>1, <3>2, <3>3 DEF Leaves
  <2>9. ASSUME t.at = "apply"
        PROVE  Leaves(u, a)
    <3>1. acct'[a] = acct[a] /\ merged'[a] = merged[a] /\ userStatus'[u] = userStatus[u]
          /\ \E w \in Handler : GoesOn(t, w) /\ w.at = "merge"
      BY <1>2, <2>9 DEF Writes
    <3>2. acct[a] = "IN_REVIEW" /\ merged[a] = 0
      BY <2>1, <2>9 DEF Found
    <3>3. PICK w : Handling(u)' = {w} /\ w.about = {a} /\ w.at = "merge"
      BY <2>5, <3>1
    <3>4. Found(u, w, a)' /\ Merged(u, a)'
      BY <2>1, <3>1, <3>2, <3>3 DEF Found, Merged
    <3> QED
      BY <2>2, <2>3, <3>1, <3>3, <3>4 DEF Leaves
  <2>10. ASSUME t.at = "merge", userStatus'[u] = "BANNED", merged'[a] = merged[a] + 1,
                acct'[a] = acct[a], \E w \in Handler : GoesOn(t, w) /\ w.at = "complete"
         PROVE  Leaves(u, a)
    <3>1. acct[a] = "IN_REVIEW" /\ merged[a] = 0
      BY <2>1, <2>10 DEF Found
    <3>2. PICK w : Handling(u)' = {w} /\ w.about = {a} /\ w.at = "complete"
      BY <2>5, <2>10
    <3>3. Found(u, w, a)' /\ Merged(u, a)'
      BY <2>10, <3>1, <3>2 DEF Found, Merged
    <3> QED
      BY <2>2, <2>3, <2>10, <3>2, <3>3 DEF Leaves
  <2>11. ASSUME t.at = "merge", acct'[a] = "FAILED", merged'[a] = merged[a],
                userStatus'[u] = userStatus[u], Return(t)
         PROVE  Leaves(u, a)
    <3>1. Merged(u, a)'
      BY <2>1, <2>11 DEF Found, Merged
    <3> QED
      BY <2>2, <2>3, <2>4, <2>11, <3>1 DEF Leaves
  <2>12. ASSUME t.at = "complete"
        PROVE  Leaves(u, a)
    <3>1. acct'[a] = "COMPLETED" /\ merged'[a] = merged[a] /\ userStatus'[u] = userStatus[u]
          /\ Return(t)
      BY <1>2, <2>12 DEF Writes
    <3>2. Merged(u, a)'
      BY <2>1, <2>12, <3>1 DEF Found, Merged
    <3> QED
      BY <2>2, <2>3, <2>4, <3>1, <3>2 DEF Leaves
  <2>13. Leaves(u, a)
    BY <1>2, <2>6, <2>7, <2>8, <2>9, <2>10, <2>11, <2>12 DEF Writes
  <2>14. SourceFits(u)'
    <3> HIDE DEF u
    <3> QED BY <1>2, <2>1, <2>13, SourceLeft DEF u
  <2> QED
    BY <1>4, <2>14 DEF SourceInv
<1> QED
  BY <1>5, <1>6

\* A handler whose process dies leaves no more than it found.
LEMMA CrashSources ==
    ASSUME Typed, SourceInv, NEW t \in tasks, Crash(t), t.p \in Users,
           UNCHANGED <<userStatus, acct, merged>>
    PROVE  SourceFits(t.p)'
<1> DEFINE u == t.p
<1>1. CASE t.at = "complete"
  <2>1. disturbed'[u]
    BY <1>1 DEF Crash, LoseTrack, Typed, TypeOK, Handler
  <2> QED
    BY <2>1 DEF SourceFits
<1>2. CASE t.at # "complete"
  <2>1. Handling(u)' = Handling(u) \ {t} /\ disturbed' = disturbed
    BY <1>2, PoolEnds DEF Crash
  <2>2. t.at \in ReviewSteps /\ \E a \in Of(u) : t.about = {a}
    BY OnSource DEF Handling
  <2>3. PICK a \in Of(u) : t.about = {a}
    BY <2>2
  <2>4. CASE disturbed[u]
    BY <2>1, <2>4 DEF SourceFits
  <2>5. CASE ~disturbed[u]
    <3>1. /\ Handling(u) = {t} /\ Merged(u, a)
          /\ \A b \in Of(u) : Merged(u, b)
          /\ \A b \in Of(u) \ {a} : ~IsOpen(b)
      BY <2>2, <2>3, <2>5, SourceAlone
    <3>2. Merged(u, a)'
      BY <1>2, <2>1, <3>1 DEF Merged
    <3>3. Leaves(u, a)
      BY <2>1, <2>3, <3>1, <3>2 DEF Leaves
    <3> HIDE DEF u
    <3> QED
      BY <3>1, <3>3, SourceLeft DEF u
  <2> QED
    BY <2>4, <2>5
<1> QED
  BY <1>1, <1>2

LEMMA NextSources ==
    ASSUME Typed, SourceInv, [Next]_vars
    PROVE  SourceInv'
<1>1. ASSUME NEW w \in Workers, Start(w) PROVE SourceInv'
  BY <1>1, StartBegins, StartSources
<1>2. ASSUME NEW t \in tasks, Step(t) PROVE SourceInv'
  <2>1. t.p \in Rows /\ t \in Handler
    BY DEF Typed, TypeOK, Handler
  <2>2. Elsewhere(t.p)
    BY <1>2, StepPasses, PassKeeps
  <2>3. CASE (TransferSteps(t) /\ UNCHANGED accountVars)
             \/ (ReserveSteps(t) /\ UNCHANGED <<transferVars, accountVars>>)
    <3>1. UNCHANGED <<userStatus, acct, merged>>
      BY <2>3 DEF TransferSteps, Supersedes, Creates, Mails, WrongCode, TransferRefused,
                  TransferCommits, Consumes, WithdrawReads, WithdrawCommits, transferVars,
                  accountVars
    <3>2. t.p \notin Users
      BY <2>3, CodePasses, ReservePasses, OfCode, OfReserve
    <3>3. \A u \in Users : SameFor(u)
      BY <3>1 DEF SameFor
    <3> QED
      BY <2>1, <2>2, <3>2, <3>3, SourcesElsewhere DEF SourceInv
  <2>4. CASE AccountSteps(t)
    BY <2>4, AccountStepSources
  <2>5. CASE Crash(t) /\ UNCHANGED <<reserveVars, accountVars>>
    <3>1. UNCHANGED <<userStatus, acct, merged>>
      BY <2>5 DEF Crash, transferVars, accountVars
    <3>2. \A u \in Users : SameFor(u)
      BY <3>1 DEF SameFor
    <3>3. \A u \in Users \ {t.p} : SourceFits(u)'
      BY <2>1, <2>2, <3>2, SourcesElsewhere
    <3>4. t.p \in Users => SourceFits(t.p)'
      BY <2>5, <3>1, CrashSources
    <3> QED
      BY <3>3, <3>4 DEF SourceInv
  <2> QED
    BY <1>2, <2>3, <2>4, <2>5 DEF Step
<1>3. ASSUME UNCHANGED <<tasks, disturbed, userStatus, acct, merged>>
      PROVE  SourceInv'
  BY <1>3 DEF SourceInv, SourceFits, Handling, Live, IsOpen, Merged, Found, Of
<1>4. ASSUME NEW c \in Codes, Minutes(c), UNCHANGED accountVars PROVE SourceInv'
  BY <1>3, <1>4 DEF Minutes, taskVars, accountVars, Handling
<1>5. CASE UNCHANGED vars
  BY <1>3, <1>5 DEF vars, taskVars, transferVars, accountVars, Handling
<1> QED
  BY <1>1, <1>2, <1>4, <1>5 DEF Next

LEMMA InitSources == Init => SourceInv
<1> SUFFICES ASSUME Init PROVE SourceInv
  OBVIOUS
<1>1. \A r : Handling(r) = {}
  BY DEF Init, Handling
<1>2. /\ \A a \in Accounts : acct[a] = "none" /\ merged[a] = 0
      /\ \A u \in Users : userStatus[u] = "ACTIVE"
  BY DEF Init, TransferInit
<1>3. ASSUME NEW u \in Users PROVE SourceFits(u)
  <2>1. \A a \in Of(u) : ~Live(u, a) /\ Merged(u, a)
    BY <1>1, <1>2 DEF Of, Live, IsOpen, Merged
  <2> QED
    BY <1>1, <2>1 DEF SourceFits
<1> QED
  BY <1>3 DEF SourceInv

\* Unless handlers of one source account overlapped, or one died between the
\* merger and its record, the status of a transfer says what was moved: nothing
\* until it is completed, and then once (agree, finalize and applyTransfer of
\* account-transfer.service.ts read the status and write it in separate calls).
THEOREM StatusTellsMerger == Spec => []AccountsFollow
<1>1. Init => Typed /\ SourceInv
  BY InitTyped, InitSources
<1>2. Typed /\ SourceInv /\ [Next]_vars => Typed' /\ SourceInv'
  BY NextTyped, NextSources
<1>3. Typed /\ SourceInv => AccountsFollow
  <2> SUFFICES ASSUME Typed, SourceInv, NEW a \in Accounts, ~disturbed[Source[a]]
               PROVE  /\ acct[a] = "COMPLETED" => merged[a] = 1 /\ userStatus[Source[a]] = "BANNED"
                      /\ acct[a] = "IN_REVIEW" => userStatus[Source[a]] # "ACTIVE"
                      /\ acct[a] \in {"PENDING_USER", "CANCELLED", "FAILED"} => merged[a] = 0
                      /\ (merged[a] = 1 /\ acct[a] # "COMPLETED") => \E t \in tasks : a \in t.about
    BY DEF AccountsFollow
  <2>1. Merged(Source[a], a)
    BY AccountAssumption DEF SourceInv, SourceFits, Of
  <2>2. acct[a] \in Statuses
    BY DEF Typed, TypeOK
  <2> QED
    BY <2>1, <2>2 DEF Merged, Handling, Statuses
<1> QED
  BY <1>1, <1>2, <1>3, PTL DEF Spec

-----------------------------------------------------------------------------
\* The books.
\* A total when one wallet changes ...
LEMMA TotalChange ==
    ASSUME NEW f \in [Users -> Int], NEW u \in Users, NEW n \in Int
    PROVE  /\ Total(f) \in Int
           /\ Total([f EXCEPT ![u] = n]) = Total(f) + (n - f[u])
<1> DEFINE g == [f EXCEPT ![u] = n]
<1>1. IsFiniteSet(Users)
  BY AccountAssumption
<1>2. DifferAt(f, g, Users, u) /\ g[u] = n
  BY <1>1 DEF DifferAt
<1> HIDE DEF g
<1>3. SumOver(f, Users) \in Int /\ SumOver(g, Users) = SumOver(f, Users) + (g[u] - f[u])
  BY <1>2, SumOverChange
<1> QED
  BY <1>2, <1>3 DEF Total, g

\* ... and when two do.
TwoDiffer(f, g, u, v) ==
    /\ f \in [Users -> Int] /\ g \in [Users -> Int] /\ u \in Users /\ v \in Users /\ u # v
    /\ \A x \in Users \ {u, v} : g[x] = f[x]

LEMMA TotalMoves ==
    ASSUME NEW f, NEW g, NEW u, NEW v, TwoDiffer(f, g, u, v)
    PROVE  Total(f) \in Int /\ Total(g) = Total(f) + ((g[u] - f[u]) + (g[v] - f[v]))
<1> USE DEF TwoDiffer
<1> DEFINE h == [f EXCEPT ![u] = g[u]]
<1>1. h \in [Users -> Int] /\ h[v] = f[v] /\ g = [h EXCEPT ![v] = g[v]]
  OBVIOUS
<1>2. f[u] \in Int /\ f[v] \in Int /\ g[u] \in Int /\ g[v] \in Int
  OBVIOUS
<1>3. Total(h) = Total(f) + (g[u] - f[u]) /\ Total(f) \in Int
  BY <1>2, TotalChange
<1> HIDE DEF h
<1>4. Total([h EXCEPT ![v] = g[v]]) = Total(h) + (g[v] - h[v])
  BY <1>1, <1>2, TotalChange
<1>5. Total(g) = (Total(f) + (g[u] - f[u])) + (g[v] - f[v])
  BY <1>1, <1>3, <1>4
<1> HIDE DEF TwoDiffer
<1> QED
  BY <1>2, <1>3, <1>5

\* A wallet and its reserve change by as much as was invented.
LEMMA HoldBooks ==
    ASSUME Typed, Books, NEW t \in tasks, ReserveSteps(t), UNCHANGED spent
    PROVE  Books'
<1> SUFFICES ASSUME \A u \in Users : ~stale'[u]
             PROVE  Total(available)' + Total(reserve)'
                      = Total(Opening)' + Total(minted)' - SumOver(paidFor, WithdrawCodes)'
  BY DEF Books
<1>1. /\ t.user \in Users /\ \A v \in Users : ~stale[v]
      /\ t.seen = available[t.user] /\ t.other = reserve[t.user]
  BY HoldIs
<1>2. PICK n \in Int, m \in Nat, k \in Nat :
        /\ available' = [available EXCEPT ![t.user] = t.seen + n]
        /\ reserve' = [reserve EXCEPT ![t.user] = m]
        /\ minted' = [minted EXCEPT ![t.user] = @ + k]
        /\ n + m = t.other + k
  BY HoldIs
<1>3. /\ available \in [Users -> Int] /\ reserve \in [Users -> Int] /\ minted \in [Users -> Int]
  BY DEF Typed, TypeOK, WalletTypeOK, ReserveTypeOK
<1>4. /\ available[t.user] \in Int /\ reserve[t.user] \in Int /\ minted[t.user] \in Int
      /\ t.seen + n \in Int /\ minted[t.user] + k \in Int /\ m \in Int /\ k \in Int
  BY <1>1, <1>3
<1>5. /\ Total(available) \in Int
      /\ Total(available') = Total(available) + ((t.seen + n) - available[t.user])
  BY <1>1, <1>2, <1>3, <1>4, TotalChange
<1>6. Total(reserve) \in Int /\ Total(reserve') = Total(reserve) + (m - reserve[t.user])
  BY <1>1, <1>2, <1>3, <1>4, TotalChange
<1>7. /\ Total(minted) \in Int
      /\ Total(minted') = Total(minted) + ((minted[t.user] + k) - minted[t.user])
  BY <1>1, <1>2, <1>3, <1>4, TotalChange
<1> DEFINE paidOut == SumOver(paidFor, WithdrawCodes)
<1>8. Total(available) + Total(reserve) = Total(Opening) + Total(minted) - paidOut
  BY <1>1 DEF Books
<1>9. paidOut' = paidOut
  BY DEF paidFor, WithdrawCodes
<1>10. Total(Opening) \in Int /\ paidOut \in Int
  <2>1. Opening \in [Users -> Int]
    BY OpeningAssumption
  <2>2. IsFiniteSet(WithdrawCodes) /\ \A c \in WithdrawCodes : paidFor[c] \in Int
    BY AccountAssumption, CodeAssumption, FS_Subset
       DEF WithdrawCodes, paidFor, Typed, TypeOK, TransferTypeOK
  <2> HIDE DEF paidOut
  <2>3. Total(Opening) \in Int
    BY <1>1, <2>1, TotalChange
  <2> QED
    BY <2>2, <2>3, SumOverType DEF paidOut
<1> HIDE DEF paidOut
<1>11. Total(available') + Total(reserve') = Total(Opening) + Total(minted') - paidOut
  <2> DEFINE A == Total(available)
             R == Total(reserve)
             M == Total(minted)
             O == Total(Opening)
  <2>1. A + R = O + M - paidOut
    BY <1>8
  <2>2. Total(available') = A + n /\ Total(reserve') = R + (m - t.other) /\ Total(minted') = M + k
    BY <1>1, <1>4, <1>5, <1>6, <1>7
  <2>3. A \in Int /\ R \in Int /\ M \in Int /\ O \in Int /\ t.other \in Int
    BY <1>1, <1>4, <1>5, <1>6, <1>7, <1>10
  <2>4. n + m = t.other + k /\ paidOut \in Int
    BY <1>2, <1>10
  <2> HIDE DEF A, R, M, O
  <2>5. (A + n) + (R + (m - t.other)) = O + (M + k) - paidOut
    BY <1>4, <2>1, <2>3, <2>4
  <2> QED
    BY <2>2, <2>5 DEF O
<1>12. Total(available)' = Total(available') /\ Total(reserve)' = Total(reserve')
       /\ Total(minted)' = Total(minted') /\ Total(Opening)' = Total(Opening)
  BY DEF Total
<1> QED
  BY <1>9, <1>11, <1>12 DEF paidOut

\* Nothing is booked.
LEMMA QuietBooks ==
    ASSUME Books, UNCHANGED <<reserve, minted>>, Total(available)' = Total(available),
           \A c \in WithdrawCodes : spent'[c] = spent[c],
           \A u \in Users : ~stale'[u] => ~stale[u]
    PROVE  Books'
<1>1. SumOver(paidFor, WithdrawCodes)' = SumOver(paidFor, WithdrawCodes)
  <2>1. paidFor' = paidFor
    BY DEF paidFor, WithdrawCodes
  <2> QED
    BY <2>1 DEF WithdrawCodes
<1> QED
  BY <1>1 DEF Books, Total

\* A withdrawal takes from the wallet what its code is then counted to have paid.
LEMMA PaymentCounts ==
    ASSUME Typed, NEW c \in WithdrawCodes, spent' = [spent EXCEPT ![c] = @ + 1]
    PROVE  /\ SumOver(paidFor, WithdrawCodes) \in Int
           /\ SumOver(paidFor, WithdrawCodes)'
                = SumOver(paidFor, WithdrawCodes) + CodeAmount[c]
<1> DEFINE g == paidFor'
<1>1. \A d \in WithdrawCodes : d \in Codes /\ spent[d] \in Nat /\ CodeAmount[d] \in Nat
  BY CodeAssumption DEF WithdrawCodes, Typed, TypeOK, TransferTypeOK
<1>2. IsFiniteSet(WithdrawCodes)
  BY AccountAssumption, FS_Subset DEF WithdrawCodes
<1>3. spent'[c] = spent[c] + 1 /\ \A d \in WithdrawCodes \ {c} : spent'[d] = spent[d]
  BY <1>1 DEF Typed, TypeOK, TransferTypeOK
<1>4. /\ \A d \in WithdrawCodes : paidFor[d] = CodeAmount[d] * spent[d]
      /\ \A d \in WithdrawCodes : g[d] = CodeAmount[d] * spent'[d]
  BY DEF paidFor, WithdrawCodes
<1>5. \A d \in WithdrawCodes : paidFor[d] \in Int
  BY <1>1, <1>4
<1> HIDE DEF g
<1>6. g[c] = paidFor[c] + CodeAmount[c]
  <2>1. \A n, m \in Nat : n * (m + 1) = n * m + n
    OBVIOUS
  <2> QED
    BY <1>1, <1>3, <1>4, <2>1
<1>7. DifferAt(paidFor, g, WithdrawCodes, c)
  BY <1>1, <1>2, <1>3, <1>4, <1>5, <1>6 DEF DifferAt
<1>8. /\ SumOver(paidFor, WithdrawCodes) \in Int
      /\ SumOver(g, WithdrawCodes) = SumOver(paidFor, WithdrawCodes) + (g[c] - paidFor[c])
  BY <1>7, SumOverChange
<1>9. SumOver(paidFor, WithdrawCodes)' = SumOver(g, WithdrawCodes)
  BY DEF g, WithdrawCodes
<1> QED
  BY <1>1, <1>5, <1>6, <1>8, <1>9

LEMMA WithdrawBooks ==
    ASSUME Typed, Books, NEW t \in tasks, WithdrawCommits(t), UNCHANGED reserveVars
    PROVE  Books'
<1>1. t.at = "debit" /\ t.at \in CodeSteps
  BY DEF WithdrawCommits, At, CodeSteps
<1>2. /\ t.p \in WithdrawCodes /\ t.user \in Users /\ CodeAmount[t.p] \in Nat
      /\ t.seen \in Nat /\ t.seen >= CodeAmount[t.p]
  BY <1>1, OfCode DEF Handler
<1>3. /\ AssignAndPost(t.user, t.seen, -CodeAmount[t.p], t.seen = available[t.user])
      /\ spent' = [spent EXCEPT ![t.p] = @ + 1]
  BY DEF WithdrawCommits
<1>4. -CodeAmount[t.p] = 0 - CodeAmount[t.p] /\ -CodeAmount[t.p] \in Int
      /\ t.seen + (-CodeAmount[t.p]) \in Nat /\ t.seen + (-CodeAmount[t.p]) \in Int
  BY <1>2
<1>5. /\ available' = [available EXCEPT ![t.user] = t.seen + (-CodeAmount[t.p])]
      /\ ~stale'[t.user] => t.seen = available[t.user]
      /\ \A v \in Users : ~stale'[v] => ~stale[v]
  <2> DEFINE intact == t.seen = available[t.user]
  <2>1. AssignAndPost(t.user, t.seen, -CodeAmount[t.p], intact) /\ intact \in BOOLEAN
    BY <1>3
  <2> HIDE DEF intact
  <2>2. /\ available' = [available EXCEPT ![t.user] = t.seen + (-CodeAmount[t.p])]
        /\ ~stale'[t.user] => intact
        /\ \A v \in Users : ~stale'[v] => ~stale[v]
    BY <1>2, <1>4, <2>1, Posts DEF Typed, TypeOK
  <2> QED
    BY <2>2 DEF intact
<1> SUFFICES ASSUME \A u \in Users : ~stale'[u]
             PROVE  Total(available)' + Total(reserve)'
                      = Total(Opening)' + Total(minted)' - SumOver(paidFor, WithdrawCodes)'
  BY DEF Books
<1> DEFINE paidOut == SumOver(paidFor, WithdrawCodes)
           A == Total(available)
           R == Total(reserve)
           M == Total(minted)
           O == Total(Opening)
<1>6. A + R = O + M - paidOut
  BY <1>5 DEF Books
<1>7. paidOut \in Int /\ paidOut' = paidOut + CodeAmount[t.p]
  BY <1>2, <1>3, PaymentCounts
<1>8. /\ available \in [Users -> Int] /\ reserve \in [Users -> Int]
      /\ minted \in [Users -> Int] /\ Opening \in [Users -> Int]
  BY OpeningAssumption DEF Typed, TypeOK, WalletTypeOK, ReserveTypeOK
<1>9. A \in Int /\ R \in Int /\ M \in Int /\ O \in Int
  BY <1>2, <1>8, TotalChange
<1>10. Total(available') = A + ((t.seen + (-CodeAmount[t.p])) - available[t.user])
  BY <1>2, <1>4, <1>5, <1>8, TotalChange
<1>11. Total(available') = A - CodeAmount[t.p]
  <2>1. t.seen = available[t.user]
    BY <1>2, <1>5
  <2> HIDE DEF A
  <2> QED
    BY <1>2, <1>4, <1>9, <1>10, <2>1
<1>12. R' = R /\ M' = M /\ O' = O /\ A' = Total(available')
  BY DEF Total, reserveVars
<1> HIDE DEF A, R, M, O, paidOut
<1>13. A' + R' = O' + M' - paidOut'
  BY <1>2, <1>6, <1>7, <1>9, <1>11, <1>12
<1> QED
  BY <1>13 DEF A, R, M, O, paidOut

\* A transfer gives what it takes ...
LEMMA CommitBooks ==
    ASSUME Typed, Books, NEW t \in tasks, TransferCommits(t), UNCHANGED reserveVars
    PROVE  Books'
<1> DEFINE c == t.p
           u == From[c]
           v == To[c]
<1>1. /\ c \in TransferCodes /\ c \in Codes /\ u \in Users /\ v \in Users /\ u # v
      /\ CodeAmount[c] \in Nat
      /\ available' = MovesFor(available, c)
      /\ spent' = [spent EXCEPT ![c] = @ + 1] /\ UNCHANGED stale
  BY CommitIs
<1>2. available \in [Users -> Int]
  BY DEF Typed, TypeOK, WalletTypeOK
<1> HIDE DEF c, u, v
<1>3. /\ available'[u] = available[u] - CodeAmount[c]
      /\ available'[v] = available[v] + CodeAmount[c]
      /\ available' \in [Users -> Int] /\ \A x \in Users \ {u, v} : available'[x] = available[x]
  BY <1>1, <1>2 DEF MovesFor, u, v
<1>4. available[u] \in Int /\ available[v] \in Int
  BY <1>1, <1>2
<1>5. TwoDiffer(available, available', u, v)
  BY <1>1, <1>2, <1>3 DEF TwoDiffer
<1>6. Total(available') = Total(available)
  <2>1. /\ Total(available) \in Int
        /\ Total(available') = Total(available)
             + ((available'[u] - available[u]) + (available'[v] - available[v]))
    BY <1>5, TotalMoves
  <2> QED
    BY <1>1, <1>3, <1>4, <2>1
<1>7. \A d \in WithdrawCodes : spent'[d] = spent[d]
  BY <1>1 DEF WithdrawCodes, Typed, TypeOK, TransferTypeOK
<1>8. Total(available)' = Total(available)
  BY <1>6 DEF Total
<1> QED
  BY <1>1, <1>7, <1>8, QuietBooks DEF reserveVars

\* ... and so does a merger, unless what it read has changed.
LEMMA MergeBooks ==
    ASSUME Typed, Books, NEW t \in tasks, NEW a \in t.about, ApplyCommits(t, a),
           UNCHANGED <<codeVars, reserveVars>>
    PROVE  Books'
<1> DEFINE u == Source[a]
           v == Destination[a]
<1>1. /\ u \in Users /\ v \in Users /\ u # v /\ t.seen \in Nat /\ t.other \in Nat
      /\ available' = [available EXCEPT ![u] = 0, ![v] = t.seen + t.other]
      /\ \A x \in Users : ~stale'[x] =>
           ~stale[x] /\ (x = u => t.seen = available[u] /\ t.other = available[v])
  BY MergeIs
<1>2. available \in [Users -> Int]
  BY DEF Typed, TypeOK, WalletTypeOK
<1> HIDE DEF u, v
<1>3. CASE \A x \in Users : ~stale'[x]
  <2>1. t.seen = available[u] /\ t.other = available[v]
    BY <1>1, <1>3
  <2>2. /\ available'[u] = 0 /\ available'[v] = t.seen + t.other
        /\ \A x \in Users \ {u, v} : available'[x] = available[x]
        /\ available' \in [Users -> Int]
    BY <1>1, <1>2
  <2>3. TwoDiffer(available, available', u, v)
    BY <1>1, <1>2, <2>2 DEF TwoDiffer
  <2>4. Total(available') = Total(available)
    <3>1. /\ Total(available) \in Int
          /\ Total(available') = Total(available)
               + ((available'[u] - available[u]) + (available'[v] - available[v]))
      BY <2>3, TotalMoves
    <3> QED
      BY <1>1, <2>1, <2>2, <3>1
  <2>5. Total(available)' = Total(available)
    BY <2>4 DEF Total
  <2>6. UNCHANGED <<reserve, minted>> /\ \A c \in WithdrawCodes : spent'[c] = spent[c]
    BY DEF codeVars, reserveVars
  <2> QED
    BY <1>1, <2>5, <2>6, QuietBooks
<1>4. CASE ~ \A x \in Users : ~stale'[x]
  BY <1>4 DEF Books
<1> QED
  BY <1>3, <1>4

LEMMA NextBooks ==
    ASSUME Typed, Books, [Next]_vars
    PROVE  Books'
<1>1. ASSUME UNCHANGED <<walletVars, reserveVars, spent>> PROVE Books'
  BY <1>1, QuietBooks DEF walletVars, reserveVars, Total
<1>2. ASSUME NEW w \in Workers, Start(w) PROVE Books'
  BY <1>1, <1>2, StartBegins DEF Begins, transferVars, codeVars
<1>3. ASSUME NEW t \in tasks, Step(t) PROVE Books'
  <2>1. CASE TransferSteps(t) /\ UNCHANGED <<reserveVars, accountVars>>
    <3>1. CASE TransferCommits(t)
      BY <2>1, <3>1, CommitBooks
    <3>2. CASE WithdrawCommits(t)
      BY <2>1, <3>2, WithdrawBooks
    <3>3. CASE ~TransferCommits(t) /\ ~WithdrawCommits(t)
      <4>1. UNCHANGED <<walletVars, spent>>
        BY <2>1, <3>3 DEF TransferSteps, Supersedes, Creates, Mails, WrongCode,
                          TransferRefused, Consumes, WithdrawReads, transferVars, codeVars
      <4> QED
        BY <1>1, <2>1, <4>1
    <3> QED
      BY <3>1, <3>2, <3>3
  <2>2. CASE ReserveSteps(t) /\ UNCHANGED <<transferVars, accountVars>>
    BY <2>2, HoldBooks DEF transferVars, codeVars
  <2>3. CASE AccountSteps(t) /\ UNCHANGED <<codeVars, reserveVars>>
    <3>1. PICK a \in t.about :
            \/ Offers(t, a) \/ Invites(t, a) \/ AgreeCommits(t, a) \/ CancelCommits(t, a)
            \/ ApplyReads(t, a) \/ ApplyCommits(t, a) \/ ApplyFails(t, a)
            \/ CompleteCommits(t, a)
      BY <2>3 DEF AccountSteps
    <3>2. CASE ApplyCommits(t, a)
      BY <2>3, <3>2, MergeBooks
    <3>3. CASE ~ApplyCommits(t, a)
      <4>1. UNCHANGED <<walletVars, spent>>
        BY <2>3, <3>1, <3>3 DEF Offers, Invites, AgreeCommits, CancelCommits, ApplyReads,
                                ApplyFails, CompleteCommits, codeVars
      <4> QED
        BY <1>1, <2>3, <4>1
    <3> QED
      BY <3>2, <3>3
  <2>4. CASE Crash(t) /\ UNCHANGED <<reserveVars, accountVars>>
    BY <1>1, <2>4 DEF Crash, transferVars, codeVars
  <2> QED
    BY <1>3, <2>1, <2>2, <2>3, <2>4 DEF Step
<1>4. ASSUME NEW c \in Codes, Minutes(c), UNCHANGED reserveVars PROVE Books'
  BY <1>1, <1>4 DEF Minutes
<1>5. CASE UNCHANGED vars
  BY <1>1, <1>5 DEF vars, transferVars, codeVars
<1> QED
  BY <1>2, <1>3, <1>4, <1>5 DEF Next

LEMMA InitBooks == Init => Books
<1> SUFFICES ASSUME Init PROVE Books
  OBVIOUS
<1>1. IsFiniteSet(Users) /\ IsFiniteSet(WithdrawCodes)
  BY AccountAssumption, FS_Subset DEF WithdrawCodes
<1>2. Total(available) = Total(Opening)
  BY DEF Init, WalletInit
<1>3. Total(reserve) = 0 /\ Total(minted) = 0
  BY <1>1, SumOverZero DEF Init, ReserveInit, Total
<1>4. SumOver(paidFor, WithdrawCodes) = 0
  <2>1. \A c \in WithdrawCodes : CodeAmount[c] \in Nat /\ spent[c] = 0
    BY CodeAssumption DEF Init, TransferInit, WithdrawCodes
  <2>2. \A c \in WithdrawCodes : paidFor[c] = 0
    BY <2>1 DEF paidFor
  <2> QED
    BY <1>1, <2>2, SumOverZero
<1>5. Total(Opening) \in Int
  <2>1. \A u \in Users : Opening[u] \in Int
    BY OpeningAssumption
  <2> QED
    BY <1>1, <2>1, SumOverType DEF Total
<1> QED
  BY <1>2, <1>3, <1>4, <1>5 DEF Books

\* What the platform holds for its users changes only by what withdrawals paid
\* out, once per code, and by what seeding the reserve invented, as long as no
\* absolute write of a wallet discarded another (confirmTransfer, withdraw and
\* the reserve of wallet.service.ts, applyTransfer of account-transfer.service.ts).
THEOREM MoneyIsConserved == Spec => []MoneyConserved
<1>1. Init => Typed /\ CodeInv /\ Books
  BY InitTyped, InitCodes, InitBooks
<1>2. Typed /\ CodeInv /\ Books /\ [Next]_vars => Typed' /\ CodeInv' /\ Books'
  BY NextTyped, NextCodes, NextBooks
<1>3. Typed /\ CodeInv /\ Books => MoneyConserved
  <2> SUFFICES ASSUME Typed, CodeInv
               PROVE  SumOver(paid, WithdrawCodes) = SumOver(paidFor, WithdrawCodes)
    BY DEF Books, MoneyConserved
  <2>1. ASSUME NEW c \in WithdrawCodes PROVE Times(c) = spent[c]
    <3>1. c \in Codes /\ spent[c] \in Nat /\ disturbed[c] \in BOOLEAN
      BY AccountAssumption DEF WithdrawCodes, Typed, TypeOK, TransferTypeOK
    <3>2. ~disturbed[c] => spent[c] <= 1
      BY <3>1 DEF CodeInv, PaysOnce
    <3> QED
      BY <3>1, <3>2 DEF Times, Least
  <2>2. \A c \in WithdrawCodes : paid[c] = paidFor[c]
    BY <2>1 DEF paid, paidFor
  <2>3. IsFiniteSet(WithdrawCodes)
    BY AccountAssumption, FS_Subset DEF WithdrawCodes
  <2> QED
    BY <2>2, <2>3, SumOverSame
<1> QED
  BY <1>1, <1>2, <1>3, PTL DEF Spec

-----------------------------------------------------------------------------
\* The refinement.  Where a code stands in the promise of its transfer.
Closed(c) == spent[c] = 0 /\ code[c] # "none" /\ ~Valid(c) /\ ~Paying(c)

LEMMA PhaseIs ==
    ASSUME Typed, NEW c \in Codes, spent[c] <= 1
    PROVE  Phase(c) = IF spent[c] = 1 THEN "done" ELSE IF Closed(c) THEN "closed" ELSE "open"
<1>1. spent[c] \in {0, 1}
  BY DEF Typed, TypeOK, TransferTypeOK
<1> QED
  BY <1>1 DEF Phase, Closed

phases == [c \in TransferCodes |-> Phase(c)]

\* A step that pays no transfer closes some of them, or none: a code that is
\* neither valid nor being paid for stays so.
Shuts(c) ==
    /\ spent'[c] = spent[c]
    /\ code[c] # "none" =>
         code'[c] # "none" /\ (Valid(c)' => Valid(c)) /\ (Paying(c)' => Paying(c) \/ Valid(c))

LEMMA ShutCloses ==
    ASSUME Typed, Typed', CodeInv, CodeInv', \A c \in TransferCodes : Shuts(c),
           UNCHANGED transferred
    PROVE  \E S \in SUBSET TransferCodes : Promise!Close(S)
<1> DEFINE S == {c \in TransferCodes : phases[c] = "open" /\ phases'[c] = "closed"}
<1>1. ASSUME NEW c \in TransferCodes
      PROVE  phases'[c] = IF c \in S THEN "closed" ELSE phases[c]
  <2>1. c \in Codes /\ spent[c] <= 1 /\ spent'[c] <= 1 /\ spent[c] \in Nat
    BY CodeAssumption DEF CodeInv, CodeFits, Typed, TypeOK, TransferTypeOK
  <2>2. Phase(c) = IF spent[c] = 1 THEN "done" ELSE IF Closed(c) THEN "closed" ELSE "open"
    BY <2>1, PhaseIs
  <2>3. Phase(c)' = IF spent'[c] = 1 THEN "done" ELSE IF Closed(c)' THEN "closed" ELSE "open"
    <3>1. (Typed /\ spent[c] <= 1)' => Phase(c)' =
            IF spent'[c] = 1 THEN "done" ELSE IF Closed(c)' THEN "closed" ELSE "open"
      <4>1. (Typed /\ spent[c] <= 1)' => spent'[c] \in {0, 1}
        BY <2>1 DEF Typed, TypeOK, TransferTypeOK
      <4> QED
        BY <4>1 DEF Phase, Closed
    <3> QED
      BY <2>1, <3>1
  <2>4. Closed(c) => Closed(c)'
    BY DEF Closed, Shuts
  <2>5. spent'[c] = spent[c] /\ phases[c] = Phase(c) /\ phases'[c] = Phase(c)'
    BY DEF Shuts, phases
  <2> QED
    BY <2>1, <2>2, <2>3, <2>4, <2>5
<1>2. phases' = [c \in TransferCodes |-> IF c \in S THEN "closed" ELSE phases[c]]
  <2>1. phases' = [c \in TransferCodes |-> phases'[c]]
    BY DEF phases
  <2> HIDE DEF S
  <2> QED
    BY <1>1, <2>1
<1>3. \A c \in S : phases[c] = "open"
  OBVIOUS
<1>4. S \in SUBSET TransferCodes
  OBVIOUS
<1> HIDE DEF S
<1> QED
  BY <1>2, <1>3, <1>4 DEF Promise!Close, phases

\* Handlers that come to a payment find their code valid.
LEMMA StartShuts ==
    ASSUME Typed, NEW t \in Handler, Begins(t)
    PROVE  UNCHANGED transferred /\ \A c \in TransferCodes : Shuts(c)
<1>1. UNCHANGED <<transferred, code, age, attempts, spent>>
  BY DEF Begins, transferVars, codeVars
<1>2. tasks' = tasks \cup {t} /\ (t.at = "pay" => Valid(t.p))
  BY DEF Begins, StartWith, Ready
<1> QED
  BY <1>1, <1>2 DEF Shuts, Valid, Paying

LEMMA CodeShuts ==
    ASSUME Typed, CodeInv, NEW t \in tasks, TransferSteps(t), ~TransferCommits(t)
    PROVE  UNCHANGED transferred /\ \A c \in TransferCodes : Shuts(c)
<1>1. t.at \in CodeSteps /\ \A s \in tasks' : s.at = "pay" => s \in tasks
  BY CodePasses, PassKeeps
<1>2. t.p \in Codes
  BY <1>1, OfCode
<1>3. UNCHANGED <<transferred, age>>
  BY DEF TransferSteps, Supersedes, Creates, Mails, WrongCode, TransferRefused, Consumes,
         WithdrawReads, WithdrawCommits, transferVars, codeVars
<1>4. code \in [Codes -> {"none", "open", "used"}] /\ attempts \in [Codes -> Nat]
      /\ spent \in [Codes -> Nat] /\ MaxAttempts \in Nat
  BY CodeAssumption DEF Typed, TypeOK, TransferTypeOK
<1>5. ASSUME NEW c \in TransferCodes
      PROVE  /\ spent'[c] = spent[c]
             /\ code[c] # "none" => code'[c] \in {code[c], "used"} /\ attempts'[c] >= attempts[c]
  <2>1. c \in Codes
    BY CodeAssumption
  <2>2. CASE Supersedes(t) \/ Mails(t) \/ TransferRefused(t) \/ Consumes(t) \/ WithdrawReads(t)
    <3>1. UNCHANGED <<attempts, spent>>
      BY <2>2 DEF Supersedes, Mails, TransferRefused, Consumes, WithdrawReads, transferVars,
                  codeVars
    <3>2. code'[c] \in {code[c], "used"}
      BY <1>2, <1>4, <2>1, <2>2
         DEF Supersedes, Mails, TransferRefused, Consumes, WithdrawReads, transferVars, codeVars
    <3> QED
      BY <1>4, <2>1, <3>1, <3>2
  <2>3. CASE Creates(t)
    <3>1. code[t.p] = "none" /\ UNCHANGED <<attempts, spent>>
      BY <1>2, <2>3 DEF Creates, At, CodeInv, CodeFits, Requesting, Handling
    <3>2. code' = [code EXCEPT ![t.p] = "open"]
      BY <2>3 DEF Creates
    <3> QED
      BY <1>4, <2>1, <3>1, <3>2
  <2>4. CASE WrongCode(t)
    <3>1. UNCHANGED <<code, spent>> /\ attempts' = [attempts EXCEPT ![t.p] = @ + 1]
      BY <2>4 DEF WrongCode
    <3> QED
      BY <1>4, <2>1, <3>1
  <2>5. CASE WithdrawCommits(t)
    <3>1. UNCHANGED <<code, attempts>> /\ spent' = [spent EXCEPT ![t.p] = @ + 1] /\ t.at = "debit"
      BY <2>5 DEF WithdrawCommits, At
    <3>2. t.p \in WithdrawCodes
      BY <1>1, <3>1, OfCode
    <3> QED
      BY <1>4, <2>1, <3>1, <3>2 DEF WithdrawCodes
  <2> QED
    BY <2>2, <2>3, <2>4, <2>5 DEF TransferSteps
<1>6. ASSUME NEW c \in TransferCodes PROVE Shuts(c)
  <2>1. c \in Codes /\ attempts[c] \in Nat
    BY <1>4, CodeAssumption
  <2>2. Paying(c)' => Paying(c)
    BY <1>1 DEF Paying
  <2>3. code[c] # "none" => code'[c] # "none"
    BY <1>5
  <2>4. code[c] # "none" /\ Valid(c)' => Valid(c)
    <3> SUFFICES ASSUME code[c] # "none", code'[c] = "open", age[c] # "expired",
                        attempts'[c] < MaxAttempts
                 PROVE  code[c] = "open" /\ attempts[c] < MaxAttempts
      BY <1>3 DEF Valid
    <3>1. attempts'[c] >= attempts[c] /\ code[c] = "open"
      BY <1>5
    <3>2. attempts'[c] \in Nat
      <4>1. UNCHANGED attempts \/ attempts' = [attempts EXCEPT ![t.p] = @ + 1]
        BY DEF TransferSteps, Supersedes, Creates, Mails, WrongCode, TransferRefused, Consumes,
               WithdrawReads, WithdrawCommits, transferVars, codeVars
      <4> QED
        BY <1>4, <2>1, <4>1
    <3> QED
      BY <1>4, <2>1, <3>1, <3>2
  <2> QED
    BY <1>5, <2>2, <2>3, <2>4 DEF Shuts
<1> QED
  BY <1>3, <1>6

\* The payment of a code completes its transfer.
LEMMA CommitCompletes ==
    ASSUME Typed, Typed', CodeInv, CodeInv', NEW t \in tasks, TransferCommits(t)
    PROVE  \E c \in TransferCodes : Promise!Complete(c)
<1> DEFINE c == t.p
<1>1. /\ c \in TransferCodes /\ c \in Codes /\ spent[c] = 0 /\ t.at = "pay" /\ Return(t)
      /\ transferred' = MovesFor(transferred, c)
      /\ spent' = [spent EXCEPT ![c] = @ + 1] /\ code' = [code EXCEPT ![c] = "used"]
      /\ UNCHANGED <<age, attempts>>
  BY CommitIs
<1> HIDE DEF c
<1>2. Paying(c)
  BY <1>1 DEF Paying, c
<1>3. Phase(c) = "open"
  BY <1>1, <1>2 DEF Phase
<1>4. Phase(c)' = "done"
  <2>1. spent'[c] = 1
    BY <1>1 DEF Typed, TypeOK, TransferTypeOK
  <2> QED
    BY <2>1 DEF Phase
<1>5. ASSUME NEW d \in TransferCodes \ {c} PROVE Phase(d)' = Phase(d)
  <2>1. d \in Codes
    BY CodeAssumption
  <2>2. code'[d] = code[d] /\ spent'[d] = spent[d]
    BY <1>1, <2>1 DEF Typed, TypeOK, TransferTypeOK
  <2>3. Valid(d)' = Valid(d)
    BY <1>1, <2>2 DEF Valid
  <2>4. Paying(d)' = Paying(d)
    BY <1>1 DEF Paying, Return, c
  <2> QED
    BY <2>2, <2>3, <2>4 DEF Phase
<1>6. phases' = [phases EXCEPT ![c] = "done"] /\ phases[c] = "open"
  BY <1>1, <1>3, <1>4, <1>5 DEF phases
<1>7. transferred' = [transferred EXCEPT ![From[c]] = @ - CodeAmount[c],
                                         ![To[c]] = @ + CodeAmount[c]]
  BY <1>1 DEF MovesFor
<1>8. [d \in TransferCodes |-> From[d]][c] = From[c] /\ [d \in TransferCodes |-> To[d]][c] = To[c]
      /\ [d \in TransferCodes |-> CodeAmount[d]][c] = CodeAmount[c]
  BY <1>1
<1> QED
  BY <1>1, <1>6, <1>7, <1>8 DEF Promise!Complete, phases

\* A merger of accounts, of which the promise knows no more than the books.
LEMMA MergeMerges ==
    ASSUME Typed, NEW t \in tasks, NEW a \in t.about, ApplyCommits(t, a), UNCHANGED codeVars
    PROVE  \E u, v \in Users : u # v /\ Promise!Merge(u, v)
<1>1. /\ Source[a] \in Users /\ Destination[a] \in Users /\ Source[a] # Destination[a]
      /\ transferred' = [transferred EXCEPT ![Source[a]] = 0,
                                            ![Destination[a]] = @ + transferred[Source[a]]]
  BY MergeIs
<1>2. \A c \in Codes : Paying(c)' = Paying(c)
  <2>1. PICK u \in Handler : GoesOn(t, u) /\ u.at = "complete"
    <3>1. <<t.at, "complete">> \in Pairs /\ "complete" \in Steps \ {"debit"} /\ Move(t, "complete")
      BY DEF ApplyCommits, At, Pairs, Steps
    <3> QED
      BY <3>1, Moves
  <2>2. tasks' = (tasks \ {t}) \cup {u} /\ t.at # "pay" /\ u.at # "pay"
    BY <2>1 DEF GoesOn, Continue, ApplyCommits, At
  <2> QED
    BY <2>2 DEF Paying
<1>3. \A c \in TransferCodes : Phase(c)' = Phase(c)
  BY <1>2, CodeAssumption DEF Phase, Valid, codeVars
<1>4. UNCHANGED phases
  BY <1>3 DEF phases
<1> QED
  BY <1>1, <1>4 DEF Promise!Merge, phases

LEMMA NextPromised ==
    ASSUME Typed, Typed', CodeInv, CodeInv', [Next]_vars
    PROVE  [Promise!Next]_(Promise!vars)
<1>1. ASSUME UNCHANGED transferred, \A c \in TransferCodes : Shuts(c)
      PROVE  Promise!Next
  BY <1>1, ShutCloses DEF Promise!Next
<1>2. ASSUME UNCHANGED <<transferred, codeVars>>, \A s \in tasks' : s.at = "pay" => s \in tasks
      PROVE  Promise!Next
  BY <1>1, <1>2 DEF Shuts, Valid, Paying, codeVars
<1>3. ASSUME NEW w \in Workers, Start(w) PROVE Promise!Next
  BY <1>1, <1>3, StartBegins, StartShuts
<1>4. ASSUME NEW t \in tasks, Step(t) PROVE Promise!Next
  <2>1. \A s \in tasks' : s.at = "pay" => s \in tasks
    BY <1>4, StepPasses, PassKeeps
  <2>2. CASE TransferSteps(t)
    <3>1. CASE TransferCommits(t)
      BY <3>1, CommitCompletes DEF Promise!Next
    <3>2. CASE ~TransferCommits(t)
      BY <1>1, <2>2, <3>2, CodeShuts
    <3> QED
      BY <3>1, <3>2
  <2>3. CASE (ReserveSteps(t) \/ Crash(t)) /\ (UNCHANGED transferVars \/ Crash(t))
    BY <1>2, <2>1, <2>3 DEF Crash, transferVars
  <2>4. CASE AccountSteps(t) /\ UNCHANGED codeVars
    <3>1. PICK a \in t.about :
            \/ Offers(t, a) \/ Invites(t, a) \/ AgreeCommits(t, a) \/ CancelCommits(t, a)
            \/ ApplyReads(t, a) \/ ApplyCommits(t, a) \/ ApplyFails(t, a)
            \/ CompleteCommits(t, a)
      BY <2>4 DEF AccountSteps
    <3>2. CASE ApplyCommits(t, a)
      BY <2>4, <3>2, MergeMerges DEF Promise!Next
    <3>3. CASE ~ApplyCommits(t, a)
      <4>1. UNCHANGED transferred
        BY <3>1, <3>3 DEF Offers, Invites, AgreeCommits, CancelCommits, ApplyReads, ApplyFails,
                          CompleteCommits
      <4> QED
        BY <1>2, <2>1, <2>4, <4>1
    <3> QED
      BY <3>2, <3>3
  <2> QED
    BY <1>4, <2>2, <2>3, <2>4 DEF Step
<1>5. ASSUME NEW c \in Codes, Minutes(c) PROVE Promise!Next
  <2>1. /\ code[c] = "open" /\ age[c] # "expired"
        /\ age' = [age EXCEPT ![c] = IF @ = "fresh" THEN "old" ELSE "expired"]
        /\ UNCHANGED <<tasks, code, attempts, spent, transferred>>
    BY <1>5 DEF Minutes, taskVars
  <2>2. \A d \in Codes \ {c} : age'[d] = age[d]
    BY <2>1 DEF Typed, TypeOK, TransferTypeOK
  <2>3. \A d \in Codes : Valid(d)' => Valid(d)
    BY <2>1, <2>2 DEF Valid
  <2>4. \A d \in TransferCodes : Shuts(d)
    BY <2>1, <2>3, CodeAssumption DEF Shuts, Paying
  <2> QED
    BY <1>1, <2>1, <2>4
<1>6. CASE UNCHANGED vars
  BY <1>2, <1>6 DEF vars, taskVars, transferVars
<1> QED
  BY <1>3, <1>4, <1>5, <1>6 DEF Next

LEMMA InitPromised == Init => Promise!Init
<1> SUFFICES ASSUME Init PROVE Promise!Init
  OBVIOUS
<1>1. transferred = [u \in Users |-> 0]
  BY DEF Init, TransferInit
<1>2. \A c \in TransferCodes : Phase(c) = "open"
  <2>1. \A c \in Codes : spent[c] = 0 /\ code[c] = "none"
    BY DEF Init, TransferInit
  <2> QED
    BY <2>1, CodeAssumption DEF Phase
<1> QED
  BY <1>1, <1>2 DEF Promise!Init

\* Codes, guesses, expiry, retries and the merger of accounts together implement
\* what a transfer promises: it happens once or never, it moves its amount in one
\* step, and it never happens after it was closed (requestTransferOtp and
\* confirmTransfer of wallet.service.ts).
THEOREM TransfersKeepPromise == Spec => PromiseKept
<1>1. Init => Typed /\ CodeInv /\ Promise!Init
  BY InitTyped, InitCodes, InitPromised
<1>2. Typed /\ CodeInv /\ [Next]_vars => Typed' /\ CodeInv'
  BY NextTyped, NextCodes
<1>3. Typed /\ Typed' /\ CodeInv /\ CodeInv' /\ [Next]_vars => [Promise!Next]_(Promise!vars)
  BY NextPromised
<1> QED
  BY <1>1, <1>2, <1>3, PTL DEF Spec, PromiseKept, Promise!Spec

=============================================================================
