---------------------------- MODULE WalletTransfer ----------------------------
(***************************************************************************)
(* Codes by e-mail, and what they authorise (wallet.service.ts, Trade      *)
(* Guard): requestTransferOtp and confirmTransfer, which moves money from  *)
(* one user to another, requestWithdrawOtp and withdraw, which takes it    *)
(* out.  Both keep a row per code with usedAt, expiresAt and attempts.     *)
(*                                                                         *)
(* Requests and confirmations are handlers of HandlerPool and the codes    *)
(* are its rows.  AccountTransfer completes the specification.             *)
(***************************************************************************)
EXTENDS PlatformWallet, HandlerPool

CONSTANTS
    Codes,
    TransferCodes,   \* those of transfers; the others are of withdrawals
    From, To,        \* [Codes -> Users]
    CodeAmount,      \* [Codes -> Nat], in cents
    MaxAttempts      \* wrong guesses of a code (5)

ASSUME CodeAssumption ==
    /\ TransferCodes \subseteq Codes
    /\ From \in [Codes -> Users] /\ To \in [Codes -> Users]
    /\ \A c \in TransferCodes : From[c] # To[c]
    /\ CodeAmount \in [Codes -> Nat]
    /\ MaxAttempts \in Nat \ {0}

VARIABLES
    userStatus,    \* of each user
    code,          \* "none", "open" (usedAt is NULL), "used"
    age,           \* of a code: "fresh" for a minute, "old", "expired" after ten
    attempts,      \* wrong guesses
    spent,         \* how often the code has moved money
    transferred    \* sum of the TRANSFER_IN and TRANSFER_OUT rows of a user

codeVars == <<code, age, attempts, spent>>
transferVars == <<userStatus, codeVars, transferred>>

Ages == {"fresh", "old", "expired"}

TransferTypeOK ==
    /\ userStatus \in [Users -> {"ACTIVE", "SUSPENDED", "BANNED"}]
    /\ code \in [Codes -> {"none", "open", "used"}]
    /\ age \in [Codes -> Ages]
    /\ attempts \in [Codes -> Nat]
    /\ spent \in [Codes -> Nat]
    /\ transferred \in [Users -> Int]

TransferInit ==
    /\ userStatus = [u \in Users |-> "ACTIVE"]
    /\ code = [c \in Codes |-> "none"]
    /\ age = [c \in Codes |-> "fresh"]
    /\ attempts = [c \in Codes |-> 0]
    /\ spent = [c \in Codes |-> 0]
    /\ transferred = [u \in Users |-> 0]

-----------------------------------------------------------------------------
\* A handler that works on a row for a user; "seen" and "other" are what it has
\* read of the wallet.
Task(w, row, u, step) ==
    [worker |-> w, p |-> row, at |-> step, user |-> u, seen |-> available[u],
     other |-> 0, about |-> {}, amount |-> 0]

OfKind(c) == IF c \in TransferCodes THEN TransferCodes ELSE Codes \ TransferCodes
Rivals(c) == {d \in OfKind(c) : From[d] = From[c] /\ code[d] = "open"}
CanPay(c) == available[From[c]] >= CodeAmount[c]
MayReceive(c) == c \in TransferCodes => userStatus[To[c]] = "ACTIVE"

\* requestTransferOtp, requestWithdrawOtp: users, balance, and no code of the
\* last minute.
RequestReads(w, c) ==
    /\ code[c] = "none" /\ ~Running(c)
    /\ userStatus[From[c]] = "ACTIVE" /\ MayReceive(c)
    /\ CanPay(c)
    /\ \A d \in Rivals(c) : age[d] # "fresh"
    /\ StartWith(Task(w, c, From[c], "supersede"))
    /\ UNCHANGED <<walletVars, transferVars>>

\* Older codes of the user are marked as used.
Supersedes(t) ==
    /\ At(t, "supersede")
    /\ code' = [d \in Codes |-> IF d \in Rivals(t.p) THEN "used" ELSE code[d]]
    /\ Move(t, "create")
    /\ UNCHANGED <<walletVars, userStatus, age, attempts, spent, transferred>>

Creates(t) ==
    /\ At(t, "create")
    /\ code' = [code EXCEPT ![t.p] = "open"]
    /\ Move(t, "mail")
    /\ UNCHANGED <<walletVars, userStatus, age, attempts, spent, transferred>>

\* The code is mailed; if that fails it is marked as used.
Mails(t) ==
    /\ At(t, "mail")
    /\ \/ UNCHANGED code
       \/ code' = [code EXCEPT ![t.p] = "used"]
    /\ Return(t)
    /\ UNCHANGED <<walletVars, userStatus, age, attempts, spent, transferred>>

Minutes(c) ==
    /\ code[c] = "open" /\ age[c] # "expired"
    /\ age' = [age EXCEPT ![c] = IF @ = "fresh" THEN "old" ELSE "expired"]
    /\ UNCHANGED <<walletVars, taskVars, userStatus, code, attempts, spent, transferred>>

-----------------------------------------------------------------------------
Valid(c) == code[c] = "open" /\ age[c] # "expired" /\ attempts[c] < MaxAttempts

\* Where a confirmation goes: the code given may be right or wrong.
Verdicts(c) == {"wrong", IF c \in TransferCodes THEN "pay" ELSE "consume"}

\* A row that is valid when it is read, of a user who may log in.
ConfirmReads(w, c) ==
    /\ userStatus[From[c]] = "ACTIVE"
    /\ Valid(c)
    /\ \E step \in Verdicts(c) :
         /\ step = "pay" => MayReceive(c)
         /\ StartWith(Task(w, c, From[c], step))
    /\ UNCHANGED <<walletVars, transferVars>>

\* A wrong guess is counted.
WrongCode(t) ==
    /\ At(t, "wrong")
    /\ attempts' = [attempts EXCEPT ![t.p] = @ + 1]
    /\ Return(t)
    /\ UNCHANGED <<walletVars, userStatus, code, age, spent, transferred>>

\* A transfer without its unique reference.
RefusedPoor(c) == ~CanPay(c)

\* A decrement without its condition.
RefusedTwice(c) == spent[c] > 0

\* The transaction of confirmTransfer throws when the decrement finds too
\* little, or when the unique reference of the transfer exists.
Refused(c) == ~CanPay(c) \/ spent[c] > 0

TransferRefused(t) ==
    /\ At(t, "pay") /\ Refused(t.p)
    /\ Return(t)
    /\ UNCHANGED <<walletVars, transferVars>>

\* Otherwise it decrements and increments, writes both rows with the balances
\* it finds then, and marks the code as used.
TransferCommits(t) ==
    LET c == t.p
        a == CodeAmount[c]
        move(f) == [f EXCEPT ![From[c]] = @ - a, ![To[c]] = @ + a]
    IN
    /\ At(t, "pay") /\ ~Refused(c)
    /\ available' = move(available)
    /\ rowSum' = move(rowSum)
    /\ balanceAfter' = [balanceAfter EXCEPT ![From[c]] = available'[From[c]],
                                            ![To[c]] = available'[To[c]]]
    /\ transferred' = move(transferred)
    /\ spent' = [spent EXCEPT ![c] = @ + 1]
    /\ code' = [code EXCEPT ![c] = "used"]
    /\ Return(t)
    /\ UNCHANGED <<stale, userStatus, age, attempts>>

\* A withdrawal that leaves its code open.
ConsumesNothing(t) ==
    /\ At(t, "consume")
    /\ Move(t, "withdraw")
    /\ UNCHANGED <<walletVars, transferVars>>

\* consumeWithdrawOtp marks the code as used, whatever has become of it.
Consumes(t) ==
    /\ At(t, "consume")
    /\ code' = [code EXCEPT ![t.p] = "used"]
    /\ Move(t, "withdraw")
    /\ UNCHANGED <<walletVars, userStatus, age, attempts, spent, transferred>>

\* executeDepositorWithdraw: reads and checks, then assigns.
WithdrawReads(t) ==
    /\ At(t, "withdraw")
    /\ IF CanPay(t.p)
       THEN Continue(t, [t EXCEPT !.at = "debit", !.seen = available[t.user]])
       ELSE Return(t)
    /\ UNCHANGED <<walletVars, transferVars>>

WithdrawCommits(t) ==
    /\ At(t, "debit")
    /\ AssignAndPost(t.user, t.seen, -CodeAmount[t.p], t.seen = available[t.user])
    /\ spent' = [spent EXCEPT ![t.p] = @ + 1]
    /\ Return(t)
    /\ UNCHANGED <<userStatus, code, age, attempts, transferred>>

TransferStarts(w) == \E c \in Codes : RequestReads(w, c) \/ ConfirmReads(w, c)
TransferSteps(t) ==
    \/ Supersedes(t) \/ Creates(t) \/ Mails(t) \/ WrongCode(t)
    \/ TransferRefused(t) \/ TransferCommits(t)
    \/ Consumes(t) \/ WithdrawReads(t) \/ WithdrawCommits(t)

=============================================================================
