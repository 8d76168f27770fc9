--------------------------- MODULE AccountTransfer ---------------------------
(***************************************************************************)
(* Money that changes hands inside the platform: transfers and withdrawals *)
(* by a mailed code (WalletTransfer), the withdrawal reserve (Reserve) and  *)
(* the transfer of a whole account (account-transfer.service.ts), which an  *)
(* administrator offers, the new owner accepts by a link, and a timer or    *)
(* the administrator finalises after a review.                              *)
(*                                                                         *)
(* A handler of an account transfer works on the row of the source account; *)
(* its field "about" holds the transfer.  Handlers of the three components  *)
(* interleave on the same wallets.                                          *)
(***************************************************************************)
EXTENDS WalletTransfer, Reserve, FiniteSets, Sums

CONSTANTS
    Accounts,              \* account transfers
    Source, Destination,   \* [Accounts -> Users]
    Mortal,                \* handlers whose process may die
    MaxStarts              \* bound: how many handlers start

ASSUME AccountAssumption ==
    /\ IsFiniteSet(Users) /\ IsFiniteSet(Codes)
    /\ Rows = Codes \cup Users \cup {"reserve"}
    /\ Codes \cap Users = {} /\ "reserve" \notin Codes \cup Users
    /\ Source \in [Accounts -> Users] /\ Destination \in [Accounts -> Users]
    /\ \A a \in Accounts : Source[a] # Destination[a]
    /\ Mortal \subseteq Workers
    /\ MaxStarts \in Nat

VARIABLES
    acct,      \* status of an account transfer, "none" before it is created
    merged,    \* how often its wallets were merged
    left       \* handlers still to start

accountVars == <<acct, merged>>
vars == <<walletVars, taskVars, transferVars, reserveVars, accountVars, left>>

Statuses == {"none", "PENDING_USER", "IN_REVIEW", "COMPLETED", "CANCELLED", "FAILED"}

Steps == {"supersede", "create", "mail", "wrong", "pay", "consume", "withdraw", "debit",
          "seed", "sweep", "release",
          "offer", "invite", "agree", "cancel", "apply", "merge", "complete"}
Handler == [worker: Workers, p: Rows, at: Steps, user: Users, seen: Nat, other: Nat,
            about: SUBSET Accounts, amount: Nat]

\* No wallet, reserve or count ever goes below zero, whatever overlaps.
TypeOK ==
    /\ WalletTypeOK /\ TransferTypeOK /\ ReserveTypeOK
    /\ acct \in [Accounts -> Statuses]
    /\ merged \in [Accounts -> Nat]
    /\ tasks \subseteq Handler
    /\ disturbed \in [Rows -> BOOLEAN]
    /\ left \in 0 .. MaxStarts

Init ==
    /\ WalletInit /\ TransferInit /\ ReserveInit
    /\ tasks = {}
    /\ disturbed = [p \in Rows |-> FALSE]
    /\ acct = [a \in Accounts |-> "none"]
    /\ merged = [a \in Accounts |-> 0]
    /\ left = MaxStarts

-----------------------------------------------------------------------------
Parties(a) == {Source[a], Destination[a]}
IsOpen(a) == acct[a] \in {"PENDING_USER", "IN_REVIEW"}

Starts(w, a, step) ==
    StartWith([Task(w, Source[a], Source[a], step) EXCEPT !.about = {a}])

\* adminCreate: both accounts in use, and no open transfer touches either.
CreateReads(w, a) ==
    /\ acct[a] = "none"
    /\ \A t \in tasks : a \notin t.about
    /\ \A u \in Parties(a) : userStatus[u] # "BANNED"
    /\ \A b \in Accounts : IsOpen(b) => Parties(a) \cap Parties(b) = {}
    /\ Starts(w, a, "offer")
    /\ UNCHANGED accountVars

Offers(t, a) ==
    /\ At(t, "offer")
    /\ acct' = [acct EXCEPT ![a] = "PENDING_USER"]
    /\ Move(t, "invite")
    /\ UNCHANGED <<walletVars, userStatus, transferred, merged>>

\* The link is mailed; when that fails the transfer is cancelled.
Invites(t, a) ==
    /\ At(t, "invite")
    /\ \/ UNCHANGED acct
       \/ acct' = [acct EXCEPT ![a] = "CANCELLED"]
    /\ Return(t)
    /\ UNCHANGED <<walletVars, userStatus, transferred, merged>>

\* userAgree: the status is read, and not again when the source is suspended.
AgreeReads(w, a) ==
    /\ acct[a] = "PENDING_USER"
    /\ userStatus[Destination[a]] # "BANNED"
    /\ Starts(w, a, "agree")
    /\ UNCHANGED accountVars

AgreeCommits(t, a) ==
    /\ At(t, "agree")
    /\ userStatus' = [userStatus EXCEPT ![Source[a]] = "SUSPENDED"]
    /\ acct' = [acct EXCEPT ![a] = "IN_REVIEW"]
    /\ Return(t)
    /\ UNCHANGED <<walletVars, transferred, merged>>

\* adminCancel.
CancelReads(w, a) ==
    /\ acct[a] = "PENDING_USER"
    /\ Starts(w, a, "cancel")
    /\ UNCHANGED accountVars

CancelCommits(t, a) ==
    /\ At(t, "cancel")
    /\ acct' = [acct EXCEPT ![a] = "CANCELLED"]
    /\ Return(t)
    /\ UNCHANGED <<walletVars, userStatus, transferred, merged>>

\* A finalisation that does not ask whether the new owner agreed.
FinalizeReadsAny(w, a) ==
    /\ acct[a] \notin {"none", "COMPLETED"}
    /\ Starts(w, a, "apply")
    /\ UNCHANGED accountVars

\* finalizeDue and the administrator's finalize.
FinalizeReads(w, a) ==
    /\ acct[a] = "IN_REVIEW"
    /\ Starts(w, a, "apply")
    /\ UNCHANGED accountVars

-----------------------------------------------------------------------------
\* applyTransfer, one transaction: it reads both wallets ...
ApplyReads(t, a) ==
    /\ At(t, "apply")
    /\ Continue(t, [t EXCEPT !.at = "merge", !.seen = available[Source[a]],
                             !.other = available[Destination[a]]])
    /\ UNCHANGED <<walletVars, userStatus, transferred, accountVars>>

\* ... assigns their sum to one and zero to the other, moves every row and bans
\* the source.  The row it adds counts money that the moved rows count too.
ApplyCommits(t, a) ==
    LET u == Source[a]
        v == Destination[a]
        total == t.seen + t.other
        discards == t.seen # available[u] \/ t.other # available[v]
    IN
    /\ At(t, "merge")
    /\ available' = [available EXCEPT ![u] = 0, ![v] = total]
    /\ rowSum' = [rowSum EXCEPT ![u] = 0, ![v] = @ + rowSum[u] + t.seen]
    /\ balanceAfter' = [balanceAfter EXCEPT ![v] = IF t.seen > 0 THEN total ELSE @]
    /\ stale' = [x \in Users |-> stale[x] \/ (x \in {u, v} /\ discards)]
    /\ transferred' = [transferred EXCEPT ![u] = 0, ![v] = @ + transferred[u]]
    /\ userStatus' = [userStatus EXCEPT ![u] = "BANNED"]
    /\ merged' = [merged EXCEPT ![a] = @ + 1]
    /\ Move(t, "complete")
    /\ UNCHANGED acct

\* The transaction is rolled back and the failure recorded.
ApplyFails(t, a) ==
    /\ At(t, "merge")
    /\ acct' = [acct EXCEPT ![a] = "FAILED"]
    /\ Return(t)
    /\ UNCHANGED <<walletVars, userStatus, transferred, merged>>

CompleteCommits(t, a) ==
    /\ At(t, "complete")
    /\ acct' = [acct EXCEPT ![a] = "COMPLETED"]
    /\ Return(t)
    /\ UNCHANGED <<walletVars, userStatus, transferred, merged>>

AccountStarts(w) ==
    \E a \in Accounts :
        CreateReads(w, a) \/ AgreeReads(w, a) \/ CancelReads(w, a) \/ FinalizeReads(w, a)

AccountSteps(t) ==
    \E a \in t.about :
        \/ Offers(t, a) \/ Invites(t, a) \/ AgreeCommits(t, a) \/ CancelCommits(t, a)
        \/ ApplyReads(t, a) \/ ApplyCommits(t, a) \/ ApplyFails(t, a)
        \/ CompleteCommits(t, a)

\* The process dies; only a merge that is not yet recorded is lost track of.
Crash(t) ==
    /\ t.worker \in Mortal
    /\ IF t.at = "complete" THEN LoseTrack(t) ELSE Return(t)
    /\ UNCHANGED <<walletVars, transferVars>>

-----------------------------------------------------------------------------
Start(w) ==
    /\ left > 0 /\ left' = left - 1
    /\ \/ TransferStarts(w) /\ UNCHANGED <<reserveVars, accountVars>>
       \/ ReserveStarts(w) /\ UNCHANGED <<transferVars, accountVars>>
       \/ AccountStarts(w) /\ UNCHANGED <<walletVars, transferVars, reserveVars>>

Step(t) ==
    /\ UNCHANGED left
    /\ \/ TransferSteps(t) /\ UNCHANGED <<reserveVars, accountVars>>
       \/ ReserveSteps(t) /\ UNCHANGED <<transferVars, accountVars>>
       \/ AccountSteps(t) /\ UNCHANGED <<codeVars, reserveVars>>
       \/ Crash(t) /\ UNCHANGED <<reserveVars, accountVars>>

Next ==
    \/ \E w \in Workers : Start(w)
    \/ \E t \in tasks : Step(t)
    \/ \E c \in Codes : Minutes(c) /\ UNCHANGED <<reserveVars, accountVars, left>>

Spec == Init /\ [][Next]_vars

-----------------------------------------------------------------------------
Total(f) == SumOver(f, Users)

WithdrawCodes == Codes \ TransferCodes

\* A code that two handlers confirmed at once may have paid twice; no other may.
Times(c) == IF disturbed[c] THEN spent[c] ELSE Least(spent[c], 1)
paid == [c \in WithdrawCodes |-> CodeAmount[c] * Times(c)]

\* What the platform holds for its users changes only by what codes of
\* withdrawals paid out, once each, and by what seeding the reserve invented:
\* transfers, sweeps, releases and mergers only move it, as long as no absolute
\* write of a wallet discarded another.
MoneyConserved ==
    (\A u \in Users : ~stale[u]) =>
        Total(available) + Total(reserve)
            = Total(Opening) + Total(minted) - SumOver(paid, WithdrawCodes)

\* Unless handlers of one source account overlapped, or one died between the
\* merger and its record: a completed transfer has merged once and banned its
\* source, an account in review is suspended, and one that was cancelled, failed
\* or is still awaited has moved nothing.
AccountsFollow ==
    \A a \in Accounts : ~disturbed[Source[a]] =>
        /\ acct[a] = "COMPLETED" => merged[a] = 1 /\ userStatus[Source[a]] = "BANNED"
        /\ acct[a] = "IN_REVIEW" => userStatus[Source[a]] # "ACTIVE"
        /\ acct[a] \in {"PENDING_USER", "CANCELLED", "FAILED"} => merged[a] = 0
        /\ (merged[a] = 1 /\ acct[a] # "COMPLETED") => \E t \in tasks : a \in t.about

-----------------------------------------------------------------------------
Paying(c) == \E t \in tasks : t.p = c /\ t.at = "pay"

Phase(c) ==
    CASE spent[c] = 1 -> "done"
      [] spent[c] > 1 -> "twice"
      [] spent[c] = 0 /\ code[c] # "none" /\ ~Valid(c) /\ ~Paying(c) -> "closed"
      [] OTHER -> "open"

Promise == INSTANCE TransferPromise WITH
    Transfers <- TransferCodes,
    From <- [c \in TransferCodes |-> From[c]],
    To <- [c \in TransferCodes |-> To[c]],
    Amount <- [c \in TransferCodes |-> CodeAmount[c]],
    books <- transferred,
    phase <- [c \in TransferCodes |-> Phase(c)]

\* Codes, guesses, expiry, retries and the merger of accounts together implement
\* what a transfer promises: it happens once or never, and never after it was
\* closed.
PromiseKept == Promise!Spec

=============================================================================
