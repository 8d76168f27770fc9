--------------------------- MODULE PlatformWallet ---------------------------
(***************************************************************************)
(* The part of the platform wallet that every money handler shares: the   *)
(* availableBalance column of platform_wallets and the wallet_transactions *)
(* rows written with it.  Amounts are integer cents (Decimal(12,2)).       *)
(*                                                                         *)
(* The handlers of wallet.service.ts, payout.service.ts and                *)
(* investor.service.ts all move money in the same two steps: they await a  *)
(* SELECT of the wallet row, compute in JavaScript, and later run one      *)
(* transaction that assigns the computed value and inserts a row.  Other   *)
(* handlers run between the two awaits, so the second step works from a    *)
(* snapshot, the parameter "seen" below.                                   *)
(*                                                                         *)
(* The rows of a user are kept as what the properties need of them: the    *)
(* sum of their amounts and the balanceAfter of the newest one.            *)
(***************************************************************************)
EXTENDS Integers

CONSTANTS
    Users,
    Opening      \* [Users -> Nat]: the balance before the modelled history

ASSUME OpeningAssumption == Opening \in [Users -> Nat]

VARIABLES
    available,     \* availableBalance
    rowSum,        \* sum of the walletTransaction rows that move it
    balanceAfter,  \* balanceAfter of the newest walletTransaction
    stale          \* history: an absolute write of this wallet discarded another

walletVars == <<available, rowSum, balanceAfter, stale>>

WalletTypeOK ==
    /\ available \in [Users -> Nat]
    /\ rowSum \in [Users -> Int]
    /\ balanceAfter \in [Users -> Int]
    /\ stale \in [Users -> BOOLEAN]

WalletInit ==
    /\ available = Opening
    /\ rowSum = [u \in Users |-> 0]
    /\ balanceAfter = Opening
    /\ stale = [u \in Users |-> FALSE]

-----------------------------------------------------------------------------
\* One transaction: availableBalance := seen + amount, and a row (amount,
\* balanceAfter := seen + amount).  "intact" says that no column the
\* transaction overwrites has changed since the handler read it.
AssignAndPost(u, seen, amount, intact) ==
    /\ available' = [available EXCEPT ![u] = seen + amount]
    /\ rowSum' = [rowSum EXCEPT ![u] = @ + amount]
    /\ balanceAfter' = [balanceAfter EXCEPT ![u] = seen + amount]
    /\ stale' = [stale EXCEPT ![u] = @ \/ ~intact]

=============================================================================
