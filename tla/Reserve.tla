------------------------------- MODULE Reserve -------------------------------
(***************************************************************************)
(* The withdrawal reserve of Trade Guard: reserveBalance of a wallet, which *)
(* an administrator seeds with the September withdrawals nobody approved,   *)
(* fills by a sweep of everything available, and releases                   *)
(* (wallet.service.ts).  Every operation reads the wallet first and then    *)
(* assigns both columns.  AccountTransfer completes the specification.      *)
(***************************************************************************)
EXTENDS PlatformWallet, HandlerPool

CONSTANTS
    PendingGross,    \* [Users -> Nat]: September payouts still pending,
    RejectedGross,   \* [Users -> Nat]: and those rejected, which were refunded
    ReleaseAmounts   \* what an administrator may release at a time

ASSUME ReserveAssumption ==
    /\ PendingGross \in [Users -> Nat]
    /\ RejectedGross \in [Users -> Nat]
    /\ ReleaseAmounts \subseteq Nat \ {0}

VARIABLES
    reserve,    \* reserveBalance
    minted      \* history: what seeding put in that it did not take out

reserveVars == <<reserve, minted>>

ReserveTypeOK ==
    /\ reserve \in [Users -> Nat]
    /\ minted \in [Users -> Nat]

ReserveInit ==
    /\ reserve = [u \in Users |-> 0]
    /\ minted = [u \in Users |-> 0]

-----------------------------------------------------------------------------
Gross(u) == PendingGross[u] + RejectedGross[u]
Least(a, b) == IF a < b THEN a ELSE b

\* A run of the administrator's, for one user: "seen" is what it has read of
\* availableBalance, "other" of reserveBalance.
Reserving(w, u, step, amount) ==
    StartWith([worker |-> w, p |-> "reserve", at |-> step, user |-> u,
               seen |-> available[u], other |-> reserve[u], about |-> {},
               amount |-> amount])

SeedReads(w, u) ==
    /\ Gross(u) > 0
    /\ reserve[u] = 0
    /\ Reserving(w, u, "seed", Gross(u))
    /\ UNCHANGED <<walletVars, reserveVars>>

SweepReads(w, u) ==
    /\ available[u] > 0
    /\ Reserving(w, u, "sweep", available[u])
    /\ UNCHANGED <<walletVars, reserveVars>>

ReleaseReads(w, u) ==
    /\ \E a \in ReleaseAmounts : a <= reserve[u] /\ Reserving(w, u, "release", a)
    /\ UNCHANGED <<walletVars, reserveVars>>

\* Both columns are assigned, from what was read.
Hold(t, amount, nextReserve) ==
    /\ AssignAndPost(t.user, t.seen, amount,
                     t.seen = available[t.user] /\ t.other = reserve[t.user])
    /\ reserve' = [reserve EXCEPT ![t.user] = nextReserve]
    /\ Return(t)

\* The rejected part is taken from what is available, as far as it goes; the
\* pending part left when it was requested.  The reserve gets both in full.
SeedCommits(t) ==
    LET moved == Least(t.seen, RejectedGross[t.user])
    IN  /\ At(t, "seed")
        /\ Hold(t, -moved, t.amount)
        /\ minted' = [minted EXCEPT ![t.user] = @ + t.amount - moved]

SweepCommits(t) ==
    /\ At(t, "sweep")
    /\ Hold(t, -t.amount, t.other + t.amount)
    /\ UNCHANGED minted

ReleaseCommits(t) ==
    /\ At(t, "release")
    /\ Hold(t, t.amount, t.other - t.amount)
    /\ UNCHANGED minted

ReserveStarts(w) ==
    \E u \in Users : SeedReads(w, u) \/ SweepReads(w, u) \/ ReleaseReads(w, u)
ReserveSteps(t) == SeedCommits(t) \/ SweepCommits(t) \/ ReleaseCommits(t)

=============================================================================
