---------------------------- MODULE MCWithdrawals ----------------------------
(* Withdrawals of one user, whose wallet holds 5 cents.                    *)
EXTENDS Withdrawals, TLC

CONSTANTS alice

MCOpening == [u \in Users |-> 5]
MCOwner == [p \in Rows |-> alice]

\* Workers and payouts are interchangeable, and so are agents.
MCSymmetry == Permutations(Workers) \cup Permutations(Rows) \cup Permutations(Agents)
=============================================================================
