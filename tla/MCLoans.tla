------------------------------- MODULE MCLoans -------------------------------
(* Loans of 5 cents to a user with 4 cents in the wallet and 6 invested.   *)
EXTENDS Loans, TLC

CONSTANTS alice

MCOpening == [u \in Users |-> 4]
MCCapital == [u \in Users |-> 6]
MCOwner == [l \in Loans |-> alice]
MCPrincipal == [l \in Loans |-> 5]
MCSymmetry == Permutations(Workers) \cup Permutations(Loans)
=============================================================================
