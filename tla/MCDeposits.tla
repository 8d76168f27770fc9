------------------------------ MODULE MCDeposits ------------------------------
(* Deposits of one or two cents to the empty wallet of one user.  The mobile-
   money payment is the older one: of a list with one place it keeps the crypto
   payment out until it is decided or old.                                  *)
EXTENDS Deposits, TLC

CONSTANTS alice, crypto, momo

MCOpening == [u \in Users |-> 0]
MCOwner == [p \in Rows |-> alice]
MCAmount == [p \in Rows |-> IF p = crypto THEN 1 ELSE 2]
MCCreated == [p \in Rows |-> IF p = momo THEN 1 ELSE 2]
MCSymmetry == Permutations(Workers)
=============================================================================
