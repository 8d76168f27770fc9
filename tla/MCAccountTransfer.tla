-------------------------- MODULE MCAccountTransfer --------------------------
(* A small instance of AccountTransfer for TLC. *)
EXTENDS AccountTransfer, TLC

CONSTANTS ann, bob, t1, t2, o1, x1

MCOpening == ann :> 3 @@ bob :> 1
MCFrom == t1 :> ann @@ t2 :> ann @@ o1 :> ann
MCTo == t1 :> bob @@ t2 :> bob @@ o1 :> ann
MCAmount == t1 :> 2 @@ t2 :> 1 @@ o1 :> 1
MCSource == x1 :> ann
MCDestination == x1 :> bob
MCPending == ann :> 1 @@ bob :> 0
MCRejected == ann :> 1 @@ bob :> 0
MCSymmetry == Permutations(Workers)
=============================================================================
