--------------------------- MODULE MCDepositorPlans ---------------------------
(* Plans of 1 dollar on a wallet of 3; a day earns 1 cent.                 *)
EXTENDS DepositorPlans, TLC

CONSTANT alice

MCOpening == [u \in Users |-> 300]
MCOwner == [p \in Plans |-> alice]
=============================================================================
