---------------------------- MODULE MCSmartInvest ----------------------------
(* A small instance of SmartInvest for TLC. *)
EXTENDS SmartInvest, TLC

CONSTANTS alice, bob

MCOpening == alice :> 100 @@ bob :> 100
MCCapital == alice :> 200 @@ bob :> 100
MCShare == alice :> 1 @@ bob :> 0
MCActs == alice :> (AllActs \ {"adminAllocate", "exempt"}) @@ bob :> {"adminAllocate", "exempt"}
MCCalendar == <<"friday", "weekend", "weekday">>
MCSymmetry == Permutations(Workers) \cup Permutations(Processes)
=============================================================================
