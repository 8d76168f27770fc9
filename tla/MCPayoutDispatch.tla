--------------------------- MODULE MCPayoutDispatch ---------------------------
(* A small instance of PayoutDispatch for TLC. *)
EXTENDS PayoutDispatch

MCNet == <<990, 90, 190>>
MCGross == <<1000, 100, 200>>
MCMaxRequests == [solo |-> 3, guard |-> 2]
=============================================================================
