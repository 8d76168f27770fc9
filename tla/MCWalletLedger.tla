---------------------------- MODULE MCWalletLedger ----------------------------
(* WalletLedger on two wallets of 3 cents: alice's calls overlap, bob's do *)
(* not.                                                                    *)
EXTENDS WalletLedger, TLC

MCOpening == [u \in Users |-> 3]
CallSymmetry == Permutations(Calls)
=============================================================================
