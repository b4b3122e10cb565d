--------------------------- MODULE MCWalletTransfers ---------------------------
(* Symmetry for WalletTransfers: nothing orders its sets. *)
EXTENDS WalletTransfers, TLC

Symmetry == Permutations(Wallets) \cup Permutations(Transfers) \cup Permutations(Procs)
            \cup Permutations(Sends) \cup Permutations(Receives)
=============================================================================
