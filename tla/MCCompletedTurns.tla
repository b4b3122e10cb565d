--------------------------- MODULE MCCompletedTurns ---------------------------
EXTENDS CompletedTurns, TLC

\* every request carries the same prompt: recovery must not confuse them
SameText == [r \in Receipts |-> "prompt"]

Symmetry == Permutations(Hosts) \cup Permutations(Sessions) \cup Permutations(Receipts)
=============================================================================
