---------------------------- MODULE MCDispatchInbox ----------------------------
(* Model values for DispatchInbox. *)
EXTENDS DispatchInbox, TLC

CONSTANTS s1, s2

NoRebinds == {}
OneRebind == {<<s1, s2>>}

\* Activations, dispatches and triggers are interchangeable.
Symmetry == Permutations(Callers) \cup Permutations(Dispatches) \cup Permutations(Triggers)
=============================================================================
