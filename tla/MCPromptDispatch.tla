--------------------------- MODULE MCPromptDispatch ---------------------------
(* Model values for PromptDispatch. *)
EXTENDS PromptDispatch, TLC

CONSTANTS s1, s2

NoRebinds  == {}
OneRebind  == {<<s1, s2>>}

\* Callers, prompts, tokens and triggers are interchangeable.
Symmetry == Permutations(Callers) \cup Permutations(Prompts) \cup Permutations(Tokens)
            \cup Permutations(Triggers)
=============================================================================
