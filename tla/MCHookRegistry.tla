--------------------------- MODULE MCHookRegistry ---------------------------
(* HookRegistry on a small instance, and its refinement of HookChain.      *)
EXTENDS RegistryChain, TLC

\* Methods, threads, code addresses and trampolines are interchangeable:
\* used only by runs with no liveness property.
Symmetry ==
    Permutations(Methods) \cup Permutations(Threads)
        \cup Permutations(Code) \cup Permutations(Trampolines)
=============================================================================
