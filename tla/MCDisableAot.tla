---------------------------- MODULE MCDisableAot ----------------------------
(* Two threads, a framework method, and an application method that the app  *)
(* image may or may not have linked: who races whom is what the runs vary,  *)
(* through how ArtHooks came up and what libart exports.                    *)
EXTENDS DisableAot, TLC

CONSTANTS t1, t2

Everything == [debugState |-> TRUE, deoptimize |-> TRUE, update |-> TRUE, plt |-> TRUE,
               writable |-> TRUE, restorable |-> TRUE, reprotects |-> TRUE,
               visitor |-> "instrumentation"]

\* A libart that lacks at most one thing.  The check of the visitor's word does
\* not tell one word it refuses from another.
MCLibraries == {l \in Library :
                   /\ l.visitor \in {"instrumentation", "class_linker"}
                   /\ \E f \in DOMAIN l : \A g \in DOMAIN l \ {f} : l[g] = Everything[g]}

\* Used by the run with no liveness property.
Symmetry == Permutations({t1, t2})
=============================================================================
