----------------------------- MODULE HookChain -----------------------------
(***************************************************************************)
(* What the registry promises a caller (ArtHooks.java:163-196): each       *)
(* method carries a stack of hooks; hooking pushes, unhooking pops and     *)
(* puts back what the hook displaced, each as one indivisible step; ART    *)
(* may overwrite what is live, and a hook it overwrote is only dropped.    *)
(***************************************************************************)
EXTENDS Sequences, SequencesExt

CONSTANTS Methods, Code, Trampolines

VARIABLES
    live,    \* what a call through the method's entry point runs
    chain    \* the method's standing hooks, the most recent one last

chainVars == <<live, chain>>

Hooks(m) == {chain[m][i].installed : i \in DOMAIN chain[m]}

Init ==
    /\ live \in [Methods -> Code]
    /\ chain = [m \in Methods |-> <<>>]

\* A trampoline is built for one hook of one method and never used twice.
Hook(m, x) ==
    /\ \A n \in Methods : x \notin Hooks(n)
    /\ chain' = [chain EXCEPT ![m] =
                    Append(@, [installed |-> x, previous |-> live[m]])]
    /\ live' = [live EXCEPT ![m] = x]

Unhook(m) ==
    /\ chain[m] # <<>>
    /\ live[m] = Last(chain[m]).installed
    /\ live' = [live EXCEPT ![m] = Last(chain[m]).previous]
    /\ chain' = [chain EXCEPT ![m] = Front(@)]

DropStale(m) ==
    /\ chain[m] # <<>>
    /\ live[m] # Last(chain[m]).installed
    /\ chain' = [chain EXCEPT ![m] = Front(@)]
    /\ UNCHANGED live

Overwrite(m, c) ==
    /\ live' = [live EXCEPT ![m] = c]
    /\ UNCHANGED chain

Next ==
    \E m \in Methods :
        \/ \E x \in Trampolines : Hook(m, x)
        \/ Unhook(m)
        \/ DropStale(m)
        \/ \E c \in Code : Overwrite(m, c)

Spec == Init /\ [][Next]_chainVars
=============================================================================
