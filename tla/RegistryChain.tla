--------------------------- MODULE RegistryChain ---------------------------
(* How the registry's one vector and its calls in progress stand for the    *)
(* stack of hooks that each method carries, as its callers see it.          *)
EXTENDS HookRegistry

Layer(r) == [installed |-> r.installed_entry, previous |-> r.previous_entry]

\* The records of method m among the first k of the vector h, for each k.
ChainsIn(h, m) ==
    LET upTo[k \in 0..Len(h)] ==
            IF k = 0 THEN <<>>
            ELSE IF h[k].target = m THEN Append(upTo[k - 1], Layer(h[k])) ELSE upTo[k - 1]
    IN  upTo

RecordedChain(m) == ChainsIn(hooks, m)[Len(hooks)]

\* The call that holds the lock is of m, and its store has landed.
Landed(m, where) ==
    /\ ~LockIsFree
    /\ pc[owner] = where
    /\ frame[owner].target = m
    /\ entry[m] = IF where = "install_verify" THEN frame[owner].installed_entry
                                              ELSE frame[owner].previous_entry

\* A call takes effect at the store that lands, not at the bookkeeping.
ChainOf(m) ==
    CASE Landed(m, "install_verify") -> Append(RecordedChain(m), Layer(frame[owner]))
      [] Landed(m, "remove_verify")  -> Front(RecordedChain(m))
      [] OTHER                       -> RecordedChain(m)

Chain == INSTANCE HookChain
            WITH live <- entry, chain <- [m \in Methods |-> ChainOf(m)]

(* Hooks and unhooks of a method never interleave: every behaviour of the   *)
(* registry, seen from its callers, is one of a stack per method whose       *)
(* pushes and pops are indivisible ("two such calls racing each other on the *)
(* same method run one at a time, start to finish", ArtHooks.java:184-186).  *)
ImplementsHookChain == Chain!Spec
=============================================================================
