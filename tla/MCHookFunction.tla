--------------------------- MODULE MCHookFunction ---------------------------
(* One target, of every shape.  r1 and r2 call through to their own         *)
(* backups; r3 has no backup; b2 is declared with a Java body.              *)
EXTENDS HookFunction

CONSTANTS r1, r2, r3, b1, b2, targetClass, hookClass

MCBackupOf ==
    [r \in Replacements |-> CASE r = r1 -> b1 [] r = r2 -> b2 [] OTHER -> NoBackup]

\* Only a parked target is settled by watching it; a bridged one does nothing
\* that a parked one does not do once it is off the stub.
MCMaxMade ==
    [s \in [Targets -> Shapes], known \in BOOLEAN |->
        CASE known /\ \A m \in Targets : s[m] # "bridged" -> 3
          [] ~known /\ \A m \in Targets : s[m] # "parked" -> 1
          [] OTHER -> 2]

\* Two hooks, each with a backup.
MCMaxMadeChain == [s \in [Targets -> Shapes], known \in BOOLEAN |-> 4]

MCClassOf ==
    [x \in Methods \cup Replacements |-> IF x \in Targets THEN targetClass ELSE hookClass]
=============================================================================
