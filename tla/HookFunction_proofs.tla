------------------------- MODULE HookFunction_proofs -------------------------
(***************************************************************************)
(* The hooking pipeline, for any number of targets, threads and hooks, and *)
(* an ART that does what it likes when it likes: types, that no hook goes  *)
(* in on top of the resolution stub, and that a hook is lost under its     *)
(* record only to a compilation that could not be prevented, or to a       *)
(* deoptimisation.                                                         *)
(***************************************************************************)
EXTENDS HookFunction, SequenceTheorems, TLAPS

(* The place in the vector that an element had before, or has after, the   *)
(* t-th is taken out.                                                      *)
Old(t, i) == IF i < t THEN i ELSE i + 1
New(t, k) == IF k < t THEN k ELSE k - 1

(* Removing the t-th element leaves the others at their places.            *)
LEMMA RemoveAtElements ==
    ASSUME NEW S, NEW s \in Seq(S), NEW t \in 1..Len(s)
    PROVE  /\ Registry!RemoveAt(s, t) \in Seq(S)
           /\ Len(Registry!RemoveAt(s, t)) = Len(s) - 1
           /\ \A i \in 1..(Len(s) - 1) : Registry!RemoveAt(s, t)[i] = s[Old(t, i)]
  <1> DEFINE a == SubSeq(s, 1, t - 1)
             b == SubSeq(s, t + 1, Len(s))
  <1>0. Len(s) \in Nat
    OBVIOUS
  <1>1. a \in Seq(S) /\ Len(a) = t - 1 /\ \A i \in 1..(t - 1) : a[i] = s[i]
    OBVIOUS
  <1>2. b \in Seq(S) /\ Len(b) = Len(s) - t /\ \A i \in 1..(Len(s) - t) : b[i] = s[t + i]
    OBVIOUS
  <1>3. Registry!RemoveAt(s, t) = a \o b
    BY DEF Registry!RemoveAt
  <1> HIDE DEF a, b
  <1>4. /\ a \o b \in Seq(S)
        /\ Len(a \o b) = Len(a) + Len(b)
        /\ \A i \in 1..(Len(a) + Len(b)) :
              (a \o b)[i] = IF i <= Len(a) THEN a[i] ELSE b[i - Len(a)]
    BY <1>1, <1>2, ConcatProperties
  <1>5. ASSUME NEW i \in 1..(Len(s) - 1)
        PROVE  (a \o b)[i] = s[Old(t, i)]
    <2>1. CASE i < t
      BY <1>0, <1>1, <1>2, <1>4, <2>1 DEF Old
    <2>2. CASE ~(i < t)
      <3>1. /\ i - Len(a) \in 1..(Len(s) - t) /\ t + (i - Len(a)) = i + 1
            /\ i \in 1..(Len(a) + Len(b)) /\ ~(i <= Len(a))
        BY <1>0, <1>1, <1>2, <2>2
      <3>2. QED
        BY <1>2, <1>4, <2>2, <3>1 DEF Old
    <2>3. QED
      BY <2>1, <2>2
  <1>6. QED
    BY <1>0, <1>1, <1>2, <1>3, <1>4, <1>5

(* What is left is what was there, at its place and in its order.          *)
LEMMA RemoveAtPlaces ==
    ASSUME NEW S, NEW s \in Seq(S), NEW t \in 1..Len(s)
    PROVE  LET g == Registry!RemoveAt(s, t)
           IN  /\ \A i \in 1..Len(g) : /\ Old(t, i) \in 1..Len(s)
                                       /\ Old(t, i) # t
                                       /\ g[i] = s[Old(t, i)]
               /\ \A k \in 1..Len(s) : k # t => /\ New(t, k) \in 1..Len(g)
                                               /\ g[New(t, k)] = s[k]
  <1> DEFINE g == Registry!RemoveAt(s, t)
  <1>1. Len(s) \in Nat /\ Len(g) = Len(s) - 1 /\ \A i \in 1..(Len(s) - 1) : g[i] = s[Old(t, i)]
    BY RemoveAtElements
  <1> HIDE DEF g
  <1>2. ASSUME NEW i \in 1..Len(g)
        PROVE  Old(t, i) \in 1..Len(s) /\ Old(t, i) # t /\ g[i] = s[Old(t, i)]
    BY <1>1 DEF Old
  <1>3. ASSUME NEW k \in 1..Len(s), k # t
        PROVE  New(t, k) \in 1..Len(g) /\ g[New(t, k)] = s[k]
    <2>1. New(t, k) \in 1..(Len(s) - 1) /\ Old(t, New(t, k)) = k
      BY <1>1, <1>3 DEF Old, New
    <2>2. QED
      BY <1>1, <2>1
  <1>4. QED
    BY <1>2, <1>3 DEF g

\* The methods a hook has come to discourage, whether or not the flag took.
Approached == dontBother \cup exposed

-----------------------------------------------------------------------------
(* Types.                                                                  *)

HookPC == {"idle", "init_original", "init_replacement", "check_backup", "settle", "watch",
           "discourage", "backup", "hook", "install"}

Thunks == {NoThunk} \cup {Indirect(r) : r \in Replacements}
              \cup {Direct(m, e) : m \in Targets, e \in Code \cup Trampolines}

\* ART's side, a thread's place in a call, and the trampolines that were made.
ArtTypes ==
    /\ classState \in [Classes -> {"loaded", "initialized", "visible", "erroneous"}]
    /\ shape \in [Targets -> Shapes]
    /\ stubMeasured \in BOOLEAN
    /\ compiling \cup overrun \cup exposed \cup dontBother \cup givenUp \subseteq Targets
    /\ unchecked \subseteq Targets \X Replacements

CallTypes ==
    /\ hpc \in [Threads -> HookPC]
    /\ arg \in [Threads -> Args \cup {NoRecord}]
    /\ \A t \in Threads : hpc[t] = "idle" <=> arg[t] = NoRecord
    /\ \A t \in Threads : hpc[t] = "install" <=> pc[t] \in Registry!InstallPC

ThunkTypes ==
    /\ thunk \in [Trampolines -> Thunks]
    /\ \A x \in Trampolines : x \in made <=> thunk[x] # NoThunk

TypeInv == Registry!TypeOK /\ ArtTypes /\ CallTypes /\ ThunkTypes

(* The inductive invariant has the run's types in it.                      *)
LEMMA TypeInvTypes == TypeInv => HookTypeOK
  BY DEF TypeInv, ArtTypes, CallTypes, ThunkTypes, HookTypeOK

(* What a call in progress works on.                                       *)
LEMMA ArgsInCall ==
    ASSUME CallTypes, NEW t \in Threads, hpc[t] # "idle"
    PROVE  /\ arg[t] \in Args
           /\ arg[t].target \in Targets
           /\ arg[t].replacement \in Replacements
           /\ arg[t].nudges \in Nat
           /\ ClassOf[arg[t].target] \in Classes
           /\ ClassOf[arg[t].replacement] \in Classes
  <1>1. arg[t] \in Args
    BY DEF CallTypes
  <1>2. QED
    BY <1>1 DEF Args, Classes

(* Everything starts loaded, idle and unhooked.                            *)
LEMMA TypesInit == Init => TypeInv
  <1> SUFFICES ASSUME Init
               PROVE  TypeInv
    OBVIOUS
  <1>1. Registry!TypeOK
    BY HookAssumption
       DEF Init, Registry!TypeOK, Registry!EntryPoint, InitialEntry, Code
  <1>2. ArtTypes
    BY DEF Init, ArtTypes
  <1>3. CallTypes
    BY DEF Init, CallTypes, HookPC, Registry!InstallPC
  <1>4. ThunkTypes
    BY DEF Init, ThunkTypes, Thunks
  <1>5. QED
    BY <1>1, <1>2, <1>3, <1>4 DEF TypeInv

(* The registry's own state keeps its types.                               *)
LEMMA RegistryTypes ==
    ASSUME TypeInv, [Next]_vars
    PROVE  Registry!TypeOK'
  <1> USE DEF TypeInv, Registry!TypeOK
  <1>1. ASSUME NEW ms \in SUBSET Methods, NEW code,
               \A m \in ms : code[m] \in Code, ArtSets(ms, code)
        PROVE  Registry!TypeOK'
    BY <1>1 DEF ArtSets, Registry!EntryPoint
  <1>2. ASSUME NEW c \in Classes, Initialize(c)
        PROVE  Registry!TypeOK'
    <2> DEFINE ms == MethodsOf(c)
               code == [m \in ms |-> InitialEntry(m)]
    <2>1. ms \in SUBSET Methods /\ ArtSets(ms, code)
      BY <1>2 DEF Initialize, MethodsOf
    <2>2. \A m \in ms : code[m] \in Code
      BY DEF InitialEntry, Code
    <2> HIDE DEF ms, code
    <2>3. QED
      BY <1>1, <2>1, <2>2
  <1>3. ASSUME NEW c \in Classes, MakeVisible(c)
        PROVE  Registry!TypeOK'
    <2> DEFINE ms == {m \in MethodsOf(c) : entry[m] = "stub"}
               code == [m \in ms |-> "body"]
    <2>1. ms \in SUBSET Methods /\ ArtSets(ms, code)
      BY <1>3 DEF MakeVisible, MethodsOf
    <2>2. \A m \in ms : code[m] \in Code
      BY DEF Code
    <2> HIDE DEF ms, code
    <2>3. QED
      BY <1>1, <2>1, <2>2
  <1>4. ASSUME NEW m \in Targets, JitLand(m) \/ Deoptimize(m)
        PROVE  Registry!TypeOK'
    <2> DEFINE code == [n \in {m} |-> "body"]
    <2>1. {m} \in SUBSET Methods /\ ArtSets({m}, code)
      BY <1>4 DEF JitLand, Deoptimize, Methods
    <2>2. \A n \in {m} : code[n] \in Code
      BY DEF Code
    <2> HIDE DEF code
    <2>3. QED
      BY <1>1, <2>1, <2>2
  <1>5. ASSUME NEW t \in Threads, WireBackup(t)
        PROVE  Registry!TypeOK'
    <2>1. Fresh \in Trampolines
      BY <1>5 DEF WireBackup, CanAllocate, Fresh
    <2>2. QED
      BY <1>5, <2>1 DEF WireBackup, Registry!EntryPoint, artVars
  <1>6. ASSUME NEW t \in Threads, MakeTrampoline(t)
        PROVE  Registry!TypeOK'
    <2>1. Fresh \in Trampolines
      BY <1>6 DEF MakeTrampoline, CanAllocate, Fresh
    <2>2. arg[t].target \in Methods
      BY <1>6, ArgsInCall DEF MakeTrampoline, Methods
    <2> DEFINE r == [target |-> arg[t].target, previous_entry |-> entry[arg[t].target],
                     installed_entry |-> Fresh]
    <2>3. r \in Registry!Record
      BY <2>1, <2>2 DEF Registry!Record
    <2>4. /\ owner = NoThread /\ owner' = t
          /\ made' = made \cup {Fresh}
          /\ pc' = [pc EXCEPT ![t] = "install_store"]
          /\ frame' = [frame EXCEPT ![t] = r]
          /\ UNCHANGED <<entry, hooks>>
      BY <1>6 DEF MakeTrampoline, Registry!InstallRead, Registry!Enter, Registry!LockIsFree
    <2> HIDE DEF r
    <2>5. QED
      BY HookAssumption, <2>1, <2>3, <2>4 DEF Registry!InstallPC
  <1>7. ASSUME NEW t \in Threads, Registry!InstallStore(t)
        PROVE  Registry!TypeOK'
    BY <1>7 DEF Registry!InstallStore, Registry!Store, Registry!Goto, Registry!Record,
                Registry!EntryPoint, Registry!InstallPC
  <1>8. ASSUME NEW t \in Threads, Registry!InstallVerify(t)
        PROVE  Registry!TypeOK'
    <2>1. hooks' \in Seq(Registry!Record)
      BY <1>8 DEF Registry!InstallVerify
    <2>2. QED
      BY HookAssumption, <1>8, <2>1 DEF Registry!InstallVerify, Registry!Return
  <1>9. ASSUME NEW t \in Threads, NEW m \in Targets, Registry!RemoveStale(t, m)
        PROVE  Registry!TypeOK'
    <2>1. hooks' \in Seq(Registry!Record)
      BY <1>9, RemoveAtElements DEF Registry!RemoveStale
    <2>2. QED
      BY <1>9, <2>1 DEF Registry!RemoveStale
  <1>10. ASSUME NEW t \in Threads, NEW m \in Targets, Registry!RemoveCheck(t, m)
         PROVE  Registry!TypeOK'
    BY HookAssumption, <1>10 DEF Registry!RemoveCheck, Registry!Enter, Registry!RemovePC,
                                 Registry!LockIsFree
  <1>11. ASSUME NEW t \in Threads, Registry!RemoveStore(t)
         PROVE  Registry!TypeOK'
    BY <1>11 DEF Registry!RemoveStore, Registry!Store, Registry!Goto, Registry!Record,
                 Registry!EntryPoint, Registry!RemovePC
  <1>12. ASSUME NEW t \in Threads, Registry!RemoveVerify(t)
         PROVE  Registry!TypeOK'
    <2>1. hooks' \in Seq(Registry!Record)
      BY <1>12, RemoveAtElements DEF Registry!RemoveVerify, Registry!IsTop
    <2>2. QED
      BY HookAssumption, <1>12, <2>1 DEF Registry!RemoveVerify, Registry!Return
  <1>13. CASE UNCHANGED registryVars
    BY <1>13 DEF registryVars
  <1> HIDE DEF Registry!TypeOK, TypeInv
  <1>14. ASSUME NEW t \in Threads, NEW m, hpc[t] # "idle",
                m \in {arg[t].target, arg[t].replacement}, NEW next, EnsureInitialized(t, m, next)
         PROVE  Registry!TypeOK'
    <2>1. ClassOf[m] \in Classes
      BY <1>14, ArgsInCall DEF TypeInv
    <2>2. QED
      BY <1>2, <1>13, <1>14, <2>1 DEF EnsureInitialized
  <1>15. CASE Art
    BY <1>2, <1>3, <1>4, <1>13, <1>15 DEF Art, AppInitializes, JitStart
  <1>16. ASSUME NEW t \in Threads, Call(t)
         PROVE  Registry!TypeOK'
    BY <1>9, <1>10, <1>13, <1>16 DEF Call, Begin, Unhook
  <1>17. ASSUME NEW t \in Threads, Proceed(t)
         PROVE  Registry!TypeOK'
    <2>1. CASE InitOriginal(t) \/ InitReplacement(t)
      BY <1>14, <2>1 DEF InitOriginal, InitReplacement
    <2>2. CASE \/ CheckBackup(t) \/ SkipCheck(t) \/ Settled(t) \/ Nudge(t) \/ Refused(t)
               \/ Watch(t) \/ WatchNudge(t) \/ WatchMoved(t) \/ WatchGivesUp(t) \/ Discourage(t)
               \/ NoBackupAsked(t) \/ CallFails(t)
      BY <1>13, <2>2 DEF CheckBackup, SkipCheck, Settled, Nudge, SpendNudge, Refused, Watch,
                         WatchNudge, WatchMoved, WatchGivesUp, Discourage, NoBackupAsked,
                         CallFails
    <2>3. CASE WireBackup(t) \/ MakeTrampoline(t)
      BY <1>5, <1>6, <2>3
    <2>4. CASE Install(t) \/ UnhookProceeds(t)
      BY <1>7, <1>8, <1>11, <1>12, <2>4 DEF Install, UnhookProceeds
    <2>5. QED
      BY <1>17, <2>1, <2>2, <2>3, <2>4 DEF Proceed, GoesOn
  <1>18. CASE UNCHANGED vars
    BY <1>13, <1>18 DEF vars
  <1>19. QED
    BY <1>15, <1>16, <1>17, <1>18 DEF Next

(* ART's state and the sets of methods it is described by keep their types.*)
LEMMA ArtKeepsTypes ==
    ASSUME TypeInv, [Next]_vars
    PROVE  ArtTypes'
  <1> USE DEF ArtTypes
  <1>0. ArtTypes /\ CallTypes
    BY DEF TypeInv
  <1>1. ASSUME NEW c \in Classes, Initialize(c), UNCHANGED <<shape, stubMeasured, compiling,
                                                            overrun, dontBother, exposed,
                                                            unchecked, givenUp>>
        PROVE  ArtTypes'
    BY <1>0, <1>1 DEF Initialize
  <1>2. CASE UNCHANGED <<artVars, overrun, dontBother>>
    BY <1>0, <1>2 DEF artVars
  <1>3. ASSUME NEW t \in Threads, NEW m, hpc[t] # "idle",
               m \in {arg[t].target, arg[t].replacement}, NEW next, EnsureInitialized(t, m, next)
        PROVE  ArtTypes'
    <2>1. ClassOf[m] \in Classes
      BY <1>0, <1>3, ArgsInCall
    <2>2. CASE classState' = [classState EXCEPT ![ClassOf[m]] = "erroneous"]
      BY <1>0, <1>3, <2>1, <2>2 DEF EnsureInitialized
    <2>3. QED
      BY <1>1, <1>2, <1>3, <2>1, <2>2 DEF EnsureInitialized, artVars
  <1>4. CASE Art
    BY <1>0, <1>1, <1>4
       DEF Art, AppInitializes, MakeVisible, JitStart, JitLand, Deoptimize, artVars
  <1>5. ASSUME NEW t \in Threads, Call(t)
        PROVE  ArtTypes'
    BY <1>2, <1>5 DEF Call, Begin, Unhook
  <1>6. ASSUME NEW t \in Threads, Proceed(t)
        PROVE  ArtTypes'
    <2>1. CASE InitOriginal(t) \/ InitReplacement(t)
      BY <1>3, <2>1 DEF InitOriginal, InitReplacement
    <2>2. CASE SkipCheck(t) \/ WatchGivesUp(t) \/ Discourage(t)
      <3>1. arg[t].target \in Targets /\ arg[t].replacement \in Replacements
        BY <1>0, <2>2, ArgsInCall DEF SkipCheck, WatchGivesUp, Discourage
      <3>2. CASE SkipCheck(t)
        BY <1>0, <3>1, <3>2 DEF SkipCheck
      <3>3. CASE WatchGivesUp(t) \/ Discourage(t)
        BY <1>0, <3>1, <3>3 DEF WatchGivesUp, Discourage
      <3>4. QED
        BY <2>2, <3>2, <3>3
    <2>3. CASE \/ CheckBackup(t) \/ Settled(t) \/ Nudge(t) \/ Refused(t) \/ Watch(t)
               \/ WatchNudge(t) \/ WatchMoved(t) \/ WireBackup(t) \/ NoBackupAsked(t)
               \/ MakeTrampoline(t) \/ CallFails(t) \/ Install(t) \/ UnhookProceeds(t)
      BY <1>2, <2>3 DEF CheckBackup, Settled, Nudge, SpendNudge, Refused, Watch,
                        WatchNudge, WatchMoved, WireBackup, NoBackupAsked, MakeTrampoline,
                        CallFails, Install, UnhookProceeds
    <2>4. QED
      BY <1>6, <2>1, <2>2, <2>3 DEF Proceed, GoesOn
  <1>7. CASE UNCHANGED vars
    BY <1>2, <1>7 DEF vars
  <1>8. QED
    BY <1>4, <1>5, <1>6, <1>7 DEF Next

-----------------------------------------------------------------------------
(* Where the threads are.  A thread moves on, comes home or stays.         *)

(* A call in progress moves on to its next place, with its locals or new   *)
(* ones; install_hook() is entered by another way.                         *)
LEMMA GotoTypes ==
    ASSUME CallTypes, NEW t \in Threads, NEW where \in HookPC \ {"idle", "install"},
           hpc[t] \notin {"idle", "install"},
           hpc' = [hpc EXCEPT ![t] = where],
           arg' = arg \/ \E a \in Args : arg' = [arg EXCEPT ![t] = a],
           pc' = pc
    PROVE  CallTypes'
  BY HookAssumption DEF CallTypes

(* A call that answers gives its locals up.                                *)
LEMMA FailTypes ==
    ASSUME CallTypes, NEW t \in Threads, Fail(t), pc'[t] \notin Registry!InstallPC,
           \A u \in Threads \ {t} : pc'[u] = pc[u]
    PROVE  CallTypes'
  BY DEF CallTypes, Fail, HookPC

(* The record of a call with some of its fields set anew.                  *)
LEMMA ArgsUpdated ==
    ASSUME NEW a \in Args, NEW n \in Nat, NEW b \in Code \cup Trampolines \cup {NoRecord}
    PROVE  /\ [a EXCEPT !.nudges = n] \in Args
           /\ [a EXCEPT !.before = b] \in Args
           /\ [a EXCEPT !.nudges = n, !.before = b] \in Args
  BY DEF Args

(* Each thread is somewhere in hook_function(), in install_hook() exactly   *)
(* when the registry has it there too, or in no call and without locals.   *)
LEMMA ThreadsKeepTypes ==
    ASSUME TypeInv, [Next]_vars
    PROVE  CallTypes'
  <1>0. CallTypes
    BY DEF TypeInv
  <1>1. CASE UNCHANGED <<hpc, arg, pc>>
    BY <1>0, <1>1 DEF CallTypes
  <1>2. ASSUME NEW t \in Threads, Fail(t), UNCHANGED pc, hpc[t] # "install"
        PROVE  CallTypes'
    BY <1>0, <1>2, FailTypes DEF CallTypes
  <1>3. ASSUME NEW t \in Threads, NEW where \in HookPC \ {"idle", "install"},
               hpc[t] \notin {"idle", "install"}, UNCHANGED pc,
               Goto(t, where)
        PROVE  CallTypes'
    BY <1>0, <1>3, GotoTypes DEF Goto
  <1>4. ASSUME NEW t \in Threads, hpc[t] \in {"settle", "watch"}, UNCHANGED pc, Proceeds(t)
        PROVE  CallTypes'
    <2>1. arg[t] \in Args
      BY <1>0, <1>4, ArgsInCall
    <2>2. [arg[t] EXCEPT !.nudges = 0, !.before = NoRecord] \in Args
      BY <2>1, ArgsUpdated
    <2>3. arg' = [arg EXCEPT ![t] = [arg[t] EXCEPT !.nudges = 0, !.before = NoRecord]]
      BY <1>4 DEF Proceeds
    <2>4. "discourage" \in HookPC \ {"idle", "install"}
      BY DEF HookPC
    <2>5. QED
      BY <1>0, <1>4, <2>2, <2>3, <2>4, GotoTypes DEF Proceeds
  <1>5. ASSUME NEW t \in Threads, hpc[t] \in {"settle", "watch"}, SpendNudge(t)
        PROVE  CallTypes'
    <2>1. arg[t] \in Args
      BY <1>0, <1>5, ArgsInCall
    <2>2. [arg[t] EXCEPT !.nudges = arg[t].nudges + 1] \in Args
      BY <2>1 DEF Args
    <2>3. arg' = [arg EXCEPT ![t] = [arg[t] EXCEPT !.nudges = arg[t].nudges + 1]]
      BY <1>5 DEF SpendNudge
    <2>4. UNCHANGED <<hpc, pc>>
      BY <1>5 DEF SpendNudge, registryVars
    <2>5. QED
      BY HookAssumption, <1>0, <1>5, <2>2, <2>3, <2>4 DEF CallTypes
  <1>6. ASSUME NEW t \in Threads, Watch(t)
        PROVE  CallTypes'
    <2>1. arg[t] \in Args /\ hpc[t] = "settle" /\ arg[t].target \in Targets
      BY <1>0, <1>6, ArgsInCall DEF Watch
    <2>2. entry[arg[t].target] \in Code \cup Trampolines
      BY <2>1 DEF TypeInv, Registry!TypeOK, Registry!EntryPoint, Methods
    <2>3. [arg[t] EXCEPT !.before = entry[arg[t].target]] \in Args
      BY <2>1, <2>2, ArgsUpdated
    <2>4. /\ arg' = [arg EXCEPT ![t] = [arg[t] EXCEPT !.before = entry[arg[t].target]]]
          /\ hpc' = [hpc EXCEPT ![t] = "watch"]
          /\ UNCHANGED pc
      BY <1>6 DEF Watch, registryVars
    <2>5. "watch" \in HookPC \ {"idle", "install"}
      BY DEF HookPC
    <2>6. QED
      BY <1>0, <2>1, <2>3, <2>4, <2>5, GotoTypes
  <1>7. ASSUME NEW t \in Threads, NEW m \in Targets, NEW r \in Replacements, Begin(t, m, r)
        PROVE  CallTypes'
    <2> DEFINE a == [target |-> m, replacement |-> r, nudges |-> 0, before |-> NoRecord]
    <2>1. a \in Args
      BY DEF Args
    <2>2. /\ hpc[t] = "idle" /\ pc[t] = "idle" /\ UNCHANGED pc
          /\ hpc' = [hpc EXCEPT ![t] = "init_original"]
          /\ arg' = [arg EXCEPT ![t] = a]
      BY <1>7 DEF Begin, registryVars
    <2> HIDE DEF a
    <2>3. QED
      BY HookAssumption, <1>0, <2>1, <2>2 DEF CallTypes, HookPC, Registry!InstallPC
  <1>8. ASSUME NEW t \in Threads, NEW m \in Targets, Unhook(t, m)
        PROVE  CallTypes'
    <2>1. UNCHANGED <<hpc, arg>> /\ hpc[t] = "idle"
      BY <1>8 DEF Unhook
    <2>2. UNCHANGED pc \/ pc' = [pc EXCEPT ![t] = "remove_store"]
      BY <1>8 DEF Unhook, Registry!RemoveStale, Registry!RemoveCheck, Registry!Enter
    <2>3. QED
      BY <1>0, <2>1, <2>2 DEF CallTypes, TypeInv, Registry!TypeOK, Registry!InstallPC
  <1>9. ASSUME NEW t \in Threads, UnhookProceeds(t)
        PROVE  CallTypes'
    <2>1. UNCHANGED <<hpc, arg>> /\ pc[t] \in {"remove_store", "remove_verify"}
      BY <1>9 DEF UnhookProceeds, Registry!RemoveStore, Registry!RemoveVerify
    <2>2. \E p \in {"remove_verify", "idle"} : pc' = [pc EXCEPT ![t] = p]
      BY <1>9 DEF UnhookProceeds, Registry!RemoveStore, Registry!RemoveVerify, Registry!Goto,
                  Registry!Return
    <2>3. QED
      BY <1>0, <2>1, <2>2 DEF CallTypes, TypeInv, Registry!TypeOK, Registry!InstallPC
  <1>10. ASSUME NEW t \in Threads, Install(t)
         PROVE  CallTypes'
    <2>1. CASE Registry!InstallStore(t) /\ UNCHANGED <<hpc, arg>>
      <3>1. pc[t] = "install_store" /\ pc' = [pc EXCEPT ![t] = "install_verify"]
        BY <2>1 DEF Registry!InstallStore, Registry!Goto
      <3>2. QED
        BY <1>0, <2>1, <3>1 DEF CallTypes, TypeInv, Registry!TypeOK, Registry!InstallPC
    <2>2. CASE Registry!InstallVerify(t) /\ Fail(t)
      <3>1. pc' = [pc EXCEPT ![t] = "idle"]
        BY <2>2 DEF Registry!InstallVerify, Registry!Return
      <3>2. QED
        BY <1>0, <2>2, <3>1, FailTypes DEF TypeInv, Registry!TypeOK, Registry!InstallPC
    <2>3. QED
      BY <1>10, <2>1, <2>2 DEF Install
  <1>11. ASSUME NEW t \in Threads, MakeTrampoline(t)
         PROVE  CallTypes'
    <2>1. /\ hpc' = [hpc EXCEPT ![t] = "install"] /\ UNCHANGED arg
          /\ pc' = [pc EXCEPT ![t] = "install_store"] /\ hpc[t] = "hook"
      BY <1>11 DEF MakeTrampoline, Goto, Registry!InstallRead, Registry!Enter
    <2>2. QED
      BY <1>0, <2>1 DEF CallTypes, TypeInv, Registry!TypeOK, Registry!InstallPC, HookPC
  <1>12. ASSUME NEW t \in Threads, NEW m, NEW next \in HookPC \ {"idle", "install"},
                hpc[t] \notin {"idle", "install"}, EnsureInitialized(t, m, next)
         PROVE  CallTypes'
    BY <1>2, <1>3, <1>12 DEF EnsureInitialized, Initialize, ArtSets, registryVars
  <1>13. CASE Art
    BY <1>1, <1>13 DEF Art, AppInitializes, Initialize, MakeVisible, JitStart, JitLand,
                       Deoptimize, ArtSets, registryVars
  <1>14. ASSUME NEW t \in Threads, Proceed(t)
         PROVE  CallTypes'
    <2>1. CASE InitOriginal(t) \/ InitReplacement(t)
      BY <1>12, <2>1 DEF InitOriginal, InitReplacement, HookPC
    <2>2. CASE Refused(t) \/ CallFails(t)
      BY <1>2, <2>2 DEF Refused, StillParked, CallFails, registryVars
    <2>3. CASE \/ CheckBackup(t) \/ SkipCheck(t) \/ Discourage(t) \/ WireBackup(t)
               \/ NoBackupAsked(t)
      BY <1>2, <1>3, <2>3 DEF CheckBackup, SkipCheck, Discourage, WireBackup, NoBackupAsked,
                              registryVars, HookPC
    <2>4. CASE Settled(t) \/ WatchMoved(t) \/ WatchGivesUp(t)
      BY <1>4, <2>4 DEF Settled, WatchMoved, WatchGivesUp, registryVars
    <2>5. CASE Nudge(t) \/ WatchNudge(t)
      BY <1>5, <2>5 DEF Nudge, StillParked, WatchNudge
    <2>6. QED
      BY <1>6, <1>9, <1>10, <1>11, <1>14, <2>1, <2>2, <2>3, <2>4, <2>5 DEF Proceed, GoesOn
  <1>15. ASSUME NEW t \in Threads, Call(t)
         PROVE  CallTypes'
    BY <1>7, <1>8, <1>15 DEF Call
  <1>16. CASE UNCHANGED vars
    BY <1>1, <1>16 DEF vars, registryVars
  <1>17. QED
    BY <1>13, <1>14, <1>15, <1>16 DEF Next

-----------------------------------------------------------------------------
(* Trampolines.                                                            *)

(* A thunk that does something is told from none.                          *)
LEMMA ThunkKinds ==
    /\ \A r : Indirect(r) # NoThunk
    /\ \A m, e : Direct(m, e) # NoThunk
    /\ \A r, m, e : Indirect(r) # Direct(m, e)
    /\ \A m, n, e, f : Direct(m, e) = Direct(n, f) => m = n /\ e = f
  <1>1. /\ NoThunk.kind = "none"
        /\ \A r : Indirect(r).kind = "indirect"
        /\ \A m, e : /\ Direct(m, e).kind = "direct"
                     /\ Direct(m, e).method = m
                     /\ Direct(m, e).at = e
    BY DEF NoThunk, Indirect, Direct
  <1> HIDE DEF NoThunk, Indirect, Direct
  <1>2. "none" # "indirect" /\ "none" # "direct" /\ "indirect" # "direct"
    OBVIOUS
  <1>3. QED
    BY <1>1, <1>2

(* A trampoline is handed out once, and what it does is settled by then.   *)
LEMMA ThunksKeepTypes ==
    ASSUME TypeInv, [Next]_vars
    PROVE  ThunkTypes'
  <1>0. ThunkTypes /\ CallTypes /\ Registry!TypeOK
    BY DEF TypeInv
  <1>1. CASE UNCHANGED <<thunk, made>>
    BY <1>0, <1>1 DEF ThunkTypes
  <1>2. ASSUME CanAllocate, NEW k \in Thunks, k # NoThunk,
               made' = made \cup {Fresh}, thunk' = [thunk EXCEPT ![Fresh] = k]
        PROVE  ThunkTypes'
    <2>1. Fresh \in Trampolines
      BY <1>2 DEF CanAllocate, Fresh
    <2> HIDE DEF Fresh
    <2>2. QED
      BY <1>0, <1>2, <2>1 DEF ThunkTypes
  <1>3. ASSUME NEW t \in Threads, WireBackup(t)
        PROVE  ThunkTypes'
    <2> DEFINE k == Direct(arg[t].target, entry[arg[t].target])
    <2>1. arg[t].target \in Targets
      BY <1>0, <1>3, ArgsInCall DEF WireBackup
    <2>2. entry[arg[t].target] \in Code \cup Trampolines
      BY <1>0, <2>1 DEF Registry!TypeOK, Registry!EntryPoint, Methods
    <2>3. k \in Thunks /\ k # NoThunk
      BY <2>1, <2>2, ThunkKinds DEF Thunks
    <2> HIDE DEF k
    <2>4. CanAllocate /\ made' = made \cup {Fresh} /\ thunk' = [thunk EXCEPT ![Fresh] = k]
      BY <1>3 DEF WireBackup, k
    <2>5. QED
      BY <1>2, <2>3, <2>4
  <1>4. ASSUME NEW t \in Threads, MakeTrampoline(t)
        PROVE  ThunkTypes'
    <2> DEFINE k == Indirect(arg[t].replacement)
    <2>1. arg[t].replacement \in Replacements
      BY <1>0, <1>4, ArgsInCall DEF MakeTrampoline
    <2>2. k \in Thunks /\ k # NoThunk
      BY <2>1, ThunkKinds DEF Thunks
    <2> HIDE DEF k
    <2>3. CanAllocate /\ made' = made \cup {Fresh} /\ thunk' = [thunk EXCEPT ![Fresh] = k]
      BY <1>4 DEF MakeTrampoline, Registry!InstallRead, k
    <2>4. QED
      BY <1>2, <2>2, <2>3
  <1>5. CASE Art
    BY <1>1, <1>5 DEF Art, AppInitializes, Initialize, MakeVisible, JitStart, JitLand, Deoptimize,
                      ArtSets, registryVars
  <1>6. ASSUME NEW t \in Threads, Call(t)
        PROVE  ThunkTypes'
    BY <1>1, <1>6 DEF Call, Begin, Unhook, Registry!RemoveStale, Registry!RemoveCheck,
                      registryVars
  <1>7. ASSUME NEW t \in Threads, Proceed(t)
        PROVE  ThunkTypes'
    <2>1. CASE \/ InitOriginal(t) \/ InitReplacement(t)
      BY <1>1, <2>1 DEF InitOriginal, InitReplacement, EnsureInitialized, Initialize, ArtSets,
                        registryVars
    <2>2. CASE Install(t) \/ UnhookProceeds(t)
      BY <1>1, <2>2 DEF Install, UnhookProceeds, Registry!InstallStore, Registry!InstallVerify,
                        Registry!RemoveStore, Registry!RemoveVerify
    <2>3. CASE \/ CheckBackup(t) \/ SkipCheck(t) \/ Settled(t) \/ Nudge(t) \/ Refused(t)
               \/ Watch(t) \/ WatchNudge(t) \/ WatchMoved(t) \/ WatchGivesUp(t) \/ Discourage(t)
               \/ NoBackupAsked(t) \/ CallFails(t)
      BY <1>1, <2>3 DEF CheckBackup, SkipCheck, Settled, Nudge, SpendNudge, Refused, Watch,
                        WatchNudge, WatchMoved, WatchGivesUp, Discourage, NoBackupAsked,
                        CallFails, registryVars
    <2>4. QED
      BY <1>3, <1>4, <1>7, <2>1, <2>2, <2>3 DEF Proceed, GoesOn
  <1>8. CASE UNCHANGED vars
    BY <1>1, <1>8 DEF vars, registryVars
  <1>9. QED
    BY <1>5, <1>6, <1>7, <1>8 DEF Next

(* The inductive type invariant holds in every reachable state.            *)
THEOREM TypeInvHolds == Spec => []TypeInv
  <1>1. TypeInv /\ [Next]_vars => TypeInv'
    BY RegistryTypes, ArtKeepsTypes, ThreadsKeepTypes, ThunksKeepTypes DEF TypeInv
  <1>2. QED
    BY <1>1, TypesInit, PTL DEF Spec

(* The types, the lock's coupling to the program counters, and a thunk for *)
(* each trampoline that was handed out and for no other.                   *)
THEOREM HookTypeCorrect == Spec => []HookTypeOK
  BY TypeInvHolds, TypeInvTypes, PTL

-----------------------------------------------------------------------------
(* The stub.  What a hook displaces and a backup captures is read when the *)
(* target is off the stub, and it has to stay off from there to the store: *)
(* its class is initialised, so nothing parks it again but an unhook, and  *)
(* that puts back what another hook read under the same conditions.        *)

ThunksLeftTheStub ==
    \A m \in Targets \ givenUp : \A x \in Trampolines : thunk[x] # Direct(m, "stub")

HooksLeftTheStub ==
    \A m \in Targets \ givenUp : \A i \in 1..Len(hooks) :
        hooks[i].target = m => hooks[i].previous_entry # "stub"

FramesLeftTheStub ==
    \A m \in Targets \ givenUp : \A t \in Threads :
        pc[t] # "idle" /\ frame[t].target = m => frame[t].previous_entry # "stub"

\* Only a static method is ever on the stub, watched, or given up on.
InstanceNeverParks ==
    /\ \A m \in Targets : ~Static(m) => entry[m] # "stub" /\ m \notin givenUp
    /\ \A t \in Threads : hpc[t] = "watch" => Static(arg[t].target)

Started(c) == classState[c] \in {"initialized", "visible"}

TargetIsStarted ==
    \A t \in Threads :
        hpc[t] \notin {"idle", "init_original"} => Started(ClassOf[arg[t].target])

\* Past the settling, and while a target is watched that was not on the stub.
IsPast(t) ==
    \/ hpc[t] \in {"discourage", "backup", "hook"}
    \/ hpc[t] = "watch" /\ arg[t].before # "stub"

TargetIsOff ==
    \A t \in Threads :
        IsPast(t) /\ arg[t].target \notin givenUp => entry[arg[t].target] # "stub"

StubInv ==
    /\ ThunksLeftTheStub
    /\ HooksLeftTheStub
    /\ FramesLeftTheStub
    /\ InstanceNeverParks
    /\ TargetIsStarted
    /\ TargetIsOff

(* The invariant is stronger than the property that a run checks.          *)
LEMMA StubInvSuffices == TypeInv /\ StubInv => StubIsLeftFirst
  <1> SUFFICES ASSUME TypeInv, StubInv
               PROVE  StubIsLeftFirst
    OBVIOUS
  <1>1. DOMAIN hooks = 1..Len(hooks)
    BY DEF TypeInv, Registry!TypeOK
  <1>2. QED
    BY <1>1 DEF StubInv, ThunksLeftTheStub, HooksLeftTheStub, StubIsLeftFirst, CapturedTheStub

(* Only static methods start on the stub, and nothing has read a slot yet. *)
LEMMA StubInvInit == Init => StubInv
  <1> SUFFICES ASSUME Init
               PROVE  StubInv
    OBVIOUS
  <1>1. ThunksLeftTheStub
    BY ThunkKinds DEF Init, ThunksLeftTheStub
  <1>2. HooksLeftTheStub /\ FramesLeftTheStub
    BY DEF Init, HooksLeftTheStub, FramesLeftTheStub
  <1>3. InstanceNeverParks
    BY DEF Init, InstanceNeverParks, InitialEntry, Parked, Static, Methods
  <1>4. TargetIsStarted /\ TargetIsOff
    BY DEF Init, TargetIsStarted, TargetIsOff, IsPast
  <1>5. QED
    BY <1>1, <1>2, <1>3, <1>4 DEF StubInv

(* A class that was initialised stays so.                                  *)
LEMMA StaysStarted ==
    ASSUME TypeInv, [Next]_vars, NEW c \in Classes, Started(c)
    PROVE  Started(c)'
  <1> USE DEF Started
  <1>0. classState \in [Classes -> {"loaded", "initialized", "visible", "erroneous"}]
    BY DEF TypeInv, ArtTypes
  <1>1. CASE UNCHANGED classState
    BY <1>1
  <1>2. ASSUME NEW d \in Classes, NEW s \in {"initialized", "visible", "erroneous"},
               classState' = [classState EXCEPT ![d] = s],
               classState[d] = "loaded" \/ s # "erroneous"
        PROVE  Started(c)'
    BY <1>0, <1>2
  <1>3. ASSUME NEW t \in Threads, NEW m, hpc[t] # "idle",
               m \in {arg[t].target, arg[t].replacement}, NEW next, EnsureInitialized(t, m, next)
        PROVE  Started(c)'
    <2>1. ClassOf[m] \in Classes
      BY <1>3, ArgsInCall DEF TypeInv
    <2>2. QED
      BY <1>1, <1>2, <1>3, <2>1 DEF EnsureInitialized, Initialize
  <1>4. CASE Art
    BY <1>1, <1>2, <1>4 DEF Art, AppInitializes, Initialize, MakeVisible, JitStart, JitLand,
                            Deoptimize, artVars
  <1>5. ASSUME NEW t \in Threads, Call(t)
        PROVE  UNCHANGED classState
    BY <1>5 DEF Call, Begin, Unhook, artVars
  <1>6. ASSUME NEW t \in Threads, Proceed(t)
        PROVE  Started(c)'
    <2>1. CASE InitOriginal(t) \/ InitReplacement(t)
      BY <1>3, <2>1 DEF InitOriginal, InitReplacement
    <2>2. CASE \/ CheckBackup(t) \/ SkipCheck(t) \/ Settled(t) \/ Nudge(t) \/ Refused(t)
               \/ Watch(t) \/ WatchNudge(t) \/ WatchMoved(t) \/ WatchGivesUp(t) \/ Discourage(t)
               \/ WireBackup(t) \/ NoBackupAsked(t) \/ MakeTrampoline(t) \/ CallFails(t)
               \/ Install(t) \/ UnhookProceeds(t)
      BY <1>1, <2>2 DEF CheckBackup, SkipCheck, Settled, Nudge, SpendNudge, Refused, Watch,
                        WatchNudge, WatchMoved, WatchGivesUp, Discourage, WireBackup,
                        NoBackupAsked, MakeTrampoline, CallFails, Install, UnhookProceeds, artVars
    <2>3. QED
      BY <1>6, <2>1, <2>2 DEF Proceed, GoesOn
  <1>7. CASE UNCHANGED vars
    BY <1>1, <1>7 DEF vars, artVars
  <1>8. QED
    BY <1>1, <1>4, <1>5, <1>6, <1>7 DEF Next

(* Once a target is off the stub it stays off, if it is an instance method *)
(* or its class is initialised -- unless it is given up on.                *)
LEMMA StaysOff ==
    ASSUME TypeInv, StubInv, [Next]_vars, NEW m \in Targets, m \notin givenUp,
           entry[m] # "stub", ~Static(m) \/ Started(ClassOf[m])
    PROVE  entry'[m] # "stub"
  <1>0. /\ entry \in [Methods -> Code \cup Trampolines] /\ m \in Methods
        /\ \A x \in Trampolines : x # "stub"
    BY HookAssumption DEF TypeInv, Registry!TypeOK, Registry!EntryPoint, Methods, Code
  <1>1. CASE UNCHANGED entry
    BY <1>1
  <1>2. ASSUME NEW ms, NEW code, m \in ms => code[m] # "stub", ArtSets(ms, code)
        PROVE  entry'[m] # "stub"
    BY <1>0, <1>2 DEF ArtSets
  <1>3. ASSUME NEW c \in Classes, Initialize(c)
        PROVE  entry'[m] # "stub"
    <2> DEFINE code == [n \in MethodsOf(c) |-> InitialEntry(n)]
    <2>1. m \in MethodsOf(c) => code[m] # "stub"
      BY <1>3 DEF Initialize, MethodsOf, Started, InitialEntry, Parked, Static
    <2>2. ArtSets(MethodsOf(c), code)
      BY <1>3 DEF Initialize
    <2> HIDE DEF code
    <2>3. QED
      BY <1>2, <2>1, <2>2
  <1>4. ASSUME NEW c \in Classes, MakeVisible(c)
        PROVE  entry'[m] # "stub"
    <2> DEFINE ms == {n \in MethodsOf(c) : entry[n] = "stub"}
               code == [n \in ms |-> "body"]
    <2>1. m \notin ms /\ ArtSets(ms, code)
      BY <1>4 DEF MakeVisible
    <2> HIDE DEF ms, code
    <2>2. QED
      BY <1>2, <2>1
  <1>5. ASSUME NEW n \in Targets, JitLand(n) \/ Deoptimize(n)
        PROVE  entry'[m] # "stub"
    BY <1>0, <1>5 DEF JitLand, Deoptimize, ArtSets
  <1>6. ASSUME NEW t \in Threads, WireBackup(t)
        PROVE  entry'[m] # "stub"
    <2> DEFINE b == BackupOf[arg[t].replacement]
    <2>1. b \in Backups
      BY HookAssumption, <1>6, ArgsInCall DEF WireBackup, TypeInv
    <2>2. entry' = [entry EXCEPT ![b] = Fresh]
      BY <1>6 DEF WireBackup
    <2> HIDE DEF b
    <2>3. QED
      BY HookAssumption, <1>0, <2>1, <2>2
  <1>7. ASSUME NEW t \in Threads, Registry!InstallStore(t)
        PROVE  entry'[m] # "stub"
    <2>1. frame[t].installed_entry \in Trampolines
      BY <1>7 DEF TypeInv, Registry!TypeOK, Registry!InstallStore, Registry!Record
    <2>2. QED
      BY <1>0, <1>7, <2>1 DEF Registry!InstallStore, Registry!Store
  <1>8. ASSUME NEW t \in Threads, Registry!RemoveStore(t)
        PROVE  entry'[m] # "stub"
    <2>1. frame[t].target = m => frame[t].previous_entry # "stub"
      BY <1>8 DEF StubInv, FramesLeftTheStub, Registry!RemoveStore
    <2>2. QED
      BY <1>0, <1>8, <2>1 DEF Registry!RemoveStore, Registry!Store
  <1>9. ASSUME NEW t \in Threads, NEW n, hpc[t] # "idle",
               n \in {arg[t].target, arg[t].replacement}, NEW next, EnsureInitialized(t, n, next)
        PROVE  entry'[m] # "stub"
    <2>1. ClassOf[n] \in Classes
      BY <1>9, ArgsInCall DEF TypeInv
    <2>2. QED
      BY <1>1, <1>3, <1>9, <2>1 DEF EnsureInitialized, registryVars
  <1>10. CASE Art
    BY <1>1, <1>3, <1>4, <1>5, <1>10 DEF Art, AppInitializes, JitStart, registryVars
  <1>11. ASSUME NEW t \in Threads, Call(t)
         PROVE  UNCHANGED entry
    BY <1>11 DEF Call, Begin, Unhook, Registry!RemoveStale, Registry!RemoveCheck, registryVars
  <1>12. ASSUME NEW t \in Threads, Proceed(t)
         PROVE  entry'[m] # "stub"
    <2>1. CASE InitOriginal(t) \/ InitReplacement(t)
      BY <1>9, <2>1 DEF InitOriginal, InitReplacement
    <2>2. CASE \/ CheckBackup(t) \/ SkipCheck(t) \/ Settled(t) \/ Nudge(t) \/ Refused(t)
               \/ Watch(t) \/ WatchNudge(t) \/ WatchMoved(t) \/ WatchGivesUp(t) \/ Discourage(t)
               \/ NoBackupAsked(t) \/ MakeTrampoline(t) \/ CallFails(t)
      BY <1>1, <2>2 DEF CheckBackup, SkipCheck, Settled, Nudge, SpendNudge, Refused, Watch,
                        WatchNudge, WatchMoved, WatchGivesUp, Discourage, NoBackupAsked,
                        MakeTrampoline, Registry!InstallRead, CallFails, registryVars
    <2>3. CASE Install(t) \/ UnhookProceeds(t)
      BY <1>1, <1>7, <1>8, <2>3 DEF Install, UnhookProceeds, Registry!InstallVerify,
                                    Registry!RemoveVerify
    <2>4. QED
      BY <1>6, <1>12, <2>1, <2>2, <2>3 DEF Proceed, GoesOn
  <1>13. CASE UNCHANGED vars
    BY <1>1, <1>13 DEF vars, registryVars
  <1>14. QED
    BY <1>1, <1>10, <1>11, <1>12, <1>13 DEF Next

-----------------------------------------------------------------------------
(* How a call comes to each place, and what holds of its target there.     *)

Stays(u) ==
    /\ hpc'[u] = hpc[u]
    /\ arg'[u].target = arg[u].target /\ arg'[u].replacement = arg[u].replacement
    /\ arg'[u].before = arg[u].before

MovesOn(u) ==
    /\ arg'[u].target = arg[u].target /\ arg'[u].replacement = arg[u].replacement
    /\ \/ hpc[u] = "init_original" /\ hpc'[u] = "init_replacement"
             /\ Started(ClassOf[arg[u].target])'
       \/ hpc[u] = "init_replacement" /\ hpc'[u] = "check_backup"
             /\ Started(ClassOf[arg[u].replacement])'
       \/ hpc[u] = "check_backup" /\ hpc'[u] = "settle"
             /\ (RejectsBackup(arg[u].target, arg[u].replacement) =>
                    <<arg[u].target, arg[u].replacement>> \in unchecked')
       \/ hpc[u] = "settle" /\ hpc'[u] = "watch"
             /\ Static(arg[u].target) /\ UNCHANGED entry
             /\ arg'[u].before = entry[arg[u].target]
       \/ hpc[u] \in {"settle", "watch"} /\ hpc'[u] = "discourage"
             /\ UNCHANGED entry
             /\ \/ arg[u].target \in givenUp'
                \/ ~Static(arg[u].target)
                \/ entry[arg[u].target] # "stub"
                \/ hpc[u] = "watch" /\ entry[arg[u].target] # arg[u].before
       \/ hpc[u] = "discourage" /\ hpc'[u] = "backup" /\ arg[u].target \in Approached'
       \/ hpc[u] \in {"backup", "hook"} /\ hpc'[u] \in {"hook", "install"}

Comes(u) ==
    \/ hpc'[u] = "idle"
    \/ hpc'[u] = "init_original" /\ \E m \in Targets, r \in Replacements : Begin(u, m, r)
    \/ Stays(u)
    \/ MovesOn(u)

(* Every step moves a call as Comes says.                                  *)
LEMMA CallMoves ==
    ASSUME TypeInv, [Next]_vars, NEW u \in Threads
    PROVE  Comes(u)
  <1>0. /\ CallTypes
        /\ classState \in [Classes -> {"loaded", "initialized", "visible", "erroneous"}]
        /\ hpc \in [Threads -> HookPC]
        /\ arg \in [Threads -> Args \cup {NoRecord}]
    BY DEF TypeInv, ArtTypes, CallTypes
  <1>1. CASE UNCHANGED <<hpc, arg>>
    BY <1>1 DEF Comes, Stays
  <1>2. ASSUME NEW t \in Threads, t # u, NEW w, NEW a,
               hpc' = hpc \/ hpc' = [hpc EXCEPT ![t] = w],
               arg' = arg \/ arg' = [arg EXCEPT ![t] = a]
        PROVE  Comes(u)
    <2>1. hpc'[u] = hpc[u]
      BY <1>0, <1>2
    <2>2. arg'[u] = arg[u]
      BY <1>0, <1>2
    <2>3. QED
      BY <2>1, <2>2 DEF Comes, Stays
  <1>3. ASSUME NEW t \in Threads, Fail(t)
        PROVE  Comes(u)
    <2>1. CASE t = u
      BY <1>0, <1>3, <2>1 DEF Comes, Fail
    <2>2. CASE t # u
      BY <1>2, <1>3, <2>2 DEF Fail
    <2>3. QED
      BY <2>1, <2>2
  <1>4. ASSUME NEW t \in Threads, NEW where, Goto(t, where),
               \/ where = "init_replacement" /\ hpc[t] = "init_original"
                     /\ Started(ClassOf[arg[t].target])'
               \/ where = "check_backup" /\ hpc[t] = "init_replacement"
                     /\ Started(ClassOf[arg[t].replacement])'
               \/ where = "settle" /\ hpc[t] = "check_backup"
                     /\ (RejectsBackup(arg[t].target, arg[t].replacement) =>
                            <<arg[t].target, arg[t].replacement>> \in unchecked')
               \/ where = "backup" /\ hpc[t] = "discourage" /\ arg[t].target \in Approached'
               \/ where \in {"hook", "install"} /\ hpc[t] \in {"backup", "hook"}
        PROVE  Comes(u)
    <2>1. CASE t = u
      <3>1. hpc'[u] = where /\ arg' = arg
        BY <1>0, <1>4, <2>1 DEF Goto
      <3>2. QED
        BY <1>4, <2>1, <3>1 DEF Comes, MovesOn
    <2>2. CASE t # u
      BY <1>2, <1>4, <2>2 DEF Goto
    <2>3. QED
      BY <2>1, <2>2
  <1>5. ASSUME NEW t \in Threads, Proceeds(t), hpc[t] \in {"settle", "watch"}, UNCHANGED entry,
               \/ arg[t].target \in givenUp'
               \/ ~Static(arg[t].target)
               \/ entry[arg[t].target] # "stub"
               \/ hpc[t] = "watch" /\ entry[arg[t].target] # arg[t].before
        PROVE  Comes(u)
    <2> DEFINE a == [arg[t] EXCEPT !.nudges = 0, !.before = NoRecord]
    <2>1. /\ hpc' = [hpc EXCEPT ![t] = "discourage"]
          /\ arg' = [arg EXCEPT ![t] = a]
      BY <1>5 DEF Proceeds
    <2>2. a.target = arg[t].target /\ a.replacement = arg[t].replacement
      BY <1>0, <1>5, ArgsInCall DEF Args
    <2> HIDE DEF a
    <2>3. CASE t = u
      <3>1. hpc'[u] = "discourage" /\ arg'[u] = a
        BY <1>0, <2>1, <2>3
      <3>2. QED
        BY <1>5, <2>2, <2>3, <3>1 DEF Comes, MovesOn
    <2>4. CASE t # u
      BY <1>2, <2>1, <2>4
    <2>5. QED
      BY <2>3, <2>4
  <1>6. ASSUME NEW t \in Threads, SpendNudge(t), hpc[t] \in {"settle", "watch"}
        PROVE  Comes(u)
    <2> DEFINE a == [arg[t] EXCEPT !.nudges = arg[t].nudges + 1]
    <2>1. hpc' = hpc /\ arg' = [arg EXCEPT ![t] = a]
      BY <1>6 DEF SpendNudge
    <2>2. /\ a.target = arg[t].target /\ a.replacement = arg[t].replacement
          /\ a.before = arg[t].before
      BY <1>0, <1>6, ArgsInCall DEF Args
    <2> HIDE DEF a
    <2>3. CASE t = u
      BY <1>0, <2>1, <2>2, <2>3 DEF Comes, Stays
    <2>4. CASE t # u
      BY <1>2, <2>1, <2>4
    <2>5. QED
      BY <2>3, <2>4
  <1>7. ASSUME NEW t \in Threads, Watch(t)
        PROVE  Comes(u)
    <2> DEFINE a == [arg[t] EXCEPT !.before = entry[arg[t].target]]
    <2>1. /\ hpc' = [hpc EXCEPT ![t] = "watch"] /\ arg' = [arg EXCEPT ![t] = a]
          /\ hpc[t] = "settle" /\ Static(arg[t].target) /\ UNCHANGED entry
      BY <1>7 DEF Watch, registryVars
    <2>2. /\ a.target = arg[t].target /\ a.replacement = arg[t].replacement
          /\ a.before = entry[arg[t].target]
      BY <1>0, <2>1, ArgsInCall DEF Args
    <2> HIDE DEF a
    <2>3. CASE t = u
      <3>1. hpc'[u] = "watch" /\ arg'[u] = a
        BY <1>0, <2>1, <2>3
      <3>2. QED
        BY <2>1, <2>2, <2>3, <3>1 DEF Comes, MovesOn
    <2>4. CASE t # u
      BY <1>2, <2>1, <2>4
    <2>5. QED
      BY <2>3, <2>4
  <1>8. ASSUME NEW t \in Threads, NEW m \in Targets, NEW r \in Replacements, Begin(t, m, r)
        PROVE  Comes(u)
    <2>1. CASE t = u
      <3>1. hpc'[u] = "init_original"
        BY <1>0, <1>8, <2>1 DEF Begin
      <3>2. QED
        BY <1>8, <2>1, <3>1 DEF Comes
    <2>2. CASE t # u
      BY <1>2, <1>8, <2>2 DEF Begin
    <2>3. QED
      BY <2>1, <2>2
  <1>9. ASSUME NEW t \in Threads, hpc[t] # "idle", NEW m \in {arg[t].target, arg[t].replacement},
               NEW next, EnsureInitialized(t, m, next)
        PROVE  Fail(t) \/ (Goto(t, next) /\ classState'[ClassOf[m]] \in {"initialized", "visible"})
    <2> DEFINE c == ClassOf[m]
    <2>1. c \in Classes
      BY <1>0, <1>9, ArgsInCall
    <2>2. CASE Goto(t, next) /\ classState' = [classState EXCEPT ![c] = "initialized"]
      BY <1>0, <2>1, <2>2
    <2>3. CASE Goto(t, next) /\ Started(c) /\ UNCHANGED classState
      BY <2>3 DEF Started
    <2>4. QED
      BY <1>9, <2>2, <2>3 DEF EnsureInitialized, Initialize, Started
  <1>10. ASSUME NEW t \in Threads, InitOriginal(t) \/ InitReplacement(t)
         PROVE  Comes(u)
    <2> DEFINE m == IF hpc[t] = "init_original" THEN arg[t].target ELSE arg[t].replacement
               next == IF hpc[t] = "init_original" THEN "init_replacement" ELSE "check_backup"
    <2>1. /\ hpc[t] \in {"init_original", "init_replacement"}
          /\ EnsureInitialized(t, m, next)
      BY <1>10 DEF InitOriginal, InitReplacement
    <2>2. CASE Fail(t)
      BY <1>3, <2>2
    <2>3. CASE Goto(t, next) /\ classState'[ClassOf[m]] \in {"initialized", "visible"}
      <3>1. arg' = arg
        BY <2>3 DEF Goto
      <3>2. /\ hpc[t] = "init_original" => Started(ClassOf[arg[t].target])'
            /\ hpc[t] = "init_replacement" => Started(ClassOf[arg[t].replacement])'
        BY <2>3, <3>1 DEF Started
      <3>3. QED
        BY <1>4, <2>1, <2>3, <3>2
    <2>4. QED
      BY <1>9, <2>1, <2>2, <2>3
  <1>11. ASSUME NEW t \in Threads, Proceed(t)
         PROVE  Comes(u)
    <2>1. CASE Refused(t) \/ CallFails(t)
      BY <1>3, <2>1 DEF Refused, CallFails
    <2>2. CASE \/ CheckBackup(t) \/ SkipCheck(t) \/ Discourage(t) \/ WireBackup(t)
               \/ NoBackupAsked(t) \/ MakeTrampoline(t)
      BY <1>3, <1>4, <2>2 DEF CheckBackup, SkipCheck, Discourage, Approached, WireBackup,
                              NoBackupAsked, MakeTrampoline
    <2>3. CASE Settled(t) \/ WatchMoved(t) \/ WatchGivesUp(t)
      <3>1. arg[t].target \in givenUp' \/ ~WatchGivesUp(t)
        BY DEF WatchGivesUp
      <3>2. QED
        BY <1>5, <2>3, <3>1 DEF Settled, OnTheStub, WatchMoved, Moved, WatchGivesUp, registryVars
    <2>4. CASE Nudge(t) \/ WatchNudge(t)
      BY <1>6, <2>4 DEF Nudge, StillParked, WatchNudge
    <2>5. CASE Install(t) \/ UnhookProceeds(t)
      BY <1>1, <1>3, <2>5 DEF Install, UnhookProceeds
    <2>6. QED
      BY <1>7, <1>10, <1>11, <2>1, <2>2, <2>3, <2>4, <2>5 DEF Proceed, GoesOn
  <1>12. CASE Art
    BY <1>1, <1>12 DEF Art, AppInitializes, MakeVisible, JitStart, JitLand, Deoptimize, artVars
  <1>13. ASSUME NEW t \in Threads, Call(t)
         PROVE  Comes(u)
    BY <1>1, <1>8, <1>13 DEF Call, Unhook
  <1>14. CASE UNCHANGED vars
    BY <1>1, <1>14 DEF vars
  <1>15. QED
    BY <1>11, <1>12, <1>13, <1>14 DEF Next

-----------------------------------------------------------------------------
(* The invariant, one part after the other.                                *)

(* shape never changes, a target is given up on once and for all, and what *)
(* was not checked is remembered.                                          *)
LEMMA GivingUpIsFinal ==
    ASSUME [Next]_vars
    PROVE  shape' = shape /\ givenUp \subseteq givenUp' /\ unchecked \subseteq unchecked'
  <1>1. CASE Art
    BY <1>1 DEF Art, AppInitializes, MakeVisible, JitStart, JitLand, Deoptimize, artVars
  <1>2. ASSUME NEW t \in Threads, Call(t)
        PROVE  UNCHANGED <<shape, givenUp, unchecked>>
    BY <1>2 DEF Call, Begin, Unhook, artVars
  <1>3. ASSUME NEW t \in Threads, Proceed(t)
        PROVE  shape' = shape /\ givenUp \subseteq givenUp' /\ unchecked \subseteq unchecked'
    BY <1>3 DEF Proceed, GoesOn, InitOriginal, InitReplacement, EnsureInitialized, CheckBackup,
                SkipCheck, Settled, Nudge, SpendNudge, Refused, Watch, WatchNudge, WatchMoved,
                WatchGivesUp, Discourage, WireBackup, NoBackupAsked, MakeTrampoline, CallFails,
                Install, UnhookProceeds, artVars
  <1>4. CASE UNCHANGED vars
    BY <1>4 DEF vars, artVars
  <1>5. QED
    BY <1>1, <1>2, <1>3, <1>4 DEF Next

(* Past ensure_class_initialized() the target's class is initialised.      *)
LEMMA KeepsStarted ==
    ASSUME TypeInv, StubInv, [Next]_vars
    PROVE  TargetIsStarted'
  <1> SUFFICES ASSUME NEW u \in Threads, hpc'[u] \notin {"idle", "init_original"}
               PROVE  classState'[ClassOf[arg'[u].target]] \in {"initialized", "visible"}
    BY DEF TargetIsStarted, Started
  <1>1. Stays(u) \/ MovesOn(u)
    BY CallMoves DEF Comes
  <1>2. arg'[u].target = arg[u].target
    BY <1>1 DEF Stays, MovesOn
  <1>3. CASE hpc[u] = "init_original"
    BY <1>1, <1>2, <1>3 DEF Stays, MovesOn, Started
  <1>4. CASE hpc[u] # "init_original"
    <2>1. hpc[u] # "idle"
      BY <1>1 DEF Stays, MovesOn
    <2>2. ClassOf[arg[u].target] \in Classes
      BY <2>1, ArgsInCall DEF TypeInv
    <2>3. Started(ClassOf[arg[u].target])
      BY <1>4, <2>1 DEF StubInv, TargetIsStarted
    <2>4. QED
      BY <1>2, <2>2, <2>3, StaysStarted DEF Started
  <1>5. QED
    BY <1>3, <1>4

(* Nobody parks a target again between its settling and the reading of it. *)
LEMMA KeepsOff ==
    ASSUME TypeInv, StubInv, [Next]_vars
    PROVE  TargetIsOff'
  <1> SUFFICES ASSUME NEW u \in Threads, IsPast(u)', arg'[u].target \notin givenUp'
               PROVE  entry'[arg'[u].target] # "stub"
    BY DEF TargetIsOff
  <1> DEFINE m == arg[u].target
  <1>1. Stays(u) \/ MovesOn(u)
    BY CallMoves DEF Comes, IsPast
  <1>2. arg'[u].target = m
    BY <1>1 DEF Stays, MovesOn
  <1>3. hpc[u] \notin {"idle", "init_original"}
    BY <1>1 DEF Stays, MovesOn, IsPast
  <1>4. m \in Targets /\ m \notin givenUp
    BY <1>2, <1>3, ArgsInCall, GivingUpIsFinal DEF TypeInv
  <1>5. Started(ClassOf[m])
    BY <1>3 DEF StubInv, TargetIsStarted
  <1>6. entry[m] # "stub" => entry'[m] # "stub"
    BY <1>4, <1>5, StaysOff
  <1>7. IsPast(u) => entry[m] # "stub"
    BY <1>4 DEF StubInv, TargetIsOff
  <1>8. ~Static(m) => entry[m] # "stub"
    BY <1>4 DEF StubInv, InstanceNeverParks
  <1> HIDE DEF m
  <1>9. CASE Stays(u)
    BY <1>2, <1>6, <1>7, <1>9 DEF Stays, IsPast
  <1>10. CASE MovesOn(u)
    BY <1>2, <1>6, <1>7, <1>8, <1>10 DEF MovesOn, IsPast, m
  <1>11. QED
    BY <1>1, <1>9, <1>10

(* An instance method is neither on the stub nor settled by watching.      *)
LEMMA KeepsInstancesOff ==
    ASSUME TypeInv, StubInv, [Next]_vars
    PROVE  InstanceNeverParks'
  <1>1. shape' = shape
    BY GivingUpIsFinal
  <1>2. ASSUME NEW m \in Targets, ~Static(m)
        PROVE  entry'[m] # "stub"
    BY <1>2, StaysOff DEF StubInv, InstanceNeverParks
  <1>3. ASSUME NEW m \in Targets, m \in givenUp', m \notin givenUp
        PROVE  Static(m)
    <2>1. PICK t \in Threads : WatchGivesUp(t)
      <3>1. CASE Art
        BY <1>3, <3>1 DEF Art, AppInitializes, MakeVisible, JitStart, JitLand, Deoptimize, artVars
      <3>2. ASSUME NEW t \in Threads, Call(t)
            PROVE  UNCHANGED givenUp
        BY <3>2 DEF Call, Begin, Unhook, artVars
      <3>3. ASSUME NEW t \in Threads, Proceed(t), ~WatchGivesUp(t)
            PROVE  UNCHANGED givenUp
        BY <3>3 DEF Proceed, GoesOn, InitOriginal, InitReplacement, EnsureInitialized,
                    CheckBackup, SkipCheck, Settled, Nudge, SpendNudge, Refused, Watch,
                    WatchNudge, WatchMoved, Discourage, WireBackup, NoBackupAsked, MakeTrampoline,
                    CallFails, Install, UnhookProceeds, artVars
      <3>4. QED
        BY <1>3, <3>1, <3>2, <3>3 DEF Next, vars, artVars
    <2>2. QED
      BY <1>3, <2>1 DEF WatchGivesUp, StubInv, InstanceNeverParks
  <1>4. ASSUME NEW u \in Threads, hpc'[u] = "watch"
        PROVE  Static(arg'[u].target)
    <2>1. Stays(u) \/ MovesOn(u)
      BY <1>4, CallMoves DEF Comes
    <2>2. QED
      BY <1>4, <2>1 DEF Stays, MovesOn, StubInv, InstanceNeverParks
  <1>5. QED
    BY <1>1, <1>2, <1>3, <1>4 DEF InstanceNeverParks, Static, StubInv

(* A backup captures the entry of a target that is past the settling.      *)
LEMMA ThunksKeepOff ==
    ASSUME TypeInv, StubInv, [Next]_vars
    PROVE  ThunksLeftTheStub'
  <1>0. givenUp \subseteq givenUp' /\ CallTypes /\ ThunkTypes
    BY GivingUpIsFinal DEF TypeInv
  <1>1. CASE UNCHANGED thunk
    BY <1>0, <1>1 DEF StubInv, ThunksLeftTheStub
  <1>2. ASSUME NEW k, thunk' = [thunk EXCEPT ![Fresh] = k],
               \A m \in Targets \ givenUp : k # Direct(m, "stub")
        PROVE  ThunksLeftTheStub'
    <2>1. ASSUME NEW x \in Trampolines
          PROVE  thunk'[x] = thunk[x] \/ thunk'[x] = k
      BY <1>0, <1>2 DEF ThunkTypes
    <2>2. QED
      BY <1>0, <1>2, <2>1 DEF StubInv, ThunksLeftTheStub
  <1>3. ASSUME NEW t \in Threads, WireBackup(t)
        PROVE  ThunksLeftTheStub'
    <2> DEFINE k == Direct(arg[t].target, entry[arg[t].target])
    <2>1. arg[t].target \notin givenUp => entry[arg[t].target] # "stub"
      BY <1>3 DEF WireBackup, StubInv, TargetIsOff, IsPast
    <2>2. \A m \in Targets \ givenUp : k # Direct(m, "stub")
      BY <2>1, ThunkKinds
    <2>3. thunk' = [thunk EXCEPT ![Fresh] = k]
      BY <1>3 DEF WireBackup
    <2> HIDE DEF k
    <2>4. QED
      BY <1>2, <2>2, <2>3
  <1>4. ASSUME NEW t \in Threads, MakeTrampoline(t)
        PROVE  ThunksLeftTheStub'
    <2> DEFINE k == Indirect(arg[t].replacement)
    <2>1. \A m \in Targets \ givenUp : k # Direct(m, "stub")
      BY ThunkKinds
    <2>2. thunk' = [thunk EXCEPT ![Fresh] = k]
      BY <1>4 DEF MakeTrampoline
    <2> HIDE DEF k
    <2>3. QED
      BY <1>2, <2>1, <2>2
  <1>5. CASE Art
    BY <1>1, <1>5 DEF Art, AppInitializes, MakeVisible, JitStart, JitLand, Deoptimize, artVars
  <1>6. ASSUME NEW t \in Threads, Call(t)
        PROVE  UNCHANGED thunk
    BY <1>6 DEF Call, Begin, Unhook
  <1>7. ASSUME NEW t \in Threads, Proceed(t)
        PROVE  ThunksLeftTheStub'
    BY <1>1, <1>3, <1>4, <1>7
       DEF Proceed, GoesOn, InitOriginal, InitReplacement, EnsureInitialized, CheckBackup,
           SkipCheck, Settled, Nudge, SpendNudge, Refused, Watch, WatchNudge, WatchMoved,
           WatchGivesUp, Discourage, NoBackupAsked, CallFails, Install, UnhookProceeds
  <1>8. CASE UNCHANGED vars
    BY <1>1, <1>8 DEF vars
  <1>9. QED
    BY <1>1, <1>5, <1>6, <1>7, <1>8 DEF Next

\* Where a record comes from: the vector, a call in progress, or a slot that
\* is read by a call about to install.
Known(r) ==
    \/ \E i \in 1..Len(hooks) : r = hooks[i]
    \/ \E t \in Threads : pc[t] # "idle" /\ r = frame[t]
    \/ \E t \in Threads : /\ hpc[t] = "hook"
                          /\ r.target = arg[t].target
                          /\ r.previous_entry = entry[arg[t].target]

\* What a step leaves in the vector and in the frames.
OnlyKnownLeft ==
    /\ \A i \in 1..Len(hooks') : Known(hooks'[i])
    /\ \A t \in Threads : pc'[t] # "idle" => Known(frame'[t])

(* The record of a call is pushed, or what is pushed already is dropped;   *)
(* a frame is a fresh reading of a target past the settling, or a record.  *)
LEMMA RecordsCome ==
    ASSUME TypeInv, [Next]_vars
    PROVE  OnlyKnownLeft
  <1>0. /\ hooks \in Seq(Registry!Record)
        /\ frame \in [Threads -> Registry!Record \cup {NoRecord}]
        /\ \A i \in 1..Len(hooks) : Known(hooks[i])
        /\ \A t \in Threads : pc[t] # "idle" => Known(frame[t])
    BY DEF TypeInv, Registry!TypeOK, Known
  <1>1. ASSUME \A i \in 1..Len(hooks') : Known(hooks'[i]),
               \A t \in Threads : pc'[t] # "idle" => Known(frame'[t])
        PROVE  OnlyKnownLeft
    BY <1>1 DEF OnlyKnownLeft
  <1>2. CASE UNCHANGED <<hooks, pc, frame>>
    BY <1>0, <1>1, <1>2
  <1>3. ASSUME NEW t \in Threads, NEW r, NEW p, Known(r) \/ p = "idle", UNCHANGED hooks,
               pc' = [pc EXCEPT ![t] = p], frame' = [frame EXCEPT ![t] = r]
        PROVE  OnlyKnownLeft
    <2>1. pc \in [Threads -> {"idle"} \cup Registry!InstallPC \cup Registry!RemovePC]
      BY DEF TypeInv, Registry!TypeOK
    <2>2. ASSUME NEW u \in Threads, pc'[u] # "idle"
          PROVE  Known(frame'[u])
      BY <1>0, <1>3, <2>1, <2>2
    <2>3. QED
      BY <1>0, <1>1, <1>3, <2>2
  <1>4. ASSUME NEW t \in Threads, NEW p, UNCHANGED frame,
               pc[t] # "idle", pc' = [pc EXCEPT ![t] = p], UNCHANGED hooks
        PROVE  OnlyKnownLeft
    <2>1. pc \in [Threads -> {"idle"} \cup Registry!InstallPC \cup Registry!RemovePC]
      BY DEF TypeInv, Registry!TypeOK
    <2>2. ASSUME NEW u \in Threads, pc'[u] # "idle"
          PROVE  Known(frame'[u])
      BY <1>0, <1>4, <2>1, <2>2
    <2>3. QED
      BY <1>0, <1>1, <1>4, <2>2
  <1>5. ASSUME \A k \in 1..Len(hooks') : Known(hooks'[k]),
               \/ UNCHANGED <<pc, frame>>
               \/ \E t \in Threads : /\ pc' = [pc EXCEPT ![t] = "idle"]
                                      /\ frame' = [frame EXCEPT ![t] = NoRecord]
        PROVE  OnlyKnownLeft
    <2>1. pc \in [Threads -> {"idle"} \cup Registry!InstallPC \cup Registry!RemovePC]
      BY DEF TypeInv, Registry!TypeOK
    <2>2. ASSUME NEW u \in Threads, pc'[u] # "idle"
          PROVE  pc[u] # "idle" /\ frame'[u] = frame[u]
      BY <1>0, <1>5, <2>1, <2>2
    <2>3. QED
      BY <1>0, <1>1, <1>5, <2>2
  <1>6. ASSUME NEW i \in 1..Len(hooks), hooks' = Registry!RemoveAt(hooks, i)
        PROVE  \A k \in 1..Len(hooks') : Known(hooks'[k])
    <2>1. ASSUME NEW k \in 1..Len(hooks')
          PROVE  Old(i, k) \in 1..Len(hooks) /\ hooks'[k] = hooks[Old(i, k)]
      BY <1>0, <1>6, RemoveAtPlaces
    <2>2. QED
      BY <1>0, <2>1
  <1>7. ASSUME NEW t \in Threads, MakeTrampoline(t)
        PROVE  OnlyKnownLeft
    <2> DEFINE r == [target |-> arg[t].target, previous_entry |-> entry[arg[t].target],
                     installed_entry |-> Fresh]
    <2>1. Known(r)
      BY <1>7 DEF MakeTrampoline, Known
    <2>2. /\ pc' = [pc EXCEPT ![t] = "install_store"]
          /\ frame' = [frame EXCEPT ![t] = r] /\ UNCHANGED hooks
      BY <1>7 DEF MakeTrampoline, Registry!InstallRead, Registry!Enter
    <2> HIDE DEF r
    <2>3. QED
      BY <1>3, <2>1, <2>2
  <1>8. ASSUME NEW t \in Threads, Registry!InstallVerify(t)
        PROVE  OnlyKnownLeft
    <2>1. pc[t] # "idle" /\ Known(frame[t]) /\ frame[t] \in Registry!Record
      BY <1>0, <1>8 DEF Registry!InstallVerify, TypeInv, Registry!TypeOK
    <2>2. CASE hooks' = Append(hooks, frame[t])
      <3>1. \A k \in 1..Len(hooks') :
               \/ k \in 1..Len(hooks) /\ hooks'[k] = hooks[k]
               \/ hooks'[k] = frame[t]
        BY <1>0, <2>1, <2>2, AppendProperties
      <3>2. QED
        BY <1>0, <1>5, <1>8, <2>1, <3>1 DEF Registry!InstallVerify, Registry!Return
    <2>3. CASE UNCHANGED hooks
      BY <1>0, <1>5, <1>8, <2>3 DEF Registry!InstallVerify, Registry!Return
    <2>4. QED
      BY <1>8, <2>2, <2>3 DEF Registry!InstallVerify
  <1>9. ASSUME NEW t \in Threads, NEW m, Registry!RemoveStale(t, m)
        PROVE  OnlyKnownLeft
    BY <1>5, <1>6, <1>9 DEF Registry!RemoveStale
  <1>10. ASSUME NEW t \in Threads, NEW m, Registry!RemoveCheck(t, m)
         PROVE  OnlyKnownLeft
    <2>1. PICK i \in 1..Len(hooks) : Registry!Enter(t, "remove_store", hooks[i])
      BY <1>10 DEF Registry!RemoveCheck
    <2>2. Known(hooks[i])
      BY <1>0
    <2>3. QED
      BY <1>3, <1>10, <2>1, <2>2 DEF Registry!Enter, Registry!RemoveCheck
  <1>11. ASSUME NEW t \in Threads, Registry!RemoveVerify(t)
         PROVE  OnlyKnownLeft
    <2>1. PICK i \in 1..Len(hooks) : UNCHANGED hooks \/ hooks' = Registry!RemoveAt(hooks, i)
      BY <1>11 DEF Registry!RemoveVerify, Registry!IsTop
    <2>2. \A k \in 1..Len(hooks') : Known(hooks'[k])
      BY <1>0, <1>6, <2>1
    <2>3. QED
      BY <1>5, <1>11, <2>2 DEF Registry!RemoveVerify, Registry!Return
  <1>12. ASSUME NEW t \in Threads, Registry!InstallStore(t) \/ Registry!RemoveStore(t)
         PROVE  OnlyKnownLeft
    BY <1>4, <1>12 DEF Registry!InstallStore, Registry!RemoveStore, Registry!Goto
  <1>13. CASE Art
    BY <1>2, <1>13 DEF Art, AppInitializes, Initialize, MakeVisible, JitStart, JitLand,
                       Deoptimize, ArtSets, registryVars
  <1>14. ASSUME NEW t \in Threads, Call(t)
         PROVE  OnlyKnownLeft
    BY <1>2, <1>9, <1>10, <1>14 DEF Call, Begin, Unhook, registryVars
  <1>15. ASSUME NEW t \in Threads, Proceed(t)
         PROVE  OnlyKnownLeft
    <2>1. CASE Install(t) \/ UnhookProceeds(t)
      BY <1>8, <1>11, <1>12, <2>1 DEF Install, UnhookProceeds
    <2>2. CASE ~(Install(t) \/ UnhookProceeds(t)) /\ ~MakeTrampoline(t)
      BY <1>2, <1>15, <2>2
         DEF Proceed, GoesOn, InitOriginal, InitReplacement, EnsureInitialized, Initialize,
             ArtSets, CheckBackup, SkipCheck, Settled, Nudge, SpendNudge, Refused, Watch,
             WatchNudge, WatchMoved, WatchGivesUp, Discourage, WireBackup, NoBackupAsked,
             CallFails, registryVars
    <2>3. QED
      BY <1>7, <2>1, <2>2
  <1>16. CASE UNCHANGED vars
    BY <1>2, <1>16 DEF vars, registryVars
  <1>17. QED
    BY <1>13, <1>14, <1>15, <1>16 DEF Next

(* Records and frames come from targets that are off the stub.             *)
LEMMA HooksKeepOff ==
    ASSUME TypeInv, StubInv, [Next]_vars
    PROVE  HooksLeftTheStub' /\ FramesLeftTheStub'
  <1>1. ASSUME NEW r, Known(r), NEW m \in Targets \ givenUp', r.target = m
        PROVE  r.previous_entry # "stub"
    BY <1>1, GivingUpIsFinal
       DEF Known, StubInv, HooksLeftTheStub, FramesLeftTheStub, TargetIsOff, IsPast
  <1>2. QED
    BY <1>1, RecordsCome DEF OnlyKnownLeft, HooksLeftTheStub, FramesLeftTheStub

-----------------------------------------------------------------------------
(* What is read is off the stub, in every reachable state.                 *)
THEOREM StubInvHolds == Spec => []StubInv
  <1>1. TypeInv /\ StubInv /\ [Next]_vars => StubInv'
    BY ThunksKeepOff, HooksKeepOff, KeepsInstancesOff, KeepsStarted, KeepsOff DEF StubInv
  <1>2. QED
    BY <1>1, StubInvInit, TypeInvHolds, PTL DEF Spec

(* No hook goes in on top of the resolution stub and no backup captures it,*)
(* for any number of methods and threads, whatever ART does meanwhile --   *)
(* save for a target the fallback gave up on.                              *)
THEOREM StubIsAlwaysLeftFirst == Spec => []StubIsLeftFirst
  BY StubInvHolds, TypeInvHolds, StubInvSuffices, PTL

-----------------------------------------------------------------------------
(* The slot.  A method that is being hooked or is hooked is quiet: its     *)
(* class is initialised and a hook has come to discourage its compilation, *)
(* so all that ART may do to its slot is move it off the stub, land a      *)
(* compilation that was in flight by then or began because the flag could  *)
(* not be set, or deoptimise the method.                                   *)

Quieted(m) == m \in Targets /\ m \in Approached /\ Started(ClassOf[m])

QuietInv ==
    /\ Approached \cap compiling \subseteq overrun
    /\ \A i \in 1..Len(hooks) : Quieted(hooks[i].target)
    /\ \A t \in Threads : pc[t] # "idle" => Quieted(frame[t].target)
    /\ \A t \in Threads : hpc[t] \in {"backup", "hook", "install"} => Quieted(arg[t].target)

(* Nothing is hooked and nothing compiled at first.                        *)
LEMMA QuietInit == Init => QuietInv
  BY DEF Init, QuietInv

(* A compilation in flight when a hook comes to discourage its method is   *)
(* remembered; none of a discouraged method starts, and one of a method    *)
(* that was left exposed is remembered too.                                *)
LEMMA ApproachedForGood ==
    ASSUME TypeInv, QuietInv, [Next]_vars
    PROVE  /\ Approached \subseteq Approached' /\ overrun \subseteq overrun'
           /\ (Approached \cap compiling \subseteq overrun)'
           /\ overrun' = overrun \/ UNCHANGED pc
  <1> USE DEF Approached
  <1>1. CASE UNCHANGED <<dontBother, exposed, compiling, overrun>>
    BY <1>1 DEF QuietInv
  <1>2. CASE Art
    <2>1. CASE \E c \in Classes : AppInitializes(c) \/ MakeVisible(c)
      BY <1>1, <2>1 DEF AppInitializes, MakeVisible
    <2>2. CASE \E m \in Targets : JitStart(m)
      BY <2>2 DEF JitStart, QuietInv, registryVars
    <2>3. CASE \E m \in Targets : JitLand(m)
      BY <2>3 DEF JitLand, QuietInv
    <2>4. CASE \E m \in Targets : Deoptimize(m)
      BY <2>4 DEF Deoptimize, ArtSets, QuietInv, artVars
    <2>5. QED
      BY <1>2, <2>1, <2>2, <2>3, <2>4 DEF Art
  <1>3. ASSUME NEW t \in Threads, Call(t)
        PROVE  UNCHANGED <<dontBother, exposed, compiling, overrun>>
    BY <1>3 DEF Call, Begin, Unhook, artVars
  <1>4. ASSUME NEW t \in Threads, Proceed(t), ~Discourage(t)
        PROVE  UNCHANGED <<dontBother, exposed, compiling, overrun>>
    BY <1>4 DEF Proceed, GoesOn, InitOriginal, InitReplacement, EnsureInitialized, CheckBackup,
                SkipCheck, Settled, Nudge, SpendNudge, Refused, Watch, WatchNudge, WatchMoved,
                WatchGivesUp, WireBackup, NoBackupAsked, MakeTrampoline, CallFails, Install,
                UnhookProceeds, artVars
  <1>5. ASSUME NEW t \in Threads, Discourage(t)
        PROVE  /\ Approached \subseteq Approached' /\ overrun \subseteq overrun'
               /\ (Approached \cap compiling \subseteq overrun)'
               /\ UNCHANGED pc
    BY <1>5 DEF Discourage, registryVars, QuietInv
  <1>6. CASE UNCHANGED vars
    BY <1>1, <1>6 DEF vars, artVars
  <1>7. QED
    BY <1>1, <1>2, <1>3, <1>4, <1>5, <1>6 DEF Next

(* Quiet methods stay so, and nothing else is recorded or hooked.          *)
LEMMA StaysQuiet ==
    ASSUME TypeInv, StubInv, QuietInv, [Next]_vars
    PROVE  QuietInv'
  <1>1. ASSUME NEW m, Quieted(m)
        PROVE  Quieted(m)'
    <2>1. ClassOf[m] \in Classes
      BY <1>1 DEF Quieted, Classes
    <2>2. QED
      BY <1>1, <2>1, StaysStarted, ApproachedForGood DEF Quieted, Started
  <1>2. ASSUME NEW r, Known(r)
        PROVE  Quieted(r.target)
    BY <1>2 DEF Known, QuietInv
  <1>3. ASSUME NEW u \in Threads, hpc'[u] \in {"backup", "hook", "install"}
        PROVE  Quieted(arg[u].target)' /\ arg'[u].target = arg[u].target
    <2>1. Stays(u) \/ MovesOn(u)
      BY <1>3, CallMoves DEF Comes
    <2>2. arg'[u].target = arg[u].target
      BY <2>1 DEF Stays, MovesOn
    <2>3. CASE hpc[u] \in {"backup", "hook", "install"}
      <3>1. Quieted(arg[u].target)
        BY <2>3 DEF QuietInv
      <3>2. QED
        BY <1>1, <2>2, <3>1 DEF Quieted, Started
    <2>4. CASE hpc[u] \notin {"backup", "hook", "install"}
      <3>1. hpc[u] = "discourage" /\ arg[u].target \in Approached'
        BY <1>3, <2>1, <2>4 DEF Stays, MovesOn
      <3>2. arg[u].target \in Targets /\ ClassOf[arg[u].target] \in Classes
        BY <3>1, ArgsInCall DEF TypeInv
      <3>3. Started(ClassOf[arg[u].target])
        BY <3>1 DEF StubInv, TargetIsStarted
      <3>4. QED
        BY <2>2, <3>1, <3>2, <3>3, StaysStarted DEF Quieted, Started
    <2>5. QED
      BY <2>2, <2>3, <2>4
  <1>4. ASSUME NEW r, Known(r)
        PROVE  r.target \in Targets /\ r.target \in Approached'
                 /\ classState'[ClassOf[r.target]] \in {"initialized", "visible"}
    <2>1. \A m : Quieted(m) => m \in Targets /\ m \in Approached'
                 /\ classState'[ClassOf[m]] \in {"initialized", "visible"}
      BY <1>1 DEF Quieted, Started
    <2>2. QED
      BY <1>2, <1>4, <2>1
  <1>5. QED
    BY <1>3, <1>4, RecordsCome, ApproachedForGood DEF OnlyKnownLeft, QuietInv, Quieted, Started

(* What ART, and whoever else is outside g_lock, may do to a quiet method. *)
LEMMA QuietSlots ==
    ASSUME TypeInv, QuietInv, [Next]_vars, NEW m, Registry!Recorded(m), m \notin overrun',
           \A t \in Threads : ~Registry!InstallStore(t) /\ ~Registry!RemoveStore(t)
    PROVE  entry'[m] = entry[m] \/ entry[m] = "stub"
  <1>0. Quieted(m) /\ m \notin overrun
    BY ApproachedForGood DEF QuietInv, Registry!Recorded
  <1>1. entry \in [Methods -> Code \cup Trampolines] /\ m \in Methods /\ m \in Targets
    BY <1>0 DEF TypeInv, Registry!TypeOK, Registry!EntryPoint, Methods, Quieted
  <1>2. CASE UNCHANGED entry
    BY <1>2
  <1>3. ASSUME NEW ms, NEW code, m \notin ms, ArtSets(ms, code)
        PROVE  entry'[m] = entry[m]
    BY <1>1, <1>3 DEF ArtSets
  <1>4. ASSUME NEW c, Initialize(c)
        PROVE  entry'[m] = entry[m]
    <2>1. m \notin MethodsOf(c)
      BY <1>0, <1>4 DEF Initialize, MethodsOf, Quieted, Started
    <2>2. QED
      BY <1>3, <1>4, <2>1 DEF Initialize
  <1>5. ASSUME NEW c, MakeVisible(c), entry[m] # "stub"
        PROVE  entry'[m] = entry[m]
    <2> DEFINE ms == {n \in MethodsOf(c) : entry[n] = "stub"}
               code == [n \in ms |-> "body"]
    <2>1. m \notin ms /\ ArtSets(ms, code)
      BY <1>5 DEF MakeVisible
    <2> HIDE DEF ms, code
    <2>2. QED
      BY <1>3, <2>1
  <1>6. ASSUME NEW n, JitLand(n) \/ Deoptimize(n)
        PROVE  entry'[m] = entry[m]
    <2>1. CASE JitLand(n)
      <3>1. n # m
        BY <1>0, <2>1 DEF JitLand, QuietInv, Quieted
      <3>2. QED
        BY <1>3, <2>1, <3>1 DEF JitLand
    <2>2. CASE Deoptimize(n)
      <3>1. n # m
        BY <2>2 DEF Deoptimize
      <3>2. QED
        BY <1>3, <2>2, <3>1 DEF Deoptimize
    <2>3. QED
      BY <1>6, <2>1, <2>2
  <1>7. ASSUME NEW t \in Threads, WireBackup(t)
        PROVE  entry'[m] = entry[m]
    <2> DEFINE b == BackupOf[arg[t].replacement]
    <2>1. b \in Backups
      BY HookAssumption, <1>7, ArgsInCall DEF WireBackup, TypeInv
    <2>2. entry' = [entry EXCEPT ![b] = Fresh]
      BY <1>7 DEF WireBackup
    <2> HIDE DEF b
    <2>3. QED
      BY HookAssumption, <1>1, <2>1, <2>2
  <1>8. CASE Art
    BY <1>2, <1>4, <1>5, <1>6, <1>8 DEF Art, AppInitializes, JitStart, registryVars
  <1>9. ASSUME NEW t \in Threads, Call(t)
        PROVE  UNCHANGED entry
    BY <1>9 DEF Call, Begin, Unhook, Registry!RemoveStale, Registry!RemoveCheck, registryVars
  <1>10. ASSUME NEW t \in Threads, Proceed(t)
        PROVE  entry'[m] = entry[m]
    <2>1. CASE InitOriginal(t) \/ InitReplacement(t)
      BY <1>2, <1>4, <2>1 DEF InitOriginal, InitReplacement, EnsureInitialized, registryVars
    <2>2. CASE ~(InitOriginal(t) \/ InitReplacement(t) \/ WireBackup(t))
      BY <1>2, <1>10, <2>2
         DEF Proceed, GoesOn, CheckBackup, SkipCheck, Settled, Nudge, SpendNudge, Refused, Watch,
             WatchNudge, WatchMoved, WatchGivesUp, Discourage, NoBackupAsked, MakeTrampoline,
             Registry!InstallRead, CallFails, Install, UnhookProceeds, Registry!InstallVerify,
             Registry!RemoveVerify, registryVars
    <2>3. QED
      BY <1>7, <2>1, <2>2
  <1>11. CASE UNCHANGED vars
    BY <1>2, <1>11 DEF vars, registryVars
  <1>12. QED
    BY <1>2, <1>8, <1>9, <1>10, <1>11 DEF Next

-----------------------------------------------------------------------------
(* How a chain is linked: a record displaced the one next below it, except *)
(* in a chain with a record in it that displaced the stub.                 *)

Records == Registry!Record

\* Among the first i records is one of m's that displaced the stub.
StubBelow(h, m, i) ==
    \E k \in 1..i : k \in 1..Len(h) /\ h[k].target = m /\ h[k].previous_entry = "stub"

Chained(h, except) ==
    \A i \in 1..Len(h) : \A j \in 1..(i - 1) :
        Registry!NextBelow(h, j, i) /\ h[i].target \notin except =>
            \/ h[i].previous_entry = h[j].installed_entry
            \/ StubBelow(h, h[i].target, j)

(* A method has one top record.                                            *)
LEMMA TopIsUnique ==
    ASSUME NEW h \in Seq(Records), NEW m, NEW i \in 1..Len(h), NEW j \in 1..Len(h),
           Registry!IsTop(h, i, m), Registry!IsTop(h, j, m)
    PROVE  i = j
  <1>1. Len(h) \in Nat
    OBVIOUS
  <1>2. QED
    BY <1>1 DEF Registry!IsTop

(* The tops after a record is pushed.                                      *)
LEMMA TopsAfterPush ==
    ASSUME NEW h \in Seq(Records), NEW r \in Records, NEW n,
           NEW i \in 1..Len(Append(h, r)), Registry!IsTop(Append(h, r), i, n)
    PROVE  \/ i = Len(h) + 1 /\ n = r.target
           \/ i \in 1..Len(h) /\ n # r.target /\ Registry!IsTop(h, i, n)
  <1> DEFINE g == Append(h, r)
  <1>1. /\ Len(g) = Len(h) + 1 /\ Len(h) \in Nat
        /\ \A k \in 1..Len(h) : g[k] = h[k]
        /\ g[Len(h) + 1] = r
    BY AppendProperties
  <1> HIDE DEF g
  <1>2. CASE i = Len(h) + 1
    BY <1>1, <1>2 DEF Registry!IsTop, g
  <1>3. CASE i # Len(h) + 1
    <2>1. i \in 1..Len(h) /\ Len(h) + 1 \in (i + 1)..Len(g)
      BY <1>1, <1>3 DEF g
    <2>2. n # r.target
      BY <1>1, <2>1 DEF Registry!IsTop, g
    <2>3. \A k \in (i + 1)..Len(h) : h[k].target # n
      BY <1>1, <2>1 DEF Registry!IsTop, g
    <2>4. QED
      BY <1>1, <2>1, <2>2, <2>3 DEF Registry!IsTop, g
  <1>4. QED
    BY <1>2, <1>3

(* A pushed record that displaced its method's top keeps the chains linked.*)
LEMMA PushKeepsChained ==
    ASSUME NEW h \in Seq(Records), NEW r \in Records, NEW except, Chained(h, except),
           \A j \in 1..Len(h) :
              Registry!IsTop(h, j, r.target) /\ r.target \notin except =>
                  r.previous_entry = h[j].installed_entry \/ StubBelow(h, r.target, j)
    PROVE  Chained(Append(h, r), except)
  <1> DEFINE g == Append(h, r)
  <1>1. /\ Len(g) = Len(h) + 1 /\ Len(h) \in Nat
        /\ \A k \in 1..Len(h) : g[k] = h[k]
        /\ g[Len(h) + 1] = r
    BY AppendProperties
  <1> SUFFICES ASSUME NEW i \in 1..Len(g), NEW j \in 1..(i - 1),
                      Registry!NextBelow(g, j, i), g[i].target \notin except
               PROVE  \/ g[i].previous_entry = g[j].installed_entry
                      \/ StubBelow(g, g[i].target, j)
    BY DEF Chained
  <1> HIDE DEF g
  <1>2. j \in 1..Len(h) /\ g[j] = h[j]
    BY <1>1
  <1>3. ASSUME NEW n, StubBelow(h, n, j)
        PROVE  StubBelow(g, n, j)
    BY <1>1, <1>2, <1>3 DEF StubBelow
  <1>4. CASE i \in 1..Len(h)
    <2>1. Registry!NextBelow(h, j, i)
      BY <1>1, <1>2, <1>4 DEF Registry!NextBelow
    <2>2. QED
      BY <1>1, <1>2, <1>3, <1>4, <2>1 DEF Chained
  <1>5. CASE i = Len(h) + 1
    <2>1. Registry!IsTop(h, j, r.target)
      BY <1>1, <1>2, <1>5 DEF Registry!NextBelow, Registry!IsTop
    <2>2. QED
      BY <1>1, <1>2, <1>3, <1>5, <2>1
  <1>6. QED
    BY <1>1, <1>4, <1>5

(* Old and New keep the order, and undo each other.                        *)
LEMMA PlacesInOrder ==
    ASSUME NEW n \in Nat, NEW t \in 1..n, NEW i \in 1..(n - 1)
    PROVE  /\ \A k \in 1..n : k # t /\ k <= Old(t, i) => New(t, k) \in 1..i
           /\ \A k \in 1..n : k # t /\ k > Old(t, i) => New(t, k) \in (i + 1)..(n - 1)
           /\ \A j \in 1..(i - 1) : Old(t, j) \in 1..(Old(t, i) - 1)
           /\ \A j \in 1..(i - 1) : \A k \in (Old(t, j) + 1)..(Old(t, i) - 1) :
                 k # t => New(t, k) \in (j + 1)..(i - 1)
  BY DEF Old, New

(* What taking out m's top does to the tops: another method's moves to its *)
(* new place, and m's is the one next below, below the one taken out.      *)
LEMMA TopsAfterRemoval ==
    ASSUME NEW h \in Seq(Records), NEW m, NEW t \in 1..Len(h), Registry!IsTop(h, t, m),
           NEW g, g = Registry!RemoveAt(h, t),
           NEW n, NEW i \in 1..Len(g), Registry!IsTop(g, i, n)
    PROVE  /\ Old(t, i) \in 1..Len(h) /\ g[i] = h[Old(t, i)]
           /\ n # m => Registry!IsTop(h, Old(t, i), n)
           /\ n = m => i \in 1..(t - 1) /\ Old(t, i) = i /\ Registry!NextBelow(h, i, t)
           /\ StubBelow(h, n, Old(t, i)) => StubBelow(g, n, i)
  <1>1. /\ Len(h) \in Nat /\ Len(g) = Len(h) - 1
        /\ \A k \in 1..Len(g) : Old(t, k) \in 1..Len(h) /\ Old(t, k) # t /\ g[k] = h[Old(t, k)]
        /\ \A k \in 1..Len(h) : k # t => New(t, k) \in 1..Len(g) /\ g[New(t, k)] = h[k]
    <2>1. Len(h) \in Nat /\ Len(g) = Len(h) - 1
      BY RemoveAtElements
    <2>2. /\ \A k \in 1..Len(g) : Old(t, k) \in 1..Len(h) /\ Old(t, k) # t /\ g[k] = h[Old(t, k)]
          /\ \A k \in 1..Len(h) : k # t => New(t, k) \in 1..Len(g) /\ g[New(t, k)] = h[k]
      BY RemoveAtPlaces, SMTT(30)
    <2>3. QED
      BY <2>1, <2>2
  <1>2. ASSUME NEW k \in 1..Len(h), k # t, k > Old(t, i)
        PROVE  h[k].target # n
    <2>1. New(t, k) \in (i + 1)..Len(g) /\ g[New(t, k)] = h[k]
      BY <1>1, <1>2, PlacesInOrder
    <2>2. QED
      BY <2>1 DEF Registry!IsTop
  <1>3. h[Old(t, i)].target = n
    BY <1>1 DEF Registry!IsTop
  <1>4. n # m => Registry!IsTop(h, Old(t, i), n)
    <2>1. h[t].target = m
      BY DEF Registry!IsTop
    <2>2. QED
      BY <1>1, <1>2, <1>3, <2>1 DEF Registry!IsTop
  <1>5. ASSUME n = m
        PROVE  i \in 1..(t - 1) /\ Old(t, i) = i /\ Registry!NextBelow(h, i, t)
    <2>1. Old(t, i) < t
      BY <1>1, <1>3, <1>5 DEF Registry!IsTop
    <2>2. i \in 1..(t - 1) /\ Old(t, i) = i
      BY <1>1, <2>1 DEF Old
    <2>3. QED
      BY <1>1, <1>2, <1>3, <1>5, <2>2 DEF Registry!NextBelow, Registry!IsTop
  <1>6. ASSUME StubBelow(h, n, Old(t, i))
        PROVE  StubBelow(g, n, i)
    <2>1. PICK k \in 1..Old(t, i) : /\ k \in 1..Len(h) /\ h[k].target = n
                                    /\ h[k].previous_entry = "stub"
      BY <1>6 DEF StubBelow
    <2>2. k # t
      BY <1>1, <1>5, <2>1 DEF Registry!IsTop
    <2>3. New(t, k) \in 1..i /\ New(t, k) \in 1..Len(g) /\ g[New(t, k)] = h[k]
      BY <1>1, <2>1, <2>2, PlacesInOrder
    <2>4. QED
      BY <2>1, <2>3 DEF StubBelow
  <1>7. QED
    BY <1>1, <1>4, <1>5, <1>6

(* Taking out a method's top keeps the chains linked.                      *)
LEMMA RemovalKeepsChained ==
    ASSUME NEW h \in Seq(Records), NEW m, NEW t \in 1..Len(h), Registry!IsTop(h, t, m),
           NEW except, Chained(h, except)
    PROVE  Chained(Registry!RemoveAt(h, t), except)
  <1> DEFINE g == Registry!RemoveAt(h, t)
  <1>1. /\ Len(h) \in Nat /\ Len(g) = Len(h) - 1
        /\ \A k \in 1..Len(g) : Old(t, k) \in 1..Len(h) /\ Old(t, k) # t /\ g[k] = h[Old(t, k)]
        /\ \A k \in 1..Len(h) : k # t => New(t, k) \in 1..Len(g) /\ g[New(t, k)] = h[k]
    <2>1. Len(h) \in Nat /\ Len(g) = Len(h) - 1
      BY RemoveAtElements
    <2>2. /\ \A k \in 1..Len(g) : Old(t, k) \in 1..Len(h) /\ Old(t, k) # t /\ g[k] = h[Old(t, k)]
          /\ \A k \in 1..Len(h) : k # t => New(t, k) \in 1..Len(g) /\ g[New(t, k)] = h[k]
      BY RemoveAtPlaces, Zenon
    <2>3. QED
      BY <2>1, <2>2
  <1> HIDE DEF g
  <1> SUFFICES ASSUME NEW i \in 1..Len(g), NEW j \in 1..(i - 1),
                      Registry!NextBelow(g, j, i), g[i].target \notin except
               PROVE  \/ g[i].previous_entry = g[j].installed_entry
                      \/ StubBelow(g, g[i].target, j)
    BY DEF Chained, g
  <1>2. j \in 1..Len(g) /\ Old(t, j) \in 1..(Old(t, i) - 1)
    BY <1>1, PlacesInOrder
  <1>3. t \notin (Old(t, j) + 1)..(Old(t, i) - 1) \/ h[t].target # h[Old(t, i)].target
    BY <1>1, <1>2, SMTT(30) DEF Registry!IsTop
  <1>4. ASSUME NEW k \in (Old(t, j) + 1)..(Old(t, i) - 1)
        PROVE  h[k].target # h[Old(t, i)].target
    <2>1. CASE k = t
      BY <1>3, <1>4, <2>1
    <2>2. CASE k # t
      <3>1. k \in 1..Len(h)
        <4>1. /\ Len(h) \in Nat /\ Old(t, i) \in 1..Len(h)
              /\ Old(t, j) \in 1..(Old(t, i) - 1)
          BY <1>1, <1>2, Zenon
        <4>2. QED
          BY <1>4, <4>1
      <3>2. New(t, k) \in (j + 1)..(i - 1) /\ g[New(t, k)] = h[k]
        BY <1>1, <2>2, <3>1, PlacesInOrder
      <3>3. QED
        BY <1>1, <3>2 DEF Registry!NextBelow
    <2>3. QED
      BY <2>1, <2>2
  <1>5. Registry!NextBelow(h, Old(t, j), Old(t, i))
    BY <1>1, <1>2, <1>4 DEF Registry!NextBelow
  <1>6. ASSUME StubBelow(h, g[i].target, Old(t, j))
        PROVE  StubBelow(g, g[i].target, j)
    <2>1. PICK k \in 1..Old(t, j) : /\ k \in 1..Len(h) /\ h[k].target = g[i].target
                                    /\ h[k].previous_entry = "stub"
      BY <1>6 DEF StubBelow
    <2>2. k # t
      BY <1>1, <1>2, <2>1, SMTT(30) DEF Registry!IsTop
    <2>3. New(t, k) \in 1..j /\ New(t, k) \in 1..Len(g) /\ g[New(t, k)] = h[k]
      BY <1>1, <1>2, <2>1, <2>2, PlacesInOrder
    <2>4. QED
      BY <2>1, <2>3 DEF StubBelow
  <1>7. QED
    BY <1>1, <1>2, <1>5, <1>6, ZenonT(60) DEF Chained

-----------------------------------------------------------------------------
(* What a slot holds.                                                      *)

\* The i-th record, m's top, is live, or the chain below it has lost its hold.
Holds(m, i) == entry[m] = hooks[i].installed_entry \/ StubBelow(hooks, m, i)

\* A call whose store landed and whose bookkeeping is still to come.
StoredBy(t, m) ==
    /\ frame[t].target = m
    /\ \/ pc[t] = "install_verify" /\ entry[m] = frame[t].installed_entry
       \/ pc[t] = "remove_verify"  /\ entry[m] = frame[t].previous_entry

TopsHold ==
    \A m \in Targets : \A i \in 1..Len(hooks) :
        m \notin overrun /\ Registry!IsTop(hooks, i, m) =>
            Holds(m, i) \/ \E t \in Threads : StoredBy(t, m)

\* An install that is about to displace a hook displaces its method's top.
DisplacesTop ==
    \A t \in Threads : \A i \in 1..Len(hooks) :
        pc[t] \in Registry!InstallPC /\ frame[t].target \notin overrun
                /\ Registry!IsTop(hooks, i, frame[t].target) =>
            \/ frame[t].previous_entry = hooks[i].installed_entry
            \/ StubBelow(hooks, frame[t].target, i)

\* A removal in progress works on its method's top record.
RemovesTop ==
    \A t \in Threads :
        pc[t] \in Registry!RemovePC =>
            \E i \in 1..Len(hooks) : /\ Registry!IsTop(hooks, i, frame[t].target)
                                    /\ hooks[i] = frame[t]

SlotInv ==
    /\ Chained(hooks, overrun)
    /\ TopsHold
    /\ DisplacesTop
    /\ RemovesTop

(* There is no record a slot could disagree with at first.                *)
LEMMA SlotInit == Init => SlotInv
  BY DEF Init, SlotInv, Chained, TopsHold, DisplacesTop, RemovesTop, Registry!InstallPC,
         Registry!RemovePC

(* What the steps of the registry start from: its types, the one call that *)
(* is inside the lock, and what a record is.                               *)
LEMMA RegistryShape ==
    ASSUME TypeInv
    PROVE  /\ hooks \in Seq(Records) /\ Len(hooks) \in Nat
           /\ pc \in [Threads -> {"idle"} \cup Registry!InstallPC \cup Registry!RemovePC]
           /\ frame \in [Threads -> Records \cup {NoRecord}]
           /\ \A t \in Threads : pc[t] # "idle" => frame[t] \in Records
           /\ \A t, u \in Threads : pc[t] # "idle" /\ pc[u] # "idle" => t = u
           /\ owner = NoThread => \A t \in Threads : pc[t] = "idle"
           /\ \A r \in Records : r.target \in Methods /\ r.installed_entry \in Trampolines
           /\ entry \in [Methods -> Code \cup Trampolines]
           /\ \A x \in Trampolines : x # "stub"
  BY HookAssumption DEF TypeInv, Registry!TypeOK, Registry!Record, Registry!EntryPoint, Code,
                        Records

(* ART, and the calls that are outside the lock.                           *)
LEMMA SlotOutside ==
    ASSUME TypeInv, QuietInv, SlotInv, [Next]_vars, UNCHANGED <<hooks, pc, frame>>,
           \A t \in Threads : ~Registry!InstallStore(t) /\ ~Registry!RemoveStore(t)
    PROVE  SlotInv'
  <1> USE RegistryShape
  <1>0. overrun \subseteq overrun' /\ hooks' = hooks /\ pc' = pc /\ frame' = frame
    BY ApproachedForGood
  <1>1. Chained(hooks, overrun)'
    BY <1>0 DEF SlotInv, Chained
  <1>2. DisplacesTop' /\ RemovesTop'
    BY <1>0 DEF SlotInv, DisplacesTop, RemovesTop
  <1>3. ASSUME NEW m \in Targets, NEW i \in 1..Len(hooks), m \notin overrun',
               Registry!IsTop(hooks, i, m)
        PROVE  Holds(m, i)' \/ \E t \in Threads : StoredBy(t, m)'
    <2>1. Registry!Recorded(m)
      BY <1>3 DEF Registry!Recorded, Registry!IsTop
    <2>2. Holds(m, i) \/ \E t \in Threads : StoredBy(t, m)
      BY <1>0, <1>3 DEF SlotInv, TopsHold
    <2>3. CASE entry'[m] = entry[m]
      BY <1>0, <2>2, <2>3 DEF Holds, StoredBy
    <2>4. CASE entry[m] = "stub"
      <3>1. hooks[i].installed_entry # "stub"
        BY <1>3
      <3>2. ASSUME NEW t \in Threads, StoredBy(t, m)
            PROVE  StubBelow(hooks, m, i)
        <4>1. pc[t] = "remove_verify" /\ frame[t].previous_entry = "stub" /\ frame[t].target = m
          <5>1. pc[t] # "idle"
            BY <3>2 DEF StoredBy
          <5>2. frame[t].installed_entry # "stub"
            BY <5>1
          <5>3. QED
            BY <2>4, <3>2, <5>2 DEF StoredBy
        <4>2. PICK j \in 1..Len(hooks) : Registry!IsTop(hooks, j, m) /\ hooks[j] = frame[t]
          BY <4>1 DEF SlotInv, RemovesTop, Registry!RemovePC
        <4>3. i = j
          BY <1>3, <4>2, TopIsUnique
        <4>4. QED
          BY <1>3, <4>1, <4>2, <4>3 DEF StubBelow, Registry!IsTop
      <3>3. QED
        BY <1>0, <2>2, <2>4, <3>1, <3>2 DEF Holds
    <2>5. QED
      BY <1>3, <2>1, <2>3, <2>4, QuietSlots
  <1>4. TopsHold'
    BY <1>0, <1>3 DEF TopsHold
  <1>5. QED
    BY <1>1, <1>2, <1>4 DEF SlotInv

(* install_hook() takes the lock: the entry it reads is the top's.         *)
LEMMA SlotInstallRead ==
    ASSUME TypeInv, SlotInv, NEW t \in Threads, NEW m \in Targets, NEW x,
           Registry!InstallRead(t, m, x), overrun' = overrun
    PROVE  SlotInv'
  <1> USE RegistryShape
  <1> DEFINE r == [target |-> m, previous_entry |-> entry[m], installed_entry |-> x]
  <1>1. /\ \A u \in Threads : pc[u] = "idle"
        /\ hooks' = hooks /\ entry' = entry
        /\ pc' = [pc EXCEPT ![t] = "install_store"] /\ frame' = [frame EXCEPT ![t] = r]
    BY DEF Registry!InstallRead, Registry!Enter, Registry!LockIsFree
  <1>2. r.target = m /\ r.previous_entry = entry[m]
    OBVIOUS
  <1> HIDE DEF r
  <1>3. \A n \in Targets : \A i \in 1..Len(hooks) :
           n \notin overrun /\ Registry!IsTop(hooks, i, n) => Holds(n, i)
    BY <1>1 DEF SlotInv, TopsHold, StoredBy
  <1>4. TopsHold'
    BY <1>1, <1>3 DEF TopsHold, Holds
  <1>5. \A u \in Threads : pc'[u] # "idle" => u = t /\ pc'[u] = "install_store" /\ frame'[u] = r
    BY <1>1
  <1>6. DisplacesTop'
    BY <1>1, <1>2, <1>3, <1>5 DEF DisplacesTop, Holds, Registry!InstallPC
  <1>7. RemovesTop'
    BY <1>5 DEF RemovesTop, Registry!RemovePC
  <1>8. Chained(hooks, overrun)'
    BY <1>1 DEF SlotInv, Chained
  <1>9. QED
    BY <1>4, <1>6, <1>7, <1>8 DEF SlotInv

(* The store of an install, or of a removal, takes or does not.            *)
LEMMA SlotStore ==
    ASSUME TypeInv, SlotInv, NEW t \in Threads,
           Registry!InstallStore(t) \/ Registry!RemoveStore(t), overrun' = overrun
    PROVE  SlotInv'
  <1> USE RegistryShape
  <1> DEFINE m == frame[t].target
             value == IF pc[t] = "install_store" THEN frame[t].installed_entry
                                                 ELSE frame[t].previous_entry
             next == IF pc[t] = "install_store" THEN "install_verify" ELSE "remove_verify"
  <1>1. /\ pc[t] \in {"install_store", "remove_store"}
        /\ hooks' = hooks /\ frame' = frame
        /\ entry' = entry \/ entry' = [entry EXCEPT ![m] = value]
        /\ pc' = [pc EXCEPT ![t] = next]
    BY DEF Registry!InstallStore, Registry!RemoveStore, Registry!Store, Registry!Goto
  <1>2. m \in Methods /\ \A u \in Threads : u # t => pc[u] = "idle"
    BY <1>1
  <1>3. /\ \A u \in Threads : pc'[u] = IF u = t THEN next ELSE "idle"
    BY <1>1, <1>2
  <1>4. \A n \in Targets : \A i \in 1..Len(hooks) :
           n \notin overrun /\ Registry!IsTop(hooks, i, n) => Holds(n, i)
    BY <1>1, <1>2 DEF SlotInv, TopsHold, StoredBy
  <1>5. ASSUME NEW n \in Targets, NEW i \in 1..Len(hooks),
               n \notin overrun, Registry!IsTop(hooks, i, n)
        PROVE  Holds(n, i)' \/ \E u \in Threads : StoredBy(u, n)'
    <2>1. CASE entry'[n] = entry[n]
      BY <1>1, <1>4, <1>5, <2>1 DEF Holds
    <2>2. CASE entry'[n] # entry[n]
      <3>0. n \in Methods
        BY DEF Methods
      <3>1. n = m /\ entry'[n] = value
        BY <1>1, <1>2, <2>2, <3>0
      <3>2. StoredBy(t, n)'
        BY <1>1, <1>3, <3>1 DEF StoredBy
      <3>3. QED
        BY <3>2
    <2>3. QED
      BY <2>1, <2>2
  <1> HIDE DEF m, value
  <1>6. TopsHold'
    BY <1>1, <1>5 DEF TopsHold
  <1>7. DisplacesTop'
    BY <1>1, <1>3 DEF SlotInv, DisplacesTop, Registry!InstallPC
  <1>8. RemovesTop'
    BY <1>1, <1>3 DEF SlotInv, RemovesTop, Registry!RemovePC
  <1>9. Chained(hooks, overrun)'
    BY <1>1 DEF SlotInv
  <1>10. QED
    BY <1>6, <1>7, <1>8, <1>9 DEF SlotInv

(* A removal that finds its method's top live goes on to the store.        *)
LEMMA SlotRemoveCheck ==
    ASSUME TypeInv, SlotInv, NEW t \in Threads, NEW m \in Targets,
           Registry!RemoveCheck(t, m), overrun' = overrun
    PROVE  SlotInv'
  <1> USE RegistryShape
  <1>1. PICK i \in 1..Len(hooks) : /\ Registry!IsTop(hooks, i, m)
                                   /\ Registry!Enter(t, "remove_store", hooks[i])
    BY DEF Registry!RemoveCheck
  <1>2. /\ \A u \in Threads : pc[u] = "idle"
        /\ hooks' = hooks /\ entry' = entry /\ hooks[i].target = m
        /\ \A u \in Threads : pc'[u] # "idle" =>
              u = t /\ pc'[u] = "remove_store" /\ frame'[u] = hooks[i]
    BY <1>1 DEF Registry!RemoveCheck, Registry!Enter, Registry!LockIsFree, Registry!IsTop
  <1>3. TopsHold'
    BY <1>2 DEF SlotInv, TopsHold, StoredBy, Holds
  <1>4. DisplacesTop'
    BY <1>2 DEF DisplacesTop, Registry!InstallPC
  <1>5. RemovesTop'
    BY <1>1, <1>2 DEF RemovesTop, Registry!RemovePC
  <1>6. Chained(hooks, overrun)'
    BY <1>2 DEF SlotInv
  <1>7. QED
    BY <1>3, <1>4, <1>5, <1>6 DEF SlotInv

(* Nothing is said of calls where there are none.                          *)
LEMMA SlotAtRest ==
    ASSUME \A u \in Threads : pc'[u] = "idle", Chained(hooks, overrun)',
           \A n \in Targets : \A i \in 1..Len(hooks') :
              n \notin overrun' /\ Registry!IsTop(hooks', i, n) => Holds(n, i)'
    PROVE  SlotInv'
  BY DEF SlotInv, TopsHold, DisplacesTop, RemovesTop, Registry!InstallPC, Registry!RemovePC

(* The record of an install is pushed if the trampoline is found live.     *)
LEMMA SlotInstallVerify ==
    ASSUME TypeInv, SlotInv, NEW t \in Threads, Registry!InstallVerify(t), overrun' = overrun
    PROVE  SlotInv'
  <1> USE RegistryShape
  <1> DEFINE r == frame[t]
  <1>1. /\ pc[t] = "install_verify" /\ pc[t] # "idle" /\ r \in Records
        /\ hooks' = IF entry[r.target] = r.installed_entry THEN Append(hooks, r) ELSE hooks
        /\ entry' = entry /\ pc' = [pc EXCEPT ![t] = "idle"]
    BY DEF Registry!InstallVerify, Registry!Return
  <1>2. \A u \in Threads : pc'[u] = "idle"
    BY <1>1
  <1>3. ASSUME NEW n \in Targets, NEW i \in 1..Len(hooks),
               n \notin overrun, Registry!IsTop(hooks, i, n),
               n # r.target \/ entry[r.target] # r.installed_entry
        PROVE  Holds(n, i)
    BY <1>1, <1>3 DEF SlotInv, TopsHold, StoredBy
  <1>4. \A i \in 1..Len(hooks) :
           Registry!IsTop(hooks, i, r.target) /\ r.target \notin overrun =>
               r.previous_entry = hooks[i].installed_entry \/ StubBelow(hooks, r.target, i)
    BY <1>1 DEF SlotInv, DisplacesTop, Registry!InstallPC
  <1> HIDE DEF r
  <1>5. CASE entry[r.target] = r.installed_entry
    <2> DEFINE g == Append(hooks, r)
    <2>1. hooks' = g
      BY <1>1, <1>5
    <2>2. Chained(g, overrun)
      BY <1>1, <1>4, PushKeepsChained DEF SlotInv
    <2>3. /\ Len(g) = Len(hooks) + 1
          /\ \A k \in 1..Len(hooks) : g[k] = hooks[k]
          /\ g[Len(hooks) + 1] = r
      BY <1>1, AppendProperties
    <2>4. ASSUME NEW n \in Targets, NEW i \in 1..Len(g), n \notin overrun, Registry!IsTop(g, i, n)
          PROVE  entry[n] = g[i].installed_entry \/ StubBelow(g, n, i)
      <3>1. CASE i = Len(hooks) + 1 /\ n = r.target
        BY <1>5, <2>3, <3>1
      <3>2. CASE i \in 1..Len(hooks) /\ n # r.target /\ Registry!IsTop(hooks, i, n)
        <4>1. Holds(n, i)
          BY <1>3, <2>4, <3>2
        <4>2. StubBelow(hooks, n, i) => StubBelow(g, n, i)
          BY <2>3, <3>2 DEF StubBelow
        <4>3. QED
          BY <2>3, <3>2, <4>1, <4>2 DEF Holds
      <3>3. QED
        BY <1>1, <2>4, <3>1, <3>2, TopsAfterPush
    <2> HIDE DEF g
    <2>5. QED
      BY <1>1, <1>2, <2>1, <2>2, <2>4, SlotAtRest DEF Holds
  <1>6. CASE entry[r.target] # r.installed_entry
    <2>1. \A n \in Targets : \A i \in 1..Len(hooks) :
             n \notin overrun /\ Registry!IsTop(hooks, i, n) => Holds(n, i)
      BY <1>3, <1>6
    <2>2. Chained(hooks, overrun)
      BY DEF SlotInv
    <2>3. hooks' = hooks /\ entry' = entry
      BY <1>1, <1>6
    <2>4. QED
      BY <1>2, <2>1, <2>2, <2>3, SlotAtRest DEF Holds
  <1>7. QED
    BY <1>5, <1>6

(* A method's top is taken out of a chain that holds, or hands its slot to *)
(* the next one below.                                                     *)
LEMMA SlotRemoval ==
    ASSUME TypeInv, SlotInv, NEW m, NEW t \in 1..Len(hooks), Registry!IsTop(hooks, t, m),
           hooks' = Registry!RemoveAt(hooks, t), entry' = entry, overrun' = overrun,
           \A u \in Threads : pc'[u] = "idle",
           \A n \in Targets, i \in 1..Len(hooks) :
              n \notin overrun /\ n # m /\ Registry!IsTop(hooks, i, n) => Holds(n, i),
           m \notin overrun => entry[m] = hooks[t].previous_entry \/ StubBelow(hooks, m, t)
    PROVE  SlotInv'
  <1> USE RegistryShape
  <1>1. Chained(hooks', overrun)
    BY RemovalKeepsChained DEF SlotInv
  <1>2. ASSUME NEW n \in Targets, NEW i \in 1..Len(hooks'),
               n \notin overrun, Registry!IsTop(hooks', i, n)
        PROVE  entry[n] = hooks'[i].installed_entry \/ StubBelow(hooks', n, i)
    <2>1. /\ Old(t, i) \in 1..Len(hooks) /\ hooks'[i] = hooks[Old(t, i)]
          /\ n # m => Registry!IsTop(hooks, Old(t, i), n)
          /\ n = m => i \in 1..(t - 1) /\ Old(t, i) = i /\ Registry!NextBelow(hooks, i, t)
          /\ StubBelow(hooks, n, Old(t, i)) => StubBelow(hooks', n, i)
      BY <1>2, TopsAfterRemoval
    <2>2. CASE n # m
      BY <1>2, <2>1, <2>2 DEF Holds
    <2>3. CASE n = m
      <3>1. hooks[t].target = m
        BY DEF Registry!IsTop
      <3>2. \/ hooks[t].previous_entry = hooks[i].installed_entry
            \/ StubBelow(hooks, m, i)
        BY <1>2, <2>1, <2>3, <3>1 DEF SlotInv, Chained
      <3>3. CASE StubBelow(hooks, m, i)
        BY <2>1, <2>3, <3>3
      <3>4. CASE ~StubBelow(hooks, m, i)
        <4>1. hooks[t].previous_entry = hooks[i].installed_entry
          BY <3>2, <3>4
        <4>2. ~StubBelow(hooks, m, t)
          <5>1. ASSUME NEW k \in 1..t, hooks[k].target = m, hooks[k].previous_entry = "stub"
                PROVE  FALSE
            <6>1. k # t
              BY <2>1, <2>3, <4>1, <5>1
            <6>2. k \in 1..i
              <7>1. i \in 1..(t - 1) /\ \A l \in (i + 1)..(t - 1) : hooks[l].target # m
                BY <2>1, <2>3, <3>1 DEF Registry!NextBelow
              <7>2. k \in 1..(t - 1)
                BY <6>1
              <7>3. k \notin (i + 1)..(t - 1)
                BY <5>1, <7>1
              <7>4. QED
                BY <7>1, <7>2, <7>3
            <6>3. QED
              BY <2>1, <2>3, <3>4, <5>1, <6>2 DEF StubBelow
          <5>2. QED
            BY <5>1 DEF StubBelow
        <4>3. QED
          BY <1>2, <2>1, <2>3, <4>1, <4>2
      <3>5. QED
        BY <3>3, <3>4
    <2>4. QED
      BY <2>2, <2>3
  <1>3. QED
    BY <1>1, <1>2, SlotAtRest DEF Holds

(* unhook_function() of a hook that is not live drops its record: that is  *)
(* only ever one in a chain that has lost its hold already.                *)
LEMMA SlotRemoveStale ==
    ASSUME TypeInv, SlotInv, NEW t \in Threads, NEW m \in Targets,
           Registry!RemoveStale(t, m), overrun' = overrun
    PROVE  SlotInv'
  <1> USE RegistryShape
  <1>1. PICK i \in 1..Len(hooks) : /\ Registry!IsTop(hooks, i, m)
                                   /\ entry[m] # hooks[i].installed_entry
                                   /\ hooks' = Registry!RemoveAt(hooks, i)
    BY DEF Registry!RemoveStale
  <1>2. entry' = entry /\ \A u \in Threads : pc[u] = "idle" /\ pc'[u] = "idle"
    BY DEF Registry!RemoveStale, Registry!LockIsFree
  <1>3. \A n \in Targets, k \in 1..Len(hooks) :
           n \notin overrun /\ Registry!IsTop(hooks, k, n) => Holds(n, k)
    BY <1>2 DEF SlotInv, TopsHold, StoredBy
  <1>4. m \notin overrun => StubBelow(hooks, m, i)
    BY <1>1, <1>3 DEF Holds
  <1>5. QED
    BY <1>1, <1>2, <1>3, <1>4, SlotRemoval

(* The record of a removal is erased if the displaced entry is found back. *)
LEMMA SlotRemoveVerify ==
    ASSUME TypeInv, SlotInv, NEW t \in Threads, Registry!RemoveVerify(t), overrun' = overrun
    PROVE  SlotInv'
  <1> USE RegistryShape
  <1> DEFINE m == frame[t].target
  <1>1. PICK i \in 1..Len(hooks) :
           /\ Registry!IsTop(hooks, i, m)
           /\ hooks' = IF entry[m] = frame[t].previous_entry
                       THEN Registry!RemoveAt(hooks, i) ELSE hooks
    BY DEF Registry!RemoveVerify
  <1>2. /\ pc[t] = "remove_verify" /\ entry' = entry
        /\ \A u \in Threads : pc'[u] = "idle" /\ (u # t => pc[u] = "idle")
    BY DEF Registry!RemoveVerify, Registry!Return
  <1>3. hooks[i] = frame[t]
    <2>1. PICK j \in 1..Len(hooks) : Registry!IsTop(hooks, j, m) /\ hooks[j] = frame[t]
      BY <1>2 DEF SlotInv, RemovesTop, Registry!RemovePC
    <2>2. i = j
      BY <1>1, <2>1, TopIsUnique
    <2>3. QED
      BY <2>1, <2>2
  <1>4. ASSUME NEW n \in Targets, NEW k \in 1..Len(hooks),
               n \notin overrun, Registry!IsTop(hooks, k, n),
               n # m \/ entry[m] # frame[t].previous_entry
        PROVE  Holds(n, k)
    BY <1>2, <1>4 DEF SlotInv, TopsHold, StoredBy
  <1> HIDE DEF m
  <1>5. CASE entry[m] = frame[t].previous_entry
    <2>1. hooks' = Registry!RemoveAt(hooks, i) /\ entry[m] = hooks[i].previous_entry
      BY <1>1, <1>3, <1>5
    <2>2. \A n \in Targets, k \in 1..Len(hooks) :
             n \notin overrun /\ n # m /\ Registry!IsTop(hooks, k, n) => Holds(n, k)
      BY <1>4
    <2>3. QED
      BY <1>1, <1>2, <2>1, <2>2, SlotRemoval
  <1>6. CASE entry[m] # frame[t].previous_entry
    <2>1. hooks' = hooks
      BY <1>1, <1>6
    <2>2. Chained(hooks, overrun)
      BY DEF SlotInv
    <2>3. QED
      BY <1>2, <1>4, <1>6, <2>1, <2>2, SlotAtRest DEF Holds
  <1>7. QED
    BY <1>5, <1>6

(* A step is one of the registry's, or is made outside the lock.           *)
LEMMA SlotSteps ==
    ASSUME TypeInv, QuietInv, SlotInv, [Next]_vars
    PROVE  SlotInv'
  <1>1. CASE \E t \in Threads : Registry!InstallStore(t) \/ Registry!RemoveStore(t)
    <2>1. PICK t \in Threads : Registry!InstallStore(t) \/ Registry!RemoveStore(t)
      BY <1>1
    <2>2. overrun' = overrun
      <3>1. pc[t] \in {"install_store", "remove_store"} /\ pc' # pc
        <4>1. pc[t] \in {"install_store", "remove_store"}
          BY <2>1 DEF Registry!InstallStore, Registry!RemoveStore
        <4>2. pc'[t] \in {"install_verify", "remove_verify"}
          BY <2>1, RegistryShape DEF Registry!InstallStore, Registry!RemoveStore, Registry!Goto
        <4>3. QED
          BY <4>1, <4>2
      <3>2. QED
        BY <3>1, ApproachedForGood
    <2>3. QED
      BY <2>1, <2>2, SlotStore
  <1> DEFINE Outside == \A t \in Threads : ~Registry!InstallStore(t) /\ ~Registry!RemoveStore(t)
  <1>2. ASSUME Outside, UNCHANGED <<hooks, pc, frame>>
        PROVE  SlotInv'
    BY <1>2, SlotOutside
  <1>3. SUFFICES ASSUME Outside
                 PROVE  SlotInv'
    BY <1>1
  <1> HIDE DEF Outside
  <1>4. CASE Art
    BY <1>2, <1>3, <1>4 DEF Art, AppInitializes, Initialize, MakeVisible, JitStart, JitLand,
                            Deoptimize, ArtSets, registryVars
  <1>5. ASSUME NEW t \in Threads, Call(t)
        PROVE  SlotInv'
    <2>1. ASSUME NEW m \in Targets, NEW r, Begin(t, m, r)
          PROVE  UNCHANGED <<hooks, pc, frame>>
      BY <2>1 DEF Begin, registryVars
    <2>2. ASSUME NEW m \in Targets, Unhook(t, m)
          PROVE  SlotInv'
      BY <2>2, SlotRemoveStale, SlotRemoveCheck DEF Unhook
    <2>3. QED
      BY <1>2, <1>3, <1>5, <2>1, <2>2 DEF Call
  <1>6. ASSUME NEW t \in Threads, Proceed(t)
        PROVE  SlotInv'
    <2>1. CASE Install(t) \/ UnhookProceeds(t)
      BY <1>3, <2>1, SlotInstallVerify, SlotRemoveVerify DEF Install, UnhookProceeds, Outside
    <2>2. CASE MakeTrampoline(t)
      <3>1. arg[t].target \in Targets
        BY <2>2, ArgsInCall DEF MakeTrampoline, TypeInv
      <3>2. QED
        BY <2>2, <3>1, SlotInstallRead DEF MakeTrampoline
    <2>3. CASE ~(Install(t) \/ UnhookProceeds(t)) /\ ~MakeTrampoline(t)
      <3>1. UNCHANGED <<hooks, pc, frame>>
        BY <1>6, <2>3
           DEF Proceed, GoesOn, InitOriginal, InitReplacement, EnsureInitialized, Initialize,
               ArtSets, CheckBackup, SkipCheck, Settled, Nudge, SpendNudge, Refused, Watch,
               WatchNudge, WatchMoved, WatchGivesUp, Discourage, WireBackup, NoBackupAsked,
               CallFails, registryVars
      <3>2. QED
        BY <1>2, <1>3, <3>1
    <2>4. QED
      BY <2>1, <2>2, <2>3
  <1>7. CASE UNCHANGED vars
    BY <1>2, <1>3, <1>7 DEF vars, registryVars
  <1>8. QED
    BY <1>4, <1>5, <1>6, <1>7 DEF Next

(* What is hooked is quiet, and slots hold what the records say, in every  *)
(* reachable state.                                                        *)
THEOREM SlotInvHolds == Spec => [](QuietInv /\ SlotInv)
  <1>1. TypeInv /\ StubInv /\ QuietInv /\ SlotInv /\ [Next]_vars => (QuietInv /\ SlotInv)'
    BY StaysQuiet, SlotSteps
  <1>2. QED
    BY <1>1, QuietInit, SlotInit, TypeInvHolds, StubInvHolds, PTL DEF Spec

(* For any number of threads, targets and hooks, a hook is lost under a    *)
(* recorded one only to a compilation that was in flight when a hook came  *)
(* to discourage it or that began while the flag could not be set, to      *)
(* ART's deoptimisation, or to the fixup where the fallback gave up on the *)
(* target.                                                                 *)
THEOREM HooksAreLostOnlyIfOverrun == Spec => []HookIsLostOnlyIfOverrun
  <1>1. TypeInv /\ StubInv /\ QuietInv /\ SlotInv => HookIsLostOnlyIfOverrun
    <2> SUFFICES ASSUME TypeInv, StubInv, QuietInv, SlotInv, NEW i \in DOMAIN hooks,
                        owner = NoThread, Registry!IsTop(hooks, i, hooks[i].target),
                        entry[hooks[i].target] # hooks[i].installed_entry,
                        hooks[i].target \notin overrun
                 PROVE  /\ hooks[i].target \in givenUp
                        /\ \E j \in DOMAIN hooks : /\ hooks[j].target = hooks[i].target
                                                   /\ hooks[j].previous_entry = "stub"
      BY DEF HookIsLostOnlyIfOverrun, Registry!LockIsFree
    <2> DEFINE m == hooks[i].target
    <2>1. DOMAIN hooks = 1..Len(hooks) /\ \A t \in Threads : pc[t] = "idle"
      BY RegistryShape
    <2>2. m \in Targets
      BY <2>1 DEF QuietInv, Quieted
    <2>3. StubBelow(hooks, m, i)
      BY <2>1, <2>2 DEF SlotInv, TopsHold, StoredBy, Holds
    <2>4. PICK k \in 1..Len(hooks) : hooks[k].target = m /\ hooks[k].previous_entry = "stub"
      BY <2>3 DEF StubBelow
    <2>5. m \in givenUp
      BY <2>2, <2>4 DEF StubInv, HooksLeftTheStub
    <2>6. QED
      BY <2>1, <2>4, <2>5
  <1>2. QED
    BY <1>1, TypeInvHolds, StubInvHolds, SlotInvHolds, PTL
=============================================================================
