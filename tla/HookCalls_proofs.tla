--------------------------- MODULE HookCalls_proofs ---------------------------
(***************************************************************************)
(* Where the calls of a hooked method lead, for any number of targets,     *)
(* hooks and trampolines, and an ART that does what it likes when it likes:*)
(* through the hooks that were put in and no others, and to an end.  Any   *)
(* number of threads hook and unhook, but no two one target at a time: the *)
(* backup, captured outside the lock, might be of another hook than the    *)
(* one displaced.                                                          *)
(***************************************************************************)
EXTENDS HookFunction_proofs, FiniteSetTheorems, WellFoundedInduction

-----------------------------------------------------------------------------
(* Slots and thunks outside the stores of install_hook and remove_hook.    *)

\* Neither install_hook() nor remove_hook() writes a slot in this step.
NoStore == \A t \in Threads : ~Registry!InstallStore(t) /\ ~Registry!RemoveStore(t)

(* A target's slot keeps what it holds, or ART puts code there.            *)
LEMMA TargetSlots ==
    ASSUME TypeInv, [Next]_vars, NoStore, NEW m \in Targets
    PROVE  entry'[m] = entry[m] \/ entry'[m] \in Code
  <1>0. entry \in [Methods -> Code \cup Trampolines] /\ m \in Methods
    BY DEF TypeInv, Registry!TypeOK, Registry!EntryPoint, Methods
  <1>1. CASE UNCHANGED entry
    BY <1>1
  <1>2. ASSUME NEW ms, NEW code, \A n \in ms : code[n] \in Code, ArtSets(ms, code)
        PROVE  entry'[m] = entry[m] \/ entry'[m] \in Code
    BY <1>0, <1>2 DEF ArtSets
  <1>3. ASSUME NEW c, Initialize(c)
        PROVE  entry'[m] = entry[m] \/ entry'[m] \in Code
    <2> DEFINE code == [n \in MethodsOf(c) |-> InitialEntry(n)]
    <2>1. \A n \in MethodsOf(c) : code[n] \in Code
      BY DEF InitialEntry, Code
    <2>2. ArtSets(MethodsOf(c), code)
      BY <1>3 DEF Initialize
    <2> HIDE DEF code
    <2>3. QED
      BY <1>2, <2>1, <2>2
  <1>4. ASSUME NEW c, MakeVisible(c)
        PROVE  entry'[m] = entry[m] \/ entry'[m] \in Code
    <2> DEFINE ms == {n \in MethodsOf(c) : entry[n] = "stub"}
               code == [n \in ms |-> "body"]
    <2>1. ArtSets(ms, code) /\ \A n \in ms : code[n] \in Code
      BY <1>4 DEF MakeVisible, Code
    <2> HIDE DEF ms, code
    <2>2. QED
      BY <1>2, <2>1
  <1>5. ASSUME NEW n, JitLand(n) \/ Deoptimize(n)
        PROVE  entry'[m] = entry[m] \/ entry'[m] \in Code
    <2> DEFINE code == [k \in {n} |-> "body"]
    <2>1. ArtSets({n}, code) /\ \A k \in {n} : code[k] \in Code
      BY <1>5 DEF JitLand, Deoptimize, Code
    <2> HIDE DEF code
    <2>2. QED
      BY <1>2, <2>1
  <1>6. ASSUME NEW t \in Threads, WireBackup(t)
        PROVE  entry'[m] = entry[m]
    <2> DEFINE b == BackupOf[arg[t].replacement]
    <2>1. b \in Backups
      BY HookAssumption, <1>6, ArgsInCall DEF WireBackup, TypeInv
    <2>2. entry' = [entry EXCEPT ![b] = Fresh]
      BY <1>6 DEF WireBackup
    <2> HIDE DEF b
    <2>3. QED
      BY HookAssumption, <1>0, <2>1, <2>2
  <1>7. CASE Art
    BY <1>1, <1>3, <1>4, <1>5, <1>7 DEF Art, AppInitializes, JitStart, registryVars
  <1>8. ASSUME NEW t \in Threads, Call(t)
        PROVE  UNCHANGED entry
    BY <1>8 DEF Call, Begin, Unhook, Registry!RemoveStale, Registry!RemoveCheck, registryVars
  <1>9. ASSUME NEW t \in Threads, Proceed(t)
        PROVE  entry'[m] = entry[m] \/ entry'[m] \in Code
    <2>1. CASE InitOriginal(t) \/ InitReplacement(t)
      BY <1>1, <1>3, <2>1 DEF InitOriginal, InitReplacement, EnsureInitialized, registryVars
    <2>2. CASE ~(InitOriginal(t) \/ InitReplacement(t) \/ WireBackup(t))
      BY <1>1, <1>9, <2>2
         DEF NoStore, Proceed, GoesOn, CheckBackup, SkipCheck, Settled, Nudge, SpendNudge,
             Refused, Watch, WatchNudge, WatchMoved, WatchGivesUp, Discourage, NoBackupAsked,
             MakeTrampoline, Registry!InstallRead, CallFails, Install, UnhookProceeds,
             Registry!InstallVerify, Registry!RemoveVerify, registryVars
    <2>3. QED
      BY <1>6, <2>1, <2>2
  <1>10. CASE UNCHANGED vars
    BY <1>1, <1>10 DEF vars, registryVars
  <1>11. QED
    BY <1>7, <1>8, <1>9, <1>10 DEF Next

(* A backup that was wired stays wired: its class is initialised, ART has  *)
(* nothing to fix up in it, and only a hook wires it anew.                 *)
LEMMA WiredSlots ==
    ASSUME TypeInv, QuietInv, [Next]_vars, NEW b \in Backups,
           Started(ClassOf[b]), entry[b] \in Trampolines,
           \A t \in Threads : WireBackup(t) => BackupOf[arg[t].replacement] # b
    PROVE  entry'[b] = entry[b]
  <1>0. /\ entry \in [Methods -> Code \cup Trampolines] /\ b \in Methods /\ b \notin Targets
        /\ entry[b] # "stub"
    BY HookAssumption DEF TypeInv, Registry!TypeOK, Registry!EntryPoint, Methods, Code
  <1>1. CASE UNCHANGED entry
    BY <1>1
  <1>2. ASSUME NEW ms, NEW code, b \notin ms, ArtSets(ms, code)
        PROVE  entry'[b] = entry[b]
    BY <1>0, <1>2 DEF ArtSets
  <1>3. ASSUME NEW c, Initialize(c)
        PROVE  entry'[b] = entry[b]
    <2>1. b \notin MethodsOf(c)
      BY <1>3 DEF Initialize, MethodsOf, Started
    <2>2. QED
      BY <1>2, <1>3, <2>1 DEF Initialize
  <1>4. ASSUME NEW c, MakeVisible(c)
        PROVE  entry'[b] = entry[b]
    <2> DEFINE ms == {n \in MethodsOf(c) : entry[n] = "stub"}
               code == [n \in ms |-> "body"]
    <2>1. b \notin ms /\ ArtSets(ms, code)
      BY <1>0, <1>4 DEF MakeVisible
    <2> HIDE DEF ms, code
    <2>2. QED
      BY <1>2, <2>1
  <1>5. ASSUME NEW n \in Targets, JitLand(n) \/ Deoptimize(n)
        PROVE  entry'[b] = entry[b]
    BY <1>0, <1>2, <1>5 DEF JitLand, Deoptimize
  <1>6. ASSUME NEW t \in Threads, WireBackup(t)
        PROVE  entry'[b] = entry[b]
    <2>1. entry' = [entry EXCEPT ![BackupOf[arg[t].replacement]] = Fresh]
      BY <1>6 DEF WireBackup
    <2>2. QED
      BY <1>0, <1>6, <2>1
  <1>7. ASSUME NEW t \in Threads, Registry!InstallStore(t) \/ Registry!RemoveStore(t)
        PROVE  entry'[b] = entry[b]
    <2>1. pc[t] # "idle"
      BY <1>7 DEF Registry!InstallStore, Registry!RemoveStore
    <2>2. frame[t].target # b
      BY <1>0, <2>1 DEF QuietInv, Quieted
    <2>3. QED
      BY <1>0, <1>7, <2>2 DEF Registry!InstallStore, Registry!RemoveStore, Registry!Store
  <1>8. CASE Art
    BY <1>1, <1>3, <1>4, <1>5, <1>8 DEF Art, AppInitializes, JitStart, registryVars
  <1>9. ASSUME NEW t \in Threads, Call(t)
        PROVE  UNCHANGED entry
    BY <1>9 DEF Call, Begin, Unhook, Registry!RemoveStale, Registry!RemoveCheck, registryVars
  <1>10. ASSUME NEW t \in Threads, Proceed(t)
         PROVE  entry'[b] = entry[b]
    <2>1. CASE InitOriginal(t) \/ InitReplacement(t)
      BY <1>1, <1>3, <2>1 DEF InitOriginal, InitReplacement, EnsureInitialized, registryVars
    <2>2. CASE Install(t) \/ UnhookProceeds(t)
      BY <1>1, <1>7, <2>2 DEF Install, UnhookProceeds, Registry!InstallVerify,
                              Registry!RemoveVerify
    <2>3. CASE /\ ~(InitOriginal(t) \/ InitReplacement(t) \/ WireBackup(t))
               /\ ~(Install(t) \/ UnhookProceeds(t))
      BY <1>1, <1>10, <2>3
         DEF Proceed, GoesOn, CheckBackup, SkipCheck, Settled, Nudge, SpendNudge, Refused, Watch,
             WatchNudge, WatchMoved, WatchGivesUp, Discourage, NoBackupAsked, MakeTrampoline,
             Registry!InstallRead, CallFails, registryVars
    <2>4. QED
      BY <1>6, <2>1, <2>2, <2>3
  <1>11. CASE UNCHANGED vars
    BY <1>1, <1>11 DEF vars, registryVars
  <1>12. QED
    BY <1>8, <1>9, <1>10, <1>11 DEF Next

(* What a trampoline does is settled when it is handed out.                *)
LEMMA ThunksStay ==
    ASSUME TypeInv, [Next]_vars, NEW x \in made
    PROVE  thunk'[x] = thunk[x] /\ x \in made'
  <1>0. x \in Trampolines /\ thunk \in [Trampolines -> Thunks]
    BY DEF TypeInv, ThunkTypes, Registry!TypeOK
  <1>1. CASE UNCHANGED <<thunk, made>>
    BY <1>1
  <1>2. ASSUME CanAllocate, NEW k, thunk' = [thunk EXCEPT ![Fresh] = k], made' = made \cup {Fresh}
        PROVE  thunk'[x] = thunk[x] /\ x \in made'
    <2>1. Fresh \notin made
      BY <1>2 DEF CanAllocate, Fresh
    <2> HIDE DEF Fresh
    <2>2. QED
      BY <1>0, <1>2, <2>1
  <1>3. CASE Art
    BY <1>1, <1>3 DEF Art, AppInitializes, Initialize, MakeVisible, JitStart, JitLand, Deoptimize,
                      ArtSets, registryVars
  <1>4. ASSUME NEW t \in Threads, Call(t)
        PROVE  UNCHANGED <<thunk, made>>
    BY <1>4 DEF Call, Begin, Unhook, Registry!RemoveStale, Registry!RemoveCheck, registryVars
  <1>5. ASSUME NEW t \in Threads, Proceed(t)
        PROVE  thunk'[x] = thunk[x] /\ x \in made'
    <2>1. CASE WireBackup(t) \/ MakeTrampoline(t)
      BY <1>2, <2>1 DEF WireBackup, MakeTrampoline, Registry!InstallRead
    <2>2. CASE Install(t) \/ UnhookProceeds(t)
      BY <1>1, <2>2 DEF Install, UnhookProceeds, Registry!InstallStore, Registry!InstallVerify,
                        Registry!RemoveStore, Registry!RemoveVerify
    <2>3. CASE ~(WireBackup(t) \/ MakeTrampoline(t)) /\ ~(Install(t) \/ UnhookProceeds(t))
      BY <1>1, <1>5, <2>3
         DEF Proceed, GoesOn, InitOriginal, InitReplacement, EnsureInitialized, Initialize,
             ArtSets, CheckBackup, SkipCheck, Settled, Nudge, SpendNudge, Refused, Watch,
             WatchNudge, WatchMoved, WatchGivesUp, Discourage, NoBackupAsked, CallFails,
             registryVars
    <2>4. QED
      BY <2>1, <2>2, <2>3
  <1>6. CASE UNCHANGED vars
    BY <1>1, <1>6 DEF vars, registryVars
  <1>7. QED
    BY <1>1, <1>3, <1>4, <1>5, <1>6 DEF Next

-----------------------------------------------------------------------------
(* Records and slots.  What displaced a hook displaced the one recorded    *)
(* next below, and a trampoline that is live in a target's slot is its top *)
(* record's, whatever the threads and ART do.                              *)

(* What Old and New say of the vector and of what is left of it.           *)
LEMMA RemovedVector ==
    ASSUME NEW h \in Seq(Records), NEW t \in 1..Len(h), NEW g, g = Registry!RemoveAt(h, t)
    PROVE  /\ Len(h) \in Nat /\ Len(g) = Len(h) - 1 /\ g \in Seq(Records)
           /\ \A k \in 1..Len(g) : Old(t, k) \in 1..Len(h) /\ Old(t, k) # t /\ g[k] = h[Old(t, k)]
           /\ \A k \in 1..Len(h) : k # t => New(t, k) \in 1..Len(g) /\ g[New(t, k)] = h[k]
  <1>1. Len(h) \in Nat /\ Len(g) = Len(h) - 1 /\ g \in Seq(Records)
    BY RemoveAtElements
  <1>2. /\ \A k \in 1..Len(g) : Old(t, k) \in 1..Len(h) /\ Old(t, k) # t /\ g[k] = h[Old(t, k)]
        /\ \A k \in 1..Len(h) : k # t => New(t, k) \in 1..Len(g) /\ g[New(t, k)] = h[k]
    BY RemoveAtPlaces, SMTT(30)
  <1>3. QED
    BY <1>1, <1>2

(* A pushed record is its own target's top, and no other's.                *)
LEMMA PushedIsTop ==
    ASSUME NEW h \in Seq(Records), NEW r \in Records
    PROVE  /\ Registry!IsTop(Append(h, r), Len(h) + 1, r.target)
           /\ \A n, i : n # r.target /\ Registry!IsTop(h, i, n)
                            => Registry!IsTop(Append(h, r), i, n)
  BY AppendProperties DEF Registry!IsTop

(* Pushing keeps the vector linked, if what the pushed record displaced is *)
(* its target's top.                                                       *)
LEMMA PushKeepsLinked ==
    ASSUME NEW h \in Seq(Records), NEW r \in Records, Registry!Linked(h),
           r.previous_entry \in Trampolines =>
               \E i \in 1..Len(h) : /\ Registry!IsTop(h, i, r.target)
                                    /\ h[i].installed_entry = r.previous_entry
    PROVE  Registry!Linked(Append(h, r))
  <1> DEFINE g == Append(h, r)
  <1>1. /\ Len(g) = Len(h) + 1 /\ Len(h) \in Nat
        /\ \A k \in 1..Len(h) : g[k] = h[k]
        /\ g[Len(h) + 1] = r
    BY AppendProperties
  <1> SUFFICES ASSUME NEW i \in 1..Len(g), g[i].previous_entry \in Trampolines
               PROVE  \E j \in 1..(i - 1) : /\ Registry!NextBelow(g, j, i)
                                            /\ g[j].installed_entry = g[i].previous_entry
    BY DEF Registry!Linked
  <1> HIDE DEF g
  <1>2. CASE i \in 1..Len(h)
    <2>1. PICK j \in 1..(i - 1) : /\ Registry!NextBelow(h, j, i)
                                  /\ h[j].installed_entry = h[i].previous_entry
      BY <1>1, <1>2 DEF Registry!Linked
    <2>2. QED
      BY <1>1, <1>2, <2>1 DEF Registry!NextBelow
  <1>3. CASE i = Len(h) + 1
    <2>1. PICK j \in 1..Len(h) : /\ Registry!IsTop(h, j, r.target)
                                 /\ h[j].installed_entry = r.previous_entry
      BY <1>1, <1>3
    <2>2. QED
      BY <1>1, <1>3, <2>1 DEF Registry!NextBelow, Registry!IsTop
  <1>4. QED
    BY <1>1, <1>2, <1>3

(* Taking out a top keeps it linked: nothing left had displaced it.        *)
LEMMA RemovalKeepsLinked ==
    ASSUME NEW h \in Seq(Records), NEW m, NEW t \in 1..Len(h), Registry!IsTop(h, t, m),
           Registry!Linked(h)
    PROVE  Registry!Linked(Registry!RemoveAt(h, t))
  <1> DEFINE g == Registry!RemoveAt(h, t)
  <1>0. g = Registry!RemoveAt(h, t)
    OBVIOUS
  <1> HIDE DEF g
  <1>1. /\ Len(h) \in Nat /\ Len(g) = Len(h) - 1
        /\ \A k \in 1..Len(g) : Old(t, k) \in 1..Len(h) /\ Old(t, k) # t /\ g[k] = h[Old(t, k)]
        /\ \A k \in 1..Len(h) : k # t => New(t, k) \in 1..Len(g) /\ g[New(t, k)] = h[k]
    BY <1>0, RemovedVector
  <1> SUFFICES ASSUME NEW i \in 1..Len(g), g[i].previous_entry \in Trampolines
               PROVE  \E j \in 1..(i - 1) : /\ Registry!NextBelow(g, j, i)
                                            /\ g[j].installed_entry = g[i].previous_entry
    BY DEF Registry!Linked, g
  <1>2. PICK j \in 1..(Old(t, i) - 1) : /\ Registry!NextBelow(h, j, Old(t, i))
                                        /\ h[j].installed_entry = h[Old(t, i)].previous_entry
    BY <1>1 DEF Registry!Linked
  <1>3. j # t
    BY <1>1, <1>2 DEF Registry!NextBelow, Registry!IsTop
  <1>4. New(t, j) \in 1..(i - 1) /\ g[New(t, j)] = h[j]
    BY <1>1, <1>2, <1>3 DEF Old, New
  <1>5. ASSUME NEW k \in (New(t, j) + 1)..(i - 1)
        PROVE  g[k].target # g[i].target
    <2>1. k \in 1..Len(g) /\ Old(t, k) \in (j + 1)..(Old(t, i) - 1)
      BY <1>1, <1>2, <1>3, <1>5 DEF Old, New
    <2>2. QED
      BY <1>1, <1>2, <2>1 DEF Registry!NextBelow
  <1>6. Registry!NextBelow(g, New(t, j), i)
    BY <1>1, <1>2, <1>4, <1>5 DEF Registry!NextBelow
  <1>7. QED
    BY <1>1, <1>2, <1>4, <1>6

(* Without m's top, the record next below it is m's top, and every other   *)
(* method keeps its own.                                                   *)
LEMMA TopsWithout ==
    ASSUME NEW h \in Seq(Records), NEW m, NEW t \in 1..Len(h), Registry!IsTop(h, t, m),
           NEW g, g = Registry!RemoveAt(h, t)
    PROVE  /\ \A j \in 1..(t - 1) : Registry!NextBelow(h, j, t) =>
                 Registry!IsTop(g, j, m) /\ g[j] = h[j]
           /\ \A n, i : n # m /\ Registry!IsTop(h, i, n) =>
                 Registry!IsTop(g, New(t, i), n) /\ g[New(t, i)] = h[i]
  <1>1. /\ Len(h) \in Nat /\ Len(g) = Len(h) - 1
        /\ \A k \in 1..Len(g) : Old(t, k) \in 1..Len(h) /\ Old(t, k) # t /\ g[k] = h[Old(t, k)]
        /\ \A k \in 1..Len(h) : k # t => New(t, k) \in 1..Len(g) /\ g[New(t, k)] = h[k]
    BY RemovedVector
  <1>2. ASSUME NEW j \in 1..(t - 1), Registry!NextBelow(h, j, t)
        PROVE  Registry!IsTop(g, j, m) /\ g[j] = h[j]
    <2>1. j \in 1..Len(g) /\ g[j] = h[j] /\ h[j].target = m
      <3>1. New(t, j) = j /\ j \in 1..Len(h) /\ j # t
        BY <1>1 DEF New
      <3>2. QED
        BY <1>1, <1>2, <3>1 DEF Registry!NextBelow, Registry!IsTop
    <2>2. ASSUME NEW k \in (j + 1)..Len(g)
          PROVE  g[k].target # m
      <3>1. k \in 1..Len(g) /\ Old(t, k) \in (j + 1)..Len(h) /\ Old(t, k) # t
        BY <1>1, <2>2 DEF Old
      <3>2. QED
        BY <1>1, <1>2, <3>1, SMTT(30) DEF Registry!NextBelow, Registry!IsTop
    <2>3. QED
      BY <2>1, <2>2 DEF Registry!IsTop
  <1>3. ASSUME NEW n, NEW i, n # m, Registry!IsTop(h, i, n)
        PROVE  Registry!IsTop(g, New(t, i), n) /\ g[New(t, i)] = h[i]
    <2>1. i \in 1..Len(h) /\ i # t /\ h[i].target = n
      BY <1>3 DEF Registry!IsTop
    <2>2. New(t, i) \in 1..Len(g) /\ g[New(t, i)] = h[i]
      BY <1>1, <2>1
    <2>3. ASSUME NEW k \in (New(t, i) + 1)..Len(g)
          PROVE  g[k].target # n
      <3>1. k \in 1..Len(g) /\ Old(t, k) \in (i + 1)..Len(h)
        BY <1>1, <2>1, <2>2, <2>3 DEF Old, New
      <3>2. QED
        BY <1>1, <1>3, <3>1 DEF Registry!IsTop
    <2>4. QED
      BY <2>1, <2>2, <2>3 DEF Registry!IsTop
  <1>4. QED
    BY <1>2, <1>3

\* An install that is about to displace a hook displaces its target's top.
InstallsOnTop ==
    \A t \in Threads :
        pc[t] \in Registry!InstallPC /\ frame[t].previous_entry \in Trampolines =>
            \E i \in 1..Len(hooks) :
                /\ Registry!IsTop(hooks, i, frame[t].target)
                /\ hooks[i].installed_entry = frame[t].previous_entry

SlotsAreRecorded ==
    \A m \in Targets :
        entry[m] \in Trampolines =>
            Registry!HookIsInstalled(m) \/ \E t \in Threads : StoredBy(t, m)

RecordInv == Registry!Linked(hooks) /\ InstallsOnTop /\ SlotsAreRecorded

(* Nothing is recorded and no trampoline live at first.                    *)
LEMMA RecordInit == Init => RecordInv
  <1> SUFFICES ASSUME Init
               PROVE  RecordInv
    OBVIOUS
  <1>1. Registry!Linked(hooks) /\ InstallsOnTop
    BY DEF Init, Registry!Linked, InstallsOnTop, Registry!InstallPC
  <1>2. SlotsAreRecorded
    BY HookAssumption DEF Init, SlotsAreRecorded, Methods, InitialEntry, Code
  <1>3. QED
    BY <1>1, <1>2 DEF RecordInv

(* ART, and the calls outside the lock, put no trampoline into a target.   *)
LEMMA RecordOutside ==
    ASSUME TypeInv, RecordInv, [Next]_vars, NoStore, UNCHANGED <<hooks, pc, frame>>
    PROVE  RecordInv'
  <1>1. Registry!Linked(hooks)' /\ InstallsOnTop'
    BY DEF RecordInv, InstallsOnTop
  <1>2. ASSUME NEW m \in Targets, entry'[m] \in Trampolines
        PROVE  Registry!HookIsInstalled(m)' \/ \E t \in Threads : StoredBy(t, m)'
    <2>1. entry'[m] = entry[m]
      BY HookAssumption, <1>2, TargetSlots
    <2>2. Registry!HookIsInstalled(m) \/ \E t \in Threads : StoredBy(t, m)
      BY <1>2, <2>1 DEF RecordInv, SlotsAreRecorded
    <2>3. QED
      BY <2>1, <2>2 DEF Registry!HookIsInstalled, StoredBy
  <1>3. QED
    BY <1>1, <1>2 DEF RecordInv, SlotsAreRecorded

(* With the lock free a live trampoline is its target's top.               *)
LEMMA LiveIsTop ==
    ASSUME TypeInv, RecordInv, \A t \in Threads : pc[t] = "idle",
           NEW m \in Targets, entry[m] \in Trampolines
    PROVE  Registry!HookIsInstalled(m)
  BY DEF RecordInv, SlotsAreRecorded, StoredBy

(* install_hook() reads the top's trampoline, or code.                     *)
LEMMA RecordInstallRead ==
    ASSUME TypeInv, RecordInv, NEW t \in Threads, NEW m \in Targets, NEW x,
           Registry!InstallRead(t, m, x)
    PROVE  RecordInv'
  <1> USE RegistryShape
  <1> DEFINE r == [target |-> m, previous_entry |-> entry[m], installed_entry |-> x]
  <1>1. /\ \A u \in Threads : pc[u] = "idle"
        /\ hooks' = hooks /\ entry' = entry
        /\ pc' = [pc EXCEPT ![t] = "install_store"] /\ frame' = [frame EXCEPT ![t] = r]
    BY DEF Registry!InstallRead, Registry!Enter, Registry!LockIsFree
  <1>2. r.target = m /\ r.previous_entry = entry[m]
    OBVIOUS
  <1> HIDE DEF r
  <1>3. \A u \in Threads : pc'[u] # "idle" => u = t /\ pc'[u] = "install_store" /\ frame'[u] = r
    BY <1>1
  <1>4. InstallsOnTop'
    BY <1>1, <1>2, <1>3, LiveIsTop DEF InstallsOnTop, Registry!HookIsInstalled, Registry!InstallPC
  <1>5. SlotsAreRecorded'
    BY <1>1, LiveIsTop DEF SlotsAreRecorded, Registry!HookIsInstalled
  <1>6. Registry!Linked(hooks)'
    BY <1>1 DEF RecordInv
  <1>7. QED
    BY <1>4, <1>5, <1>6 DEF RecordInv

(* A store that takes makes live what the call is about to record.         *)
LEMMA RecordStore ==
    ASSUME TypeInv, RecordInv, NEW t \in Threads,
           Registry!InstallStore(t) \/ Registry!RemoveStore(t)
    PROVE  RecordInv'
  <1> USE RegistryShape
  <1> DEFINE m == frame[t].target
             value == IF pc[t] = "install_store" THEN frame[t].installed_entry
                                                 ELSE frame[t].previous_entry
             next == IF pc[t] = "install_store" THEN "install_verify" ELSE "remove_verify"
  <1>1. /\ pc[t] \in {"install_store", "remove_store"}
        /\ hooks' = hooks /\ frame' = frame
        /\ entry' = entry \/ entry' = [entry EXCEPT ![m] = value]
        /\ pc' = [pc EXCEPT ![t] = next]
    BY DEF Registry!InstallStore, Registry!RemoveStore, Registry!Store, Registry!Goto
  <1>2. m \in Methods /\ \A u \in Threads : u # t => pc[u] = "idle"
    BY <1>1
  <1>3. \A u \in Threads : pc'[u] = IF u = t THEN next ELSE "idle"
    BY <1>1, <1>2
  <1>4. ASSUME NEW n \in Targets, entry'[n] \in Trampolines
        PROVE  Registry!HookIsInstalled(n)' \/ \E u \in Threads : StoredBy(u, n)'
    <2>1. CASE entry'[n] = entry[n]
      <3>1. ASSUME NEW u \in Threads, StoredBy(u, n)
            PROVE  FALSE
        BY <1>1, <1>2, <3>1 DEF StoredBy
      <3>2. Registry!HookIsInstalled(n)
        BY <1>4, <2>1, <3>1 DEF RecordInv, SlotsAreRecorded
      <3>3. QED
        BY <1>1, <2>1, <3>2 DEF Registry!HookIsInstalled
    <2>2. CASE entry'[n] # entry[n]
      <3>0. n \in Methods
        BY DEF Methods
      <3>1. n = m /\ entry'[n] = value
        BY <1>1, <1>2, <2>2, <3>0
      <3>2. StoredBy(t, n)'
        BY <1>1, <1>3, <3>1 DEF StoredBy
      <3>3. QED
        BY <3>2
    <2>3. QED
      BY <2>1, <2>2
  <1> HIDE DEF m, value
  <1>5. InstallsOnTop'
    BY <1>1, <1>3 DEF RecordInv, InstallsOnTop, Registry!InstallPC
  <1>6. Registry!Linked(hooks)'
    BY <1>1 DEF RecordInv
  <1>7. QED
    BY <1>4, <1>5, <1>6 DEF RecordInv, SlotsAreRecorded

(* Nothing is said of calls where there are none.                          *)
LEMMA RecordAtRest ==
    ASSUME \A u \in Threads : pc'[u] \notin Registry!InstallPC, Registry!Linked(hooks'),
           \A n \in Targets : entry'[n] \in Trampolines => Registry!HookIsInstalled(n)'
    PROVE  RecordInv'
  BY DEF RecordInv, InstallsOnTop, SlotsAreRecorded

(* A removal that goes on changes nothing yet.                             *)
LEMMA RecordRemoveCheck ==
    ASSUME TypeInv, RecordInv, NEW t \in Threads, NEW m \in Targets, Registry!RemoveCheck(t, m)
    PROVE  RecordInv'
  <1> USE RegistryShape
  <1>1. /\ \A u \in Threads : pc[u] = "idle"
        /\ pc' = [pc EXCEPT ![t] = "remove_store"]
        /\ hooks' = hooks /\ entry' = entry
    BY DEF Registry!RemoveCheck, Registry!Enter, Registry!LockIsFree
  <1>2. \A u \in Threads : pc'[u] \notin Registry!InstallPC
    BY <1>1 DEF Registry!InstallPC
  <1>3. \A n \in Targets : entry'[n] \in Trampolines => Registry!HookIsInstalled(n)'
    BY <1>1, LiveIsTop DEF Registry!HookIsInstalled
  <1>4. QED
    BY <1>1, <1>2, <1>3, RecordAtRest DEF RecordInv

(* The record that is pushed is of the trampoline found live.              *)
LEMMA RecordInstallVerify ==
    ASSUME TypeInv, RecordInv, NEW t \in Threads, Registry!InstallVerify(t)
    PROVE  RecordInv'
  <1> USE RegistryShape
  <1> DEFINE r == frame[t]
  <1>1. /\ pc[t] = "install_verify" /\ pc[t] # "idle" /\ r \in Records
        /\ hooks' = IF entry[r.target] = r.installed_entry THEN Append(hooks, r) ELSE hooks
        /\ entry' = entry /\ pc' = [pc EXCEPT ![t] = "idle"]
    BY DEF Registry!InstallVerify, Registry!Return
  <1>2. \A u \in Threads : pc'[u] = "idle"
    BY <1>1
  <1>3. ASSUME NEW n \in Targets, entry[n] \in Trampolines,
               n # r.target \/ entry[r.target] # r.installed_entry
        PROVE  Registry!HookIsInstalled(n)
    BY <1>1, <1>3 DEF RecordInv, SlotsAreRecorded, StoredBy
  <1>4. r.previous_entry \in Trampolines =>
           \E i \in 1..Len(hooks) : /\ Registry!IsTop(hooks, i, r.target)
                                    /\ hooks[i].installed_entry = r.previous_entry
    BY <1>1 DEF RecordInv, InstallsOnTop, Registry!InstallPC
  <1> HIDE DEF r
  <1>5. CASE entry[r.target] = r.installed_entry
    <2> DEFINE g == Append(hooks, r)
    <2>1. hooks' = g
      BY <1>1, <1>5
    <2>2. Registry!Linked(g)
      BY <1>1, <1>4, PushKeepsLinked DEF RecordInv
    <2>3. /\ Len(g) = Len(hooks) + 1
          /\ \A k \in 1..Len(hooks) : g[k] = hooks[k]
          /\ g[Len(hooks) + 1] = r
      BY <1>1, AppendProperties
    <2>4. /\ Registry!IsTop(g, Len(hooks) + 1, r.target)
          /\ \A n, i : n # r.target /\ Registry!IsTop(hooks, i, n) => Registry!IsTop(g, i, n)
      BY <1>1, PushedIsTop
    <2>5. ASSUME NEW n \in Targets, entry[n] \in Trampolines
          PROVE  \E i \in 1..Len(g) : Registry!IsTop(g, i, n) /\ entry[n] = g[i].installed_entry
      <3>1. CASE n = r.target
        BY <1>1, <1>5, <2>3, <2>4, <3>1
      <3>2. CASE n # r.target
        <4>1. PICK i \in 1..Len(hooks) : /\ Registry!IsTop(hooks, i, n)
                                         /\ entry[n] = hooks[i].installed_entry
          BY <1>3, <2>5, <3>2 DEF Registry!HookIsInstalled
        <4>2. QED
          BY <2>3, <2>4, <3>2, <4>1
      <3>3. QED
        BY <3>1, <3>2
    <2> HIDE DEF g
    <2>6. QED
      BY <1>1, <1>2, <2>1, <2>2, <2>5, RecordAtRest, ZenonT(60)
         DEF Registry!HookIsInstalled, Registry!InstallPC
  <1>6. CASE entry[r.target] # r.installed_entry
    <2>1. hooks' = hooks /\ entry' = entry
      BY <1>1, <1>6
    <2>2. \A n \in Targets : entry'[n] \in Trampolines => Registry!HookIsInstalled(n)'
      BY <1>3, <1>6, <2>1 DEF Registry!HookIsInstalled
    <2>3. QED
      BY <1>2, <2>1, <2>2, RecordAtRest DEF RecordInv, Registry!InstallPC
  <1>7. QED
    BY <1>5, <1>6

(* A top is taken out: its target holds code, or the next one below.       *)
LEMMA RecordRemoval ==
    ASSUME TypeInv, RecordInv, NEW m, NEW t \in 1..Len(hooks), Registry!IsTop(hooks, t, m),
           hooks' = Registry!RemoveAt(hooks, t), entry' = entry,
           \A u \in Threads : pc'[u] = "idle",
           \A n \in Targets : n # m /\ entry[n] \in Trampolines => Registry!HookIsInstalled(n),
           entry[m] \in Trampolines => entry[m] = hooks[t].previous_entry
    PROVE  RecordInv'
  <1> USE RegistryShape
  <1>1. Registry!Linked(hooks')
    BY RemovalKeepsLinked DEF RecordInv
  <1>2. /\ Len(hooks) \in Nat /\ Len(hooks') = Len(hooks) - 1
        /\ \A k \in 1..Len(hooks) : k # t => New(t, k) \in 1..Len(hooks')
    BY RemovedVector
  <1>3. /\ \A j \in 1..(t - 1) : Registry!NextBelow(hooks, j, t) =>
              Registry!IsTop(hooks', j, m) /\ hooks'[j] = hooks[j]
        /\ \A n, i : n # m /\ Registry!IsTop(hooks, i, n) =>
              Registry!IsTop(hooks', New(t, i), n) /\ hooks'[New(t, i)] = hooks[i]
    BY TopsWithout
  <1>4. ASSUME NEW n \in Targets, entry[n] \in Trampolines
        PROVE  \E i \in 1..Len(hooks') : /\ Registry!IsTop(hooks', i, n)
                                         /\ entry[n] = hooks'[i].installed_entry
    <2>1. CASE n = m
      <3>1. PICK j \in 1..(t - 1) : /\ Registry!NextBelow(hooks, j, t)
                                    /\ hooks[j].installed_entry = hooks[t].previous_entry
        BY <1>4, <2>1 DEF RecordInv, Registry!Linked
      <3>2. QED
        BY <1>2, <1>3, <1>4, <2>1, <3>1, SMTT(30)
    <2>2. CASE n # m
      <3>1. PICK i \in 1..Len(hooks) : /\ Registry!IsTop(hooks, i, n)
                                       /\ entry[n] = hooks[i].installed_entry
        BY <1>4, <2>2 DEF Registry!HookIsInstalled
      <3>2. i # t
        BY <2>2, <3>1 DEF Registry!IsTop
      <3>3. QED
        BY <1>2, <1>3, <2>2, <3>1, <3>2
    <2>3. QED
      BY <2>1, <2>2
  <1>5. QED
    BY <1>1, <1>4, RecordAtRest DEF Registry!HookIsInstalled, Registry!InstallPC

(* remove_hook() drops a record whose trampoline is not live ...           *)
LEMMA RecordRemoveStale ==
    ASSUME TypeInv, RecordInv, NEW t \in Threads, NEW m \in Targets, Registry!RemoveStale(t, m)
    PROVE  RecordInv'
  <1> USE RegistryShape
  <1>1. PICK i \in 1..Len(hooks) : /\ Registry!IsTop(hooks, i, m)
                                   /\ entry[m] # hooks[i].installed_entry
                                   /\ hooks' = Registry!RemoveAt(hooks, i)
    BY DEF Registry!RemoveStale
  <1>2. entry' = entry /\ \A u \in Threads : pc[u] = "idle" /\ pc'[u] = "idle"
    BY DEF Registry!RemoveStale, Registry!LockIsFree
  <1>3. entry[m] \notin Trampolines
    <2>1. SUFFICES ASSUME entry[m] \in Trampolines
                   PROVE  FALSE
      OBVIOUS
    <2>2. PICK j \in 1..Len(hooks) : /\ Registry!IsTop(hooks, j, m)
                                     /\ entry[m] = hooks[j].installed_entry
      BY <1>2, <2>1, LiveIsTop DEF Registry!HookIsInstalled
    <2>3. QED
      BY <1>1, <2>2, TopIsUnique
  <1>4. \A n \in Targets : entry[n] \in Trampolines => Registry!HookIsInstalled(n)
    BY <1>2, LiveIsTop
  <1>5. QED
    BY <1>1, <1>2, <1>3, <1>4, RecordRemoval

(* ... or one it has put back what it displaced for.                       *)
LEMMA RecordRemoveVerify ==
    ASSUME TypeInv, SlotInv, RecordInv, NEW t \in Threads, Registry!RemoveVerify(t)
    PROVE  RecordInv'
  <1> USE RegistryShape
  <1> DEFINE m == frame[t].target
  <1>1. PICK i \in 1..Len(hooks) :
           /\ Registry!IsTop(hooks, i, m)
           /\ hooks' = IF entry[m] = frame[t].previous_entry
                       THEN Registry!RemoveAt(hooks, i) ELSE hooks
    BY DEF Registry!RemoveVerify
  <1>2. /\ pc[t] = "remove_verify" /\ entry' = entry
        /\ \A u \in Threads : pc'[u] = "idle" /\ (u # t => pc[u] = "idle")
    BY DEF Registry!RemoveVerify, Registry!Return
  <1>3. hooks[i] = frame[t]
    <2>1. PICK j \in 1..Len(hooks) : Registry!IsTop(hooks, j, m) /\ hooks[j] = frame[t]
      BY <1>2 DEF SlotInv, RemovesTop, Registry!RemovePC
    <2>2. i = j
      BY <1>1, <2>1, TopIsUnique
    <2>3. QED
      BY <2>1, <2>2
  <1>4. ASSUME NEW n \in Targets, entry[n] \in Trampolines,
               n # m \/ entry[m] # frame[t].previous_entry
        PROVE  Registry!HookIsInstalled(n)
    BY <1>2, <1>4 DEF RecordInv, SlotsAreRecorded, StoredBy
  <1> HIDE DEF m
  <1>5. CASE entry[m] = frame[t].previous_entry
    <2>1. hooks' = Registry!RemoveAt(hooks, i) /\ entry[m] = hooks[i].previous_entry
      BY <1>1, <1>3, <1>5
    <2>2. QED
      BY <1>1, <1>2, <1>4, <2>1, RecordRemoval
  <1>6. CASE entry[m] # frame[t].previous_entry
    <2>1. hooks' = hooks
      BY <1>1, <1>6
    <2>2. \A n \in Targets : entry'[n] \in Trampolines => Registry!HookIsInstalled(n)'
      BY <1>2, <1>4, <1>6, <2>1 DEF Registry!HookIsInstalled
    <2>3. QED
      BY <1>2, <2>1, <2>2, RecordAtRest DEF RecordInv, Registry!InstallPC
  <1>7. QED
    BY <1>5, <1>6

(* A step is one of the registry's, or is made outside the lock.           *)
LEMMA RecordSteps ==
    ASSUME TypeInv, SlotInv, RecordInv, [Next]_vars
    PROVE  RecordInv'
  <1>1. CASE \E t \in Threads : Registry!InstallStore(t) \/ Registry!RemoveStore(t)
    BY <1>1, RecordStore
  <1>2. ASSUME NoStore, UNCHANGED <<hooks, pc, frame>>
        PROVE  RecordInv'
    BY <1>2, RecordOutside
  <1>3. SUFFICES ASSUME NoStore
                 PROVE  RecordInv'
    BY <1>1 DEF NoStore
  <1>4. CASE Art
    BY <1>2, <1>3, <1>4 DEF Art, AppInitializes, Initialize, MakeVisible, JitStart, JitLand,
                            Deoptimize, ArtSets, registryVars
  <1>5. ASSUME NEW t \in Threads, Call(t)
        PROVE  RecordInv'
    <2>1. ASSUME NEW m \in Targets, NEW r, Begin(t, m, r)
          PROVE  UNCHANGED <<hooks, pc, frame>>
      BY <2>1 DEF Begin, registryVars
    <2>2. ASSUME NEW m \in Targets, Unhook(t, m)
          PROVE  RecordInv'
      BY <2>2, RecordRemoveStale, RecordRemoveCheck DEF Unhook
    <2>3. QED
      BY <1>2, <1>3, <1>5, <2>1, <2>2 DEF Call
  <1>6. ASSUME NEW t \in Threads, Proceed(t)
        PROVE  RecordInv'
    <2>1. CASE Install(t) \/ UnhookProceeds(t)
      BY <1>3, <2>1, RecordInstallVerify, RecordRemoveVerify DEF Install, UnhookProceeds, NoStore
    <2>2. CASE MakeTrampoline(t)
      <3>1. arg[t].target \in Targets
        BY <2>2, ArgsInCall DEF MakeTrampoline, TypeInv
      <3>2. QED
        BY <2>2, <3>1, RecordInstallRead DEF MakeTrampoline
    <2>3. CASE ~(Install(t) \/ UnhookProceeds(t)) /\ ~MakeTrampoline(t)
      <3>1. UNCHANGED <<hooks, pc, frame>>
        BY <1>6, <2>3
           DEF Proceed, GoesOn, InitOriginal, InitReplacement, EnsureInitialized, Initialize,
               ArtSets, CheckBackup, SkipCheck, Settled, Nudge, SpendNudge, Refused, Watch,
               WatchNudge, WatchMoved, WatchGivesUp, Discourage, WireBackup, NoBackupAsked,
               CallFails, registryVars
      <3>2. QED
        BY <1>2, <1>3, <3>1
    <2>4. QED
      BY <2>1, <2>2, <2>3
  <1>7. CASE UNCHANGED vars
    BY <1>2, <1>3, <1>7 DEF vars, registryVars
  <1>8. QED
    BY <1>4, <1>5, <1>6, <1>7 DEF Next

(* In every reachable state, for any number of threads: a live trampoline  *)
(* of a target is its top record's, and hooks displaced what is recorded   *)
(* next below them.                                                        *)
THEOREM RecordInvHolds == Spec => []RecordInv
  <1>1. TypeInv /\ QuietInv /\ SlotInv /\ RecordInv /\ [Next]_vars => RecordInv'
    BY RecordSteps
  <1>2. QED
    BY <1>1, RecordInit, TypeInvHolds, SlotInvHolds, PTL DEF Spec

-----------------------------------------------------------------------------
(* What holds of a call's own arguments, and how trampolines carry over.   *)

(* A removal is entered by a thread that is in no hook_function().         *)
LEMMA RemovalsStart ==
    ASSUME TypeInv, [Next]_vars, NEW u \in Threads, pc'[u] \in Registry!RemovePC
    PROVE  pc[u] \in Registry!RemovePC \/ (hpc[u] = "idle" /\ hpc' = hpc)
  <1>0. pc \in [Threads -> {"idle"} \cup Registry!InstallPC \cup Registry!RemovePC]
    BY RegistryShape
  <1>1. CASE pc' = pc
    BY <1>1
  <1>2. ASSUME NEW t \in Threads, NEW p, p \notin Registry!RemovePC, pc' = [pc EXCEPT ![t] = p]
        PROVE  pc[u] \in Registry!RemovePC
    BY <1>0, <1>2
  <1>3. CASE Art
    BY <1>1, <1>3 DEF Art, AppInitializes, Initialize, MakeVisible, JitStart, JitLand, Deoptimize,
                      ArtSets, registryVars
  <1>4. ASSUME NEW t \in Threads, Call(t)
        PROVE  pc[u] \in Registry!RemovePC \/ (hpc[u] = "idle" /\ hpc' = hpc)
    <2>1. CASE pc' # pc
      <3>1. PICK m \in Targets : Unhook(t, m)
        BY <1>4, <2>1 DEF Call, Begin, registryVars
      <3>2. /\ hpc[t] = "idle" /\ hpc' = hpc
            /\ pc' = pc \/ pc' = [pc EXCEPT ![t] = "remove_store"]
        BY <3>1 DEF Unhook, Registry!RemoveStale, Registry!RemoveCheck, Registry!Enter
      <3>3. u = t \/ pc'[u] = pc[u]
        BY <1>0, <3>2
      <3>4. QED
        BY <3>2, <3>3
    <2>2. QED
      BY <1>1, <2>1
  <1>5. ASSUME NEW t \in Threads, Proceed(t)
        PROVE  pc[u] \in Registry!RemovePC
    <2>1. CASE Install(t)
      BY <1>2, <2>1 DEF Install, Registry!InstallStore, Registry!InstallVerify, Registry!Goto,
                        Registry!Return, Registry!RemovePC
    <2>2. CASE UnhookProceeds(t)
      <3>1. /\ pc[t] \in Registry!RemovePC
            /\ \E p : pc' = [pc EXCEPT ![t] = p]
        BY <2>2 DEF UnhookProceeds, Registry!RemoveStore, Registry!RemoveVerify, Registry!Goto,
                    Registry!Return, Registry!RemovePC
      <3>2. QED
        BY <1>0, <3>1
    <2>3. CASE MakeTrampoline(t)
      BY <1>2, <2>3 DEF MakeTrampoline, Registry!InstallRead, Registry!Enter, Registry!RemovePC
    <2>4. CASE ~(Install(t) \/ UnhookProceeds(t)) /\ ~MakeTrampoline(t)
      BY <1>1, <1>5, <2>4
         DEF Proceed, GoesOn, InitOriginal, InitReplacement, EnsureInitialized, Initialize,
             ArtSets, CheckBackup, SkipCheck, Settled, Nudge, SpendNudge, Refused, Watch,
             WatchNudge, WatchMoved, WatchGivesUp, Discourage, WireBackup, NoBackupAsked,
             CallFails, registryVars
    <2>5. QED
      BY <2>1, <2>2, <2>3, <2>4
  <1>6. CASE UNCHANGED vars
    BY <1>1, <1>6 DEF vars, registryVars
  <1>7. QED
    BY <1>3, <1>4, <1>5, <1>6 DEF Next

\* The backup of r is fit for m, or is known not to have been checked.
Cleared(m, r) == RejectsBackup(m, r) => <<m, r>> \in unchecked

(* What is known of a backup stays known.                                  *)
LEMMA ClearedForGood ==
    ASSUME [Next]_vars, NEW m, NEW r, Cleared(m, r)
    PROVE  Cleared(m, r)'
  <1>1. RejectsBackup(m, r)' => RejectsBackup(m, r)
    BY GivingUpIsFinal DEF RejectsBackup, Static
  <1>2. QED
    BY <1>1, GivingUpIsFinal DEF Cleared

CallInv ==
    \A t \in Threads :
        /\ hpc[t] # "idle" => pc[t] \notin Registry!RemovePC
        /\ hpc[t] \in {"check_backup", "settle", "watch", "discourage", "backup", "hook", "install"}
              => Started(ClassOf[arg[t].replacement])
        /\ hpc[t] \in {"settle", "watch", "discourage", "backup", "hook", "install"}
              => Cleared(arg[t].target, arg[t].replacement)

(* A call goes through the checks in their order.                          *)
LEMMA CallSteps ==
    ASSUME TypeInv, CallInv, [Next]_vars
    PROVE  CallInv'
  <1> SUFFICES ASSUME NEW t \in Threads, hpc'[t] # "idle"
               PROVE  /\ pc'[t] \notin Registry!RemovePC
                      /\ hpc'[t] \in {"check_backup", "settle", "watch", "discourage", "backup",
                                      "hook", "install"}
                            => Started(ClassOf[arg[t].replacement])'
                      /\ hpc'[t] \in {"settle", "watch", "discourage", "backup", "hook", "install"}
                            => Cleared(arg[t].target, arg[t].replacement)'
    BY DEF CallInv
  <1>1. shape' = shape
    BY GivingUpIsFinal
  <1>2. Comes(t)
    BY CallMoves
  <1>3. pc'[t] \notin Registry!RemovePC
    <2>1. SUFFICES ASSUME pc'[t] \in Registry!RemovePC
                   PROVE  FALSE
      OBVIOUS
    <2>2. pc[t] \in Registry!RemovePC
      BY <2>1, RemovalsStart
    <2>3. hpc[t] = "idle" /\ pc[t] # "idle"
      BY <2>2 DEF CallInv, Registry!RemovePC
    <2>4. QED
      BY <1>2, <2>3 DEF Comes, Begin, Stays, MovesOn
  <1>4. CASE hpc'[t] = "init_original"
    BY <1>3, <1>4
  <1>5. CASE hpc'[t] # "init_original"
    <2>1. /\ arg'[t].target = arg[t].target /\ arg'[t].replacement = arg[t].replacement
          /\ Stays(t) \/ MovesOn(t)
      BY <1>2, <1>5 DEF Comes, Stays, MovesOn
    <2>2. hpc[t] # "idle"
      BY <2>1 DEF Stays, MovesOn
    <2>3. ClassOf[arg[t].replacement] \in Classes
      BY <2>2, ArgsInCall DEF TypeInv
    <2>4. Started(ClassOf[arg[t].replacement]) => Started(ClassOf[arg[t].replacement])'
      <3>1. Started(ClassOf[arg[t].replacement]) =>
               classState'[ClassOf[arg[t].replacement]] \in {"initialized", "visible"}
        BY <2>3, StaysStarted DEF Started
      <3>2. QED
        BY <2>1, <3>1 DEF Started
    <2>5. (RejectsBackup(arg[t].target, arg[t].replacement) =>
              <<arg[t].target, arg[t].replacement>> \in unchecked')
             => Cleared(arg[t].target, arg[t].replacement)'
      BY <1>1, <2>1 DEF Cleared, RejectsBackup, Static
    <2>6. CASE Stays(t)
      BY <1>3, <2>4, <2>5, <2>6, GivingUpIsFinal DEF Stays, CallInv, Cleared
    <2>7. CASE MovesOn(t)
      <3>1. hpc[t] \in {"init_replacement", "check_backup", "settle", "watch", "discourage",
                        "backup", "hook", "install"} \/ hpc'[t] = "init_replacement"
        BY <2>7 DEF MovesOn
      <3>2. hpc'[t] \in {"check_backup", "settle", "watch", "discourage", "backup", "hook",
                         "install"} => Started(ClassOf[arg[t].replacement])'
        BY <2>1, <2>4, <2>7, <3>1 DEF MovesOn, CallInv
      <3>3. hpc'[t] \in {"settle", "watch", "discourage", "backup", "hook", "install"} =>
               hpc[t] \in {"check_backup", "settle", "watch", "discourage", "backup", "hook"}
        BY <2>7 DEF MovesOn
      <3>4. CASE hpc[t] = "check_backup"
        BY <1>3, <2>5, <2>7, <3>2, <3>4 DEF MovesOn
      <3>5. CASE hpc[t] \in {"settle", "watch", "discourage", "backup", "hook"}
        BY <1>3, <2>5, <3>2, <3>5, GivingUpIsFinal DEF CallInv, Cleared
      <3>6. QED
        BY <1>3, <3>2, <3>3, <3>4, <3>5
    <2>8. QED
      BY <2>1, <2>6, <2>7
  <1>6. QED
    BY <1>4, <1>5

(* What a call has checked of its arguments it may rely on, in every       *)
(* reachable state.                                                        *)
THEOREM CallInvHolds == Spec => []CallInv
  <1>1. Init => CallInv
    BY DEF Init, CallInv
  <1>2. TypeInv /\ CallInv /\ [Next]_vars => CallInv'
    BY CallSteps
  <1>3. QED
    BY <1>1, <1>2, TypeInvHolds, PTL DEF Spec

(* A trampoline that is handed out is a new one.                           *)
LEMMA FreshIsNew ==
    ASSUME CanAllocate
    PROVE  Fresh \in Trampolines /\ Fresh \notin made
  BY DEF CanAllocate, Fresh

\* The backup of replacement r goes through y to what m's slot held: e.
Captures(r, y, m, e) == entry[BackupOf[r]] = y /\ thunk[y] = Direct(m, e)

(* A wired backup whose replacement no call is wiring stays wired.         *)
LEMMA CapturesStay ==
    ASSUME TypeInv, QuietInv, [Next]_vars,
           NEW r \in Replacements, BackupOf[r] # NoBackup, Started(ClassOf[r]),
           NEW y \in made, NEW m, NEW e, Captures(r, y, m, e),
           \A t \in Threads : WireBackup(t) => BackupOf[arg[t].replacement] # BackupOf[r]
    PROVE  Captures(r, y, m, e)' /\ y \in made'
  <1>1. BackupOf[r] \in Backups /\ ClassOf[BackupOf[r]] = ClassOf[r] /\ y \in Trampolines
    BY HookAssumption DEF TypeInv, Registry!TypeOK
  <1>2. entry[BackupOf[r]] \in Trampolines
    BY <1>1 DEF Captures
  <1>3. entry'[BackupOf[r]] = entry[BackupOf[r]]
    BY <1>1, <1>2, WiredSlots
  <1>4. thunk'[y] = thunk[y] /\ y \in made'
    BY ThunksStay
  <1>5. QED
    BY <1>3, <1>4 DEF Captures

-----------------------------------------------------------------------------
(* The wiring.  Trampolines are ranked in the order they were handed out,  *)
(* and a hook is live for its target from the moment it goes in until it   *)
(* is taken down, or until the application is told that it was lost.  What *)
(* a live hook's replacement calls has a lower rank than the hook, and is  *)
(* code or, through the backup's thunk, another live hook of that target.  *)

Ordered(rank) ==
    /\ \A x \in Trampolines : rank[x] <= Cardinality(made)
    /\ \A x, e \in Trampolines : \A m \in Targets :
          thunk[x] = Direct(m, e) => e \in made /\ rank[e] < rank[x]
    /\ \A i \in 1..Len(hooks) : hooks[i].installed_entry \in made
    /\ \A t \in Threads : pc[t] \in Registry!InstallPC => frame[t].installed_entry \in made
    /\ \A i \in 1..Len(hooks) : \A j \in 1..(i - 1) :
          rank[hooks[j].installed_entry] < rank[hooks[i].installed_entry]
    /\ \A t \in Threads : \A i \in 1..Len(hooks) :
          pc[t] \in Registry!InstallPC =>
              rank[hooks[i].installed_entry] < rank[frame[t].installed_entry]

SlotsAreLive(live) ==
    /\ \A m \in Targets : entry[m] \in Trampolines => entry[m] \in live[m]
    /\ \A t \in Threads : pc[t] # "idle" => frame[t].installed_entry \in live[frame[t].target]

\* x is installed on m, or about to be.
HasRecord(m, x) ==
    \/ \E i \in 1..Len(hooks) : hooks[i].target = m /\ hooks[i].installed_entry = x
    \/ \E t \in Threads : /\ pc[t] \in Registry!InstallPC
                          /\ frame[t].target = m /\ frame[t].installed_entry = x

LiveIsRecorded(live) == \A m \in Targets : \A x \in live[m] : HasRecord(m, x)

Wired(rank, live, m, x) ==
    \E r \in Replacements :
        /\ thunk[x] = Indirect(r)
        /\ Started(ClassOf[r]) /\ Cleared(m, r)
        /\ BackupOf[r] # NoBackup =>
              \E y \in made, e \in Code \cup live[m] : Captures(r, y, m, e) /\ rank[y] < rank[x]

LiveIsWired(rank, live) == \A m \in Targets : \A x \in live[m] : Wired(rank, live, m, x)

\* A live hook that displaced another displaced a live one, and its backup
\* calls that one.
OnChain(rank, live, p) ==
    p.installed_entry \in live[p.target] /\ p.previous_entry \in Trampolines =>
        /\ p.previous_entry \in live[p.target]
        /\ rank[p.previous_entry] < rank[p.installed_entry]
        /\ \A r \in Replacements :
              thunk[p.installed_entry] = Indirect(r) /\ BackupOf[r] # NoBackup =>
                  \E y \in made : Captures(r, y, p.target, p.previous_entry)

ChainsAreLive(rank, live) ==
    /\ \A i \in 1..Len(hooks) : OnChain(rank, live, hooks[i])
    /\ \A t \in Threads : pc[t] \in Registry!InstallPC => OnChain(rank, live, frame[t])

\* Up to the wiring of its backup, no live hook is of the call's replacement.
Unshared(live, t) ==
    hpc[t] \in {"init_original", "init_replacement", "check_backup", "settle", "watch",
                "discourage", "backup"} =>
        \A n \in Targets : \A x \in live[n] : \A r \in Replacements :
            thunk[x] = Indirect(r) => ~Shares(r, arg[t].replacement)

\* From there on the backup calls what the hook is about to displace.
BackupIsWired(live, t) ==
    hpc[t] = "hook" /\ BackupOf[arg[t].replacement] # NoBackup =>
        \E y \in made, e \in Code \cup live[arg[t].target] :
            /\ Captures(arg[t].replacement, y, arg[t].target, e)
            /\ entry[arg[t].target] \in Code \cup {e}

CallsAreWired(live) == \A t \in Threads : Unshared(live, t) /\ BackupIsWired(live, t)

Wiring(rank, live) ==
    /\ Ordered(rank)
    /\ SlotsAreLive(live)
    /\ LiveIsRecorded(live)
    /\ LiveIsWired(rank, live)
    /\ ChainsAreLive(rank, live)
    /\ CallsAreWired(live)

Ranks == [Trampolines -> Nat]
Lives == [Targets -> SUBSET Trampolines]

WiringInv == \E rank \in Ranks, live \in Lives : Wiring(rank, live)

(* Live trampolines were made.                                             *)
LEMMA LiveIsMade ==
    ASSUME TypeInv, NEW rank, NEW live \in Lives, LiveIsWired(rank, live), NEW m \in Targets
    PROVE  live[m] \subseteq made
  BY ThunkKinds DEF Lives, LiveIsWired, Wired, TypeInv, ThunkTypes

(* Two thunks that do the same call the same replacement.                  *)
LEMMA IndirectOnce ==
    ASSUME NEW r, NEW s, Indirect(r) = Indirect(s)
    PROVE  r = s
  <1>1. Indirect(r).method = r /\ Indirect(s).method = s
    BY DEF Indirect
  <1>2. QED
    BY <1>1

(* A live hook stays wired through a step in which nobody wires its backup *)
(* anew and what it calls stays live.                                      *)
LEMMA WiredStays ==
    ASSUME TypeInv, QuietInv, [Next]_vars, NEW rank, NEW live, NEW rank2, NEW live2,
           NEW m \in Targets, NEW x \in made, Wired(rank, live, m, x),
           \A y \in made : rank2[y] = rank[y],
           \A t \in Threads : \A r \in Replacements :
               WireBackup(t) /\ thunk[x] = Indirect(r) =>
                   BackupOf[arg[t].replacement] # BackupOf[r],
           \A y \in made : \A e \in live[m] :
               thunk[y] = Direct(m, e) /\ rank[y] < rank[x] => e \in live2[m]
    PROVE  Wired(rank2, live2, m, x)'
  <1>1. PICK r \in Replacements :
           /\ thunk[x] = Indirect(r)
           /\ Started(ClassOf[r]) /\ Cleared(m, r)
           /\ BackupOf[r] # NoBackup =>
                 \E y \in made, e \in Code \cup live[m] : Captures(r, y, m, e) /\ rank[y] < rank[x]
    BY DEF Wired
  <1>2. thunk'[x] = thunk[x]
    BY ThunksStay
  <1>3. Started(ClassOf[r])'
    BY <1>1, StaysStarted DEF Classes
  <1>4. Cleared(m, r)'
    BY <1>1, ClearedForGood
  <1>5. ASSUME BackupOf[r] # NoBackup
        PROVE  \E y \in made', e \in Code \cup live2[m] :
                  Captures(r, y, m, e)' /\ rank2[y] < rank2[x]
    <2>1. PICK y \in made, e \in Code \cup live[m] : Captures(r, y, m, e) /\ rank[y] < rank[x]
      BY <1>1, <1>5
    <2>2. Captures(r, y, m, e)' /\ y \in made'
      BY <1>1, <1>5, <2>1, CapturesStay
    <2>3. e \in Code \cup live2[m]
      BY <2>1 DEF Captures
    <2>4. QED
      BY <2>1, <2>2, <2>3
  <1>6. QED
    BY <1>1, <1>2, <1>3, <1>4, <1>5 DEF Wired

(* In particular where more comes to be live.                              *)
LEMMA WiredGrows ==
    ASSUME TypeInv, QuietInv, [Next]_vars, NEW rank, NEW live \in Lives, LiveIsWired(rank, live),
           NEW rank2, NEW live2, NEW m \in Targets, NEW x \in live[m],
           \A y \in made : rank2[y] = rank[y], live[m] \subseteq live2[m],
           \A t \in Threads : ~WireBackup(t)
    PROVE  Wired(rank2, live2, m, x)'
  <1>1. x \in made /\ Wired(rank, live, m, x)
    BY LiveIsMade DEF LiveIsWired
  <1>2. QED
    BY <1>1, WiredStays

(* And it stays on its chain.                                              *)
LEMMA ChainStays ==
    ASSUME TypeInv, QuietInv, [Next]_vars, NEW rank, NEW live \in Lives, LiveIsWired(rank, live),
           NEW rank2, NEW live2 \in Lives,
           NEW p, p.target \in Targets, p.installed_entry \in made, OnChain(rank, live, p),
           \A y \in made : rank2[y] = rank[y],
           \A t \in Threads : \A r \in Replacements :
               WireBackup(t) /\ thunk[p.installed_entry] = Indirect(r)
                   /\ p.installed_entry \in live[p.target] =>
                       BackupOf[arg[t].replacement] # BackupOf[r],
           p.installed_entry \in live2[p.target] => p.installed_entry \in live[p.target],
           p.installed_entry \in live2[p.target] /\ p.previous_entry \in live[p.target]
               /\ rank[p.previous_entry] < rank[p.installed_entry]
                   => p.previous_entry \in live2[p.target]
    PROVE  OnChain(rank2, live2, p)'
  <1> SUFFICES ASSUME p.installed_entry \in live2[p.target], p.previous_entry \in Trampolines
               PROVE  /\ p.previous_entry \in live2[p.target]
                      /\ rank2[p.previous_entry] < rank2[p.installed_entry]
                      /\ \A r \in Replacements :
                            thunk'[p.installed_entry] = Indirect(r) /\ BackupOf[r] # NoBackup =>
                                \E y \in made' : Captures(r, y, p.target, p.previous_entry)'
    BY DEF OnChain
  <1>1. /\ p.previous_entry \in live[p.target]
        /\ rank[p.previous_entry] < rank[p.installed_entry]
        /\ \A r \in Replacements :
              thunk[p.installed_entry] = Indirect(r) /\ BackupOf[r] # NoBackup =>
                  \E y \in made : Captures(r, y, p.target, p.previous_entry)
    BY DEF OnChain
  <1>2. p.previous_entry \in made
    BY <1>1, LiveIsMade
  <1>3. ASSUME NEW r \in Replacements, thunk'[p.installed_entry] = Indirect(r),
               BackupOf[r] # NoBackup
        PROVE  \E y \in made' : Captures(r, y, p.target, p.previous_entry)'
    <2>1. thunk[p.installed_entry] = Indirect(r)
      BY <1>3, ThunksStay
    <2>2. PICK y \in made : Captures(r, y, p.target, p.previous_entry)
      BY <1>1, <1>3, <2>1
    <2>3. Started(ClassOf[r])
      BY <2>1, IndirectOnce DEF LiveIsWired, Wired
    <2>4. Captures(r, y, p.target, p.previous_entry)' /\ y \in made'
      BY <1>3, <2>1, <2>2, <2>3, CapturesStay
    <2>5. QED
      BY <2>4
  <1>4. QED
    BY <1>1, <1>2, <1>3

-----------------------------------------------------------------------------
(* Calls of several threads.                                               *)

\* The calls of the other threads stay where they are.
OthersRest(t) ==
    \A u \in Threads : u # t => /\ hpc'[u] = hpc[u] /\ arg'[u] = arg[u]
                               /\ pc'[u] = pc[u] /\ frame'[u] = frame[u]

(* A thread moves no call but its own.                                     *)
LEMMA CallsRest ==
    ASSUME TypeInv, NEW t \in Threads, Call(t) \/ Proceed(t)
    PROVE  OthersRest(t)
  <1>0. /\ hpc \in [Threads -> HookPC] /\ arg \in [Threads -> Args \cup {NoRecord}]
        /\ pc \in [Threads -> {"idle"} \cup Registry!InstallPC \cup Registry!RemovePC]
        /\ frame \in [Threads -> Records \cup {NoRecord}]
    BY RegistryShape DEF TypeInv, CallTypes
  <1>1. ASSUME NEW u \in Threads, u # t
        PROVE  hpc'[u] = hpc[u] /\ arg'[u] = arg[u]
    <2>1. ASSUME NEW next, Goto(t, next)
          PROVE  hpc'[u] = hpc[u] /\ arg'[u] = arg[u]
      BY <1>0, <1>1, <2>1 DEF Goto
    <2>2. CASE Fail(t)
      BY <1>0, <1>1, <2>2 DEF Fail
    <2>3. CASE Proceeds(t)
      BY <1>0, <1>1, <2>3 DEF Proceeds
    <2>4. CASE SpendNudge(t)
      BY <1>0, <1>1, <2>4 DEF SpendNudge
    <2>5. CASE UNCHANGED <<hpc, arg>>
      BY <2>5
    <2>6. CASE Watch(t)
      BY <1>0, <1>1, <2>6 DEF Watch
    <2>7. CASE Call(t)
      BY <1>0, <1>1, <2>5, <2>7 DEF Call, Begin, Unhook
    <2>8. CASE Proceed(t)
      BY <2>1, <2>2, <2>3, <2>4, <2>5, <2>6, <2>8
         DEF Proceed, GoesOn, InitOriginal, InitReplacement, EnsureInitialized, CheckBackup,
             SkipCheck, Settled, Nudge, Refused, WatchNudge, WatchMoved, WatchGivesUp, Discourage,
             WireBackup, NoBackupAsked, MakeTrampoline, CallFails, Install, UnhookProceeds
    <2>9. QED
      BY <2>7, <2>8
  <1>2. ASSUME NEW u \in Threads, u # t
        PROVE  pc'[u] = pc[u] /\ frame'[u] = frame[u]
    <2>1. CASE UNCHANGED <<pc, frame>>
      BY <2>1
    <2>2. CASE Call(t)
      BY <1>0, <1>2, <2>1, <2>2
         DEF Call, Begin, Unhook, registryVars, Registry!RemoveStale, Registry!RemoveCheck,
             Registry!Enter
    <2>3. CASE MakeTrampoline(t)
      BY <1>0, <1>2, <2>3 DEF MakeTrampoline, Registry!InstallRead, Registry!Enter
    <2>4. CASE Install(t)
      BY <1>0, <1>2, <2>4 DEF Install, Registry!InstallStore, Registry!InstallVerify,
                              Registry!Goto, Registry!Return
    <2>5. CASE UnhookProceeds(t)
      BY <1>0, <1>2, <2>5 DEF UnhookProceeds, Registry!RemoveStore, Registry!RemoveVerify,
                              Registry!Goto, Registry!Return
    <2>6. CASE Proceed(t) /\ ~MakeTrampoline(t) /\ ~Install(t) /\ ~UnhookProceeds(t)
      BY <2>1, <2>6
         DEF Proceed, GoesOn, InitOriginal, InitReplacement, EnsureInitialized, Initialize,
             ArtSets, CheckBackup, SkipCheck, Settled, Nudge, SpendNudge, Refused, Watch,
             WatchNudge, WatchMoved, WatchGivesUp, Discourage, WireBackup, NoBackupAsked,
             CallFails, registryVars
    <2>7. QED
      BY <2>2, <2>3, <2>4, <2>5, <2>6
  <1>3. QED
    BY <1>1, <1>2 DEF OthersRest

(* A call comes into the registry by install_hook() or remove_hook(), and  *)
(* keeps its record until it leaves.                                       *)
LEMMA FramesMove ==
    ASSUME TypeInv, [Next]_vars, NEW u \in Threads, pc'[u] # "idle"
    PROVE  \/ /\ pc[u] # "idle" /\ frame'[u] = frame[u]
              /\ pc'[u] \in Registry!InstallPC => pc[u] \in Registry!InstallPC
           \/ MakeTrampoline(u)
           \/ /\ pc'[u] \in Registry!RemovePC
              /\ \E m \in Targets : Unhook(u, m) /\ frame'[u].target = m
  <1> USE RegistryShape
  <1>1. CASE UNCHANGED <<pc, frame>>
    BY <1>1
  <1>2. ASSUME NEW t \in Threads, t # u, OthersRest(t)
        PROVE  pc'[u] = pc[u] /\ frame'[u] = frame[u]
    BY <1>2 DEF OthersRest
  <1>3. CASE Art
    BY <1>1, <1>3 DEF Art, AppInitializes, Initialize, MakeVisible, JitStart, JitLand, Deoptimize,
                      ArtSets, registryVars
  <1>4. CASE Call(u)
    <2>1. ASSUME NEW m \in Targets, Registry!RemoveCheck(u, m)
          PROVE  frame'[u].target = m /\ pc'[u] \in Registry!RemovePC
      BY <2>1 DEF Registry!RemoveCheck, Registry!Enter, Registry!IsTop, Registry!RemovePC
    <2>2. QED
      BY <1>1, <1>4, <2>1 DEF Call, Begin, Unhook, registryVars, Registry!RemoveStale
  <1>5. CASE Proceed(u)
    <2>1. CASE Install(u) \/ UnhookProceeds(u)
      BY <2>1 DEF Install, UnhookProceeds, Registry!InstallStore, Registry!InstallVerify,
                  Registry!RemoveStore, Registry!RemoveVerify, Registry!Goto, Registry!Return,
                  Registry!InstallPC
    <2>2. CASE ~(Install(u) \/ UnhookProceeds(u)) /\ ~MakeTrampoline(u)
      BY <1>1, <1>5, <2>2
         DEF Proceed, GoesOn, InitOriginal, InitReplacement, EnsureInitialized, Initialize,
             ArtSets, CheckBackup, SkipCheck, Settled, Nudge, SpendNudge, Refused, Watch,
             WatchNudge, WatchMoved, WatchGivesUp, Discourage, WireBackup, NoBackupAsked,
             CallFails, registryVars
    <2>3. QED
      BY <2>1, <2>2
  <1>6. ASSUME NEW t \in Threads, Call(t) \/ Proceed(t)
        PROVE  t = u \/ UNCHANGED <<pc[u], frame[u]>>
    BY <1>2, <1>6, CallsRest
  <1>7. CASE UNCHANGED vars
    BY <1>1, <1>7 DEF vars, registryVars
  <1>8. CASE \E t \in Threads : Call(t) \/ Proceed(t)
    BY <1>4, <1>5, <1>6, <1>8, ZenonT(60)
  <1>9. QED
    BY <1>3, <1>7, <1>8 DEF Next

\* Calls in progress share no replacement and no backup.
HeldOnce ==
    \A t, u \in Threads :
        hpc[t] # "idle" /\ hpc[u] # "idle" /\ t # u =>
            ~Shares(arg[t].replacement, arg[u].replacement)

\* What install_hook() installs goes to the replacement hook_function() was given.
FramesNamed ==
    \A t \in Threads :
        pc[t] \in Registry!InstallPC =>
            thunk[frame[t].installed_entry] = Indirect(arg[t].replacement)

HeldInv == HeldOnce /\ FramesNamed

(* A call that was in progress already keeps its replacement.              *)
LEMMA ReplacementsStay ==
    ASSUME TypeInv, [Next]_vars, NEW u \in Threads, hpc'[u] # "idle"
    PROVE  \/ hpc[u] # "idle" /\ arg'[u].replacement = arg[u].replacement
           \/ \E m \in Targets, r \in Replacements : Begin(u, m, r)
  BY CallMoves DEF Comes, Stays, MovesOn

(* Every step keeps what calls hold apart.                                 *)
LEMMA HeldSteps ==
    ASSUME TypeInv, TypeInv', HeldInv, [Next]_vars
    PROVE  HeldInv'
  <1>1. ASSUME NEW t \in Threads, NEW u \in Threads, hpc'[t] # "idle", hpc'[u] # "idle", t # u
        PROVE  ~Shares(arg'[t].replacement, arg'[u].replacement)
    <2>1. ASSUME NEW v \in Threads, NEW w \in Threads, v # w, hpc'[w] # "idle",
                 NEW m \in Targets, NEW r \in Replacements, Begin(v, m, r)
          PROVE  /\ ~Shares(arg'[v].replacement, arg'[w].replacement)
                 /\ ~Shares(arg'[w].replacement, arg'[v].replacement)
      <3>1. arg'[v].replacement = r
        BY <2>1 DEF Begin, TypeInv, CallTypes
      <3>2. hpc'[w] = hpc[w] /\ arg'[w] = arg[w]
        BY <2>1 DEF Begin, TypeInv, CallTypes
      <3>3. ~Shares(arg[w].replacement, r)
        BY <2>1, <3>2 DEF Begin, InUse
      <3>4. QED
        BY <3>1, <3>2, <3>3 DEF Shares
    <2>2. CASE \E m \in Targets, r \in Replacements : Begin(t, m, r)
      BY <1>1, <2>1, <2>2
    <2>3. CASE \E m \in Targets, r \in Replacements : Begin(u, m, r)
      BY <1>1, <2>1, <2>3
    <2>4. CASE /\ hpc[t] # "idle" /\ arg'[t].replacement = arg[t].replacement
               /\ hpc[u] # "idle" /\ arg'[u].replacement = arg[u].replacement
      BY <1>1, <2>4 DEF HeldInv, HeldOnce
    <2>5. QED
      BY <1>1, <2>2, <2>3, <2>4, ReplacementsStay
  <1>2. ASSUME NEW t \in Threads, pc'[t] \in Registry!InstallPC
        PROVE  thunk'[frame'[t].installed_entry] = Indirect(arg'[t].replacement)
    <2>0. pc'[t] # "idle" /\ pc'[t] \notin Registry!RemovePC
      BY <1>2 DEF Registry!InstallPC, Registry!RemovePC
    <2>1. CASE MakeTrampoline(t)
      <3>1. /\ thunk' = [thunk EXCEPT ![Fresh] = Indirect(arg[t].replacement)]
            /\ frame' = [frame EXCEPT ![t] = [target |-> arg[t].target,
                                              previous_entry |-> entry[arg[t].target],
                                              installed_entry |-> Fresh]]
            /\ arg' = arg /\ Fresh \in Trampolines
        BY <2>1, FreshIsNew DEF MakeTrampoline, Registry!InstallRead, Registry!Enter, Goto
      <3>2. PICK f : f = Fresh
        OBVIOUS
      <3>3. frame'[t].installed_entry = f
        BY <3>1, <3>2, RegistryShape
      <3>4. thunk'[f] = Indirect(arg[t].replacement)
        BY <3>1, <3>2 DEF TypeInv, ThunkTypes
      <3>5. QED
        BY <3>1, <3>3, <3>4
    <2>2. CASE pc[t] # "idle" /\ frame'[t] = frame[t] /\ pc[t] \in Registry!InstallPC
      <3>1. PICK x, r : x = frame[t].installed_entry /\ r = arg[t].replacement
        OBVIOUS
      <3>2. thunk[x] = Indirect(r) /\ x \in Trampolines
        BY <2>2, <3>1, RegistryShape DEF HeldInv, FramesNamed
      <3>3. x \in made
        BY <3>2, ThunkKinds DEF TypeInv, ThunkTypes
      <3>4. thunk'[x] = thunk[x]
        BY <3>3, ThunksStay
      <3>5. hpc[t] = "install" /\ hpc[t] # "idle"
        BY <2>2 DEF TypeInv, CallTypes
      <3>6. arg'[t].replacement = r
        <4>1. hpc'[t] # "idle"
          BY <1>2 DEF TypeInv, CallTypes
        <4>2. QED
          BY <3>1, <3>5, <4>1, ReplacementsStay DEF Begin
      <3>7. QED
        BY <2>2, <3>1, <3>2, <3>4, <3>6
    <2>3. QED
      BY <1>2, <2>0, <2>1, <2>2, FramesMove
  <1>3. QED
    BY <1>1, <1>2 DEF HeldInv, HeldOnce, FramesNamed

(* In every reachable state, whether calls overlap or not, no two calls in *)
(* progress share a replacement or a backup, and a call installs a         *)
(* trampoline to the replacement it was given (arthooks.cpp:145).          *)
THEOREM HeldInvHolds == Spec => []HeldInv
  <1>1. Init => HeldInv
    BY DEF Init, HeldInv, HeldOnce, FramesNamed, Registry!InstallPC
  <1>2. TypeInv /\ TypeInv' /\ HeldInv /\ [Next]_vars => HeldInv'
    BY HeldSteps
  <1>3. QED
    BY <1>1, <1>2, TypeInvHolds, PTL DEF Spec

\* One call at a time works on a target.
CallsApart == \A t, u \in Threads : \A m \in Targets : Works(t, m) /\ Works(u, m) => t = u

(* Where nobody begins on a target that is worked on, calls stay apart.    *)
LEMMA ApartSteps ==
    ASSUME TypeInv, QuietInv, CallsApart, [Next]_vars, [Apart]_vars
    PROVE  CallsApart'
  <1>1. ASSUME NEW t \in Threads, NEW m \in Targets, Works(t, m)'
        PROVE  \/ Works(t, m)
               \/ Unhook(t, m) \/ \E r \in Replacements : Begin(t, m, r)
    <2>1. CASE hpc'[t] # "idle" /\ arg'[t].target = m
      <3>1. CASE \E n \in Targets, r \in Replacements : Begin(t, n, r)
        <4>1. PICK n \in Targets, r \in Replacements : Begin(t, n, r)
          BY <3>1
        <4>2. arg'[t].target = n
          BY <4>1 DEF Begin, TypeInv, CallTypes
        <4>3. QED
          BY <2>1, <4>1, <4>2
      <3>2. CASE hpc[t] # "idle" /\ arg'[t].target = arg[t].target
        BY <2>1, <3>2 DEF Works
      <3>3. QED
        BY <2>1, <3>1, <3>2, CallMoves DEF Comes, Stays, MovesOn
    <2>2. CASE pc'[t] # "idle" /\ frame'[t].target = m
      <3>1. CASE pc[t] # "idle" /\ frame'[t] = frame[t]
        BY <2>2, <3>1 DEF Works
      <3>2. CASE MakeTrampoline(t)
        <4>1. frame'[t].target = arg[t].target /\ hpc[t] # "idle"
          BY <3>2, RegistryShape DEF MakeTrampoline, Registry!InstallRead, Registry!Enter
        <4>2. QED
          BY <2>2, <4>1 DEF Works
      <3>3. CASE \E n \in Targets : Unhook(t, n) /\ frame'[t].target = n
        BY <2>2, <3>3
      <3>4. QED
        BY <2>2, <3>1, <3>2, <3>3, FramesMove
    <2>3. QED
      BY <1>1, <2>1, <2>2 DEF Works
  <1>2. ASSUME NEW t \in Threads, NEW u \in Threads, t # u, NEW m \in Targets, Apart,
               Unhook(t, m) \/ \E r \in Replacements : Begin(t, m, r)
        PROVE  ~Works(u, m)'
    <2>1. ~Works(u, m)
      BY <1>2 DEF Apart
    <2>2. OthersRest(t)
      BY <1>2, CallsRest DEF Call
    <2>3. QED
      BY <1>2, <2>1, <2>2 DEF OthersRest, Works
  <1>3. ASSUME NEW t \in Threads, NEW u \in Threads, NEW m \in Targets, Works(t, m)', Works(u, m)'
        PROVE  t = u
    <2>1. CASE Works(t, m) /\ Works(u, m)
      BY <2>1 DEF CallsApart
    <2>2. CASE UNCHANGED vars
      BY <1>3, <2>2 DEF CallsApart, Works, vars, registryVars
    <2>3. CASE Apart
      BY <1>1, <1>2, <1>3, <2>1, <2>3
    <2>4. QED
      BY <2>2, <2>3
  <1>4. QED
    BY <1>3 DEF CallsApart

(* What is recorded is of targets, and was made.                           *)
LEMMA RecordsAreMade ==
    ASSUME TypeInv, QuietInv, NEW rank, Ordered(rank)
    PROVE  /\ \A i \in 1..Len(hooks) : /\ hooks[i].target \in Targets
                                       /\ hooks[i].installed_entry \in made
           /\ \A t \in Threads : pc[t] # "idle" => frame[t].target \in Targets
           /\ \A t \in Threads : pc[t] \in Registry!InstallPC => frame[t].installed_entry \in made
  BY DEF QuietInv, Quieted, Ordered

(* ART, and the parts of a call that make no trampoline.                   *)
LEMMA WiringOutside ==
    ASSUME TypeInv, QuietInv, CallInv, [Next]_vars, NoStore,
           UNCHANGED <<hooks, pc, frame, made, thunk>>,
           \A t \in Threads : hpc'[t] = "idle" \/ Stays(t) \/ MovesOn(t),
           \A t \in Threads : hpc'[t] = "hook" /\ hpc[t] # "hook"
                                  => BackupOf[arg[t].replacement] = NoBackup,
           \A t \in Threads : ~WireBackup(t),
           NEW rank \in Ranks, NEW live \in Lives, Wiring(rank, live)
    PROVE  Wiring(rank, live)'
  <1>1. /\ Ordered(rank) /\ SlotsAreLive(live) /\ LiveIsRecorded(live) /\ LiveIsWired(rank, live)
        /\ ChainsAreLive(rank, live) /\ CallsAreWired(live)
    BY DEF Wiring
  <1>2. Ordered(rank)'
    BY <1>1 DEF Ordered
  <1>3. SlotsAreLive(live)'
    <2>1. ASSUME NEW m \in Targets, entry'[m] \in Trampolines
          PROVE  entry'[m] \in live[m]
      BY HookAssumption, <1>1, <2>1, TargetSlots DEF SlotsAreLive
    <2>2. QED
      BY <1>1, <2>1 DEF SlotsAreLive
  <1>4. LiveIsRecorded(live)'
    BY <1>1 DEF LiveIsRecorded, HasRecord
  <1>5. LiveIsWired(rank, live)'
    <2>1. ASSUME NEW m \in Targets, NEW x \in live[m]
          PROVE  Wired(rank, live, m, x)'
      <3>1. x \in made /\ Wired(rank, live, m, x)
        BY <1>1, LiveIsMade DEF LiveIsWired
      <3>2. QED
        BY <3>1, WiredStays
    <2>2. QED
      BY <2>1 DEF LiveIsWired
  <1>6. ChainsAreLive(rank, live)'
    <2>1. ASSUME NEW p, p.target \in Targets, p.installed_entry \in made, OnChain(rank, live, p)
          PROVE  OnChain(rank, live, p)'
      BY <1>1, <2>1, ChainStays
    <2>2. ASSUME NEW i \in 1..Len(hooks)
          PROVE  OnChain(rank, live, hooks[i])'
      <3>1. PICK p : p = hooks[i]
        OBVIOUS
      <3>2. OnChain(rank, live, p)'
        BY <1>1, <2>1, <3>1, RecordsAreMade DEF ChainsAreLive
      <3>3. QED
        BY <3>1, <3>2 DEF OnChain, Captures
    <2>3. ASSUME NEW t \in Threads, pc[t] \in Registry!InstallPC
          PROVE  OnChain(rank, live, frame[t])'
      <3>1. PICK p : p = frame[t]
        OBVIOUS
      <3>2. OnChain(rank, live, p)'
        BY <1>1, <2>1, <2>3, <3>1, RecordsAreMade DEF ChainsAreLive, Registry!InstallPC
      <3>3. QED
        BY <3>1, <3>2 DEF OnChain, Captures
    <2>4. QED
      BY <2>2, <2>3 DEF ChainsAreLive
  <1>7. ASSUME NEW t \in Threads
        PROVE  Unshared(live, t)'
    <2>1. CASE hpc'[t] = hpc[t] \/ MovesOn(t)
      BY <1>1, <2>1 DEF CallsAreWired, Unshared, Stays, MovesOn
    <2>2. CASE hpc'[t] = "idle"
      BY <2>2 DEF Unshared
    <2>3. QED
      BY <2>1, <2>2 DEF Stays
  <1>8. ASSUME NEW t \in Threads
        PROVE  BackupIsWired(live, t)'
    <2> SUFFICES ASSUME hpc'[t] = "hook", BackupOf[arg'[t].replacement] # NoBackup
                 PROVE  \E y \in made', e \in Code \cup live[arg'[t].target] :
                            /\ Captures(arg[t].replacement, y, arg[t].target, e)'
                            /\ entry'[arg'[t].target] \in Code \cup {e}
      BY DEF BackupIsWired
    <2> DEFINE r == arg[t].replacement
               m == arg[t].target
    <2>1. hpc[t] = "hook" /\ arg'[t].replacement = r /\ arg'[t].target = m
      BY DEF Stays, MovesOn
    <2>2. r \in Replacements /\ m \in Targets /\ Started(ClassOf[r])
      BY <2>1, ArgsInCall DEF TypeInv, CallInv
    <2>3. PICK y \in made, e \in Code \cup live[m] :
                  Captures(r, y, m, e) /\ entry[m] \in Code \cup {e}
      BY <1>1, <2>1 DEF CallsAreWired, BackupIsWired
    <2> HIDE DEF r, m
    <2>4. PICK r2, m2 : r2 = r /\ m2 = m
      OBVIOUS
    <2>5. Captures(r2, y, m2, e)' /\ y \in made'
      BY <2>1, <2>2, <2>3, <2>4, CapturesStay
    <2>6. entry'[m] \in Code \cup {e}
      BY <2>2, <2>3, TargetSlots
    <2>7. QED
      BY <2>1, <2>3, <2>4, <2>5, <2>6 DEF Captures
  <1>9. QED
    BY <1>2, <1>3, <1>4, <1>5, <1>6, <1>7, <1>8 DEF Wiring, CallsAreWired

(* Records are on their chains if what they are equal to is.               *)
LEMMA ChainsNext ==
    ASSUME NEW rank, NEW live,
           \A i \in 1..Len(hooks') : \E p : p = hooks'[i] /\ OnChain(rank, live, p)',
           \A t \in Threads : pc'[t] \in Registry!InstallPC =>
               \E p : p = frame'[t] /\ OnChain(rank, live, p)'
    PROVE  ChainsAreLive(rank, live)'
  <1>1. ASSUME NEW i \in 1..Len(hooks')
        PROVE  OnChain(rank, live, hooks[i])'
    BY DEF OnChain, Captures
  <1>2. ASSUME NEW t \in Threads, pc'[t] \in Registry!InstallPC
        PROVE  OnChain(rank, live, frame[t])'
    BY <1>2 DEF OnChain, Captures
  <1>3. QED
    BY <1>1, <1>2 DEF ChainsAreLive

(* A new call takes a replacement no live hook is of: the hooks of targets *)
(* that is_hooked() says are lost count as live no longer.                 *)
LEMMA WiringBegin ==
    ASSUME TypeInv, QuietInv, RecordInv, HeldInv, [Next]_vars,
           NEW t \in Threads, NEW m \in Targets, NEW r \in Replacements, Begin(t, m, r),
           NEW rank \in Ranks, NEW live \in Lives, Wiring(rank, live),
           NEW live2 \in Lives,
           \A n \in Targets : live2[n] = IF \/ Registry!HookIsInstalled(n)
                                           \/ \E u \in Threads : Works(u, n)
                                        THEN live[n] ELSE {}
    PROVE  Wiring(rank, live2)'
  <1>1. /\ Ordered(rank) /\ SlotsAreLive(live) /\ LiveIsRecorded(live) /\ LiveIsWired(rank, live)
        /\ ChainsAreLive(rank, live) /\ CallsAreWired(live)
    BY DEF Wiring
  <1>2. /\ UNCHANGED <<entry, hooks, pc, frame, made, thunk>>
        /\ hpc'[t] = "init_original" /\ arg'[t].replacement = r
        /\ \A u \in Threads : u # t => hpc'[u] = hpc[u] /\ arg'[u] = arg[u]
        /\ ~InUse(r)
    BY DEF Begin, registryVars, TypeInv, CallTypes
  <1>3. Ordered(rank)'
    BY <1>1, <1>2 DEF Ordered
  <1>4. SlotsAreLive(live2)'
    <2>1. ASSUME NEW n \in Targets, entry[n] \in Trampolines
          PROVE  entry[n] \in live2[n]
      <3>1. Registry!HookIsInstalled(n) \/ \E u \in Threads : Works(u, n)
        BY <2>1 DEF RecordInv, SlotsAreRecorded, StoredBy, Works
      <3>2. QED
        BY <1>1, <2>1, <3>1 DEF SlotsAreLive
    <2>2. ASSUME NEW u \in Threads, pc[u] # "idle"
          PROVE  frame[u].installed_entry \in live2[frame[u].target]
      <3>1. frame[u].target \in Targets /\ Works(u, frame[u].target)
        BY <2>2 DEF QuietInv, Quieted, Works
      <3>2. QED
        BY <1>1, <2>2, <3>1 DEF SlotsAreLive
    <2>3. QED
      BY <1>2, <2>1, <2>2 DEF SlotsAreLive
  <1>5. LiveIsRecorded(live2)'
    BY <1>1, <1>2 DEF LiveIsRecorded, HasRecord
  <1>6. \A n \in Targets : \A x \in live2[n] : live2[n] = live[n]
    OBVIOUS
  <1>7. \A u \in Threads : ~WireBackup(u)
    BY DEF Begin, WireBackup, Goto, TypeInv, CallTypes
  <1>8. LiveIsWired(rank, live2)'
    <2>1. ASSUME NEW n \in Targets, NEW x \in live2[n]
          PROVE  Wired(rank, live2, n, x)'
      <3>1. x \in made /\ Wired(rank, live, n, x) /\ live2[n] = live[n]
        BY <1>1, <1>6, LiveIsMade DEF LiveIsWired
      <3>2. QED
        BY <1>7, <3>1, WiredStays
    <2>2. QED
      BY <2>1 DEF LiveIsWired
  <1>9. ChainsAreLive(rank, live2)'
    <2>1. ASSUME NEW p, p.target \in Targets, p.installed_entry \in made, OnChain(rank, live, p)
          PROVE  OnChain(rank, live2, p)'
      BY <1>1, <1>6, <1>7, <2>1, ChainStays
    <2>2. \A i \in 1..Len(hooks') : \E p : p = hooks'[i] /\ OnChain(rank, live2, p)'
      <3>1. ASSUME NEW i \in 1..Len(hooks), NEW p, p = hooks[i]
            PROVE  OnChain(rank, live2, p)'
        BY <1>1, <2>1, <3>1, RecordsAreMade DEF ChainsAreLive, OnChain, Captures
      <3>2. QED
        BY <1>2, <3>1
    <2>3. ASSUME NEW u \in Threads, pc[u] \in Registry!InstallPC, NEW p, p = frame[u]
          PROVE  OnChain(rank, live2, p)'
      <3>1. pc[u] # "idle"
        BY <2>3 DEF Registry!InstallPC
      <3>2. QED
        BY <1>1, <2>1, <2>3, <3>1, RecordsAreMade DEF ChainsAreLive, OnChain, Captures
    <2>4. QED
      BY <1>2, <2>2, <2>3, ChainsNext
  <1>10. ASSUME NEW n \in Targets, NEW x \in live2[n], NEW s \in Replacements,
                thunk[x] = Indirect(s)
         PROVE  ~Shares(s, r)
    <2>1. /\ Registry!HookIsInstalled(n) \/ \E u \in Threads : Works(u, n)
          /\ x \in live[n] /\ HasRecord(n, x)
      BY <1>1, <1>6, <1>10 DEF LiveIsRecorded
    <2>2. CASE \E i \in 1..Len(hooks) : hooks[i].target = n /\ hooks[i].installed_entry = x
      <3>1. PICK i \in 1..Len(hooks) : hooks[i].target = n /\ hooks[i].installed_entry = x
        BY <2>2
      <3>2. NamedBy(i) = s
        BY <1>10, <3>1 DEF NamedBy, Indirect
      <3>3. i \in DOMAIN hooks
        BY RegistryShape
      <3>4. QED
        BY <1>2, <2>1, <3>1, <3>2, <3>3 DEF InUse
    <2>3. CASE \E u \in Threads : pc[u] \in Registry!InstallPC /\ frame[u].installed_entry = x
      <3>1. PICK u \in Threads : pc[u] \in Registry!InstallPC /\ frame[u].installed_entry = x
        BY <2>3
      <3>2. arg[u].replacement = s
        BY <1>10, <3>1, IndirectOnce DEF HeldInv, FramesNamed
      <3>3. hpc[u] # "idle"
        BY <3>1 DEF TypeInv, CallTypes
      <3>4. QED
        BY <1>2, <3>2, <3>3 DEF InUse
    <2>4. QED
      BY <2>1, <2>2, <2>3 DEF HasRecord
  <1>11. ASSUME NEW u \in Threads
         PROVE  Unshared(live2, u)' /\ BackupIsWired(live2, u)'
    <2>1. CASE u = t
      BY <1>2, <1>10, <2>1 DEF Unshared, BackupIsWired
    <2>2. CASE u # t
      <3>1. hpc'[u] = hpc[u] /\ arg'[u] = arg[u]
        BY <1>2, <2>2
      <3>2. Unshared(live2, u)'
        <4>1. \A n \in Targets : live2[n] \subseteq live[n]
          OBVIOUS
        <4>2. QED
          BY <1>1, <1>2, <3>1, <4>1 DEF CallsAreWired, Unshared
      <3>3. hpc[u] # "idle" => live2[arg[u].target] = live[arg[u].target]
        BY ArgsInCall DEF TypeInv, Works
      <3>4. BackupIsWired(live2, u)'
        BY <1>1, <1>2, <3>1, <3>3 DEF CallsAreWired, BackupIsWired, Captures
      <3>5. QED
        BY <3>2, <3>4
    <2>3. QED
      BY <2>1, <2>2
  <1>12. QED
    BY <1>3, <1>4, <1>5, <1>8, <1>9, <1>11 DEF Wiring, CallsAreWired

(* Ranks grow with what was made, and a rank is given once.                *)
LEMMA OrderedMakes ==
    ASSUME TypeInv, CanAllocate, NEW rank \in Ranks, Ordered(rank), NEW k \in Thunks,
           made' = made \cup {Fresh}, thunk' = [thunk EXCEPT ![Fresh] = k], hooks' = hooks,
           \A m \in Targets : \A e \in Trampolines : k = Direct(m, e) => e \in made,
           \A t \in Threads : pc'[t] \in Registry!InstallPC =>
               \/ frame'[t].installed_entry = Fresh
               \/ pc[t] \in Registry!InstallPC /\ frame'[t] = frame[t],
           NEW rank2 \in Ranks,
           rank2 = [rank EXCEPT ![Fresh] = Cardinality(made')]
    PROVE  Ordered(rank2)' /\ \A x \in made : rank2[x] = rank[x] /\ rank2[x] < rank2[Fresh]
  <1>1. /\ made \subseteq Trampolines /\ Fresh \in Trampolines /\ Fresh \notin made
        /\ thunk \in [Trampolines -> Thunks]
    BY FreshIsNew DEF TypeInv, ThunkTypes, Registry!TypeOK
  <1>2. PICK f : f = Fresh
    OBVIOUS
  <1>3. Cardinality(made) \in Nat /\ Cardinality(made') = Cardinality(made) + 1
    BY HookAssumption, <1>1, FS_Subset, FS_CardinalityType, FS_AddElement
  <1>4. \A x \in Trampolines : rank[x] \in Nat /\ rank[x] <= Cardinality(made)
    BY DEF Ordered, Ranks
  <1>5. \A x \in Trampolines : rank2[x] = IF x = f THEN Cardinality(made) + 1 ELSE rank[x]
    BY <1>1, <1>2, <1>3 DEF Ranks
  <1>6. \A x \in Trampolines : thunk'[x] = IF x = f THEN k ELSE thunk[x]
    BY <1>1, <1>2
  <1>7. f \in Trampolines /\ f \notin made /\ made' = made \cup {f}
    BY <1>1, <1>2
  <1>8. \A x \in made : rank2[x] = rank[x] /\ rank2[x] < rank2[f]
    BY <1>1, <1>3, <1>4, <1>5, <1>7
  <1>9. ASSUME NEW x \in Trampolines, NEW e \in Trampolines, NEW m \in Targets,
               thunk'[x] = Direct(m, e)
        PROVE  e \in made' /\ rank2[e] < rank2[x]
    <2>1. CASE x = f
      BY <1>6, <1>7, <1>8, <1>9, <2>1
    <2>2. CASE x # f
      <3>1. e \in made /\ rank[e] < rank[x]
        BY <1>6, <1>9, <2>2 DEF Ordered
      <3>2. QED
        BY <1>5, <1>7, <1>8, <2>2, <3>1
    <2>3. QED
      BY <2>1, <2>2
  <1>10. \A x \in Trampolines : rank2[x] <= Cardinality(made')
    BY <1>3, <1>4, <1>5
  <1>11. /\ \A i \in 1..Len(hooks) : hooks[i].installed_entry \in made
         /\ \A i \in 1..Len(hooks) : \A j \in 1..(i - 1) :
               rank[hooks[j].installed_entry] < rank[hooks[i].installed_entry]
    BY DEF Ordered
  <1>12. \A i \in 1..Len(hooks) : \A j \in 1..(i - 1) :
            rank2[hooks[j].installed_entry] < rank2[hooks[i].installed_entry]
    <2>1. ASSUME NEW i \in 1..Len(hooks), NEW j \in 1..(i - 1)
          PROVE  rank2[hooks[j].installed_entry] < rank2[hooks[i].installed_entry]
      <3>1. j \in 1..Len(hooks)
        BY RegistryShape
      <3>2. QED
        BY <1>8, <1>11, <3>1
    <2>2. QED
      BY <2>1
  <1>13. ASSUME NEW t \in Threads, pc'[t] \in Registry!InstallPC
         PROVE  /\ frame'[t].installed_entry \in made'
                /\ \A i \in 1..Len(hooks) :
                      rank2[hooks[i].installed_entry] < rank2[frame'[t].installed_entry]
    <2>1. CASE frame'[t].installed_entry = f
      BY <1>7, <1>8, <1>11, <2>1
    <2>2. CASE pc[t] \in Registry!InstallPC /\ frame'[t] = frame[t]
      <3>1. /\ frame[t].installed_entry \in made
            /\ \A i \in 1..Len(hooks) :
                  rank[hooks[i].installed_entry] < rank[frame[t].installed_entry]
        BY <2>2 DEF Ordered
      <3>2. QED
        BY <1>7, <1>8, <1>11, <2>2, <3>1
    <2>3. QED
      BY <1>2, <1>13, <2>1, <2>2
  <1>14. Ordered(rank2)'
    BY <1>7, <1>9, <1>10, <1>11, <1>12, <1>13 DEF Ordered
  <1>15. QED
    BY <1>2, <1>8, <1>14

(* A call that another thread does not disturb stays wired: its backup is  *)
(* left alone, and its target's slot, unless ART writes it.                *)
LEMMA OtherCallsStayWired ==
    ASSUME TypeInv, QuietInv, CallInv, [Next]_vars,
           NEW live \in Lives, NEW live2 \in Lives,
           NEW u \in Threads, Unshared(live, u), BackupIsWired(live, u),
           hpc'[u] = hpc[u], arg'[u] = arg[u],
           \A n \in Targets : live[n] \subseteq made,
           \A n \in Targets : \A x \in live2[n] : \A r \in Replacements :
               hpc[u] # "idle" /\ x \notin live[n] /\ thunk'[x] = Indirect(r)
                   => ~Shares(r, arg[u].replacement),
           hpc[u] = "hook" =>
               /\ \A t \in Threads :
                     WireBackup(t) => BackupOf[arg[t].replacement] # BackupOf[arg[u].replacement]
               /\ live[arg[u].target] \subseteq live2[arg[u].target]
               /\ entry'[arg[u].target] \in Code \cup {entry[arg[u].target]}
    PROVE  Unshared(live2, u)' /\ BackupIsWired(live2, u)'
  <1>1. Unshared(live2, u)'
    <2>1. ASSUME hpc'[u] # "idle", NEW n \in Targets, NEW x \in live2[n], NEW r \in Replacements,
                 thunk'[x] = Indirect(r), \A s \in Replacements :
                     x \in live[n] /\ thunk[x] = Indirect(s) => ~Shares(s, arg[u].replacement)
          PROVE  ~Shares(r, arg'[u].replacement)
      <3>1. CASE x \in live[n]
        <4>1. x \in made
          BY <3>1
        <4>2. thunk'[x] = thunk[x]
          BY <4>1, ThunksStay
        <4>3. QED
          BY <2>1, <3>1, <4>2
      <3>2. CASE x \notin live[n]
        BY <2>1, <3>2
      <3>3. QED
        BY <3>1, <3>2
    <2>2. QED
      BY <2>1 DEF Unshared
  <1>2. BackupIsWired(live2, u)'
    <2> SUFFICES ASSUME hpc[u] = "hook", BackupOf[arg[u].replacement] # NoBackup
                 PROVE  \E y \in made', e \in Code \cup live2[arg[u].target] :
                            /\ Captures(arg[u].replacement, y, arg[u].target, e)'
                            /\ entry'[arg[u].target] \in Code \cup {e}
      BY DEF BackupIsWired
    <2>1. PICK r, m : r = arg[u].replacement /\ m = arg[u].target
      OBVIOUS
    <2>2. r \in Replacements /\ m \in Targets /\ Started(ClassOf[r]) /\ BackupOf[r] # NoBackup
      BY <2>1, ArgsInCall DEF TypeInv, CallInv
    <2>3. PICK y \in made, e \in Code \cup live[m] :
                  Captures(r, y, m, e) /\ entry[m] \in Code \cup {e}
      BY <2>1 DEF BackupIsWired
    <2>4. Captures(r, y, m, e)' /\ y \in made'
      BY <2>1, <2>2, <2>3, CapturesStay
    <2>5. e \in Code \cup live2[m] /\ entry'[m] \in Code \cup {e}
      BY <2>1, <2>3
    <2>6. QED
      BY <2>1, <2>4, <2>5 DEF Captures
  <1>3. QED
    BY <1>1, <1>2

(* install_backup(): what the target's slot held is code or a live hook,   *)
(* and no live hook's backup is the one that is pointed at it now.         *)
LEMMA WiringBackup ==
    ASSUME TypeInv, QuietInv, CallInv, HeldInv, [Next]_vars, NEW t \in Threads, WireBackup(t),
           NEW rank \in Ranks, NEW live \in Lives, Wiring(rank, live),
           NEW rank2 \in Ranks, rank2 = [rank EXCEPT ![Fresh] = Cardinality(made')]
    PROVE  Wiring(rank2, live)'
  <1>1. /\ Ordered(rank) /\ SlotsAreLive(live) /\ LiveIsRecorded(live) /\ LiveIsWired(rank, live)
        /\ ChainsAreLive(rank, live) /\ CallsAreWired(live)
    BY DEF Wiring
  <1>2. PICK m, r, b, e, f : /\ m = arg[t].target /\ r = arg[t].replacement /\ b = BackupOf[r]
                             /\ e = entry[m] /\ f = Fresh
    OBVIOUS
  <1>3. /\ m \in Targets /\ r \in Replacements /\ b \in Backups /\ b # NoBackup /\ b \in Methods
        /\ b \notin Targets
    BY HookAssumption, <1>2, ArgsInCall DEF WireBackup, TypeInv, Methods
  <1>4. /\ UNCHANGED <<hooks, pc, frame, arg>>
        /\ CanAllocate /\ hpc[t] = "backup" /\ hpc' = [hpc EXCEPT ![t] = "hook"]
        /\ made' = made \cup {Fresh} /\ thunk' = [thunk EXCEPT ![Fresh] = Direct(m, e)]
        /\ entry' = [entry EXCEPT ![b] = Fresh]
    BY <1>2 DEF WireBackup, Goto
  <1>5. /\ e \in Code \cup Trampolines
        /\ e \in Trampolines => e \in live[m]
        /\ live[m] \subseteq made
    BY <1>1, <1>2, <1>3, LiveIsMade DEF TypeInv, Registry!TypeOK, Registry!EntryPoint, Methods,
                                        SlotsAreLive
  <1>6. f \in Trampolines /\ f \notin made /\ made' = made \cup {f}
    BY <1>2, <1>4, FreshIsNew
  <1>7. Ordered(rank2)' /\ \A x \in made : rank2[x] = rank[x] /\ rank2[x] < rank2[f]
    <2> DEFINE k == Direct(m, e)
    <2>1. k \in Thunks
      BY <1>3, <1>5 DEF Thunks
    <2>2. \A n \in Targets : \A d \in Trampolines : k = Direct(n, d) => d \in made
      BY <1>5, ThunkKinds
    <2>3. thunk' = [thunk EXCEPT ![Fresh] = k]
      BY <1>4
    <2>4. \A u \in Threads : pc'[u] \in Registry!InstallPC =>
             pc[u] \in Registry!InstallPC /\ frame'[u] = frame[u]
      BY <1>4
    <2>5. made' = made \cup {Fresh} /\ hooks' = hooks /\ CanAllocate
      BY <1>4
    <2> HIDE DEF k
    <2>6. Ordered(rank2)' /\ \A x \in made : rank2[x] = rank[x] /\ rank2[x] < rank2[Fresh]
      BY <1>1, <2>1, <2>2, <2>3, <2>4, <2>5, OrderedMakes, ZenonT(60)
    <2>7. QED
      BY <1>2, <2>6
  <1>8. \A n \in Targets : entry'[n] = entry[n]
    BY <1>3, <1>4 DEF TypeInv, Registry!TypeOK, Methods
  <1>9. SlotsAreLive(live)'
    BY <1>1, <1>4, <1>8 DEF SlotsAreLive
  <1>10. LiveIsRecorded(live)'
    BY <1>1, <1>4 DEF LiveIsRecorded, HasRecord
  <1>11. ASSUME NEW n \in Targets, NEW x \in live[n], NEW s \in Replacements, thunk[x] = Indirect(s)
         PROVE  BackupOf[s] # b
    BY <1>1, <1>2, <1>3, <1>4, <1>11 DEF CallsAreWired, Unshared, Shares
  <1>12. \A u \in Threads : WireBackup(u) => BackupOf[arg[u].replacement] = b
    <2>1. ASSUME NEW u \in Threads, WireBackup(u)
          PROVE  u = t
      BY <1>4, <2>1 DEF WireBackup, Goto, TypeInv, CallTypes
    <2>2. QED
      BY <1>2, <2>1
  <1>13. LiveIsWired(rank2, live)'
    <2>1. ASSUME NEW n \in Targets, NEW x \in live[n]
          PROVE  Wired(rank2, live, n, x)'
      <3>1. x \in made /\ Wired(rank, live, n, x)
        BY <1>1, LiveIsMade DEF LiveIsWired
      <3>2. \A u \in Threads : \A s \in Replacements :
               WireBackup(u) /\ thunk[x] = Indirect(s) => BackupOf[arg[u].replacement] # BackupOf[s]
        BY <1>11, <1>12
      <3>3. \A y \in made : rank2[y] = rank[y]
        BY <1>7
      <3>4. QED
        BY <3>1, <3>2, <3>3, WiredStays
    <2>2. QED
      BY <2>1 DEF LiveIsWired
  <1>14. ChainsAreLive(rank2, live)'
    <2>1. ASSUME NEW p, p.target \in Targets, p.installed_entry \in made, OnChain(rank, live, p)
          PROVE  OnChain(rank2, live, p)'
      <3>1. \A u \in Threads : \A s \in Replacements :
               WireBackup(u) /\ thunk[p.installed_entry] = Indirect(s)
                   /\ p.installed_entry \in live[p.target] =>
                       BackupOf[arg[u].replacement] # BackupOf[s]
        BY <1>11, <1>12, <2>1
      <3>2. \A y \in made : rank2[y] = rank[y]
        BY <1>7
      <3>3. QED
        BY <1>1, <2>1, <3>1, <3>2, ChainStays, ZenonT(60)
    <2>2. \A i \in 1..Len(hooks') : \E p : p = hooks'[i] /\ OnChain(rank2, live, p)'
      <3>1. ASSUME NEW i \in 1..Len(hooks), NEW p, p = hooks[i]
            PROVE  OnChain(rank2, live, p)'
        BY <1>1, <2>1, <3>1, RecordsAreMade DEF ChainsAreLive, OnChain, Captures
      <3>2. QED
        BY <1>4, <3>1
    <2>3. \A u \in Threads : pc'[u] \in Registry!InstallPC =>
               \E p : p = frame'[u] /\ OnChain(rank2, live, p)'
      <3>1. ASSUME NEW u \in Threads, pc[u] \in Registry!InstallPC, NEW p, p = frame[u]
            PROVE  OnChain(rank2, live, p)'
        <4>1. pc[u] # "idle"
          BY <3>1 DEF Registry!InstallPC
        <4>2. QED
          BY <1>1, <2>1, <3>1, <4>1, RecordsAreMade DEF ChainsAreLive, OnChain, Captures
      <3>2. QED
        BY <1>4, <3>1
    <2>4. QED
      BY <2>2, <2>3, ChainsNext
  <1>15. ASSUME NEW u \in Threads, u = t
         PROVE  Unshared(live, u)' /\ BackupIsWired(live, u)'
    <2>1. hpc'[u] = "hook"
      BY <1>4, <1>15 DEF TypeInv, CallTypes
    <2>2. f \in made' /\ e \in Code \cup live[m]
      BY <1>5, <1>6
    <2>3. entry'[b] = f /\ thunk'[f] = Direct(m, e)
      BY <1>2, <1>3, <1>4, <1>6 DEF TypeInv, Registry!TypeOK, ThunkTypes
    <2>4. entry'[m] = e
      BY <1>2, <1>3, <1>8
    <2>5. Captures(arg[u].replacement, f, arg[u].target, e)'
      BY <1>2, <1>4, <1>15, <2>3 DEF Captures
    <2>6. arg'[u].target = m
      BY <1>2, <1>4, <1>15
    <2>7. BackupIsWired(live, u)'
      BY <2>2, <2>4, <2>5, <2>6 DEF BackupIsWired
    <2>8. QED
      BY <2>1, <2>7 DEF Unshared
  <1>16. ASSUME NEW u \in Threads, u # t
         PROVE  Unshared(live, u)' /\ BackupIsWired(live, u)'
    <2>1. hpc'[u] = hpc[u] /\ arg'[u] = arg[u] /\ hpc[t] # "idle"
      BY <1>4, <1>16 DEF TypeInv, CallTypes
    <2>2. hpc[u] = "hook" => BackupOf[arg[u].replacement] # b
      BY <1>2, <1>3, <1>16, <2>1 DEF HeldInv, HeldOnce, Shares
    <2>3. hpc[u] = "hook" => entry'[arg[u].target] = entry[arg[u].target]
      BY <1>8, ArgsInCall DEF TypeInv
    <2>4. \A n \in Targets : live[n] \subseteq made
      BY <1>1, LiveIsMade
    <2>5. Unshared(live, u) /\ BackupIsWired(live, u)
      BY <1>1 DEF CallsAreWired
    <2>6. hpc[u] = "hook" =>
             \A v \in Threads :
                 WireBackup(v) => BackupOf[arg[v].replacement] # BackupOf[arg[u].replacement]
      BY <1>12, <2>2
    <2>7. QED
      BY <2>1, <2>3, <2>4, <2>5, <2>6, OtherCallsStayWired
  <1>17. QED
    BY <1>7, <1>9, <1>10, <1>13, <1>14, <1>15, <1>16 DEF Wiring, CallsAreWired

(* make_trampoline() and install_hook()'s reading: the new hook's backup   *)
(* calls what its record says that it displaced, if that is a hook.        *)
LEMMA WiringMade ==
    ASSUME TypeInv, QuietInv, CallInv, HeldInv, [Next]_vars,
           NEW t \in Threads, MakeTrampoline(t),
           NEW rank \in Ranks, NEW live \in Lives, Wiring(rank, live),
           NEW rank2 \in Ranks, rank2 = [rank EXCEPT ![Fresh] = Cardinality(made')],
           NEW live2 \in Lives,
           live2 = [live EXCEPT ![arg[t].target] = live[arg[t].target] \cup {Fresh}]
    PROVE  Wiring(rank2, live2)'
  <1>1. /\ Ordered(rank) /\ SlotsAreLive(live) /\ LiveIsRecorded(live) /\ LiveIsWired(rank, live)
        /\ ChainsAreLive(rank, live) /\ CallsAreWired(live)
    BY DEF Wiring
  <1>2. PICK m, r, e, f : /\ m = arg[t].target /\ r = arg[t].replacement
                          /\ e = entry[m] /\ f = Fresh
    OBVIOUS
  <1>3. m \in Targets /\ r \in Replacements
    BY <1>2, ArgsInCall DEF MakeTrampoline, TypeInv
  <1> DEFINE p0 == [target |-> m, previous_entry |-> e, installed_entry |-> f]
  <1>4. /\ UNCHANGED <<hooks, entry, arg>>
        /\ CanAllocate /\ hpc[t] = "hook" /\ hpc' = [hpc EXCEPT ![t] = "install"]
        /\ made' = made \cup {Fresh} /\ thunk' = [thunk EXCEPT ![Fresh] = Indirect(r)]
        /\ owner = NoThread
        /\ pc' = [pc EXCEPT ![t] = "install_store"] /\ frame' = [frame EXCEPT ![t] = p0]
    BY <1>2 DEF MakeTrampoline, Goto, Registry!InstallRead, Registry!Enter, Registry!LockIsFree
  <1>5. PICK p : p = p0
    OBVIOUS
  <1>6. p.target = m /\ p.previous_entry = e /\ p.installed_entry = f
    BY <1>5
  <1> HIDE DEF p0
  <1>7. /\ \A u \in Threads : pc[u] = "idle" /\ ~WireBackup(u)
        /\ \A u \in Threads : u # t => pc'[u] = "idle" /\ hpc'[u] = hpc[u]
        /\ pc'[t] = "install_store" /\ frame'[t] = p /\ hpc'[t] = "install"
    BY <1>4, <1>5, RegistryShape DEF WireBackup, Goto, TypeInv, CallTypes
  <1>8. f \in Trampolines /\ f \notin made /\ made' = made \cup {f} /\ thunk'[f] = Indirect(r)
    BY <1>2, <1>4, FreshIsNew DEF TypeInv, ThunkTypes
  <1>9. \A n \in Targets : \A x : x \in live2[n] <=> x \in live[n] \/ (n = m /\ x = f)
    BY <1>2, <1>3 DEF Lives
  <1>10. \A n \in Targets : live[n] \subseteq made /\ live[n] \subseteq live2[n]
    BY <1>1, <1>9, LiveIsMade
  <1>11. Ordered(rank2)' /\ \A x \in made : rank2[x] = rank[x] /\ rank2[x] < rank2[f]
    <2> DEFINE k == Indirect(r)
    <2>1. k \in Thunks /\ \A n \in Targets : \A d \in Trampolines : k # Direct(n, d)
      BY <1>3, ThunkKinds DEF Thunks
    <2>2. thunk' = [thunk EXCEPT ![Fresh] = k]
      BY <1>4
    <2> HIDE DEF k
    <2>3. \A u \in Threads : pc'[u] \in Registry!InstallPC => frame'[u].installed_entry = Fresh
      BY <1>2, <1>6, <1>7 DEF Registry!InstallPC
    <2>4. \A n \in Targets : \A d \in Trampolines : k = Direct(n, d) => d \in made
      BY <2>1
    <2>5. made' = made \cup {Fresh} /\ hooks' = hooks /\ CanAllocate
      BY <1>4
    <2>6. Ordered(rank2)' /\ \A x \in made : rank2[x] = rank[x] /\ rank2[x] < rank2[Fresh]
      BY <1>1, <2>1, <2>2, <2>3, <2>4, <2>5, OrderedMakes, ZenonT(60)
    <2>7. QED
      BY <1>2, <2>6
  <1>12. SlotsAreLive(live2)'
    <2>1. \A n \in Targets : entry'[n] \in Trampolines => entry'[n] \in live2[n]
      BY <1>1, <1>4, <1>10 DEF SlotsAreLive
    <2>2. \A u \in Threads : pc'[u] # "idle" =>
             frame'[u].installed_entry \in live2[frame'[u].target]
      BY <1>3, <1>6, <1>7, <1>9
    <2>3. QED
      BY <2>1, <2>2 DEF SlotsAreLive
  <1>13. LiveIsRecorded(live2)'
    <2>1. ASSUME NEW n \in Targets, NEW x \in live2[n]
          PROVE  HasRecord(n, x)'
      <3>1. CASE x \in live[n]
        BY <1>1, <1>4, <1>7, <3>1 DEF LiveIsRecorded, HasRecord, Registry!InstallPC
      <3>2. CASE n = m /\ x = f
        BY <1>6, <1>7, <3>2 DEF HasRecord, Registry!InstallPC
      <3>3. QED
        BY <1>9, <3>1, <3>2
    <2>2. QED
      BY <2>1 DEF LiveIsRecorded
  <1>14. BackupOf[r] # NoBackup =>
            \E y \in made, d \in Code \cup live[m] : /\ Captures(r, y, m, d)
                                                      /\ e \in Code \cup {d}
    BY <1>1, <1>2, <1>4 DEF CallsAreWired, BackupIsWired
  <1>15. ASSUME NEW y \in made, NEW d, Captures(r, y, m, d)
         PROVE  Captures(r, y, m, d)' /\ y \in made' /\ rank2[y] < rank2[f]
    BY <1>4, <1>8, <1>11, <1>15, ThunksStay DEF Captures
  <1>16. LiveIsWired(rank2, live2)'
    <2>1. ASSUME NEW n \in Targets, NEW x \in live[n]
          PROVE  Wired(rank2, live2, n, x)'
      <3>1. \A y \in made : rank2[y] = rank[y]
        BY <1>11
      <3>2. \A u \in Threads : ~WireBackup(u)
        BY <1>7
      <3>3. live[n] \subseteq live2[n]
        BY <1>10
      <3>4. QED
        BY <1>1, <3>1, <3>2, <3>3, WiredGrows
    <2>2. Wired(rank2, live2, m, f)'
      <3>1. Started(ClassOf[r])'
        BY <1>2, <1>3, <1>4, StaysStarted DEF CallInv, Classes
      <3>2. Cleared(m, r)'
        BY <1>2, <1>4, ClearedForGood DEF CallInv
      <3>3. ASSUME BackupOf[r] # NoBackup
            PROVE  \E y \in made', d \in Code \cup live2[m] : /\ Captures(r, y, m, d)'
                                                               /\ rank2[y] < rank2[f]
        <4>1. PICK y \in made, d \in Code \cup live[m] : Captures(r, y, m, d)
          BY <1>14, <3>3
        <4>2. d \in Code \cup live2[m]
          BY <1>3, <1>10
        <4>3. QED
          BY <1>15, <4>1, <4>2
      <3>4. QED
        BY <1>3, <1>8, <3>1, <3>2, <3>3 DEF Wired
    <2>3. QED
      BY <1>9, <2>1, <2>2 DEF LiveIsWired
  <1>17. ChainsAreLive(rank2, live2)'
    <2>1. ASSUME NEW q, q.target \in Targets, q.installed_entry \in made, OnChain(rank, live, q)
          PROVE  OnChain(rank2, live2, q)'
      <3>1. q.installed_entry \in live2[q.target] => q.installed_entry \in live[q.target]
        BY <1>8, <1>9, <2>1
      <3>2. \A y \in made : rank2[y] = rank[y]
        BY <1>11
      <3>3. \A u \in Threads : ~WireBackup(u)
        BY <1>7
      <3>4. QED
        BY <1>1, <1>10, <2>1, <3>1, <3>2, <3>3, ChainStays
    <2>2. \A i \in 1..Len(hooks') : \E q : q = hooks'[i] /\ OnChain(rank2, live2, q)'
      <3>1. ASSUME NEW i \in 1..Len(hooks), NEW q, q = hooks[i]
            PROVE  OnChain(rank2, live2, q)'
        BY <1>1, <2>1, <3>1, RecordsAreMade DEF ChainsAreLive, OnChain, Captures
      <3>2. QED
        BY <1>4, <3>1
    <2>3. OnChain(rank2, live2, p)'
      <3> SUFFICES ASSUME e \in Trampolines
                   PROVE  /\ e \in live2[m] /\ rank2[e] < rank2[f]
                          /\ \A s \in Replacements :
                                thunk'[f] = Indirect(s) /\ BackupOf[s] # NoBackup =>
                                    \E y \in made' : Captures(s, y, m, e)'
        BY <1>6 DEF OnChain, Captures
      <3>1. e \in live[m] /\ e \notin Code
        BY HookAssumption, <1>1, <1>2, <1>3 DEF SlotsAreLive
      <3>2. ASSUME BackupOf[r] # NoBackup
            PROVE  \E y \in made' : Captures(r, y, m, e)'
        <4>1. PICK y \in made, d \in Code \cup live[m] : /\ Captures(r, y, m, d)
                                                          /\ e \in Code \cup {d}
          BY <1>14, <3>2
        <4>2. d = e
          BY <3>1, <4>1
        <4>3. QED
          BY <1>15, <4>1, <4>2
      <3>3. \A s \in Replacements : thunk'[f] = Indirect(s) => s = r
        BY <1>8, IndirectOnce
      <3>4. QED
        BY <1>3, <1>10, <1>11, <3>1, <3>2, <3>3
    <2>4. \A u \in Threads : pc'[u] \in Registry!InstallPC => u = t
      BY <1>7 DEF Registry!InstallPC
    <2>5. QED
      BY <1>7, <2>2, <2>3, <2>4, ChainsNext
  <1>18. ASSUME NEW u \in Threads
         PROVE  Unshared(live2, u)' /\ BackupIsWired(live2, u)'
    <2>1. CASE u = t
      BY <1>7, <2>1 DEF Unshared, BackupIsWired
    <2>2. CASE u # t
      <3>1. hpc'[u] = hpc[u] /\ arg'[u] = arg[u] /\ hpc[t] # "idle"
        BY <1>4, <1>7, <2>2
      <3>2. ASSUME NEW n \in Targets, NEW x \in live2[n], NEW s \in Replacements,
                   hpc[u] # "idle", x \notin live[n], thunk'[x] = Indirect(s)
            PROVE  ~Shares(s, arg[u].replacement)
        <4>1. s = r
          BY <1>8, <1>9, <3>2, IndirectOnce
        <4>2. QED
          BY <1>2, <2>2, <3>1, <3>2, <4>1 DEF HeldInv, HeldOnce
      <3>3. Unshared(live, u) /\ BackupIsWired(live, u)
        BY <1>1 DEF CallsAreWired
      <3>4. hpc[u] = "hook" => arg[u].target \in Targets
        BY ArgsInCall DEF TypeInv
      <3>5. QED
        BY <1>4, <1>7, <1>10, <3>1, <3>2, <3>3, <3>4, OtherCallsStayWired
    <2>3. QED
      BY <2>1, <2>2
  <1>19. QED
    BY <1>11, <1>12, <1>13, <1>16, <1>17, <1>18 DEF Wiring, CallsAreWired

\* Whatever thread u does while a hook of m goes in or is taken down, it wires
\* no backup, and nothing that it has wired is m's.
Aside(m, u) ==
    /\ ~WireBackup(u)
    /\ \/ hpc'[u] \in {"idle", "install"}
       \/ /\ hpc'[u] = hpc[u] /\ arg'[u] = arg[u]
          /\ hpc[u] # "idle" => arg[u].target # m

\* Every record was one already, in the vector or in an install's frame.
RecordsCarry ==
    /\ \A k \in 1..Len(hooks') :
          \/ \E i \in 1..Len(hooks) : hooks'[k] = hooks[i]
          \/ \E u \in Threads : pc[u] \in Registry!InstallPC /\ hooks'[k] = frame[u]
    /\ \A u \in Threads : pc'[u] \in Registry!InstallPC =>
          pc[u] \in Registry!InstallPC /\ frame'[u] = frame[u]

\* Of m's live hooks only later ones than those in live2 are left out of it.
Prunes(m, rank, live, live2) ==
    \A n \in Targets :
        /\ live2[n] \subseteq live[n] /\ (n # m => live2[n] = live[n])
        /\ \A x \in live2[n] : \A e \in live[n] : rank[e] < rank[x] => e \in live2[n]

(* What was live stays wired while hooks of one target only come to stand  *)
(* or go.                                                                  *)
LEMMA WiringLater ==
    ASSUME TypeInv, QuietInv, CallInv, [Next]_vars, UNCHANGED <<made, thunk>>,
           NEW m, \A u \in Threads : Aside(m, u),
           \A n \in Targets : n # m => entry'[n] = entry[n],
           NEW rank \in Ranks, NEW live \in Lives, Wiring(rank, live), NEW live2 \in Lives,
           Prunes(m, rank, live, live2), RecordsCarry
    PROVE  LiveIsWired(rank, live2)' /\ ChainsAreLive(rank, live2)' /\ CallsAreWired(live2)'
  <1>0. \A u \in Threads : ~WireBackup(u)
    BY DEF Aside
  <1>1. /\ Ordered(rank) /\ LiveIsWired(rank, live) /\ ChainsAreLive(rank, live)
        /\ CallsAreWired(live)
    BY DEF Wiring
  <1> USE DEF Prunes, RecordsCarry
  <1>2. /\ \A y \in made : y \in Trampolines /\ rank[y] \in Nat
        /\ \A n \in Targets : live[n] \subseteq made
    BY <1>1, LiveIsMade DEF TypeInv, Registry!TypeOK, Ranks
  <1>3. ASSUME NEW n \in Targets, NEW x \in live2[n]
        PROVE  Wired(rank, live2, n, x)'
    <2>1. x \in made /\ Wired(rank, live, n, x)
      BY <1>1, <1>2 DEF LiveIsWired
    <2>2. ASSUME NEW y \in made, NEW e \in live[n], thunk[y] = Direct(n, e), rank[y] < rank[x]
          PROVE  e \in live2[n]
      <3>1. rank[e] < rank[y]
        BY <1>1, <1>2, <2>2 DEF Ordered
      <3>2. rank[e] < rank[x]
        BY <1>2, <2>1, <2>2, <3>1
      <3>3. QED
        BY <3>2
    <2>3. QED
      BY <1>0, <2>1, <2>2, WiredStays
  <1>4. ASSUME NEW p, p.target \in Targets, p.installed_entry \in made, OnChain(rank, live, p)
        PROVE  OnChain(rank, live2, p)'
    <2>1. p.installed_entry \in live2[p.target] => p.installed_entry \in live[p.target]
      BY <1>4
    <2>2. p.installed_entry \in live2[p.target] /\ p.previous_entry \in live[p.target]
              /\ rank[p.previous_entry] < rank[p.installed_entry]
                   => p.previous_entry \in live2[p.target]
      BY <1>4
    <2>3. QED
      BY <1>0, <1>1, <1>4, <2>1, <2>2, ChainStays
  <1>5. ASSUME NEW i \in 1..Len(hooks), NEW p, p = hooks[i]
        PROVE  OnChain(rank, live2, p)'
    BY <1>1, <1>4, <1>5, RecordsAreMade DEF ChainsAreLive, OnChain, Captures
  <1>6. ASSUME NEW u \in Threads, pc[u] \in Registry!InstallPC, NEW p, p = frame[u]
        PROVE  OnChain(rank, live2, p)'
    <2>1. pc[u] # "idle"
      BY <1>6 DEF Registry!InstallPC
    <2>2. QED
      BY <1>1, <1>4, <1>6, <2>1, RecordsAreMade DEF ChainsAreLive, OnChain, Captures
  <1>7. ChainsAreLive(rank, live2)'
    BY <1>5, <1>6, ChainsNext
  <1>8. ASSUME NEW u \in Threads
        PROVE  Unshared(live2, u)' /\ BackupIsWired(live2, u)'
    <2>1. CASE hpc'[u] \in {"idle", "install"}
      BY <2>1 DEF Unshared, BackupIsWired
    <2>2. CASE /\ hpc'[u] = hpc[u] /\ arg'[u] = arg[u]
               /\ hpc[u] # "idle" => arg[u].target # m
      <3>1. Unshared(live, u) /\ BackupIsWired(live, u)
        BY <1>1 DEF CallsAreWired
      <3>2. hpc[u] = "hook" =>
               /\ live[arg[u].target] \subseteq live2[arg[u].target]
               /\ entry'[arg[u].target] = entry[arg[u].target]
        BY <2>2, ArgsInCall DEF TypeInv
      <3>3. QED
        BY <1>0, <1>2, <2>2, <3>1, <3>2, OtherCallsStayWired
    <2>3. QED
      BY <2>1, <2>2 DEF Aside
  <1>9. QED
    BY <1>3, <1>7, <1>8 DEF LiveIsWired, CallsAreWired

(* A hook that goes in, or one that was displaced, was live already.       *)
LEMMA WiringStore ==
    ASSUME TypeInv, QuietInv, SlotInv, CallInv, [Next]_vars, UNCHANGED <<made, thunk>>,
           NEW t \in Threads, \A u \in Threads : Aside(frame[t].target, u),
           Registry!InstallStore(t) \/ Registry!RemoveStore(t),
           NEW rank \in Ranks, NEW live \in Lives, Wiring(rank, live)
    PROVE  Wiring(rank, live)'
  <1>1. /\ Ordered(rank) /\ SlotsAreLive(live) /\ LiveIsRecorded(live) /\ ChainsAreLive(rank, live)
    BY DEF Wiring
  <1>2. PICK m, value, next :
           /\ m = frame[t].target
           /\ value = IF pc[t] = "install_store" THEN frame[t].installed_entry
                                                 ELSE frame[t].previous_entry
           /\ next = IF pc[t] = "install_store" THEN "install_verify" ELSE "remove_verify"
    OBVIOUS
  <1>3. /\ pc[t] \in {"install_store", "remove_store"} /\ pc[t] # "idle"
        /\ UNCHANGED <<hooks, frame>>
        /\ entry' = entry \/ entry' = [entry EXCEPT ![m] = value]
        /\ pc' = [pc EXCEPT ![t] = next]
    BY <1>2 DEF Registry!InstallStore, Registry!RemoveStore, Registry!Store, Registry!Goto
  <1>4. \A u \in Threads : Aside(m, u)
    BY <1>2
  <1>5. \A u \in Threads : /\ pc'[u] # "idle" <=> pc[u] # "idle"
                           /\ pc'[u] \in Registry!InstallPC <=> pc[u] \in Registry!InstallPC
    BY <1>2, <1>3, RegistryShape DEF Registry!InstallPC
  <1>6. value \in Trampolines => value \in live[m]
    <2>1. frame[t].installed_entry \in live[m]
      BY <1>1, <1>2, <1>3 DEF SlotsAreLive
    <2>2. CASE pc[t] = "install_store"
      BY <1>2, <2>1, <2>2
    <2>3. CASE pc[t] = "remove_store"
      <3>1. PICK i \in 1..Len(hooks) : hooks[i] = frame[t]
        BY <2>3 DEF SlotInv, RemovesTop, Registry!RemovePC
      <3>2. OnChain(rank, live, hooks[i])
        BY <1>1 DEF ChainsAreLive
      <3>3. QED
        BY <1>2, <2>1, <2>3, <3>1, <3>2 DEF OnChain
    <2>4. QED
      BY <1>3, <2>2, <2>3
  <1>7. SlotsAreLive(live)'
    <2>1. ASSUME NEW n \in Targets, entry'[n] \in Trampolines
          PROVE  entry'[n] \in live[n]
      <3>1. entry'[n] = entry[n] \/ (n = m /\ entry'[n] = value)
        BY <1>3, RegistryShape DEF Methods
      <3>2. QED
        BY <1>1, <1>6, <2>1, <3>1 DEF SlotsAreLive
    <2>2. QED
      BY <1>1, <1>3, <1>5, <2>1 DEF SlotsAreLive
  <1>8. LiveIsRecorded(live)' /\ Ordered(rank)'
    BY <1>1, <1>3, <1>5 DEF LiveIsRecorded, HasRecord, Ordered
  <1>9. LiveIsWired(rank, live)' /\ ChainsAreLive(rank, live)' /\ CallsAreWired(live)'
    <2>1. RecordsCarry
      BY <1>3, <1>5 DEF RecordsCarry
    <2>2. Prunes(m, rank, live, live)
      BY DEF Prunes
    <2>3. \A n \in Targets : n # m => entry'[n] = entry[n]
      BY <1>3, RegistryShape DEF Methods
    <2>4. QED
      BY <1>4, <2>1, <2>2, <2>3, WiringLater
  <1>10. QED
    BY <1>7, <1>8, <1>9 DEF Wiring

(* A hook that took is pushed above all that are recorded.                 *)
LEMMA WiringInstalled ==
    ASSUME TypeInv, QuietInv, CallInv, [Next]_vars, UNCHANGED <<made, thunk>>,
           NEW t \in Threads, \A u \in Threads : Aside(frame[t].target, u),
           Registry!InstallVerify(t), entry[frame[t].target] = frame[t].installed_entry,
           NEW rank \in Ranks, NEW live \in Lives, Wiring(rank, live)
    PROVE  Wiring(rank, live)'
  <1>1. /\ Ordered(rank) /\ SlotsAreLive(live) /\ LiveIsRecorded(live)
    BY DEF Wiring
  <1>2. /\ pc[t] = "install_verify" /\ pc[t] # "idle" /\ pc[t] \in Registry!InstallPC
        /\ hooks' = Append(hooks, frame[t]) /\ entry' = entry
        /\ \A u \in Threads : /\ pc'[u] = "idle" /\ pc'[u] \notin Registry!InstallPC
                              /\ pc[u] \in Registry!InstallPC => u = t
    BY RegistryShape DEF Registry!InstallVerify, Registry!Return, Registry!InstallPC
  <1>3. /\ Len(hooks) \in Nat /\ Len(hooks') = Len(hooks) + 1
        /\ \A k \in 1..Len(hooks) : hooks'[k] = hooks[k]
        /\ hooks'[Len(hooks) + 1] = frame[t]
    BY <1>2, RegistryShape, AppendProperties
  <1>4. /\ \A i \in 1..Len(hooks) : hooks[i].installed_entry \in made
        /\ frame[t].installed_entry \in made
        /\ \A i \in 1..Len(hooks) : \A j \in 1..(i - 1) :
              rank[hooks[j].installed_entry] < rank[hooks[i].installed_entry]
        /\ \A i \in 1..Len(hooks) : rank[hooks[i].installed_entry] < rank[frame[t].installed_entry]
    BY <1>1, <1>2 DEF Ordered
  <1>5. ASSUME NEW i \in 1..Len(hooks')
        PROVE  /\ hooks'[i].installed_entry \in made
               /\ \A j \in 1..(i - 1) :
                     rank[hooks'[j].installed_entry] < rank[hooks'[i].installed_entry]
    <2>1. CASE i \in 1..Len(hooks)
      <3>1. \A j \in 1..(i - 1) : j \in 1..Len(hooks)
        BY <1>3, <2>1
      <3>2. QED
        BY <1>3, <1>4, <2>1, <3>1
    <2>2. CASE i = Len(hooks) + 1
      <3>1. \A j \in 1..(i - 1) : j \in 1..Len(hooks)
        BY <1>3, <2>2
      <3>2. QED
        BY <1>3, <1>4, <2>2, <3>1
    <2>3. QED
      BY <1>3, <2>1, <2>2
  <1>6. Ordered(rank)'
    BY <1>1, <1>2, <1>5 DEF Ordered
  <1>7. SlotsAreLive(live)'
    BY <1>1, <1>2 DEF SlotsAreLive
  <1>8. LiveIsRecorded(live)'
    <2>1. ASSUME NEW n \in Targets, NEW x \in live[n]
          PROVE  \E i \in 1..Len(hooks') : hooks'[i].target = n /\ hooks'[i].installed_entry = x
      <3>1. HasRecord(n, x)
        BY <1>1 DEF LiveIsRecorded
      <3>2. CASE \E i \in 1..Len(hooks) : hooks[i].target = n /\ hooks[i].installed_entry = x
        BY <1>3, <3>2
      <3>3. CASE frame[t].target = n /\ frame[t].installed_entry = x
        BY <1>3, <3>3
      <3>4. QED
        BY <1>2, <3>1, <3>2, <3>3 DEF HasRecord
    <2>2. QED
      BY <2>1 DEF LiveIsRecorded, HasRecord
  <1>9. LiveIsWired(rank, live)' /\ ChainsAreLive(rank, live)' /\ CallsAreWired(live)'
    <2>1. RecordsCarry
      BY <1>2, <1>3 DEF RecordsCarry
    <2>2. PICK m : m = frame[t].target
      OBVIOUS
    <2>3. Prunes(m, rank, live, live)
      BY DEF Prunes
    <2>4. \A u \in Threads : Aside(m, u)
      BY <2>2
    <2>5. QED
      BY <1>2, <2>1, <2>3, <2>4, WiringLater
  <1>10. QED
    BY <1>6, <1>7, <1>8, <1>9 DEF Wiring

\* The step leaves every record but those of m's hook x0, which is not in the
\* slot, and no call inside the lock.
Drops(m, x0) ==
    /\ UNCHANGED <<made, thunk, entry>>
    /\ \A u \in Threads : Aside(m, u) /\ pc'[u] = "idle"
    /\ entry[m] # x0
    /\ \A k \in 1..Len(hooks') : \E i \in 1..Len(hooks) : hooks'[k] = hooks[i]
    /\ \A i \in 1..Len(hooks) :
          hooks[i].target # m \/ hooks[i].installed_entry # x0 =>
              \E k \in 1..Len(hooks') : hooks'[k] = hooks[i]
    /\ \A u \in Threads : pc[u] \in Registry!InstallPC =>
          frame[u].target = m /\ frame[u].installed_entry = x0

(* A hook that is dropped, or that did not take, is the last that was made *)
(* of its target's live ones, and none of the others calls it.             *)
LEMMA WiringDrop ==
    ASSUME TypeInv, QuietInv, CallInv, [Next]_vars,
           NEW rank \in Ranks, NEW live \in Lives, Wiring(rank, live), Ordered(rank)',
           NEW m \in Targets, NEW x0 \in Trampolines,
           NEW live2 \in Lives, live2 = [live EXCEPT ![m] = live[m] \ {x0}],
           \A x \in live[m] : x # x0 => rank[x] < rank[x0], Drops(m, x0)
    PROVE  Wiring(rank, live2)'
  <1> USE DEF Drops
  <1>1. SlotsAreLive(live) /\ LiveIsRecorded(live) /\ LiveIsWired(rank, live)
    BY DEF Wiring
  <1>2. \A n \in Targets : \A x : x \in live2[n] <=> x \in live[n] /\ ~(n = m /\ x = x0)
    BY DEF Lives
  <1>3. \A n \in Targets : \A x \in live[n] : x \in Trampolines /\ rank[x] \in Nat
    BY DEF Lives, Ranks
  <1>4. \A u \in Threads : pc'[u] \notin Registry!InstallPC
    BY DEF Registry!InstallPC
  <1>5. SlotsAreLive(live2)'
    BY <1>1, <1>2 DEF SlotsAreLive
  <1>6. LiveIsRecorded(live2)'
    <2>1. ASSUME NEW n \in Targets, NEW x \in live2[n]
          PROVE  \E k \in 1..Len(hooks') : hooks'[k].target = n /\ hooks'[k].installed_entry = x
      <3>1. HasRecord(n, x) /\ ~(n = m /\ x = x0)
        BY <1>1, <1>2 DEF LiveIsRecorded
      <3>2. PICK i \in 1..Len(hooks) : hooks[i].target = n /\ hooks[i].installed_entry = x
        BY <3>1 DEF HasRecord
      <3>3. QED
        BY <3>1, <3>2
    <2>2. QED
      BY <2>1 DEF LiveIsRecorded, HasRecord
  <1>7. \A n \in Targets : \A x \in live2[n] : \A e \in live[n] :
           rank[e] < rank[x] => e \in live2[n]
    <2>1. ASSUME NEW n \in Targets, NEW x \in live2[n], NEW e \in live[n], rank[e] < rank[x]
          PROVE  e \in live2[n]
      <3>1. x \in live[n] /\ ~(n = m /\ x = x0)
        BY <1>2
      <3>2. ~(n = m /\ e = x0)
        BY <1>3, <2>1, <3>1
      <3>3. QED
        BY <1>2, <3>2
    <2>2. QED
      BY <2>1
  <1>8. \A n \in Targets : live2[n] \subseteq live[n] /\ (n # m => live2[n] = live[n])
    BY <1>2 DEF Lives
  <1>9. LiveIsWired(rank, live2)' /\ ChainsAreLive(rank, live2)' /\ CallsAreWired(live2)'
    <2>1. \A u \in Threads : Aside(m, u)
      OBVIOUS
    <2>2. \A n \in Targets : n # m => entry'[n] = entry[n]
      OBVIOUS
    <2>3. RecordsCarry
      BY <1>4 DEF RecordsCarry
    <2>4. Prunes(m, rank, live, live2)
      BY <1>7, <1>8 DEF Prunes
    <2>5. UNCHANGED <<made, thunk>>
      OBVIOUS
    <2> HIDE DEF Drops
    <2>6. QED
      BY <2>1, <2>2, <2>3, <2>4, <2>5, WiringLater
  <1>10. QED
    BY <1>5, <1>6, <1>9 DEF Wiring

(* A hook that did not take leaves no trace.                               *)
LEMMA WiringNotInstalled ==
    ASSUME TypeInv, QuietInv, CallInv, [Next]_vars, UNCHANGED <<made, thunk>>,
           NEW t \in Threads, \A u \in Threads : Aside(frame[t].target, u),
           Registry!InstallVerify(t), entry[frame[t].target] # frame[t].installed_entry,
           NEW rank \in Ranks, NEW live \in Lives, Wiring(rank, live)
    PROVE  \E live2 \in Lives : Wiring(rank, live2)'
  <1>1. Ordered(rank) /\ LiveIsRecorded(live)
    BY DEF Wiring
  <1>2. /\ pc[t] = "install_verify" /\ pc[t] # "idle" /\ pc[t] \in Registry!InstallPC
        /\ hooks' = hooks /\ entry' = entry
        /\ \A u \in Threads : /\ pc'[u] = "idle" /\ pc'[u] \notin Registry!InstallPC
                              /\ pc[u] \in Registry!InstallPC => u = t
    BY RegistryShape DEF Registry!InstallVerify, Registry!Return, Registry!InstallPC
  <1>3. PICK m, x0 : m = frame[t].target /\ x0 = frame[t].installed_entry
    OBVIOUS
  <1>4. m \in Targets /\ x0 \in Trampolines
    BY <1>1, <1>2, <1>3, RecordsAreMade, RegistryShape
  <1>5. PICK live2 \in Lives : live2 = [live EXCEPT ![m] = live[m] \ {x0}]
    BY DEF Lives
  <1>6. ASSUME NEW x \in live[m], x # x0
        PROVE  rank[x] < rank[x0]
    <2>1. HasRecord(m, x)
      BY <1>1, <1>4 DEF LiveIsRecorded
    <2>2. PICK i \in 1..Len(hooks) : hooks[i].installed_entry = x
      BY <1>2, <1>3, <1>6, <2>1 DEF HasRecord
    <2>3. QED
      BY <1>1, <1>2, <1>3, <2>2 DEF Ordered
  <1>7. Ordered(rank)'
    BY <1>1, <1>2 DEF Ordered
  <1>8. Wiring(rank, live2)'
    <2>1. Drops(m, x0)
      BY <1>2, <1>3 DEF Drops
    <2>2. QED
      BY <1>4, <1>5, <1>6, <1>7, <2>1, WiringDrop
  <1>9. QED
    BY <1>8

(* A target's top record is taken out with the hook it is of.              *)
LEMMA WiringRemoved ==
    ASSUME TypeInv, QuietInv, CallInv, [Next]_vars, UNCHANGED <<made, thunk, entry>>,
           NEW i0 \in 1..Len(hooks), Registry!IsTop(hooks, i0, hooks[i0].target),
           \A u \in Threads : /\ Aside(hooks[i0].target, u)
                              /\ pc'[u] = "idle" /\ pc[u] \notin Registry!InstallPC,
           hooks' = Registry!RemoveAt(hooks, i0),
           entry[hooks[i0].target] # hooks[i0].installed_entry,
           NEW rank \in Ranks, NEW live \in Lives, Wiring(rank, live)
    PROVE  \E live2 \in Lives : Wiring(rank, live2)'
  <1>1. Ordered(rank) /\ LiveIsRecorded(live)
    BY DEF Wiring
  <1>2. /\ Len(hooks) \in Nat /\ Len(hooks') = Len(hooks) - 1
        /\ \A k \in 1..Len(hooks') : /\ Old(i0, k) \in 1..Len(hooks) /\ Old(i0, k) # i0
                                     /\ hooks'[k] = hooks[Old(i0, k)]
        /\ \A k \in 1..Len(hooks) : k # i0 => /\ New(i0, k) \in 1..Len(hooks')
                                             /\ hooks'[New(i0, k)] = hooks[k]
    BY RegistryShape, RemovedVector
  <1>3. PICK m, x0 : m = hooks[i0].target /\ x0 = hooks[i0].installed_entry
    OBVIOUS
  <1>4. m \in Targets /\ x0 \in Trampolines
    BY <1>1, <1>3, RecordsAreMade, RegistryShape
  <1>5. PICK live2 \in Lives : live2 = [live EXCEPT ![m] = live[m] \ {x0}]
    BY DEF Lives
  <1>6. ASSUME NEW x \in live[m], x # x0
        PROVE  rank[x] < rank[x0]
    <2>1. HasRecord(m, x)
      BY <1>1, <1>4 DEF LiveIsRecorded
    <2>2. PICK i \in 1..Len(hooks) : hooks[i].target = m /\ hooks[i].installed_entry = x
      BY <2>1 DEF HasRecord
    <2>3. i \in 1..(i0 - 1)
      BY <1>2, <1>3, <1>6, <2>2 DEF Registry!IsTop
    <2>4. QED
      BY <1>1, <1>3, <2>2, <2>3 DEF Ordered
  <1>7. Ordered(rank)'
    <2>1. ASSUME NEW k \in 1..Len(hooks')
          PROVE  /\ hooks'[k].installed_entry \in made
                 /\ \A j \in 1..(k - 1) :
                       rank[hooks'[j].installed_entry] < rank[hooks'[k].installed_entry]
      <3>1. \A j \in 1..(k - 1) : j \in 1..Len(hooks') /\ Old(i0, j) \in 1..(Old(i0, k) - 1)
        BY <1>2 DEF Old
      <3>2. QED
        BY <1>1, <1>2, <3>1, ZenonT(60) DEF Ordered
    <2>2. \A u \in Threads : pc'[u] \notin Registry!InstallPC
      BY DEF Registry!InstallPC
    <2>3. QED
      BY <1>1, <2>1, <2>2 DEF Ordered
  <1>8. Wiring(rank, live2)'
    <2>1. Drops(m, x0)
      BY <1>2, <1>3 DEF Drops
    <2>2. QED
      BY <1>4, <1>5, <1>6, <1>7, <2>1, WiringDrop
  <1>9. QED
    BY <1>8

(* A removal that is entered, or fails, leaves the hooks as they are.      *)
LEMMA WiringKept ==
    ASSUME TypeInv, QuietInv, CallInv, [Next]_vars, UNCHANGED <<made, thunk, entry, hooks>>,
           NEW m,
           \A u \in Threads : /\ Aside(m, u)
                              /\ pc'[u] \notin Registry!InstallPC
                              /\ pc[u] \notin Registry!InstallPC,
           NEW rank \in Ranks, NEW live \in Lives, Wiring(rank, live),
           \A u \in Threads : pc'[u] # "idle" =>
               frame'[u].installed_entry \in live[frame'[u].target]
    PROVE  Wiring(rank, live)'
  <1>1. Ordered(rank) /\ SlotsAreLive(live) /\ LiveIsRecorded(live)
    BY DEF Wiring
  <1>2. Ordered(rank)' /\ SlotsAreLive(live)' /\ LiveIsRecorded(live)'
    BY <1>1 DEF Ordered, SlotsAreLive, LiveIsRecorded, HasRecord
  <1>3. LiveIsWired(rank, live)' /\ ChainsAreLive(rank, live)' /\ CallsAreWired(live)'
    <2>1. RecordsCarry
      BY DEF RecordsCarry
    <2>2. Prunes(m, rank, live, live)
      BY DEF Prunes
    <2>3. QED
      BY <2>1, <2>2, WiringLater
  <1>4. QED
    BY <1>2, <1>3 DEF Wiring

(* unhook_function(), from its first look to its last.                     *)
LEMMA WiringUnhook ==
    ASSUME TypeInv, QuietInv, SlotInv, RecordInv, CallInv, [Next]_vars,
           UNCHANGED <<made, thunk>>,
           NEW t \in Threads, NEW m \in Targets, \A u \in Threads : Aside(m, u),
           \/ Registry!RemoveStale(t, m) \/ Registry!RemoveCheck(t, m)
           \/ Registry!RemoveVerify(t) /\ frame[t].target = m,
           NEW rank \in Ranks, NEW live \in Lives, Wiring(rank, live)
    PROVE  \E live2 \in Lives : Wiring(rank, live2)'
  <1>1. SlotsAreLive(live)
    BY DEF Wiring
  <1>2. /\ UNCHANGED entry
        /\ \A u \in Threads : /\ pc[u] \notin Registry!InstallPC
                              /\ u # t => pc[u] = "idle"
    BY RegistryShape
       DEF Registry!RemoveStale, Registry!RemoveCheck, Registry!RemoveVerify,
           Registry!LockIsFree, Registry!InstallPC
  <1>3. CASE Registry!RemoveStale(t, m)
    <2>1. PICK i0 \in 1..Len(hooks) : /\ Registry!IsTop(hooks, i0, m)
                                      /\ entry[m] # hooks[i0].installed_entry
                                      /\ hooks' = Registry!RemoveAt(hooks, i0)
      BY <1>3 DEF Registry!RemoveStale
    <2>2. hooks[i0].target = m
      BY <2>1 DEF Registry!IsTop
    <2>3. \A u \in Threads : pc'[u] = "idle"
      BY <1>2, <1>3 DEF Registry!RemoveStale
    <2>4. QED
      BY <1>2, <2>1, <2>2, <2>3, WiringRemoved
  <1>4. CASE Registry!RemoveCheck(t, m)
    <2>1. PICK i0 \in 1..Len(hooks) : /\ Registry!IsTop(hooks, i0, m)
                                      /\ entry[m] = hooks[i0].installed_entry
                                      /\ pc' = [pc EXCEPT ![t] = "remove_store"]
                                      /\ frame' = [frame EXCEPT ![t] = hooks[i0]]
                                      /\ hooks' = hooks
      BY <1>4 DEF Registry!RemoveCheck, Registry!Enter
    <2>2. hooks[i0].target = m /\ hooks[i0].installed_entry \in live[m]
      BY <1>1, <2>1, RegistryShape DEF Registry!IsTop, SlotsAreLive
    <2>3. \A u \in Threads : /\ pc'[u] # "idle" => frame'[u] = hooks[i0]
                             /\ pc'[u] \notin Registry!InstallPC
      BY <1>2, <2>1, RegistryShape DEF Registry!InstallPC
    <2>4. QED
      BY <1>2, <2>1, <2>2, <2>3, WiringKept
  <1>5. CASE Registry!RemoveVerify(t) /\ frame[t].target = m
    <2>1. PICK i0 \in 1..Len(hooks) :
             /\ Registry!IsTop(hooks, i0, frame[t].target)
             /\ hooks' = IF entry[frame[t].target] = frame[t].previous_entry
                         THEN Registry!RemoveAt(hooks, i0) ELSE hooks
      BY <1>5 DEF Registry!RemoveVerify
    <2>2. /\ pc[t] = "remove_verify" /\ pc[t] # "idle"
          /\ \A u \in Threads : pc'[u] = "idle" /\ pc'[u] \notin Registry!InstallPC
      BY <1>2, <1>5, RegistryShape
         DEF Registry!RemoveVerify, Registry!Return, Registry!InstallPC
    <2>3. hooks[i0] = frame[t]
      <3>1. PICK j \in 1..Len(hooks) : /\ Registry!IsTop(hooks, j, frame[t].target)
                                       /\ hooks[j] = frame[t]
        BY <2>2 DEF SlotInv, RemovesTop, Registry!RemovePC
      <3>2. QED
        BY <2>1, <3>1, RegistryShape, TopIsUnique
    <2>4. CASE entry[frame[t].target] # frame[t].previous_entry
      <3>1. Wiring(rank, live)'
        BY <1>2, <2>1, <2>2, <2>4, WiringKept
      <3>2. QED
        BY <3>1
    <2>5. CASE entry[frame[t].target] = frame[t].previous_entry
      <3>1. frame[t].installed_entry # frame[t].previous_entry
        <4>1. frame[t].installed_entry \in live[frame[t].target]
          BY <1>1, <2>2 DEF SlotsAreLive
        <4>2. OnChain(rank, live, hooks[i0])
          BY DEF Wiring, ChainsAreLive
        <4>3. frame[t].installed_entry \in Trampolines
          BY <2>2, RegistryShape
        <4>4. rank[frame[t].installed_entry] \in Nat
          BY <4>3 DEF Ranks
        <4>5. QED
          BY <2>3, <4>1, <4>2, <4>3, <4>4 DEF OnChain
      <3>2. QED
        BY <1>2, <1>5, <2>1, <2>2, <2>3, <2>5, <3>1, WiringRemoved
    <2>6. QED
      BY <2>4, <2>5
  <1>6. QED
    BY <1>3, <1>4, <1>5

(* Nobody calls: ART runs, or nothing does.                                *)
LEMMA WiringNobody ==
    ASSUME TypeInv, QuietInv, CallInv, [Next]_vars,
           UNCHANGED <<hooks, pc, frame, made, thunk, hpc, arg>>, WiringInv
    PROVE  WiringInv'
  <1>1. PICK rank \in Ranks, live \in Lives : Wiring(rank, live)
    BY DEF WiringInv
  <1>2. NoStore
    BY RegistryShape DEF NoStore, Registry!InstallStore, Registry!RemoveStore, Registry!Goto
  <1>3. \A t \in Threads : Stays(t)
    BY DEF Stays
  <1>4. \A t \in Threads : ~WireBackup(t)
    <2>1. ASSUME NEW t \in Threads, WireBackup(t)
          PROVE  FALSE
      BY <2>1 DEF WireBackup, Goto, TypeInv, CallTypes
    <2>2. QED
      BY <2>1
  <1>5. Wiring(rank, live)'
    BY <1>1, <1>2, <1>3, <1>4, WiringOutside
  <1>6. QED
    BY <1>5 DEF WiringInv

(* A call comes from one place of hook_function() to the next.             *)
LEMMA WiringProceeds ==
    ASSUME TypeInv, QuietInv, CallInv, [Next]_vars, NEW t \in Threads,
           \/ InitOriginal(t) \/ InitReplacement(t) \/ CheckBackup(t) \/ SkipCheck(t)
           \/ Settled(t) \/ Nudge(t) \/ Refused(t)
           \/ Watch(t) \/ WatchNudge(t) \/ WatchMoved(t) \/ WatchGivesUp(t) \/ Discourage(t)
           \/ NoBackupAsked(t) \/ CallFails(t),
           WiringInv
    PROVE  WiringInv'
  <1>1. PICK rank \in Ranks, live \in Lives : Wiring(rank, live)
    BY DEF WiringInv
  <1>2. /\ UNCHANGED <<hooks, pc, frame, made, thunk>>
        /\ hpc[t] \notin {"idle", "install"}
    BY DEF InitOriginal, InitReplacement, EnsureInitialized, Initialize, ArtSets,
           CheckBackup, SkipCheck, Settled, Nudge, StillParked, SpendNudge, Refused, Watch,
           WatchNudge, WatchMoved, WatchGivesUp, Discourage, NoBackupAsked, CallFails,
           registryVars
  <1>3. OthersRest(t)
    BY CallsRest DEF Proceed, GoesOn
  <1>4. NoStore
    BY <1>2, RegistryShape
       DEF NoStore, Registry!InstallStore, Registry!RemoveStore, Registry!Goto
  <1>5. Comes(t)
    BY CallMoves
  <1>6. hpc'[t] = "idle" \/ Stays(t) \/ MovesOn(t)
    BY <1>2, <1>5 DEF Comes, Begin
  <1>7. hpc[t] = "backup" => hpc'[t] = "idle" \/ BackupOf[arg[t].replacement] = NoBackup
    BY DEF InitOriginal, InitReplacement, CheckBackup, SkipCheck, Settled, Nudge, StillParked,
           Refused, Watch, WatchNudge, WatchMoved, WatchGivesUp, Discourage, NoBackupAsked,
           CallFails, Fail, TypeInv, CallTypes
  <1>8. hpc'[t] = "hook" /\ hpc[t] # "hook" => BackupOf[arg[t].replacement] = NoBackup
    BY <1>6, <1>7 DEF Stays, MovesOn
  <1>9. ~WireBackup(t)
    <2>1. SUFFICES ASSUME WireBackup(t)
                   PROVE  FALSE
      OBVIOUS
    <2>2. hpc[t] = "backup" /\ hpc'[t] = "hook" /\ BackupOf[arg[t].replacement] # NoBackup
      BY <2>1 DEF WireBackup, Goto, TypeInv, CallTypes
    <2>3. QED
      BY <1>7, <2>2
  <1>10. ASSUME NEW u \in Threads
         PROVE  /\ hpc'[u] = "idle" \/ Stays(u) \/ MovesOn(u)
                /\ hpc'[u] = "hook" /\ hpc[u] # "hook" => BackupOf[arg[u].replacement] = NoBackup
                /\ ~WireBackup(u)
    <2>1. CASE u = t
      BY <1>6, <1>8, <1>9, <2>1
    <2>2. CASE u # t
      <3>1. hpc'[u] = hpc[u] /\ arg'[u] = arg[u]
        BY <1>3, <2>2 DEF OthersRest
      <3>2. Stays(u)
        BY <3>1 DEF Stays
      <3>3. ~WireBackup(u)
        BY <3>1 DEF WireBackup, Goto, TypeInv, CallTypes
      <3>4. QED
        BY <3>1, <3>2, <3>3
    <2>3. QED
      BY <2>1, <2>2
  <1>11. Wiring(rank, live)'
    BY <1>1, <1>2, <1>4, <1>10, WiringOutside
  <1>12. QED
    BY <1>11 DEF WiringInv

(* A trampoline is made.                                                   *)
LEMMA WiringMakes ==
    ASSUME TypeInv, QuietInv, CallInv, HeldInv, [Next]_vars, NEW t \in Threads,
           WireBackup(t) \/ MakeTrampoline(t), WiringInv
    PROVE  WiringInv'
  <1>1. PICK rank \in Ranks, live \in Lives : Wiring(rank, live)
    BY DEF WiringInv
  <1>2. CanAllocate /\ made' = made \cup {Fresh}
    BY DEF WireBackup, MakeTrampoline, Registry!InstallRead
  <1>3. Cardinality(made') \in Nat
    BY HookAssumption, <1>2, FreshIsNew, FS_Subset, FS_CardinalityType
       DEF TypeInv, Registry!TypeOK
  <1>4. PICK n : n = Cardinality(made')
    OBVIOUS
  <1>5. [rank EXCEPT ![Fresh] = n] \in Ranks
    BY <1>3, <1>4 DEF Ranks
  <1>6. PICK rank2 \in Ranks : rank2 = [rank EXCEPT ![Fresh] = Cardinality(made')]
    BY <1>4, <1>5
  <1>7. CASE WireBackup(t)
    <2>1. Wiring(rank2, live)'
      BY <1>1, <1>6, <1>7, WiringBackup
    <2>2. QED
      BY <2>1 DEF WiringInv
  <1>8. CASE MakeTrampoline(t)
    <2>1. [live EXCEPT ![arg[t].target] = live[arg[t].target] \cup {Fresh}] \in Lives
      <3>1. arg[t].target \in Targets
        BY <1>8, ArgsInCall DEF MakeTrampoline, TypeInv
      <3>2. live[arg[t].target] \cup {Fresh} \in SUBSET Trampolines
        BY <1>2, <3>1, FreshIsNew DEF Lives
      <3>3. QED
        BY <3>2 DEF Lives
    <2>2. PICK live2 \in Lives :
             live2 = [live EXCEPT ![arg[t].target] = live[arg[t].target] \cup {Fresh}]
      BY <2>1
    <2>3. Wiring(rank2, live2)'
      BY <1>1, <1>6, <1>8, <2>2, WiringMade
    <2>4. QED
      BY <2>3 DEF WiringInv
  <1>9. QED
    BY <1>7, <1>8

(* The calls of other threads are aside of the one that has m's slot.      *)
LEMMA OthersAreAside ==
    ASSUME TypeInv, CallInv, CallsApart, NEW t \in Threads, OthersRest(t), NEW m \in Targets,
           hpc[t] \in {"idle", "install"}, hpc'[t] \in {"idle", "install"},
           Works(t, m) \/ \A u \in Threads : ~Works(u, m)
    PROVE  \A u \in Threads : Aside(m, u)
  <1>1. Aside(m, t)
    BY DEF Aside, WireBackup
  <1>2. ASSUME NEW u \in Threads, u # t
        PROVE  Aside(m, u)
    <2>1. hpc'[u] = hpc[u] /\ arg'[u] = arg[u]
      BY <1>2 DEF OthersRest
    <2>2. ~WireBackup(u)
      BY <2>1 DEF WireBackup, Goto, TypeInv, CallTypes
    <2>3. ~Works(u, m)
      BY <1>2 DEF CallsApart
    <2>4. QED
      BY <2>1, <2>2, <2>3 DEF Aside, Works
  <1>3. QED
    BY <1>1, <1>2

(* A hook goes in, or is taken down.                                       *)
LEMMA WiringRegistry ==
    ASSUME TypeInv, QuietInv, SlotInv, RecordInv, CallInv, CallsApart, [Next]_vars,
           NEW t \in Threads, NEW m \in Targets,
           \/ (Install(t) \/ UnhookProceeds(t)) /\ frame[t].target = m
           \/ Unhook(t, m) /\ \A u \in Threads : ~Works(u, m),
           WiringInv
    PROVE  WiringInv'
  <1>1. PICK rank \in Ranks, live \in Lives : Wiring(rank, live)
    BY DEF WiringInv
  <1>2. UNCHANGED <<made, thunk>>
    BY DEF Install, UnhookProceeds, Unhook, Registry!InstallStore, Registry!InstallVerify,
           Registry!RemoveStore, Registry!RemoveVerify, Registry!RemoveStale, Registry!RemoveCheck
  <1>3. hpc[t] \in {"idle", "install"}
    BY RegistryShape
       DEF Install, UnhookProceeds, Unhook, Registry!InstallStore, Registry!InstallVerify,
           Registry!RemoveStore, Registry!RemoveVerify, CallInv, TypeInv, CallTypes,
           Registry!InstallPC, Registry!RemovePC, HookPC
  <1>4. hpc'[t] \in {"idle", "install"}
    BY <1>3 DEF Install, UnhookProceeds, Unhook, Fail, TypeInv, CallTypes
  <1>5. Works(t, m) \/ \A u \in Threads : ~Works(u, m)
    BY RegistryShape
       DEF Works, Install, UnhookProceeds, Registry!InstallStore, Registry!InstallVerify,
           Registry!RemoveStore, Registry!RemoveVerify
  <1>6. OthersRest(t)
    BY CallsRest DEF Call, Proceed, GoesOn
  <1>7. \A u \in Threads : Aside(m, u)
    BY <1>3, <1>4, <1>5, <1>6, OthersAreAside
  <1>8. CASE (Registry!InstallStore(t) \/ Registry!RemoveStore(t)) /\ frame[t].target = m
    <2>1. Wiring(rank, live)'
      BY <1>1, <1>2, <1>7, <1>8, WiringStore
    <2>2. QED
      BY <2>1 DEF WiringInv
  <1>9. CASE Registry!InstallVerify(t) /\ frame[t].target = m
    <2>1. CASE entry[frame[t].target] = frame[t].installed_entry
      <3>1. Wiring(rank, live)'
        BY <1>1, <1>2, <1>7, <1>9, <2>1, WiringInstalled
      <3>2. QED
        BY <3>1 DEF WiringInv
    <2>2. CASE entry[frame[t].target] # frame[t].installed_entry
      <3>1. \E live2 \in Lives : Wiring(rank, live2)'
        BY <1>1, <1>2, <1>7, <1>9, <2>2, WiringNotInstalled
      <3>2. QED
        BY <3>1 DEF WiringInv
    <2>3. QED
      BY <2>1, <2>2
  <1>10. CASE \/ Registry!RemoveStale(t, m) \/ Registry!RemoveCheck(t, m)
              \/ Registry!RemoveVerify(t) /\ frame[t].target = m
    <2>1. \E live2 \in Lives : Wiring(rank, live2)'
      BY <1>1, <1>2, <1>7, <1>10, WiringUnhook
    <2>2. QED
      BY <2>1 DEF WiringInv
  <1>11. QED
    BY <1>8, <1>9, <1>10 DEF Install, UnhookProceeds, Unhook

(* Every step keeps the calls wired.                                       *)
LEMMA WiringSteps ==
    ASSUME TypeInv, QuietInv, SlotInv, RecordInv, CallInv, HeldInv, CallsApart,
           [Next]_vars, [Apart]_vars, WiringInv
    PROVE  WiringInv'
  <1>1. CASE Art
    BY <1>1, WiringNobody DEF Art, AppInitializes, Initialize, MakeVisible, JitStart, JitLand,
                              Deoptimize, ArtSets, registryVars
  <1>2. ASSUME NEW t \in Threads, NEW m \in Targets, NEW r \in Replacements, Begin(t, m, r)
        PROVE  WiringInv'
    <2>1. PICK rank \in Ranks, live \in Lives : Wiring(rank, live)
      BY DEF WiringInv
    <2> DEFINE Kept(n) == Registry!HookIsInstalled(n) \/ \E u \in Threads : Works(u, n)
    <2>2. [n \in Targets |-> IF Kept(n) THEN live[n] ELSE {}] \in Lives
      BY DEF Lives
    <2>3. PICK live2 \in Lives : live2 = [n \in Targets |-> IF Kept(n) THEN live[n] ELSE {}]
      BY <2>2
    <2>4. Wiring(rank, live2)'
      BY <1>2, <2>1, <2>3, WiringBegin
    <2>5. QED
      BY <2>4 DEF WiringInv
  <1>3. CASE UNCHANGED vars
    BY <1>3, WiringNobody DEF vars, registryVars
  <1>4. CASE Apart
    <2>1. ASSUME NEW t \in Threads, Call(t)
          PROVE  WiringInv'
      <3>1. ASSUME NEW m \in Targets, Unhook(t, m)
            PROVE  WiringInv'
        BY <1>4, <3>1, WiringRegistry DEF Apart
      <3>2. QED
        BY <1>2, <2>1, <3>1 DEF Call
    <2>2. ASSUME NEW t \in Threads, Proceed(t)
          PROVE  WiringInv'
      <3>1. CASE Install(t) \/ UnhookProceeds(t)
        <4>1. pc[t] # "idle"
          BY <3>1 DEF Install, UnhookProceeds, Registry!InstallStore, Registry!InstallVerify,
                      Registry!RemoveStore, Registry!RemoveVerify
        <4>2. PICK m \in Targets : frame[t].target = m
          BY <4>1 DEF QuietInv, Quieted
        <4>3. QED
          BY <3>1, <4>2, WiringRegistry
      <3>2. QED
        BY <2>2, <3>1, WiringProceeds, WiringMakes DEF Proceed, GoesOn
    <2>3. QED
      BY <1>1, <1>3, <2>1, <2>2 DEF Next
  <1>5. QED
    BY <1>3, <1>4

(* Nothing is hooked at first.                                             *)
LEMMA WiringInit == Init => WiringInv
  <1> SUFFICES ASSUME Init
               PROVE  WiringInv
    OBVIOUS
  <1>1. PICK rank \in Ranks, live \in Lives :
           rank = [x \in Trampolines |-> 0] /\ live = [m \in Targets |-> {}]
    BY DEF Ranks, Lives
  <1>2. Ordered(rank)
    <2>1. Cardinality(made) = 0
      BY FS_EmptySet DEF Init
    <2>2. \A x \in Trampolines : thunk[x] = NoThunk
      BY DEF Init
    <2>3. QED
      BY <1>1, <2>1, <2>2, ThunkKinds DEF Init, Ordered, Registry!InstallPC
  <1>3. SlotsAreLive(live)
    BY HookAssumption DEF Init, SlotsAreLive, Methods, InitialEntry, Code
  <1>4. LiveIsRecorded(live) /\ LiveIsWired(rank, live)
    BY <1>1 DEF LiveIsRecorded, LiveIsWired
  <1>5. ChainsAreLive(rank, live) /\ CallsAreWired(live)
    BY DEF Init, ChainsAreLive, CallsAreWired, Unshared, BackupIsWired, Registry!InstallPC
  <1>6. QED
    BY <1>2, <1>3, <1>4, <1>5 DEF Wiring, WiringInv

(* Where calls on one target do not overlap, they stay apart in every      *)
(* reachable state, and what they hook stays wired.                        *)
THEOREM WiringInvHolds == Spec /\ [][Apart]_vars => [](CallsApart /\ WiringInv)
  <1>1. Init => CallsApart
    BY DEF Init, CallsApart, Works
  <1>2. TypeInv /\ QuietInv /\ CallsApart /\ [Next]_vars /\ [Apart]_vars => CallsApart'
    BY ApartSteps
  <1>3. TypeInv /\ QuietInv /\ SlotInv /\ RecordInv /\ CallInv /\ HeldInv /\ CallsApart
            /\ WiringInv /\ [Next]_vars /\ [Apart]_vars => WiringInv'
    BY WiringSteps
  <1>4. QED
    BY <1>1, <1>2, <1>3, WiringInit, TypeInvHolds, SlotInvHolds, RecordInvHolds, CallInvHolds,
       HeldInvHolds, PTL DEF Spec

(* One thread that does all the hooking cannot be at work when it begins:  *)
(* where the library has a single caller, calls do not overlap.            *)
THEOREM OneThreadIsApart ==
    ASSUME \A t, u \in Threads : t = u
    PROVE  Spec => [][Apart]_vars
  <1>1. TypeInv /\ [Next]_vars => [Apart]_vars
    <2> SUFFICES ASSUME TypeInv, NEW t \in Threads, NEW m \in Targets,
                        Unhook(t, m) \/ \E r \in Replacements : Begin(t, m, r),
                        NEW u \in Threads
                 PROVE  ~Works(u, m)
      BY DEF Apart
    <2>1. u = t /\ hpc[t] = "idle" /\ pc[t] = "idle"
      BY DEF Unhook, Begin, Registry!RemoveStale, Registry!RemoveCheck
    <2>2. QED
      BY <2>1 DEF Works
  <1>2. QED
    BY <1>1, TypeInvHolds, PTL DEF Spec

-----------------------------------------------------------------------------
(* A call, hop by hop.                                                     *)

(* A set of numbers has a least one.                                       *)
LEMMA LeastNumber ==
    ASSUME NEW S, S \subseteq Nat, S # {}
    PROVE  \E i \in S : \A j \in S : i <= j
  <1>1. PICK i \in S : \A j \in S : ~(<<j, i>> \in OpToRel(<, Nat))
    BY NatLessThanWellFounded, WFMin
  <1>2. ASSUME NEW j \in S PROVE i <= j
    <2>1. ~(j < i)
      BY <1>1 DEF OpToRel
    <2>2. QED
      BY <2>1
  <1>3. QED
    BY <1>2

(* The bound on a call's hops is a number.                                 *)
LEMMA MaxHopsIsNat ==
    Cardinality(Trampolines) \in Nat /\ MaxHops \in Nat
      /\ MaxHops = 2 * Cardinality(Trampolines) + 2
  BY HookAssumption, FS_CardinalityType DEF MaxHops

\* The first n hops of a call of m, as a function.
Hops(m, n, f) == f = [k \in 0..n |-> IF k = 0 THEN At(m, entry[m]) ELSE Hop(m, f[k - 1])]

(* A call has every number of hops.                                        *)
LEMMA HopsExist ==
    ASSUME NEW m, NEW n \in Nat
    PROVE  \E f : Hops(m, n, f)
  <1> DEFINE S == {k \in Nat : ~\E f : Hops(m, k, f)}
  <1> SUFFICES ASSUME S # {}
               PROVE  FALSE
    OBVIOUS
  <1>1. S \subseteq Nat
    OBVIOUS
  <1>2. PICK k \in S : \A j \in S : k <= j
    <2> HIDE DEF S
    <2>1. QED
      BY <1>1, LeastNumber
  <1>3. CASE k = 0
    <2> DEFINE f == [j \in 0..0 |-> At(m, entry[m])]
    <2>1. f = [j \in 0..0 |-> IF j = 0 THEN At(m, entry[m]) ELSE Hop(m, f[j - 1])]
      <3> HIDE DEF At, Hop
      <3>1. QED
        OBVIOUS
    <2>2. Hops(m, 0, f)
      BY <2>1 DEF Hops
    <2>3. QED
      BY <1>3, <2>2
  <1>4. CASE k # 0
    <2>1. k - 1 \in Nat /\ k - 1 \notin S
      BY <1>2, <1>4
    <2>2. PICK f : Hops(m, k - 1, f)
      BY <2>1
    <2> DEFINE g == [j \in 0..k |-> IF j = 0 THEN At(m, entry[m]) ELSE Hop(m, f[j - 1])]
    <2>3. \A j \in 0..(k - 1) : f[j] = IF j = 0 THEN At(m, entry[m]) ELSE Hop(m, f[j - 1])
      <3> DEFINE h(j) == IF j = 0 THEN At(m, entry[m]) ELSE Hop(m, f[j - 1])
      <3>1. f = [j \in 0..(k - 1) |-> h(j)]
        BY <2>2 DEF Hops
      <3> HIDE DEF h
      <3>2. \A j \in 0..(k - 1) : f[j] = h(j)
        BY <3>1
      <3>3. QED
        BY <3>2 DEF h
    <2>4. ASSUME NEW j \in 0..k, j # 0
          PROVE  g[j - 1] = f[j - 1]
      <3>1. j - 1 \in 0..(k - 1) /\ j - 1 \in 0..k
        BY <2>4
      <3>2. QED
        BY <2>3, <3>1
    <2>5. g = [j \in 0..k |-> IF j = 0 THEN At(m, entry[m]) ELSE Hop(m, g[j - 1])]
      BY <2>4
    <2> HIDE DEF g
    <2>6. Hops(m, k, g)
      BY <2>5 DEF Hops
    <2>7. QED
      BY <2>6
  <1>5. QED
    BY <1>3, <1>4

(* Walk(m) is the call's hops up to the bound.                             *)
LEMMA WalkSteps ==
    ASSUME NEW m
    PROVE  /\ Walk(m)[0] = At(m, entry[m])
           /\ \A n \in 0..MaxHops : n # 0 => Walk(m)[n] = Hop(m, Walk(m)[n - 1])
  <1>1. MaxHops \in Nat
    BY MaxHopsIsNat
  <1>2. \E f : Hops(m, MaxHops, f)
    BY <1>1, HopsExist
  <1>3. Walk(m) = CHOOSE f : Hops(m, MaxHops, f)
    BY DEF Walk, Hops
  <1>4. Hops(m, MaxHops, Walk(m))
    BY <1>2, <1>3
  <1>5. PICK w : w = Walk(m)
    OBVIOUS
  <1> DEFINE h(j) == IF j = 0 THEN At(m, entry[m]) ELSE Hop(m, w[j - 1])
  <1>6. w = [j \in 0..MaxHops |-> h(j)]
    BY <1>4, <1>5 DEF Hops
  <1>7. \A j \in 0..MaxHops : w[j] = h(j)
    <2> HIDE DEF h
    <2>1. QED
      BY <1>6
  <1>8. 0 \in 0..MaxHops
    BY <1>1
  <1>9. QED
    BY <1>5, <1>7, <1>8

\* Where a call of m gets: to code, to a live hook or the thunk of its backup,
\* and from m's own body, or that of a replacement that calls no backup or one
\* that was inlined unchecked, back.
OnTrack(live, m, s) ==
    \/ /\ s.at = "done"
       /\ \/ s.method = m
          \/ s.method \in Replacements /\ BackupOf[s.method] = NoBackup
          \/ \E r \in Replacements : <<m, r>> \in unchecked /\ s.method = BackupOf[r]
    \/ s.at \in Code /\ s.method = m
    \/ s.at \in live[m]
    \/ s.at \in Trampolines /\ \E e \in Code \cup live[m] : thunk[s.at] = Direct(m, e)

(* What thunks do, as a call takes them.                                   *)
LEMMA ThunkFields ==
    /\ \A r : Indirect(r).kind = "indirect" /\ Indirect(r).method = r
    /\ \A m, e : /\ Direct(m, e).kind = "direct"
                 /\ Direct(m, e).method = m /\ Direct(m, e).at = e
    /\ \A m, e : At(m, e).method = m /\ At(m, e).at = e
  BY DEF Indirect, Direct, At

(* Through a live hook a call comes to the replacement's end, to that of a *)
(* backup inlined into it, or through the backup's slot to its thunk.      *)
LEMMA HopFromHook ==
    ASSUME TypeInv, NEW m \in Targets, NEW s, s.at \in Trampolines,
           NEW r \in Replacements, thunk[s.at] = Indirect(r)
    PROVE  /\ BackupOf[r] = NoBackup => Hop(m, s) = At(r, "done")
           /\ RejectsBackup(m, r) => Hop(m, s) = At(BackupOf[r], "done")
           /\ BackupOf[r] # NoBackup /\ ~RejectsBackup(m, r) =>
                 Hop(m, s) = At(BackupOf[r], entry[BackupOf[r]])
  <1>1. s.at # "stub" /\ thunk[s.at].kind = "indirect" /\ thunk[s.at].method = r
    BY HookAssumption, ThunkFields DEF Code
  <1>2. thunk[s.at].kind # "direct"
    BY <1>1
  <1>3. Hop(m, s) = RunReplacement(m, r)
    BY <1>1, <1>2 DEF Hop
  <1>4. RejectsBackup(m, r) => BackupOf[r] # NoBackup
    BY HookAssumption DEF RejectsBackup
  <1>5. QED
    BY <1>3, <1>4 DEF RunReplacement, RejectsBackup

(* Through a backup's thunk it comes to what the thunk was built with.     *)
LEMMA HopFromThunk ==
    ASSUME NEW m, NEW s, s.at \in Trampolines, NEW n, NEW e, thunk[s.at] = Direct(n, e)
    PROVE  Hop(m, s) = At(n, e)
  <1>1. /\ s.at # "stub" /\ thunk[s.at].kind = "direct"
        /\ thunk[s.at].method = n /\ thunk[s.at].at = e
    BY HookAssumption, ThunkFields DEF Code
  <1>2. thunk[s.at].kind # "indirect"
    BY <1>1
  <1>3. QED
    BY <1>1, <1>2 DEF Hop

(* From elsewhere it ends where it is, the stub aside.                     *)
LEMMA HopFromCode ==
    ASSUME NEW m, NEW s, s.at \in {"done", "body"}
    PROVE  Hop(m, s) = At(s.method, "done")
  <1>1. s.at # "stub" /\ s.at \notin Trampolines
    BY HookAssumption DEF Code
  <1>2. QED
    BY <1>1 DEF Hop

(* The track is not left.                                                  *)
LEMMA StaysOnTrack ==
    ASSUME TypeInv, NEW rank, NEW live \in Lives, Wiring(rank, live),
           NEW m \in Targets, NEW s, OnTrack(live, m, s)
    PROVE  OnTrack(live, m, Hop(m, s))
  <1>1. live[m] \subseteq Trampolines
    BY DEF Lives
  <1>2. CASE s.at = "done"
    <2>1. \/ s.method = m
          \/ s.method \in Replacements /\ BackupOf[s.method] = NoBackup
          \/ \E r \in Replacements : <<m, r>> \in unchecked /\ s.method = BackupOf[r]
      BY <1>1, <1>2, HookAssumption DEF OnTrack, Code
    <2>2. Hop(m, s) = At(s.method, "done")
      BY <1>2, HopFromCode
    <2>3. Hop(m, s).at = "done" /\ Hop(m, s).method = s.method
      BY <2>2, ThunkFields
    <2>4. QED
      BY <2>1, <2>3 DEF OnTrack
  <1>3. CASE s.at \in Code /\ s.method = m
    <2>1. CASE s.at = "body"
      <3>1. Hop(m, s) = At(m, "done")
        BY <1>3, <2>1, HopFromCode
      <3>2. QED
        BY <3>1, ThunkFields DEF OnTrack
    <2>2. CASE s.at = "stub"
      <3>1. Hop(m, s) = FromStub(m)
        <4>1. s.at \notin Trampolines /\ s.method = m
          BY <1>3, HookAssumption
        <4>2. QED
          BY <2>2, <4>1 DEF Hop
      <3>2. CASE entry[m] = "stub"
        BY <3>1, <3>2, ThunkFields DEF OnTrack, FromStub
      <3>3. CASE entry[m] # "stub"
        <4>1. Hop(m, s) = At(m, entry[m])
          BY <3>1, <3>3 DEF FromStub
        <4>2. entry[m] \in Code \cup live[m]
          BY DEF Wiring, SlotsAreLive, TypeInv, Registry!TypeOK, Registry!EntryPoint, Methods
        <4>3. QED
          BY <4>1, <4>2, ThunkFields DEF OnTrack
      <3>4. QED
        BY <3>2, <3>3
    <2>3. QED
      BY <1>3, <2>1, <2>2 DEF Code
  <1>4. CASE s.at \in live[m]
    <2>1. PICK r \in Replacements :
             /\ thunk[s.at] = Indirect(r)
             /\ Cleared(m, r)
             /\ BackupOf[r] # NoBackup =>
                   \E y \in made, e \in Code \cup live[m] : Captures(r, y, m, e)
      BY <1>4 DEF Wiring, LiveIsWired, Wired
    <2>2. CASE BackupOf[r] = NoBackup
      <3>1. Hop(m, s) = At(r, "done")
        BY <1>1, <1>4, <2>1, <2>2, HopFromHook
      <3>2. QED
        BY <2>2, <3>1, ThunkFields DEF OnTrack
    <2>3. CASE RejectsBackup(m, r)
      <3>1. Hop(m, s) = At(BackupOf[r], "done") /\ <<m, r>> \in unchecked
        BY <1>1, <1>4, <2>1, <2>3, HopFromHook DEF Cleared
      <3>2. QED
        BY <3>1, ThunkFields DEF OnTrack
    <2>4. CASE BackupOf[r] # NoBackup /\ ~RejectsBackup(m, r)
      <3>1. PICK y \in made, e \in Code \cup live[m] : Captures(r, y, m, e)
        BY <2>1, <2>4
      <3>2. Hop(m, s) = At(BackupOf[r], entry[BackupOf[r]])
        BY <1>1, <1>4, <2>1, <2>4, HopFromHook
      <3>3. Hop(m, s) = At(BackupOf[r], y) /\ y \in Trampolines /\ thunk[y] = Direct(m, e)
        BY <3>1, <3>2 DEF Captures, TypeInv, Registry!TypeOK
      <3>4. QED
        BY <3>1, <3>3, ThunkFields DEF OnTrack
    <2>5. QED
      BY <2>2, <2>3, <2>4
  <1>5. CASE s.at \in Trampolines /\ \E e \in Code \cup live[m] : thunk[s.at] = Direct(m, e)
    <2>1. PICK e \in Code \cup live[m] : thunk[s.at] = Direct(m, e)
      BY <1>5
    <2>2. Hop(m, s) = At(m, e)
      BY <1>5, <2>1, HopFromThunk
    <2>3. QED
      BY <2>1, <2>2, ThunkFields DEF OnTrack
  <1>6. QED
    BY <1>2, <1>3, <1>4, <1>5 DEF OnTrack

(* A number of hops up to which something holds of a call, and then always.*)
LEMMA AlongTheWalk ==
    ASSUME NEW good, good \subseteq 0..MaxHops, 0 \in good,
           \A n \in good : n + 1 <= MaxHops => n + 1 \in good
    PROVE  good = 0..MaxHops
  <1> DEFINE bad == (0..MaxHops) \ good
  <1> SUFFICES ASSUME bad # {}
               PROVE  FALSE
    OBVIOUS
  <1>1. bad \subseteq Nat
    OBVIOUS
  <1>2. PICK n \in bad : \A j \in bad : n <= j
    <2> HIDE DEF bad
    <2>1. QED
      BY <1>1, LeastNumber
  <1>3. n # 0 /\ n \in 0..MaxHops /\ MaxHops \in Nat
    BY <1>2, MaxHopsIsNat
  <1>4. n - 1 \in 0..MaxHops /\ n - 1 \notin bad
    BY <1>2, <1>3
  <1>5. n - 1 \in good /\ (n - 1) + 1 = n
    BY <1>3, <1>4
  <1>6. QED
    BY <1>2, <1>3, <1>5

(* So a call is on its track all along.                                    *)
LEMMA WalkIsOnTrack ==
    ASSUME TypeInv, NEW rank, NEW live \in Lives, Wiring(rank, live), NEW m \in Targets
    PROVE  \A n \in 0..MaxHops : OnTrack(live, m, Walk(m)[n])
  <1> DEFINE good == {n \in 0..MaxHops : OnTrack(live, m, Walk(m)[n])}
  <1>1. 0 \in good
    <2>1. 0 \in 0..MaxHops
      BY MaxHopsIsNat
    <2>2. entry[m] \in Code \cup live[m]
      BY DEF Wiring, SlotsAreLive, TypeInv, Registry!TypeOK, Registry!EntryPoint, Methods
    <2>3. OnTrack(live, m, Walk(m)[0])
      BY <2>2, WalkSteps, ThunkFields DEF OnTrack
    <2>4. QED
      BY <2>1, <2>3
  <1>2. ASSUME NEW n \in good, n + 1 <= MaxHops
        PROVE  n + 1 \in good
    <2>1. n + 1 \in 0..MaxHops /\ n + 1 # 0 /\ (n + 1) - 1 = n
      BY <1>2, MaxHopsIsNat
    <2>2. Walk(m)[n + 1] = Hop(m, Walk(m)[n])
      BY <2>1, WalkSteps
    <2>3. OnTrack(live, m, Walk(m)[n + 1])
      BY <1>2, <2>2, StaysOnTrack
    <2>4. QED
      BY <2>1, <2>3
  <1>3. good = 0..MaxHops
    <2>1. good \subseteq 0..MaxHops
      OBVIOUS
    <2> HIDE DEF good
    <2>2. QED
      BY <1>1, <1>2, <2>1, AlongTheWalk
  <1>4. QED
    BY <1>3

\* After n hops a call that has not ended still has a trampoline to descend
\* for each that it may enter: ranks fall along the way and start at most at
\* the number of trampolines.  Only the first hop may be the stub's.
Timely(rank, m, n, s) ==
    \/ s.at = "done"
    \/ s.at = "body" /\ n <= Cardinality(Trampolines) + 1
    \/ s.at = "stub" /\ n = 0 /\ entry[m] = "stub"
    \/ s.at \in Trampolines /\ n + rank[s.at] <= Cardinality(Trampolines)

(* A rank is at most the number of trampolines.                            *)
LEMMA RanksAreBounded ==
    ASSUME TypeInv, NEW rank \in Ranks, Ordered(rank), NEW x \in Trampolines
    PROVE  rank[x] \in Nat /\ rank[x] <= Cardinality(Trampolines)
  <1>1. made \subseteq Trampolines
    BY DEF TypeInv, Registry!TypeOK
  <1>2. Cardinality(made) \in Nat /\ Cardinality(made) <= Cardinality(Trampolines)
    BY <1>1, HookAssumption, FS_Subset, FS_CardinalityType
  <1>3. rank[x] \in Nat /\ rank[x] <= Cardinality(made)
    BY DEF Ranks, Ordered
  <1>4. QED
    BY <1>2, <1>3, MaxHopsIsNat

(* A call starts in time.                                                  *)
LEMMA StartsTimely ==
    ASSUME TypeInv, NEW rank \in Ranks, Ordered(rank), NEW m \in Targets
    PROVE  Timely(rank, m, 0, At(m, entry[m]))
  <1>1. entry[m] \in {"stub", "body"} \cup Trampolines
    BY DEF TypeInv, Registry!TypeOK, Registry!EntryPoint, Methods, Code
  <1>2. CASE entry[m] \in Trampolines
    BY <1>2, RanksAreBounded, ThunkFields DEF Timely
  <1>3. CASE entry[m] = "body"
    BY <1>3, MaxHopsIsNat, ThunkFields DEF Timely
  <1>4. CASE entry[m] = "stub"
    BY <1>4, ThunkFields DEF Timely
  <1>5. QED
    BY <1>1, <1>2, <1>3, <1>4

(* And stays in time, unless a backup captured the stub.                   *)
LEMMA StaysTimely ==
    ASSUME TypeInv, NEW rank \in Ranks, NEW live \in Lives, Wiring(rank, live),
           NEW m \in Targets, ~CapturedTheStub(m), NEW s, OnTrack(live, m, s),
           NEW n \in Nat, Timely(rank, m, n, s)
    PROVE  Timely(rank, m, n + 1, Hop(m, s))
  <1>1. live[m] \subseteq Trampolines
    BY DEF Lives
  <1>2. Cardinality(Trampolines) \in Nat
    BY MaxHopsIsNat
  <1>3. CASE s.at \in {"done", "body"}
    BY <1>3, HopFromCode, ThunkFields DEF Timely
  <1>4. CASE s.at = "stub"
    <2>1. s.at \notin Trampolines /\ s.at # "done" /\ s.at # "body"
      BY <1>4, HookAssumption DEF Code
    <2>2. entry[m] = "stub"
      BY <2>1 DEF Timely
    <2>3. s.method = m
      BY <1>1, <2>1 DEF OnTrack
    <2>4. Hop(m, s) = FromStub(m)
      BY <1>4, <2>1, <2>3 DEF Hop
    <2>5. QED
      BY <2>2, <2>4, ThunkFields DEF FromStub, Timely
  <1>5. CASE s.at \in Trampolines
    <2>1. /\ s.at # "done" /\ s.at # "stub" /\ s.at # "body"
          /\ n + rank[s.at] <= Cardinality(Trampolines)
      BY <1>5, HookAssumption DEF Timely, Code
    <2>2. rank[s.at] \in Nat
      BY <1>5 DEF Ranks
    <2>3. CASE s.at \in live[m]
      <3>1. PICK r \in Replacements :
               /\ thunk[s.at] = Indirect(r)
               /\ BackupOf[r] # NoBackup =>
                     \E y \in made, e \in Code \cup live[m] :
                         Captures(r, y, m, e) /\ rank[y] < rank[s.at]
        BY <2>3 DEF Wiring, LiveIsWired, Wired
      <3>2. CASE BackupOf[r] = NoBackup \/ RejectsBackup(m, r)
        <4>1. Hop(m, s) \in {At(r, "done"), At(BackupOf[r], "done")}
          BY <1>5, <3>1, <3>2, HopFromHook
        <4>2. QED
          BY <4>1, ThunkFields DEF Timely
      <3>3. CASE BackupOf[r] # NoBackup /\ ~RejectsBackup(m, r)
        <4>1. PICK y \in made : entry[BackupOf[r]] = y /\ rank[y] < rank[s.at]
          BY <3>1, <3>3 DEF Captures
        <4>2. Hop(m, s) = At(BackupOf[r], y) /\ y \in Trampolines /\ rank[y] \in Nat
          BY <1>5, <3>1, <3>3, <4>1, HopFromHook DEF Ranks, TypeInv, Registry!TypeOK
        <4>3. (n + 1) + rank[y] <= Cardinality(Trampolines)
          BY <1>2, <2>1, <2>2, <4>1, <4>2
        <4>4. QED
          BY <4>2, <4>3, ThunkFields DEF Timely
      <3>4. QED
        BY <3>2, <3>3
    <2>4. CASE s.at \notin live[m]
      <3>1. PICK e \in Code \cup live[m] : thunk[s.at] = Direct(m, e)
        BY <1>5, <2>1, <2>4, HookAssumption DEF OnTrack
      <3>2. Hop(m, s) = At(m, e)
        BY <1>5, <3>1, HopFromThunk
      <3>3. e # "stub"
        BY <1>5, <3>1 DEF CapturedTheStub
      <3>4. CASE e = "body"
        <4>1. n + 1 <= Cardinality(Trampolines) + 1
          BY <1>2, <2>1, <2>2
        <4>2. QED
          BY <3>2, <3>4, <4>1, ThunkFields DEF Timely
      <3>5. CASE e \in Trampolines
        <4>1. rank[e] < rank[s.at] /\ rank[e] \in Nat
          BY <1>5, <3>1, <3>5 DEF Wiring, Ordered, Ranks
        <4>2. (n + 1) + rank[e] <= Cardinality(Trampolines)
          BY <1>2, <2>1, <2>2, <4>1
        <4>3. QED
          BY <3>2, <3>5, <4>2, ThunkFields DEF Timely
      <3>6. QED
        BY <1>1, <3>1, <3>3, <3>4, <3>5 DEF Code
    <2>5. QED
      BY <2>3, <2>4
  <1>6. QED
    BY <1>3, <1>4, <1>5 DEF Timely

(* So it has ended by the bound.                                           *)
LEMMA WalkEnds ==
    ASSUME TypeInv, NEW rank \in Ranks, NEW live \in Lives, Wiring(rank, live),
           NEW m \in Targets, ~CapturedTheStub(m)
    PROVE  EndOf(m).at = "done"
  <1> DEFINE good == {n \in 0..MaxHops : Timely(rank, m, n, Walk(m)[n])}
  <1>1. 0 \in good
    <2>1. 0 \in 0..MaxHops
      BY MaxHopsIsNat
    <2>2. Timely(rank, m, 0, Walk(m)[0])
      BY WalkSteps, StartsTimely DEF Wiring
    <2>3. QED
      BY <2>1, <2>2
  <1>2. ASSUME NEW n \in good, n + 1 <= MaxHops
        PROVE  n + 1 \in good
    <2>1. n \in Nat /\ n + 1 \in 0..MaxHops /\ n + 1 # 0 /\ (n + 1) - 1 = n
      BY <1>2, MaxHopsIsNat
    <2>2. Walk(m)[n + 1] = Hop(m, Walk(m)[n])
      BY <2>1, WalkSteps
    <2>3. OnTrack(live, m, Walk(m)[n])
      BY <1>2, WalkIsOnTrack
    <2>4. Timely(rank, m, n, Walk(m)[n])
      BY <1>2
    <2>5. Timely(rank, m, n + 1, Walk(m)[n + 1])
      <3> HIDE DEF good
      <3>1. QED
        BY <2>1, <2>2, <2>3, <2>4, StaysTimely
    <2>6. QED
      BY <2>1, <2>5
  <1>3. good = 0..MaxHops
    <2>1. good \subseteq 0..MaxHops
      OBVIOUS
    <2> HIDE DEF good
    <2>2. QED
      BY <1>1, <1>2, <2>1, AlongTheWalk
  <1>4. Timely(rank, m, MaxHops, EndOf(m))
    BY <1>3, MaxHopsIsNat DEF EndOf
  <1>5. ASSUME EndOf(m).at \in Trampolines
        PROVE  rank[EndOf(m).at] \in Nat
    BY <1>5 DEF Ranks
  <1>6. QED
    BY <1>4, <1>5, MaxHopsIsNat DEF Timely

(* A call that comes to a hook whose replacement calls its backup comes,   *)
(* two hops on, to the hook that it displaced.                             *)
LEMMA PassesOn ==
    ASSUME TypeInv, NEW rank \in Ranks, NEW live \in Lives, Wiring(rank, live),
           NEW m \in Targets, NEW j \in 1..Len(hooks), hooks[j].target = m,
           hooks[j].installed_entry \in live[m], hooks[j].previous_entry \in Trampolines,
           CallsThrough(j), NEW s, s.at = hooks[j].installed_entry
    PROVE  /\ Hop(m, Hop(m, s)) = At(m, hooks[j].previous_entry)
           /\ hooks[j].previous_entry \in live[m]
           /\ rank[hooks[j].previous_entry] + 2 <= rank[hooks[j].installed_entry]
  <1> DEFINE x == hooks[j].installed_entry
             e == hooks[j].previous_entry
  <1>1. x \in Trampolines /\ e \in Trampolines /\ live[m] \subseteq Trampolines
    BY DEF Lives
  <1>2. PICK r \in Replacements :
           /\ thunk[x] = Indirect(r)
           /\ Cleared(m, r)
           /\ BackupOf[r] # NoBackup =>
                 \E y \in made, f \in Code \cup live[m] : Captures(r, y, m, f) /\ rank[y] < rank[x]
    BY DEF Wiring, LiveIsWired, Wired
  <1>3. NamedBy(j) = r
    BY <1>2, ThunkFields DEF NamedBy
  <1>4. BackupOf[r] # NoBackup /\ ~RejectsBackup(m, r)
    BY <1>2, <1>3 DEF CallsThrough, Cleared
  <1>5. /\ e \in live[m]
        /\ \E y \in made : Captures(r, y, m, e)
    <2>1. OnChain(rank, live, hooks[j])
      BY DEF Wiring, ChainsAreLive
    <2>2. QED
      BY <1>2, <1>4, <2>1 DEF OnChain
  <1>6. PICK y \in made : Captures(r, y, m, e)
    BY <1>5
  <1>7. rank[y] < rank[x]
    BY <1>2, <1>4, <1>6 DEF Captures
  <1>8. y \in Trampolines /\ entry[BackupOf[r]] = y /\ thunk[y] = Direct(m, e)
    BY <1>6 DEF Captures, TypeInv, Registry!TypeOK
  <1>9. rank[e] < rank[y]
    BY <1>1, <1>8 DEF Wiring, Ordered
  <1>10. rank[x] \in Nat /\ rank[y] \in Nat /\ rank[e] \in Nat
    BY <1>1, <1>8 DEF Ranks
  <1>11. Hop(m, s) = At(BackupOf[r], y)
    BY <1>1, <1>2, <1>4, <1>8, HopFromHook
  <1>12. Hop(m, Hop(m, s)) = At(m, e)
    BY <1>8, <1>11, ThunkFields, HopFromThunk
  <1>13. QED
    BY <1>5, <1>7, <1>9, <1>10, <1>12

(* So it enters every hook that stands below ones that call through.       *)
LEMMA StandingHooksAreEntered ==
    ASSUME TypeInv, RecordInv, NEW rank \in Ranks, NEW live \in Lives, Wiring(rank, live),
           NEW m \in Targets, NEW i \in 1..Len(hooks), hooks[i].target = m, Stands(i),
           \A j \in 1..Len(hooks) :
               j > i /\ hooks[j].target = m => CallsThrough(j)
    PROVE  hooks[i].installed_entry \in Entered(m)
  <1> DEFINE N == Cardinality(Trampolines)
             Reached(j) == \E n \in 0..N : /\ Walk(m)[n].at = hooks[j].installed_entry
                                           /\ n + rank[hooks[j].installed_entry] <= N
             S == {j \in i..Len(hooks) : /\ hooks[j].target = m
                                         /\ hooks[j].installed_entry \in live[m]
                                         /\ Reached(j)}
  <1>1. N \in Nat /\ MaxHops \in Nat /\ N + 2 <= MaxHops
    BY MaxHopsIsNat
  <1>2. /\ Len(hooks) \in Nat
        /\ \A j \in 1..Len(hooks) : hooks[j].installed_entry \in Trampolines
    <2>1. Len(hooks) \in Nat /\ \A j \in 1..Len(hooks) : hooks[j] \in Records
      BY RegistryShape
    <2>2. QED
      BY <2>1 DEF Records, Registry!Record
  <1>3. S # {}
    <2>1. PICK j \in 1..Len(hooks) :
             Registry!IsTop(hooks, j, m) /\ entry[m] = hooks[j].installed_entry
      BY DEF Stands, Registry!HookIsInstalled
    <2>2. hooks[j].target = m /\ j \in i..Len(hooks)
      BY <2>1, <1>2 DEF Registry!IsTop
    <2>3. hooks[j].installed_entry \in live[m]
      BY <2>1, <1>2 DEF Wiring, SlotsAreLive
    <2>4. Walk(m)[0].at = hooks[j].installed_entry
      BY <2>1, WalkSteps, ThunkFields
    <2>5. 0 \in 0..N /\ 0 + rank[hooks[j].installed_entry] <= N
      BY <1>1, <1>2, <2>1, RanksAreBounded DEF Wiring
    <2>6. Reached(j)
      BY <2>4, <2>5
    <2>7. QED
      BY <2>2, <2>3, <2>6
  <1>4. PICK j \in S : \A k \in S : j <= k
    <2>1. S \subseteq Nat
      BY <1>2
    <2> HIDE DEF S
    <2>2. QED
      BY <1>3, <2>1, LeastNumber
  <1>5. /\ j \in i..Len(hooks) /\ j \in 1..Len(hooks)
        /\ hooks[j].target = m /\ hooks[j].installed_entry \in live[m]
    BY <1>2, <1>4
  <1>6. PICK n \in 0..N : /\ Walk(m)[n].at = hooks[j].installed_entry
                          /\ n + rank[hooks[j].installed_entry] <= N
    BY <1>4
  <1>7. CASE j = i
    <2>1. n \in 0..MaxHops
      BY <1>1
    <2>2. Walk(m)[n].at \in {Walk(m)[k].at : k \in 0..MaxHops}
      BY <2>1
    <2>3. QED
      BY <1>2, <1>5, <1>6, <1>7, <2>2 DEF Entered
  <1>8. CASE j # i
    <2>1. j > i /\ j \in (i + 1)..Len(hooks)
      BY <1>2, <1>5, <1>8
    <2>2. hooks[j].previous_entry \in Trampolines
      BY <1>5, <2>1 DEF Stands
    <2>3. CallsThrough(j)
      BY <1>5, <2>1
    <2> DEFINE x == hooks[j].installed_entry
               e == hooks[j].previous_entry
    <2>4. /\ Hop(m, Hop(m, Walk(m)[n])) = At(m, e)
          /\ e \in live[m]
          /\ rank[e] + 2 <= rank[x]
      <3> HIDE DEF S
      <3>1. QED
        BY <1>5, <1>6, <2>2, <2>3, PassesOn
    <2>5. rank[x] \in Nat /\ rank[e] \in Nat
      BY <1>2, <1>5, <2>2 DEF Ranks
    <2>6. /\ n + 1 \in 0..MaxHops /\ n + 1 # 0 /\ (n + 1) - 1 = n
          /\ n + 2 \in 0..MaxHops /\ n + 2 # 0 /\ (n + 2) - 1 = n + 1
          /\ n + 2 \in 0..N /\ (n + 2) + rank[e] <= N
      <3>1. n + rank[x] <= N
        BY <1>6
      <3>2. n \in Nat /\ n + 2 + rank[e] <= N
        <4> HIDE DEF N, x, e, S
        <4>1. QED
          BY <1>1, <2>4, <2>5, <3>1
      <3>3. QED
        <4> HIDE DEF N, x, e, S
        <4>1. QED
          BY <1>1, <2>5, <3>2
    <2>7. Walk(m)[n + 1] = Hop(m, Walk(m)[n])
      BY <2>6, WalkSteps
    <2>8. Walk(m)[n + 2] = Hop(m, Walk(m)[n + 1])
      BY <2>6, WalkSteps
    <2>9. Walk(m)[n + 2].at = e
      BY <2>4, <2>7, <2>8, ThunkFields
    <2>10. PICK k \in 1..(j - 1) :
              Registry!NextBelow(hooks, k, j) /\ hooks[k].installed_entry = e
      BY <1>5, <2>2 DEF RecordInv, Registry!Linked
    <2>11. k < j /\ k \in i..Len(hooks) /\ hooks[k].target = m
      <3>1. k < j /\ k \in 1..Len(hooks) /\ hooks[k].target = m
        BY <1>2, <1>5, <2>10 DEF Registry!NextBelow
      <3>2. i \notin (k + 1)..(j - 1)
        BY <1>5, <2>10 DEF Registry!NextBelow
      <3>3. QED
        BY <1>2, <2>1, <3>1, <3>2
    <2>12. Reached(k)
      BY <2>6, <2>9, <2>10
    <2>13. k \in S
      BY <2>4, <2>10, <2>11, <2>12
    <2>14. j <= k
      <3> HIDE DEF S
      <3>1. QED
        BY <1>4, <2>13
    <2>15. QED
      BY <1>2, <1>5, <2>11, <2>14
  <1>9. QED
    BY <1>7, <1>8

-----------------------------------------------------------------------------
(* Where calls lead.                                                       *)

(* "The body a call ends in is the called method's own, or that of a       *)
(* replacement that calls no backup": however many threads hook and        *)
(* unhook, as long as no two do on one target at a time, no call of a      *)
(* target ends in another target, or in a backup but one whose shape could *)
(* not be checked, for any number of hooks and whatever ART writes         *)
(* (arthooks.cpp:86-91, arthooks.cpp:104-106).                             *)
THEOREM CallsEndInTheirOwnBody == Spec /\ [][Apart]_vars => []CallEndsInItsOwnBody
  <1>1. TypeInv /\ WiringInv => CallEndsInItsOwnBody
    <2> SUFFICES ASSUME TypeInv, WiringInv, NEW m \in Targets, EndOf(m).at = "done"
                 PROVE  \/ EndOf(m).method = m
                        \/ /\ EndOf(m).method \in Replacements
                           /\ BackupOf[EndOf(m).method] = NoBackup
                        \/ \E r \in Replacements :
                               <<m, r>> \in unchecked /\ EndOf(m).method = BackupOf[r]
      BY DEF CallEndsInItsOwnBody
    <2>1. PICK rank \in Ranks, live \in Lives : Wiring(rank, live)
      BY DEF WiringInv
    <2>2. OnTrack(live, m, EndOf(m))
      BY <2>1, WalkIsOnTrack, MaxHopsIsNat DEF EndOf
    <2>3. EndOf(m).at \notin Code \cup Trampolines /\ live[m] \subseteq Trampolines
      BY HookAssumption DEF Code, Lives
    <2>4. QED
      BY <2>2, <2>3 DEF OnTrack
  <1>2. QED
    BY <1>1, TypeInvHolds, WiringInvHolds, PTL

(* A call of a hooked method never runs around in circles: whatever number *)
(* of hooks was put in, lost and taken down, by calls that do not overlap  *)
(* on one target, it comes to the end of a body within two hops for each   *)
(* trampoline there is and two more -- unless the target was given up on,  *)
(* and a backup captured the stub (class_init.hpp:34-36,                   *)
(* class_init.cpp:176-178).                                                *)
THEOREM CallsAlwaysTerminate == Spec /\ [][Apart]_vars => []CallsTerminate
  <1>1. TypeInv /\ StubIsLeftFirst /\ WiringInv => CallsTerminate
    <2> SUFFICES ASSUME TypeInv, StubIsLeftFirst, WiringInv, NEW m \in Targets,
                        ~(m \in givenUp /\ CapturedTheStub(m))
                 PROVE  EndOf(m).at = "done"
      BY DEF CallsTerminate
    <2>1. ~CapturedTheStub(m)
      BY DEF StubIsLeftFirst
    <2>2. PICK rank \in Ranks, live \in Lives : Wiring(rank, live)
      BY DEF WiringInv
    <2>3. QED
      BY <2>1, <2>2, WalkEnds
  <1>2. QED
    BY <1>1, TypeInvHolds, StubIsAlwaysLeftFirst, WiringInvHolds, PTL

(* With no call in progress, and none on one target having overlapped,     *)
(* every hook that a call of a target enters is one that is recorded for   *)
(* that target: no hook that was taken down is reached any more, through a *)
(* slot or through a backup that captured it (ArtHooks.java:176-186).      *)
THEOREM OnlyRecordedHooksEverRun == Spec /\ [][Apart]_vars => []OnlyRecordedHooksRun
  <1>1. TypeInv /\ WiringInv => OnlyRecordedHooksRun
    <2> SUFFICES ASSUME TypeInv, WiringInv, Registry!LockIsFree, NEW m \in Targets,
                        NEW x \in Entered(m), thunk[x].kind = "indirect"
                 PROVE  \E i \in DOMAIN hooks :
                            hooks[i].target = m /\ hooks[i].installed_entry = x
      BY DEF OnlyRecordedHooksRun
    <2>1. PICK rank \in Ranks, live \in Lives : Wiring(rank, live)
      BY DEF WiringInv
    <2>2. PICK n \in 0..MaxHops : x = Walk(m)[n].at
      BY DEF Entered
    <2>3. x \in Trampolines
      BY DEF Entered
    <2>4. OnTrack(live, m, Walk(m)[n])
      BY <2>1, <2>2, WalkIsOnTrack
    <2>5. x \notin Code /\ x # "done"
      BY <2>3, HookAssumption
    <2>6. \A e : thunk[x] # Direct(m, e)
      BY ThunkFields
    <2>7. x \in live[m]
      BY <2>2, <2>4, <2>5, <2>6 DEF OnTrack
    <2>8. HasRecord(m, x)
      BY <2>1, <2>7 DEF Wiring, LiveIsRecorded
    <2>9. \A t \in Threads : pc[t] \notin Registry!InstallPC
      BY RegistryShape DEF Registry!LockIsFree, Registry!InstallPC
    <2>10. DOMAIN hooks = 1..Len(hooks)
      BY RegistryShape
    <2>11. QED
      BY <2>8, <2>9, <2>10 DEF HasRecord
  <1>2. QED
    BY <1>1, TypeInvHolds, WiringInvHolds, PTL

(* With no call in progress, and none on one target having overlapped, a   *)
(* call of a target passes every hook of it that still stands, down to the *)
(* first whose replacement calls no backup, or one that was not checked:   *)
(* hooks of one method stack, to any depth.                                *)
THEOREM NoStandingHookIsEverBypassed == Spec /\ [][Apart]_vars => []NoStandingHookIsBypassed
  <1>1. TypeInv /\ QuietInv /\ RecordInv /\ WiringInv => NoStandingHookIsBypassed
    <2> SUFFICES ASSUME TypeInv, QuietInv, RecordInv, WiringInv,
                        NEW i \in DOMAIN hooks, Stands(i),
                        \A j \in DOMAIN hooks :
                            j > i /\ hooks[j].target = hooks[i].target => CallsThrough(j)
                 PROVE  hooks[i].installed_entry \in Entered(hooks[i].target)
      BY DEF NoStandingHookIsBypassed
    <2>1. PICK rank \in Ranks, live \in Lives : Wiring(rank, live)
      BY DEF WiringInv
    <2>2. DOMAIN hooks = 1..Len(hooks)
      BY RegistryShape
    <2>3. i \in 1..Len(hooks)
      BY <2>2
    <2>4. PICK m \in Targets : hooks[i].target = m
      BY <2>1, <2>3, RecordsAreMade DEF Wiring
    <2>5. \A j \in 1..Len(hooks) : j > i /\ hooks[j].target = m => CallsThrough(j)
      BY <2>2, <2>4
    <2>6. hooks[i].installed_entry \in Entered(m)
      BY <2>1, <2>3, <2>4, <2>5, StandingHooksAreEntered
    <2>7. QED
      BY <2>4, <2>6
  <1>2. QED
    BY <1>1, TypeInvHolds, SlotInvHolds, RecordInvHolds, WiringInvHolds, PTL
===============================================================================
