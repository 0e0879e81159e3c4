-------------------------- MODULE DisableAot_proofs --------------------------
(***************************************************************************)
(* disable_aot_code(), for any number of threads calling it, any methods   *)
(* and hooks, and whatever libart exports: what the suspension protects,   *)
(* what the order of the static initialiser does, what becomes of hooks,   *)
(* and why a call that works with half of the symbols does not keep the    *)
(* work from being done.                                                   *)
(***************************************************************************)
EXTENDS DisableAot, SequenceTheorems, TLAPS

USE DEF asideVars, symbolVars, slotVars, outcomeVars, clinitVars, hookVars, callVars,
        At, Goto, Return

\* The steps of one thread in its call: it looks symbols up, decides what is
\* to be done, does it with the others suspended, and returns.
Looks(t) == \/ TestResolved(t) \/ FlagResolved(t) \/ LookForLibart(t)
            \/ StoreSymbols(t) \/ FindNothing(t) \/ StoreNull(t)
Decides(t) == CanDisable(t) \/ MarkJavaDebuggable(t) \/ PlanLinkedCodeDrop(t)
Works(t) == \/ SuspendAll(t) \/ OpenSlot(t) \/ WriteSlot(t) \/ DeoptimizeBootImage(t)
            \/ RestoreSlot(t) \/ UpdateEntrypoints(t)
Ends(t) == Refuse(t) \/ CannotDrop(t) \/ ResumeAll(t)
Calls(t) == LoadClass(t) \/ CallAgain(t) \/ Proceed(t)

LEMMA CallsSplit ==
    ASSUME NEW t, Calls(t)
    PROVE  \/ LoadClass(t) \/ CallAgain(t)
           \/ Looks(t) \/ Decides(t) \/ Works(t) \/ Ends(t) \/ NullIsUsed(t)
  BY Zenon DEF Calls, Proceed, Looks, Decides, Works, Ends

\* The steps of hooks and of the class linker, which no call takes.
Registers ==
    \/ \E t \in Threads : RegistryProceeds(t)
    \/ \E t \in Threads, m \in Methods : BeginHook(t, m) \/ BeginUnhook(t, m)
    \/ \E t \in Threads, b \in App : WireBackup(t, b)

LEMMA NextSplit ==
    ASSUME [Next]_vars
    PROVE  (\E t \in Threads : Calls(t)) \/ Registers \/ (\E m \in App : LinkCode(m))
              \/ UNCHANGED vars
  BY Zenon DEF Next, Calls, Registers, Crashed

-----------------------------------------------------------------------------
(* What each kind of step leaves alone.                                    *)

LEMMA LooksChange ==
    ASSUME NEW t, Looks(t)
    PROVE  /\ ~crashed
           /\ UNCHANGED <<asideVars, slotVars, outcomeVars, clinitVars, suspended, code, plan,
                          refused>>
<1>1. CASE TestResolved(t) \/ FlagResolved(t)
  BY <1>1 DEF TestResolved, FlagResolved
<1>2. CASE LookForLibart(t)
  BY <1>2 DEF LookForLibart
<1>3. CASE StoreSymbols(t) \/ FindNothing(t) \/ StoreNull(t)
  BY <1>3 DEF StoreSymbols, FindNothing, StoreNull
<1> QED BY <1>1, <1>2, <1>3, Zenon DEF Looks

LEMMA DecidesChange ==
    ASSUME NEW t, Decides(t)
    PROVE  /\ ~crashed
           /\ UNCHANGED <<asideVars, symbolVars, slotVars, dropped, clinitVars, suspended, code,
                          refused>>
  BY DEF Decides, CanDisable, MarkJavaDebuggable, PlanLinkedCodeDrop

LEMMA WorksChange ==
    ASSUME NEW t, Works(t)
    PROVE  /\ ~crashed
           /\ UNCHANGED <<asideVars, symbolVars, disabled, debuggable, clinitVars, refused>>
<1>1. CASE SuspendAll(t) \/ OpenSlot(t)
  BY <1>1 DEF SuspendAll, OpenSlot
<1>2. CASE WriteSlot(t) \/ RestoreSlot(t)
  BY <1>2 DEF WriteSlot, RestoreSlot
<1>3. CASE DeoptimizeBootImage(t) \/ UpdateEntrypoints(t)
  BY <1>3 DEF DeoptimizeBootImage, UpdateEntrypoints
<1> QED BY <1>1, <1>2, <1>3, Zenon DEF Works

LEMMA EndsChange ==
    ASSUME NEW t, Ends(t)
    PROVE  /\ ~crashed /\ dpc[t] # "idle"
           /\ Goto(t, "idle")
           /\ plan' = [plan EXCEPT ![t] = "none"]
           /\ loader' = NoThread /\ loaded' = TRUE
           /\ UNCHANGED <<asideVars, symbolVars, slotVars, outcomeVars, code>>
  BY DEF Ends, Refuse, CannotDrop, ResumeAll

\* Calls leave hooks and whatever libart is alone, and only rise the flags.
LEMMA CallsChange ==
    ASSUME NEW t, Calls(t)
    PROVE  /\ UNCHANGED <<lib, mode, hookVars>>
           /\ ~crashed
           /\ (~NullIsUsed(t) => crashed' = crashed)
<1>1. CASE LoadClass(t) \/ CallAgain(t)
  BY <1>1 DEF LoadClass, CallAgain
<1>2. CASE NullIsUsed(t)
  BY <1>2 DEF NullIsUsed
<1>3. CASE Looks(t)
  BY <1>3, LooksChange
<1>4. CASE Decides(t)
  BY <1>4, DecidesChange
<1>5. CASE Works(t)
  BY <1>5, WorksChange
<1>6. CASE Ends(t)
  BY <1>6, EndsChange
<1> QED BY <1>1, <1>2, <1>3, <1>4, <1>5, <1>6, CallsSplit, Zenon

LEMMA RegistersChange ==
    ASSUME Registers
    PROVE  UNCHANGED <<lib, mode, crashed, callVars>> /\ ~crashed
  BY DEF Registers, RegistryProceeds, BeginHook, BeginUnhook, WireBackup, Hooks

\* Only two steps of a call write entry points, one of which takes the code for
\* dropped.
LEMMA FewStepsWriteCode ==
    ASSUME NEW t, Calls(t), ~DeoptimizeBootImage(t), ~UpdateEntrypoints(t)
    PROVE  code' = code /\ dropped' = dropped
<1>1. CASE LoadClass(t) \/ CallAgain(t)
  BY <1>1 DEF LoadClass, CallAgain
<1>2. CASE NullIsUsed(t)
  BY <1>2 DEF NullIsUsed
<1>3. CASE Looks(t)
  BY <1>3, LooksChange
<1>4. CASE Decides(t)
  BY <1>4, DecidesChange
<1>5. CASE SuspendAll(t) \/ OpenSlot(t) \/ WriteSlot(t) \/ RestoreSlot(t)
  BY <1>5 DEF SuspendAll, OpenSlot, WriteSlot, RestoreSlot
<1>6. CASE Ends(t)
  BY <1>6, EndsChange
<1> QED BY <1>1, <1>2, <1>3, <1>4, <1>5, <1>6, CallsSplit, Zenon DEF Works

-----------------------------------------------------------------------------
(* Types, and what each place in the call knows.                           *)

LookingUp == {"lookup", "flag_libart", "find", "store_null"}
Window == {"redirect", "write_slot", "deoptimize", "restore", "update", "resume"}
Marked == {"plan", "suspend"} \cup Window
Places == {"idle", "resolve", "flag", "can", "mark"} \cup LookingUp \cup Marked

Globals ==
    /\ lib \in Library
    /\ mode \in {"auto", "keep_aot", "unavailable"}
    /\ loader \in Threads \cup {NoThread}
    /\ suspended \in Threads \cup {NoThread}
    /\ slot \in {"art", "capture"} /\ slotPage \in {"ro", "rw"}
    /\ original \in {"null", "art", "capture"}
    /\ capturing \in Threads \cup {NoThread}
    /\ captured \in Pointer \cup {"null"}

\* The symbols that were found, and when there are any.
Found ==
    /\ symbols \subseteq {g \in Groups : lib[g]}
    /\ symbols # {} => resolved /\ filled
    /\ filled => looked

Flags ==
    /\ loaded \in BOOLEAN /\ resolved \in BOOLEAN /\ looked \in BOOLEAN /\ filled \in BOOLEAN
    /\ disabled \in BOOLEAN /\ dropped \in BOOLEAN /\ debuggable \in BOOLEAN
    /\ spoiled \in BOOLEAN /\ crashed \in BOOLEAN

Frames ==
    /\ dpc \in [Threads -> Places]
    /\ plan \in [Threads -> {"none", "ro", "rw"}]
    /\ next \in [Threads -> Groups \cup {"none"}]

HookTypes == Registry!TypeOK /\ early \subseteq Methods \X made

Types == Globals /\ Found /\ Flags /\ Frames /\ HookTypes

\* The slot's content was taken and is to be put back.
Redirecting(t) ==
    dpc[t] \in {"write_slot", "restore"} \/ (dpc[t] = "deoptimize" /\ Redirects(t))

\* The pointers that a place is about to call through are still there.
Armed(t) ==
    ~spoiled =>
        /\ dpc[t] = "mark" => "debugState" \in symbols
        /\ dpc[t] \in Window => "deoptimize" \in symbols
        /\ plan[t] # "none" => "update" \in symbols /\ "plt" \in symbols

Knows(t) ==
    /\ dpc[t] \in Window => suspended = t
    /\ dpc[t] \notin {"idle", "resolve", "flag"} => resolved
    /\ dpc[t] \in Marked => disabled
    /\ dpc[t] \in {"redirect", "write_slot", "restore"} => plan[t] # "none"
    /\ Redirecting(t) => original # "null"
    /\ dpc[t] \in LookingUp => next[t] \in Groups
    /\ dpc[t] = "find" => looked
    /\ dpc[t] # "idle" => pc[t] = "idle"

CallInv ==
    /\ Types
    /\ \A t \in Threads : Knows(t) /\ Armed(t)
    /\ ~loaded => hooks = <<>> /\ \A t \in Threads : pc[t] = "idle"
    /\ disabled => debuggable /\ resolved
    /\ dropped => debuggable
    /\ crashed => spoiled

LEMMA CallInvInit == Init => CallInv
<1> SUFFICES ASSUME Init PROVE CallInv
  OBVIOUS
<1>1. Globals /\ Found
  BY DisableAssumption DEF Init, Globals, Found
<1>2. Flags
  BY DEF Init, Flags
<1>3. Frames
  BY DEF Init, Frames, Places
<1>4. HookTypes
  <2>1. code \in [Methods -> Registry!EntryPoint] /\ [m \in Methods |-> "aot"] \in [Methods -> Code]
    BY DEF Init, Registry!EntryPoint, Code
  <2> QED BY <2>1, DisableAssumption DEF Init, HookTypes, Registry!TypeOK
<1> QED
  BY <1>1, <1>2, <1>3, <1>4
     DEF Init, CallInv, Types, Knows, Armed, Redirecting, LookingUp, Window, Marked

LEMMA GroupsInOrder ==
    /\ \A g \in Groups : Following[g] \in Groups \cup {"none"}
    /\ \A l \in Library, g \in Groups : l[g] \in BOOLEAN
  BY DEF Groups, Following, Library

LEMMA GlobalsTyped ==
    ASSUME CallInv, NEW t \in Threads, Calls(t)
    PROVE  Globals'
<1> USE DEF CallInv, Types, Globals
<1>1. CASE LoadClass(t) \/ CallAgain(t)
  BY <1>1 DEF LoadClass, CallAgain
<1>2. CASE Looks(t)
  BY <1>2, LooksChange
<1>3. CASE Decides(t)
  BY <1>3, DecidesChange
<1>4. CASE Ends(t)
  BY <1>4, EndsChange DEF Ends, Refuse, CannotDrop, ResumeAll
<1>5. CASE NullIsUsed(t)
  BY <1>5 DEF NullIsUsed
<1>6. CASE SuspendAll(t)
  BY <1>6 DEF SuspendAll
<1>7. CASE OpenSlot(t)
  BY <1>7 DEF OpenSlot
<1>8. CASE WriteSlot(t) \/ RestoreSlot(t)
  <2>1. plan[t] \in {"ro", "rw"} /\ original # "null"
    BY <1>8 DEF WriteSlot, RestoreSlot, Knows, Frames, Redirecting
  <2> QED BY <1>8, <2>1 DEF WriteSlot, RestoreSlot, Reprotect
<1>9. CASE DeoptimizeBootImage(t)
  BY <1>9 DEF DeoptimizeBootImage, Library
<1>10. CASE UpdateEntrypoints(t)
  BY <1>10 DEF UpdateEntrypoints
<1> QED
  <2> HIDE DEF CallInv, Types, Globals
  <2> QED
    BY <1>1, <1>2, <1>3, <1>4, <1>5, <1>6, <1>7, <1>8, <1>9, <1>10, CallsSplit, Zenon DEF Works

\* Pointers only come, unless a null replaces one.
LEMMA FoundTyped ==
    ASSUME CallInv, NEW t \in Threads, Calls(t)
    PROVE  /\ Found'
           /\ spoiled => spoiled'
           /\ ~spoiled' => symbols \subseteq symbols'
           /\ resolved => resolved' /\ (looked => looked') /\ (filled => filled')
<1> USE DEF CallInv, Types, Found, Flags
<1>0. lib' = lib
  BY CallsChange
<1>1. CASE LoadClass(t) \/ CallAgain(t)
  BY <1>1 DEF LoadClass, CallAgain
<1>2. CASE TestResolved(t) \/ FlagResolved(t) \/ FindNothing(t)
  BY <1>2 DEF TestResolved, FlagResolved, FindNothing
<1>3. CASE LookForLibart(t)
  BY <1>3 DEF LookForLibart, Knows
<1>4. CASE StoreSymbols(t)
  <2>1. next[t] \in Groups /\ resolved /\ filled
    BY <1>4 DEF StoreSymbols, Knows, LookingUp
  <2> QED BY <1>0, <1>4, <2>1 DEF StoreSymbols
<1>5. CASE StoreNull(t)
  <2>1. next[t] \in Groups /\ lib[next[t]] \in BOOLEAN
    BY <1>5, GroupsInOrder DEF StoreNull, Knows, LookingUp, Globals
  <2>2. /\ symbols' = symbols \ {next[t]} /\ (spoiled' <=> spoiled \/ lib[next[t]])
        /\ UNCHANGED <<resolved, looked, filled>>
    BY <1>5 DEF StoreNull
  <2>3. ~spoiled' => symbols' = symbols
    BY <2>1, <2>2
  <2> QED BY <1>0, <2>2, <2>3
<1>6. CASE Decides(t)
  BY <1>6, DecidesChange
<1>7. CASE Works(t)
  BY <1>7, WorksChange
<1>8. CASE Ends(t)
  BY <1>8, EndsChange
<1>9. CASE NullIsUsed(t)
  BY <1>9 DEF NullIsUsed
<1> QED
  <2> HIDE DEF CallInv, Types, Found
  <2> QED
    BY <1>1, <1>2, <1>3, <1>4, <1>5, <1>6, <1>7, <1>8, <1>9, CallsSplit, Zenon DEF Looks

LEMMA FlagsTyped ==
    ASSUME CallInv, NEW t \in Threads, Calls(t)
    PROVE  /\ Flags'
           /\ loaded => loaded'
           /\ disabled => disabled'
           /\ dropped => dropped'
<1> USE DEF CallInv, Types, Flags
<1>1. CASE LoadClass(t) \/ CallAgain(t)
  BY <1>1 DEF LoadClass, CallAgain
<1>2. CASE TestResolved(t) \/ FlagResolved(t) \/ FindNothing(t)
  BY <1>2 DEF TestResolved, FlagResolved, FindNothing
<1>3. CASE LookForLibart(t) \/ StoreSymbols(t)
  BY <1>3 DEF LookForLibart, StoreSymbols
<1>4. CASE StoreNull(t)
  <2>1. lib[next[t]] \in BOOLEAN
    BY <1>4, GroupsInOrder DEF StoreNull, Knows, LookingUp, Globals
  <2> QED BY <1>4, <2>1 DEF StoreNull
<1>5. CASE Decides(t)
  BY <1>5 DEF Decides, CanDisable, MarkJavaDebuggable, PlanLinkedCodeDrop
<1>6. CASE SuspendAll(t) \/ OpenSlot(t) \/ WriteSlot(t)
  BY <1>6 DEF SuspendAll, OpenSlot, WriteSlot
<1>7. CASE DeoptimizeBootImage(t) \/ RestoreSlot(t)
  BY <1>7 DEF DeoptimizeBootImage, RestoreSlot
<1>8. CASE UpdateEntrypoints(t)
  BY <1>8 DEF UpdateEntrypoints
<1>9. CASE Ends(t)
  BY <1>9, EndsChange
<1>10. CASE NullIsUsed(t)
  BY <1>10 DEF NullIsUsed
<1> QED
  <2> HIDE DEF CallInv, Types, Flags
  <2> QED
    BY <1>1, <1>2, <1>3, <1>4, <1>5, <1>6, <1>7, <1>8, <1>9, <1>10, CallsSplit, Zenon
       DEF Looks, Works

LEMMA FramesTyped ==
    ASSUME CallInv, NEW t \in Threads, Calls(t)
    PROVE  Frames'
<1> USE DEF CallInv, Types, Frames, Places, LookingUp, Marked, Window
<1>1. CASE LoadClass(t) \/ CallAgain(t)
  BY <1>1 DEF LoadClass, CallAgain
<1>2. CASE TestResolved(t) \/ FindNothing(t) \/ LookForLibart(t)
  BY <1>2 DEF TestResolved, FindNothing, LookForLibart
<1>3. CASE FlagResolved(t)
  BY <1>3 DEF FlagResolved, Groups
<1>4. CASE StoreSymbols(t) \/ StoreNull(t)
  <2>1. Following[next[t]] \in Groups \cup {"none"}
    BY <1>4, GroupsInOrder DEF StoreSymbols, StoreNull, Knows
  <2> QED BY <1>4, <2>1 DEF StoreSymbols, StoreNull, NextGroup
<1>5. CASE CanDisable(t) \/ MarkJavaDebuggable(t)
  BY <1>5 DEF CanDisable, MarkJavaDebuggable
<1>6. CASE PlanLinkedCodeDrop(t)
  BY <1>6 DEF PlanLinkedCodeDrop, Globals
<1>7. CASE SuspendAll(t) \/ OpenSlot(t) \/ WriteSlot(t)
  BY <1>7 DEF SuspendAll, OpenSlot, WriteSlot
<1>8. CASE DeoptimizeBootImage(t) \/ RestoreSlot(t)
  BY <1>8 DEF DeoptimizeBootImage, RestoreSlot
<1>9. CASE UpdateEntrypoints(t)
  BY <1>9 DEF UpdateEntrypoints
<1>10. CASE Ends(t)
  BY <1>10, EndsChange
<1>11. CASE NullIsUsed(t)
  BY <1>11 DEF NullIsUsed
<1> QED
  <2> HIDE DEF CallInv, Types, Frames
  <2> QED
    BY <1>1, <1>2, <1>3, <1>4, <1>5, <1>6, <1>7, <1>8, <1>9, <1>10, <1>11, CallsSplit, Zenon
       DEF Looks, Decides, Works

\* What ART writes is not a trampoline; a call of this writes nothing else.
LEMMA CallsWriteCode ==
    ASSUME CallInv, NEW t \in Threads, Calls(t)
    PROVE  /\ HookTypes'
           /\ \A m \in Methods : code'[m] # code[m] => code'[m] = "interpreter"
<1> USE DEF CallInv, Types, HookTypes, Registry!TypeOK
<1>1. code \in [Methods -> Registry!EntryPoint] /\ "interpreter" \in Registry!EntryPoint
  BY DEF Registry!EntryPoint, Code
<1>2. /\ code' \in [Methods -> Registry!EntryPoint]
      /\ \A m \in Methods : code'[m] # code[m] => code'[m] = "interpreter"
  <2> HIDE DEF CallInv
  <2>1. CASE DeoptimizeBootImage(t)
    BY <1>1, <2>1 DEF DeoptimizeBootImage
  <2>2. CASE UpdateEntrypoints(t)
    BY <1>1, <2>2 DEF UpdateEntrypoints
  <2>3. CASE ~DeoptimizeBootImage(t) /\ ~UpdateEntrypoints(t)
    BY <1>1, <2>3, FewStepsWriteCode
  <2> QED BY <2>1, <2>2, <2>3
<1>3. UNCHANGED hookVars
  BY CallsChange
<1> QED BY <1>2, <1>3

-----------------------------------------------------------------------------
(* What each place in the call knows, after a step of some call.           *)

\* What a thread standing still relies on is left alone.
LEMMA OthersKeepKnowing ==
    ASSUME CallInv, NEW t \in Threads, Calls(t), NEW u \in Threads, u # t
    PROVE  Knows(u)' /\ Armed(u)'
<1> USE DEF CallInv, Types, Frames
<1>1. dpc'[u] = dpc[u] /\ plan'[u] = plan[u] /\ next'[u] = next[u]
  <2>1. CASE LoadClass(t) \/ CallAgain(t)
    BY <2>1 DEF LoadClass, CallAgain
  <2>2. CASE TestResolved(t) \/ FlagResolved(t) \/ FindNothing(t) \/ LookForLibart(t)
    BY <2>2 DEF TestResolved, FlagResolved, FindNothing, LookForLibart
  <2>3. CASE StoreSymbols(t) \/ StoreNull(t)
    BY <2>3 DEF StoreSymbols, StoreNull, NextGroup
  <2>4. CASE Decides(t)
    BY <2>4 DEF Decides, CanDisable, MarkJavaDebuggable, PlanLinkedCodeDrop
  <2>5. CASE SuspendAll(t) \/ OpenSlot(t) \/ WriteSlot(t)
    BY <2>5 DEF SuspendAll, OpenSlot, WriteSlot
  <2>6. CASE DeoptimizeBootImage(t) \/ RestoreSlot(t) \/ UpdateEntrypoints(t)
    BY <2>6 DEF DeoptimizeBootImage, RestoreSlot, UpdateEntrypoints
  <2>7. CASE Ends(t)
    <3>1. /\ dpc' = [dpc EXCEPT ![t] = "idle"]
          /\ plan' = [plan EXCEPT ![t] = "none"]
          /\ next' = next
      BY <2>7, EndsChange
    <3> QED BY <3>1
  <2>8. CASE NullIsUsed(t)
    BY <2>8 DEF NullIsUsed
  <2> QED
    <3> HIDE DEF CallInv, Types, Frames
    <3> QED
      BY <2>1, <2>2, <2>3, <2>4, <2>5, <2>6, <2>7, <2>8, CallsSplit, Zenon DEF Looks, Works
<1>2. pc' = pc
  BY CallsChange
<1>3. /\ dpc[u] \in Window => suspended' = u /\ original' = original
      /\ suspended = u => suspended' = suspended
  <2> USE DEF Window, Knows
  <2>1. CASE LoadClass(t) \/ CallAgain(t)
    BY <2>1 DEF LoadClass, CallAgain
  <2>2. CASE Looks(t)
    BY <2>2, LooksChange
  <2>3. CASE Decides(t)
    BY <2>3, DecidesChange
  <2>4. CASE SuspendAll(t)
    BY <2>4, DisableAssumption DEF SuspendAll
  <2>5. CASE OpenSlot(t) \/ WriteSlot(t) \/ DeoptimizeBootImage(t)
    BY <2>5 DEF OpenSlot, WriteSlot, DeoptimizeBootImage
  <2>6. CASE RestoreSlot(t) \/ UpdateEntrypoints(t) \/ ResumeAll(t)
    BY <2>6 DEF RestoreSlot, UpdateEntrypoints, ResumeAll
  <2>7. CASE Refuse(t) \/ CannotDrop(t)
    BY <2>7 DEF Refuse, CannotDrop
  <2>8. CASE NullIsUsed(t)
    BY <2>8 DEF NullIsUsed
  <2> QED
    <3> HIDE DEF CallInv, Types, Frames, Window, Knows
    <3> QED
      BY <2>1, <2>2, <2>3, <2>4, <2>5, <2>6, <2>7, <2>8, CallsSplit, Zenon DEF Ends, Works
<1>4. Knows(u)'
  BY <1>1, <1>2, <1>3, FoundTyped, FlagsTyped DEF Knows, Redirecting, Redirects, Window
<1>5. Armed(u)'
  BY <1>1, FoundTyped DEF Armed, Flags
<1> QED BY <1>4, <1>5

LEMMA CallerKnows ==
    ASSUME CallInv, NEW t \in Threads, Calls(t)
    PROVE  Knows(t)'
<1> USE DEF CallInv, Types, Frames, Knows, LookingUp, Window, Marked, Redirecting, Redirects
<1>0. pc' = pc
  BY CallsChange
<1>1. CASE LoadClass(t)
  BY <1>0, <1>1 DEF LoadClass, Flags
<1>2. CASE CallAgain(t)
  BY <1>0, <1>2 DEF CallAgain
<1>3. CASE TestResolved(t) \/ FlagResolved(t)
  BY <1>0, <1>3 DEF TestResolved, FlagResolved, Groups
<1>4. CASE LookForLibart(t) \/ FindNothing(t)
  BY <1>0, <1>4 DEF LookForLibart, FindNothing
<1>5. CASE StoreSymbols(t) \/ StoreNull(t)
  <2>1. Following[next[t]] \in Groups \cup {"none"}
    BY <1>5, GroupsInOrder DEF StoreSymbols, StoreNull
  <2> QED BY <1>0, <1>5, <2>1 DEF StoreSymbols, StoreNull, NextGroup
<1>6. CASE Decides(t)
  BY <1>0, <1>6 DEF Decides, CanDisable, MarkJavaDebuggable, PlanLinkedCodeDrop
<1>7. CASE Ends(t)
  BY <1>0, <1>7, EndsChange
<1>8. CASE SuspendAll(t)
  BY <1>0, <1>8 DEF SuspendAll
<1>9. CASE OpenSlot(t)
  BY <1>0, <1>9 DEF OpenSlot, Globals
<1>10. CASE WriteSlot(t) \/ RestoreSlot(t)
  BY <1>0, <1>10 DEF WriteSlot, RestoreSlot
<1>11. CASE DeoptimizeBootImage(t) \/ UpdateEntrypoints(t)
  BY <1>0, <1>11 DEF DeoptimizeBootImage, UpdateEntrypoints
<1>12. CASE NullIsUsed(t)
  BY <1>0, <1>12 DEF NullIsUsed
<1> QED
  <2> HIDE DEF CallInv, Types, Frames, Knows
  <2> QED
    BY <1>1, <1>2, <1>3, <1>4, <1>5, <1>6, <1>7, <1>8, <1>9, <1>10, <1>11, <1>12, CallsSplit,
       Zenon DEF Looks, Works

LEMMA CallerIsArmed ==
    ASSUME CallInv, NEW t \in Threads, Calls(t)
    PROVE  Armed(t)'
<1> USE DEF CallInv, Types, Frames, Flags, Armed, LookingUp, Window
<1>0. /\ spoiled => spoiled'
      /\ ~spoiled' => symbols \subseteq symbols'
  BY FoundTyped
<1>1. CASE LoadClass(t)
  BY <1>0, <1>1 DEF LoadClass
<1>2. CASE CallAgain(t)
  BY <1>0, <1>2 DEF CallAgain
<1>3. CASE TestResolved(t) \/ FlagResolved(t) \/ LookForLibart(t) \/ FindNothing(t)
  BY <1>0, <1>3 DEF TestResolved, FlagResolved, LookForLibart, FindNothing
<1>4. CASE StoreSymbols(t) \/ StoreNull(t)
  <2>1. plan' = plan /\ dpc'[t] \in {"can", "lookup"}
    BY <1>4 DEF StoreSymbols, StoreNull, NextGroup
  <2> QED BY <1>0, <2>1
<1>5. CASE Decides(t)
  BY <1>0, <1>5 DEF Decides, CanDisable, MarkJavaDebuggable, PlanLinkedCodeDrop
<1>6. CASE Ends(t)
  BY <1>0, <1>6, EndsChange
<1>7. CASE SuspendAll(t) \/ OpenSlot(t) \/ WriteSlot(t)
  BY <1>0, <1>7 DEF SuspendAll, OpenSlot, WriteSlot
<1>8. CASE RestoreSlot(t) \/ DeoptimizeBootImage(t) \/ UpdateEntrypoints(t)
  BY <1>0, <1>8 DEF RestoreSlot, DeoptimizeBootImage, UpdateEntrypoints
<1>9. CASE NullIsUsed(t)
  BY <1>0, <1>9 DEF NullIsUsed
<1> QED
  <2> HIDE DEF CallInv, Types, Frames, Flags, Armed
  <2> QED
    BY <1>1, <1>2, <1>3, <1>4, <1>5, <1>6, <1>7, <1>8, <1>9, CallsSplit, Zenon DEF Looks, Works

LEMMA CallsKeepCallInv ==
    ASSUME CallInv, NEW t \in Threads, Calls(t)
    PROVE  CallInv'
<1>1. Types'
  BY GlobalsTyped, FoundTyped, FlagsTyped, FramesTyped, CallsWriteCode DEF Types
<1>2. \A u \in Threads : Knows(u)' /\ Armed(u)'
  BY OthersKeepKnowing, CallerKnows, CallerIsArmed
<1>3. (~loaded => hooks = <<>> /\ \A u \in Threads : pc[u] = "idle")'
  BY CallsChange, FlagsTyped DEF CallInv
<1>4. (disabled => debuggable /\ resolved)' /\ (dropped => debuggable)'
  <2> USE DEF CallInv, Types, Flags, Knows, Marked, Window
  <2>1. CASE LoadClass(t) \/ CallAgain(t)
    BY <2>1 DEF LoadClass, CallAgain
  <2>2. CASE Looks(t)
    BY <2>2, LooksChange, FoundTyped
  <2>3. CASE Decides(t)
    BY <2>3 DEF Decides, CanDisable, MarkJavaDebuggable, PlanLinkedCodeDrop
  <2>4. CASE \/ SuspendAll(t) \/ OpenSlot(t) \/ WriteSlot(t) \/ DeoptimizeBootImage(t)
             \/ RestoreSlot(t)
    BY <2>4 DEF SuspendAll, OpenSlot, WriteSlot, DeoptimizeBootImage, RestoreSlot
  <2>5. CASE UpdateEntrypoints(t)
    BY <2>5 DEF UpdateEntrypoints
  <2>6. CASE Ends(t)
    BY <2>6, EndsChange
  <2>7. CASE NullIsUsed(t)
    BY <2>7 DEF NullIsUsed
  <2> QED
    <3> HIDE DEF CallInv, Types, Flags
    <3> QED
      BY <2>1, <2>2, <2>3, <2>4, <2>5, <2>6, <2>7, CallsSplit, Zenon DEF Works
<1>5. (crashed => spoiled)'
  <2>1. CASE NullIsUsed(t)
    <3>1. spoiled
      BY <2>1 DEF NullIsUsed, CallInv, Knows, Armed, Window, MayUpdate, Redirects
    <3> QED BY <3>1, FoundTyped
  <2>2. CASE ~NullIsUsed(t)
    BY <2>2, CallsChange, FoundTyped DEF CallInv
  <2> QED BY <2>1, <2>2
<1> QED BY <1>1, <1>2, <1>3, <1>4, <1>5 DEF CallInv

-----------------------------------------------------------------------------
(* The steps of hooks.                                                     *)

LEMMA RemoveAtKeeps ==
    ASSUME NEW S, NEW s \in Seq(S), NEW n \in 1..Len(s)
    PROVE  /\ Registry!RemoveAt(s, n) \in Seq(S)
           /\ \A i \in 1..Len(Registry!RemoveAt(s, n)) :
                 \E j \in 1..Len(s) : Registry!RemoveAt(s, n)[i] = s[j]
<1> DEFINE a == SubSeq(s, 1, n - 1)
           b == SubSeq(s, n + 1, Len(s))
<1>1. a \in Seq(S) /\ Len(a) = n - 1 /\ \A i \in 1..(n - 1) : a[i] = s[i]
  OBVIOUS
<1>2. b \in Seq(S) /\ Len(b) = Len(s) - n /\ \A i \in 1..(Len(s) - n) : b[i] = s[n + i]
  OBVIOUS
<1>3. Registry!RemoveAt(s, n) = a \o b
  BY DEF Registry!RemoveAt
<1> HIDE DEF a, b
<1>4. /\ a \o b \in Seq(S)
      /\ Len(a \o b) = Len(a) + Len(b)
      /\ \A i \in 1..(Len(a) + Len(b)) :
            (a \o b)[i] = IF i <= Len(a) THEN a[i] ELSE b[i - Len(a)]
  BY <1>1, <1>2, ConcatProperties
<1>5. ASSUME NEW i \in 1..Len(a \o b) PROVE \E j \in 1..Len(s) : (a \o b)[i] = s[j]
  <2>0. Len(s) \in Nat /\ Len(a) + Len(b) = Len(s) - 1
    BY <1>1, <1>2
  <2>1. CASE i <= Len(a)
    <3>1. i \in 1..(n - 1) /\ i \in 1..(Len(a) + Len(b)) /\ i \in 1..Len(s)
      BY <1>1, <1>2, <1>4, <2>0, <2>1
    <3>2. (a \o b)[i] = s[i]
      BY <1>1, <1>4, <2>1, <3>1
    <3> QED BY <3>1, <3>2
  <2>2. CASE ~(i <= Len(a))
    <3>1. i - Len(a) \in 1..(Len(s) - n) /\ n + (i - Len(a)) \in 1..Len(s)
      BY <1>1, <1>2, <1>4, <2>0, <2>2
    <3>2. (a \o b)[i] = s[n + (i - Len(a))]
      BY <1>2, <1>4, <2>2, <3>1
    <3> QED BY <3>1, <3>2
  <2> QED BY <2>1, <2>2
<1> QED BY <1>3, <1>4, <1>5

\* A trampoline that was not handed out yet.
LEMMA FreshIsNew ==
    ASSUME NEW t, NEW m, Hooks(t, m)
    PROVE  /\ Fresh \in Trampolines /\ Fresh \notin made
           /\ loaded /\ mode # "unavailable" /\ dpc[t] = "idle" /\ pc[t] = "idle"
           /\ early' = IF WorkIsOver THEN early ELSE early \cup {<<m, Fresh>>}
  BY DEF Hooks, CanAllocate, Fresh

LEMMA BeginHookTyped ==
    ASSUME CallInv, NEW t \in Threads, NEW m \in Methods, BeginHook(t, m)
    PROVE  HookTypes'
<1> DEFINE r == [target |-> m, previous_entry |-> code[m], installed_entry |-> Fresh]
<1> USE DEF CallInv, Types, HookTypes, Registry!TypeOK
<1>1. /\ owner = NoThread /\ owner' = t
      /\ made' = made \cup {Fresh}
      /\ pc' = [pc EXCEPT ![t] = "install_store"]
      /\ frame' = [frame EXCEPT ![t] = r]
      /\ UNCHANGED <<code, hooks>>
  BY DEF BeginHook, Registry!InstallRead, Registry!Enter, Registry!LockIsFree
<1>2. Fresh \in Trampolines /\ early' \subseteq early \cup {<<m, Fresh>>}
  BY FreshIsNew DEF BeginHook
<1>3. r \in Registry!Record
  BY <1>2 DEF Registry!Record
<1> HIDE DEF r
<1>4. early' \subseteq Methods \X made'
  BY <1>1, <1>2
<1>5. Registry!TypeOK'
  BY DisableAssumption, <1>1, <1>2, <1>3 DEF Registry!InstallPC
<1> QED BY <1>4, <1>5

LEMMA RegistersTyped ==
    ASSUME CallInv, Registers
    PROVE  HookTypes'
<1> USE DEF CallInv, Types, HookTypes, Registry!TypeOK
<1>1. ASSUME NEW t \in Threads, NEW b \in App, WireBackup(t, b) PROVE HookTypes'
  <2>1. Fresh \in Trampolines /\ early' \subseteq early \cup {<<b, Fresh>>} /\ b \in Methods
    BY <1>1, FreshIsNew DEF WireBackup, Methods
  <2>2. /\ made' = made \cup {Fresh}
        /\ code' \in {code, [code EXCEPT ![b] = Fresh]}
        /\ UNCHANGED <<hooks, owner, pc, frame>>
    BY <1>1 DEF WireBackup, Registry!Store
  <2>3. early' \subseteq Methods \X made'
    BY <2>1, <2>2
  <2> QED BY <2>1, <2>2, <2>3 DEF Registry!EntryPoint
<1>2. ASSUME NEW t \in Threads, Registry!InstallStore(t), early' = early PROVE HookTypes'
  BY <1>2 DEF Registry!InstallStore, Registry!Store, Registry!Goto, Registry!Record,
              Registry!EntryPoint, Registry!InstallPC
<1>3. ASSUME NEW t \in Threads, Registry!InstallVerify(t), early' = early PROVE HookTypes'
  <2>1. hooks' \in Seq(Registry!Record)
    BY <1>3 DEF Registry!InstallVerify
  <2> QED BY DisableAssumption, <1>3, <2>1 DEF Registry!InstallVerify, Registry!Return
<1>4. ASSUME NEW t \in Threads, NEW m \in Methods, Registry!RemoveStale(t, m), early' = early
      PROVE  HookTypes'
  <2>1. hooks' \in Seq(Registry!Record)
    BY <1>4, RemoveAtKeeps DEF Registry!RemoveStale
  <2> QED BY <1>4, <2>1 DEF Registry!RemoveStale
<1>5. ASSUME NEW t \in Threads, NEW m \in Methods, Registry!RemoveCheck(t, m), early' = early
      PROVE  HookTypes'
  BY DisableAssumption, <1>5 DEF Registry!RemoveCheck, Registry!Enter, Registry!RemovePC,
                                 Registry!LockIsFree
<1>6. ASSUME NEW t \in Threads, Registry!RemoveStore(t), early' = early PROVE HookTypes'
  BY <1>6 DEF Registry!RemoveStore, Registry!Store, Registry!Goto, Registry!Record,
              Registry!EntryPoint, Registry!RemovePC
<1>7. ASSUME NEW t \in Threads, Registry!RemoveVerify(t), early' = early PROVE HookTypes'
  <2>1. hooks' \in Seq(Registry!Record)
    BY <1>7, RemoveAtKeeps DEF Registry!RemoveVerify, Registry!IsTop
  <2> QED BY DisableAssumption, <1>7, <2>1 DEF Registry!RemoveVerify, Registry!Return
<1> HIDE DEF CallInv, Types, HookTypes, Registry!TypeOK
<1> QED
  BY <1>1, <1>2, <1>3, <1>4, <1>5, <1>6, <1>7, BeginHookTyped
     DEF Registers, RegistryProceeds, Registry!Proceed, BeginUnhook

LEMMA RegistersKeepCallInv ==
    ASSUME CallInv, Registers
    PROVE  CallInv'
<1>1. HookTypes'
  BY RegistersTyped
<1>2. UNCHANGED <<lib, mode, crashed, callVars>>
  BY RegistersChange
<1>3. ASSUME NEW u \in Threads, dpc[u] # "idle" PROVE pc'[u] = "idle"
  <2> USE <1>3 DEF CallInv, Types, HookTypes, Registry!TypeOK, Knows
  <2>1. pc[u] = "idle"
    OBVIOUS
  <2>2. ASSUME NEW t \in Threads, dpc[t] = "idle", NEW x, pc' = [pc EXCEPT ![t] = x] \/ pc' = pc
        PROVE  pc'[u] = "idle"
    BY <2>1, <2>2
  <2> HIDE DEF CallInv, Types, HookTypes, Registry!TypeOK, Knows
  <2>3. ASSUME NEW t \in Threads, RegistryProceeds(t) PROVE pc'[u] = "idle"
    BY <2>2, <2>3
       DEF RegistryProceeds, Registry!Proceed, Registry!InstallStore, Registry!InstallVerify,
           Registry!RemoveStore, Registry!RemoveVerify, Registry!Goto, Registry!Return
  <2>4. ASSUME NEW t \in Threads, NEW m \in Methods, BeginHook(t, m) \/ BeginUnhook(t, m)
        PROVE  pc'[u] = "idle"
    BY <2>2, <2>4
       DEF BeginHook, BeginUnhook, Hooks, Registry!InstallRead, Registry!RemoveStale,
           Registry!RemoveCheck, Registry!Enter
  <2>5. ASSUME NEW t \in Threads, NEW b \in App, WireBackup(t, b) PROVE pc'[u] = "idle"
    BY <2>1, <2>5 DEF WireBackup
  <2> QED BY <2>3, <2>4, <2>5 DEF Registers
<1>4. loaded
  <2> SUFFICES ASSUME ~loaded PROVE FALSE
    OBVIOUS
  <2>1. hooks = <<>> /\ \A t \in Threads : pc[t] = "idle"
    BY DEF CallInv
  <2>2. \A i : i \notin 1..Len(hooks)
    BY <2>1
  <2> QED
    BY <2>1, <2>2
       DEF Registers, RegistryProceeds, Registry!Proceed, Registry!InstallStore,
           Registry!InstallVerify, Registry!RemoveStore, Registry!RemoveVerify, BeginHook, Hooks,
           WireBackup, BeginUnhook, Registry!RemoveStale, Registry!RemoveCheck
<1>5. Types'
  BY <1>1, <1>2 DEF CallInv, Types, Globals, Found, Flags, Frames
<1>6. \A u \in Threads : Knows(u)' /\ Armed(u)'
  BY <1>2, <1>3 DEF CallInv, Knows, Armed, Redirecting, Redirects
<1> QED BY <1>2, <1>4, <1>5, <1>6 DEF CallInv

LEMMA LinkCodeKeepsCallInv ==
    ASSUME CallInv, NEW m \in App, LinkCode(m)
    PROVE  CallInv'
<1>1. UNCHANGED <<asideVars, callVars>>
  BY DEF LinkCode
<1>2. code' \in [Methods -> Registry!EntryPoint]
  BY DEF LinkCode, CallInv, Types, HookTypes, Registry!TypeOK, Registry!EntryPoint, Code
<1>3. HookTypes'
  BY <1>1, <1>2 DEF CallInv, Types, HookTypes, Registry!TypeOK
<1>4. Types'
  BY <1>1, <1>3 DEF CallInv, Types, Globals, Found, Flags, Frames
<1>5. \A u \in Threads : Knows(u)' /\ Armed(u)'
  BY <1>1 DEF CallInv, Knows, Armed, Redirecting, Redirects
<1> QED BY <1>1, <1>4, <1>5 DEF CallInv

LEMMA StutterKeepsCallInv ==
    ASSUME CallInv, UNCHANGED vars
    PROVE  CallInv'
<1>1. HookTypes'
  BY DEF vars, CallInv, Types, HookTypes, Registry!TypeOK
<1>2. Types'
  BY <1>1 DEF vars, CallInv, Types, Globals, Found, Flags, Frames
<1>3. \A u \in Threads : Knows(u)' /\ Armed(u)'
  BY DEF vars, CallInv, Knows, Armed, Redirecting, Redirects
<1> QED BY <1>2, <1>3 DEF vars, CallInv

LEMMA CallInvStep == CallInv /\ [Next]_vars => CallInv'
  BY NextSplit, CallsKeepCallInv, RegistersKeepCallInv, LinkCodeKeepsCallInv, StutterKeepsCallInv

THEOREM CallInvHolds == Spec => []CallInv
  BY CallInvInit, CallInvStep, PTL DEF Spec

(* Only a call whose thread holds the suspension touches the slot or entry    *)
(* points, and the process ends in a null pointer only after a lookup stored  *)
(* a null over a symbol that libart has.                                      *)
THEOREM DisableTypeCorrect == Spec => []DisableTypeOK
<1>1. CallInv => DisableTypeOK
  BY DEF CallInv, Types, Globals, Found, Flags, Frames, HookTypes, Knows, Window, DisableTypeOK
<1> QED BY <1>1, CallInvHolds, PTL

-----------------------------------------------------------------------------
(* The static initialiser's call is the only one that gets to work.        *)

\* The first pointer was looked up, and is not null if libart has it.
PastFirst(t) ==
    \/ dpc[t] \in {"can", "mark"} \cup Marked
    \/ dpc[t] \in LookingUp /\ next[t] # "debugState"

\* While the class is being initialised one thread is there, so that nothing is
\* missed.
AutoFirst ==
    ~loaded =>
        /\ loader = NoThread => ~resolved /\ ~looked
        /\ \A t \in Threads :
              /\ dpc[t] # "idle" => t = loader
              /\ dpc[t] \in {"resolve", "flag"} => ~resolved /\ ~looked
              /\ dpc[t] # "idle" /\ looked /\ ~filled => dpc[t] = "find"
              /\ dpc[t] = "lookup" /\ next[t] # "debugState" => filled
              /\ dpc[t] # "store_null"
              /\ PastFirst(t) /\ lib.debugState => "debugState" \in symbols

\* From then on nothing is done any more.
AutoLater ==
    loaded =>
        /\ resolved
        /\ \A t \in Threads : dpc[t] \in {"idle", "resolve", "can"}
        /\ lib.debugState => disabled /\ \A t \in Threads : dpc[t] = "idle"

AutoSlot ==
    /\ slot = "capture" /\ ~loaded =>
          loader \in Threads /\ dpc[loader] \in {"deoptimize", "restore", "update", "resume"}
    /\ slotPage = "rw" /\ ~loaded => loader \in Threads /\ dpc[loader] \in Window
    /\ slotPage = "rw" /\ lib.reprotects =>
          ~loaded /\ loader \in Threads /\ dpc[loader] = "write_slot"
    /\ \A t \in Threads : plan[t] # "rw"

AutoInv == mode = "auto" => ~spoiled /\ AutoFirst /\ AutoLater /\ AutoSlot

LEMMA AutoInvInit == Init => AutoInv
  BY DEF Init, AutoInv, AutoFirst, AutoLater, AutoSlot, PastFirst, LookingUp, Marked, Window

LEMMA CallsKeepAutoFirst ==
    ASSUME CallInv, AutoInv, NEW t \in Threads, Calls(t), mode = "auto"
    PROVE  ~spoiled' /\ AutoFirst'
<1> USE DEF CallInv, Types, Frames, Flags, AutoInv, AutoFirst, PastFirst, LookingUp, Window,
            Marked
<1>0. \A u \in Threads : dpc[u] = "idle" \/ loaded \/ u = loader
  OBVIOUS
<1>1. CASE LoadClass(t)
  BY <1>1, DisableAssumption DEF LoadClass
<1>2. CASE CallAgain(t)
  BY <1>2 DEF CallAgain
<1>3. CASE TestResolved(t)
  BY <1>3 DEF TestResolved
<1>4. CASE FlagResolved(t)
  BY <1>4, DisableAssumption DEF FlagResolved
<1>5. CASE LookForLibart(t)
  <2>1. ~loaded /\ t = loader /\ \A u \in Threads : u # t => dpc[u] = "idle"
    BY <1>5 DEF LookForLibart, AutoLater
  <2> QED BY <1>5, <2>1, DisableAssumption DEF LookForLibart
<1>6. CASE StoreSymbols(t)
  <2>1. /\ ~loaded /\ t = loader /\ \A u \in Threads : u # t => dpc[u] = "idle"
        /\ next[t] \in Groups
    BY <1>6 DEF StoreSymbols, AutoLater, Knows
  <2>2. Following[next[t]] # "debugState"
    BY <2>1 DEF Following, Groups
  <2>3. /\ lib.debugState => "debugState" \in symbols'
        /\ looked' = looked /\ filled' = filled /\ filled /\ spoiled' = spoiled
        /\ loaded' = loaded /\ loader' = loader /\ lib' = lib
    BY <1>6, <2>1 DEF StoreSymbols
  <2>4. \A u \in Threads : /\ dpc'[u] = IF u = t THEN IF Following[next[t]] = "none"
                                                      THEN "can" ELSE "lookup"
                                        ELSE dpc[u]
                           /\ next'[u] = IF u = t THEN Following[next[t]] ELSE next[u]
    BY <1>6 DEF StoreSymbols, NextGroup
  <2> QED BY <2>1, <2>2, <2>3, <2>4, DisableAssumption
<1>7. CASE FindNothing(t) \/ StoreNull(t)
  BY <1>7 DEF FindNothing, StoreNull, AutoLater
<1>8. CASE Decides(t)
  BY <1>8 DEF Decides, CanDisable, MarkJavaDebuggable, PlanLinkedCodeDrop
<1>9. CASE Ends(t)
  BY <1>9, EndsChange
<1>10. CASE SuspendAll(t) \/ OpenSlot(t) \/ WriteSlot(t)
  BY <1>10 DEF SuspendAll, OpenSlot, WriteSlot
<1>11. CASE DeoptimizeBootImage(t) \/ RestoreSlot(t) \/ UpdateEntrypoints(t)
  BY <1>11 DEF DeoptimizeBootImage, RestoreSlot, UpdateEntrypoints
<1>12. CASE NullIsUsed(t)
  BY <1>12 DEF NullIsUsed
<1> QED
  <2> HIDE DEF CallInv, Types, Frames, Flags, AutoInv, AutoFirst
  <2> QED
    BY <1>1, <1>2, <1>3, <1>4, <1>5, <1>6, <1>7, <1>8, <1>9, <1>10, <1>11, <1>12, CallsSplit,
       Zenon DEF Looks, Works

LEMMA CallsKeepAutoLater ==
    ASSUME CallInv, AutoInv, NEW t \in Threads, Calls(t), mode = "auto"
    PROVE  AutoLater'
<1> USE DEF CallInv, Types, Frames, Flags, AutoInv, AutoLater, LookingUp, Window, Marked
<1>1. CASE LoadClass(t)
  BY <1>1 DEF LoadClass
<1>2. CASE CallAgain(t)
  BY <1>2 DEF CallAgain
<1>3. CASE TestResolved(t) \/ FlagResolved(t)
  BY <1>3 DEF TestResolved, FlagResolved
<1>4. CASE LookForLibart(t) \/ FindNothing(t) \/ StoreSymbols(t) \/ StoreNull(t)
  BY <1>4 DEF LookForLibart, FindNothing, StoreSymbols, StoreNull
<1>5. CASE CanDisable(t)
  <2>1. lib.debugState
    BY <1>5 DEF CanDisable, Found
  <2> QED BY <1>5, <2>1 DEF CanDisable
<1>6. CASE MarkJavaDebuggable(t) \/ PlanLinkedCodeDrop(t)
  BY <1>6 DEF MarkJavaDebuggable, PlanLinkedCodeDrop
<1>7. CASE SuspendAll(t) \/ OpenSlot(t) \/ WriteSlot(t)
  BY <1>7 DEF SuspendAll, OpenSlot, WriteSlot
<1>8. CASE DeoptimizeBootImage(t) \/ RestoreSlot(t) \/ UpdateEntrypoints(t)
  BY <1>8 DEF DeoptimizeBootImage, RestoreSlot, UpdateEntrypoints
<1>9. CASE Ends(t)
  <2>0. dpc[t] # "idle" /\ dpc' = [dpc EXCEPT ![t] = "idle"]
        /\ UNCHANGED <<symbolVars, outcomeVars, lib>>
    BY <1>9, EndsChange
  <2>1. resolved
    BY <1>9 DEF Ends, Refuse, CannotDrop, ResumeAll, Knows
  <2>2. lib.debugState => disabled
    <3>1. CASE loaded
      BY <3>1
    <3>2. CASE ~loaded
      BY <1>9, <3>2
         DEF Ends, Refuse, CannotDrop, ResumeAll, Knows, AutoFirst, PastFirst
    <3> QED BY <3>1, <3>2
  <2>3. \A u \in Threads : dpc'[u] \in {"idle", "resolve", "can"}
                              /\ (lib.debugState => dpc'[u] = "idle")
    <3>1. CASE loaded
      BY <2>0, <3>1
    <3>2. CASE ~loaded
      BY <2>0, <3>2 DEF AutoFirst
    <3> QED BY <3>1, <3>2
  <2> QED BY <2>0, <2>1, <2>2, <2>3
<1>10. CASE NullIsUsed(t)
  BY <1>10 DEF NullIsUsed
<1> QED
  <2> HIDE DEF CallInv, Types, Frames, Flags, AutoInv, AutoLater
  <2> QED
    BY <1>1, <1>2, <1>3, <1>4, <1>5, <1>6, <1>7, <1>8, <1>9, <1>10, CallsSplit, Zenon
       DEF Looks, Decides, Works

LEMMA CallsKeepAutoSlot ==
    ASSUME CallInv, AutoInv, NEW t \in Threads, Calls(t), mode = "auto"
    PROVE  AutoSlot'
<1> USE DEF CallInv, Types, Frames, Flags, AutoInv, AutoSlot, LookingUp, Window, Marked
<1>0. /\ dpc[t] \notin {"idle", "resolve", "can"} => ~loaded /\ t = loader
      /\ ~loaded => dpc[t] = "idle" \/ t = loader
  BY DEF AutoFirst, AutoLater
<1>1. CASE LoadClass(t)
  BY <1>1, DisableAssumption DEF LoadClass
<1>2. CASE CallAgain(t)
  BY <1>2 DEF CallAgain
<1>3. CASE Looks(t)
  <2>1. dpc[t] \in {"resolve", "flag"} \cup LookingUp
    BY <1>3 DEF Looks, TestResolved, FlagResolved, LookForLibart, StoreSymbols, FindNothing,
                StoreNull
  <2>2. UNCHANGED <<asideVars, slotVars, clinitVars, plan>>
    BY <1>3, LooksChange
  <2>3. ~loaded => slot # "capture" /\ slotPage # "rw"
    BY <1>0, <2>1
  <2> QED BY <2>2, <2>3
<1>4. CASE CanDisable(t) \/ MarkJavaDebuggable(t)
  BY <1>0, <1>4 DEF CanDisable, MarkJavaDebuggable
<1>5. CASE PlanLinkedCodeDrop(t)
  BY <1>0, <1>5 DEF PlanLinkedCodeDrop
<1>6. CASE Ends(t)
  BY <1>0, <1>6, EndsChange DEF Ends, Refuse, CannotDrop, ResumeAll
<1>7. CASE SuspendAll(t)
  BY <1>0, <1>7 DEF SuspendAll
<1>8. CASE OpenSlot(t)
  BY <1>0, <1>8 DEF OpenSlot
<1>9. CASE WriteSlot(t)
  <2>1. slotPage' = plan[t] \/ (~lib.reprotects /\ slotPage' = "rw")
    BY <1>9 DEF WriteSlot, Reprotect
  <2> QED BY <1>0, <1>9, <2>1 DEF WriteSlot
<1>10. CASE RestoreSlot(t)
  BY <1>0, <1>10 DEF RestoreSlot, Reprotect
<1>11. CASE DeoptimizeBootImage(t) \/ UpdateEntrypoints(t)
  BY <1>0, <1>11 DEF DeoptimizeBootImage, UpdateEntrypoints
<1>12. CASE NullIsUsed(t)
  BY <1>12 DEF NullIsUsed
<1> QED
  <2> HIDE DEF CallInv, Types, Frames, Flags, AutoInv, AutoSlot
  <2> QED
    BY <1>1, <1>2, <1>3, <1>4, <1>5, <1>6, <1>7, <1>8, <1>9, <1>10, <1>11, <1>12, CallsSplit,
       Zenon DEF Decides, Works

LEMMA AutoInvStep == CallInv /\ AutoInv /\ [Next]_vars => AutoInv'
<1> SUFFICES ASSUME CallInv, AutoInv, [Next]_vars PROVE AutoInv'
  OBVIOUS
<1>1. ASSUME NEW t \in Threads, Calls(t) PROVE AutoInv'
  BY <1>1, CallsKeepAutoFirst, CallsKeepAutoLater, CallsKeepAutoSlot, CallsChange DEF AutoInv
<1>2. CASE UNCHANGED <<lib, mode, callVars>>
  BY <1>2 DEF AutoInv, AutoFirst, AutoLater, AutoSlot, PastFirst
<1>3. ASSUME NEW m \in App, LinkCode(m) PROVE AutoInv'
  BY <1>2, <1>3 DEF LinkCode
<1>4. CASE UNCHANGED vars
  BY <1>2, <1>4 DEF vars
<1> QED BY <1>1, <1>2, <1>3, <1>4, NextSplit, RegistersChange

-----------------------------------------------------------------------------
(* The slot: between two windows of suspension it is ART's own, if it could  *)
(* be put back; within one, what was taken from it is ART's function.        *)

SlotInv ==
    /\ capturing # NoThread =>
          /\ capturing \in Threads
          /\ dpc[capturing] \in {"write_slot", "deoptimize", "restore", "update"}
    /\ lib.restorable /\ ~spoiled /\ slot = "capture" =>
          \E t \in Threads : dpc[t] # "write_slot" /\ Redirecting(t)
    /\ mode = "auto" \/ (lib.restorable /\ ~spoiled) =>
          /\ original # "capture" /\ (slot = "capture" => original = "art")
          /\ \A t \in Threads : Redirecting(t) => original = "art"

LEMMA SlotInvInit == Init => SlotInv
  BY DEF Init, SlotInv, Redirecting

\* Only steps inside the suspension have to do with the slot.
SlotKept ==
    /\ slot' = slot /\ original' = original /\ capturing' = capturing
    /\ lib' = lib /\ mode' = mode /\ (spoiled => spoiled')
    /\ \A t \in Threads :
          /\ Redirecting(t)' <=> Redirecting(t)
          /\ dpc'[t] = "write_slot" <=> dpc[t] = "write_slot"
          /\ dpc[t] \in {"write_slot", "deoptimize", "restore", "update"} => dpc'[t] = dpc[t]

LEMMA SlotKeptInv == SlotInv /\ SlotKept => SlotInv'
  BY DEF SlotInv, SlotKept

LEMMA FewStepsWriteSlot ==
    ASSUME CallInv, AutoInv, NEW t \in Threads, Calls(t),
           ~OpenSlot(t), ~WriteSlot(t), ~DeoptimizeBootImage(t), ~RestoreSlot(t),
           ~UpdateEntrypoints(t)
    PROVE  SlotKept
<1> USE DEF SlotKept, CallInv, Types, Frames, Redirecting, Redirects
<1>0. spoiled => spoiled'
  BY FoundTyped
<1>1. CASE LoadClass(t)
  <2>1. mode = "auto" => dpc[t] = "idle"
    BY <1>1, DisableAssumption DEF LoadClass, AutoInv, AutoFirst
  <2> QED BY <1>1, <2>1 DEF LoadClass
<1>2. CASE CallAgain(t)
  BY <1>2 DEF CallAgain
<1>3. CASE TestResolved(t) \/ FlagResolved(t) \/ LookForLibart(t)
  BY <1>3 DEF TestResolved, FlagResolved, LookForLibart
<1>4. CASE StoreSymbols(t)
  BY <1>4 DEF StoreSymbols, NextGroup
<1>5. CASE FindNothing(t) \/ StoreNull(t)
  BY <1>0, <1>5 DEF FindNothing, StoreNull, NextGroup
<1>6. CASE Decides(t)
  BY <1>6 DEF Decides, CanDisable, MarkJavaDebuggable, PlanLinkedCodeDrop
<1>7. CASE Refuse(t) \/ CannotDrop(t)
  BY <1>7 DEF Refuse, CannotDrop
<1>8. CASE ResumeAll(t)
  BY <1>8 DEF ResumeAll
<1>9. CASE SuspendAll(t)
  BY <1>9 DEF SuspendAll
<1>10. CASE NullIsUsed(t)
  BY <1>10 DEF NullIsUsed
<1> QED
  <2> HIDE DEF SlotKept, CallInv, Types, Frames
  <2> QED
    BY <1>1, <1>2, <1>3, <1>4, <1>5, <1>6, <1>7, <1>8, <1>9, <1>10, CallsSplit, Zenon
       DEF Looks, Ends, Works

LEMMA CallsKeepSlotInv ==
    ASSUME CallInv, AutoInv, SlotInv, NEW t \in Threads, Calls(t)
    PROVE  SlotInv'
<1> USE DEF CallInv, Types, Frames, Globals, SlotInv, Window, Redirecting, Redirects
<1>1. CASE OpenSlot(t)
  <2>1. \A u \in Threads : u # t => ~Redirecting(u) /\ capturing # u
    <3>1. suspended = t
      BY <1>1 DEF OpenSlot, Knows
    <3> QED BY <3>1, DisableAssumption DEF Knows
  <2>0. dpc[t] = "redirect" /\ slot \in {"art", "capture"}
    BY <1>1 DEF OpenSlot
  <2>2. lib.restorable /\ ~spoiled => slot = "art"
    BY <2>0, <2>1
  <2>3. mode = "auto" => slot = "art"
    BY <2>0 DEF AutoInv, AutoLater, AutoSlot, AutoFirst
  <2> QED BY <1>1, <2>1, <2>2, <2>3 DEF OpenSlot
<1>2. CASE WriteSlot(t)
  BY <1>2 DEF WriteSlot, Knows
<1>3. CASE DeoptimizeBootImage(t)
  BY <1>3 DEF DeoptimizeBootImage, Knows
<1>4. CASE RestoreSlot(t)
  <2>1. lib.restorable /\ ~spoiled => CanRestore
    BY <1>4 DEF RestoreSlot, CanRestore, Knows, Armed
  <2> QED BY <1>4, <2>1 DEF RestoreSlot, Knows
<1>5. CASE UpdateEntrypoints(t)
  BY <1>5 DEF UpdateEntrypoints, Knows
<1>6. CASE ~OpenSlot(t) /\ ~WriteSlot(t) /\ ~DeoptimizeBootImage(t) /\ ~RestoreSlot(t)
           /\ ~UpdateEntrypoints(t)
  <2> HIDE DEF CallInv, SlotInv
  <2> QED BY <1>6, FewStepsWriteSlot, SlotKeptInv
<1> QED BY <1>1, <1>2, <1>3, <1>4, <1>5, <1>6

LEMMA SlotInvStep == CallInv /\ AutoInv /\ SlotInv /\ [Next]_vars => SlotInv'
<1> SUFFICES ASSUME CallInv, AutoInv, SlotInv, [Next]_vars PROVE SlotInv'
  OBVIOUS
<1>1. CASE UNCHANGED <<lib, mode, callVars>>
  <2>1. SlotKept
    BY <1>1 DEF SlotKept, Redirecting, Redirects
  <2> QED BY <2>1, SlotKeptInv
<1>2. ASSUME NEW m \in App, LinkCode(m) PROVE SlotInv'
  BY <1>1, <1>2 DEF LinkCode
<1>3. CASE UNCHANGED vars
  BY <1>1, <1>3 DEF vars
<1> QED BY <1>1, <1>2, <1>3, NextSplit, CallsKeepSlotInv, RegistersChange

DisableInv == CallInv /\ AutoInv /\ SlotInv

THEOREM DisableInvHolds == Spec => []DisableInv
<1>1. Init => DisableInv
  BY CallInvInit, AutoInvInit, SlotInvInit DEF DisableInv
<1>2. DisableInv /\ [Next]_vars => DisableInv'
  BY CallInvStep, AutoInvStep, SlotInvStep DEF DisableInv
<1> QED BY <1>1, <1>2, PTL DEF Spec

(* The pass-through forwards to ART's own function, never to itself.         *)
THEOREM PassThroughReachesArt == Spec => []VisitReachesArt
<1>1. DisableInv => VisitReachesArt
  BY DEF DisableInv, SlotInv, VisitReachesArt
<1> QED BY <1>1, DisableInvHolds, PTL

(* When nobody holds the suspension the slot is libart's own again, and after *)
(* the initialiser's call on a read-only page, if the kernel put that back.   *)
THEOREM SlotGoesBack == Spec => []SlotIsPutBack
<1>1. DisableInv => SlotIsPutBack
  BY DisableAssumption
     DEF DisableInv, CallInv, Types, Globals, AutoInv, AutoSlot, SlotInv, Knows, Window,
         Redirecting, SlotIsPutBack
<1> QED BY <1>1, DisableInvHolds, PTL

-----------------------------------------------------------------------------
(* Hooks.  There are none before the class is loaded.  Whatever was begun    *)
(* while a call still had work to do is early; of the rest, no call comes    *)
(* near it, for none has anything left to do.                                *)

Standing == loaded /\ mode # "unavailable"

\* Trampoline x of method m is left alone from now on, or was begun early.
EarlyOrOver(m, x) == <<m, x>> \in early \/ WorkIsOver

\* What is true of a record, and of the locals of install_hook() and
\* remove_hook() before and after there is one.
RecordInv(r) ==
    /\ Standing
    /\ EarlyOrOver(r.target, r.installed_entry)
    /\ r.previous_entry \in Trampolines => EarlyOrOver(r.target, r.previous_entry)
    /\ dropped /\ r.previous_entry = "aot" => HookedEarly(r.target)

HookInv ==
    /\ \A i \in 1..Len(hooks) : RecordInv(hooks[i])
    /\ \A t \in Threads : pc[t] # "idle" => RecordInv(frame[t])
    /\ \A m \in Methods : code[m] \in Trampolines => Standing /\ EarlyOrOver(m, code[m])
    /\ DroppedCodeIsGone

LEMMA HookInvInit == Init => HookInv
<1> SUFFICES ASSUME Init PROVE HookInv
  OBVIOUS
<1>1. \A m \in Methods : code[m] \in Code
  BY DEF Init, Code
<1>2. \A i : i \notin 1..Len(hooks)
  BY DEF Init
<1> QED BY <1>1, <1>2, DisableAssumption DEF Init, HookInv, DroppedCodeIsGone

\* A call made when everything is done returns where it began.
LEMMA DoneCallsReturn ==
    ASSUME CallInv, NEW t \in Threads, Calls(t), loaded, WorkIsOver
    PROVE  WorkIsOver' /\ code' = code /\ dropped' = dropped
<1> USE DEF CallInv, Types, Frames, WorkIsOver
<1>1. CallAgain(t)
  <2>1. ~Looks(t)
    BY DEF Looks, TestResolved, FlagResolved, LookForLibart, StoreSymbols, FindNothing, StoreNull
  <2>2. ~Decides(t) /\ ~Ends(t)
    BY DEF Decides, CanDisable, MarkJavaDebuggable, PlanLinkedCodeDrop, Ends, Refuse,
           CannotDrop, ResumeAll
  <2>3. ~Works(t) /\ ~NullIsUsed(t)
    BY DEF Works, SuspendAll, OpenSlot, WriteSlot, DeoptimizeBootImage, RestoreSlot,
           UpdateEntrypoints, NullIsUsed
  <2>4. ~LoadClass(t)
    BY DEF LoadClass
  <2> HIDE DEF CallInv, Types, Frames, WorkIsOver
  <2> QED BY <2>1, <2>2, <2>3, <2>4, CallsSplit
<1>2. dpc' = [dpc EXCEPT ![t] = "idle"] /\ code' = code /\ dropped' = dropped
      /\ disabled' = disabled
  BY <1>1 DEF CallAgain
<1>3. dpc' = dpc
  BY <1>2
<1> QED BY <1>2, <1>3

\* The call that drops the code finds nobody's hooks but early ones.
LEMMA DropIsAlone ==
    ASSUME CallInv, AutoInv, NEW t \in Threads, UpdateEntrypoints(t), Standing
    PROVE  ~WorkIsOver /\ mode = "keep_aot"
<1>1. dpc[t] = "update"
  BY DEF UpdateEntrypoints
<1>2. mode # "auto"
  BY <1>1 DEF Standing, AutoInv, AutoLater
<1> QED BY <1>1, <1>2 DEF Standing, WorkIsOver, CallInv, Types, Globals

LEMMA CallsKeepRecords ==
    ASSUME CallInv, AutoInv, NEW t \in Threads, Calls(t), NEW r \in Registry!Record, RecordInv(r)
    PROVE  RecordInv(r)'
<1>1. UNCHANGED <<lib, mode, hookVars>>
  BY CallsChange
<1>2. loaded => loaded'
  BY FlagsTyped
<1>3. Standing /\ Standing'
  BY <1>1, <1>2 DEF RecordInv, Standing
<1>4. WorkIsOver => WorkIsOver'
  BY <1>3, DoneCallsReturn DEF Standing
<1>5. ASSUME dropped', ~dropped, r.previous_entry = "aot" PROVE HookedEarly(r.target)'
  <2>1. UpdateEntrypoints(t)
    <3>1. CASE DeoptimizeBootImage(t)
      BY <1>5, <3>1 DEF DeoptimizeBootImage
    <3> QED BY <1>5, <3>1, FewStepsWriteCode
  <2>2. <<r.target, r.installed_entry>> \in early /\ mode = "keep_aot"
    BY <1>3, <2>1, DropIsAlone DEF RecordInv, EarlyOrOver
  <2>3. r.installed_entry \in Trampolines
    BY DEF Registry!Record
  <2> QED BY <1>1, <2>2, <2>3 DEF HookedEarly
<1> QED BY <1>1, <1>3, <1>4, <1>5 DEF RecordInv, EarlyOrOver, HookedEarly

LEMMA CallsKeepHookInv ==
    ASSUME CallInv, AutoInv, HookInv, NEW t \in Threads, Calls(t)
    PROVE  HookInv'
<1>1. UNCHANGED <<lib, mode, hookVars>>
  BY CallsChange
<1>2. \A i \in 1..Len(hooks') : RecordInv(hooks[i])'
  <2>1. \A i \in 1..Len(hooks) : hooks[i] \in Registry!Record
    BY DEF CallInv, Types, HookTypes, Registry!TypeOK
  <2> QED BY <1>1, <2>1, CallsKeepRecords DEF HookInv
<1>3. \A u \in Threads : pc'[u] # "idle" => RecordInv(frame[u])'
  <2>1. \A u \in Threads : pc[u] # "idle" => frame[u] \in Registry!Record
    BY DEF CallInv, Types, HookTypes, Registry!TypeOK
  <2> QED BY <1>1, <2>1, CallsKeepRecords DEF HookInv
<1>4. ASSUME NEW m \in Methods, code'[m] \in Trampolines
      PROVE  (Standing /\ EarlyOrOver(m, code[m]))'
  <2>1. code'[m] = code[m]
    BY <1>4, CallsWriteCode, DisableAssumption DEF Code
  <2>2. Standing /\ EarlyOrOver(m, code[m])
    BY <1>4, <2>1 DEF HookInv
  <2>3. loaded'
    BY <2>2, FlagsTyped DEF Standing
  <2>4. WorkIsOver => WorkIsOver'
    BY <2>2, DoneCallsReturn DEF Standing
  <2> QED BY <1>1, <2>1, <2>2, <2>3, <2>4 DEF Standing, EarlyOrOver
<1>5. DroppedCodeIsGone'
  <2> SUFFICES ASSUME dropped', NEW m \in Methods, code'[m] = "aot"
               PROVE  HookedEarly(m)'
    BY DEF DroppedCodeIsGone
  <2>1. CASE UpdateEntrypoints(t)
    <3>1. CASE MayUpdate(t)
      BY <2>1, <3>1 DEF UpdateEntrypoints
    <3>2. CASE ~MayUpdate(t)
      <4>1. dropped /\ code[m] = "aot"
        BY <2>1, <3>2 DEF UpdateEntrypoints
      <4> QED BY <1>1, <4>1 DEF HookInv, DroppedCodeIsGone, HookedEarly
    <3> QED BY <3>1, <3>2
  <2>2. CASE ~UpdateEntrypoints(t)
    <3>1. dropped' = dropped
      <4>1. CASE DeoptimizeBootImage(t)
        BY <4>1 DEF DeoptimizeBootImage
      <4> QED BY <2>2, <4>1, FewStepsWriteCode
    <3>2. code[m] = "aot"
      BY CallsWriteCode
    <3> QED BY <1>1, <3>1, <3>2 DEF HookInv, DroppedCodeIsGone, HookedEarly
  <2> QED BY <2>1, <2>2
<1> QED BY <1>1, <1>2, <1>3, <1>4, <1>5 DEF HookInv

\* Under the steps of hooks a record stays what it is.
LEMMA RegistersKeepRecords ==
    ASSUME UNCHANGED <<lib, mode, crashed, callVars>>, early \subseteq early'
    PROVE  /\ \A r : RecordInv(r) => RecordInv(r)'
           /\ \A m, x : Standing /\ EarlyOrOver(m, x) => (Standing /\ EarlyOrOver(m, x))'
           /\ \A m : HookedEarly(m) => HookedEarly(m)'
<1>1. Standing' = Standing /\ WorkIsOver' = WorkIsOver
  BY DEF Standing, WorkIsOver
<1>2. \A m : HookedEarly(m) => HookedEarly(m)'
  BY DEF HookedEarly
<1>3. \A m, x : EarlyOrOver(m, x) => EarlyOrOver(m, x)'
  BY <1>1 DEF EarlyOrOver
<1> QED BY <1>1, <1>2, <1>3 DEF RecordInv

\* A step that leaves records and locals as they were and stores in m's slot
\* what the invariant allows, or nothing.
LEMMA StoresKeepHookInv ==
    ASSUME CallInv, HookInv, UNCHANGED <<lib, mode, crashed, callVars>>, early \subseteq early',
           NEW m \in Methods, NEW v, code' \in {code, [code EXCEPT ![m] = v]},
           v \in Trampolines => (Standing /\ EarlyOrOver(m, v))',
           dropped /\ v = "aot" => HookedEarly(m)
    PROVE  /\ (\A n \in Methods : code[n] \in Trampolines => Standing /\ EarlyOrOver(n, code[n]))'
           /\ DroppedCodeIsGone'
<1>1. \A n \in Methods : code'[n] = code[n] \/ (n = m /\ code'[n] = v)
  BY DEF CallInv, Types, HookTypes, Registry!TypeOK
<1>2. ASSUME NEW n \in Methods, code'[n] \in Trampolines
      PROVE  (Standing /\ EarlyOrOver(n, code[n]))'
  <2>1. CASE code'[n] = code[n]
    <3>1. Standing /\ EarlyOrOver(n, code[n])
      BY <1>2, <2>1 DEF HookInv
    <3> QED BY <2>1, <3>1, RegistersKeepRecords DEF EarlyOrOver
  <2>2. CASE n = m /\ code'[n] = v
    BY <1>2, <2>2 DEF EarlyOrOver
  <2> QED BY <1>1, <2>1, <2>2
<1>3. ASSUME dropped', NEW n \in Methods, code'[n] = "aot" PROVE HookedEarly(n)'
  <2>1. HookedEarly(n)
    BY <1>1, <1>3 DEF HookInv, DroppedCodeIsGone
  <2> QED BY <2>1, RegistersKeepRecords
<1> QED BY <1>2, <1>3 DEF DroppedCodeIsGone

LEMMA BeginHookKeepsHookInv ==
    ASSUME CallInv, HookInv, NEW t \in Threads, NEW m \in Methods, BeginHook(t, m)
    PROVE  HookInv'
<1>0. PICK x \in Trampolines : x = Fresh
  BY FreshIsNew DEF BeginHook
<1>1. PICK r : r = [target |-> m, previous_entry |-> code[m], installed_entry |-> x]
  OBVIOUS
<1>2. /\ pc' = [pc EXCEPT ![t] = "install_store"]
      /\ frame' = [frame EXCEPT ![t] = r]
      /\ UNCHANGED <<lib, mode, crashed, callVars, code, hooks>>
  BY <1>0, <1>1 DEF BeginHook, Registry!InstallRead, Registry!Enter
<1>3. /\ Standing
      /\ early' = IF WorkIsOver THEN early ELSE early \cup {<<m, x>>}
  BY <1>0, FreshIsNew DEF BeginHook, Standing
<1>4. Standing' = Standing /\ WorkIsOver' = WorkIsOver
  BY <1>2 DEF Standing, WorkIsOver
<1>5. early \subseteq early' /\ Standing' /\ EarlyOrOver(m, x)'
  BY <1>3, <1>4 DEF EarlyOrOver
<1>6. RecordInv(r)'
  <2>1. ASSUME code[m] \in Trampolines PROVE EarlyOrOver(m, code[m])'
    BY <1>2, <1>3, <1>4, <1>5, <2>1 DEF HookInv, EarlyOrOver
  <2>2. ASSUME dropped, code[m] = "aot" PROVE HookedEarly(m)'
    <3>1. HookedEarly(m)
      BY <2>2 DEF HookInv, DroppedCodeIsGone
    <3> QED BY <1>2, <1>5, <3>1, RegistersKeepRecords
  <2> QED BY <1>1, <1>2, <1>5, <2>1, <2>2 DEF RecordInv
<1>7. \A u \in Threads : pc'[u] # "idle" => RecordInv(frame[u])'
  <2>1. frame'[t] = r /\ \A u \in Threads : u # t => frame'[u] = frame[u] /\ pc'[u] = pc[u]
    BY <1>2 DEF CallInv, Types, HookTypes, Registry!TypeOK
  <2> QED BY <1>2, <1>5, <1>6, <2>1, RegistersKeepRecords DEF HookInv
<1>8. \A n \in Methods : code'[n] \in Trampolines => (Standing /\ EarlyOrOver(n, code[n]))'
  BY <1>2, <1>4, <1>5 DEF HookInv, EarlyOrOver
<1>9. DroppedCodeIsGone'
  BY <1>2, <1>5, RegistersKeepRecords DEF HookInv, DroppedCodeIsGone
<1> QED BY <1>2, <1>5, <1>7, <1>8, <1>9, RegistersKeepRecords DEF HookInv

LEMMA WireBackupKeepsHookInv ==
    ASSUME CallInv, HookInv, NEW t \in Threads, NEW b \in App, WireBackup(t, b)
    PROVE  HookInv'
<1>0. PICK x \in Trampolines : x = Fresh
  BY FreshIsNew DEF WireBackup
<1>1. /\ code' \in {code, [code EXCEPT ![b] = x]}
      /\ UNCHANGED <<lib, mode, crashed, callVars, hooks, pc, frame>>
      /\ b \in Methods
  BY <1>0 DEF WireBackup, Registry!Store, Methods
<1>2. /\ Standing
      /\ early' = IF WorkIsOver THEN early ELSE early \cup {<<b, x>>}
  BY <1>0, FreshIsNew DEF WireBackup, Standing
<1>3. Standing' = Standing /\ WorkIsOver' = WorkIsOver
  BY <1>1 DEF Standing, WorkIsOver
<1>4. early \subseteq early' /\ (Standing /\ EarlyOrOver(b, x))'
  BY <1>2, <1>3 DEF EarlyOrOver
<1>5. x # "aot"
  BY DisableAssumption DEF Code
<1>6. /\ (\A n \in Methods : code[n] \in Trampolines => Standing /\ EarlyOrOver(n, code[n]))'
      /\ DroppedCodeIsGone'
  BY <1>1, <1>4, <1>5, StoresKeepHookInv
<1> QED BY <1>1, <1>4, <1>6, RegistersKeepRecords DEF HookInv

\* What a call of install_hook() or remove_hook() that is in progress works on.
LEMMA FramesInCall ==
    ASSUME CallInv, HookInv, NEW t \in Threads, pc[t] # "idle"
    PROVE  frame[t] \in Registry!Record /\ RecordInv(frame[t])
  BY DEF CallInv, Types, HookTypes, Registry!TypeOK, HookInv

LEMMA StoreKeepsHookInv ==
    ASSUME CallInv, HookInv, NEW t \in Threads, RegistryProceeds(t),
           Registry!InstallStore(t) \/ Registry!RemoveStore(t)
    PROVE  HookInv'
<1>1. pc[t] # "idle" /\ UNCHANGED <<lib, mode, crashed, callVars, early, hooks, frame>>
  BY DEF RegistryProceeds, Registry!InstallStore, Registry!RemoveStore, Registry!Goto
<1>2. frame[t] \in Registry!Record /\ RecordInv(frame[t])
  BY <1>1, FramesInCall
<1>3. PICK m \in Methods : m = frame[t].target
  BY <1>2 DEF Registry!Record
<1>4. PICK v : /\ code' \in {code, [code EXCEPT ![m] = v]}
               /\ v \in Trampolines => Standing /\ EarlyOrOver(m, v)
               /\ dropped /\ v = "aot" => HookedEarly(m)
  <2>1. CASE Registry!InstallStore(t)
    <3>1. code' \in {code, [code EXCEPT ![m] = frame[t].installed_entry]}
      BY <1>3, <2>1 DEF Registry!InstallStore, Registry!Store
    <3>2. frame[t].installed_entry # "aot"
      BY <1>2, DisableAssumption DEF Registry!Record, Code
    <3> QED BY <1>2, <1>3, <3>1, <3>2 DEF RecordInv
  <2>2. CASE Registry!RemoveStore(t)
    <3>1. code' \in {code, [code EXCEPT ![m] = frame[t].previous_entry]}
      BY <1>3, <2>2 DEF Registry!RemoveStore, Registry!Store
    <3> QED BY <1>2, <1>3, <3>1 DEF RecordInv
  <2> QED BY <2>1, <2>2
<1>5. v \in Trampolines => (Standing /\ EarlyOrOver(m, v))'
  BY <1>1, <1>4, RegistersKeepRecords
<1>6. /\ (\A n \in Methods : code[n] \in Trampolines => Standing /\ EarlyOrOver(n, code[n]))'
      /\ DroppedCodeIsGone'
  BY <1>1, <1>4, <1>5, StoresKeepHookInv
<1>7. \A u \in Threads : pc'[u] # "idle" => pc[u] # "idle"
  <2>1. \E where : pc' = [pc EXCEPT ![t] = where]
    BY DEF Registry!InstallStore, Registry!RemoveStore, Registry!Goto
  <2> QED BY <1>1, <2>1 DEF CallInv, Types, HookTypes, Registry!TypeOK
<1> QED BY <1>1, <1>6, <1>7, RegistersKeepRecords DEF HookInv

\* The steps that write no slot: records come from the locals, and locals from
\* the records.
LEMMA RecordsKeepHookInv ==
    ASSUME CallInv, HookInv, UNCHANGED <<lib, mode, crashed, callVars, early, code>>,
           \A i \in 1..Len(hooks') :
              \/ \E j \in 1..Len(hooks) : hooks'[i] = hooks[j]
              \/ \E u \in Threads : pc[u] # "idle" /\ hooks'[i] = frame[u],
           \A u \in Threads : pc'[u] # "idle" =>
              \/ pc[u] # "idle" /\ frame'[u] = frame[u]
              \/ \E j \in 1..Len(hooks) : frame'[u] = hooks[j]
    PROVE  HookInv'
<1>1. \A i \in 1..Len(hooks') : RecordInv(hooks[i])'
  <2> SUFFICES ASSUME NEW i \in 1..Len(hooks') PROVE RecordInv(hooks[i])'
    OBVIOUS
  <2>1. PICK r : r = hooks'[i] /\ RecordInv(r)
    BY DEF HookInv
  <2> QED BY <2>1, RegistersKeepRecords
<1>2. ASSUME NEW u \in Threads, pc'[u] # "idle" PROVE RecordInv(frame[u])'
  <2>1. PICK r : r = frame'[u] /\ RecordInv(r)
    BY <1>2 DEF HookInv
  <2> QED BY <2>1, RegistersKeepRecords
<1>3. \A n \in Methods : code'[n] \in Trampolines => (Standing /\ EarlyOrOver(n, code[n]))'
  BY DEF HookInv, Standing, EarlyOrOver, WorkIsOver
<1>4. DroppedCodeIsGone'
  BY DEF HookInv, DroppedCodeIsGone, HookedEarly
<1> QED BY <1>1, <1>2, <1>3, <1>4 DEF HookInv

LEMMA RegistersKeepHookInv ==
    ASSUME CallInv, HookInv, Registers
    PROVE  HookInv'
<1> USE DEF CallInv, Types, HookTypes, Registry!TypeOK
<1>1. ASSUME NEW t \in Threads, RegistryProceeds(t), Registry!InstallVerify(t) PROVE HookInv'
  <2>1. /\ UNCHANGED <<lib, mode, crashed, callVars, early, code>> /\ pc[t] # "idle"
        /\ hooks' \in {hooks, Append(hooks, frame[t])}
        /\ pc' = [pc EXCEPT ![t] = "idle"] /\ frame' = [frame EXCEPT ![t] = NoRecord]
    BY <1>1 DEF RegistryProceeds, Registry!InstallVerify, Registry!Return
  <2>2. \A i \in 1..Len(hooks') : hooks'[i] = frame[t]
                                     \/ \E j \in 1..Len(hooks) : hooks'[i] = hooks[j]
    BY <2>1
  <2>3. \A u \in Threads : pc'[u] # "idle" => pc[u] # "idle" /\ frame'[u] = frame[u]
    BY <2>1
  <2> HIDE DEF CallInv
  <2> QED BY <2>1, <2>2, <2>3, RecordsKeepHookInv
<1>2. ASSUME NEW t \in Threads, RegistryProceeds(t), Registry!RemoveVerify(t) PROVE HookInv'
  <2>1. /\ UNCHANGED <<lib, mode, crashed, callVars, early, code>> /\ pc[t] # "idle"
        /\ \E i \in 1..Len(hooks) : hooks' \in {hooks, Registry!RemoveAt(hooks, i)}
        /\ pc' = [pc EXCEPT ![t] = "idle"] /\ frame' = [frame EXCEPT ![t] = NoRecord]
    BY <1>2 DEF RegistryProceeds, Registry!RemoveVerify, Registry!Return, Registry!IsTop
  <2>2. \A i \in 1..Len(hooks') : \E j \in 1..Len(hooks) : hooks'[i] = hooks[j]
    BY <2>1, RemoveAtKeeps
  <2>3. \A u \in Threads : pc'[u] # "idle" => pc[u] # "idle" /\ frame'[u] = frame[u]
    BY <2>1
  <2> HIDE DEF CallInv
  <2> QED BY <2>1, <2>2, <2>3, RecordsKeepHookInv
<1>3. ASSUME NEW t \in Threads, NEW m \in Methods, BeginUnhook(t, m), Registry!RemoveStale(t, m)
      PROVE  HookInv'
  <2>1. /\ UNCHANGED <<lib, mode, crashed, callVars, early, code, pc, frame>>
        /\ \E i \in 1..Len(hooks) : hooks' = Registry!RemoveAt(hooks, i)
    BY <1>3 DEF BeginUnhook, Registry!RemoveStale
  <2>2. \A i \in 1..Len(hooks') : \E j \in 1..Len(hooks) : hooks'[i] = hooks[j]
    BY <2>1, RemoveAtKeeps
  <2> HIDE DEF CallInv
  <2> QED BY <2>1, <2>2, RecordsKeepHookInv
<1>4. ASSUME NEW t \in Threads, NEW m \in Methods, BeginUnhook(t, m), Registry!RemoveCheck(t, m)
      PROVE  HookInv'
  <2>1. PICK i \in 1..Len(hooks) :
           /\ UNCHANGED <<lib, mode, crashed, callVars, early, code, hooks>>
           /\ pc' = [pc EXCEPT ![t] = "remove_store"] /\ frame' = [frame EXCEPT ![t] = hooks[i]]
    BY <1>4 DEF BeginUnhook, Registry!RemoveCheck, Registry!Enter
  <2>2. \A u \in Threads : pc'[u] # "idle" => \/ pc[u] # "idle" /\ frame'[u] = frame[u]
                                              \/ \E j \in 1..Len(hooks) : frame'[u] = hooks[j]
    BY <2>1
  <2> HIDE DEF CallInv
  <2> QED BY <2>1, <2>2, RecordsKeepHookInv
<1> HIDE DEF CallInv, Types, HookTypes, Registry!TypeOK
<1>5. ASSUME NEW t \in Threads, RegistryProceeds(t) PROVE HookInv'
  BY <1>1, <1>2, <1>5, StoreKeepsHookInv DEF RegistryProceeds, Registry!Proceed
<1>6. ASSUME NEW t \in Threads, NEW m \in Methods, BeginUnhook(t, m) PROVE HookInv'
  BY <1>3, <1>4, <1>6 DEF BeginUnhook
<1> QED BY <1>5, <1>6, BeginHookKeepsHookInv, WireBackupKeepsHookInv DEF Registers

LEMMA HookInvStep == CallInv /\ AutoInv /\ HookInv /\ [Next]_vars => HookInv'
<1> SUFFICES ASSUME CallInv, AutoInv, HookInv, [Next]_vars PROVE HookInv'
  OBVIOUS
<1>1. ASSUME NEW m \in App, LinkCode(m) PROVE HookInv'
  <2>1. PICK v : /\ code' = [code EXCEPT ![m] = v] /\ v \in Code
                 /\ debuggable => v = "interpreter"
                 /\ UNCHANGED <<asideVars, callVars>>
    BY <1>1 DEF LinkCode, Code
  <2>2. v \notin Trampolines /\ ~(dropped /\ v = "aot")
    BY <2>1, DisableAssumption DEF CallInv
  <2>3. /\ (\A n \in Methods : code[n] \in Trampolines => Standing /\ EarlyOrOver(n, code[n]))'
        /\ DroppedCodeIsGone'
    <3>1. /\ m \in Methods /\ UNCHANGED <<lib, mode, crashed, callVars>> /\ early \subseteq early'
          /\ code' \in {code, [code EXCEPT ![m] = v]}
      BY <2>1 DEF Methods
    <3> QED BY <2>2, <3>1, StoresKeepHookInv
  <2> QED BY <2>1, <2>3, RegistersKeepRecords DEF HookInv
<1>2. CASE UNCHANGED vars
  BY <1>2, RecordsKeepHookInv DEF vars
<1> QED BY <1>1, <1>2, NextSplit, CallsKeepHookInv, RegistersKeepHookInv

LEMMA HookInvHolds == Spec => []HookInv
<1>1. Init => HookInv
  BY HookInvInit
<1>2. DisableInv /\ HookInv /\ [Next]_vars => HookInv'
  BY HookInvStep DEF DisableInv
<1> QED BY <1>1, <1>2, DisableInvHolds, PTL DEF Spec

(* Once linked code was dropped, no method is on AOT code any more, not even  *)
(* one linked while the call was under way, for the runtime was marked        *)
(* before; and no unhook that displaced AOT code puts it back, unless its     *)
(* hook was begun before an application's own first call was over.            *)
THEOREM DroppedCodeStaysGone == Spec => []DroppedCodeIsGone
<1>1. HookInv => DroppedCodeIsGone
  BY DEF HookInv
<1> QED BY <1>1, HookInvHolds, PTL

\* A hook that no unhook is taking down stays under the steps of hooks.
LEMMA RegistersSpareHooks ==
    ASSUME CallInv, Registers, NEW m \in Methods, code[m] \in Trampolines
    PROVE  code'[m] \in Trampolines \/ PutsBack(m)
<1> USE DEF CallInv, Types, HookTypes, Registry!TypeOK
<1>1. ASSUME NEW t \in Threads, Registry!InstallStore(t) PROVE code'[m] \in Trampolines
  <2>1. frame[t] \in Registry!Record
    BY <1>1 DEF Registry!InstallStore
  <2>2. frame[t].installed_entry \in Trampolines
    BY <2>1 DEF Registry!Record
  <2> QED BY <1>1, <2>2 DEF Registry!InstallStore, Registry!Store
<1>2. ASSUME NEW t \in Threads, Registry!RemoveStore(t)
      PROVE  code'[m] \in Trampolines \/ PutsBack(m)
  <2>1. pc[t] = "remove_store" /\ pc'[t] = "remove_verify"
    BY <1>2 DEF Registry!RemoveStore, Registry!Goto
  <2>2. CASE frame[t].target = m
    BY <2>1, <2>2 DEF PutsBack
  <2>3. CASE frame[t].target # m
    BY <1>2, <2>3 DEF Registry!RemoveStore, Registry!Store
  <2> QED BY <2>2, <2>3
<1>3. ASSUME NEW t \in Threads, NEW b \in App, WireBackup(t, b) PROVE code'[m] \in Trampolines
  <2>1. Fresh \in Trampolines
    BY <1>3, FreshIsNew DEF WireBackup
  <2> QED BY <1>3, <2>1 DEF WireBackup, Registry!Store
<1>4. ASSUME code' = code PROVE code'[m] \in Trampolines
  BY <1>4
<1> HIDE DEF CallInv, Types, HookTypes, Registry!TypeOK
<1>5. ASSUME NEW t \in Threads, RegistryProceeds(t)
      PROVE  code'[m] \in Trampolines \/ PutsBack(m)
  BY <1>1, <1>2, <1>4, <1>5
     DEF RegistryProceeds, Registry!Proceed, Registry!InstallVerify, Registry!RemoveVerify
<1>6. ASSUME NEW t \in Threads, NEW n \in Methods, BeginHook(t, n) \/ BeginUnhook(t, n)
      PROVE  code'[m] \in Trampolines
  BY <1>4, <1>6
     DEF BeginHook, BeginUnhook, Registry!InstallRead, Registry!RemoveStale, Registry!RemoveCheck
<1> QED BY <1>3, <1>5, <1>6 DEF Registers

(* No call overwrites a hook or a wired backup, but after arthooks.keep_aot   *)
(* one that was begun before the application's own first call was over.       *)
THEOREM HooksOutliveDisable == Spec => HookOutlivesDisable
<1> DEFINE Spared ==
             \A m \in Methods :
                code[m] \in Trampolines /\ (mode = "keep_aot" => <<m, code[m]>> \notin early)
                   => code'[m] \in Trampolines \/ PutsBack(m)
<1>1. DisableInv /\ HookInv /\ [Next]_vars => [Spared]_vars
  <2> SUFFICES ASSUME CallInv, AutoInv, HookInv, [Next]_vars, ~UNCHANGED vars,
                      NEW m \in Methods, code[m] \in Trampolines,
                      mode = "keep_aot" => <<m, code[m]>> \notin early
               PROVE  code'[m] \in Trampolines \/ PutsBack(m)
    BY DEF DisableInv
  <2>0. Standing /\ EarlyOrOver(m, code[m])
    BY DEF HookInv
  <2>1. ASSUME NEW t \in Threads, Calls(t) PROVE code' = code
    <3>1. CASE mode = "auto"
      <4>1. dpc[t] \notin {"deoptimize", "update"}
        BY <2>0, <3>1 DEF Standing, AutoInv, AutoLater
      <4>2. ~DeoptimizeBootImage(t) /\ ~UpdateEntrypoints(t)
        BY <4>1 DEF DeoptimizeBootImage, UpdateEntrypoints
      <4> QED BY <2>1, <4>2, FewStepsWriteCode
    <3>2. CASE mode = "keep_aot"
      BY <2>0, <2>1, <3>2, DoneCallsReturn DEF Standing, EarlyOrOver
    <3> QED BY <2>0, <3>1, <3>2 DEF Standing, CallInv, Types, Globals
  <2>2. ASSUME NEW n \in App, LinkCode(n) PROVE code'[m] = code[m]
    <3>1. code[n] = "unlinked" /\ n # m
      BY <2>2, DisableAssumption DEF LinkCode, Code
    <3> QED BY <2>2, <3>1 DEF LinkCode, CallInv, Types, HookTypes, Registry!TypeOK
  <2> QED BY <2>1, <2>2, NextSplit, RegistersSpareHooks
<1> QED BY <1>1, HookInvHolds, DisableInvHolds, PTL DEF Spec, HookOutlivesDisable

-----------------------------------------------------------------------------
(* Whoever looked the symbols up knows all of them and will drop the linked  *)
(* code, whatever calls that came in between make of half of them.           *)

\* The groups that were looked up before g.
Before == [debugState |-> {}, deoptimize |-> {"debugState"},
           update |-> {"debugState", "deoptimize"},
           plt |-> {"debugState", "deoptimize", "update"}]

Working(t) ==
    \/ dpc[t] \in LookingUp /\ Before[next[t]] \subseteq symbols
    \/ dpc[t] \in {"can", "mark", "plan"} /\ Groups \subseteq symbols
    \/ dpc[t] = "suspend" /\ Groups \subseteq symbols /\ plan[t] # "none"
    \/ dpc[t] = "redirect" /\ plan[t] # "none"
    \/ dpc[t] = "write_slot" /\ plan[t] # "none" /\ capturing = t
    \/ dpc[t] = "deoptimize" /\ plan[t] # "none" /\ slot = "capture" /\ capturing = t
    \/ dpc[t] \in {"restore", "update"} /\ plan[t] # "none" /\ captured = "instrumentation"

WorkInv ==
    Complete /\ ~spoiled =>
        /\ captured \in {"null", "instrumentation"}
        /\ resolved /\ ~dropped => \E t \in Threads : Working(t)

LEMMA WorkInvInit == Init => WorkInv
  BY DEF Init, WorkInv

LEMMA CompleteLibart ==
    ASSUME Complete
    PROVE  /\ lib.debugState /\ lib.deoptimize /\ lib.update /\ lib.plt
           /\ \A g \in Groups : lib[g]
           /\ lib.writable /\ lib.restorable /\ lib.visitor = "instrumentation"
<1>1. \A g \in Groups : lib[g]
  BY DEF Complete, Groups
<1> QED BY <1>1 DEF Complete

LEMMA LookersGoOn ==
    ASSUME CallInv, Complete, ~spoiled', NEW t \in Threads, Looks(t), Working(t)
    PROVE  Working(t)'
<1> USE DEF CallInv, Types, Frames, Working, LookingUp
<1>0. symbols \subseteq symbols' /\ \A g \in Groups : lib[g]
  BY FoundTyped, CompleteLibart DEF Calls, Looks, Proceed
<1>1. dpc[t] \in LookingUp /\ next[t] \in Groups /\ Before[next[t]] \subseteq symbols
  BY DEF Looks, TestResolved, FlagResolved, LookForLibart, StoreSymbols, FindNothing, StoreNull,
         Knows
<1>2. CASE LookForLibart(t) \/ FindNothing(t)
  BY <1>0, <1>1, <1>2 DEF LookForLibart, FindNothing
<1>3. CASE StoreSymbols(t)
  <2>1. symbols' = symbols \cup {next[t]}
    BY <1>0, <1>1, <1>3 DEF StoreSymbols
  <2>2. /\ dpc'[t] = IF Following[next[t]] = "none" THEN "can" ELSE "lookup"
        /\ next'[t] = Following[next[t]]
    BY <1>3 DEF StoreSymbols, NextGroup
  <2>3. IF Following[next[t]] = "none"
        THEN Groups \subseteq symbols'
        ELSE Before[Following[next[t]]] \subseteq symbols'
    BY <1>1, <2>1 DEF Groups, Before, Following
  <2> QED BY <2>2, <2>3
<1>4. CASE StoreNull(t)
  BY <1>0, <1>1, <1>4 DEF StoreNull
<1>5. ~TestResolved(t) /\ ~FlagResolved(t)
  BY <1>1 DEF TestResolved, FlagResolved
<1> QED
  <2> HIDE DEF CallInv, Types, Frames, Working
  <2> QED BY <1>2, <1>3, <1>4, <1>5, Zenon DEF Looks

LEMMA WorkersGoOn ==
    ASSUME CallInv, AutoInv, WorkInv, Complete, ~spoiled', NEW t \in Threads, Calls(t), Working(t)
    PROVE  Working(t)' \/ dropped'
<1> USE DEF CallInv, Types, Frames, Flags, Working, Redirects, LookingUp
<1>0. ~spoiled /\ symbols \subseteq symbols'
  BY FoundTyped
<1>1. CASE LoadClass(t)
  <2>1. mode # "auto"
    BY <1>1, DisableAssumption DEF LoadClass, AutoInv, AutoFirst
  <2> QED BY <1>1, <2>1 DEF LoadClass
<1>2. CASE Looks(t)
  <2> HIDE DEF CallInv, Working
  <2> QED BY <1>2, LookersGoOn
<1>3. CASE CanDisable(t) \/ MarkJavaDebuggable(t)
  BY <1>3 DEF CanDisable, MarkJavaDebuggable
<1>4. CASE PlanLinkedCodeDrop(t)
  BY <1>4 DEF PlanLinkedCodeDrop, Globals, Groups
<1>5. CASE SuspendAll(t)
  BY <1>5 DEF SuspendAll
<1>6. CASE OpenSlot(t)
  <2>1. lib.writable /\ "plt" \in symbols
    BY <1>0, <1>6, CompleteLibart DEF OpenSlot, Armed, Knows
  <2> QED BY <1>6, <2>1 DEF OpenSlot
<1>7. CASE WriteSlot(t)
  BY <1>7 DEF WriteSlot
<1>8. CASE DeoptimizeBootImage(t)
  <2>1. captured' = "instrumentation"
    BY <1>0, <1>8, CompleteLibart DEF DeoptimizeBootImage, WorkInv
  <2> QED BY <1>8, <2>1 DEF DeoptimizeBootImage
<1>9. CASE RestoreSlot(t)
  BY <1>9 DEF RestoreSlot
<1>10. CASE UpdateEntrypoints(t)
  <2>1. MayUpdate(t)
    BY <1>10 DEF UpdateEntrypoints, MayUpdate, ValidInstrumentation, RuntimeWords
  <2> QED BY <1>10, <2>1 DEF UpdateEntrypoints
<1>11. ~CallAgain(t) /\ ~Ends(t)
  BY DEF CallAgain, Ends, Refuse, CannotDrop, ResumeAll, Groups
<1>12. CASE NullIsUsed(t)
  BY <1>0, <1>12 DEF NullIsUsed, Knows, Armed, Window, MayUpdate
<1> QED
  <2> HIDE DEF CallInv, Types, Frames, Flags, Working
  <2> QED
    BY <1>1, <1>2, <1>3, <1>4, <1>5, <1>6, <1>7, <1>8, <1>9, <1>10, <1>11, <1>12, CallsSplit,
       Zenon DEF Decides, Works

\* A step of one thread takes nothing from another that works.
LEMMA OthersWorkOn ==
    ASSUME CallInv, AutoInv, WorkInv, Complete, ~spoiled', NEW t \in Threads, Calls(t),
           NEW u \in Threads, u # t, Working(u)
    PROVE  Working(u)'
<1> USE DEF CallInv, Types, Frames, Working, Knows, Window
<1>0. symbols \subseteq symbols'
  BY FoundTyped
<1>1. CASE LoadClass(t) \/ CallAgain(t)
  BY <1>1 DEF LoadClass, CallAgain
<1>2. CASE Looks(t)
  <2>1. UNCHANGED <<slotVars, plan>>
    BY <1>2, LooksChange
  <2>2. dpc'[u] = dpc[u] /\ next'[u] = next[u]
    <3>1. \/ \E where : dpc' = [dpc EXCEPT ![t] = where]
          \/ dpc' = dpc
      BY <1>2 DEF Looks, TestResolved, FlagResolved, LookForLibart, StoreSymbols, FindNothing,
                  StoreNull, NextGroup
    <3>2. next' = next \/ \E g : next' = [next EXCEPT ![t] = g]
      BY <1>2 DEF Looks, TestResolved, FlagResolved, LookForLibart, StoreSymbols, FindNothing,
                  StoreNull, NextGroup
    <3> QED BY <3>1, <3>2
  <2> QED BY <1>0, <2>1, <2>2
<1>3. CASE CanDisable(t) \/ MarkJavaDebuggable(t)
  BY <1>3 DEF CanDisable, MarkJavaDebuggable
<1>4. CASE PlanLinkedCodeDrop(t)
  BY <1>4 DEF PlanLinkedCodeDrop
<1>5. CASE Ends(t)
  BY <1>5, EndsChange
<1>6. CASE SuspendAll(t)
  BY <1>6 DEF SuspendAll
<1>7. CASE OpenSlot(t)
  BY <1>7 DEF OpenSlot
<1>8. CASE WriteSlot(t)
  BY <1>8 DEF WriteSlot
<1>9. CASE RestoreSlot(t)
  BY <1>9 DEF RestoreSlot
<1>10. CASE DeoptimizeBootImage(t)
  BY <1>10 DEF DeoptimizeBootImage
<1>11. CASE UpdateEntrypoints(t)
  BY <1>11 DEF UpdateEntrypoints
<1>12. CASE NullIsUsed(t)
  BY <1>12 DEF NullIsUsed
<1> QED
  <2> HIDE DEF CallInv, Types, Frames, Working
  <2> QED
    BY <1>1, <1>2, <1>3, <1>4, <1>5, <1>6, <1>7, <1>8, <1>9, <1>10, <1>11, <1>12, CallsSplit,
       Zenon DEF Decides, Works

LEMMA CallsKeepWorkInv ==
    ASSUME CallInv, AutoInv, WorkInv, NEW t \in Threads, Calls(t)
    PROVE  WorkInv'
<1>0. lib' = lib /\ (Complete' <=> Complete) /\ (~spoiled' => ~spoiled)
  <2>1. lib' = lib
    BY CallsChange
  <2> QED BY <2>1, FoundTyped DEF Complete
<1> SUFFICES ASSUME Complete, ~spoiled', ~spoiled PROVE WorkInv'
  BY <1>0 DEF WorkInv
<1>1. (captured \in {"null", "instrumentation"})'
  <2>1. CASE DeoptimizeBootImage(t)
    BY <2>1, CompleteLibart DEF DeoptimizeBootImage, WorkInv
  <2>2. CASE ~DeoptimizeBootImage(t)
    <3>1. captured' = captured
      <4>1. CASE LoadClass(t) \/ CallAgain(t) \/ NullIsUsed(t)
        BY <4>1 DEF LoadClass, CallAgain, NullIsUsed
      <4>2. CASE Looks(t) \/ Decides(t) \/ Ends(t)
        BY <4>2, LooksChange, DecidesChange, EndsChange
      <4>3. CASE Works(t)
        BY <2>2, <4>3
           DEF Works, SuspendAll, OpenSlot, WriteSlot, RestoreSlot, UpdateEntrypoints
      <4> QED BY <4>1, <4>2, <4>3, CallsSplit
    <3> QED BY <3>1 DEF WorkInv
  <2> QED BY <2>1, <2>2
<1>2. ASSUME resolved', ~dropped' PROVE \E u \in Threads : Working(u)'
  <2>0. ~dropped
    BY <1>2, FlagsTyped
  <2>1. CASE resolved
    <3>1. PICK u \in Threads : Working(u)
      BY <2>0, <2>1 DEF WorkInv
    <3>2. CASE u = t
      BY <1>2, <3>1, <3>2, WorkersGoOn
    <3>3. CASE u # t
      BY <3>1, <3>3, OthersWorkOn
    <3> QED BY <3>2, <3>3
  <2>2. CASE ~resolved
    <3>1. FlagResolved(t)
      <4>1. CASE LoadClass(t) \/ CallAgain(t) \/ NullIsUsed(t)
        BY <1>2, <2>2, <4>1 DEF LoadClass, CallAgain, NullIsUsed
      <4>2. CASE Decides(t) \/ Ends(t) \/ Works(t)
        BY <1>2, <2>2, <4>2, DecidesChange, EndsChange, WorksChange
      <4>3. CASE Looks(t)
        BY <1>2, <2>2, <4>3 DEF Looks, TestResolved, LookForLibart, StoreSymbols, FindNothing,
                                StoreNull
      <4> QED BY <4>1, <4>2, <4>3, CallsSplit
    <3>2. dpc'[t] = "lookup" /\ next'[t] = "debugState"
      BY <3>1 DEF FlagResolved, CallInv, Types, Frames
    <3>3. Before["debugState"] = {}
      BY DEF Before
    <3> QED BY <3>2, <3>3 DEF Working, LookingUp
  <2> QED BY <2>1, <2>2
<1> QED BY <1>1, <1>2 DEF WorkInv

LEMMA WorkInvStep == CallInv /\ AutoInv /\ WorkInv /\ [Next]_vars => WorkInv'
<1> SUFFICES ASSUME CallInv, AutoInv, WorkInv, [Next]_vars PROVE WorkInv'
  OBVIOUS
<1>1. CASE UNCHANGED <<lib, mode, callVars>>
  BY <1>1 DEF WorkInv, Complete, Working
<1>2. ASSUME NEW m \in App, LinkCode(m) PROVE WorkInv'
  BY <1>1, <1>2 DEF LinkCode
<1>3. CASE UNCHANGED vars
  BY <1>1, <1>3 DEF vars
<1> QED BY <1>1, <1>2, <1>3, NextSplit, CallsKeepWorkInv, RegistersChange

(* On a libart that exports and permits everything, linked code is gone when  *)
(* no call is under way any more and one of them said it was disabled, unless *)
(* a second lookup stored nulls over what the first had found.                *)
THEOREM WorkGetsDone == Spec => []DisabledMeansDropped
<1>1. Init => WorkInv
  BY WorkInvInit
<1>2. DisableInv /\ WorkInv /\ [Next]_vars => WorkInv'
  BY WorkInvStep DEF DisableInv
<1>3. DisableInv /\ WorkInv => DisabledMeansDropped
  BY DEF DisableInv, CallInv, Types, Flags, WorkInv, Working, LookingUp, DisabledMeansDropped
<1> QED BY <1>1, <1>2, <1>3, DisableInvHolds, PTL DEF Spec
=============================================================================
