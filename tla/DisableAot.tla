----------------------------- MODULE DisableAot -----------------------------
(***************************************************************************)
(* disable_aot_code() of deoptimize.cpp, and the static initialiser of     *)
(* ArtHooks.java that runs it first: the runtime is marked debuggable, and *)
(* with every other thread suspended libart's own PLT slot is pointed at a *)
(* pass-through that reads the Instrumentation* out of a call, so that ART *)
(* can be told to rewrite the entry points of what it linked earlier.      *)
(*                                                                         *)
(* No lock covers the globals.  Suspending all threads stops threads that  *)
(* run managed code, not the ones inside this library.                     *)
(***************************************************************************)
EXTENDS Naturals, Sequences

CONSTANTS
    Threads,     \* application threads
    Boot,        \* framework methods, linked before the process runs
    App,         \* the application's methods
    Trampolines, \* addresses of the library's own thunks
    NoThread, NoRecord,
    Libraries    \* the libart.so files considered, see Library

\* What the visitor's second word may hold, and which of that Runtime holds
\* among its own words.
Pointer == {"instrumentation", "class_linker", "runtime", "other"}
RuntimeWords == {"instrumentation", "class_linker"}

Library ==
    [debugState : BOOLEAN,  \* Runtime::instance_ and a way to set the state
     deoptimize : BOOLEAN,  \* DeoptimizeBootImage and ScopedSuspendAll
     update     : BOOLEAN,  \* UpdateEntrypointsForDebuggable (Android 14+)
     plt        : BOOLEAN,  \* a PLT slot for VisitClasses, and its mapping
     writable   : BOOLEAN,  \* the slot's page can be made writable ...
     restorable : BOOLEAN,  \* ... and once more, to put the slot back
     reprotects : BOOLEAN,  \* and its protection can be put back, each time
     visitor    : Pointer]

\* What ART puts in a slot, as far as this module tells it apart.
Code == {"unlinked", "aot", "interpreter"}

ASSUME DisableAssumption ==
    /\ NoThread \notin Threads
    /\ Boot \cap App = {}
    /\ Code \cap Trampolines = {}
    /\ Libraries \subseteq Library

VARIABLES
    lib,         \* what libart.so turns out to export, and to carry
    mode,        \* how ArtHooks came up: "auto", "keep_aot" or "unavailable"
    loader,      \* the thread inside ArtHooks' static initialiser
    loaded,      \* whether it has finished
    resolved,    \* g_resolved
    looked,      \* g_looked_for_libart
    filled,      \* whether g_libart has been filled in
    symbols,     \* the groups of symbols whose pointers are not null
    next,        \* the group each thread is looking up, or "none"
    spoiled,     \* a null was stored for what libart exports (history)
    crashed,     \* the process called through a null pointer
    disabled,    \* g_disabled
    dropped,     \* g_linked_code_dropped
    debuggable,  \* the runtime's own debug state
    suspended,   \* the thread that holds ScopedSuspendAll
    slot,        \* what libart's PLT slot for VisitClasses holds
    slotPage,    \* protection of the page the slot is on
    original,    \* g_visit_classes_original
    capturing,   \* g_capturing_thread
    captured,    \* g_captured_instrumentation
    code,        \* each method's entry point
    hooks, owner, made, pc, frame,  \* as in HookRegistry
    early,       \* method and trampoline of each hook or wired backup begun
                 \* before the call that did the work was over (history)
    dpc,         \* where each thread stands in disable_aot_code()
    plan,        \* the slot_protection to redirect with, or "none"
    refused      \* a call has returned false (history)

symbolVars   == <<resolved, looked, filled, symbols, next, spoiled>>
slotVars     == <<slot, slotPage, original, capturing, captured>>
outcomeVars  == <<disabled, dropped, debuggable>>
clinitVars   == <<loader, loaded>>
hookVars     == <<hooks, owner, made, pc, frame, early>>
\* What no step of a disable_aot() changes, short of a crash.
asideVars    == <<lib, mode, hookVars, crashed>>
callVars     == <<symbolVars, slotVars, outcomeVars, clinitVars, suspended, dpc, plan, refused>>
vars == <<asideVars, callVars, code>>

Methods == Boot \cup App

\* install_hook() and remove_hook() write the same slots, under their own lock.
Registry == INSTANCE HookRegistry
                WITH entry <- code, ArtRaces <- TRUE,
                     artCode <- [m \in Methods |-> "aot"]

\* The groups in the order they are looked up.
Groups == {"debugState", "deoptimize", "update", "plt"}
Following == [debugState |-> "deoptimize", deoptimize |-> "update",
              update |-> "plt", plt |-> "none"]

-----------------------------------------------------------------------------
Init ==
    /\ lib \in Libraries
    /\ mode \in {"auto", "keep_aot", "unavailable"}
    /\ loader = NoThread /\ loaded = FALSE
    /\ resolved = FALSE /\ looked = FALSE /\ filled = FALSE
    /\ symbols = {} /\ spoiled = FALSE /\ crashed = FALSE
    /\ next = [t \in Threads |-> "none"]
    /\ disabled = FALSE /\ dropped = FALSE /\ debuggable = FALSE
    /\ suspended = NoThread
    /\ slot = "art" /\ slotPage = "ro"
    /\ original = "null" /\ capturing = NoThread /\ captured = "null"
    /\ code \in {c \in [Methods -> {"aot", "unlinked"}] : \A m \in Boot : c[m] = "aot"}
    /\ hooks = <<>> /\ owner = NoThread /\ made = {} /\ early = {}
    /\ pc = [t \in Threads |-> "idle"]
    /\ frame = [t \in Threads |-> NoRecord]
    /\ dpc = [t \in Threads |-> "idle"]
    /\ plan = [t \in Threads |-> "none"]
    /\ refused = FALSE

\* A process that has crashed takes no step.
At(t, where) == ~crashed /\ dpc[t] = where

Goto(t, where) == dpc' = [dpc EXCEPT ![t] = where]

\* Back in Java: in the static initialiser, whose class is loaded now, or in
\* the application.
Return(t, value) ==
    /\ Goto(t, "idle")
    /\ refused' = (refused \/ ~value)
    /\ plan' = [plan EXCEPT ![t] = "none"]
    /\ loader' = NoThread
    /\ loaded' = TRUE

-----------------------------------------------------------------------------
(* ArtHooks.java: whoever touches the class first runs its initialiser, the *)
(* others wait for it.                                                      *)

LoadClass(t) ==
    /\ ~crashed /\ ~loaded /\ loader = NoThread
    /\ IF mode = "auto"
       THEN loader' = t /\ Goto(t, "resolve") /\ UNCHANGED loaded
       ELSE loaded' = TRUE /\ UNCHANGED <<loader, dpc>>
    /\ UNCHANGED <<asideVars, symbolVars, slotVars, outcomeVars, suspended, code, plan, refused>>

\* disable_aot() from application code.
CallAgain(t) ==
    /\ loaded /\ At(t, "idle") /\ pc[t] = "idle"
    /\ IF disabled
       THEN Return(t, TRUE)
       ELSE Goto(t, "resolve") /\ UNCHANGED <<plan, refused, clinitVars>>
    /\ UNCHANGED <<asideVars, symbolVars, slotVars, outcomeVars, suspended, code>>

-----------------------------------------------------------------------------
(* resolve_symbols(): the flag goes up first, the pointers follow.  Neither *)
(* flag is read and set in one step, and no lock is held.                   *)

TestResolved(t) ==
    /\ At(t, "resolve")
    /\ Goto(t, IF resolved THEN "can" ELSE "flag")
    /\ UNCHANGED <<asideVars, symbolVars, slotVars, outcomeVars, clinitVars, suspended, code,
                   plan, refused>>

FlagResolved(t) ==
    /\ At(t, "flag")
    /\ resolved' = TRUE
    /\ next' = [next EXCEPT ![t] = "debugState"]
    /\ Goto(t, "lookup")
    /\ UNCHANGED <<asideVars, looked, filled, symbols, spoiled, slotVars, outcomeVars, clinitVars,
                   suspended, code, plan, refused>>

\* libart() the first time: the flag goes up before the library is looked for.
LookForLibart(t) ==
    /\ \/ At(t, "lookup") /\ ~looked /\ Goto(t, "flag_libart") /\ UNCHANGED <<looked, filled>>
       \/ At(t, "flag_libart") /\ looked' = TRUE /\ Goto(t, "find") /\ UNCHANGED filled
       \/ At(t, "find") /\ filled' = TRUE /\ Goto(t, "lookup") /\ UNCHANGED looked
    /\ UNCHANGED <<asideVars, resolved, symbols, next, spoiled, slotVars, outcomeVars, clinitVars,
                   suspended, code, plan, refused>>

NextGroup(t) ==
    /\ next' = [next EXCEPT ![t] = Following[next[t]]]
    /\ Goto(t, IF Following[next[t]] = "none" THEN "can" ELSE "lookup")

\* A symbol is looked up and its address stored.  The address stays the same,
\* so that it may as well be looked up when it is stored.
StoreSymbols(t) ==
    /\ At(t, "lookup")
    /\ filled
    /\ symbols' = IF lib[next[t]] THEN symbols \cup {next[t]} ELSE symbols
    /\ NextGroup(t)
    /\ UNCHANGED <<asideVars, resolved, looked, filled, spoiled, slotVars, outcomeVars,
                   clinitVars, suspended, code, plan, refused>>

\* A libart that is being looked for answers null for everything ...
FindNothing(t) ==
    /\ At(t, "lookup")
    /\ looked /\ ~filled
    /\ Goto(t, "store_null")
    /\ UNCHANGED <<asideVars, symbolVars, slotVars, outcomeVars, clinitVars, suspended, code,
                   plan, refused>>

\* ... which is stored over whatever another lookup has stored meanwhile.
StoreNull(t) ==
    /\ At(t, "store_null")
    /\ symbols' = symbols \ {next[t]}
    /\ spoiled' = (spoiled \/ lib[next[t]])
    /\ NextGroup(t)
    /\ UNCHANGED <<asideVars, resolved, looked, filled, slotVars, outcomeVars, clinitVars,
                   suspended, code, plan, refused>>

-----------------------------------------------------------------------------
\* can_disable_aot_code() says yes.
CanDisable(t) ==
    /\ At(t, "can")
    /\ "debugState" \in symbols
    /\ Goto(t, "mark")
    /\ UNCHANGED <<asideVars, symbolVars, slotVars, outcomeVars, clinitVars, suspended, code,
                   plan, refused>>

\* It says no, or a setter it saw is gone by the time it would be called.
Refuse(t) ==
    /\ At(t, "can") \/ At(t, "mark")
    /\ "debugState" \notin symbols
    /\ Return(t, FALSE)
    /\ UNCHANGED <<asideVars, symbolVars, slotVars, outcomeVars, suspended, code>>

\* Mutant of MarkJavaDebuggable: a call that finds the work begun leaves it there.
MarkOnlyOnce(t) ==
    /\ At(t, "mark")
    /\ "debugState" \in symbols
    /\ debuggable' = TRUE
    /\ disabled' = TRUE
    /\ IF disabled THEN Return(t, TRUE)
                   ELSE Goto(t, "plan") /\ UNCHANGED <<clinitVars, plan, refused>>
    /\ UNCHANGED <<asideVars, symbolVars, slotVars, dropped, suspended, code>>

\* Mutant of MarkJavaDebuggable: g_disabled is not set.
MarkEachTime(t) ==
    /\ At(t, "mark")
    /\ "debugState" \in symbols
    /\ debuggable' = TRUE
    /\ Goto(t, "plan")
    /\ UNCHANGED <<asideVars, symbolVars, slotVars, disabled, dropped, clinitVars, suspended,
                   code, plan, refused>>

\* Mutant of MarkJavaDebuggable: the runtime goes on handing out AOT code.
MarkNothing(t) ==
    /\ At(t, "mark")
    /\ "debugState" \in symbols
    /\ disabled' = TRUE
    /\ Goto(t, "plan")
    /\ UNCHANGED <<asideVars, symbolVars, slotVars, debuggable, dropped, clinitVars, suspended,
                   code, plan, refused>>

MarkJavaDebuggable(t) ==
    /\ At(t, "mark")
    /\ "debugState" \in symbols
    /\ debuggable' = TRUE
    /\ disabled' = TRUE
    /\ Goto(t, "plan")
    /\ UNCHANGED <<asideVars, symbolVars, slotVars, dropped, clinitVars, suspended, code, plan,
                   refused>>

\* plan_linked_code_drop(): what /proc/self/maps says, before suspending.
PlanLinkedCodeDrop(t) ==
    /\ At(t, "plan")
    /\ plan' = [plan EXCEPT ![t] =
                  IF {"update", "plt"} \subseteq symbols THEN slotPage ELSE "none"]
    /\ Goto(t, "suspend")
    /\ UNCHANGED <<asideVars, symbolVars, slotVars, outcomeVars, clinitVars, suspended, code,
                   refused>>

-----------------------------------------------------------------------------
(* drop_linked_aot_code()                                                   *)

Redirects(t) == plan[t] # "none"

CannotDrop(t) ==
    /\ At(t, "suspend")
    /\ "deoptimize" \notin symbols
    /\ Return(t, TRUE)
    /\ UNCHANGED <<asideVars, symbolVars, slotVars, outcomeVars, suspended, code>>

\* Mutant of SuspendAll: nobody else is stopped.
SuspendNobody(t) ==
    /\ At(t, "suspend")
    /\ "deoptimize" \in symbols
    /\ suspended' = t
    /\ Goto(t, IF Redirects(t) THEN "redirect" ELSE "deoptimize")
    /\ UNCHANGED <<asideVars, symbolVars, slotVars, outcomeVars, clinitVars, code, plan, refused>>

SuspendAll(t) ==
    /\ At(t, "suspend")
    /\ "deoptimize" \in symbols
    /\ suspended = NoThread
    /\ suspended' = t
    /\ Goto(t, IF Redirects(t) THEN "redirect" ELSE "deoptimize")
    /\ UNCHANGED <<asideVars, symbolVars, slotVars, outcomeVars, clinitVars, code, plan, refused>>

\* The slot's content is remembered and its page made writable, or not: then
\* nothing is captured and the plan is of no further use.
OpenSlot(t) ==
    LET opens == lib.writable /\ "plt" \in symbols
    IN  /\ At(t, "redirect")
        /\ capturing' = t
        /\ original' = slot
        /\ slotPage' = IF opens THEN "rw" ELSE slotPage
        /\ plan' = IF opens THEN plan ELSE [plan EXCEPT ![t] = "none"]
        /\ Goto(t, IF opens THEN "write_slot" ELSE "deoptimize")
        /\ UNCHANGED <<asideVars, symbolVars, slot, captured, outcomeVars, clinitVars, suspended,
                       code, refused>>

\* write_slot() after its store: whether the page's protection went back is not
\* looked at.
Reprotect(t) ==
    \/ slotPage' = plan[t]
    \/ ~lib.reprotects /\ slotPage' = "rw"

WriteSlot(t) ==
    /\ At(t, "write_slot")
    /\ slot' = "capture"
    /\ Reprotect(t)
    /\ Goto(t, "deoptimize")
    /\ UNCHANGED <<asideVars, symbolVars, original, capturing, captured, outcomeVars, clinitVars,
                   suspended, code, plan, refused>>

\* Runtime::DeoptimizeBootImage() rewrites the boot image's entry points and
\* calls VisitClasses through the slot on the way.
DeoptimizeBootImage(t) ==
    /\ At(t, "deoptimize")
    /\ "deoptimize" \in symbols
    /\ code' = [m \in Methods |-> IF m \in Boot THEN "interpreter" ELSE code[m]]
    /\ captured' = IF slot = "capture" /\ capturing = t /\ captured = "null"
                   THEN lib.visitor ELSE captured
    /\ Goto(t, IF Redirects(t) THEN "restore" ELSE "update")
    /\ UNCHANGED <<asideVars, symbolVars, slot, slotPage, original, capturing, outcomeVars,
                   clinitVars, suspended, plan, refused>>

CanRestore == lib.restorable /\ "plt" \in symbols

\* Mutant of RestoreSlot: a slot that cannot be written is tried for ever.
RestoreUntilItTakes(t) ==
    /\ At(t, "restore")
    /\ IF CanRestore
       THEN slot' = original /\ Reprotect(t) /\ Goto(t, "update")
       ELSE UNCHANGED <<slot, slotPage, dpc>>
    /\ UNCHANGED <<asideVars, symbolVars, original, capturing, captured, outcomeVars, clinitVars,
                   suspended, code, plan, refused>>

\* Mutant of RestoreSlot: the page keeps the protection of the write.
RestoreLeavesWritable(t) ==
    /\ At(t, "restore")
    /\ slot' = original /\ slotPage' = "rw"
    /\ Goto(t, "update")
    /\ UNCHANGED <<asideVars, symbolVars, original, capturing, captured, outcomeVars, clinitVars,
                   suspended, code, plan, refused>>

\* The slot gets back what it held.  That this can fail is not looked at.
RestoreSlot(t) ==
    /\ At(t, "restore")
    /\ IF CanRestore
       THEN slot' = original /\ Reprotect(t)
       ELSE UNCHANGED <<slot, slotPage>>
    /\ Goto(t, "update")
    /\ UNCHANGED <<asideVars, symbolVars, original, capturing, captured, outcomeVars, clinitVars,
                   suspended, code, plan, refused>>

\* validate_instrumentation(): one of Runtime's own words, and neither Runtime
\* itself nor its ClassLinker.
ValidInstrumentation(pointer) ==
    pointer \in RuntimeWords \ {"null", "runtime", "class_linker"}

MayUpdate(t) == Redirects(t) /\ ValidInstrumentation(captured)

\* Everything linked so far is rewritten, if what the call needs was found.
UpdateEntrypoints(t) ==
    /\ At(t, "update")
    /\ MayUpdate(t) => "update" \in symbols
    /\ capturing' = NoThread
    /\ IF MayUpdate(t)
       THEN /\ code' = [m \in Methods |->
                          IF code[m] = "unlinked" THEN "unlinked" ELSE "interpreter"]
            /\ dropped' = TRUE
       ELSE UNCHANGED <<code, dropped>>
    /\ Goto(t, "resume")
    /\ UNCHANGED <<asideVars, symbolVars, slot, slotPage, original, captured, disabled,
                   debuggable, clinitVars, suspended, plan, refused>>

ResumeAll(t) ==
    /\ At(t, "resume")
    /\ "deoptimize" \in symbols
    /\ suspended' = NoThread
    /\ Return(t, TRUE)
    /\ UNCHANGED <<asideVars, symbolVars, slotVars, outcomeVars, code>>

\* A pointer that was checked is null by the time it is used.
NullIsUsed(t) ==
    /\ \/ At(t, "mark") /\ "debugState" \notin symbols
       \/ At(t, "redirect") /\ "plt" \notin symbols
       \/ (At(t, "deoptimize") \/ At(t, "resume")) /\ "deoptimize" \notin symbols
       \/ At(t, "update") /\ MayUpdate(t) /\ "update" \notin symbols
    /\ crashed' = TRUE
    /\ UNCHANGED <<lib, mode, hookVars, callVars, code>>

-----------------------------------------------------------------------------
(* Hooks going in and out, and backups being wired, by threads in native    *)
(* code, which no suspension stops.                                         *)

Fresh == CHOOSE x \in Trampolines : x \notin made
CanAllocate == \E x \in Trampolines : x \notin made

\* The work of disable_aot() is over, or there is none.
WorkIsOver == disabled /\ \A t \in Threads : dpc[t] = "idle"

Hooks(t, m) ==
    /\ loaded /\ mode # "unavailable"
    /\ At(t, "idle") /\ pc[t] = "idle"
    /\ code[m] # "unlinked"
    /\ CanAllocate
    /\ early' = IF WorkIsOver THEN early ELSE early \cup {<<m, Fresh>>}

\* install_hook()'s read of the entry point it displaces.
BeginHook(t, m) ==
    /\ Hooks(t, m)
    /\ Registry!InstallRead(t, m, Fresh)
    /\ UNCHANGED <<lib, mode, crashed, callVars>>

\* install_backup()'s store into the backup's own slot.
WireBackup(t, b) ==
    /\ Hooks(t, b)
    /\ made' = made \cup {Fresh}
    /\ Registry!Store(b, Fresh)
    /\ UNCHANGED <<lib, mode, crashed, callVars, hooks, owner, pc, frame>>

BeginUnhook(t, m) ==
    /\ At(t, "idle")
    /\ Registry!RemoveStale(t, m) \/ Registry!RemoveCheck(t, m)
    /\ UNCHANGED <<lib, mode, crashed, callVars, early>>

\* The stores, the readings back and the records of both.
RegistryProceeds(t) ==
    /\ At(t, "idle")
    /\ Registry!Proceed(t)
    /\ UNCHANGED <<lib, mode, crashed, callVars, early>>

\* ClassLinker::LinkCode, which asks Instrumentation::CanUseAotCode().
LinkCode(m) ==
    /\ ~crashed /\ suspended = NoThread
    /\ code[m] = "unlinked"
    /\ code' = [code EXCEPT ![m] = IF debuggable THEN "interpreter" ELSE "aot"]
    /\ UNCHANGED <<asideVars, callVars>>

-----------------------------------------------------------------------------
Proceed(t) ==
    \/ TestResolved(t) \/ FlagResolved(t) \/ LookForLibart(t)
    \/ StoreSymbols(t) \/ FindNothing(t) \/ StoreNull(t)
    \/ CanDisable(t) \/ Refuse(t) \/ MarkJavaDebuggable(t) \/ PlanLinkedCodeDrop(t)
    \/ CannotDrop(t) \/ SuspendAll(t) \/ OpenSlot(t) \/ WriteSlot(t) \/ DeoptimizeBootImage(t)
    \/ RestoreSlot(t) \/ UpdateEntrypoints(t) \/ ResumeAll(t) \/ NullIsUsed(t)

Crashed == crashed /\ UNCHANGED vars

Next ==
    \/ \E t \in Threads : LoadClass(t) \/ CallAgain(t) \/ Proceed(t) \/ RegistryProceeds(t)
    \/ \E t \in Threads, m \in Methods : BeginHook(t, m) \/ BeginUnhook(t, m)
    \/ \E t \in Threads, b \in App : WireBackup(t, b)
    \/ \E m \in App : LinkCode(m)
    \/ Crashed

Spec == Init /\ [][Next]_vars

\* A call runs straight through; the only wait in it is for another call's
\* suspension to end.
FairSpec == Spec /\ \A t \in Threads : WF_vars(Proceed(t))
-----------------------------------------------------------------------------
DisableTypeOK ==
    /\ lib \in Library
    /\ Registry!TypeOK
    /\ early \subseteq Methods \X made
    /\ loader \in Threads \cup {NoThread}
    /\ symbols \subseteq Groups /\ (symbols # {} => resolved /\ filled)
    /\ crashed => spoiled
    /\ disabled => debuggable
    /\ suspended \in Threads \cup {NoThread}
    /\ slot \in {"art", "capture"} /\ slotPage \in {"ro", "rw"}
    /\ capturing \in Threads \cup {NoThread}
    /\ captured \in Pointer \cup {"null"}
    /\ \A t \in Threads : /\ next[t] \in Groups \cup {"none"}
                          /\ dpc[t] # "idle" => pc[t] = "idle"
    /\ \A t \in Threads : dpc[t] \in {"deoptimize", "write_slot", "restore", "update", "resume"}
                              => suspended = t

(* Whatever goes through the redirected slot comes out at ART's own function *)
(* ("then does exactly what the real function would", deoptimize.cpp:212):   *)
(* the pass-through never forwards to itself, for one initialiser or for     *)
(* calls racing each other, as long as no slot failed to be put back         *)
(* between two of those, or the pointer to it was lost (art_symbols.cpp:116).*)
VisitReachesArt ==
    mode = "auto" \/ (lib.restorable /\ ~spoiled) =>
        original # "capture" /\ (slot = "capture" => original = "art")

(* Outside the suspension libart's slot is its own again, read by nobody,    *)
(* and the initialiser's call leaves it on a read-only page, unless the      *)
(* protection could not be put back (deoptimize.cpp:230-236).  Calls that    *)
(* race each other may take it from one another's window.                    *)
SlotIsPutBack ==
    suspended = NoThread /\ lib.restorable /\ ~spoiled =>
        /\ slot = "art" /\ capturing = NoThread
        /\ mode = "auto" /\ lib.reprotects => slotPage = "ro"

\* A hook of m, or its wiring, began before the work was over.
HookedEarly(m) == mode = "keep_aot" /\ \E x \in Trampolines : <<m, x>> \in early

(* Once the linked code was dropped no method is on AOT code any more, those *)
(* linked while the call was under way included (deoptimize.hpp:25-39), and  *)
(* no unhook brings it back, unless the method was hooked too early: what a  *)
(* hook displaced before the drop, its unhook puts back after it             *)
(* (hook_registry.cpp:30, 65).                                               *)
DroppedCodeIsGone == dropped => \A m \in Methods : code[m] = "aot" => HookedEarly(m)

\* libart exports and allows everything the call asks for.
Complete ==
    /\ lib.debugState /\ lib.deoptimize /\ lib.update /\ lib.plt
    /\ lib.writable /\ lib.restorable /\ lib.visitor = "instrumentation"

(* On such a libart the work is done once no call is under way any more: that *)
(* a second caller takes half of the symbols for all there are, marks the     *)
(* runtime and returns true without dropping anything, does not keep the      *)
(* first one from finishing ("Both walk every loaded class rewriting entry    *)
(* points", deoptimize.cpp:311) -- unless two callers looked the symbols up   *)
(* and the null of one replaced what the other had found.                     *)
DisabledMeansDropped ==
    Complete /\ ~spoiled /\ disabled /\ (\A t \in Threads : dpc[t] = "idle") => dropped

\* The store of an unhook of m.
PutsBack(m) ==
    \E t \in Threads : pc[t] = "remove_store" /\ pc'[t] # "remove_store" /\ frame[t].target = m

(* ArtHooks' own initialiser rewrites entry points before any hook can be     *)
(* there, and calling disable_aot() again "is a no-op" (ArtHooks.java:73-74): *)
(* no hook and no wired backup is overwritten but one begun before a first    *)
(* call left to the application was over (deoptimize.hpp:48-49).              *)
HookOutlivesDisable ==
    [][\A m \in Methods :
          code[m] \in Trampolines /\ (mode = "keep_aot" => <<m, code[m]>> \notin early)
              => code'[m] \in Trampolines \/ PutsBack(m)]_vars

(* disable_aot() returns, also from between two suspensions, unless the null  *)
(* of another caller is called through.                                       *)
DisableReturns == \A t \in Threads : dpc[t] # "idle" ~> dpc[t] = "idle" \/ (crashed /\ spoiled)

(* "Returns false if libart does not export what this needs, in which case   *)
(* nothing was changed" (ArtHooks.java:104-105).                             *)
RefusesOnlyWithoutExports ==
    refused => ~lib.debugState
=============================================================================
