------------------------------- MODULE Startup -------------------------------
(***************************************************************************)
(* The static initialiser of ArtHooks and its init(): the ArtMethod layout *)
(* is measured off two probe methods, access_flags_ is searched for, the   *)
(* resolution stub's address is measured and validated against             *)
(* /proc/self/maps, disable_aot() plans its scan of art::Runtime.  Then    *)
(* the stores into ArtMethods that hook_function() and unhook_function()   *)
(* make with what was measured.                                            *)
(***************************************************************************)
EXTENDS ProcMaps, FiniteSets

CONSTANTS
    Methods,     \* a class's methods, numbered as ART lays them out: 0, 1, ...
    ArrayAt,     \* address of the first
    Ptr,         \* sizeof(void *)
    Sizes,       \* what sizeof(art::ArtMethod) may be
    MaxApart,    \* bound: the layout probes are at most that many methods apart
    DecoySets,   \* offsets whose words may match both flag probes by chance
    Null, NoOffset,
    ResolutionStub, ProbeEntries, NanoTimeEntries, TargetEntries,
    Runtimes,    \* where art::Runtime may be: tagged pointers into the heap
    RuntimeScanBytes  \* kRuntimeScanBytes

Word == 4              \* sizeof(uint32_t)
AccessFlagsAt == 4     \* where ART keeps access_flags_, on every release so far

Offsets == {Word * i : i \in 0..32}

ASSUME StartupAssumption ==
    /\ Methods \subseteq Nat /\ ArrayAt \in Nat
    /\ Ptr \in {4, 8}
    /\ Sizes \subseteq {s \in Nat : s >= 2 * Ptr + 16 /\ s % Ptr = 0}
    /\ MaxApart \in Nat \ {0}
    /\ \A d \in DecoySets : d \subseteq Offsets \ {AccessFlagsAt}
    /\ NoOffset \notin Nat /\ Null \notin Nat
    /\ ProbeEntries \cup NanoTimeEntries \subseteq Pointers \cup {Null}
    /\ TargetEntries \cup Runtimes \subseteq Pointers
    /\ RuntimeScanBytes \in Nat

VARIABLES
    art,               \* the platform it comes up on
    pc,                \* where the static initialiser or a hook stands
    missing,           \* the indispensable part that was not found (history)
    artMethodSize,     \* g_art_method_size, and with it g_entry_point_offset
    accessFlagsOffset, \* g_access_flags_offset, or NoOffset
    stub,              \* g_resolution_stub, or Null while it is not valid
    probed,            \* entry points read of stub_probe and of nanoTime
    initialized,       \* g_initialized
    scan,              \* the runtime, and how much of it is to be read
    hooked,            \* methods with a hook
    target,            \* the method being hooked
    written            \* stores into ArtMethods (history)

measured == <<artMethodSize, accessFlagsOffset, stub, probed, initialized, scan>>
memory   == <<hooked, target, written>>
vars == <<mapsVars, art, pc, missing, measured, memory>>

Platforms ==
    {[size |-> s, distance |-> s * k, decoys |-> d, verbatim |-> v] :
        s \in Sizes, k \in 1..MaxApart, d \in DecoySets, v \in BOOLEAN}

Init ==
    /\ MapsInit
    /\ art \in Platforms
    /\ pc = "load"
    /\ missing = "nothing"
    /\ artMethodSize = 0
    /\ accessFlagsOffset = NoOffset
    /\ stub = Null
    /\ probed = <<Null, Null>>
    /\ initialized = FALSE
    /\ scan = [runtime |-> Null, bytes |-> 0]
    /\ hooked = {} /\ target = Null /\ written = {}

-----------------------------------------------------------------------------
Goto(where) == pc' = where

Found(next) == Goto(next) /\ UNCHANGED missing

Missing(part, next) == Goto(next) /\ missing' = part

\* A loadLibrary() that throws leaves the class erroneous for good.
LoadLibrary ==
    /\ pc = "load"
    /\ Found("field") \/ Missing("library", "erroneous")
    /\ UNCHANGED <<mapsVars, art, measured, memory>>

\* Hidden-API enforcement hides Executable.artMethod.
FindArtMethodField ==
    /\ pc = "field"
    /\ Found("layout") \/ Missing("artMethod", "modifiers")
    /\ UNCHANGED <<mapsVars, art, measured, memory>>

Plausible(size) == size >= 2 * Ptr + 16 /\ size <= 128 /\ size % Ptr = 0

LayoutProbeMissing ==
    /\ pc = "layout"
    /\ Missing("layout_probe", "modifiers")
    /\ UNCHANGED <<mapsVars, art, measured, memory>>

MeasureLayout ==
    /\ pc = "layout"
    /\ IF Plausible(art.distance)
       THEN Found("flags") /\ artMethodSize' = art.distance
       ELSE Missing("distance", "modifiers") /\ UNCHANGED artMethodSize
    /\ UNCHANGED <<mapsVars, art, accessFlagsOffset, stub, probed, initialized, scan, memory>>

FlagProbeMissing ==
    /\ pc = "flags"
    /\ Found("members")
    /\ UNCHANGED <<mapsVars, art, measured, memory>>

\* Offsets at which each probe's word holds that probe's own modifiers: that
\* of access_flags_ where ART stores them verbatim, and those of the decoys.
Matches == art.decoys \cup {o \in {AccessFlagsAt} : art.verbatim}

Candidates(size) == {o \in Matches : o + Word <= size}

\* Mutant of FindAccessFlags: the last match is as good as the only one.
FindLastMatch ==
    LET found == Candidates(artMethodSize)
    IN  /\ pc = "flags"
        /\ IF found = {} THEN UNCHANGED accessFlagsOffset
           ELSE accessFlagsOffset' = CHOOSE o \in found : \A p \in found : p <= o
        /\ Found("members")
        /\ UNCHANGED <<mapsVars, art, artMethodSize, stub, probed, initialized, scan, memory>>

\* find_access_flags_offset(): an ambiguous result is no result.
FindAccessFlags ==
    LET found == Candidates(artMethodSize)
    IN  /\ pc = "flags"
        /\ \/ \E o \in found :
                 /\ found = {o}
                 /\ accessFlagsOffset' = o
           \/ (\A o \in found : found # {o}) /\ UNCHANGED accessFlagsOffset
        /\ Found("members")
        /\ UNCHANGED <<mapsVars, art, artMethodSize, stub, probed, initialized, scan, memory>>

\* The java.lang.Class members init_class_initializer() caches.
FindClassMembers ==
    /\ pc = "members"
    /\ Found("stub") \/ Missing("members", "modifiers")
    /\ UNCHANGED <<mapsVars, art, measured, memory>>

-----------------------------------------------------------------------------
(* measure_resolution_stub().                                              *)

\* Mutant of StubNotMeasured: what is advisory costs the library.
StubIsRequired ==
    /\ Found("modifiers")
    /\ UNCHANGED <<artMethodSize, accessFlagsOffset, stub, probed, initialized, scan>>

\* The fallback will do: the library comes up all the same.
StubNotMeasured ==
    /\ Found("modifiers")
    /\ initialized' = TRUE
    /\ probed' = <<Null, Null>>
    /\ UNCHANGED <<artMethodSize, accessFlagsOffset, stub, scan>>

StubProbeMissing ==
    /\ pc = "stub"
    /\ StubNotMeasured
    /\ UNCHANGED <<mapsVars, art, memory>>

\* Both entry points are read before the probe's is looked at; nanoTime's is
\* Null if System or the method could not be resolved.
ReadProbe ==
    /\ pc = "stub"
    /\ probed' \in ProbeEntries \X NanoTimeEntries
    /\ Goto("validate")
    /\ UNCHANGED <<mapsVars, art, missing, artMethodSize, accessFlagsOffset, stub,
                   initialized, scan, memory>>

NullEntry ==
    /\ pc = "validate" /\ walk = NoWalk
    /\ probed[1] = Null
    /\ StubNotMeasured
    /\ UNCHANGED <<mapsVars, art, memory>>

FindStubMapping ==
    /\ pc = "validate"
    /\ probed[1] # Null
    /\ FindMapping(probed[1])
    /\ UNCHANGED <<art, pc, missing, measured, memory>>

\* Mutant of IsTheStub: being in libart is enough.
IsAnyInLibart == IsInLibart(walk.answer)

\* In libart, and not where a resolved native's calls go.
IsTheStub ==
    /\ IsInLibart(walk.answer)
    /\ ~(probed[2] # Null /\ probed[1] = probed[2])

ValidateStub ==
    /\ pc = "validate"
    /\ TakeAnswer
    /\ IF IsTheStub
       THEN /\ stub' = probed[1]
            /\ initialized' = TRUE
            /\ Found("modifiers")
            /\ UNCHANGED <<artMethodSize, accessFlagsOffset, probed, scan>>
       ELSE StubNotMeasured
    /\ UNCHANGED <<art, memory>>

\* find_get_modifiers() runs last, whether or not the rest came up; the
\* probes' entry points are forgotten.
FindGetModifiers ==
    /\ pc = "modifiers"
    /\ probed' = <<Null, Null>>
    /\ Found("aot")
    /\ UNCHANGED <<mapsVars, art, artMethodSize, accessFlagsOffset, stub, initialized, scan,
                   memory>>

\* disable_aot() is not called, or libart lacks what it takes.
KeepAot ==
    /\ pc = "aot"
    /\ Found("ready")
    /\ UNCHANGED <<mapsVars, art, measured, memory>>

\* plan_linked_code_drop() looks up where art::Runtime lies.
FindRuntimeMapping ==
    /\ pc = "aot" /\ initialized
    /\ \E runtime \in Runtimes :
          FindMapping(runtime) /\ scan' = [runtime |-> runtime, bytes |-> 0]
    /\ Found("plan")
    /\ UNCHANGED <<art, artMethodSize, accessFlagsOffset, stub, probed, initialized, memory>>

\* Mutant of BytesFrom: the size_t difference of the mapping's end and a
\* pointer with its tag on.
BytesFromTagged(m, pointer) == (m.end + 16 * AddressSpace - pointer) % (16 * AddressSpace)

BytesFrom(m, pointer) == m.end - untagged(pointer)

PlanRuntimeScan ==
    LET m == walk.answer
        mapped_bytes == BytesFrom(m, scan.runtime)
    IN  /\ pc = "plan"
        /\ TakeAnswer
        /\ scan' = [scan EXCEPT !.bytes =
                       IF m = NoMapping THEN 0
                       ELSE IF mapped_bytes < RuntimeScanBytes THEN mapped_bytes
                       ELSE RuntimeScanBytes]
        /\ Found("drop")
        /\ UNCHANGED <<art, artMethodSize, accessFlagsOffset, stub, probed, initialized, memory>>

\* What disable_aot() does with its plan is DisableAot's subject.
DropLinkedCode ==
    /\ pc = "drop"
    /\ scan' = [runtime |-> Null, bytes |-> 0]
    /\ Found("ready")
    /\ UNCHANGED <<mapsVars, art, artMethodSize, accessFlagsOffset, stub, probed, initialized,
                   memory>>

-----------------------------------------------------------------------------
(* The stores of a hook and an unhook.  Which order they come in, and what *)
(* else a hook does, is HookFunction's subject.                            *)

Base(m) == ArrayAt + m * art.size

\* Mutant of entryPointOffset: data_ and the entry point in the other order.
dataOffset == artMethodSize - 2 * Ptr

entryPointOffset == artMethodSize - Ptr

\* The page is made writable first; where mprotect() refuses, it was already.
WriteTo(m, offset, length) ==
    written' = written \cup {[method |-> m, at |-> Base(m) + offset, length |-> length]}

\* hook_function() refuses before anything else while g_initialized is false;
\* what the target runs at present may be anything.
BeginHook(m) ==
    /\ pc = "ready" /\ initialized
    /\ target' = m
    /\ Goto("warn")
    /\ \E entry \in TargetEntries : FindMapping(entry)
    /\ UNCHANGED <<art, missing, measured, hooked, written>>

\* warn_if_aot_compiled(): a log line, whatever is_aot_code() makes of it.
WarnIfAotCompiled ==
    /\ pc = "warn"
    /\ TakeAnswer
    /\ Goto("discourage")
    /\ UNCHANGED <<art, missing, measured, memory>>

DiscourageCompilation ==
    /\ pc = "discourage"
    /\ IF accessFlagsOffset = NoOffset
       THEN UNCHANGED written
       ELSE WriteTo(target, accessFlagsOffset, Word)
    /\ Goto("backup")
    /\ UNCHANGED <<mapsVars, art, missing, measured, hooked, target>>

InstallBackup ==
    /\ pc = "backup"
    /\ \/ UNCHANGED written
       \/ \E b \in Methods \ {target} : WriteTo(b, entryPointOffset, Ptr)
    /\ Goto("install")
    /\ UNCHANGED <<mapsVars, art, missing, measured, hooked, target>>

InstallHook ==
    /\ pc = "install"
    /\ WriteTo(target, entryPointOffset, Ptr)
    /\ hooked' = hooked \cup {target}
    /\ target' = Null
    /\ Goto("ready")
    /\ UNCHANGED <<mapsVars, art, missing, measured>>

\* unhook_function() refuses alike; only the entry point is put back.
Unhook(m) ==
    /\ pc = "ready" /\ initialized
    /\ m \in hooked
    /\ WriteTo(m, entryPointOffset, Ptr)
    /\ hooked' = hooked \ {m}
    /\ UNCHANGED <<mapsVars, art, pc, missing, measured, target>>

-----------------------------------------------------------------------------
StaticInitializer ==
    \/ LoadLibrary \/ FindArtMethodField \/ LayoutProbeMissing \/ MeasureLayout
    \/ FlagProbeMissing \/ FindAccessFlags \/ FindClassMembers
    \/ StubProbeMissing \/ ReadProbe \/ NullEntry \/ FindStubMapping \/ ValidateStub
    \/ FindGetModifiers \/ KeepAot \/ FindRuntimeMapping \/ PlanRuntimeScan
    \/ DropLinkedCode

Stores == WarnIfAotCompiled \/ DiscourageCompilation \/ InstallBackup \/ InstallHook

Proceed ==
    \/ StaticInitializer \/ Stores
    \/ ReadLine /\ UNCHANGED <<art, pc, missing, measured, memory>>

Next ==
    \/ Proceed
    \/ OtherThreads /\ UNCHANGED <<art, pc, missing, measured, memory>>
    \/ \E m \in Methods : BeginHook(m) \/ Unhook(m)

Spec == Init /\ [][Next]_vars

\* The thread in the initialiser, or in a hook, keeps running.
FairSpec == Spec /\ WF_vars(Proceed)
-----------------------------------------------------------------------------
StartupTypeOK ==
    /\ mapped \in Layouts
    /\ walk # NoWalk => pc \in {"validate", "plan", "warn"}
    /\ art \in Platforms
    /\ artMethodSize = 0 \/ Plausible(artMethodSize)
    /\ accessFlagsOffset \in Offsets \cup {NoOffset}
    /\ stub \in ProbeEntries \cup {Null}
    /\ target # Null <=> pc \in {"warn", "discourage", "backup", "install"}
    /\ initialized => artMethodSize # 0
    /\ hooked \subseteq Methods
    /\ \A w \in written : w.method \in Methods

(* No word that happens to look like both probes' modifiers is taken for     *)
(* access_flags_, even if the probes were not adjacent and the scan runs     *)
(* into the next methods, as long as ART stores modifiers verbatim           *)
(* (art_method.cpp:172-176).                                                 *)
FlagsOffsetIsAccessFlags ==
    art.verbatim /\ accessFlagsOffset # NoOffset => accessFlagsOffset = AccessFlagsAt

EntrySlot(m) == Base(m) + art.size - Ptr

\* Also if the layout probes were not adjacent after all: it is then still the
\* entry point slot of some method of the array, never a part of another field.
HitsItsField(w) ==
    \/ w.at = Base(w.method) + AccessFlagsAt /\ w.length = Word
    \/ /\ w.length = Ptr
       /\ \E k \in 0..(MaxApart - 1) : w.at = EntrySlot(w.method + k)
       /\ art.distance = art.size => w.at = EntrySlot(w.method)

(* Every store of a hook or an unhook hits the entry point, or the access    *)
(* flags, of the method it is meant for (art_method.hpp:38-39).              *)
StoresHitTheirFields == art.verbatim => \A w \in written : HitsItsField(w)

(* What gets trusted as the resolution stub lies in libart and is the stub,  *)
(* not what a native of an initialised class runs (class_init.cpp:44-52) --  *)
(* unless the probe's class was initialised after all and nanoTime, the      *)
(* yardstick, runs something else than it.                                   *)
MeasuredStubIsTheStub ==
    stub # Null =>
        /\ \A m \in Fixed : Contains(m, AddressOf(stub)) => m.file = "libart"
        /\ pc = "modifiers" =>
              stub = ResolutionStub \/ (probed[1] # ResolutionStub /\ probed[2] # probed[1])

(* Only what hooking cannot do without costs the library: a measurement that *)
(* is advisory may fail and hooks still go in (art_method.cpp:287-289,       *)
(* class_init.cpp:245, arthooks.cpp:298).                                    *)
OnlyRequiredPartsCostTheLibrary ==
    pc = "ready" => (initialized <=> missing = "nothing")

(* The words of art::Runtime that disable_aot() is going to look through are *)
(* mapped, wherever in its mapping it lies (deoptimize.cpp:117-121, 294-298).*)
RuntimeScanStaysMapped ==
    \A m \in Fixed :
        scan.runtime # Null /\ Contains(m, AddressOf(scan.runtime))
            => AddressOf(scan.runtime) + scan.bytes <= m.end

(* The static initialiser ends, and so does a hook, however much the memory  *)
(* map changes under the walk.                                               *)
StartupAnswers == pc \notin {"ready", "erroneous"} ~> pc \in {"ready", "erroneous"}
=============================================================================
