# A formal model of ArtHooks

ArtHooks redirects Java methods by overwriting one word per method, the entry point in `art::ArtMethod`.
That word is shared with ART, which writes it from its own threads for reasons of its own and knows nothing
of this library. What makes the library correct is therefore almost never inside one function: it is who
wrote the word last, what a step remembers of it, and what a call through it runs. This directory models
that in TLA+, checks it with TLC on small instances, and proves most of the safety properties for every
instance with TLAPS: the registry's for any number of methods, threads and hooks, the symbol lookup's for
tables of any size, the allocator's for any page and thunk sizes, the measurements' for any layout and
memory map, those of `disable_aot()` for any number of threads calling it, and what a call of a hooked
method runs for chains of any length. That the registry implements its abstract specification is proved as
well.

All paths below are relative to the repository; `cpp/` is `arthooks/src/main/cpp/`.

## Inventory

| Component | State it keeps | Operations | Correct if |
|---|---|---|---|
| Hook registry (`cpp/hook_registry.*`) | `g_hooks`, a vector of (target, displaced entry, installed trampoline); `g_lock` | `install_hook`, `remove_hook`, `hook_is_installed` | a live trampoline has a record; a method's records unwind in the order they displaced each other; a restore lands only on the hook's own trampoline |
| Trampoline allocator (`cpp/trampoline.*`) | `g_page`, `g_page_used`, the pages' protection; no lock | `make_trampoline`, `make_direct_trampoline` (`reserve`, `emit_*`, `seal`) | a thunk keeps its bytes for the life of the process, fits its page, and can be executed at any time |
| Hooking pipeline (`cpp/arthooks.cpp`) | `g_initialized`; the entry points of targets and backups | `init`, `hook_function`, `unhook_function`, `is_hooked`, `find_function` | a call of a hooked method passes every standing hook and ends in a body it may end in; a call always ends; the library is available exactly if nothing it needs is missing |
| Class initialisation (`cpp/class_init.*`) | `g_resolution_stub`, `g_stub_valid`, the cached members of `java.lang.Class` | `init_class_initializer` with `measure_resolution_stub`, `ensure_class_initialized`, `ensure_class_visibly_initialized` with its two loops | what is taken for the stub is the stub; no entry point is captured or written that ART is still going to replace |
| ArtMethod access (`cpp/art_method.*`) | `g_art_method_size`, `g_entry_point_offset`, `g_access_flags_offset` | `measure_layout`, `find_access_flags_offset`, `get_entry_point`, `set_entry_point`, `discourage_compilation` | a write that did not take is reported; offsets are right or not used, and every store hits the field it is for |
| AOT code disabling (`cpp/deoptimize.*`) | the resolved symbols, `g_disabled`, `g_linked_code_dropped`, the capture of the `Instrumentation*`; no lock; `/proc/self/maps` as it is while being read | `disable_aot`, `find_mapping`, `is_aot_code`, `is_in_libart` | libart's PLT slot is put back; code linked earlier is gone; no hook is overwritten; a mapping is found whatever happens around it, and nothing unmapped is read |
| libart symbol lookup (`cpp/art_symbols.*`) | `g_libart`, `g_looked_for_libart` | `find_libart_symbol`, `find_libart_plt_slot` | what it returns is the export or slot of that name, and the walk stays inside the tables |
| Java API (`ArtHooks.java`) | `AVAILABLE`, `AOT_DISABLED` | the static initialiser and the native methods | AOT code is disabled before the first hook can go in |
| Demo, self test, tools, build | none of the library's | | |

**How they interact.** The static initialiser of `ArtHooks.java` runs once per process: it loads the
library, measures the layout of an `ArtMethod`, the offset of `access_flags_` and the address of the
resolution stub, and calls `disable_aot()`. Everything later rests on what was measured there, and nothing
measures again. `hook_function()` runs straight through all of them: class initialisation (a call into Java,
so `<clinit>` runs inside it), settling off the resolution stub, discouraging the JIT, wiring the backup
(allocator, then a write to the backup's slot), the trampoline (allocator again), and the registry. Only the
last step holds a lock. `unhook_function()` is the registry alone. ART takes part in every one of them: it
runs initialisers, makes classes *visibly* initialised later on a thread of its own, installs JIT code when
a compilation finishes, sends methods back to the interpreter, and, from `disable_aot()`, rewrites every
entry point there is. The rest of the process takes part, too: it maps and unmaps memory while
`find_mapping()` reads the map of it, for the measurement, for `disable_aot()` and for a warning in each
hook.

**What is hard here.** Interleavings of installers with each other and with ART; windows between a read and
the write that depends on it, some under the lock and some not; asynchronous transitions of ART that may
come late or never; failures half-way (a page that cannot be mapped or sealed, a store that does not take,
an initialiser that throws); measurements that are advisory next to ones that are not, and coincidences that
look like a measurement; chains of hooks where each trampoline jumps into the next. `PROJECT.json` lists
every such hazard at its line under `hazards`, with the property that watches it or the reason there is none
yet.

## Modules

| Module | Models | State to code |
|---|---|---|
| `HookRegistry` | `hook_registry.cpp`, `get/set_entry_point` | `entry[m]` is the method's slot, `hooks` is `g_hooks`, `owner` is `g_lock`, `pc`/`frame` are a thread's position and locals inside a call; `artCode` and `made` are history |
| `HookChain` | what `hook_registry.hpp` and `ArtHooks.java` promise: a stack of hooks per method, each operation indivisible | `live[m]`, `chain[m]` |
| `RegistryChain` | how the registry stands for `HookChain`: the chain of a method among the records of the one vector, and the store at which a call takes effect | the refinement mapping, and `ImplementsHookChain` |
| `HookRegistry_proofs` | theorems about `HookRegistry`, and that it implements `HookChain` | |
| `ProcMaps` | `find_mapping`, `untagged`, `is_aot_code`, `is_in_libart` | `mapped` is the process's memory, `walk` the file being read (`cursor`: how far the kernel has got) and the answer |
| `Startup` | the static initialiser of `ArtHooks.java`, `init`, `init_class_initializer` and the measurement of the stub, `measure_layout`, `find_access_flags_offset`, the bounds of the scan of `art::Runtime`, and where the stores of hooks land; extends `ProcMaps` and drives its walks | `art` is the platform it comes up on, `pc` where the initialiser or a hook stands, the measured globals by their names, `written` the bytes stored to (history) |
| `ProcMaps_proofs`, `Startup_proofs` | theorems about those two | |
| `TrampolinePage` | `trampoline.cpp` | `page`, `used`, `prot` are `g_page`, `g_page_used` and the protections; `memory` holds the thunks whose bytes are whole |
| `TrampolinePage_proofs` | theorems about `TrampolinePage` with one installer | |
| `HookFunction` | `hook_function`, `unhook_function`, `class_init.cpp`, `discourage_compilation`; instantiates `HookRegistry` and lets the pipeline drive it | adds `thunk` (what each trampoline runs), `classState`, `dontBother`, `compiling`, `stubMeasured` (`g_stub_valid`), and `hpc`/`arg` for the position in `hook_function`; `exposed`, `overrun`, `unchecked`, `givenUp` are history |
| `HookFunction_proofs` | theorems about `HookFunction` and its slots | |
| `HookCalls_proofs` | theorems about what a call of a hooked method runs | |
| `DisableAot` | `disable_aot_code`, the static initialiser of `ArtHooks.java`, and the steps of `libart()` two callers can interleave; instantiates `HookRegistry`, whose threads write the same entry points | variables named after the globals; `lib` is what libart turns out to export, `code[m]` a method's entry point, `dpc` the position in `disable_aot_code`; `early`, `spoiled`, `refused` are history |
| `DisableAot_proofs` | theorems about `DisableAot` | |
| `ArtSymbols` | `art_symbols.cpp` | `lib` is the library a linker laid out (`WellFormed`), `looked`/`known` are the two globals, `cursor` is `index` or the relocation under it |
| `ArtSymbols_proofs` | theorems about `ArtSymbols` | |
| `MC*` | the instances TLC runs | |

**Grain of the steps.** A step is one access to something another thread can touch. In the registry the
read, the store and the read-back are steps of their own, because ART may write between them; the
bookkeeping is joined to the read-back, because only holders of `g_lock` see the vector. `remove_hook()` on
a stale record is one step: one read, and an erase under the lock. The final comparison of `set_entry_point`
decides which branch its caller takes, so it is part of `InstallVerify` and `RemoveVerify`. A store may not
take (`Store`), which is the case the code's read-back is written for.

Coarser than that is `WireBackup`, which reads the target's slot (`arthooks.cpp:139`), builds the thunk
(145) and stores it into the backup's slot (150) in one step, at the moment of the read. Nothing tells the
difference: until the hook goes in nobody but this call has to do with the trampoline or the backup's slot
(see the assumptions below), and the fixup of the backup's class leaves the same slot behind whether it
comes before or after the store. In `DisableAot` the first use of the symbols follows the checks of
`drop_linked_aot_code` in the same step, and `validate_instrumentation` the call it guards.

**Trampolines.** The registry and the pipeline treat them as addresses handed out once each, which is what
the allocator provides to a single installer (`ThunkIsIntact`) and fails to provide to two; that failure is
shown in the allocator's own module and not carried into the others. In `HookFunction` a trampoline knows
its thunk: "indirect" loads a method and jumps to that method's current entry point, "direct" has the
address baked in. `Hop` follows one jump, `Walk` the whole call.

**The settling loops.** `ensure_class_visibly_initialized` has two. Where the stub's address is known
(`stubMeasured`), `Nudge` asks ART to make the class visible until the target is off the stub and `Refused`
ends a hook whose nudges are spent. Where it is not, `Watch` remembers the slot and `WatchNudge` spends
nudges until the slot holds something else (`WatchMoved`), or until none is left: `WatchGivesUp` then lets
the hook proceed, as the code does, and `givenUp` remembers the target. This is the one way a hook can get
on top of the stub, and every property that it can break names it.

**What the pipeline lets pass.** Two of its checks are advisory. Where the modifiers of target or backup
could not be read, `SkipCheck` lets a backup of any shape through (`arthooks.cpp:102-108`), and `unchecked`
remembers the pair. Where `kAccCompileDontBother` could not be set, `Discourage` goes on all the same
(`art_method.cpp:342-361`, `arthooks.cpp:269-271`), and `exposed` remembers the method. Either may happen in
any call or in none, so every property is checked with and without.

**Disabling AOT code.** `resolve_symbols()` tests its flag, sets it and stores the pointers in steps of
their own, in four groups (`debugState`, `deoptimize`, `update`, `plt`), and so does `libart()` under it:
two callers may both be at it, and the one that finds libart being looked for stores nulls (`StoreNull`),
over what the other has found if it comes later; `spoiled` remembers that one replaced an export. Each later
use of a pointer reads it again, and one that has become null by then crashes the process (`NullIsUsed`).
Every write of the slot changes the page's protection and tries to change it back (`Reprotect`), which the
code does not look at. Hooks, unhooks and the wiring of backups go on beside all that, in the registry's own
steps, as suspending all threads does not stop those in native code; `early` remembers which of them began
before a call was over.

**The start.** `Startup` runs the measurements against a platform chosen at the beginning: the real size,
the distance of the two layout probes (a multiple of the size if they are not adjacent), the offsets at
which other words of the flag probes happen to match (`decoys`), and whether ART stores modifiers verbatim.
Each part of the initialiser may fail where the code lets it fail; `missing` remembers the indispensable
one. A hook is there only as its stores and its lookup for the warning.

**ART.** Its behaviour is taken from how the code and its comments describe it, and marked external in the
map: initialising a class resets the entry points of its methods; the fixup only moves entry points that are
still on the stub (observed, not read from ART's source, as
`docs/superpowers/specs/2026-09-26-arthooks-reliability.md` 5.1 says); the JIT does not start on a method
flagged `kAccCompileDontBother` but finishes what it started, and starts on any other, hooked or not;
deoptimisation resets a target's entry point whenever it likes. `overrun` remembers the methods whose hooks
the last two can take away. The slots of backups are written by class initialisation and the fixup only:
that the JIT compiles a backup, or that ART deoptimises one, is outside the model, and so is a wired backup
that goes on running the AOT code it has captured after `disable_aot()` dropped that.

**Assumptions on the application.** `HookFunction` gives a replacement and its backup to one hook at a time,
and to another only once the first was unhooked or `is_hooked()` has said that the hooks of its target are
lost, with no call at work on that target (`InUse`): used twice, the second wiring of the backup redirects
the first hook's calls into its own chain, and the call recurses. A hook that no longer is the target's own
but is still reached from a hook above it counts as standing. The code neither forbids nor detects any of
this. A backup is declared in the class of its replacement, as all of the documentation's examples are, so
that its class is initialised by the time it is wired.

## Runs

| Run | Instance | Shows |
|---|---|---|
| `registry_races` | 2 methods, 2 threads, 2 code addresses, 3 trampolines, ART writes any time | types; no live trampoline without its record; chains stay linked |
| `registry_quiet` | the same, ART writes only while the lock is free | an unhooked method runs ART's last choice; restores land only on their own trampoline; implements `HookChain`; the lock is released |
| `registry_restore_race` | the same, ART writes any time | **violated**: a restore overwrites code ART installed after the check |
| `trampolines_serial` | 1 installer, pages of 40 bytes, 2 pages, i386 sizes | thunks intact, inside their page, executable between calls |
| `trampolines_nx` | the same | **violated**: live thunks are not executable while another is written |
| `trampolines_two_installers` | 2 installers | **violated**: two thunks in one slot |
| `hook_pipeline` | 1 target of every shape, 3 replacements (2 with backups, 1 backup with a Java body), 1 to 3 trampolines (`MCMaxMade`), 1 thread | calls end, in a right body, past every standing hook and no removed one; no hook and no backup on top of the stub; hooks are lost only to what could not be prevented; `hook_function` answers |
| `hook_race_backup` | 2 threads, 2 replacements with native backups, 4 trampolines | **violated**: both backups capture the original body |
| `startup` | 8 mappings, 2 of which come, go and replace each other; every part missing or there; 2 sizes, distances of 1 to 4 methods, 4 sets of decoys, 2 methods to hook | mappings are found and told apart; measurements are right or not used; stores hit their fields; nothing unmapped is scanned; only required parts cost the library; the initialiser and every hook end |
| `disable_aot` | 2 threads, 1 framework and 1 application method, 1 trampoline, every mode, a complete library and each that lacks one thing | the slot is put back and never forwards to itself; dropped code is gone and stays it, and all of it once no call is under way; no hook is overwritten; calls return |
| `disable_aot_twice` | the same | **violated**: a racing call refuses although libart exports everything |
| `symbol_lookup` | every library of at most 3 symbols, 2 buckets, 2 relocations; 3 names | walks stay in the table, return the export or slot of the name if and only if there is one, and end |

The runs marked violated are disagreements between the code and a statement of its documentation;
`PROJECT.json` quotes each statement under `findings`. None of them takes more than two threads. One
deserves to be read with its context: the restore race needs ART to write within a few instructions, and no
lock of the library could keep it out (a compare-and-exchange would).

Two smaller differences between code and documentation are visible in the models without a run of their own.
`art_method.hpp:22` says that everything ahead of `ptr_sized_fields_` is left alone entirely, but
`discourage_compilation` writes `access_flags_`, which lies there; `HitsItsField` allows for both. The check
for ".so" that `deoptimize.hpp:62-66` describes looks anywhere in the path, so an application called
`com.some.app` has no AOT code in its eyes; the exception "oatBySo" of `AotCodeIsToldApart` is that path,
and only a warning depends on it. The case that `README.md:510-513` leaves open, a static target on the
interpreter bridge hooked before its class is visibly initialised, is the shape "bridged": it is never on
the stub, the fixup passes it by, and no property makes an exception for it.

**Bounds and why they are enough.** Every bound is a constant of its module.

- *Three trampolines* give a chain of two with a third hook on either method, which is the shortest in which
  a record has another method's record between itself and the one it displaced. The theorems below need no
  bound.
- *Pages of 40 bytes* hold two strides of 16 and leave 8, too few for a third; two pages give the change of
  page and the refusal of a third one. The 11-byte encoding is the one whose size and stride differ.
- *Three trampolines* in the pipeline (`MaxMade`) are a hook with a backup on one without, or the other way
  round, or one after the other. Only an instance target and a parked one, with the stub known, get all
  three; two are a hook and its backup, for a bridged target, which does nothing that a parked one off the
  stub does not do, and for the fallback; one is a hook of a target the fallback has no reason to watch.
  Chains of two hooks with backups, which take four, are in `hook_race_backup` and in the theorems, which
  need no bound. `MaxNudges` is 2 instead of 4096: one try that fails and one that is the last.
- *Addresses below 16* in `Startup`, with a tag worth 16: one mapping of every kind `Files` lists but the
  JIT's memfd, a gap at the start, one that two mappings take turns in while the file is read, and two
  objects on the heap of which one is nearer to the end of its mapping than the scan is long
  (`RuntimeScanBytes` is 2).
- *Distances of 1 to 4 methods* (`MaxApart`) of 32 or 40 bytes take the measured size from right over wrong
  but plausible to above the 128 that `measure_layout` allows; the decoys lie below the size, beyond the one
  and below the other, and in pairs. The theorems need none of these bounds.
- *Three symbols and two buckets* give an empty bucket, chains of one to three, an export behind another
  name of its bucket, and symbols below the first hashed one. Two of the three hashes differ only in the bit
  the end mark takes, so the walk has to compare names. The theorems need no bound.
- *One method of each kind* in `DisableAot` is enough because the rewriting visits each by itself, and one
  trampoline because no step of a call tells hooks apart: what is particular to stacks of hooks is in the
  theorems, which hold for any number. A libart that lacks one thing of eight shows what each is asked for;
  the theorems are about every combination. The visitor's word is a right one or one that the check refuses.

`SYMMETRY` is used only in runs without liveness properties. No run disables deadlock checking.

**Fairness.** `HookRegistry` is fair to a thread inside the lock: nothing in there waits. `HookFunction` is
fair to each call: its loops are bounded by `kMaxNudges`, its only wait is for `g_lock`; nothing is assumed
of ART, which may never make a class visible. Nor does a call return because it may fail: what may fail at
any time (`CallFails`) is fair only where no trampoline is to be had, which is the end of such a call.
`Startup` is fair to the one thread in the initialiser or a hook, which keeps running; a walk of the memory
map ends because every line the kernel hands out lies above the last, however much is mapped meanwhile.
`DisableAot` is fair to each call, too, whose only wait is for another call's suspension; it is not fair to
hooks. `ArtSymbols` is fair to the two loops, which wait for nothing. No thread is obliged to start a call.

**Exclusions inside properties.** `VisitReachesArt` leaves out two racing calls (possible with
`arthooks.keep_aot` only) between which restoring the slot failed, or the slot's address became null: the
code ignores that failure, and the second call then takes the pass-through for the original. `SlotIsPutBack`
has the same exceptions and asks for a read-only page only of the automatic call, since racing ones can read
each other's writable window as the page's protection, and only where the kernel puts the protection back:
if it does not "the page is merely left writable" (`deoptimize.cpp:230-231`). `HookOutlivesDisable` leaves
out, after `arthooks.keep_aot`, the hooks that were begun before the application's own first call was over
(`early`), which the documentation warns about. `DroppedCodeIsGone` leaves out the methods of such hooks
(`HookedEarly`): what one displaced before the drop, its unhook puts back after it. `DisabledMeansDropped`
and `DisableReturns` leave out that a null was stored over an export, after which the work may be left
undone or the process crash; no such thing can happen to the automatic call. `CallsTerminate`,
`StubIsLeftFirst` and `HookIsLostOnlyIfOverrun` leave out targets on which the fallback gave up, as the
code's comment at `class_init.cpp:176-178` does, `CallsTerminate` only where a stub was captured.
`HookIsLostOnlyIfOverrun` names what the library cannot prevent, a compilation in flight or begun where the
flag could not be set, and deoptimisation. `CallEndsInItsOwnBody` and `NoStandingHookIsBypassed` leave out
the pairs in `unchecked`: the code accepts the risk of a mismatched backup where it cannot read the shapes
(`arthooks.cpp:104-106`). `AotCodeIsToldApart` leaves out the three paths that `Misleading` names: a
library's that is cut before its ".so" (the line buffer has 512 bytes), an oat file's that contains ".so",
and a JIT cache that a file in memory backs. `MeasuredStubIsTheStub` leaves out the case in which the
probe's class was initialised after all and `nanoTime`, which is there to notice that, runs something else.
`DisabledMeansDropped` speaks of a libart that exports and permits everything. Which pointers
`validate_instrumentation` lets through is a guard of the model as it is one of the code, and no property
repeats it. `QuietThunkIsExecutable` leaves out a page whose last `seal()` failed. Whether the slot's page
can be made writable, and once more, is one choice per libart in `DisableAot`; putting its protection back
may fail at each write on a libart where it can fail at all.

## Proofs

`HookRegistry_proofs` proves, for all values of the constants and with ART writing at any time:

- `TypeCorrect`: `Spec => []TypeOK`, which includes that a thread is inside a call exactly when it owns
  `g_lock`.
- `LiveTrampolinesAreRecorded` and `ChainsUnwind`, from `InvariantHolds`, the inductive invariant `IInv`.

*The argument.* Neither property is inductive, because both say something only of a free lock or of the
vector, and what happens inside a call decides them. `IInv` adds three parts about calls in progress.
`InstallDisplacesTop`: a frame of `install_hook` that is about to displace a trampoline displaces the one of
its method's top record; without it a push would not keep the chain linked. `RemovalIsOfTop`: a frame of
`remove_hook` names the top record of its method; without it an erase could leave a record pointing below
itself to nothing. `LiveIsKnown`: a live trampoline is either the top record's or was just stored by a
thread that has not read it back (`StoredBy`). None of them forbids ART anything: its writes only ever make
fewer trampolines live. The lemmas say how `RemoveAt` and `Append` move the tops and the links of the
*other* methods, which share the vector. Each action then has a lemma, with a step per part of the invariant
it can disturb.

The same module assumes `~ArtRaces`, that ART does not write while the lock is held, and proves
`UnhookingGivesBack` and `RestoresAreChecked`. The strengthening `Quiet` says where unwinding a chain ends:
at the newest record that displaced code instead of a hook (`IsBase`), and what that record displaced is
what ART chose last, for every method whose top hook is live (`HooksUnwindToArtCode`, with the code a frame
of `install_hook` has just displaced as the one exception). It also says that a method without a live hook
runs that code (`RunsArtCode`) and that a call in progress finds the slot as it left it
(`CallsOwnTheirSlot`). `registry_restore_race` shows that the assumption is needed.

*The refinement.* Under the same assumption `RegistryImplementsHookChain` proves `Spec =>
ImplementsHookChain`: for any number of methods, threads and hooks, the registry behaves as a stack per
method whose pushes and pops are indivisible. A call takes effect at the store that lands (`Landed` in
`RegistryChain`), not where the vector changes, so for the rest of the call the chain is ahead of the
vector. The chain of a method is a function over the prefixes of the vector (`ChainsIn`), and all a proof
needs of that function is how one more record changes it (`ChainSteps`, from the well-foundedness of the
naturals). From there on: a push extends the chain of its method by one layer (`PushGrowsChain`), taking out
the top record removes the last layer (`RemovalShrinksChain`, `TopIsLast`), and neither touches another
method's. Each action then has a lemma that names the step of `HookChain` it is. `Quiet` provides that the
top of the chain is what the slot holds at the store, and `RecordsAreOld` that no frame is taken for a
record it is not.

`ArtSymbols_proofs` proves, for any names and hashes and for tables of any size that are laid out as
`WellFormed` says, `WalksStayInTable`, `AnswersAreExports` and `SlotsAreOfTheFunction`. The inductive
invariant `LookupInv` says where a walk stands: in the bucket of the name asked for, at or before the export
of that name (`WalkIsOnTrack`), and for the relocations that none passed was the one asked for
(`RelocationsAhead`). That nothing lies behind the end mark uses that a bucket's symbols are contiguous;
that a bucket's head is its first symbol uses that the natural numbers are well-founded. `WellFormed` is an
assumption on the linker, which the code makes too: it checks none of it.

`ProcMaps_proofs` proves `MappingsAreFound` and `AotCodeIsKnown` for any memory map and any pointers.
`MapsInv` says where a walk stands: every mapping that nobody touches and that holds the pointer is either
the answer or still lies above the cursor. That lines are handed out in order of address and mappings do not
overlap carries it over each line, whatever was mapped or unmapped in between; the latter is also why a walk
cannot skip a mapping that was there all along.

`Startup_proofs` first proves that the initialiser *implements* the walk: `StartupWalksMaps` is `Spec =>
MapsSpec`, every step of the one a step or a stutter of the other. It needs an invariant of its own
(`ProbesInv`), that an address the measurement looks up is one of the pointers the walk is about. With it
both theorems about walks hold of every walk the initialiser and the hooks make (`StartupFindsMappings`),
and are used for two results about the initialiser itself: `StubsAreValidated` and `ScansStayMapped`, where
the answer to a walk decides what is trusted and how far is read (`WalkInv`: which pointer the walk at each
place is about). `StoresAreAimed`, `FlagsAreFound`, `AdvisoryPartsMayFail` follow from `InitInv`: what has
been measured at each place of the initialiser. The one candidate `find_access_flags_offset` accepts must be
the field, because where modifiers are stored verbatim the field is a candidate in every size that
`measure_layout` accepts. A store of the entry point lands on *some* method's entry point for any multiple
of the size.

`TrampolinePage_proofs` proves the allocator's four invariants for one installer (`OneInstaller`, a
hypothesis of each theorem; `trampolines_two_installers` shows that it is needed), for any thunk sizes and
any page that holds one. `PageInv` says that every thunk handed out lies below what is free of its page,
where *free* begins at the slot being written as long as one is (`Free`): a thunk may end before its stride
does, but the next one begins behind the stride.

`DisableAot_proofs` proves all safety properties of `disable_aot()` that are checked, for any number of
threads, any methods and hooks, and any libart. `CallInv` has the registry's types and what each place in
the call knows (`Knows`): who is inside the suspension holds it, who is past `can` has marked the runtime.
That a checked pointer is still there when it is used is true only as long as no null has replaced an export
(`Armed`), which is why a crash implies that one has. `AutoInv` says what the static initialiser's order
buys: until the class is loaded nobody else is in a call, so nobody looks for libart meanwhile and nothing
is lost (`AutoFirst`), and afterwards a call either finds the work done or is refused again (`AutoLater`).
It is needed where putting the slot back may fail, as then only the absence of a second call keeps the
pass-through from being taken for the original. `SlotInv` says whose the slot is in each step of the
suspension. The three are `DisableInv`, whose theorem `DisableInvHolds` the others start from.

`HookInv` is about hooks, at the registry's grain. A trampoline in a slot, in a record or in a frame was
begun early, or else the work was over and is over now (`EarlyOrOver`): with the runtime marked and no call
under way, a call finds nothing left to do (`DoneCallsReturn`), so no later one drops anything. What a
record or a frame displaced is the point for `DroppedCodeStaysGone`: if it is AOT code after the drop, the
hook was early (`RecordInv`), and hence so is the method on which an unhook puts it back. The drop itself is
alone in its doing (`DropIsAlone`): frames that displaced AOT code before it belong to hooks that were begun
before the call was over. `HooksOutliveDisable`, an action property, follows from the same invariant. For
`WorkGetsDone` the invariant names a witness, a thread that looked the symbols up and has lost none
(`Working`): no step of another call takes anything away from it unless it stores a null over an export,
though that call may have worked with half of the symbols and returned.

`HookFunction_proofs` proves two of the pipeline's properties for any number of targets, threads, hooks and
nudges. For `StubIsAlwaysLeftFirst`, `StubInv` follows a target from its settling to the reading of its
slot, across everything other threads do. From `ensure_class_initialized` on its class is initialised
(`TargetIsStarted`), so `<clinit>` cannot park it again; the one thing that still can put a target back on
the stub is an unhook, and that restores what another hook read under the same conditions
(`HooksLeftTheStub`, `FramesLeftTheStub`). Hence the target is off the stub wherever it is read
(`TargetIsOff`), by the backup and by the registry, although nobody holds a lock in between. The fallback
needs one conjunct of its own: what was not on the stub when it began to be watched is not on it when it has
moved. `HooksAreLostOnlyIfOverrun` needs two more parts. `QuietInv`: a hook has come to discourage every
method that is hooked or about to be, successfully or not (`Approached`), and every compilation of such a
method is remembered in `overrun`, those in flight when the hook came and those begun while the method was
exposed; a deoptimisation is remembered because a call at work on the method, or a record of it, is there to
see. `SlotInv`: each top record is live (`TopsHold`), its store is done and not yet read back (`StoredBy`),
or the chain below it has a record that displaced the stub (`StubBelow`), which by `StubInv` only a target
the fallback gave up on can have. Unhooking hands the slot from a record to the one next below, so the
chains have to be linked up to such records and compilations (`Chained`), and an install or removal under
way to work on the top (`DisplacesTop`, `RemovesTop`). The lemmas `TopsAfterPush`, `TopsAfterRemoval`,
`PushKeepsChained` and `RemovalKeepsChained` say what the vector does to all that.

`HookCalls_proofs` proves what a call of a target runs, the four properties that `Walk` and `EndOf` compute
hop by hop: `CallsEndInTheirOwnBody`, `CallsAlwaysTerminate`, `OnlyRecordedHooksEverRun` and
`NoStandingHookIsEverBypassed`, for any number of targets, hooks and trampolines and whatever ART writes.
Any number of threads hook and unhook at the same time; the hypothesis is `Apart`, that none begins to hook
or unhook a target that a call is at work on (`[][Apart]_vars`). The library does not see to that, an
application may: a single hooking thread, as in `hook_pipeline`, satisfies it (`OneThreadIsApart`). It is
needed: `hook_race_backup` shows that two overlapping calls on one target break the last of the four,
because nobody holds a lock between the backup's reading of the slot and the registry's. Trampolines are
handed out one after the other here; that two installers at once may be given one slot is the finding of
`trampolines_two_installers`, which the four do not speak about.

*The argument.* What has to be carried from state to state is not where a call ends but why it gets there:
`WiringInv` says that *there are* a rank for each trampoline and, for each method, a set of live trampolines
such that the method's slot holds one of them or code, that each of them is a thunk of a recorded hook of
that very target, with a backup of a shape that goes with it or let through unchecked (`Cleared`), or of a
backup that captured its slot, and that where a thunk leads, by the slot of its backup or by the address
baked in, is of lower rank in the same set, or code (`Wired`, `Captures`). Making a trampoline gives it the
next rank (`WiringMakes`). A store puts the newest trampoline on top of the live ones of its target
(`WiringStore`), an unhook takes the top away again (`WiringUnhook`), and whatever ART writes only makes a
chain shorter (`WiringDrop`). That no other hook is rewired by this is what giving a backup to one hook at a
time is for (`Unshared`; `HeldInv` for two calls in progress). That a call of another thread keeps what it
has wired, though a hook goes in or is taken down in between, is because it is about another target
(`CallsApart`, `Aside`, `OtherCallsStayWired`). The existential is necessary: which trampolines are still
reached from a slot is not a function of the state that a first-order prover could unfold, but a witness for
the state before a step yields one for the state after it. `RecordInv`, that every record displaced what is
recorded next below it, `CallInv`, what a call has checked of its arguments or let through, and `HeldInv`
hold whether calls overlap or not, and come first. From `WiringInv` a walk is followed hop by hop: it never
leaves the live trampolines of its target (`WalkIsOnTrack`), it loses rank with each thunk and there are
only so many (`RanksAreBounded`, `WalkEnds`), and what lies between two standing hooks on it leads from the
upper to the lower one (`PassesOn`, `StandingHooksAreEntered`). `CallsAlwaysTerminate` also needs
`StubIsAlwaysLeftFirst`, as a backup that captured the resolution stub would resolve its target again and
again.

All of this is proved by tlapm with Z3, Zenon and LS4, from the constants' named assumptions and the
hypotheses named above. Every invariant and action property that a run checks, and the refinement, is also a
theorem. Model-checked only is liveness (`LockIsReleased`, `HookCallReturns`, `DisableReturns`,
`LookupReturns`, `StartupAnswers`), which needs ENABLED. That `Walk` reads at most `MaxHops` hops is no
restriction of the theorems: `CallsAlwaysTerminate` is about that very bound, which is two for each
trampoline there can be and two more.

## Plan

1. *Done:* registry with its abstract specification and proofs, the refinement among them; allocator with
   proofs; pipeline with both settling loops, with proofs up to what a call runs, for several threads too;
   AOT disabling, symbol lookup, memory map and start with proofs.
2. Several installers through the pipeline and the allocator together, with the properties that survive the
   known races.
3. More proofs: what of the four theorems of `HookCalls_proofs` survives calls that overlap on one target.

## Not modelled

- *Instruction encodings* of the four ABIs: a thunk is what it runs and the bytes it covers.
- *Page protections of `ArtMethod`s*: `set_entry_point` makes the page writable first. Where `mprotect`
  refuses, the store is tried all the same; a store that does not take is in `HookRegistry`.
- *The branch of `get_art_method` below API 30*: the build's minimum is 33.
- *The rest of a line of `/proc/self/maps` that is longer than the buffer* parses as no mapping in the
  model, since it is the tail of a path; a path whose 512th byte begins something that reads as two
  hexadecimal numbers is left out.
- *Reading `PT_DYNAMIC`*: libart has the tables a lookup needs, or is taken as unreadable. The Bloom filter
  is stepped over by the code; the model has only whether there is one (`filtered`), and the arithmetic that
  steps over it is not modelled. A `g_libart` that another thread reads while it is being filled in is read
  whole or not at all.
- *`Runtime::instance_` being null* (`deoptimize.cpp:384-388`): the runtime that loads the library is there.
- *Locks outside the library*: `find_mapping()` allocates, and must not run while the others are suspended,
  one of whom may hold the allocator's lock (`deoptimize.cpp:134-135`). The model has the order,
  `PlanLinkedCodeDrop` before `SuspendAll`, and not that lock, so `DisableReturns` would not notice another.
- *`find_function`, warnings, logging*: no state, or nothing that reads it.
- *References into the Java heap* and the collector that moves classes: the library passes ART's own
  `ArtMethod` precisely so as to have nothing to do with it.
- *Weak memory*: entry points are accessed with acquire and release and are one word each; steps of the
  models are sequentially consistent. The unordered globals of `deoptimize.cpp` can be worse than modelled,
  and already fail as modelled.
- *The demo, the self test, tools and build files*, which hold nothing of the library's state.
