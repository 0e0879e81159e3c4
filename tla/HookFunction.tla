---------------------------- MODULE HookFunction ----------------------------
(***************************************************************************)
(* hook_function() and unhook_function() of arthooks.cpp, end to end: the  *)
(* class of the target and of the replacement is initialised, a static     *)
(* target is settled off the resolution stub, the JIT is told to leave it  *)
(* alone, the backup captures its entry point, a trampoline is built and   *)
(* the registry installs it -- against an ART that initialises classes,    *)
(* fixes up static entry points and lands JIT code on its own schedule.    *)
(***************************************************************************)
EXTENDS Naturals, Sequences, FiniteSets

CONSTANTS
    Targets,        \* methods that get hooked
    Replacements,   \* static methods hooks redirect to
    Backups,        \* methods wired to call through to an original
    NonNative,      \* backups declared with a Java body
    BackupOf,       \* the backup each replacement calls, or NoBackup
    NoBackup,
    ClassOf,        \* declaring class of targets, replacements and backups
    Threads, Trampolines, NoThread, NoRecord,
    MaxNudges,      \* kMaxNudges
    MaxMade         \* bound on the trampolines made, by what the targets are
                    \* and whether the stub's address is known

Methods == Targets \cup Backups
Classes == {ClassOf[m] : m \in Targets \cup Replacements}

\* What ART puts in a slot: the quick resolution stub, or code that runs the
\* method itself -- interpreter bridge, nterp, AOT, JIT or JNI stub.
Code == {"stub", "body"}

\* An instance method, a static one that starts on the interpreter bridge, or a
\* "parked" one: static and AOT-compiled or native, started on the stub.
Shapes == {"instance", "bridged", "parked"}

\* The locals of a hook_function() in progress.
Args == [target : Targets, replacement : Replacements, nudges : Nat,
         before : Code \cup Trampolines \cup {NoRecord}]

ASSUME HookAssumption ==
    /\ NonNative \subseteq Backups
    /\ BackupOf \in [Replacements -> Backups \cup {NoBackup}]
    /\ Targets \cap Backups = {} /\ NoBackup \notin Backups
    /\ \A r \in Replacements :
          BackupOf[r] # NoBackup => ClassOf[BackupOf[r]] = ClassOf[r]
    /\ Code \cap Trampolines = {} /\ "done" \notin Trampolines
    /\ IsFiniteSet(Trampolines)
    /\ NoThread \notin Threads /\ NoRecord \notin Args
    /\ MaxNudges \in Nat \ {0}
    /\ MaxMade \in [[Targets -> Shapes] \X BOOLEAN -> Nat]

VARIABLES
    entry, hooks, owner, made, pc, frame,  \* as in HookRegistry
    thunk,       \* what each trampoline was built to do
    classState,  \* "loaded", "initialized", "visible" or "erroneous"
    shape,       \* what each target is
    dontBother,  \* methods with kAccCompileDontBother set
    compiling,   \* methods the JIT is compiling
    exposed,     \* methods whose hook could not set it (history)
    overrun,     \* methods the JIT was compiling when a hook came to discourage
                 \* it, or began to while exposed, or that ART deoptimised
                 \* while it was hooked or being hooked (history)
    unchecked,   \* target and replacement of a mismatched backup that was let
                 \* through, its modifiers not having been read (history)
    stubMeasured, \* g_stub_valid: the resolution stub's address is known
    givenUp,     \* targets taken for settled with every nudge spent (history)
    hpc,         \* where each thread stands in hook_function
    arg          \* its arguments, the nudges it has spent, and the entry point
                 \* the fallback saw before the first

registryVars == <<entry, hooks, owner, made, pc, frame>>
artVars      == <<classState, shape, compiling, stubMeasured, givenUp, exposed, unchecked>>
vars == <<registryVars, artVars, thunk, dontBother, overrun, hpc, arg>>

\* ART writes slots whenever it likes; HookRegistry's record of what it wrote
\* serves that module's properties and is not kept here.
Registry == INSTANCE HookRegistry
                WITH ArtRaces <- TRUE, artCode <- [m \in Methods |-> "body"]

NoThunk == [kind |-> "none"]
Indirect(r)  == [kind |-> "indirect", method |-> r]
Direct(m, e) == [kind |-> "direct", method |-> m, at |-> e]

-----------------------------------------------------------------------------
Static(m) == shape[m] # "instance"

Parked(m) == IF m \in Targets THEN shape[m] = "parked" ELSE m \notin NonNative

InitialEntry(m) == IF Parked(m) THEN "stub" ELSE "body"

Init ==
    /\ shape \in [Targets -> Shapes]
    /\ classState = [c \in Classes |-> "loaded"]
    /\ entry = [m \in Methods |-> InitialEntry(m)]
    /\ hooks = <<>>
    /\ owner = NoThread
    /\ made = {}
    /\ pc = [t \in Threads |-> "idle"]
    /\ frame = [t \in Threads |-> NoRecord]
    /\ thunk = [x \in Trampolines |-> NoThunk]
    /\ dontBother = {}
    /\ compiling = {}
    /\ exposed = {}
    /\ overrun = {}
    /\ unchecked = {}
    /\ stubMeasured \in BOOLEAN
    /\ givenUp = {}
    /\ hpc = [t \in Threads |-> "idle"]
    /\ arg = [t \in Threads |-> NoRecord]

-----------------------------------------------------------------------------
(* ART, as the library's code and measurements describe it.                *)

MethodsOf(c) == {m \in Methods : ClassOf[m] = c}

ArtSets(ms, code) ==
    /\ entry' = [m \in Methods |-> IF m \in ms THEN code[m] ELSE entry[m]]
    /\ UNCHANGED <<hooks, owner, made, pc, frame>>

\* Running <clinit> rewrites the entry point of every method of the class
\* (class_init.hpp:21-23).
Initialize(c) ==
    /\ classState[c] = "loaded"
    /\ classState' = [classState EXCEPT ![c] = "initialized"]
    /\ ArtSets(MethodsOf(c), [m \in MethodsOf(c) |-> InitialEntry(m)])

\* The application initialises a class before, or without, any hook.
AppInitializes(c) ==
    /\ Initialize(c)
    /\ UNCHANGED <<shape, compiling, stubMeasured, givenUp, exposed, unchecked, thunk,
                   dontBother, overrun, hpc, arg>>

\* FixupStaticTrampolines moves what is on the stub off it; an entry point
\* that no longer is the stub was observed to be left alone.
MakeVisible(c) ==
    /\ classState[c] = "initialized"
    /\ classState' = [classState EXCEPT ![c] = "visible"]
    /\ LET onStub == {m \in MethodsOf(c) : entry[m] = "stub"}
       IN  ArtSets(onStub, [m \in onStub |-> "body"])
    /\ UNCHANGED <<shape, compiling, stubMeasured, givenUp, exposed, unchecked, thunk,
                   dontBother, overrun, hpc, arg>>

\* A method the flag is not set on may be compiled, hooked or not.
JitStart(m) ==
    /\ classState[ClassOf[m]] \in {"initialized", "visible"}
    /\ m \notin dontBother \cup compiling
    /\ compiling' = compiling \cup {m}
    /\ overrun' = overrun \cup ({m} \cap exposed)
    /\ UNCHANGED <<registryVars, classState, shape, stubMeasured, givenUp, exposed, unchecked,
                   thunk, dontBother, hpc, arg>>

\* The finished code is installed whatever the slot holds by then.
JitLand(m) ==
    /\ m \in compiling
    /\ compiling' = compiling \ {m}
    /\ ArtSets({m}, [n \in {m} |-> "body"])
    /\ UNCHANGED <<classState, shape, stubMeasured, givenUp, exposed, unchecked, thunk,
                   dontBother, overrun, hpc, arg>>

\* Thread t is in a call that hooks or unhooks m.
Works(t, m) ==
    \/ hpc[t] # "idle" /\ arg[t].target = m
    \/ pc[t] # "idle" /\ frame[t].target = m

\* Deoptimisation sends a method back to the interpreter, hooked or not.
Deoptimize(m) ==
    /\ classState[ClassOf[m]] \in {"initialized", "visible"}
    /\ ArtSets({m}, [n \in {m} |-> "body"])
    /\ overrun' = IF Registry!Recorded(m) \/ \E t \in Threads : Works(t, m)
                  THEN overrun \cup {m} ELSE overrun
    /\ UNCHANGED <<artVars, thunk, dontBother, hpc, arg>>

-----------------------------------------------------------------------------
NamedBy(i) == thunk[hooks[i].installed_entry].method

\* Two hooks that share a replacement or a backup share a slot.
Shares(r, s) == r = s \/ (BackupOf[r] = BackupOf[s] /\ BackupOf[r] # NoBackup)

\* The application gives a replacement, and its backup, to one hook at a time:
\* again only when the hook was taken down, or is_hooked() has come to say that
\* its target's hooks are lost and no call is at work on that target.
InUse(r) ==
    \/ \E i \in DOMAIN hooks :
          /\ Shares(NamedBy(i), r)
          /\ \/ Registry!HookIsInstalled(hooks[i].target)
             \/ \E t \in Threads : Works(t, hooks[i].target)
    \/ \E t \in Threads : hpc[t] # "idle" /\ Shares(arg[t].replacement, r)

\* Trampolines are handed out one after the other; which one is immaterial.
Fresh == CHOOSE x \in Trampolines : x \notin made
CanAllocate ==
    /\ \E x \in Trampolines : x \notin made
    /\ Cardinality(made) < MaxMade[shape, stubMeasured]

Goto(t, where) == hpc' = [hpc EXCEPT ![t] = where] /\ UNCHANGED arg

Fail(t) ==
    /\ hpc' = [hpc EXCEPT ![t] = "idle"]
    /\ arg' = [arg EXCEPT ![t] = NoRecord]

-----------------------------------------------------------------------------
Begin(t, m, r) ==
    /\ hpc[t] = "idle" /\ pc[t] = "idle"
    /\ ~InUse(r)
    /\ hpc' = [hpc EXCEPT ![t] = "init_original"]
    /\ arg' = [arg EXCEPT ![t] = [target |-> m, replacement |-> r,
                                     nudges |-> 0, before |-> NoRecord]]
    /\ UNCHANGED <<registryVars, artVars, thunk, dontBother, overrun>>

\* ensure_class_initialized(): a class that is loaded is initialised now, and
\* a <clinit> that throws, now or earlier, fails the call.
EnsureInitialized(t, m, next) ==
    LET c == ClassOf[m]
    IN  /\ \/ Initialize(c) /\ Goto(t, next)
           \/ /\ classState[c] = "loaded"
              /\ classState' = [classState EXCEPT ![c] = "erroneous"]
              /\ Fail(t)
              /\ UNCHANGED registryVars
           \/ /\ classState[c] = "erroneous"
              /\ Fail(t)
              /\ UNCHANGED <<registryVars, classState>>
           \/ /\ classState[c] \in {"initialized", "visible"}
              /\ Goto(t, next)
              /\ UNCHANGED <<registryVars, classState>>
        /\ UNCHANGED <<shape, compiling, stubMeasured, givenUp, exposed, unchecked, thunk,
                       dontBother, overrun>>

InitOriginal(t) ==
    /\ hpc[t] = "init_original"
    /\ EnsureInitialized(t, arg[t].target, "init_replacement")

InitReplacement(t) ==
    /\ hpc[t] = "init_replacement"
    /\ EnsureInitialized(t, arg[t].replacement, "check_backup")

\* Mutant of RejectsBackup: any backup will do.
AcceptsBackup(m, r) == FALSE

\* An instance target's backup must be native.
RejectsBackup(m, r) == ~Static(m) /\ BackupOf[r] \in NonNative

\* reject_mismatched_backup(), the modifiers of both having been read.
CheckBackup(t) ==
    /\ hpc[t] = "check_backup"
    /\ IF RejectsBackup(arg[t].target, arg[t].replacement) THEN Fail(t) ELSE Goto(t, "settle")
    /\ UNCHANGED <<registryVars, artVars, thunk, dontBother, overrun>>

\* Where they could not be read any backup is let through.
SkipCheck(t) ==
    /\ hpc[t] = "check_backup"
    /\ RejectsBackup(arg[t].target, arg[t].replacement)
    /\ unchecked' = unchecked \cup {<<arg[t].target, arg[t].replacement>>}
    /\ Goto(t, "settle")
    /\ UNCHANGED <<registryVars, classState, shape, compiling, stubMeasured, givenUp, exposed,
                   thunk, dontBother, overrun>>

\* Mutant of OnTheStub: nothing is compared with the measured stub.
NeverOnTheStub(m) == FALSE

\* The target counts as settled; nudges and before go out of scope.
Proceeds(t) ==
    /\ hpc' = [hpc EXCEPT ![t] = "discourage"]
    /\ arg' = [arg EXCEPT ![t].nudges = 0, ![t].before = NoRecord]

\* settle_off_the_stub() looks for the measured stub in the target's slot.
OnTheStub(m) == entry[m] = "stub"

\* ensure_class_visibly_initialized(): an instance method never sits on the
\* stub, and where the stub is known a target that is off it is settled.
Settled(t) ==
    LET m == arg[t].target
    IN  /\ hpc[t] = "settle"
        /\ ~Static(m) \/ (stubMeasured /\ ~OnTheStub(m))
        /\ Proceeds(t)
        /\ UNCHANGED <<registryVars, artVars, thunk, dontBother, overrun>>

NudgesLeft(t) == arg[t].nudges < MaxNudges

\* A Class.forName() asks ART to make the class visible; ART does so on a
\* thread of its own, when it gets to it.
SpendNudge(t) ==
    /\ arg' = [arg EXCEPT ![t].nudges = @ + 1]
    /\ UNCHANGED <<registryVars, artVars, thunk, dontBother, overrun, hpc>>

StillParked(t) ==
    /\ hpc[t] = "settle"
    /\ stubMeasured /\ Static(arg[t].target) /\ OnTheStub(arg[t].target)

\* Mutant of Nudge: the loop only ends once the target is off the stub.
NudgeForever(t) == StillParked(t) /\ UNCHANGED vars

Nudge(t) == StillParked(t) /\ NudgesLeft(t) /\ SpendNudge(t)

\* The nudges are spent and the target is still on the stub: refused.
Refused(t) ==
    /\ StillParked(t)
    /\ ~NudgesLeft(t)
    /\ Fail(t)
    /\ UNCHANGED <<registryVars, artVars, thunk, dontBother, overrun>>

\* settle_by_watching_entry(), where the stub is not known: whatever the
\* target's slot holds now is what it is watched to leave.
Watch(t) ==
    LET m == arg[t].target
    IN  /\ hpc[t] = "settle"
        /\ ~stubMeasured /\ Static(m)
        /\ arg' = [arg EXCEPT ![t].before = entry[m]]
        /\ hpc' = [hpc EXCEPT ![t] = "watch"]
        /\ UNCHANGED <<registryVars, artVars, thunk, dontBother, overrun>>

\* The slot is compared after a nudge, so the first is always spent.
Moved(t) == arg[t].nudges > 0 /\ entry[arg[t].target] # arg[t].before

WatchNudge(t) ==
    /\ hpc[t] = "watch"
    /\ ~Moved(t) /\ NudgesLeft(t)
    /\ SpendNudge(t)

WatchMoved(t) ==
    /\ hpc[t] = "watch"
    /\ Moved(t)
    /\ Proceeds(t)
    /\ UNCHANGED <<registryVars, artVars, thunk, dontBother, overrun>>

\* Mutant of WatchGivesUp: a target that moved last is not told from one that
\* did not, and a hook of it proceeds at once.
WatchIsSkipped(t) ==
    /\ hpc[t] = "watch"
    /\ Proceeds(t)
    /\ UNCHANGED <<registryVars, artVars, thunk, dontBother, overrun>>

\* "no change" is taken for settled, and the hook proceeds with a warning.
WatchGivesUp(t) ==
    /\ hpc[t] = "watch"
    /\ ~Moved(t) /\ ~NudgesLeft(t)
    /\ givenUp' = givenUp \cup {arg[t].target}
    /\ Proceeds(t)
    /\ UNCHANGED <<registryVars, classState, shape, compiling, stubMeasured, exposed, unchecked,
                   thunk, dontBother, overrun>>

\* Mutant of Discourage: kAccCompileDontBother is not set.
DiscourageForgets(t) ==
    /\ hpc[t] = "discourage"
    /\ overrun' = overrun \cup (compiling \cap {arg[t].target})
    /\ Goto(t, "backup")
    /\ UNCHANGED <<registryVars, artVars, thunk, dontBother>>

\* discourage_compilation(), before anything is written.  Where access_flags_
\* was not found, or the bit does not take, the hook goes in all the same.
Discourage(t) ==
    LET m == arg[t].target
    IN  /\ hpc[t] = "discourage"
        /\ \/ dontBother' = dontBother \cup {m} /\ exposed' = exposed \ {m}
           \/ m \notin dontBother /\ exposed' = exposed \cup {m} /\ UNCHANGED dontBother
        /\ overrun' = overrun \cup (compiling \cap {m})
        /\ Goto(t, "backup")
        /\ UNCHANGED <<registryVars, classState, shape, compiling, stubMeasured, givenUp,
                       unchecked, thunk>>

\* Mutant of WireBackup: the backup skips the hooks already there.
WireBackupToBody(t) ==
    LET m == arg[t].target
        b == BackupOf[arg[t].replacement]
        x == Fresh
    IN  /\ hpc[t] = "backup"
        /\ b # NoBackup
        /\ CanAllocate
        /\ made' = made \cup {x}
        /\ thunk' = [thunk EXCEPT ![x] = Direct(m, "body")]
        /\ entry' = [entry EXCEPT ![b] = x]
        /\ Goto(t, "hook")
        /\ UNCHANGED <<hooks, owner, pc, frame, artVars, dontBother, overrun>>

\* Mutant of WireBackup: a backup that was wired once is not wired again.
WireBackupOnce(t) ==
    LET m == arg[t].target
        b == BackupOf[arg[t].replacement]
        x == Fresh
    IN  /\ hpc[t] = "backup"
        /\ b # NoBackup
        /\ CanAllocate
        /\ IF entry[b] \in Trampolines
           THEN UNCHANGED <<made, thunk, entry>>
           ELSE /\ made' = made \cup {x}
                /\ thunk' = [thunk EXCEPT ![x] = Direct(m, entry[m])]
                /\ entry' = [entry EXCEPT ![b] = x]
        /\ Goto(t, "hook")
        /\ UNCHANGED <<hooks, owner, pc, frame, artVars, dontBother, overrun>>

\* install_backup(): capture the entry point, bake it into a thunk, point the
\* backup's own slot at it.  No lock is held.
WireBackup(t) ==
    LET m == arg[t].target
        b == BackupOf[arg[t].replacement]
        x == Fresh
    IN  /\ hpc[t] = "backup"
        /\ b # NoBackup
        /\ CanAllocate
        /\ made' = made \cup {x}
        /\ thunk' = [thunk EXCEPT ![x] = Direct(m, entry[m])]
        /\ entry' = [entry EXCEPT ![b] = x]
        /\ Goto(t, "hook")
        /\ UNCHANGED <<hooks, owner, pc, frame, artVars, dontBother, overrun>>

NoBackupAsked(t) ==
    /\ hpc[t] = "backup"
    /\ BackupOf[arg[t].replacement] = NoBackup
    /\ Goto(t, "hook")
    /\ UNCHANGED <<registryVars, artVars, thunk, dontBother, overrun>>

\* Mutant of MakeTrampoline: the thunk is handed out before it is emitted.
MakeWithoutEmit(t) ==
    /\ hpc[t] = "hook"
    /\ CanAllocate
    /\ Registry!InstallRead(t, arg[t].target, Fresh)
    /\ Goto(t, "install")
    /\ UNCHANGED <<artVars, thunk, dontBother, overrun>>

\* make_trampoline() and install_hook()'s read.
MakeTrampoline(t) ==
    /\ hpc[t] = "hook"
    /\ CanAllocate
    /\ Registry!InstallRead(t, arg[t].target, Fresh)
    /\ thunk' = [thunk EXCEPT ![Fresh] = Indirect(arg[t].replacement)]
    /\ Goto(t, "install")
    /\ UNCHANGED <<artVars, dontBother, overrun>>

\* The target's modifiers or its class's name could not be read, Class.forName()
\* threw, no page was to be had for a trampoline, or a backup's slot did not take
\* the write: whatever was wired or flagged before stays as it is.
CallFails(t) ==
    /\ hpc[t] \in {"settle", "watch", "backup", "hook"}
    /\ Fail(t)
    /\ UNCHANGED <<registryVars, artVars, thunk, dontBother, overrun>>

Install(t) ==
    /\ hpc[t] = "install"
    /\ \/ Registry!InstallStore(t) /\ UNCHANGED <<hpc, arg>>
       \/ Registry!InstallVerify(t) /\ Fail(t)
    /\ UNCHANGED <<artVars, thunk, dontBother, overrun>>

\* unhook_function() is remove_hook() and nothing else.
Unhook(t, m) ==
    /\ hpc[t] = "idle"
    /\ Registry!RemoveStale(t, m) \/ Registry!RemoveCheck(t, m)
    /\ UNCHANGED <<artVars, thunk, dontBother, overrun, hpc, arg>>

UnhookProceeds(t) ==
    /\ Registry!RemoveStore(t) \/ Registry!RemoveVerify(t)
    /\ UNCHANGED <<artVars, thunk, dontBother, overrun, hpc, arg>>

-----------------------------------------------------------------------------
Art ==
    \/ \E c \in Classes : AppInitializes(c) \/ MakeVisible(c)
    \/ \E m \in Targets : JitStart(m) \/ JitLand(m) \/ Deoptimize(m)

Call(t) ==
    \E m \in Targets :
        \/ \E r \in Replacements : Begin(t, m, r)
        \/ Unhook(t, m)

GoesOn(t) ==
    \/ InitOriginal(t) \/ InitReplacement(t) \/ CheckBackup(t) \/ SkipCheck(t)
    \/ Settled(t) \/ Nudge(t) \/ Refused(t)
    \/ Watch(t) \/ WatchNudge(t) \/ WatchMoved(t) \/ WatchGivesUp(t) \/ Discourage(t)
    \/ WireBackup(t) \/ NoBackupAsked(t) \/ MakeTrampoline(t)
    \/ Install(t) \/ UnhookProceeds(t)

Proceed(t) == GoesOn(t) \/ CallFails(t)

Next == Art \/ \E t \in Threads : Call(t) \/ Proceed(t)

Spec == Init /\ [][Next]_vars

\* Nobody begins to hook or unhook a target that a call is at work on.  The
\* library does not see to this; an application may.
Apart ==
    \A t \in Threads : \A m \in Targets :
        Unhook(t, m) \/ (\E r \in Replacements : Begin(t, m, r)) =>
            \A u \in Threads : ~Works(u, m)

\* The settling loop is bounded and nothing else in a call waits, save for a
\* lock whose holder is itself running.  ART owes nothing, and a call need not
\* fail, unless there is no trampoline to be had.
FairSpec ==
    /\ Spec
    /\ \A t \in Threads : WF_vars(GoesOn(t)) /\ WF_vars(~CanAllocate /\ CallFails(t))

-----------------------------------------------------------------------------
(* What a call of a method runs.  A step of a call is a method (the one in   *)
(* the ArtMethod register) and the address control is at.                    *)

At(m, e) == [method |-> m, at |-> e]

\* A replacement runs its own body, which calls its backup if it has one.
\* A backup with a Java body is inlined into an instance method's replacement.
RunReplacement(m, r) ==
    LET b == BackupOf[r]
    IN  IF b = NoBackup THEN At(r, "done")
        ELSE IF b \in NonNative /\ ~Static(m) THEN At(b, "done")
        ELSE At(b, entry[b])

\* The stub re-reads the entry point of the method it was entered with.
FromStub(m) == IF entry[m] = "stub" THEN At(m, "done") ELSE At(m, entry[m])

Hop(m, s) ==
    CASE s.at = "stub" -> FromStub(s.method)
      [] s.at \in Trampolines /\ thunk[s.at].kind = "indirect" ->
            RunReplacement(m, thunk[s.at].method)
      [] s.at \in Trampolines /\ thunk[s.at].kind = "direct" ->
            At(thunk[s.at].method, thunk[s.at].at)
      [] OTHER -> At(s.method, "done")

\* A call that ends enters every trampoline at most once, and the stub at most
\* once after each.
MaxHops == 2 * Cardinality(Trampolines) + 2

Walk(m) ==
    LET step[n \in 0..MaxHops] == IF n = 0 THEN At(m, entry[m]) ELSE Hop(m, step[n - 1])
    IN  step

EndOf(m) == Walk(m)[MaxHops]

Entered(m) == LET walk == Walk(m) IN {walk[n].at : n \in 0..MaxHops} \cap Trampolines

-----------------------------------------------------------------------------
HookTypeOK ==
    /\ Registry!TypeOK
    /\ \A x \in Trampolines : x \in made <=> thunk[x] # NoThunk
    /\ classState \in [Classes -> {"loaded", "initialized", "visible", "erroneous"}]
    /\ shape \in [Targets -> Shapes]
    /\ stubMeasured \in BOOLEAN
    /\ compiling \cup overrun \cup exposed \cup dontBother \cup givenUp \subseteq Targets
    /\ unchecked \subseteq Targets \X Replacements
    /\ \A t \in Threads : hpc[t] = "idle" <=> arg[t] = NoRecord
    /\ \A t \in Threads : hpc[t] = "install" <=> pc[t] \in Registry!InstallPC

\* The fallback let the hook go in on top of the stub.
CapturedTheStub(m) == \E x \in Trampolines : thunk[x] = Direct(m, "stub")

(* A call of a hooked method never runs around in circles: through every     *)
(* chain of replacements and backups it comes to code that runs a body (the  *)
(* backup recursion of class_init.hpp:34-36), in every state in between too, *)
(* save for "the rare stuck-on-the-stub case" of the fallback                *)
(* (class_init.cpp:176-178): the target never moved, and it was on the stub. *)
CallsTerminate ==
    \A m \in Targets :
        EndOf(m).at = "done" \/ (m \in givenUp /\ CapturedTheStub(m))

(* No hook goes in on top of the resolution stub and no backup captures it,  *)
(* whatever ART's fixup, its JIT and the nudges do to one another -- unless  *)
(* the stub is not known and all the nudges did not move the target.         *)
StubIsLeftFirst ==
    \A m \in Targets \ givenUp :
        /\ ~CapturedTheStub(m)
        /\ \A i \in DOMAIN hooks :
              hooks[i].target = m => hooks[i].previous_entry # "stub"

(* The body a call ends in is the called method's own, or that of a          *)
(* replacement that calls no backup: never another method's, nor a backup's  *)
(* empty one (arthooks.cpp:86-91) but for one "installed mismatched" because *)
(* its shape could not be read (arthooks.cpp:104-106).                       *)
CallEndsInItsOwnBody ==
    \A m \in Targets :
        LET last == EndOf(m).method
        IN  \/ EndOf(m).at # "done"
            \/ last = m
            \/ last \in Replacements /\ BackupOf[last] = NoBackup
            \/ \E r \in Replacements : <<m, r>> \in unchecked /\ last = BackupOf[r]

\* A hook stands if it is live, or displaced by hooks of which the top is.
Stands(i) ==
    LET m == hooks[i].target
    IN  /\ Registry!HookIsInstalled(m)
        /\ \A j \in (i + 1)..Len(hooks) :
              hooks[j].target = m => hooks[j].previous_entry \in Trampolines

\* The replacement hook j runs calls through to what the hook displaced.
CallsThrough(j) ==
    /\ BackupOf[NamedBy(j)] # NoBackup
    /\ <<hooks[j].target, NamedBy(j)>> \notin unchecked

(* Calling through the backups of a chain passes every hook that still       *)
(* stands, down to the first whose replacement calls no backup, or one whose *)
(* shape was not checked.                                                    *)
NoStandingHookIsBypassed ==
    Registry!LockIsFree =>
        \A i \in DOMAIN hooks :
            Stands(i) /\ (\A j \in DOMAIN hooks :
                             j > i /\ hooks[j].target = hooks[i].target => CallsThrough(j))
                => hooks[i].installed_entry \in Entered(hooks[i].target)

(* No hook that was taken down is reached any more: "the first call leaves   *)
(* the earlier hook in place and working, the second restores the original", *)
(* and hooking and unhooking "run one at a time, start to finish"            *)
(* (ArtHooks.java:176-186).                                                  *)
OnlyRecordedHooksRun ==
    Registry!LockIsFree =>
        \A m \in Targets : \A x \in Entered(m) :
            thunk[x].kind = "indirect" =>
                \E i \in DOMAIN hooks : hooks[i].target = m /\ hooks[i].installed_entry = x

(* A hook is lost under a recorded one only to a compilation that was in     *)
(* flight when the hook came to discourage it (README.md:425-429), or began  *)
(* where the flag could not be set (art_method.hpp:85-87), or to ART's own   *)
(* deoptimisation: class initialisation and the fixup of static entry points *)
(* have been provoked before, and a discouraged JIT starts nothing.  Where   *)
(* the fallback gave up on a target, an unhook may put it back on the stub,  *)
(* and the fixup may come between that store and the reading back            *)
(* (art_method.cpp:329).                                                     *)
HookIsLostOnlyIfOverrun ==
    \A i \in DOMAIN hooks :
        Registry!LockIsFree /\ Registry!IsTop(hooks, i, hooks[i].target)
            /\ entry[hooks[i].target] # hooks[i].installed_entry
            => \/ hooks[i].target \in overrun
               \/ /\ hooks[i].target \in givenUp
                  /\ \E j \in DOMAIN hooks : /\ hooks[j].target = hooks[i].target
                                             /\ hooks[j].previous_entry = "stub"

(* hook_function() answers, whatever ART does or fails to do.                *)
HookCallReturns == \A t \in Threads : hpc[t] # "idle" ~> hpc[t] = "idle"
=============================================================================
