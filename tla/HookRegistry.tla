---------------------------- MODULE HookRegistry ----------------------------
(***************************************************************************)
(* The hook registry of hook_registry.cpp: the vector g_hooks of displaced *)
(* entry points, the mutex g_lock, and the entry-point writes made under   *)
(* it by install_hook() and remove_hook().  ART writes the same slots from *)
(* its own threads and takes no lock of this library's.                    *)
(***************************************************************************)
EXTENDS Naturals, Sequences, SequencesExt

CONSTANTS
    Methods,      \* the ArtMethods that can be hooked
    Threads,      \* application threads calling into the library
    Code,         \* entry points ART itself installs: nterp, JIT, AOT, bridges
    Trampolines,  \* addresses make_trampoline() hands out, each of them once
    NoThread,     \* owner of g_lock when it is free
    NoRecord,     \* local variables of a thread that is in no call
    ArtRaces      \* whether ART may write a slot while g_lock is held

ASSUME RegistryAssumption ==
    /\ Code # {}
    /\ Code \cap Trampolines = {}
    /\ NoThread \notin Threads
    /\ ArtRaces \in BOOLEAN

VARIABLES
    entry,    \* ArtMethod::entry_point_from_quick_compiled_code_, per method
    artCode,  \* the entry point ART last chose for the method (history)
    hooks,    \* g_hooks
    owner,    \* the thread inside g_lock
    made,     \* trampolines handed out so far; none is ever freed
    pc,       \* where each thread stands in install_hook / remove_hook
    frame     \* its locals: the record being installed or removed

vars == <<entry, artCode, hooks, owner, made, pc, frame>>

EntryPoint == Code \cup Trampolines

\* struct Entry
Record == [target : Methods, previous_entry : EntryPoint, installed_entry : Trampolines]

InstallPC == {"install_store", "install_verify"}
RemovePC  == {"remove_store", "remove_verify"}

\* Mutant of IsTop: the scan goes forward and stops at the oldest record.
IsOldest(h, i, m) ==
    /\ i \in 1..Len(h)
    /\ h[i].target = m
    /\ \A j \in 1..(i - 1) : h[j].target # m

\* The record a reverse scan of the vector h for method m stops at.
IsTop(h, i, m) ==
    /\ i \in 1..Len(h)
    /\ h[i].target = m
    /\ \A j \in (i + 1)..Len(h) : h[j].target # m

Recorded(m) == \E i \in 1..Len(hooks) : hooks[i].target = m

\* hook_is_installed(): the top record's trampoline is what the slot holds.
HookIsInstalled(m) ==
    \E i \in 1..Len(hooks) : IsTop(hooks, i, m) /\ entry[m] = hooks[i].installed_entry

-----------------------------------------------------------------------------
Init ==
    /\ entry \in [Methods -> Code]
    /\ artCode = entry
    /\ hooks = <<>>
    /\ owner = NoThread
    /\ made = {}
    /\ pc = [t \in Threads |-> "idle"]
    /\ frame = [t \in Threads |-> NoRecord]

LockIsFree == owner = NoThread

Enter(t, where, record) ==
    /\ owner' = t
    /\ pc' = [pc EXCEPT ![t] = where]
    /\ frame' = [frame EXCEPT ![t] = record]

Goto(t, where) == pc' = [pc EXCEPT ![t] = where] /\ UNCHANGED <<owner, frame>>

\* The lock_guard's destructor runs on every path out of the call.
Return(t) ==
    /\ owner' = NoThread
    /\ pc' = [pc EXCEPT ![t] = "idle"]
    /\ frame' = [frame EXCEPT ![t] = NoRecord]

\* The store of set_entry_point().  It can silently not take: that is what
\* the read-back in the same function is there for.
Store(m, value) == entry' \in {entry, [entry EXCEPT ![m] = value]}

-----------------------------------------------------------------------------
\* install_hook(): take the lock and read the entry point about to be displaced.
InstallRead(t, m, x) ==
    /\ LockIsFree
    /\ pc[t] = "idle"
    /\ x \notin made
    /\ made' = made \cup {x}
    /\ Enter(t, "install_store",
             [target |-> m, previous_entry |-> entry[m], installed_entry |-> x])
    /\ UNCHANGED <<entry, artCode, hooks>>

InstallStore(t) ==
    /\ pc[t] = "install_store"
    /\ Store(frame[t].target, frame[t].installed_entry)
    /\ Goto(t, "install_verify")
    /\ UNCHANGED <<artCode, hooks, made>>

\* The read-back, and the push_back only when it finds the trampoline.
InstallVerify(t) ==
    /\ pc[t] = "install_verify"
    /\ hooks' = IF entry[frame[t].target] = frame[t].installed_entry
                THEN Append(hooks, frame[t])
                ELSE hooks
    /\ Return(t)
    /\ UNCHANGED <<entry, artCode, made>>

\* Mutant of RemoveStale: the stale record is restored as well as dropped.
RemoveStaleRestores(t, m) ==
    /\ LockIsFree
    /\ pc[t] = "idle"
    /\ \E i \in 1..Len(hooks) :
          /\ IsTop(hooks, i, m)
          /\ entry[m] # hooks[i].installed_entry
          /\ hooks' = RemoveAt(hooks, i)
          /\ Store(m, hooks[i].previous_entry)
    /\ UNCHANGED <<artCode, owner, made, pc, frame>>

\* remove_hook() on a method whose live entry point is no longer the one its
\* top record names: the record is dropped, nothing is written.
RemoveStale(t, m) ==
    /\ LockIsFree
    /\ pc[t] = "idle"
    /\ \E i \in 1..Len(hooks) :
          /\ IsTop(hooks, i, m)
          /\ entry[m] # hooks[i].installed_entry
          /\ hooks' = RemoveAt(hooks, i)
    /\ UNCHANGED <<entry, artCode, owner, made, pc, frame>>

\* Mutant of RemoveCheck: the live entry point is not compared first.
RemoveBlindly(t, m) ==
    /\ LockIsFree
    /\ pc[t] = "idle"
    /\ \E i \in 1..Len(hooks) :
          IsTop(hooks, i, m) /\ Enter(t, "remove_store", hooks[i])
    /\ UNCHANGED <<entry, artCode, hooks, made>>

\* Mutant of RemoveCheck: remove_hook() has no lock_guard of its own.
RemoveUnlocked(t, m) ==
    /\ pc[t] = "idle"
    /\ \E i \in 1..Len(hooks) :
          /\ IsTop(hooks, i, m)
          /\ entry[m] = hooks[i].installed_entry
          /\ Enter(t, "remove_store", hooks[i])
    /\ UNCHANGED <<entry, artCode, hooks, made>>

\* remove_hook() whose check finds its own trampoline still live.
RemoveCheck(t, m) ==
    /\ LockIsFree
    /\ pc[t] = "idle"
    /\ \E i \in 1..Len(hooks) :
          /\ IsTop(hooks, i, m)
          /\ entry[m] = hooks[i].installed_entry
          /\ Enter(t, "remove_store", hooks[i])
    /\ UNCHANGED <<entry, artCode, hooks, made>>

RemoveStore(t) ==
    /\ pc[t] = "remove_store"
    /\ Store(frame[t].target, frame[t].previous_entry)
    /\ Goto(t, "remove_verify")
    /\ UNCHANGED <<artCode, hooks, made>>

\* Mutant of RemoveVerify: the record goes whether or not the restore took.
RemoveRegardless(t) ==
    /\ pc[t] = "remove_verify"
    /\ \E i \in 1..Len(hooks) :
          IsTop(hooks, i, frame[t].target) /\ hooks' = RemoveAt(hooks, i)
    /\ Return(t)
    /\ UNCHANGED <<entry, artCode, made>>

\* Mutant of RemoveVerify: a restore that did not take is tried again at once.
RemoveRetries(t) ==
    /\ pc[t] = "remove_verify"
    /\ IF entry[frame[t].target] = frame[t].previous_entry
       THEN /\ \E i \in 1..Len(hooks) :
                  IsTop(hooks, i, frame[t].target) /\ hooks' = RemoveAt(hooks, i)
            /\ Return(t)
       ELSE Goto(t, "remove_store") /\ UNCHANGED hooks
    /\ UNCHANGED <<entry, artCode, made>>

\* Mutant of RemoveVerify: the failed restore returns with the lock held.
RemoveKeepsLock(t) ==
    /\ pc[t] = "remove_verify"
    /\ \E i \in 1..Len(hooks) :
          /\ IsTop(hooks, i, frame[t].target)
          /\ IF entry[frame[t].target] = frame[t].previous_entry
             THEN hooks' = RemoveAt(hooks, i) /\ Return(t)
             ELSE Goto(t, "idle") /\ UNCHANGED hooks
    /\ UNCHANGED <<entry, artCode, made>>

\* The read-back: a restore that took erases the record, one that did not
\* keeps it for a later call.
RemoveVerify(t) ==
    /\ pc[t] = "remove_verify"
    /\ \E i \in 1..Len(hooks) :
          /\ IsTop(hooks, i, frame[t].target)
          /\ hooks' = IF entry[frame[t].target] = frame[t].previous_entry
                      THEN RemoveAt(hooks, i)
                      ELSE hooks
    /\ Return(t)
    /\ UNCHANGED <<entry, artCode, made>>

\* ART moves the entry point: class initialisation, JIT, deoptimisation.
ArtWrites(m, c) ==
    /\ ArtRaces \/ LockIsFree
    /\ entry' = [entry EXCEPT ![m] = c]
    /\ artCode' = [artCode EXCEPT ![m] = c]
    /\ UNCHANGED <<hooks, owner, made, pc, frame>>

-----------------------------------------------------------------------------
Call(t) ==
    \E m \in Methods :
        \/ \E x \in Trampolines : InstallRead(t, m, x)
        \/ RemoveStale(t, m)
        \/ RemoveCheck(t, m)

Proceed(t) ==
    \/ InstallStore(t) \/ InstallVerify(t)
    \/ RemoveStore(t)  \/ RemoveVerify(t)

Next ==
    \/ \E t \in Threads : Call(t) \/ Proceed(t)
    \/ \E m \in Methods, c \in Code : ArtWrites(m, c)

Spec == Init /\ [][Next]_vars

\* A thread that holds the mutex is running code without a wait in it, so the
\* scheduler gets it to the end.  Nothing makes an idle thread call.
FairSpec == Spec /\ \A t \in Threads : WF_vars(Proceed(t))

-----------------------------------------------------------------------------
(* Types, with the coupling of the lock to the program counters. *)
TypeOK ==
    /\ entry \in [Methods -> EntryPoint]
    /\ artCode \in [Methods -> Code]
    /\ hooks \in Seq(Record)
    /\ owner \in Threads \cup {NoThread}
    /\ made \subseteq Trampolines
    /\ pc \in [Threads -> {"idle"} \cup InstallPC \cup RemovePC]
    /\ frame \in [Threads -> Record \cup {NoRecord}]
    /\ \A t \in Threads : pc[t] # "idle" <=> owner = t
    /\ \A t \in Threads : pc[t] # "idle" => frame[t] \in Record

(* Whenever no call is in progress, a trampoline that is live in a method's  *)
(* slot is the one the method's top record names, so is_hooked() sees it and *)
(* unhook_function() can take it down: no "live trampoline with no record    *)
(* naming it" (hook_registry.hpp:21), whatever ART overwrites and whenever.  *)
LiveTrampolineIsRecorded ==
    LockIsFree => \A m \in Methods : entry[m] \in Trampolines => HookIsInstalled(m)

\* Record j is the next one below record i for the same method.
NextBelow(h, j, i) ==
    /\ h[j].target = h[i].target
    /\ \A k \in (j + 1)..(i - 1) : h[k].target # h[i].target

Linked(h) ==
    \A i \in 1..Len(h) :
        h[i].previous_entry \in Trampolines =>
            \E j \in 1..(i - 1) :
                /\ NextBelow(h, j, i)
                /\ h[j].installed_entry = h[i].previous_entry

(* A record that displaced another hook displaced exactly the one recorded   *)
(* next below it for the same method, so unwinding a chain never jumps into  *)
(* a trampoline whose record is gone (hook_registry.hpp:67).                 *)
DisplacedHookIsNextBelow == Linked(hooks)

(* With every hook of a method taken down, the method runs what ART last     *)
(* chose for it -- not the code it had when the first hook went in.  Holds   *)
(* as long as ART does not write inside a call's read-to-store window.       *)
UnhookedRunsArtCode ==
    LockIsFree => \A m \in Methods : ~Recorded(m) => entry[m] = artCode[m]

(* remove_hook() writes the displaced address only over the trampoline its   *)
(* own hook installed: "If ART has since replaced it [...] nothing is        *)
(* written" (ArtHooks.java:180-183).                                         *)
RestoresOnlyOverOwnTrampoline ==
    [][\A t \in Threads :
          pc[t] = "remove_store" /\ pc'[t] = "remove_verify" /\ entry' # entry =>
              entry[frame[t].target] = frame[t].installed_entry]_vars

(* A call that took g_lock gives it back, on every path through it.          *)
LockIsReleased ==
    \A t \in Threads : owner = t ~> owner # t
=============================================================================
