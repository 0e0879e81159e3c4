--------------------------- MODULE TrampolinePage ---------------------------
(***************************************************************************)
(* The trampoline allocator of trampoline.cpp: thunks are bump-allocated   *)
(* out of one page, made writable for the time of each write and           *)
(* executable again after it.  No lock covers g_page and g_page_used.      *)
(***************************************************************************)
EXTENDS Naturals, FiniteSets

CONSTANTS
    Threads,    \* threads inside hook_function()
    Targets,    \* the ArtMethods thunks name
    SizeOf,     \* kIndirectSize and kDirectSize, in bytes
    PageSize,   \* g_page_size, in bytes
    MaxPages    \* bound: pages mmap() has to give

Kinds == {"indirect", "direct"}

\* Mutant of AlignUp: rounds the other way.
AlignDown(size) == 8 * (size \div 8)

AlignUp(size) == 8 * ((size + 7) \div 8)

ASSUME PageAssumption ==
    /\ SizeOf \in [Kinds -> Nat \ {0}]
    /\ PageSize \in Nat
    /\ \A k \in Kinds : AlignUp(SizeOf[k]) <= PageSize
    /\ MaxPages \in Nat

VARIABLES
    page,       \* g_page; 0 is nullptr
    used,       \* g_page_used
    mapped,     \* pages mmap() returned so far
    prot,       \* protection of each page
    memory,     \* the thunks whose bytes are in memory, whole
    handedOut,  \* thunks make_trampoline() / make_direct_trampoline() returned
    unsealed,   \* pages the last seal() failed on (history)
    tpc,        \* where each thread stands in make_*trampoline
    local       \* its locals: the thunk being built

pageVars == <<page, used, mapped, prot, memory, handedOut, unsealed, tpc, local>>

Pages == 1..MaxPages

\* A thunk: the page and offset it sits at and what it was built to run.
Thunk == [page : Pages, at : Nat, kind : Kinds, target : Targets]

Stride(kind) == AlignUp(SizeOf[kind])
Bytes(x) == x.at .. (x.at + SizeOf[x.kind] - 1)
Overlap(x, y) == x.page = y.page /\ Bytes(x) \cap Bytes(y) # {}

Blank(kind, m) == [page |-> 0, at |-> 0, kind |-> kind, target |-> m]

Init ==
    /\ page = 0
    /\ used = 0
    /\ mapped = 0
    /\ prot = [p \in Pages |-> "rw"]
    /\ memory = {}
    /\ handedOut = {}
    /\ unsealed = {}
    /\ tpc = [t \in Threads |-> "idle"]
    /\ local = [t \in Threads |-> Blank("direct", CHOOSE m \in Targets : TRUE)]

-----------------------------------------------------------------------------
\* Mutant of NeedsPage: the size about to be taken is left out.
NeedsPageWhenFull(kind) == page = 0 \/ used >= PageSize

\* reserve(): the current page has no room left for this stride.
NeedsPage(kind) == page = 0 \/ used + Stride(kind) > PageSize

\* Mutant of MapPage: g_page_used goes on counting from the old page.
MapPageKeepsUsed(t, kind, m) ==
    /\ tpc[t] = "idle"
    /\ NeedsPage(kind)
    /\ mapped < MaxPages
    /\ mapped' = mapped + 1
    /\ page' = mapped'
    /\ prot' = [prot EXCEPT ![mapped'] = "rw"]
    /\ tpc' = [tpc EXCEPT ![t] = "take"]
    /\ local' = [local EXCEPT ![t] = Blank(kind, m)]
    /\ UNCHANGED <<used, memory, handedOut, unsealed>>

\* A fresh page comes writable.
MapPage(t, kind, m) ==
    /\ tpc[t] = "idle"
    /\ NeedsPage(kind)
    /\ mapped < MaxPages
    /\ mapped' = mapped + 1
    /\ page' = mapped'
    /\ used' = 0
    /\ prot' = [prot EXCEPT ![mapped'] = "rw"]
    /\ tpc' = [tpc EXCEPT ![t] = "take"]
    /\ local' = [local EXCEPT ![t] = Blank(kind, m)]
    /\ UNCHANGED <<memory, handedOut, unsealed>>

\* The page in use, live thunks included, is made writable.
UnsealPage(t, kind, m) ==
    /\ tpc[t] = "idle"
    /\ ~NeedsPage(kind)
    /\ prot' = [prot EXCEPT ![page] = "rw"]
    /\ tpc' = [tpc EXCEPT ![t] = "take"]
    /\ local' = [local EXCEPT ![t] = Blank(kind, m)]
    /\ UNCHANGED <<page, used, mapped, memory, handedOut, unsealed>>

\* mmap() or mprotect() fails in reserve(): the caller gets nullptr and nothing
\* has changed.
ReserveFails(t) ==
    /\ tpc[t] = "idle"
    /\ UNCHANGED pageVars

\* g_page + g_page_used is read ...
TakeSlot(t) ==
    /\ tpc[t] = "take"
    /\ local' = [local EXCEPT ![t].page = page, ![t].at = used]
    /\ tpc' = [tpc EXCEPT ![t] = "bump"]
    /\ UNCHANGED <<page, used, mapped, prot, memory, handedOut, unsealed>>

\* ... and g_page_used written back past it: two plain accesses.
BumpUsed(t) ==
    /\ tpc[t] = "bump"
    /\ used' = local[t].at + Stride(local[t].kind)
    /\ tpc' = [tpc EXCEPT ![t] = "emit"]
    /\ UNCHANGED <<page, mapped, prot, memory, handedOut, unsealed, local>>

\* emit_indirect() / emit_direct(): whatever was at these bytes is gone.  On a
\* page another thread has sealed meanwhile the store faults: no step.
EmitThunk(t) ==
    /\ tpc[t] = "emit"
    /\ prot[local[t].page] = "rw"
    /\ memory' = {x \in memory : ~Overlap(x, local[t])} \cup {local[t]}
    /\ tpc' = [tpc EXCEPT ![t] = "seal"]
    /\ UNCHANGED <<page, used, mapped, prot, handedOut, unsealed, local>>

\* Mutant of SealPage: make_direct_trampoline() forgets the call.
SealIndirectOnly(t) ==
    /\ tpc[t] = "seal"
    /\ prot' = IF local[t].kind = "direct" THEN prot ELSE [prot EXCEPT ![page] = "rx"]
    /\ unsealed' = unsealed \ {page}
    /\ handedOut' = handedOut \cup {local[t]}
    /\ tpc' = [tpc EXCEPT ![t] = "idle"]
    /\ UNCHANGED <<page, used, mapped, memory, local>>

\* seal(): the page g_page names by now becomes executable.
SealPage(t) ==
    /\ tpc[t] = "seal"
    /\ prot' = [prot EXCEPT ![page] = "rx"]
    /\ unsealed' = unsealed \ {page}
    /\ handedOut' = handedOut \cup {local[t]}
    /\ tpc' = [tpc EXCEPT ![t] = "idle"]
    /\ UNCHANGED <<page, used, mapped, memory, local>>

\* mprotect() fails in seal(): the caller gets nullptr, the slot is spent and
\* the page stays writable.
SealFails(t) ==
    /\ tpc[t] = "seal"
    /\ unsealed' = unsealed \cup {page}
    /\ tpc' = [tpc EXCEPT ![t] = "idle"]
    /\ UNCHANGED <<page, used, mapped, prot, memory, handedOut, local>>

-----------------------------------------------------------------------------
Make(t) ==
    \/ \E kind \in Kinds, m \in Targets : MapPage(t, kind, m) \/ UnsealPage(t, kind, m)
    \/ ReserveFails(t)
    \/ TakeSlot(t) \/ BumpUsed(t) \/ EmitThunk(t)
    \/ SealPage(t) \/ SealFails(t)

Next == \E t \in Threads : Make(t)

Spec == Init /\ [][Next]_pageVars

-----------------------------------------------------------------------------
PageTypeOK ==
    /\ page \in 0..mapped
    /\ mapped \in 0..MaxPages
    /\ used \in 0..PageSize
    /\ prot \in [Pages -> {"rw", "rx"}]
    /\ memory \subseteq Thunk
    /\ handedOut \subseteq Thunk
    /\ unsealed \subseteq Pages
    /\ tpc \in [Threads -> {"idle", "take", "bump", "emit", "seal"}]
    /\ \A t \in Threads : local[t] \in Thunk \/ local[t].page = 0

(* A thunk that was handed out keeps the bytes it was built with: it loads   *)
(* the ArtMethod its caller asked for (trampoline.hpp:11) for the lifetime   *)
(* of the process (:23), whatever is allocated after it.                     *)
ThunkIsIntact == handedOut \subseteq memory

(* No slot runs off the end of its page or misaligns the literal an aligned  *)
(* load reads out of it.                                                     *)
SlotFitsItsPage ==
    \A x \in handedOut : x.at + SizeOf[x.kind] <= PageSize /\ x.at % 8 = 0

(* Between calls every thunk handed out can be executed, on whichever page   *)
(* it sits -- unless that page's last seal() failed and said so by refusing  *)
(* its own caller a trampoline.                                              *)
QuietThunkIsExecutable ==
    (\A t \in Threads : tpc[t] = "idle") =>
        \A x \in handedOut : prot[x.page] = "rx" \/ x.page \in unsealed

(* "a stored address stays valid for the process's lifetime"                 *)
(* (hook_registry.hpp:30): a thread can call a hooked method, and so jump    *)
(* into its thunk, at any moment -- also while another hook goes in.         *)
StoredAddressStaysValid ==
    \A x \in handedOut : prot[x.page] = "rx"
=============================================================================
