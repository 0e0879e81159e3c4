------------------------ MODULE TrampolinePage_proofs ------------------------
(***************************************************************************)
(* The trampoline allocator with one installer at a time -- two fail, as   *)
(* its globals have no lock: for any encoding sizes, any page size that    *)
(* holds a thunk, and any number of pages.                                 *)
(***************************************************************************)
EXTENDS TrampolinePage, TLAPS

\* One thread in hook_function(); two would be handed one slot.
OneInstaller == \E t \in Threads : Threads = {t}

-----------------------------------------------------------------------------
(* Strides.                                                                *)

LEMMA Strides ==
    ASSUME NEW k \in Kinds
    PROVE  /\ SizeOf[k] \in Nat /\ SizeOf[k] > 0
           /\ Stride(k) \in Nat /\ Stride(k) % 8 = 0
           /\ SizeOf[k] <= Stride(k) /\ Stride(k) <= PageSize
<1>1. SizeOf[k] \in Nat /\ SizeOf[k] > 0 /\ AlignUp(SizeOf[k]) <= PageSize
  BY PageAssumption
<1> DEFINE q == (SizeOf[k] + 7) \div 8
<1>2. q \in Nat /\ SizeOf[k] <= 8 * q
  BY <1>1
<1>3. Stride(k) = 8 * q
  BY DEF Stride, AlignUp
<1> HIDE DEF q
<1>4. (8 * q) % 8 = 0
  BY <1>2
<1> QED BY <1>1, <1>2, <1>3, <1>4 DEF Stride

\* A thunk that ends where another begins, or before, leaves it whole.
LEMMA ApartDoNotOverlap ==
    ASSUME NEW x \in Thunk, NEW y \in Thunk, x.at + SizeOf[x.kind] <= y.at
    PROVE  ~Overlap(x, y)
<1>1. x.at \in Nat /\ y.at \in Nat /\ SizeOf[x.kind] \in Nat /\ SizeOf[y.kind] \in Nat
  BY Strides DEF Thunk
<1> QED BY <1>1 DEF Overlap, Bytes

-----------------------------------------------------------------------------
(* The inductive invariant.                                                *)

Busy(t) == tpc[t] # "idle"

\* A thunk lies wholly below the bytes that are free.
BelowFree(x, free) == x.page < page \/ (x.page = page /\ x.at + SizeOf[x.kind] <= free)

Fits(x) == x.at + SizeOf[x.kind] <= PageSize /\ x.at % 8 = 0

Local == [page : 0..MaxPages, at : Nat, kind : Kinds, target : Targets]

ThreadInv(t) ==
    /\ local[t] \in Thunk \/ local[t].page = 0
    /\ Busy(t) => local[t] \in Local /\ page \in Pages
    /\ tpc[t] \in {"take", "bump"} => used + Stride(local[t].kind) <= PageSize
    /\ tpc[t] = "bump" => local[t].at = used
    /\ tpc[t] \in {"bump", "emit", "seal"} => local[t].page = page
    /\ tpc[t] \in {"emit", "seal"} =>
          Fits(local[t]) /\ used = local[t].at + Stride(local[t].kind)
    /\ tpc[t] = "seal" => local[t] \in memory

\* The bytes nobody has been handed: past g_page_used, and what is being built.
Free(t) == IF tpc[t] \in {"emit", "seal"} THEN local[t].at ELSE used

\* Executable, or said not to be, or on the page that is being written to.
Runs(x) ==
    \/ prot[x.page] = "rx" \/ x.page \in unsealed
    \/ x.page = page /\ \E t \in Threads : Busy(t)

PageInv ==
    /\ mapped \in 0..MaxPages /\ page = mapped
    /\ used \in 0..PageSize /\ used % 8 = 0
    /\ prot \in [Pages -> {"rw", "rx"}]
    /\ memory \subseteq Thunk /\ handedOut \subseteq memory
    /\ unsealed \subseteq Pages
    /\ tpc \in [Threads -> {"idle", "take", "bump", "emit", "seal"}]
    /\ DOMAIN local = Threads
    /\ \A t \in Threads : ThreadInv(t)
    /\ \A x \in handedOut : Fits(x) /\ Runs(x) /\ \A t \in Threads : BelowFree(x, Free(t))

LEMMA PageInvInit == Init => PageInv
<1> SUFFICES ASSUME Init PROVE PageInv
  OBVIOUS
<1>1. MaxPages \in Nat /\ PageSize \in Nat
  BY PageAssumption
<1>2. \A t \in Threads : tpc[t] = "idle" /\ local[t].page = 0
  BY DEF Init, Blank
<1>3. \A t \in Threads : ThreadInv(t)
  BY <1>2 DEF ThreadInv, Busy
<1> QED BY <1>1, <1>3 DEF Init, PageInv, Pages

\* What a single installer's step starts from.
Here(t) == Threads = {t} /\ PageInv /\ ThreadInv(t)

LEMMA ReserveKeepsInv ==
    ASSUME NEW t, Here(t), NEW kind \in Kinds, NEW m \in Targets,
           MapPage(t, kind, m) \/ UnsealPage(t, kind, m)
    PROVE  PageInv'
<1> USE DEF Here, PageInv
<1>1. /\ MaxPages \in Nat /\ PageSize \in Nat /\ mapped \in Nat
      /\ Stride(kind) \in Nat /\ Stride(kind) <= PageSize
  BY PageAssumption, Strides
<1>2. /\ tpc[t] = "idle" /\ tpc' = [tpc EXCEPT ![t] = "take"]
      /\ local' = [local EXCEPT ![t] = Blank(kind, m)]
      /\ memory' = memory /\ handedOut' = handedOut /\ unsealed' = unsealed
  BY DEF MapPage, UnsealPage
<1>3. tpc'[t] = "take" /\ local'[t] = Blank(kind, m) /\ local'[t] \in Local
      /\ local'[t].kind = kind /\ local'[t].page = 0
  BY <1>1, <1>2 DEF Blank, Local
<1>4. \A x \in handedOut : x \in Thunk /\ x.page \in Pages /\ x.page <= page
                            /\ (prot[x.page] = "rx" \/ x.page \in unsealed)
  BY <1>2 DEF Runs, Busy, BelowFree, Thunk, Pages
<1>5. CASE MapPage(t, kind, m)
  <2>1. /\ mapped' = mapped + 1 /\ page' = mapped' /\ used' = 0
        /\ mapped' \in 0..MaxPages /\ mapped' \in Pages
        /\ prot' = [prot EXCEPT ![mapped'] = "rw"]
    BY <1>1, <1>5 DEF MapPage, Pages
  <2>2. ThreadInv(t)'
    BY <1>1, <1>3, <2>1 DEF ThreadInv, Stride
  <2>3. ASSUME NEW x \in handedOut
        PROVE  Fits(x)' /\ Runs(x)' /\ BelowFree(x, Free(t))'
    <3>1. x.page < page' /\ prot'[x.page] = prot[x.page]
      BY <1>1, <1>4, <2>1 DEF Pages
    <3> QED BY <1>2, <1>4, <3>1 DEF Fits, Runs, BelowFree
  <2> QED BY <1>1, <1>2, <2>1, <2>2, <2>3 DEF Pages
<1>6. CASE UnsealPage(t, kind, m)
  <2>1. /\ mapped' = mapped /\ page' = page /\ used' = used
        /\ prot' = [prot EXCEPT ![page] = "rw"]
        /\ page # 0 /\ ~(used + Stride(kind) > PageSize)
    BY <1>6 DEF UnsealPage, NeedsPage
  <2>2. page \in Pages
    BY <1>1, <2>1 DEF Pages
  <2>3. ThreadInv(t)'
    BY <1>1, <1>3, <2>1, <2>2 DEF ThreadInv, Stride, Pages
  <2>4. ASSUME NEW x \in handedOut
        PROVE  Fits(x)' /\ Runs(x)' /\ BelowFree(x, Free(t))'
    <3>1. BelowFree(x, used)
      BY <1>2 DEF Free
    <3>2. BelowFree(x, Free(t))'
      BY <1>3, <2>1, <3>1 DEF BelowFree, Free
    <3>3. Runs(x)'
      BY <1>3, <1>4, <1>2, <2>1 DEF Runs, Busy
    <3> QED BY <3>2, <3>3 DEF Fits
  <2> QED BY <1>1, <1>2, <2>1, <2>3, <2>4
<1> QED BY <1>5, <1>6

LEMMA TakeKeepsInv ==
    ASSUME NEW t, Here(t), TakeSlot(t)
    PROVE  PageInv'
<1> USE DEF Here, PageInv
<1>1. /\ tpc[t] = "take" /\ tpc' = [tpc EXCEPT ![t] = "bump"]
      /\ local' = [local EXCEPT ![t].page = page, ![t].at = used]
      /\ UNCHANGED <<page, used, mapped, prot, memory, handedOut, unsealed>>
  BY DEF TakeSlot
<1>2. local[t] \in Local /\ page \in Pages /\ used \in Nat
  BY <1>1, PageAssumption DEF ThreadInv, Busy
<1>3. /\ tpc'[t] = "bump" /\ local'[t] = [local[t] EXCEPT !.page = page, !.at = used]
      /\ local'[t].kind = local[t].kind /\ local'[t].page = page /\ local'[t].at = used
      /\ local'[t] \in Local /\ local'[t] \in Thunk
  BY <1>1, <1>2 DEF Local, Thunk, Pages
<1>4. ThreadInv(t)'
  BY <1>1, <1>2, <1>3 DEF ThreadInv, Stride
<1>5. ASSUME NEW x \in handedOut PROVE Fits(x)' /\ Runs(x)' /\ BelowFree(x, Free(t))'
  BY <1>1, <1>3 DEF Fits, Runs, Busy, BelowFree, Free
<1> QED BY <1>1, <1>4, <1>5

LEMMA BumpKeepsInv ==
    ASSUME NEW t, Here(t), BumpUsed(t)
    PROVE  PageInv'
<1> USE DEF Here, PageInv
<1>1. /\ tpc[t] = "bump" /\ tpc' = [tpc EXCEPT ![t] = "emit"]
      /\ used' = local[t].at + Stride(local[t].kind)
      /\ UNCHANGED <<page, mapped, prot, memory, handedOut, unsealed, local>>
  BY DEF BumpUsed
<1>2. /\ local[t] \in Local /\ local[t].kind \in Kinds /\ page \in Pages
      /\ local[t].at = used /\ used \in Nat /\ used % 8 = 0 /\ PageSize \in Nat
      /\ used + Stride(local[t].kind) <= PageSize /\ local[t].page = page
  BY <1>1, PageAssumption DEF ThreadInv, Busy, Local
<1>3. /\ SizeOf[local[t].kind] \in Nat /\ SizeOf[local[t].kind] <= Stride(local[t].kind)
      /\ Stride(local[t].kind) \in Nat /\ Stride(local[t].kind) % 8 = 0
  BY <1>2, Strides
<1>4. used' \in 0..PageSize /\ used' % 8 = 0
  BY <1>1, <1>2, <1>3
<1>5. Fits(local[t])
  BY <1>2, <1>3 DEF Fits
<1>6. tpc'[t] = "emit" /\ local'[t] = local[t]
  BY <1>1
<1>7. ThreadInv(t)'
  BY <1>1, <1>2, <1>5, <1>6 DEF ThreadInv, Fits, Stride
<1>8. ASSUME NEW x \in handedOut PROVE Fits(x)' /\ Runs(x)' /\ BelowFree(x, Free(t))'
  BY <1>1, <1>2, <1>6 DEF Fits, Runs, Busy, BelowFree, Free
<1> QED BY <1>1, <1>4, <1>7, <1>8

LEMMA EmitKeepsInv ==
    ASSUME NEW t, Here(t), EmitThunk(t)
    PROVE  PageInv'
<1> USE DEF Here, PageInv
<1>1. /\ tpc[t] = "emit" /\ tpc' = [tpc EXCEPT ![t] = "seal"]
      /\ memory' = {x \in memory : ~Overlap(x, local[t])} \cup {local[t]}
      /\ UNCHANGED <<page, used, mapped, prot, handedOut, unsealed, local>>
  BY DEF EmitThunk
<1>2. local[t] \in Thunk /\ local[t].page = page
  BY <1>1 DEF ThreadInv, Busy, Local, Thunk
<1>3. tpc'[t] = "seal" /\ local'[t] = local[t]
  BY <1>1
<1>4. ASSUME NEW x \in handedOut PROVE ~Overlap(x, local[t])
  <2>1. x \in Thunk /\ BelowFree(x, local[t].at)
    BY <1>1 DEF Free
  <2>2. CASE x.page < page
    BY <1>2, <2>1, <2>2 DEF Overlap, Thunk, Pages
  <2>3. CASE x.at + SizeOf[x.kind] <= local[t].at
    BY <1>2, <2>1, <2>3, ApartDoNotOverlap
  <2> QED BY <2>1, <2>2, <2>3 DEF BelowFree
<1>5. memory' \subseteq Thunk /\ handedOut' \subseteq memory'
  BY <1>1, <1>2, <1>4
<1>6. ThreadInv(t)'
  BY <1>1, <1>3 DEF ThreadInv, Busy, Fits, Stride
<1>7. ASSUME NEW x \in handedOut PROVE Fits(x)' /\ Runs(x)' /\ BelowFree(x, Free(t))'
  BY <1>1, <1>3 DEF Fits, Runs, Busy, BelowFree, Free
<1> QED BY <1>1, <1>5, <1>6, <1>7

LEMMA SealKeepsInv ==
    ASSUME NEW t, Here(t), SealPage(t) \/ SealFails(t)
    PROVE  PageInv'
<1> USE DEF Here, PageInv
<1>1. /\ tpc[t] = "seal" /\ tpc' = [tpc EXCEPT ![t] = "idle"] /\ tpc'[t] = "idle"
      /\ UNCHANGED <<page, used, mapped, memory, local>>
  BY DEF SealPage, SealFails
<1>2. /\ local[t] \in Local /\ local[t].kind \in Kinds /\ page \in Pages
      /\ local[t].page = page /\ local[t] \in memory /\ local[t] \in Thunk
      /\ Fits(local[t]) /\ used = local[t].at + Stride(local[t].kind)
  BY <1>1 DEF ThreadInv, Busy, Local
<1>3. /\ SizeOf[local[t].kind] \in Nat /\ SizeOf[local[t].kind] <= Stride(local[t].kind)
      /\ Stride(local[t].kind) \in Nat /\ local[t].at \in Nat
  BY <1>2, Strides DEF Local
<1>4. ThreadInv(t)'
  BY <1>1, <1>2 DEF ThreadInv, Busy
<1>5. ASSUME NEW x \in handedOut \cup {local[t]}
      PROVE  x.page \in Pages /\ Fits(x)' /\ BelowFree(x, Free(t))'
  <2>1. x \in Thunk
    BY <1>2
  <2>2. x.at \in Nat /\ SizeOf[x.kind] \in Nat /\ x.page \in Pages
    BY <2>1, Strides DEF Thunk
  <2>3. CASE x = local[t]
    BY <1>1, <1>2, <1>3, <2>2, <2>3 DEF BelowFree, Free, Fits
  <2>4. CASE x \in handedOut
    <3>1. BelowFree(x, local[t].at) /\ Fits(x)
      BY <1>1, <2>4 DEF Free
    <3>2. x.at + SizeOf[x.kind] <= local[t].at => x.at + SizeOf[x.kind] <= used
      BY <1>2, <1>3, <2>2
    <3> QED BY <1>1, <2>2, <3>1, <3>2 DEF BelowFree, Free, Fits
  <2> QED BY <2>3, <2>4
<1>6. CASE SealPage(t)
  <2>1. /\ prot' = [prot EXCEPT ![page] = "rx"] /\ unsealed' = unsealed \ {page}
        /\ handedOut' = handedOut \cup {local[t]}
    BY <1>6 DEF SealPage
  <2>2. ASSUME NEW x \in handedOut' PROVE Runs(x)'
    <3>1. x.page = page => prot'[x.page] = "rx"
      BY <1>2, <2>1
    <3>2. x.page # page => x \in handedOut /\ prot'[x.page] = prot[x.page]
      BY <1>2, <1>5, <2>1
    <3>3. x.page # page => prot'[x.page] = "rx" \/ x.page \in unsealed'
      BY <2>1, <3>2 DEF Runs
    <3> QED BY <3>1, <3>3 DEF Runs
  <2> QED BY <1>1, <1>2, <1>4, <1>5, <2>1, <2>2
<1>7. CASE SealFails(t)
  <2>1. prot' = prot /\ unsealed' = unsealed \cup {page} /\ handedOut' = handedOut
    BY <1>7 DEF SealFails
  <2>2. ASSUME NEW x \in handedOut' PROVE Runs(x)'
    BY <1>1, <2>1, <2>2 DEF Runs
  <2> QED BY <1>1, <1>2, <1>4, <1>5, <2>1, <2>2
<1> QED BY <1>6, <1>7

LEMMA PageInvStep == OneInstaller /\ PageInv /\ [Next]_pageVars => PageInv'
<1> SUFFICES ASSUME OneInstaller, PageInv, [Next]_pageVars PROVE PageInv'
  OBVIOUS
<1>1. CASE Next
  <2>1. PICK t \in Threads : Make(t)
    BY <1>1 DEF Next
  <2>2. Here(t)
    BY DEF OneInstaller, Here, PageInv
  <2>3. ASSUME NEW kind \in Kinds, NEW m \in Targets,
               MapPage(t, kind, m) \/ UnsealPage(t, kind, m)
        PROVE  PageInv'
    BY <2>2, <2>3, ReserveKeepsInv
  <2>4. CASE ReserveFails(t)
    BY <2>4 DEF ReserveFails, pageVars, PageInv, ThreadInv, Busy, Fits, Runs, BelowFree, Free,
                Stride, Local
  <2> QED
    BY <2>1, <2>2, <2>3, <2>4, TakeKeepsInv, BumpKeepsInv, EmitKeepsInv, SealKeepsInv DEF Make
<1>2. CASE UNCHANGED pageVars
  BY <1>2 DEF pageVars, PageInv, ThreadInv, Busy, Fits, Runs, BelowFree, Free, Stride, Local
<1> QED BY <1>1, <1>2

(* The inductive invariant: what was handed out lies below what is free, and *)
(* what is being built lies past it (trampoline.cpp:179-216).                *)
THEOREM PageInvHolds == ASSUME OneInstaller PROVE Spec => []PageInv
<1>1. PageInv /\ [Next]_pageVars => PageInv'
  BY PageInvStep
<1> QED BY <1>1, PageInvInit, PTL DEF Spec

(* The types of the allocator's state; g_page_used never passes the page.    *)
THEOREM PageTypeCorrect == ASSUME OneInstaller PROVE Spec => []PageTypeOK
<1>1. PageInv => PageTypeOK
  BY PageAssumption DEF PageInv, PageTypeOK, ThreadInv
<1> QED BY <1>1, PageInvHolds, PTL

(* With one installer at a time a thunk keeps its bytes for good             *)
(* (trampoline.hpp:11, 23).                                                  *)
THEOREM ThunksAreIntact == ASSUME OneInstaller PROVE Spec => []ThunkIsIntact
<1>1. PageInv => ThunkIsIntact
  BY DEF PageInv, ThunkIsIntact
<1> QED BY <1>1, PageInvHolds, PTL

(* Whatever the sizes of the encodings, a slot lies on its page, and aligned *)
(* (trampoline.cpp:17-19, 181-188).                                          *)
THEOREM SlotsFit == ASSUME OneInstaller PROVE Spec => []SlotFitsItsPage
<1>1. PageInv => SlotFitsItsPage
  BY DEF PageInv, SlotFitsItsPage, Fits
<1> QED BY <1>1, PageInvHolds, PTL

(* Between calls every thunk can be executed, unless sealing its page failed *)
(* and said so (trampoline.cpp:208-216).                                     *)
THEOREM QuietThunksRun == ASSUME OneInstaller PROVE Spec => []QuietThunkIsExecutable
<1>1. PageInv => QuietThunkIsExecutable
  BY DEF PageInv, QuietThunkIsExecutable, Runs, Busy
<1> QED BY <1>1, PageInvHolds, PTL
=============================================================================
