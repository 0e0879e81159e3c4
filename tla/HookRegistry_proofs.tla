------------------------ MODULE HookRegistry_proofs ------------------------
(***************************************************************************)
(* The registry's safety, for any number of methods, threads and hooks,    *)
(* with ART writing entry points whenever it likes (ArtRaces is not fixed).*)
(***************************************************************************)
EXTENDS RegistryChain, SequenceTheorems, WellFoundedInduction, TLAPS

(* Removing the i-th element keeps the others in their order.              *)
LEMMA RemoveAtElements ==
    ASSUME NEW S, NEW s \in Seq(S), NEW i \in 1..Len(s)
    PROVE  /\ RemoveAt(s, i) \in Seq(S)
           /\ Len(RemoveAt(s, i)) = Len(s) - 1
           /\ \A k \in 1..(Len(s) - 1) :
                 RemoveAt(s, i)[k] = IF k < i THEN s[k] ELSE s[k + 1]
  <1> DEFINE a == SubSeq(s, 1, i - 1)
             b == SubSeq(s, i + 1, Len(s))
  <1>1. a \in Seq(S) /\ Len(a) = i - 1 /\ \A k \in 1..(i - 1) : a[k] = s[k]
    OBVIOUS
  <1>2. b \in Seq(S) /\ Len(b) = Len(s) - i /\ \A k \in 1..(Len(s) - i) : b[k] = s[i + k]
    OBVIOUS
  <1>3. RemoveAt(s, i) = a \o b
    BY DEF RemoveAt
  <1> HIDE DEF a, b
  <1>4. /\ a \o b \in Seq(S)
        /\ Len(a \o b) = Len(a) + Len(b)
        /\ \A k \in 1..(Len(a) + Len(b)) :
              (a \o b)[k] = IF k <= Len(a) THEN a[k] ELSE b[k - Len(a)]
    BY <1>1, <1>2, ConcatProperties
  <1>5. Len(a) + Len(b) = Len(s) - 1
    <2>1. Len(s) \in Nat
      OBVIOUS
    <2>2. QED
      BY <1>1, <1>2, <2>1
  <1>6. ASSUME NEW k \in 1..(Len(s) - 1)
        PROVE  (a \o b)[k] = IF k < i THEN s[k] ELSE s[k + 1]
    <2>1. CASE k < i
      BY <1>1, <1>4, <1>5, <2>1
    <2>2. CASE ~(k < i)
      BY <1>1, <1>2, <1>4, <1>5, <2>2
    <2>3. QED
      BY <2>1, <2>2
  <1>7. QED
    BY <1>3, <1>4, <1>5, <1>6

-----------------------------------------------------------------------------
(* How the records of a method move when the vector grows or shrinks.      *)

(* What the fields of a record are.                                        *)
LEMMA RecordShape ==
    ASSUME NEW r \in Record
    PROVE  /\ r.target \in Methods
           /\ r.previous_entry \in Code \cup Trampolines
           /\ r.installed_entry \in Trampolines
  BY DEF Record, EntryPoint

(* A pushed record is the top of its own method and of no other.           *)
LEMMA AppendTop ==
    ASSUME NEW h \in Seq(Record), NEW r \in Record
    PROVE  /\ IsTop(Append(h, r), Len(h) + 1, r.target)
           /\ \A n \in Methods, i \in 1..Len(h) :
                 n # r.target /\ IsTop(h, i, n) => IsTop(Append(h, r), i, n)
  BY AppendProperties DEF IsTop

(* Pushing keeps every displaced hook next below the one that displaced it,*)
(* if the pushed record displaced the method's top.                        *)
LEMMA AppendLinked ==
    ASSUME NEW h \in Seq(Record), NEW r \in Record, Linked(h),
           r.previous_entry \in Trampolines =>
               \E i \in 1..Len(h) : /\ IsTop(h, i, r.target)
                                    /\ h[i].installed_entry = r.previous_entry
    PROVE  Linked(Append(h, r))
  <1> DEFINE g == Append(h, r)
  <1>1. /\ Len(g) = Len(h) + 1
        /\ \A k \in 1..Len(h) : g[k] = h[k]
        /\ g[Len(h) + 1] = r
        /\ Len(h) \in Nat
    BY AppendProperties
  <1> SUFFICES ASSUME NEW i \in 1..Len(g), g[i].previous_entry \in Trampolines
               PROVE  \E j \in 1..(i - 1) :
                         /\ NextBelow(g, j, i)
                         /\ g[j].installed_entry = g[i].previous_entry
    BY DEF Linked
  <1> HIDE DEF g
  <1>2. CASE i \in 1..Len(h)
    <2>1. PICK j \in 1..(i - 1) : /\ NextBelow(h, j, i)
                                  /\ h[j].installed_entry = h[i].previous_entry
      BY <1>1, <1>2 DEF Linked
    <2>2. NextBelow(g, j, i) /\ g[j].installed_entry = g[i].previous_entry
      BY <1>1, <1>2, <2>1 DEF NextBelow
    <2>3. QED
      BY <2>2
  <1>3. CASE i = Len(h) + 1
    <2>1. PICK j \in 1..Len(h) : /\ IsTop(h, j, r.target)
                                 /\ h[j].installed_entry = r.previous_entry
      BY <1>1, <1>3
    <2>2. NextBelow(g, j, i) /\ g[j].installed_entry = g[i].previous_entry
      BY <1>1, <1>3, <2>1 DEF NextBelow, IsTop
    <2>3. QED
      BY <1>1, <1>3, <2>2
  <1>4. QED
    BY <1>1, <1>2, <1>3

(* Taking out a method's top record leaves the tops of the other methods,  *)
(* one place lower when they stood above it.                               *)
LEMMA RemoveOtherTop ==
    ASSUME NEW h \in Seq(Record), NEW m \in Methods, NEW n \in Methods, n # m,
           NEW i \in 1..Len(h), IsTop(h, i, m),
           NEW j \in 1..Len(h), IsTop(h, j, n)
    PROVE  \E k \in 1..Len(RemoveAt(h, i)) :
              /\ IsTop(RemoveAt(h, i), k, n)
              /\ RemoveAt(h, i)[k] = h[j]
  <1> DEFINE g == RemoveAt(h, i)
  <1>0. Len(h) \in Nat
    OBVIOUS
  <1>1. /\ Len(g) = Len(h) - 1
        /\ \A l \in 1..(Len(h) - 1) : g[l] = IF l < i THEN h[l] ELSE h[l + 1]
    BY RemoveAtElements
  <1>2. j # i
    BY DEF IsTop
  <1> HIDE DEF g
  <1> DEFINE k == IF j < i THEN j ELSE j - 1
  <1>3. k \in 1..Len(g) /\ g[k] = h[j]
    BY <1>0, <1>1, <1>2
  <1>4. ASSUME NEW l \in (k + 1)..Len(g)
        PROVE  g[l].target # n
    <2>1. CASE l < i
      BY <1>0, <1>1, <1>2, <1>4, <2>1 DEF IsTop
    <2>2. CASE ~(l < i)
      BY <1>0, <1>1, <1>2, <1>4, <2>2 DEF IsTop
    <2>3. QED
      BY <2>1, <2>2
  <1>5. QED
    BY <1>3, <1>4 DEF IsTop, g

(* Taking out a method's top record makes the next one below it the top.   *)
LEMMA RemoveOwnTop ==
    ASSUME NEW h \in Seq(Record), NEW m \in Methods,
           NEW i \in 1..Len(h), IsTop(h, i, m),
           NEW j \in 1..(i - 1), NextBelow(h, j, i)
    PROVE  /\ IsTop(RemoveAt(h, i), j, m)
           /\ RemoveAt(h, i)[j] = h[j]
  <1> DEFINE g == RemoveAt(h, i)
  <1>0. Len(h) \in Nat
    OBVIOUS
  <1>1. /\ Len(g) = Len(h) - 1
        /\ \A l \in 1..(Len(h) - 1) : g[l] = IF l < i THEN h[l] ELSE h[l + 1]
    BY RemoveAtElements
  <1> HIDE DEF g
  <1>2. j \in 1..Len(g) /\ g[j] = h[j]
    BY <1>0, <1>1
  <1>3. h[j].target = m
    BY DEF NextBelow, IsTop
  <1>4. ASSUME NEW l \in (j + 1)..Len(g)
        PROVE  g[l].target # m
    <2>1. CASE l < i
      BY <1>0, <1>1, <1>4, <2>1 DEF IsTop, NextBelow
    <2>2. CASE ~(l < i)
      BY <1>0, <1>1, <1>4, <2>2 DEF IsTop
    <2>3. QED
      BY <2>1, <2>2
  <1>5. QED
    BY <1>2, <1>3, <1>4 DEF IsTop, g

(* Taking out a method's top record keeps the chains linked: no record     *)
(* above it displaced it.                                                  *)
LEMMA RemoveLinked ==
    ASSUME NEW h \in Seq(Record), Linked(h), NEW m \in Methods,
           NEW t \in 1..Len(h), IsTop(h, t, m)
    PROVE  Linked(RemoveAt(h, t))
  <1> DEFINE g == RemoveAt(h, t)
             Old(l) == IF l < t THEN l ELSE l + 1
             New(l) == IF l < t THEN l ELSE l - 1
  <1>0. Len(h) \in Nat
    OBVIOUS
  <1>1. /\ Len(g) = Len(h) - 1
        /\ \A l \in 1..(Len(h) - 1) : g[l] = h[Old(l)]
    BY RemoveAtElements
  <1> SUFFICES ASSUME NEW i \in 1..Len(g), g[i].previous_entry \in Trampolines
               PROVE  \E j \in 1..(i - 1) :
                         /\ NextBelow(g, j, i)
                         /\ g[j].installed_entry = g[i].previous_entry
    BY DEF Linked
  <1> HIDE DEF g
  <1>2. Old(i) \in 1..Len(h) /\ Old(i) # t /\ g[i] = h[Old(i)]
    BY <1>0, <1>1
  <1>3. PICK j \in 1..(Old(i) - 1) :
           /\ NextBelow(h, j, Old(i))
           /\ h[j].installed_entry = h[Old(i)].previous_entry
    BY <1>2 DEF Linked
  <1>4. j # t
    BY <1>2, <1>3 DEF NextBelow, IsTop
  <1>5. New(j) \in 1..(i - 1) /\ g[New(j)] = h[j]
    BY <1>0, <1>1, <1>2, <1>3, <1>4
  <1>6. ASSUME NEW k \in (New(j) + 1)..(i - 1)
        PROVE  g[k].target # g[i].target
    <2>1. k \in 1..(Len(h) - 1) /\ Old(k) \in (j + 1)..(Old(i) - 1)
      BY <1>0, <1>1, <1>2, <1>3, <1>4, <1>6
    <2>2. g[k] = h[Old(k)]
      BY <1>0, <1>1, <2>1
    <2>3. QED
      BY <1>2, <1>3, <2>1, <2>2 DEF NextBelow
  <1>7. NextBelow(g, New(j), i)
    BY <1>2, <1>3, <1>5, <1>6 DEF NextBelow
  <1>8. QED
    BY <1>2, <1>3, <1>5, <1>7

-----------------------------------------------------------------------------
(* The inductive invariant.                                                *)

\* An install that is about to displace a hook displaces the method's top.
InstallDisplacesTop ==
    \A t \in Threads :
        pc[t] \in InstallPC /\ frame[t].previous_entry \in Trampolines =>
            \E i \in 1..Len(hooks) :
                /\ IsTop(hooks, i, frame[t].target)
                /\ hooks[i].installed_entry = frame[t].previous_entry

\* A removal in progress works on its method's top record.
RemovalIsOfTop ==
    \A t \in Threads :
        pc[t] \in RemovePC =>
            \E i \in 1..Len(hooks) :
                /\ IsTop(hooks, i, frame[t].target)
                /\ hooks[i] = frame[t]

\* A call whose store landed and whose bookkeeping is still to come.
StoredBy(t, m) ==
    /\ frame[t].target = m
    /\ \/ pc[t] = "install_verify" /\ entry[m] = frame[t].installed_entry
       \/ pc[t] = "remove_verify"  /\ entry[m] = frame[t].previous_entry

LiveIsKnown ==
    \A m \in Methods :
        entry[m] \in Trampolines =>
            HookIsInstalled(m) \/ \E t \in Threads : StoredBy(t, m)

IInv ==
    /\ TypeOK
    /\ Linked(hooks)
    /\ InstallDisplacesTop
    /\ RemovalIsOfTop
    /\ LiveIsKnown

(* Type correctness: the lock's owner is exactly the thread that is inside *)
(* a call, and that thread's locals are a record.                          *)
THEOREM TypeCorrect == Spec => []TypeOK
  <1>1. Init => TypeOK
    BY RegistryAssumption DEF Init, TypeOK, EntryPoint
  <1>2. TypeOK /\ [Next]_vars => TypeOK'
    <2> SUFFICES ASSUME TypeOK, [Next]_vars
                 PROVE  TypeOK'
      OBVIOUS
    <2> USE RegistryAssumption DEF TypeOK, InstallPC, RemovePC, LockIsFree
    <2>1. ASSUME NEW t \in Threads, NEW m \in Methods, NEW x \in Trampolines,
                 InstallRead(t, m, x)
          PROVE  TypeOK'
      BY <2>1 DEF InstallRead, Enter, Record, EntryPoint
    <2>2. ASSUME NEW t \in Threads, NEW m \in Methods, RemoveStale(t, m)
          PROVE  TypeOK'
      BY <2>2, RemoveAtElements DEF RemoveStale
    <2>3. ASSUME NEW t \in Threads, NEW m \in Methods, RemoveCheck(t, m)
          PROVE  TypeOK'
      BY <2>3 DEF RemoveCheck, Enter
    <2>4. ASSUME NEW t \in Threads, InstallStore(t)
          PROVE  TypeOK'
      BY <2>4 DEF InstallStore, Store, Goto, Record, EntryPoint
    <2>5. ASSUME NEW t \in Threads, InstallVerify(t)
          PROVE  TypeOK'
      <3>1. hooks' \in Seq(Record)
        BY <2>5 DEF InstallVerify
      <3>2. QED
        BY <2>5, <3>1 DEF InstallVerify, Return
    <2>6. ASSUME NEW t \in Threads, RemoveStore(t)
          PROVE  TypeOK'
      BY <2>6 DEF RemoveStore, Store, Goto, Record, EntryPoint
    <2>7. ASSUME NEW t \in Threads, RemoveVerify(t)
          PROVE  TypeOK'
      <3>1. hooks' \in Seq(Record)
        BY <2>7, RemoveAtElements DEF RemoveVerify, IsTop
      <3>2. QED
        BY <2>7, <3>1 DEF RemoveVerify, Return
    <2>8. ASSUME NEW m \in Methods, NEW c \in Code, ArtWrites(m, c)
          PROVE  TypeOK'
      BY <2>8 DEF ArtWrites, EntryPoint
    <2>9. CASE UNCHANGED vars
      BY <2>9 DEF vars
    <2>10. QED
      BY <2>1, <2>2, <2>3, <2>4, <2>5, <2>6, <2>7, <2>8, <2>9
         DEF Next, Call, Proceed
  <1>3. QED
    BY <1>1, <1>2, PTL DEF Spec

(* The lock excludes: while one thread is inside a call the others are     *)
(* outside, and while it is free everyone is.                              *)
LEMMA LockExcludes ==
    ASSUME TypeOK
    PROVE  /\ \A t, u \in Threads : pc[t] # "idle" /\ pc[u] # "idle" => t = u
           /\ LockIsFree => \A t \in Threads : pc[t] = "idle"
  BY RegistryAssumption DEF TypeOK, LockIsFree

(* Nothing is hooked at first: the invariant holds of the empty vector.    *)
LEMMA InvInit == Init => IInv
  <1> SUFFICES ASSUME Init
               PROVE  IInv
    OBVIOUS
  <1>1. TypeOK
    BY RegistryAssumption DEF Init, TypeOK, EntryPoint
  <1>2. Linked(hooks)
    BY DEF Init, Linked
  <1>3. InstallDisplacesTop /\ RemovalIsOfTop
    BY DEF Init, InstallDisplacesTop, RemovalIsOfTop, InstallPC, RemovePC
  <1>4. LiveIsKnown
    BY RegistryAssumption DEF Init, LiveIsKnown
  <1>5. QED
    BY <1>1, <1>2, <1>3, <1>4 DEF IInv

(* install_hook() taking the lock: the entry it reads is the top of its method.*)
LEMMA InvInstallRead ==
    ASSUME IInv, TypeOK', NEW t \in Threads, NEW m \in Methods, NEW x \in Trampolines,
           InstallRead(t, m, x)
    PROVE  IInv'
  <1> USE DEF IInv
  <1>1. /\ LockIsFree /\ hooks' = hooks /\ entry' = entry
        /\ pc' = [pc EXCEPT ![t] = "install_store"]
        /\ frame' = [frame EXCEPT ![t] =
              [target |-> m, previous_entry |-> entry[m], installed_entry |-> x]]
        /\ \A u \in Threads : pc[u] = "idle"
    BY LockExcludes DEF InstallRead, Enter
  <1>2. \A n \in Methods : entry[n] \in Trampolines => HookIsInstalled(n)
    BY <1>1 DEF LiveIsKnown, StoredBy
  <1>3. Linked(hooks)'
    BY <1>1 DEF Linked, NextBelow
  <1>4. InstallDisplacesTop'
    <2> SUFFICES ASSUME NEW u \in Threads, pc'[u] \in InstallPC,
                        frame'[u].previous_entry \in Trampolines
                 PROVE  \E i \in 1..Len(hooks) :
                            /\ IsTop(hooks, i, frame'[u].target)
                            /\ hooks[i].installed_entry = frame'[u].previous_entry
      BY <1>1 DEF InstallDisplacesTop, IsTop
    <2>1. u = t
      BY <1>1 DEF TypeOK, InstallPC
    <2>2. frame'[u].target = m /\ frame'[u].previous_entry = entry[m]
      BY <1>1, <2>1 DEF TypeOK
    <2>3. QED
      BY <1>2, <2>2 DEF HookIsInstalled
  <1>5. RemovalIsOfTop'
    BY <1>1 DEF RemovalIsOfTop, RemovePC, TypeOK
  <1>6. LiveIsKnown'
    BY <1>1, <1>2 DEF LiveIsKnown, HookIsInstalled, IsTop
  <1>7. QED
    BY <1>3, <1>4, <1>5, <1>6

(* The store of install_hook(), taken or not, leaves every record as it was.*)
LEMMA InvInstallStore ==
    ASSUME IInv, TypeOK', NEW t \in Threads, InstallStore(t)
    PROVE  IInv'
  <1> USE DEF IInv
  <1> DEFINE m == frame[t].target
  <1>1. /\ pc[t] = "install_store" /\ hooks' = hooks /\ frame' = frame
        /\ pc' = [pc EXCEPT ![t] = "install_verify"]
        /\ entry' \in {entry, [entry EXCEPT ![m] = frame[t].installed_entry]}
    BY DEF InstallStore, Store, Goto
  <1>2. \A u \in Threads : u # t => pc[u] = "idle"
    BY <1>1, LockExcludes
  <1>3. Linked(hooks)'
    BY <1>1 DEF Linked, NextBelow
  <1>4. InstallDisplacesTop'
    BY <1>1, <1>2 DEF InstallDisplacesTop, InstallPC, IsTop, TypeOK
  <1>5. RemovalIsOfTop'
    BY <1>1, <1>2 DEF RemovalIsOfTop, RemovePC, TypeOK
  <1>6. LiveIsKnown'
    <2> SUFFICES ASSUME NEW n \in Methods, entry'[n] \in Trampolines
                 PROVE  HookIsInstalled(n)' \/ \E u \in Threads : StoredBy(u, n)'
      BY DEF LiveIsKnown
    <2>1. CASE entry'[n] = entry[n]
      <3>1. HookIsInstalled(n)
        BY <1>1, <1>2, <2>1 DEF LiveIsKnown, StoredBy
      <3>2. QED
        BY <1>1, <2>1, <3>1 DEF HookIsInstalled, IsTop
    <2>2. CASE entry'[n] # entry[n]
      <3>1. n = m /\ entry'[n] = frame[t].installed_entry
        BY <1>1, <2>2 DEF TypeOK
      <3>2. StoredBy(t, n)'
        BY <1>1, <3>1 DEF StoredBy, TypeOK
      <3>3. QED
        BY <3>2
    <2>3. QED
      BY <2>1, <2>2
  <1>7. QED
    BY <1>3, <1>4, <1>5, <1>6

(* The push of install_hook() links the new record to the one it displaced.*)
LEMMA InvInstallVerify ==
    ASSUME IInv, TypeOK', NEW t \in Threads, InstallVerify(t)
    PROVE  IInv'
  <1> USE DEF IInv
  <1> DEFINE r == frame[t]
  <1>1. /\ pc[t] = "install_verify" /\ entry' = entry
        /\ pc' = [pc EXCEPT ![t] = "idle"]
        /\ hooks' = IF entry[r.target] = r.installed_entry
                    THEN Append(hooks, r) ELSE hooks
    BY DEF InstallVerify, Return
  <1>2. /\ r \in Record /\ hooks \in Seq(Record)
        /\ \A u \in Threads : pc'[u] = "idle"
    BY <1>1, LockExcludes DEF TypeOK
  <1>3. Linked(hooks)'
    <2>1. Linked(Append(hooks, r))
      BY <1>1, <1>2, AppendLinked DEF InstallDisplacesTop, InstallPC
    <2>2. CASE hooks' = Append(hooks, r)
      BY <2>1, <2>2, ZenonT(60) DEF Linked, NextBelow
    <2>3. CASE hooks' = hooks
      BY <2>3 DEF Linked, NextBelow
    <2>4. QED
      BY <1>1, <2>2, <2>3
  <1>4. InstallDisplacesTop' /\ RemovalIsOfTop'
    BY <1>2 DEF InstallDisplacesTop, RemovalIsOfTop, InstallPC, RemovePC
  <1>5. LiveIsKnown'
    <2> SUFFICES ASSUME NEW n \in Methods, entry[n] \in Trampolines
                 PROVE  HookIsInstalled(n)'
      BY <1>1 DEF LiveIsKnown
    <2>0. HookIsInstalled(n) \/ (n = r.target /\ entry[n] = r.installed_entry)
      BY <1>1, <1>2, LockExcludes DEF LiveIsKnown, StoredBy
    <2>1. CASE entry[r.target] # r.installed_entry
      BY <1>1, <2>0, <2>1 DEF HookIsInstalled, IsTop
    <2>2. CASE entry[r.target] = r.installed_entry /\ n = r.target
      <3>1. /\ IsTop(Append(hooks, r), Len(hooks) + 1, n)
            /\ Append(hooks, r)[Len(hooks) + 1] = r
        BY <1>2, <2>2, AppendTop, AppendProperties
      <3>2. Len(hooks) + 1 \in 1..Len(Append(hooks, r))
        BY <3>1 DEF IsTop
      <3>3. QED
        BY <1>1, <2>2, <3>1, <3>2 DEF HookIsInstalled, IsTop
    <2>3. CASE entry[r.target] = r.installed_entry /\ n # r.target
      <3>1. PICK i \in 1..Len(hooks) :
               IsTop(hooks, i, n) /\ entry[n] = hooks[i].installed_entry
        BY <2>0, <2>3 DEF HookIsInstalled
      <3>2. IsTop(Append(hooks, r), i, n) /\ Append(hooks, r)[i] = hooks[i]
        BY <1>2, <2>3, <3>1, AppendTop, AppendProperties
      <3>3. i \in 1..Len(Append(hooks, r))
        BY <3>2 DEF IsTop
      <3>4. QED
        BY <1>1, <2>3, <3>1, <3>2, <3>3 DEF HookIsInstalled, IsTop
    <2>4. QED
      BY <2>1, <2>2, <2>3
  <1>6. QED
    BY <1>3, <1>4, <1>5

(* A stale record can go: nothing recorded above it, nothing live below it.*)
LEMMA InvRemoveStale ==
    ASSUME IInv, TypeOK', NEW t \in Threads, NEW m \in Methods, RemoveStale(t, m)
    PROVE  IInv'
  <1> USE DEF IInv
  <1>1. PICK i \in 1..Len(hooks) :
           /\ IsTop(hooks, i, m)
           /\ entry[m] # hooks[i].installed_entry
           /\ hooks' = RemoveAt(hooks, i)
    BY DEF RemoveStale
  <1>2. /\ LockIsFree /\ entry' = entry /\ pc' = pc /\ frame' = frame
        /\ hooks \in Seq(Record)
        /\ \A u \in Threads : pc[u] = "idle"
    BY LockExcludes DEF RemoveStale, TypeOK
  <1>3. Linked(hooks)'
    <2>1. Linked(RemoveAt(hooks, i))
      BY <1>1, <1>2, RemoveLinked
    <2>2. QED
      BY <1>1, <2>1 DEF Linked, NextBelow
  <1>4. InstallDisplacesTop' /\ RemovalIsOfTop'
    BY <1>2 DEF InstallDisplacesTop, RemovalIsOfTop, InstallPC, RemovePC
  <1>5. LiveIsKnown'
    <2> SUFFICES ASSUME NEW n \in Methods, entry[n] \in Trampolines
                 PROVE  HookIsInstalled(n)'
      BY <1>2 DEF LiveIsKnown
    <2>1. PICK j \in 1..Len(hooks) :
             IsTop(hooks, j, n) /\ entry[n] = hooks[j].installed_entry
      BY <1>2 DEF LiveIsKnown, StoredBy, HookIsInstalled
    <2>2. n # m
      <3>1. SUFFICES ASSUME n = m
                     PROVE  FALSE
        OBVIOUS
      <3>2. i = j
        BY <1>1, <2>1, <3>1 DEF IsTop
      <3>3. QED
        BY <1>1, <2>1, <3>1, <3>2
    <2>3. \E k \in 1..Len(RemoveAt(hooks, i)) :
             IsTop(RemoveAt(hooks, i), k, n) /\ RemoveAt(hooks, i)[k] = hooks[j]
      BY <1>1, <1>2, <2>1, <2>2, RemoveOtherTop
    <2>4. QED
      BY <1>1, <1>2, <2>1, <2>3 DEF HookIsInstalled, IsTop
  <1>6. QED
    BY <1>3, <1>4, <1>5

(* remove_hook() taking the lock on a method whose top record is live.     *)
LEMMA InvRemoveCheck ==
    ASSUME IInv, TypeOK', NEW t \in Threads, NEW m \in Methods, RemoveCheck(t, m)
    PROVE  IInv'
  <1> USE DEF IInv
  <1>1. PICK i \in 1..Len(hooks) :
           /\ IsTop(hooks, i, m)
           /\ frame' = [frame EXCEPT ![t] = hooks[i]]
    BY DEF RemoveCheck, Enter
  <1>2. /\ LockIsFree /\ hooks' = hooks /\ entry' = entry
        /\ pc' = [pc EXCEPT ![t] = "remove_store"]
        /\ \A u \in Threads : pc[u] = "idle"
    BY LockExcludes DEF RemoveCheck, Enter
  <1>3. Linked(hooks)'
    BY <1>2 DEF Linked, NextBelow
  <1>4. InstallDisplacesTop'
    BY <1>2 DEF InstallDisplacesTop, InstallPC, TypeOK
  <1>5. RemovalIsOfTop'
    BY <1>1, <1>2 DEF RemovalIsOfTop, RemovePC, IsTop, TypeOK
  <1>6. LiveIsKnown'
    BY <1>2 DEF LiveIsKnown, StoredBy, HookIsInstalled, IsTop
  <1>7. QED
    BY <1>3, <1>4, <1>5, <1>6

(* The store of remove_hook(), taken or not, makes the next record live.   *)
LEMMA InvRemoveStore ==
    ASSUME IInv, TypeOK', NEW t \in Threads, RemoveStore(t)
    PROVE  IInv'
  <1> USE DEF IInv
  <1> DEFINE m == frame[t].target
  <1>1. /\ pc[t] = "remove_store" /\ hooks' = hooks /\ frame' = frame
        /\ pc' = [pc EXCEPT ![t] = "remove_verify"]
        /\ entry' \in {entry, [entry EXCEPT ![m] = frame[t].previous_entry]}
    BY DEF RemoveStore, Store, Goto
  <1>2. \A u \in Threads : u # t => pc[u] = "idle"
    BY <1>1, LockExcludes
  <1>3. Linked(hooks)'
    BY <1>1 DEF Linked, NextBelow
  <1>4. InstallDisplacesTop'
    BY <1>1, <1>2 DEF InstallDisplacesTop, InstallPC, TypeOK
  <1>5. RemovalIsOfTop'
    BY <1>1, <1>2 DEF RemovalIsOfTop, RemovePC, IsTop, TypeOK
  <1>6. LiveIsKnown'
    <2> SUFFICES ASSUME NEW n \in Methods, entry'[n] \in Trampolines
                 PROVE  HookIsInstalled(n)' \/ \E u \in Threads : StoredBy(u, n)'
      BY DEF LiveIsKnown
    <2>1. CASE entry'[n] = entry[n]
      <3>1. HookIsInstalled(n)
        BY <1>1, <1>2, <2>1 DEF LiveIsKnown, StoredBy
      <3>2. QED
        BY <1>1, <2>1, <3>1 DEF HookIsInstalled, IsTop
    <2>2. CASE entry'[n] # entry[n]
      <3>1. n = m /\ entry'[n] = frame[t].previous_entry
        BY <1>1, <2>2 DEF TypeOK
      <3>2. StoredBy(t, n)'
        BY <1>1, <3>1 DEF StoredBy, TypeOK
      <3>3. QED
        BY <3>2
    <2>3. QED
      BY <2>1, <2>2
  <1>7. QED
    BY <1>3, <1>4, <1>5, <1>6

(* The erase of remove_hook() takes out the record whose restore took.     *)
LEMMA InvRemoveVerify ==
    ASSUME IInv, TypeOK', NEW t \in Threads, RemoveVerify(t)
    PROVE  IInv'
  <1> USE DEF IInv
  <1> DEFINE r == frame[t]
             m == r.target
  <1>1. PICK i \in 1..Len(hooks) :
           /\ IsTop(hooks, i, m)
           /\ hooks' = IF entry[m] = r.previous_entry THEN RemoveAt(hooks, i) ELSE hooks
    BY DEF RemoveVerify
  <1>2. /\ pc[t] = "remove_verify" /\ entry' = entry
        /\ pc' = [pc EXCEPT ![t] = "idle"]
        /\ r \in Record /\ m \in Methods /\ hooks \in Seq(Record)
    BY RecordShape DEF RemoveVerify, Return, TypeOK
  <1>3. \A u \in Threads : pc'[u] = "idle"
    BY <1>2, LockExcludes DEF TypeOK
  <1>4. hooks[i] = r
    BY <1>1, <1>2 DEF RemovalIsOfTop, RemovePC, IsTop
  <1>5. Linked(hooks)'
    <2>1. Linked(RemoveAt(hooks, i))
      BY <1>1, <1>2, RemoveLinked
    <2>2. CASE hooks' = RemoveAt(hooks, i)
      BY <2>1, <2>2, ZenonT(60) DEF Linked, NextBelow
    <2>3. CASE hooks' = hooks
      BY <2>3 DEF Linked, NextBelow
    <2>4. QED
      BY <1>1, <2>2, <2>3
  <1>6. InstallDisplacesTop' /\ RemovalIsOfTop'
    BY <1>3 DEF InstallDisplacesTop, RemovalIsOfTop, InstallPC, RemovePC
  <1>7. LiveIsKnown'
    <2> SUFFICES ASSUME NEW n \in Methods, entry[n] \in Trampolines
                 PROVE  HookIsInstalled(n)'
      BY <1>2 DEF LiveIsKnown
    <2>0. HookIsInstalled(n) \/ (n = m /\ entry[n] = r.previous_entry)
      BY <1>2, LockExcludes DEF LiveIsKnown, StoredBy
    <2>1. CASE entry[m] # r.previous_entry
      BY <1>1, <1>2, <2>0, <2>1 DEF HookIsInstalled, IsTop
    <2>2. CASE entry[m] = r.previous_entry /\ n = m
      <3>1. PICK j \in 1..(i - 1) : /\ NextBelow(hooks, j, i)
                                    /\ hooks[j].installed_entry = r.previous_entry
        BY <1>4, <2>2 DEF Linked
      <3>2. /\ IsTop(RemoveAt(hooks, i), j, m)
            /\ RemoveAt(hooks, i)[j] = hooks[j]
        BY <1>1, <1>2, <3>1, RemoveOwnTop
      <3>3. QED
        BY <1>1, <1>2, <2>2, <3>1, <3>2 DEF HookIsInstalled, IsTop
    <2>3. CASE entry[m] = r.previous_entry /\ n # m
      <3>1. PICK j \in 1..Len(hooks) :
               IsTop(hooks, j, n) /\ entry[n] = hooks[j].installed_entry
        BY <2>0, <2>3 DEF HookIsInstalled
      <3>2. \E k \in 1..Len(RemoveAt(hooks, i)) :
               IsTop(RemoveAt(hooks, i), k, n) /\ RemoveAt(hooks, i)[k] = hooks[j]
        BY <1>1, <1>2, <2>3, <3>1, RemoveOtherTop
      <3>3. QED
        BY <1>1, <1>2, <2>3, <3>1, <3>2 DEF HookIsInstalled, IsTop
    <2>4. QED
      BY <2>1, <2>2, <2>3
  <1>8. QED
    BY <1>5, <1>6, <1>7

(* ART overwriting a slot, in a call or out of it, leaves code live there. *)
LEMMA InvArtWrites ==
    ASSUME IInv, TypeOK', NEW m \in Methods, NEW c \in Code, ArtWrites(m, c)
    PROVE  IInv'
  <1> USE DEF IInv
  <1>1. /\ hooks' = hooks /\ pc' = pc /\ frame' = frame
        /\ entry' = [entry EXCEPT ![m] = c] /\ c \notin Trampolines
    BY RegistryAssumption DEF ArtWrites
  <1>2. Linked(hooks)' /\ InstallDisplacesTop' /\ RemovalIsOfTop'
    BY <1>1 DEF Linked, NextBelow, InstallDisplacesTop, RemovalIsOfTop, IsTop
  <1>3. LiveIsKnown'
    <2> SUFFICES ASSUME NEW n \in Methods, entry'[n] \in Trampolines
                 PROVE  HookIsInstalled(n)' \/ \E u \in Threads : StoredBy(u, n)'
      BY DEF LiveIsKnown
    <2>1. entry'[n] = entry[n]
      BY <1>1 DEF TypeOK
    <2>2. QED
      BY <1>1, <2>1 DEF LiveIsKnown, HookIsInstalled, StoredBy, IsTop
  <1>4. QED
    BY <1>2, <1>3

(* The invariant is inductive.                                             *)
THEOREM InvariantHolds == Spec => []IInv
  <1>1. IInv /\ TypeOK' /\ [Next]_vars => IInv'
    <2> SUFFICES ASSUME IInv, TypeOK', [Next]_vars
                 PROVE  IInv'
      OBVIOUS
    <2>1. CASE \E t \in Threads : Call(t)
      BY <2>1, InvInstallRead, InvRemoveStale, InvRemoveCheck DEF Call
    <2>2. CASE \E t \in Threads : Proceed(t)
      BY <2>2, InvInstallStore, InvInstallVerify, InvRemoveStore, InvRemoveVerify
         DEF Proceed
    <2>3. CASE \E m \in Methods, c \in Code : ArtWrites(m, c)
      BY <2>3, InvArtWrites
    <2>4. CASE UNCHANGED vars
      BY <2>4 DEF vars, IInv, Linked, NextBelow, InstallDisplacesTop, RemovalIsOfTop,
                  LiveIsKnown, StoredBy, HookIsInstalled, IsTop
    <2>5. QED
      BY <2>1, <2>2, <2>3, <2>4 DEF Next
  <1>2. QED
    BY <1>1, InvInit, TypeCorrect, PTL DEF Spec

(* is_hooked() sees, and unhook_function() can take down, every trampoline *)
(* that is live once the calls that wrote it are over -- even with ART     *)
(* overwriting slots in the middle of them.                                *)
THEOREM LiveTrampolinesAreRecorded == Spec => []LiveTrampolineIsRecorded
  <1>1. IInv => LiveTrampolineIsRecorded
    BY LockExcludes DEF IInv, LiveIsKnown, StoredBy, LiveTrampolineIsRecorded
  <1>2. QED
    BY <1>1, InvariantHolds, PTL

(* Unwinding a chain of hooks never restores a trampoline whose record is  *)
(* gone, whatever order the chain was built and partly lost in.            *)
THEOREM ChainsUnwind == Spec => []DisplacedHookIsNextBelow
  <1>1. IInv => DisplacedHookIsNextBelow
    BY DEF IInv, DisplacedHookIsNextBelow
  <1>2. QED
    BY <1>1, InvariantHolds, PTL

-----------------------------------------------------------------------------
(* What the registry's lock alone buys when ART does not write into the    *)
(* middle of a call: taking every hook of a method down gives it back to   *)
(* ART, and no restore lands on anything but the hook being removed.       *)

\* The highest record of m in h that displaced code of ART's.
IsBase(h, i, m) ==
    /\ h[i].target = m
    /\ h[i].previous_entry \in Code
    /\ \A k \in (i + 1)..Len(h) : h[k].target = m => h[k].previous_entry \notin Code

\* Unwinding m's hooks from the top ends with c being put back.
UnwindsTo(h, m, c) ==
    \A i \in 1..Len(h) : IsBase(h, i, m) => h[i].previous_entry = c

(* A push keeps where a method's hooks unwind to, unless what it displaced *)
(* is code: then that is where they unwind to.                             *)
LEMMA AppendUnwinds ==
    ASSUME NEW h \in Seq(Record), NEW r \in Record, NEW m \in Methods, NEW c,
           \/ UnwindsTo(h, m, c) /\ (r.target # m \/ r.previous_entry \notin Code)
           \/ r.target = m /\ r.previous_entry \in Code /\ r.previous_entry = c
    PROVE  UnwindsTo(Append(h, r), m, c)
  <1> DEFINE g == Append(h, r)
  <1>1. /\ Len(g) = Len(h) + 1
        /\ \A k \in 1..Len(h) : g[k] = h[k]
        /\ g[Len(h) + 1] = r
        /\ Len(h) \in Nat
    BY AppendProperties
  <1> SUFFICES ASSUME NEW i \in 1..Len(g), IsBase(g, i, m)
               PROVE  g[i].previous_entry = c
    BY DEF UnwindsTo
  <1> HIDE DEF g
  <1>2. CASE i = Len(h) + 1
    BY <1>1, <1>2 DEF IsBase
  <1>3. CASE i \in 1..Len(h)
    <2>1. r.target # m \/ r.previous_entry \notin Code
      BY <1>1, <1>3 DEF IsBase
    <2>2. IsBase(h, i, m)
      BY <1>1, <1>3 DEF IsBase
    <2>3. QED
      BY <1>1, <1>3, <2>1, <2>2 DEF UnwindsTo
  <1>4. QED
    BY <1>1, <1>2, <1>3

(* Taking out a method's top record keeps where the others' hooks unwind   *)
(* to, and where its own do if it had displaced a hook.                    *)
LEMMA RemoveUnwinds ==
    ASSUME NEW h \in Seq(Record), NEW n \in Methods, NEW i \in 1..Len(h), IsTop(h, i, n),
           NEW m \in Methods, NEW c, UnwindsTo(h, m, c),
           m # n \/ h[i].previous_entry \notin Code
    PROVE  UnwindsTo(RemoveAt(h, i), m, c)
  <1> DEFINE g == RemoveAt(h, i)
             Old(l) == IF l < i THEN l ELSE l + 1
  <1>0. Len(h) \in Nat
    OBVIOUS
  <1>1. /\ Len(g) = Len(h) - 1
        /\ \A l \in 1..(Len(h) - 1) : g[l] = h[Old(l)]
    BY RemoveAtElements
  <1> SUFFICES ASSUME NEW k \in 1..Len(g), IsBase(g, k, m)
               PROVE  g[k].previous_entry = c
    BY DEF UnwindsTo
  <1> HIDE DEF g
  <1>2. Old(k) \in 1..Len(h) /\ g[k] = h[Old(k)]
    BY <1>0, <1>1
  <1>3. ASSUME NEW l \in (Old(k) + 1)..Len(h), h[l].target = m
        PROVE  h[l].previous_entry \notin Code
    <2>1. CASE l = i
      BY <1>3, <2>1 DEF IsTop
    <2>2. CASE l < i
      <3>1. l \in (k + 1)..Len(g) /\ g[l] = h[l]
        BY <1>0, <1>1, <1>3, <2>2
      <3>2. QED
        BY <1>3, <3>1 DEF IsBase
    <2>3. CASE l > i
      <3>1. l - 1 \in (k + 1)..Len(g) /\ g[l - 1] = h[l]
        BY <1>0, <1>1, <1>3, <2>3
      <3>2. QED
        BY <1>3, <3>1 DEF IsBase
    <2>4. QED
      BY <1>0, <1>2, <2>1, <2>2, <2>3
  <1>4. IsBase(h, Old(k), m)
    BY <1>2, <1>3 DEF IsBase
  <1>5. QED
    BY <1>2, <1>4 DEF UnwindsTo

-----------------------------------------------------------------------------
(* The inductive invariant of the quiet registry, on top of IInv.          *)

\* Code that is live is what ART last chose.
RunsArtCode == \A m \in Methods : entry[m] \in Code => entry[m] = artCode[m]

\* An install whose store landed and whose record, which displaced code, is
\* still to be pushed.
DisplacedCode(t, m) ==
    /\ pc[t] = "install_verify"
    /\ frame[t].target = m
    /\ frame[t].previous_entry \in Code

\* While a hook is live, unwinding ends at what ART last chose.
HooksUnwindToArtCode ==
    \A m \in Methods :
        entry[m] \in Trampolines =>
            UnwindsTo(hooks, m, artCode[m]) \/ \E t \in Threads : DisplacedCode(t, m)

\* A call in progress finds the slot as it left it.
CallsOwnTheirSlot ==
    \A t \in Threads :
        LET m == frame[t].target
        IN  /\ pc[t] \in InstallPC /\ frame[t].previous_entry \in Code =>
                  frame[t].previous_entry = artCode[m]
            /\ pc[t] = "install_store" => entry[m] = frame[t].previous_entry
            /\ pc[t] = "install_verify" =>
                  entry[m] \in {frame[t].previous_entry, frame[t].installed_entry}
            /\ pc[t] = "remove_store" => entry[m] = frame[t].installed_entry

Quiet == RunsArtCode /\ HooksUnwindToArtCode /\ CallsOwnTheirSlot

(* ART's code is what every method runs before the first hook.             *)
LEMMA QuietInit == Init => Quiet
  BY RegistryAssumption
     DEF Init, Quiet, RunsArtCode, HooksUnwindToArtCode, DisplacedCode, CallsOwnTheirSlot,
         InstallPC, UnwindsTo

(* install_hook() taking the lock: what it reads is ART's code, or a hook. *)
LEMMA QuietInstallRead ==
    ASSUME IInv, Quiet, TypeOK', NEW t \in Threads, NEW m \in Methods, NEW x \in Trampolines,
           InstallRead(t, m, x)
    PROVE  Quiet'
  <1> USE DEF Quiet
  <1>1. /\ hooks' = hooks /\ entry' = entry /\ artCode' = artCode
        /\ pc' = [pc EXCEPT ![t] = "install_store"]
        /\ frame' = [frame EXCEPT ![t] =
              [target |-> m, previous_entry |-> entry[m], installed_entry |-> x]]
        /\ TypeOK
        /\ \A u \in Threads : pc[u] = "idle"
    BY LockExcludes DEF InstallRead, Enter, IInv
  <1>2. RunsArtCode'
    BY <1>1 DEF RunsArtCode
  <1>3. HooksUnwindToArtCode'
    BY <1>1 DEF HooksUnwindToArtCode, DisplacedCode, UnwindsTo, IsBase
  <1>4. CallsOwnTheirSlot'
    BY <1>1 DEF CallsOwnTheirSlot, InstallPC, RunsArtCode, TypeOK
  <1>5. QED
    BY <1>2, <1>3, <1>4

(* The store of install_hook() covers ART's code, or a hook, with its own. *)
LEMMA QuietInstallStore ==
    ASSUME IInv, Quiet, TypeOK', NEW t \in Threads, InstallStore(t)
    PROVE  Quiet'
  <1> USE DEF Quiet
  <1> DEFINE m == frame[t].target
             x == frame[t].installed_entry
  <1>1. /\ pc[t] = "install_store" /\ hooks' = hooks /\ frame' = frame
        /\ artCode' = artCode
        /\ pc' = [pc EXCEPT ![t] = "install_verify"]
        /\ entry' \in {entry, [entry EXCEPT ![m] = x]}
    BY DEF InstallStore, Store, Goto
  <1>2. /\ TypeOK /\ frame[t] \in Record /\ m \in Methods /\ x \in Trampolines
        /\ \A u \in Threads : u # t => pc[u] = "idle"
    BY <1>1, LockExcludes, RecordShape DEF TypeOK, IInv
  <1>3. x \notin Code
    BY <1>2, RegistryAssumption
  <1>4. entry[m] = frame[t].previous_entry /\ frame[t].previous_entry \in Code \cup Trampolines
    BY <1>1, <1>2, RecordShape DEF CallsOwnTheirSlot
  <1>5. \A n \in Methods : entry'[n] = entry[n] \/ (n = m /\ entry'[n] = x)
    BY <1>1, <1>2 DEF TypeOK
  <1>6. RunsArtCode'
    BY <1>1, <1>3, <1>5 DEF RunsArtCode
  <1>7. HooksUnwindToArtCode'
    <2> SUFFICES ASSUME NEW n \in Methods, entry'[n] \in Trampolines
                 PROVE  \/ UnwindsTo(hooks, n, artCode[n])
                        \/ \E u \in Threads : DisplacedCode(u, n)'
      BY <1>1 DEF HooksUnwindToArtCode, UnwindsTo, IsBase
    <2>1. CASE entry[n] \in Trampolines
      BY <1>1, <1>2, <2>1 DEF HooksUnwindToArtCode, DisplacedCode
    <2>2. CASE entry[n] \notin Trampolines
      <3>1. n = m /\ frame[t].previous_entry \in Code
        BY <1>4, <1>5, <2>2
      <3>2. DisplacedCode(t, n)'
        BY <1>1, <1>2, <3>1 DEF DisplacedCode, TypeOK
      <3>3. QED
        BY <3>2
    <2>3. QED
      BY <2>1, <2>2
  <1>8. CallsOwnTheirSlot'
    BY <1>1, <1>2, <1>4, <1>5 DEF CallsOwnTheirSlot, InstallPC, TypeOK
  <1>9. QED
    BY <1>6, <1>7, <1>8

(* The push of install_hook() makes what it displaced what unwinding ends  *)
(* at, if that is code.                                                    *)
LEMMA QuietInstallVerify ==
    ASSUME IInv, Quiet, TypeOK', NEW t \in Threads, InstallVerify(t)
    PROVE  Quiet'
  <1> USE DEF Quiet
  <1> DEFINE r == frame[t]
  <1>1. /\ pc[t] = "install_verify" /\ entry' = entry /\ artCode' = artCode
        /\ pc' = [pc EXCEPT ![t] = "idle"]
        /\ hooks' = IF entry[r.target] = r.installed_entry
                    THEN Append(hooks, r) ELSE hooks
    BY DEF InstallVerify, Return
  <1>2. /\ r \in Record /\ hooks \in Seq(Record) /\ r.target \in Methods
        /\ \A u \in Threads : pc'[u] = "idle"
        /\ \A u \in Threads : u # t => pc[u] = "idle"
    BY <1>1, LockExcludes, RecordShape DEF TypeOK, IInv
  <1>3. RunsArtCode'
    BY <1>1 DEF RunsArtCode
  <1>4. ASSUME NEW n \in Methods, entry[n] \in Trampolines
        PROVE  UnwindsTo(hooks', n, artCode[n])
    <2>1. \/ UnwindsTo(hooks, n, artCode[n])
          \/ r.target = n /\ r.previous_entry \in Code
      BY <1>2, <1>4 DEF HooksUnwindToArtCode, DisplacedCode
    <2>2. r.previous_entry \in Code => r.previous_entry = artCode[r.target]
      BY <1>1 DEF CallsOwnTheirSlot, InstallPC
    <2>3. CASE entry[r.target] = r.installed_entry
      BY <1>1, <1>2, <2>1, <2>2, <2>3, AppendUnwinds
    <2>4. CASE entry[r.target] # r.installed_entry
      <3>1. entry[r.target] = r.previous_entry
        BY <1>1, <2>4 DEF CallsOwnTheirSlot
      <3>2. UnwindsTo(hooks, n, artCode[n])
        BY <1>4, <2>1, <3>1, RegistryAssumption
      <3>3. QED
        BY <1>1, <2>4, <3>2
    <2>5. QED
      BY <2>3, <2>4
  <1>5. HooksUnwindToArtCode'
    BY <1>1, <1>4 DEF HooksUnwindToArtCode, UnwindsTo, IsBase
  <1>6. CallsOwnTheirSlot'
    BY <1>2 DEF CallsOwnTheirSlot, InstallPC
  <1>7. QED
    BY <1>3, <1>5, <1>6

(* A stale record belongs to a method that runs ART's code.                *)
LEMMA QuietRemoveStale ==
    ASSUME IInv, Quiet, TypeOK', NEW t \in Threads, NEW m \in Methods, RemoveStale(t, m)
    PROVE  Quiet'
  <1> USE DEF Quiet
  <1>1. PICK i \in 1..Len(hooks) :
           /\ IsTop(hooks, i, m)
           /\ entry[m] # hooks[i].installed_entry
           /\ hooks' = RemoveAt(hooks, i)
    BY DEF RemoveStale
  <1>2. /\ entry' = entry /\ artCode' = artCode /\ pc' = pc /\ frame' = frame
        /\ hooks \in Seq(Record)
        /\ \A u \in Threads : pc[u] = "idle"
    BY LockExcludes DEF RemoveStale, TypeOK, IInv
  <1>3. RunsArtCode' /\ CallsOwnTheirSlot'
    BY <1>2 DEF RunsArtCode, CallsOwnTheirSlot
  <1>4. ASSUME NEW n \in Methods, entry[n] \in Trampolines
        PROVE  UnwindsTo(hooks', n, artCode[n])
    <2>1. PICK j \in 1..Len(hooks) :
             IsTop(hooks, j, n) /\ entry[n] = hooks[j].installed_entry
      BY <1>2, <1>4 DEF IInv, LiveIsKnown, StoredBy, HookIsInstalled
    <2>2. n # m
      <3>1. SUFFICES ASSUME n = m
                     PROVE  FALSE
        OBVIOUS
      <3>2. i = j
        BY <1>1, <2>1, <3>1 DEF IsTop
      <3>3. QED
        BY <1>1, <2>1, <3>1, <3>2
    <2>3. UnwindsTo(hooks, n, artCode[n])
      BY <1>2, <1>4 DEF HooksUnwindToArtCode, DisplacedCode
    <2>4. QED
      BY <1>1, <1>2, <2>2, <2>3, RemoveUnwinds
  <1>5. HooksUnwindToArtCode'
    BY <1>2, <1>4 DEF HooksUnwindToArtCode, UnwindsTo, IsBase
  <1>6. QED
    BY <1>3, <1>5

(* remove_hook() taking the lock finds its own trampoline in the slot.     *)
LEMMA QuietRemoveCheck ==
    ASSUME IInv, Quiet, TypeOK', NEW t \in Threads, NEW m \in Methods, RemoveCheck(t, m)
    PROVE  Quiet'
  <1> USE DEF Quiet
  <1>1. PICK i \in 1..Len(hooks) :
           /\ IsTop(hooks, i, m)
           /\ entry[m] = hooks[i].installed_entry
           /\ frame' = [frame EXCEPT ![t] = hooks[i]]
    BY DEF RemoveCheck, Enter
  <1>2. /\ hooks' = hooks /\ entry' = entry /\ artCode' = artCode
        /\ pc' = [pc EXCEPT ![t] = "remove_store"]
        /\ TypeOK
        /\ \A u \in Threads : pc[u] = "idle"
    BY LockExcludes DEF RemoveCheck, Enter, IInv
  <1>3. RunsArtCode'
    BY <1>2 DEF RunsArtCode
  <1>4. HooksUnwindToArtCode'
    BY <1>2 DEF HooksUnwindToArtCode, DisplacedCode, UnwindsTo, IsBase
  <1>5. CallsOwnTheirSlot'
    BY <1>1, <1>2 DEF CallsOwnTheirSlot, InstallPC, IsTop, TypeOK
  <1>6. QED
    BY <1>3, <1>4, <1>5

(* The store of remove_hook() puts back ART's code, or the hook below.     *)
LEMMA QuietRemoveStore ==
    ASSUME IInv, Quiet, TypeOK', NEW t \in Threads, RemoveStore(t)
    PROVE  Quiet'
  <1> USE DEF Quiet
  <1> DEFINE m == frame[t].target
             p == frame[t].previous_entry
  <1>1. /\ pc[t] = "remove_store" /\ hooks' = hooks /\ frame' = frame
        /\ artCode' = artCode
        /\ pc' = [pc EXCEPT ![t] = "remove_verify"]
        /\ entry' \in {entry, [entry EXCEPT ![m] = p]}
    BY DEF RemoveStore, Store, Goto
  <1>2. /\ TypeOK /\ frame[t] \in Record /\ m \in Methods
        /\ \A u \in Threads : u # t => pc[u] = "idle"
    BY <1>1, LockExcludes, RecordShape DEF TypeOK, IInv
  <1>3. PICK i \in 1..Len(hooks) : IsTop(hooks, i, m) /\ hooks[i] = frame[t]
    BY <1>1 DEF IInv, RemovalIsOfTop, RemovePC
  <1>4. entry[m] \in Trampolines
    BY <1>1, <1>2, RecordShape DEF CallsOwnTheirSlot
  <1>5. \A n \in Methods : entry[n] \in Trampolines => UnwindsTo(hooks, n, artCode[n])
    BY <1>1, <1>2 DEF HooksUnwindToArtCode, DisplacedCode
  <1>6. p \in Code => p = artCode[m]
    <2>1. p \in Code => IsBase(hooks, i, m)
      BY <1>3 DEF IsBase, IsTop
    <2>2. QED
      BY <1>2, <1>3, <1>4, <1>5, <2>1 DEF UnwindsTo
  <1>7. \A n \in Methods : entry'[n] = entry[n] \/ (n = m /\ entry'[n] = p)
    BY <1>1, <1>2 DEF TypeOK
  <1>8. RunsArtCode'
    BY <1>1, <1>6, <1>7 DEF RunsArtCode
  <1>9. HooksUnwindToArtCode'
    BY <1>1, <1>4, <1>5, <1>7 DEF HooksUnwindToArtCode, UnwindsTo, IsBase
  <1>10. CallsOwnTheirSlot'
    BY <1>1, <1>2 DEF CallsOwnTheirSlot, InstallPC, TypeOK
  <1>11. QED
    BY <1>8, <1>9, <1>10

(* The erase of remove_hook() takes out a record that displaced a hook, or *)
(* one of a method that runs ART's code again.                             *)
LEMMA QuietRemoveVerify ==
    ASSUME IInv, Quiet, TypeOK', NEW t \in Threads, RemoveVerify(t)
    PROVE  Quiet'
  <1> USE DEF Quiet
  <1> DEFINE r == frame[t]
             m == r.target
  <1>1. PICK i \in 1..Len(hooks) :
           /\ IsTop(hooks, i, m)
           /\ hooks' = IF entry[m] = r.previous_entry THEN RemoveAt(hooks, i) ELSE hooks
    BY DEF RemoveVerify
  <1>2. /\ pc[t] = "remove_verify" /\ entry' = entry /\ artCode' = artCode
        /\ pc' = [pc EXCEPT ![t] = "idle"]
        /\ r \in Record /\ m \in Methods /\ hooks \in Seq(Record)
    BY RecordShape DEF RemoveVerify, Return, TypeOK, IInv
  <1>3. /\ \A u \in Threads : pc'[u] = "idle"
        /\ \A u \in Threads : u # t => pc[u] = "idle"
    BY <1>2, LockExcludes DEF TypeOK, IInv
  <1>4. hooks[i] = r
    BY <1>1, <1>2 DEF IInv, RemovalIsOfTop, RemovePC, IsTop
  <1>5. RunsArtCode'
    BY <1>2 DEF RunsArtCode
  <1>6. ASSUME NEW n \in Methods, entry[n] \in Trampolines
        PROVE  UnwindsTo(hooks', n, artCode[n])
    <2>1. UnwindsTo(hooks, n, artCode[n])
      BY <1>2, <1>3, <1>6 DEF HooksUnwindToArtCode, DisplacedCode
    <2>2. CASE entry[m] # r.previous_entry
      BY <1>1, <2>1, <2>2
    <2>3. CASE entry[m] = r.previous_entry
      <3>1. n # m \/ hooks[i].previous_entry \notin Code
        BY <1>4, <1>6, <2>3, RegistryAssumption
      <3>2. QED
        BY <1>1, <1>2, <2>1, <2>3, <3>1, RemoveUnwinds
    <2>4. QED
      BY <2>2, <2>3
  <1>7. HooksUnwindToArtCode'
    BY <1>2, <1>6 DEF HooksUnwindToArtCode, UnwindsTo, IsBase
  <1>8. CallsOwnTheirSlot'
    BY <1>3 DEF CallsOwnTheirSlot, InstallPC
  <1>9. QED
    BY <1>5, <1>7, <1>8

(* ART writing a slot between calls: that is its choice from then on.      *)
LEMMA QuietArtWrites ==
    ASSUME IInv, Quiet, TypeOK', ~ArtRaces, NEW m \in Methods, NEW c \in Code,
           ArtWrites(m, c)
    PROVE  Quiet'
  <1> USE DEF Quiet
  <1>1. /\ hooks' = hooks /\ pc' = pc /\ frame' = frame
        /\ entry' = [entry EXCEPT ![m] = c] /\ artCode' = [artCode EXCEPT ![m] = c]
        /\ c \notin Trampolines
        /\ TypeOK
        /\ \A u \in Threads : pc[u] = "idle"
    BY RegistryAssumption, LockExcludes DEF ArtWrites, IInv
  <1>2. RunsArtCode'
    BY <1>1 DEF RunsArtCode, TypeOK
  <1>3. HooksUnwindToArtCode'
    <2> SUFFICES ASSUME NEW n \in Methods, entry'[n] \in Trampolines
                 PROVE  UnwindsTo(hooks, n, artCode'[n])
      BY <1>1 DEF HooksUnwindToArtCode, UnwindsTo, IsBase
    <2>1. n # m /\ entry'[n] = entry[n] /\ artCode'[n] = artCode[n]
      BY <1>1 DEF TypeOK
    <2>2. QED
      BY <1>1, <2>1 DEF HooksUnwindToArtCode, DisplacedCode
  <1>4. CallsOwnTheirSlot'
    BY <1>1 DEF CallsOwnTheirSlot, InstallPC
  <1>5. QED
    BY <1>2, <1>3, <1>4

(* The invariant is inductive when ART keeps out of the calls.             *)
THEOREM QuietHolds == ASSUME ~ArtRaces PROVE Spec => []Quiet
  <1>1. IInv /\ Quiet /\ TypeOK' /\ [Next]_vars => Quiet'
    <2> SUFFICES ASSUME IInv, Quiet, TypeOK', [Next]_vars
                 PROVE  Quiet'
      OBVIOUS
    <2>1. CASE \E t \in Threads : Call(t)
      BY <2>1, QuietInstallRead, QuietRemoveStale, QuietRemoveCheck DEF Call
    <2>2. CASE \E t \in Threads : Proceed(t)
      BY <2>2, QuietInstallStore, QuietInstallVerify, QuietRemoveStore, QuietRemoveVerify
         DEF Proceed
    <2>3. CASE \E m \in Methods, c \in Code : ArtWrites(m, c)
      BY <2>3, QuietArtWrites
    <2>4. CASE UNCHANGED vars
      BY <2>4 DEF vars, Quiet, RunsArtCode, HooksUnwindToArtCode, DisplacedCode,
                  CallsOwnTheirSlot, UnwindsTo, IsBase
    <2>5. QED
      BY <2>1, <2>2, <2>3, <2>4 DEF Next
  <1>2. QED
    BY <1>1, QuietInit, InvariantHolds, TypeCorrect, PTL DEF Spec

(* A method whose hooks have all been taken down runs what ART last chose  *)
(* for it, however many there were and whatever ART did between the calls. *)
THEOREM UnhookingGivesBack == ASSUME ~ArtRaces PROVE Spec => []UnhookedRunsArtCode
  <1>1. IInv /\ Quiet => UnhookedRunsArtCode
    <2> SUFFICES ASSUME IInv, Quiet, LockIsFree, NEW m \in Methods, ~Recorded(m)
                 PROVE  entry[m] = artCode[m]
      BY DEF UnhookedRunsArtCode
    <2>1. ~HookIsInstalled(m)
      BY DEF HookIsInstalled, Recorded, IsTop
    <2>2. entry[m] \notin Trampolines
      BY <2>1, LockExcludes DEF IInv, LiveIsKnown, StoredBy
    <2>3. entry[m] \in Code
      BY <2>2 DEF IInv, TypeOK, EntryPoint
    <2>4. QED
      BY <2>3 DEF Quiet, RunsArtCode
  <1>2. QED
    BY <1>1, QuietHolds, InvariantHolds, PTL

(* A restore lands on the trampoline of the hook being removed: the check  *)
(* that precedes it still holds when it does.                              *)
THEOREM RestoresAreChecked == ASSUME ~ArtRaces PROVE Spec => RestoresOnlyOverOwnTrampoline
  <1> DEFINE Checked == \A t \in Threads :
          pc[t] = "remove_store" /\ pc'[t] = "remove_verify" /\ entry' # entry =>
              entry[frame[t].target] = frame[t].installed_entry
  <1>1. Quiet => Checked
    BY DEF Quiet, CallsOwnTheirSlot
  <1>2. Quiet /\ [Next]_vars => [Checked]_vars
    BY <1>1
  <1>3. RestoresOnlyOverOwnTrampoline <=> [][Checked]_vars
    BY DEF RestoresOnlyOverOwnTrampoline
  <1> HIDE DEF Checked
  <1>4. QED
    BY <1>2, <1>3, QuietHolds, PTL DEF Spec

-----------------------------------------------------------------------------
(* The chain of a method in a vector of records.                           *)

(* A set of numbers has a least one, so what holds of 0 and passes from    *)
(* each number to the next holds up to the bound.                          *)
LEMMA HoldsUpTo ==
    ASSUME NEW n \in Nat, NEW good, good \subseteq 0..n, 0 \in good,
           \A k \in good : k + 1 <= n => k + 1 \in good
    PROVE  good = 0..n
  <1> DEFINE bad == (0..n) \ good
  <1> SUFFICES ASSUME bad # {}
               PROVE  FALSE
    OBVIOUS
  <1>1. bad \subseteq Nat
    OBVIOUS
  <1>2. PICK k \in bad : \A j \in bad : ~(<<j, k>> \in OpToRel(<, Nat))
    <2> HIDE DEF bad
    <2>1. QED
      BY <1>1, NatLessThanWellFounded, WFMin
  <1>3. k # 0 /\ k - 1 \in 0..n /\ <<k - 1, k>> \in OpToRel(<, Nat)
    BY <1>2 DEF OpToRel
  <1>4. k - 1 \notin bad
    <2> HIDE DEF bad
    <2>1. QED
      BY <1>2, <1>3
  <1>5. k \in 0..n /\ k \notin good /\ (k - 1) + 1 = k /\ k <= n
    OBVIOUS
  <1>6. k - 1 \in good
    BY <1>3, <1>4
  <1>7. QED
    <2> HIDE DEF bad
    <2>1. QED
      BY <1>5, <1>6

\* One more record on the chain of method m.
Grow(h, m, k, below) == IF h[k].target = m THEN Append(below, Layer(h[k])) ELSE below

\* The chains of m in the first records of h, as a function.
Chains(h, m, n, f) == f = [k \in 0..n |-> IF k = 0 THEN <<>> ELSE Grow(h, m, k, f[k - 1])]

(* There are such chains, up to every number of records.                   *)
LEMMA ChainsExist ==
    ASSUME NEW h, NEW m, NEW n \in Nat
    PROVE  \E f : Chains(h, m, n, f)
  <1> DEFINE good == {k \in 0..n : \E f : Chains(h, m, k, f)}
  <1>1. 0 \in good
    <2> DEFINE f == [j \in 0..0 |-> <<>>]
    <2>1. f = [j \in 0..0 |-> IF j = 0 THEN <<>> ELSE Grow(h, m, j, f[j - 1])]
      <3> HIDE DEF Grow
      <3>1. QED
        OBVIOUS
    <2>2. Chains(h, m, 0, f)
      BY <2>1 DEF Chains
    <2>3. QED
      BY <2>2
  <1>2. ASSUME NEW k \in good, k + 1 <= n
        PROVE  k + 1 \in good
    <2>1. PICK f : Chains(h, m, k, f)
      BY <1>2
    <2>2. k \in Nat /\ k + 1 \in 0..n
      BY <1>2
    <2> DEFINE c(j) == IF j = 0 THEN <<>> ELSE Grow(h, m, j, f[j - 1])
               g == [j \in 0..(k + 1) |-> c(j)]
    <2>3. \A j \in 0..k : f[j] = c(j)
      <3>1. f = [j \in 0..k |-> c(j)]
        BY <2>1 DEF Chains
      <3> HIDE DEF c
      <3>2. QED
        BY <3>1
    <2>4. \A j \in 0..(k + 1) : j # 0 => g[j - 1] = f[j - 1]
      <3> SUFFICES ASSUME NEW j \in 0..(k + 1), j # 0
                   PROVE  g[j - 1] = f[j - 1]
        OBVIOUS
      <3>1. j - 1 \in 0..k /\ j - 1 \in 0..(k + 1)
        BY <2>2
      <3>2. g[j - 1] = c(j - 1)
        <4> HIDE DEF c
        <4>1. QED
          BY <3>1
      <3>3. QED
        <4> HIDE DEF c, g
        <4>1. QED
          BY <2>3, <3>1, <3>2
    <2>5. g = [j \in 0..(k + 1) |-> IF j = 0 THEN <<>> ELSE Grow(h, m, j, g[j - 1])]
      BY <2>4
    <2> HIDE DEF g
    <2>6. Chains(h, m, k + 1, g)
      BY <2>5 DEF Chains
    <2>7. QED
      BY <2>2, <2>6
  <1>3. good = 0..n
    <2>1. good \subseteq 0..n
      OBVIOUS
    <2> HIDE DEF good
    <2>2. QED
      BY <1>1, <1>2, <2>1, HoldsUpTo
  <1>4. QED
    BY <1>3

(* ChainsIn is them.                                                       *)
LEMMA ChainSteps ==
    ASSUME NEW h, Len(h) \in Nat, NEW m
    PROVE  /\ ChainsIn(h, m)[0] = <<>>
           /\ \A k \in 1..Len(h) : ChainsIn(h, m)[k] = Grow(h, m, k, ChainsIn(h, m)[k - 1])
  <1>1. \E f : Chains(h, m, Len(h), f)
    BY ChainsExist
  <1>2. ChainsIn(h, m) = CHOOSE f : Chains(h, m, Len(h), f)
    BY DEF ChainsIn, Chains, Grow
  <1>3. Chains(h, m, Len(h), ChainsIn(h, m))
    BY <1>1, <1>2
  <1>4. PICK f : f = ChainsIn(h, m)
    OBVIOUS
  <1> DEFINE c(j) == IF j = 0 THEN <<>> ELSE Grow(h, m, j, f[j - 1])
  <1>5. f = [j \in 0..Len(h) |-> c(j)]
    BY <1>3, <1>4 DEF Chains
  <1>6. \A j \in 0..Len(h) : f[j] = c(j)
    <2> HIDE DEF c
    <2>1. QED
      BY <1>5
  <1>7. 0 \in 0..Len(h) /\ \A k \in 1..Len(h) : k \in 0..Len(h) /\ k # 0
    OBVIOUS
  <1>8. QED
    BY <1>4, <1>6, <1>7

(* They are sequences of layers, those of the vector's records.            *)
LEMMA ChainTypes ==
    ASSUME NEW h \in Seq(Record), NEW m, NEW k \in 0..Len(h)
    PROVE  ChainsIn(h, m)[k] \in Seq({Layer(h[j]) : j \in 1..Len(h)})
  <1> DEFINE S == {Layer(h[j]) : j \in 1..Len(h)}
             good == {l \in 0..Len(h) : ChainsIn(h, m)[l] \in Seq(S)}
  <1>1. Len(h) \in Nat
    OBVIOUS
  <1>2. 0 \in good
    <2>1. <<>> \in Seq(S) /\ 0 \in 0..Len(h)
      BY <1>1
    <2>2. ChainsIn(h, m)[0] = <<>>
      BY <1>1, ChainSteps
    <2>3. QED
      BY <2>1, <2>2
  <1>3. ASSUME NEW l \in good, l + 1 <= Len(h)
        PROVE  l + 1 \in good
    <2>1. l + 1 \in 1..Len(h) /\ l + 1 \in 0..Len(h) /\ (l + 1) - 1 = l
      BY <1>1, <1>3
    <2>2. ChainsIn(h, m)[l + 1] = Grow(h, m, l + 1, ChainsIn(h, m)[l])
      BY <1>1, <2>1, ChainSteps
    <2>3. Layer(h[l + 1]) \in S
      BY <2>1
    <2>4. ChainsIn(h, m)[l] \in Seq(S)
      BY <1>3
    <2>5. ChainsIn(h, m)[l + 1] \in Seq(S)
      <3> HIDE DEF S
      <3>1. QED
        BY <2>2, <2>3, <2>4, AppendProperties DEF Grow
    <2>6. QED
      BY <2>1, <2>5
  <1>4. good = 0..Len(h)
    <2>1. good \subseteq 0..Len(h)
      OBVIOUS
    <2> HIDE DEF good
    <2>2. QED
      BY <1>1, <1>2, <1>3, <2>1, HoldsUpTo
  <1>5. QED
    BY <1>4

\* The n records of g above the a-th are the n records of h above the b-th.
SameAbove(g, a, h, b, n) ==
    /\ a \in 0..Len(g) /\ b \in 0..Len(h) /\ n \in Nat
    /\ a + n <= Len(g) /\ b + n <= Len(h)
    /\ \A k \in 1..n : g[a + k] = h[b + k]

(* Equal chains stay equal through equal records.                          *)
LEMMA ChainsAgree ==
    ASSUME NEW g \in Seq(Record), NEW h \in Seq(Record), NEW m,
           NEW a \in Nat, NEW b \in Nat, NEW n \in Nat, SameAbove(g, a, h, b, n),
           ChainsIn(g, m)[a] = ChainsIn(h, m)[b]
    PROVE  ChainsIn(g, m)[a + n] = ChainsIn(h, m)[b + n]
  <1> DEFINE good == {k \in 0..n : ChainsIn(g, m)[a + k] = ChainsIn(h, m)[b + k]}
  <1>1. /\ Len(g) \in Nat /\ Len(h) \in Nat
        /\ a \in 0..Len(g) /\ b \in 0..Len(h) /\ n \in Nat
        /\ a + n <= Len(g) /\ b + n <= Len(h)
    BY DEF SameAbove
  <1>2. 0 \in good
    BY <1>1
  <1>3. ASSUME NEW k \in good, k + 1 <= n
        PROVE  k + 1 \in good
    <2>1. /\ k + 1 \in 0..n /\ k + 1 \in 1..n
          /\ a + (k + 1) \in 1..Len(g) /\ b + (k + 1) \in 1..Len(h)
          /\ (a + (k + 1)) - 1 = a + k /\ (b + (k + 1)) - 1 = b + k
      BY <1>1, <1>3
    <2>2. ChainsIn(g, m)[a + (k + 1)] = Grow(g, m, a + (k + 1), ChainsIn(g, m)[a + k])
      BY <1>1, <2>1, ChainSteps, SMTT(30)
    <2>3. ChainsIn(h, m)[b + (k + 1)] = Grow(h, m, b + (k + 1), ChainsIn(h, m)[b + k])
      BY <1>1, <2>1, ChainSteps
    <2>4. g[a + (k + 1)] = h[b + (k + 1)]
      BY <2>1 DEF SameAbove
    <2>5. ChainsIn(g, m)[a + k] = ChainsIn(h, m)[b + k]
      BY <1>3
    <2>6. ChainsIn(g, m)[a + (k + 1)] = ChainsIn(h, m)[b + (k + 1)]
      BY <2>2, <2>3, <2>4, <2>5 DEF Grow
    <2>7. QED
      BY <2>1, <2>6
  <1>4. good = 0..n
    <2>1. good \subseteq 0..n
      OBVIOUS
    <2> HIDE DEF good
    <2>2. QED
      BY <1>1, <1>2, <1>3, <2>1, HoldsUpTo
  <1>5. n \in good
    <2> HIDE DEF good
    <2>1. QED
      BY <1>1, <1>4
  <1>6. QED
    BY <1>5

(* A push grows the chain of the record's method and leaves the others.    *)
LEMMA PushGrowsChain ==
    ASSUME NEW h \in Seq(Record), NEW r \in Record, NEW m
    PROVE  ChainsIn(Append(h, r), m)[Len(Append(h, r))] =
               IF r.target = m THEN Append(ChainsIn(h, m)[Len(h)], Layer(r))
                               ELSE ChainsIn(h, m)[Len(h)]
  <1>1. PICK g : g = Append(h, r)
    OBVIOUS
  <1>2. /\ g \in Seq(Record) /\ Len(g) = Len(h) + 1 /\ Len(h) \in Nat
        /\ \A k \in 1..Len(h) : g[k] = h[k]
        /\ g[Len(h) + 1] = r
    BY <1>1, AppendProperties
  <1>3. ChainsIn(g, m)[0] = ChainsIn(h, m)[0]
    BY <1>2, ChainSteps
  <1>4. ChainsIn(g, m)[Len(h)] = ChainsIn(h, m)[Len(h)]
    <2>1. PICK z \in Nat, n \in Nat : z = 0 /\ n = Len(h)
      BY <1>2
    <2>2. SameAbove(g, z, h, z, n)
      BY <1>2, <2>1 DEF SameAbove
    <2>3. ChainsIn(g, m)[z] = ChainsIn(h, m)[z]
      BY <1>3, <2>1
    <2>4. ChainsIn(g, m)[z + n] = ChainsIn(h, m)[z + n]
      BY <1>2, <2>2, <2>3, ChainsAgree
    <2>5. z + n = Len(h)
      BY <2>1
    <2>6. QED
      BY <2>4, <2>5
  <1>5. ChainsIn(g, m)[Len(h) + 1] = Grow(g, m, Len(h) + 1, ChainsIn(g, m)[Len(h)])
    <2>1. Len(h) + 1 \in 1..Len(g) /\ (Len(h) + 1) - 1 = Len(h) /\ Len(g) \in Nat
      BY <1>2
    <2>2. QED
      BY <2>1, ChainSteps
  <1>6. QED
    BY <1>1, <1>2, <1>4, <1>5 DEF Grow

(* Below the top of m and above it, m's chain stands still.                *)
LEMMA ChainAboveTop ==
    ASSUME NEW h \in Seq(Record), NEW m, NEW i, IsTop(h, i, m)
    PROVE  ChainsIn(h, m)[Len(h)] = Append(ChainsIn(h, m)[i - 1], Layer(h[i]))
  <1> DEFINE good == {k \in 0..(Len(h) - i) : ChainsIn(h, m)[i + k] = ChainsIn(h, m)[i]}
  <1>1. Len(h) \in Nat /\ i \in 1..Len(h) /\ Len(h) - i \in Nat
    BY DEF IsTop
  <1>2. 0 \in good
    BY <1>1
  <1>3. ASSUME NEW k \in good, k + 1 <= Len(h) - i
        PROVE  k + 1 \in good
    <2>1. /\ k + 1 \in 0..(Len(h) - i)
          /\ i + (k + 1) \in 1..Len(h) /\ i + (k + 1) \in (i + 1)..Len(h)
          /\ (i + (k + 1)) - 1 = i + k
      BY <1>1, <1>3
    <2>2. ChainsIn(h, m)[i + (k + 1)] = Grow(h, m, i + (k + 1), ChainsIn(h, m)[i + k])
      BY <1>1, <2>1, ChainSteps
    <2>3. h[i + (k + 1)].target # m
      BY <2>1 DEF IsTop
    <2>4. QED
      BY <1>3, <2>1, <2>2, <2>3 DEF Grow
  <1>4. good = 0..(Len(h) - i)
    <2>1. good \subseteq 0..(Len(h) - i)
      OBVIOUS
    <2> HIDE DEF good
    <2>2. QED
      BY <1>1, <1>2, <1>3, <2>1, HoldsUpTo
  <1>5. ChainsIn(h, m)[Len(h)] = ChainsIn(h, m)[i]
    <2>1. Len(h) - i \in good /\ i + (Len(h) - i) = Len(h)
      <3> HIDE DEF good
      <3>1. QED
        BY <1>1, <1>4
    <2>2. QED
      BY <2>1
  <1>6. ChainsIn(h, m)[i] = Grow(h, m, i, ChainsIn(h, m)[i - 1])
    BY <1>1, ChainSteps
  <1>7. QED
    BY <1>5, <1>6 DEF Grow, IsTop

(* Taking out the top record of one method takes the last layer off its    *)
(* chain, and leaves the chains of the others.                             *)
LEMMA RemovalShrinksChain ==
    ASSUME NEW h \in Seq(Record), NEW m, NEW i, IsTop(h, i, m), NEW n
    PROVE  ChainsIn(RemoveAt(h, i), n)[Len(RemoveAt(h, i))] =
               IF n = m THEN ChainsIn(h, m)[i - 1] ELSE ChainsIn(h, n)[Len(h)]
  <1>0. i \in 1..Len(h) /\ Len(h) \in Nat
    BY DEF IsTop
  <1>1. PICK g : g = RemoveAt(h, i)
    OBVIOUS
  <1>2. /\ g \in Seq(Record) /\ Len(g) = Len(h) - 1 /\ Len(h) \in Nat /\ i \in 1..Len(h)
        /\ \A k \in 1..(Len(h) - 1) : g[k] = IF k < i THEN h[k] ELSE h[k + 1]
        /\ h[i].target = m
    <2>1. i \in 1..Len(h) /\ h[i].target = m /\ Len(h) \in Nat
      BY DEF IsTop
    <2>2. QED
      BY <1>1, <2>1, RemoveAtElements
  <1>3. ChainsIn(g, n)[i - 1] = ChainsIn(h, n)[i - 1]
    <2>1. PICK z \in Nat, k \in Nat : z = 0 /\ k = i - 1
      BY <1>0
    <2>2. SameAbove(g, z, h, z, k)
      BY <1>2, <2>1 DEF SameAbove
    <2>3. ChainsIn(g, n)[0] = ChainsIn(h, n)[0] /\ Len(g) \in Nat
      BY <1>2, ChainSteps
    <2>4. ChainsIn(g, n)[z] = ChainsIn(h, n)[z]
      BY <2>1, <2>3
    <2>5. ChainsIn(g, n)[z + k] = ChainsIn(h, n)[z + k]
      BY <1>2, <2>2, <2>4, ChainsAgree
    <2>6. z + k = i - 1
      BY <1>2, <2>1
    <2>7. QED
      BY <2>5, <2>6
  <1>4. CASE n = m
    <2>1. PICK k \in Nat : k = Len(h) - i
      BY <1>0
    <2> DEFINE good == {l \in 0..k : ChainsIn(g, m)[(i - 1) + l] = ChainsIn(g, m)[i - 1]}
    <2>2. 0 \in good
      BY <1>2
    <2>3. ASSUME NEW l \in good, l + 1 <= k
          PROVE  l + 1 \in good
      <3>1. /\ l + 1 \in 0..k
            /\ (i - 1) + (l + 1) \in 1..Len(g) /\ (i - 1) + (l + 1) \in 1..(Len(h) - 1)
            /\ ((i - 1) + (l + 1)) - 1 = (i - 1) + l
            /\ ~((i - 1) + (l + 1) < i)
            /\ ((i - 1) + (l + 1)) + 1 \in (i + 1)..Len(h) /\ Len(g) \in Nat
        BY <1>2, <2>1, <2>3
      <3>2. ChainsIn(g, m)[(i - 1) + (l + 1)]
                = Grow(g, m, (i - 1) + (l + 1), ChainsIn(g, m)[(i - 1) + l])
        BY <3>1, ChainSteps
      <3>3. g[(i - 1) + (l + 1)].target # m
        BY <1>2, <3>1 DEF IsTop
      <3>4. QED
        BY <2>3, <3>1, <3>2, <3>3 DEF Grow
    <2>4. good = 0..k
      <3>1. good \subseteq 0..k
        OBVIOUS
      <3> HIDE DEF good
      <3>2. QED
        BY <2>2, <2>3, <3>1, HoldsUpTo
    <2>5. k \in good
      <3> HIDE DEF good
      <3>1. QED
        BY <2>4
    <2>6. (i - 1) + k = Len(g)
      BY <1>2, <2>1
    <2>7. ChainsIn(g, m)[Len(g)] = ChainsIn(g, m)[i - 1]
      BY <2>5, <2>6
    <2>8. QED
      BY <1>1, <1>3, <1>4, <2>7
  <1>5. CASE n # m
    <2>1. PICK a \in Nat, k \in Nat : a = i - 1 /\ k = Len(h) - i
      BY <1>0
    <2>2. ChainsIn(h, n)[i] = Grow(h, n, i, ChainsIn(h, n)[i - 1])
      BY <1>2, ChainSteps
    <2>3. ChainsIn(g, n)[a] = ChainsIn(h, n)[i]
      BY <1>2, <1>3, <1>5, <2>1, <2>2 DEF Grow
    <2>4. a + k = Len(g) /\ i + k = Len(h)
      BY <1>2, <2>1
    <2>5. \A l \in 1..k : g[a + l] = h[i + l]
      <3> SUFFICES ASSUME NEW l \in 1..k
                   PROVE  g[a + l] = h[i + l]
        OBVIOUS
      <3>1. a + l \in 1..(Len(h) - 1) /\ ~(a + l < i) /\ (a + l) + 1 = i + l
        BY <1>2, <2>1
      <3>2. QED
        BY <1>2, <3>1
    <2>6. SameAbove(g, a, h, i, k)
      BY <1>2, <2>1, <2>4, <2>5 DEF SameAbove
    <2>7. ChainsIn(g, n)[a + k] = ChainsIn(h, n)[i + k]
      <3>1. i \in Nat
        BY <1>2
      <3>2. QED
        BY <1>2, <2>3, <2>6, <3>1, ChainsAgree
    <2>8. QED
      BY <1>1, <1>5, <2>4, <2>7
  <1>6. QED
    BY <1>4, <1>5

(* The last layer of a chain is that of its method's top record, and what  *)
(* is below it is the chain without that record.                           *)
LEMMA TopIsLast ==
    ASSUME NEW h \in Seq(Record), NEW m, NEW i, IsTop(h, i, m)
    PROVE  /\ ChainsIn(h, m)[Len(h)] # <<>>
           /\ Last(ChainsIn(h, m)[Len(h)]) = Layer(h[i])
           /\ Front(ChainsIn(h, m)[Len(h)]) = ChainsIn(h, m)[i - 1]
  <1>1. PICK c : c = ChainsIn(h, m)[i - 1]
    OBVIOUS
  <1> DEFINE S == {Layer(h[j]) : j \in 1..Len(h)}
  <1>2. i \in 1..Len(h) /\ i - 1 \in 0..Len(h)
    BY DEF IsTop
  <1>3. c \in Seq(S) /\ Layer(h[i]) \in S
    BY <1>1, <1>2, ChainTypes
  <1>4. ChainsIn(h, m)[Len(h)] = Append(c, Layer(h[i]))
    BY <1>1, ChainAboveTop
  <1> HIDE DEF S
  <1>5. /\ Append(c, Layer(h[i])) \in Seq(S)
        /\ Len(Append(c, Layer(h[i]))) = Len(c) + 1 /\ Len(c) \in Nat
        /\ Append(c, Layer(h[i]))[Len(c) + 1] = Layer(h[i])
        /\ \A k \in 1..Len(c) : Append(c, Layer(h[i]))[k] = c[k]
    BY <1>3, AppendProperties
  <1>6. Append(c, Layer(h[i])) # <<>>
    BY <1>5
  <1>7. Last(Append(c, Layer(h[i]))) = Layer(h[i])
    BY <1>5 DEF Last
  <1>8. Front(Append(c, Layer(h[i]))) = c
    <2>1. PICK d : d = SubSeq(Append(c, Layer(h[i])), 1, Len(c))
      OBVIOUS
    <2>2. d \in Seq(S) /\ Len(d) = Len(c) /\ \A k \in 1..Len(c) : d[k] = c[k]
      BY <1>5, <2>1
    <2>3. d = c
      BY <1>3, <1>5, <2>2
    <2>4. QED
      BY <1>5, <2>1, <2>3 DEF Front
  <1>9. QED
    BY <1>1, <1>4, <1>6, <1>7, <1>8

-----------------------------------------------------------------------------
(* The registry as a stack of hooks per method.                            *)

\* What a method's chain is, wherever the call that holds the lock stands.
ChainsStand ==
    \A m \in Methods :
        /\ (\A t \in Threads : pc[t] \notin {"install_verify", "remove_verify"})
              => ChainOf(m) = RecordedChain(m)
        /\ \A t \in Threads :
              pc[t] = "install_verify" =>
                  ChainOf(m) = IF frame[t].target = m /\ entry[m] = frame[t].installed_entry
                               THEN Append(RecordedChain(m), Layer(frame[t]))
                               ELSE RecordedChain(m)
        /\ \A t \in Threads :
              pc[t] = "remove_verify" =>
                  ChainOf(m) = IF frame[t].target = m /\ entry[m] = frame[t].previous_entry
                               THEN Front(RecordedChain(m))
                               ELSE RecordedChain(m)

(* The lock's owner is the call whose store may have landed.               *)
LEMMA ChainsNow == TypeOK => ChainsStand
  <1> SUFFICES ASSUME TypeOK, NEW m \in Methods
               PROVE  /\ (\A t \in Threads : pc[t] \notin {"install_verify", "remove_verify"})
                            => ChainOf(m) = RecordedChain(m)
                      /\ \A t \in Threads :
                            pc[t] = "install_verify" =>
                                ChainOf(m) = IF frame[t].target = m /\ entry[m] = frame[t].installed_entry
                                             THEN Append(RecordedChain(m), Layer(frame[t]))
                                             ELSE RecordedChain(m)
                      /\ \A t \in Threads :
                            pc[t] = "remove_verify" =>
                                ChainOf(m) = IF frame[t].target = m /\ entry[m] = frame[t].previous_entry
                                             THEN Front(RecordedChain(m))
                                             ELSE RecordedChain(m)
    BY DEF ChainsStand
  <1>1. ~LockIsFree => owner \in Threads
    BY DEF TypeOK, LockIsFree
  <1>2. ASSUME \A t \in Threads : pc[t] \notin {"install_verify", "remove_verify"}
        PROVE  ChainOf(m) = RecordedChain(m)
    <2>1. ~Landed(m, "install_verify") /\ ~Landed(m, "remove_verify")
      BY <1>1, <1>2 DEF Landed
    <2>2. QED
      BY <2>1 DEF ChainOf
  <1>3. ASSUME NEW t \in Threads, pc[t] # "idle"
        PROVE  owner = t /\ ~LockIsFree
    BY <1>3, RegistryAssumption DEF TypeOK, LockIsFree
  <1>4. ASSUME NEW t \in Threads, pc[t] = "install_verify"
        PROVE  ChainOf(m) = IF frame[t].target = m /\ entry[m] = frame[t].installed_entry
                            THEN Append(RecordedChain(m), Layer(frame[t]))
                            ELSE RecordedChain(m)
    <2>1. ~Landed(m, "remove_verify")
      BY <1>3, <1>4 DEF Landed
    <2>2. Landed(m, "install_verify")
              <=> frame[t].target = m /\ entry[m] = frame[t].installed_entry
      BY <1>3, <1>4 DEF Landed
    <2>3. QED
      BY <1>3, <1>4, <2>1, <2>2 DEF ChainOf
  <1>5. ASSUME NEW t \in Threads, pc[t] = "remove_verify"
        PROVE  ChainOf(m) = IF frame[t].target = m /\ entry[m] = frame[t].previous_entry
                            THEN Front(RecordedChain(m))
                            ELSE RecordedChain(m)
    <2>1. ~Landed(m, "install_verify")
      BY <1>3, <1>5 DEF Landed
    <2>2. Landed(m, "remove_verify")
              <=> frame[t].target = m /\ entry[m] = frame[t].previous_entry
      BY <1>3, <1>5 DEF Landed
    <2>3. QED
      BY <1>3, <1>5, <2>1, <2>2 DEF ChainOf
  <1>6. QED
    BY <1>2, <1>4, <1>5

(* And in the next state.                                                  *)
LEMMA ChainsNext == TypeOK' => ChainsStand'
  BY ChainsNow, PTL

(* The registry starts with every stack empty.                             *)
LEMMA ChainInit == Init => Chain!Init
  <1> SUFFICES ASSUME Init
               PROVE  Chain!Init
    OBVIOUS
  <1>1. ASSUME NEW m \in Methods
        PROVE  ChainOf(m) = <<>>
    <2>1. ~Landed(m, "install_verify") /\ ~Landed(m, "remove_verify")
      BY DEF Init, Landed, LockIsFree
    <2>2. ChainOf(m) = RecordedChain(m)
      BY <2>1 DEF ChainOf
    <2>3. Len(hooks) = 0 /\ Len(hooks) \in Nat
      BY DEF Init
    <2>4. QED
      BY <2>2, <2>3, ChainSteps DEF RecordedChain
  <1>2. QED
    BY <1>1 DEF Init, Chain!Init

(* Where neither slots nor stacks change, the callers see nothing.         *)
LEMMA ChainStutters ==
    ASSUME entry' = entry, \A m \in Methods : ChainOf(m)' = ChainOf(m)
    PROVE  UNCHANGED Chain!chainVars
  BY DEF Chain!chainVars

(* Taking the lock is not seen.                                            *)
LEMMA ChainInstallRead ==
    ASSUME TypeOK, TypeOK', NEW t \in Threads, NEW m \in Methods, NEW x, InstallRead(t, m, x)
    PROVE  UNCHANGED Chain!chainVars
  <1>1. entry' = entry /\ hooks' = hooks /\ pc' = [pc EXCEPT ![t] = "install_store"] /\ LockIsFree
    BY DEF InstallRead, Enter
  <1>2. /\ \A u \in Threads : pc[u] = "idle"
        /\ \A u \in Threads : pc'[u] \in {"idle", "install_store"}
    BY <1>1, LockExcludes DEF TypeOK
  <1>3. ASSUME NEW n \in Methods
        PROVE  ChainOf(n)' = ChainOf(n)
    <2>1. ChainOf(n) = RecordedChain(n)
      BY <1>2, ChainsNow DEF ChainsStand
    <2>2. ChainOf(n)' = RecordedChain(n)'
      BY <1>2, ChainsNext DEF ChainsStand
    <2>3. QED
      BY <1>1, <2>1, <2>2 DEF RecordedChain
  <1>4. QED
    BY <1>1, <1>3, ChainStutters

(* Nor is the check of a removal that goes on.                             *)
LEMMA ChainRemoveCheck ==
    ASSUME TypeOK, TypeOK', NEW t \in Threads, NEW m \in Methods, RemoveCheck(t, m)
    PROVE  UNCHANGED Chain!chainVars
  <1>1. entry' = entry /\ hooks' = hooks /\ pc' = [pc EXCEPT ![t] = "remove_store"] /\ LockIsFree
    BY DEF RemoveCheck, Enter
  <1>2. /\ \A u \in Threads : pc[u] = "idle"
        /\ \A u \in Threads : pc'[u] \in {"idle", "remove_store"}
    BY <1>1, LockExcludes DEF TypeOK
  <1>3. ASSUME NEW n \in Methods
        PROVE  ChainOf(n)' = ChainOf(n)
    <2>1. ChainOf(n) = RecordedChain(n)
      BY <1>2, ChainsNow DEF ChainsStand
    <2>2. ChainOf(n)' = RecordedChain(n)'
      BY <1>2, ChainsNext DEF ChainsStand
    <2>3. QED
      BY <1>1, <2>1, <2>2 DEF RecordedChain
  <1>4. QED
    BY <1>1, <1>3, ChainStutters

\* No hook is recorded of a trampoline that was not made, or that a call is
\* still putting in.
RecordsAreOld ==
    /\ \A i \in 1..Len(hooks) : hooks[i].installed_entry \in made
    /\ \A t \in Threads :
          pc[t] \in InstallPC =>
              /\ frame[t].installed_entry \in made
              /\ \A i \in 1..Len(hooks) : hooks[i].installed_entry # frame[t].installed_entry

(* A removal leaves no record that was not there.                          *)
LEMMA RemovalIsOld ==
    ASSUME NEW h \in Seq(Record), NEW i \in 1..Len(h), NEW k \in 1..Len(RemoveAt(h, i))
    PROVE  \E l \in 1..Len(h) : RemoveAt(h, i)[k] = h[l]
  <1>1. Len(h) \in Nat /\ Len(RemoveAt(h, i)) = Len(h) - 1
    BY RemoveAtElements
  <1>2. RemoveAt(h, i)[k] = IF k < i THEN h[k] ELSE h[k + 1]
    BY <1>1, RemoveAtElements
  <1>3. QED
    BY <1>1, <1>2

(* The registry's trampolines are made once, and recorded once.            *)
LEMMA RecordsStayOld == TypeOK /\ TypeOK' /\ RecordsAreOld /\ [Next]_vars => RecordsAreOld'
  <1> SUFFICES ASSUME TypeOK, TypeOK', RecordsAreOld, [Next]_vars
               PROVE  RecordsAreOld'
    OBVIOUS
  <1>1. hooks \in Seq(Record) /\ Len(hooks) \in Nat
    BY DEF TypeOK
  <1>2. ASSUME NEW t \in Threads, NEW m \in Methods, NEW x, InstallRead(t, m, x)
        PROVE  RecordsAreOld'
    <2>1. /\ x \notin made /\ made' = made \cup {x} /\ hooks' = hooks
          /\ pc' = [pc EXCEPT ![t] = "install_store"]
          /\ frame' = [frame EXCEPT ![t] = [target |-> m, previous_entry |-> entry[m],
                                            installed_entry |-> x]]
          /\ \A u \in Threads : pc[u] = "idle"
      BY <1>2, LockExcludes DEF InstallRead, Enter
    <2>2. frame'[t].installed_entry = x
      BY <2>1 DEF TypeOK
    <2>3. \A u \in Threads : pc'[u] \in InstallPC => u = t
      BY <2>1 DEF TypeOK, InstallPC
    <2>4. QED
      BY <2>1, <2>2, <2>3 DEF RecordsAreOld
  <1>3. ASSUME NEW t \in Threads, InstallStore(t) \/ RemoveStore(t)
        PROVE  RecordsAreOld'
    <2>1. /\ hooks' = hooks /\ made' = made /\ frame' = frame
          /\ \A u \in Threads : pc'[u] \in InstallPC => pc[u] \in InstallPC
      BY <1>3 DEF InstallStore, RemoveStore, Goto, TypeOK, InstallPC
    <2>2. QED
      BY <2>1 DEF RecordsAreOld
  <1>4. ASSUME NEW t \in Threads, InstallVerify(t)
        PROVE  RecordsAreOld'
    <2>1. /\ pc[t] = "install_verify" /\ made' = made
          /\ hooks' \in {hooks, Append(hooks, frame[t])}
          /\ pc' = [pc EXCEPT ![t] = "idle"]
      BY <1>4 DEF InstallVerify, Return
    <2>2. \A u \in Threads : pc'[u] = "idle"
      BY <2>1, LockExcludes DEF TypeOK
    <2>3. frame[t] \in Record /\ frame[t].installed_entry \in made
      BY <2>1 DEF RecordsAreOld, InstallPC, TypeOK
    <2>4. \A i \in 1..Len(hooks') : hooks'[i].installed_entry \in made
      <3>1. CASE hooks' = hooks
        BY <3>1 DEF RecordsAreOld
      <3>2. CASE hooks' = Append(hooks, frame[t])
        <4>1. /\ Len(hooks') = Len(hooks) + 1
              /\ \A i \in 1..Len(hooks) : hooks'[i] = hooks[i]
              /\ hooks'[Len(hooks) + 1] = frame[t]
          BY <1>1, <2>3, <3>2, AppendProperties
        <4>2. QED
          BY <1>1, <2>3, <4>1 DEF RecordsAreOld
      <3>3. QED
        BY <2>1, <3>1, <3>2
    <2>5. QED
      BY <2>1, <2>2, <2>4 DEF RecordsAreOld, InstallPC
  <1>5. ASSUME NEW t \in Threads, NEW i \in 1..Len(hooks),
               hooks' \in {hooks, RemoveAt(hooks, i)}, made' = made,
               \A u \in Threads : pc'[u] \in InstallPC => pc[u] \in InstallPC /\ frame'[u] = frame[u]
        PROVE  RecordsAreOld'
    <2>1. \A k \in 1..Len(hooks') : \E l \in 1..Len(hooks) : hooks'[k] = hooks[l]
      BY <1>1, <1>5, RemovalIsOld
    <2>2. QED
      BY <1>5, <2>1, ZenonT(60) DEF RecordsAreOld
  <1>6. ASSUME NEW t \in Threads, NEW m \in Methods, RemoveStale(t, m)
        PROVE  RecordsAreOld'
    <2>1. /\ made' = made /\ pc' = pc /\ frame' = frame
          /\ \E i \in 1..Len(hooks) : hooks' = RemoveAt(hooks, i)
      BY <1>6 DEF RemoveStale
    <2>2. QED
      BY <1>5, <2>1
  <1>7. ASSUME NEW t \in Threads, NEW m \in Methods, RemoveCheck(t, m)
        PROVE  RecordsAreOld'
    <2>1. /\ hooks' = hooks /\ made' = made
          /\ pc' = [pc EXCEPT ![t] = "remove_store"]
          /\ \A u \in Threads : pc[u] = "idle"
      BY <1>7, LockExcludes DEF RemoveCheck, Enter
    <2>2. \A u \in Threads : pc'[u] \notin InstallPC
      BY <2>1 DEF TypeOK, InstallPC
    <2>3. QED
      BY <2>1, <2>2 DEF RecordsAreOld
  <1>8. ASSUME NEW t \in Threads, RemoveVerify(t)
        PROVE  RecordsAreOld'
    <2>1. /\ made' = made
          /\ pc' = [pc EXCEPT ![t] = "idle"] /\ frame' = [frame EXCEPT ![t] = NoRecord]
          /\ \E i \in 1..Len(hooks) : hooks' \in {hooks, RemoveAt(hooks, i)}
      BY <1>8 DEF RemoveVerify, Return
    <2>2. \A u \in Threads : pc'[u] \in InstallPC => pc[u] \in InstallPC /\ frame'[u] = frame[u]
      BY <2>1 DEF TypeOK, InstallPC
    <2>3. QED
      BY <1>5, <2>1, <2>2
  <1>9. CASE \E m \in Methods, c \in Code : ArtWrites(m, c)
    BY <1>9 DEF ArtWrites, RecordsAreOld
  <1>10. CASE UNCHANGED vars
    BY <1>10 DEF vars, RecordsAreOld
  <1>11. QED
    BY <1>2, <1>3, <1>4, <1>6, <1>7, <1>8, <1>9, <1>10 DEF Next, Call, Proceed

(* In every reachable state.                                               *)
LEMMA RecordsAreAlwaysOld == Spec => []RecordsAreOld
  <1>1. Init => RecordsAreOld
    BY DEF Init, RecordsAreOld, InstallPC
  <1>2. QED
    BY <1>1, RecordsStayOld, TypeCorrect, PTL DEF Spec

(* The store of an install that lands is the push, one that does not is    *)
(* not seen.                                                               *)
LEMMA ChainInstallStore ==
    ASSUME TypeOK, TypeOK', Quiet, RecordsAreOld, NEW t \in Threads, InstallStore(t)
    PROVE  [Chain!Next]_Chain!chainVars
  <1>1. PICK r \in Record : r = frame[t]
    BY DEF InstallStore, TypeOK
  <1>2. PICK m \in Methods, x \in Trampolines :
           m = r.target /\ x = r.installed_entry
    BY <1>1, RecordShape
  <1>3. /\ pc[t] = "install_store" /\ pc' = [pc EXCEPT ![t] = "install_verify"]
        /\ hooks' = hooks /\ frame' = frame
        /\ entry' \in {entry, [entry EXCEPT ![m] = x]}
    BY <1>1, <1>2 DEF InstallStore, Store, Goto
  <1>4. /\ entry \in [Methods -> EntryPoint] /\ hooks \in Seq(Record)
        /\ pc'[t] = "install_verify"
        /\ \A u \in Threads : u # t => pc[u] = "idle"
    BY <1>3, LockExcludes DEF TypeOK
  <1>5. entry[m] = r.previous_entry
    BY <1>1, <1>2, <1>3 DEF Quiet, CallsOwnTheirSlot
  <1>6. \A n \in Methods : ChainOf(n) = RecordedChain(n)
    BY <1>3, <1>4, ChainsNow DEF ChainsStand
  <1>7. \A n \in Methods : ChainOf(n)' = IF n = m /\ entry'[n] = x
                                         THEN Append(RecordedChain(n), Layer(r))
                                         ELSE RecordedChain(n)
    <2>1. \A n \in Methods : RecordedChain(n)' = RecordedChain(n)
      BY <1>3 DEF RecordedChain
    <2>2. frame'[t] = r
      BY <1>1, <1>3
    <2>3. \A n \in Methods :
             ChainOf(n)' = IF frame'[t].target = n /\ entry'[n] = frame'[t].installed_entry
                           THEN Append(RecordedChain(n)', Layer(frame'[t]))
                           ELSE RecordedChain(n)'
      BY <1>4, ChainsNext DEF ChainsStand, Layer
    <2>4. QED
      BY <1>2, <2>1, <2>2, <2>3
  <1>8. CASE entry'[m] = x
    <2>1. entry' = [entry EXCEPT ![m] = x]
      BY <1>3, <1>4, <1>8
    <2>2. ASSUME NEW n \in Methods
          PROVE  x \notin {ChainOf(n)[i].installed : i \in DOMAIN ChainOf(n)}
      <3>1. PICK c : c = ChainOf(n)
        OBVIOUS
      <3>2. Len(hooks) \in 0..Len(hooks)
        BY <1>4
      <3>3. c \in Seq({Layer(hooks[j]) : j \in 1..Len(hooks)})
        BY <1>4, <1>6, <3>1, <3>2, ChainTypes DEF RecordedChain
      <3>4. \A i \in DOMAIN c : \E j \in 1..Len(hooks) : c[i] = Layer(hooks[j])
        BY <3>3
      <3>5. \A j \in 1..Len(hooks) : Layer(hooks[j]).installed # x
        BY <1>1, <1>2, <1>3 DEF RecordsAreOld, InstallPC, Layer
      <3>6. QED
        BY <3>1, <3>4, <3>5
    <2>3. Layer(r) = [installed |-> x, previous |-> entry[m]]
      BY <1>2, <1>5 DEF Layer
    <2>4. [n \in Methods |-> ChainOf(n)]'
              = [[n \in Methods |-> ChainOf(n)] EXCEPT
                    ![m] = Append(@, [installed |-> x, previous |-> entry[m]])]
      BY <1>6, <1>7, <1>8, <2>3
    <2>5. Chain!Hook(m, x)
      BY <2>1, <2>2, <2>4 DEF Chain!Hook, Chain!Hooks
    <2>6. QED
      BY <2>5 DEF Chain!Next
  <1>9. CASE entry'[m] # x
    <2>1. entry' = entry
      BY <1>3, <1>4, <1>9
    <2>2. \A n \in Methods : ChainOf(n)' = ChainOf(n)
      BY <1>6, <1>7, <1>9
    <2>3. QED
      BY <2>1, <2>2, ChainStutters
  <1>10. QED
    BY <1>8, <1>9

(* The push_back of an install that landed is not seen any more.           *)
LEMMA ChainInstallVerify ==
    ASSUME TypeOK, TypeOK', NEW t \in Threads, InstallVerify(t)
    PROVE  UNCHANGED Chain!chainVars
  <1>1. PICK r \in Record : r = frame[t]
    BY DEF InstallVerify, TypeOK
  <1>2. /\ pc[t] = "install_verify" /\ pc' = [pc EXCEPT ![t] = "idle"] /\ entry' = entry
        /\ hooks' = IF entry[r.target] = r.installed_entry THEN Append(hooks, r) ELSE hooks
    BY <1>1 DEF InstallVerify, Return
  <1>3. hooks \in Seq(Record) /\ \A u \in Threads : pc'[u] = "idle"
    BY <1>2, LockExcludes DEF TypeOK
  <1>4. ASSUME NEW n \in Methods
        PROVE  ChainOf(n)' = ChainOf(n)
    <2>1. ChainOf(n)' = RecordedChain(n)'
      BY <1>3, ChainsNext DEF ChainsStand
    <2>2. ChainOf(n) = IF r.target = n /\ entry[n] = r.installed_entry
                       THEN Append(RecordedChain(n), Layer(r))
                       ELSE RecordedChain(n)
      BY <1>1, <1>2, ChainsNow DEF ChainsStand
    <2>3. CASE entry[r.target] = r.installed_entry
      <3>1. RecordedChain(n)' = IF r.target = n THEN Append(RecordedChain(n), Layer(r))
                                                ELSE RecordedChain(n)
        BY <1>2, <1>3, <2>3, PushGrowsChain DEF RecordedChain
      <3>2. QED
        BY <2>1, <2>2, <2>3, <3>1
    <2>4. CASE entry[r.target] # r.installed_entry
      <3>1. RecordedChain(n)' = RecordedChain(n)
        BY <1>2, <2>4 DEF RecordedChain
      <3>2. QED
        BY <2>1, <2>2, <2>4, <3>1
    <2>5. QED
      BY <2>3, <2>4
  <1>5. QED
    BY <1>2, <1>4, ChainStutters

(* What taking out the top record does to the stacks.                      *)
LEMMA RemovalPops ==
    ASSUME hooks \in Seq(Record), NEW m \in Methods, NEW i, IsTop(hooks, i, m),
           hooks' = RemoveAt(hooks, i), NEW n \in Methods
    PROVE  RecordedChain(n)' = IF n = m THEN Front(RecordedChain(n)) ELSE RecordedChain(n)
  BY RemovalShrinksChain, TopIsLast DEF RecordedChain

(* What the top of a stack is.                                             *)
LEMMA TopLayer ==
    ASSUME hooks \in Seq(Record), NEW m \in Methods, NEW i, IsTop(hooks, i, m)
    PROVE  /\ RecordedChain(m) # <<>>
           /\ Last(RecordedChain(m)).installed = hooks[i].installed_entry
           /\ Last(RecordedChain(m)).previous = hooks[i].previous_entry
  <1>1. /\ RecordedChain(m) # <<>>
        /\ Last(RecordedChain(m)) = Layer(hooks[i])
    BY TopIsLast DEF RecordedChain
  <1>2. /\ Layer(hooks[i]).installed = hooks[i].installed_entry
        /\ Layer(hooks[i]).previous = hooks[i].previous_entry
    BY DEF Layer
  <1>3. QED
    BY <1>1, <1>2

(* A record whose hook was overwritten is dropped off its stack.           *)
LEMMA ChainRemoveStale ==
    ASSUME TypeOK, TypeOK', NEW t \in Threads, NEW m \in Methods, RemoveStale(t, m)
    PROVE  Chain!DropStale(m)
  <1>1. PICK i \in 1..Len(hooks) :
           /\ IsTop(hooks, i, m)
           /\ entry[m] # hooks[i].installed_entry
           /\ hooks' = RemoveAt(hooks, i)
    BY DEF RemoveStale
  <1>2. /\ entry' = entry /\ pc' = pc /\ hooks \in Seq(Record)
        /\ \A u \in Threads : pc[u] = "idle"
    BY LockExcludes DEF RemoveStale, TypeOK
  <1>3. \A n \in Methods : ChainOf(n) = RecordedChain(n)
    BY <1>2, ChainsNow DEF ChainsStand
  <1>4. \A n \in Methods : ChainOf(n)' = RecordedChain(n)'
    BY <1>2, ChainsNext DEF ChainsStand
  <1>5. \A n \in Methods :
           RecordedChain(n)' = IF n = m THEN Front(RecordedChain(n)) ELSE RecordedChain(n)
    BY <1>1, <1>2, RemovalPops
  <1>6. ChainOf(m) # <<>> /\ Last(ChainOf(m)).installed = hooks[i].installed_entry
    BY <1>1, <1>2, <1>3, TopLayer
  <1>7. [n \in Methods |-> ChainOf(n)]'
            = [[n \in Methods |-> ChainOf(n)] EXCEPT ![m] = Front(@)]
    BY <1>3, <1>4, <1>5
  <1>8. QED
    BY <1>1, <1>2, <1>6, <1>7 DEF Chain!DropStale, Chain!Last, Chain!Front, Last, Front

(* The store of a removal that lands is the pop, one that does not is not  *)
(* seen.                                                                   *)
LEMMA ChainRemoveStore ==
    ASSUME IInv, TypeOK', Quiet, NEW t \in Threads, RemoveStore(t)
    PROVE  [Chain!Next]_Chain!chainVars
  <1>1. PICK r \in Record : r = frame[t]
    BY DEF RemoveStore, IInv, TypeOK
  <1>2. PICK m \in Methods, p \in EntryPoint : m = r.target /\ p = r.previous_entry
    BY <1>1, RecordShape DEF EntryPoint
  <1>3. /\ pc[t] = "remove_store" /\ pc' = [pc EXCEPT ![t] = "remove_verify"]
        /\ hooks' = hooks /\ frame' = frame
        /\ entry' \in {entry, [entry EXCEPT ![m] = p]}
    BY <1>1, <1>2 DEF RemoveStore, Store, Goto
  <1>4. /\ TypeOK /\ entry \in [Methods -> EntryPoint] /\ hooks \in Seq(Record)
        /\ pc'[t] = "remove_verify"
        /\ \A u \in Threads : u # t => pc[u] = "idle"
    BY <1>3, LockExcludes DEF TypeOK, IInv
  <1>5. PICK i \in 1..Len(hooks) : IsTop(hooks, i, m) /\ hooks[i] = r
    BY <1>1, <1>2, <1>3 DEF IInv, RemovalIsOfTop, RemovePC
  <1>6. entry[m] = r.installed_entry
    BY <1>1, <1>2, <1>3 DEF Quiet, CallsOwnTheirSlot
  <1>7. \A n \in Methods : ChainOf(n) = RecordedChain(n)
    BY <1>3, <1>4, ChainsNow DEF ChainsStand
  <1>8. \A n \in Methods : ChainOf(n)' = IF n = m /\ entry'[n] = p
                                         THEN Front(RecordedChain(n))
                                         ELSE RecordedChain(n)
    <2>1. \A n \in Methods : RecordedChain(n)' = RecordedChain(n)
      BY <1>3 DEF RecordedChain
    <2>2. frame'[t] = r
      BY <1>1, <1>3
    <2>3. \A n \in Methods :
             ChainOf(n)' = IF frame'[t].target = n /\ entry'[n] = frame'[t].previous_entry
                           THEN Front(RecordedChain(n)')
                           ELSE RecordedChain(n)'
      BY <1>4, ChainsNext DEF ChainsStand
    <2>4. QED
      BY <1>2, <2>1, <2>2, <2>3
  <1>9. CASE entry'[m] = p
    <2>1. entry' = [entry EXCEPT ![m] = p]
      BY <1>3, <1>4, <1>9
    <2>2. /\ ChainOf(m) # <<>>
          /\ Last(ChainOf(m)).installed = entry[m]
          /\ Last(ChainOf(m)).previous = p
      BY <1>2, <1>4, <1>5, <1>6, <1>7, TopLayer
    <2>3. [n \in Methods |-> ChainOf(n)]'
              = [[n \in Methods |-> ChainOf(n)] EXCEPT ![m] = Front(@)]
      BY <1>7, <1>8, <1>9
    <2>4. Chain!Unhook(m)
      BY <2>1, <2>2, <2>3 DEF Chain!Unhook, Chain!Last, Chain!Front, Last, Front
    <2>5. QED
      BY <2>4 DEF Chain!Next
  <1>10. CASE entry'[m] # p
    <2>1. entry' = entry
      BY <1>3, <1>4, <1>10
    <2>2. \A n \in Methods : ChainOf(n)' = ChainOf(n)
      BY <1>7, <1>8, <1>10
    <2>3. QED
      BY <2>1, <2>2, ChainStutters
  <1>11. QED
    BY <1>9, <1>10

(* The erase of a removal that landed is not seen any more.                *)
LEMMA ChainRemoveVerify ==
    ASSUME TypeOK, TypeOK', NEW t \in Threads, RemoveVerify(t)
    PROVE  UNCHANGED Chain!chainVars
  <1>1. PICK r \in Record : r = frame[t]
    BY DEF RemoveVerify, TypeOK
  <1>2. PICK i \in 1..Len(hooks) :
           /\ IsTop(hooks, i, r.target)
           /\ hooks' = IF entry[r.target] = r.previous_entry THEN RemoveAt(hooks, i) ELSE hooks
    BY <1>1 DEF RemoveVerify
  <1>3. pc[t] = "remove_verify" /\ pc' = [pc EXCEPT ![t] = "idle"] /\ entry' = entry
    BY DEF RemoveVerify, Return
  <1>4. /\ hooks \in Seq(Record) /\ r.target \in Methods
        /\ \A u \in Threads : pc'[u] = "idle"
    BY <1>3, LockExcludes, RecordShape DEF TypeOK
  <1>5. ASSUME NEW n \in Methods
        PROVE  ChainOf(n)' = ChainOf(n)
    <2>1. ChainOf(n)' = RecordedChain(n)'
      BY <1>4, ChainsNext DEF ChainsStand
    <2>2. ChainOf(n) = IF r.target = n /\ entry[n] = r.previous_entry
                       THEN Front(RecordedChain(n))
                       ELSE RecordedChain(n)
      BY <1>1, <1>3, ChainsNow DEF ChainsStand
    <2>3. CASE entry[r.target] = r.previous_entry
      <3>1. RecordedChain(n)' = IF n = r.target THEN Front(RecordedChain(n)) ELSE RecordedChain(n)
        BY <1>2, <1>4, <2>3, RemovalPops
      <3>2. QED
        BY <2>1, <2>2, <2>3, <3>1
    <2>4. CASE entry[r.target] # r.previous_entry
      <3>1. RecordedChain(n)' = RecordedChain(n)
        BY <1>2, <2>4 DEF RecordedChain
      <3>2. QED
        BY <2>1, <2>2, <2>4, <3>1
    <2>5. QED
      BY <2>3, <2>4
  <1>6. QED
    BY <1>3, <1>5, ChainStutters

(* ART's writes between calls are the overwrites of the stacks.            *)
LEMMA ChainArtWrites ==
    ASSUME TypeOK, TypeOK', ~ArtRaces, NEW m \in Methods, NEW c \in Code, ArtWrites(m, c)
    PROVE  Chain!Overwrite(m, c)
  <1>1. /\ entry' = [entry EXCEPT ![m] = c] /\ hooks' = hooks /\ pc' = pc
        /\ \A u \in Threads : pc[u] = "idle"
    BY LockExcludes DEF ArtWrites
  <1>2. ASSUME NEW n \in Methods
        PROVE  ChainOf(n)' = ChainOf(n)
    <2>1. ChainOf(n) = RecordedChain(n)
      BY <1>1, ChainsNow DEF ChainsStand
    <2>2. ChainOf(n)' = RecordedChain(n)'
      BY <1>1, ChainsNext DEF ChainsStand
    <2>3. QED
      BY <1>1, <2>1, <2>2 DEF RecordedChain
  <1>3. [n \in Methods |-> ChainOf(n)]' = [n \in Methods |-> ChainOf(n)]
    BY <1>2
  <1>4. QED
    BY <1>1, <1>3 DEF Chain!Overwrite

(* Every step of the registry is a step of the stacks, or one that their   *)
(* users do not see.                                                       *)
LEMMA RegistrySteps ==
    ASSUME IInv, TypeOK', Quiet, RecordsAreOld, ~ArtRaces, [Next]_vars
    PROVE  [Chain!Next]_Chain!chainVars
  <1>1. TypeOK
    BY DEF IInv
  <1>2. ASSUME NEW t \in Threads, NEW m \in Methods, RemoveStale(t, m)
        PROVE  [Chain!Next]_Chain!chainVars
    BY <1>1, <1>2, ChainRemoveStale DEF Chain!Next
  <1>3. CASE \E t \in Threads : Call(t)
    BY <1>1, <1>2, <1>3, ChainInstallRead, ChainRemoveCheck DEF Call
  <1>4. CASE \E t \in Threads : Proceed(t)
    BY <1>1, <1>4, ChainInstallStore, ChainInstallVerify, ChainRemoveStore, ChainRemoveVerify
       DEF Proceed
  <1>5. CASE \E m \in Methods, c \in Code : ArtWrites(m, c)
    BY <1>1, <1>5, ChainArtWrites DEF Chain!Next
  <1>6. CASE UNCHANGED vars
    <2>1. \A n \in Methods : ChainOf(n)' = ChainOf(n)
      BY <1>6 DEF vars, ChainOf, Landed, LockIsFree, RecordedChain
    <2>2. QED
      BY <1>6, <2>1, ChainStutters DEF vars
  <1>7. QED
    BY <1>3, <1>4, <1>5, <1>6 DEF Next

(* The registry implements one stack of hooks per method whose pushes and  *)
(* pops are indivisible, for any number of methods, threads and hooks, as  *)
(* long as ART does not write in the middle of a call: "two such calls     *)
(* racing each other on the same method run one at a time, start to        *)
(* finish" (ArtHooks.java:184-186).                                        *)
THEOREM RegistryImplementsHookChain == ASSUME ~ArtRaces PROVE Spec => ImplementsHookChain
  <1>1. IInv /\ TypeOK' /\ Quiet /\ RecordsAreOld /\ [Next]_vars => [Chain!Next]_Chain!chainVars
    BY RegistrySteps
  <1>2. QED
    BY <1>1, ChainInit, TypeCorrect, InvariantHolds, QuietHolds, RecordsAreAlwaysOld, PTL
       DEF Spec, ImplementsHookChain, Chain!Spec
=============================================================================
