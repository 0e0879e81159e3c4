--------------------------- MODULE Startup_proofs ---------------------------
(***************************************************************************)
(* The static initialiser and the stores of the hooks, for any layout of   *)
(* ArtMethod, any distance of the probes and any memory map.  The walks of *)
(* /proc/self/maps are ProcMaps's, and so is what they answer.             *)
(***************************************************************************)
EXTENDS Startup, ProcMaps_proofs, Integers

\* What the actions are built from.
USE DEF Goto, Found, Missing

\* The actions that leave the memory map and the walk of it alone.
OffTheMap ==
    \/ LoadLibrary \/ FindArtMethodField \/ LayoutProbeMissing \/ MeasureLayout
    \/ FlagProbeMissing \/ FindAccessFlags \/ FindClassMembers
    \/ StubProbeMissing \/ ReadProbe \/ NullEntry \/ FindGetModifiers \/ KeepAot
    \/ DropLinkedCode \/ DiscourageCompilation \/ InstallBackup \/ InstallHook
    \/ \E m \in Methods : Unhook(m)

\* Those that begin a walk, carry it on and take its answer.
OnTheMap ==
    \/ FindStubMapping \/ ValidateStub \/ FindRuntimeMapping \/ PlanRuntimeScan
    \/ WarnIfAotCompiled
    \/ ReadLine /\ UNCHANGED <<art, pc, missing, measured, memory>>
    \/ OtherThreads /\ UNCHANGED <<art, pc, missing, measured, memory>>
    \/ \E m \in Methods : BeginHook(m)

LEMMA NextSplits == Next => OffTheMap \/ OnTheMap
BY DEF Next, Proceed, StaticInitializer, Stores, OffTheMap, OnTheMap

LEMMA OffTheMapStays == OffTheMap => UNCHANGED mapsVars
<1> USE DEF mapsVars
<1>1. \/ LoadLibrary \/ FindArtMethodField \/ LayoutProbeMissing \/ MeasureLayout
      \/ FlagProbeMissing \/ FindAccessFlags \/ FindClassMembers \/ StubProbeMissing
      => UNCHANGED mapsVars
  BY DEF LoadLibrary, FindArtMethodField, LayoutProbeMissing, MeasureLayout,
         FlagProbeMissing, FindAccessFlags, FindClassMembers, StubProbeMissing
<1>2. \/ ReadProbe \/ NullEntry \/ FindGetModifiers \/ KeepAot
      \/ DropLinkedCode \/ DiscourageCompilation \/ InstallBackup \/ InstallHook
      => UNCHANGED mapsVars
  BY DEF ReadProbe, NullEntry, FindGetModifiers, KeepAot, DropLinkedCode,
         DiscourageCompilation, InstallBackup, InstallHook
<1>3. ASSUME NEW m \in Methods, Unhook(m) PROVE UNCHANGED mapsVars
  BY <1>3 DEF Unhook
<1> QED BY <1>1, <1>2, <1>3 DEF OffTheMap
-----------------------------------------------------------------------------
(* Composition: the initialiser and the hooks walk the memory map the way  *)
(* ProcMaps lets anybody do it.                                            *)

ProbesInv == probed \in (ProbeEntries \cup {Null}) \X (NanoTimeEntries \cup {Null})

LEMMA ProbesInvStep == ProbesInv /\ [Next]_vars => ProbesInv'
<1> SUFFICES ASSUME ProbesInv, [Next]_vars PROVE ProbesInv'
  OBVIOUS
<1> USE DEF ProbesInv
<1>1. CASE ReadProbe
  BY <1>1, StartupAssumption DEF ReadProbe
<1>2. CASE FindGetModifiers
  BY <1>2 DEF FindGetModifiers
<1>3. CASE StubProbeMissing \/ NullEntry \/ ValidateStub
  BY <1>3 DEF StubProbeMissing, NullEntry, ValidateStub, StubNotMeasured
<1>4. \/ LoadLibrary \/ FindArtMethodField \/ LayoutProbeMissing \/ MeasureLayout
      \/ FlagProbeMissing \/ FindAccessFlags \/ FindClassMembers \/ KeepAot
      \/ DropLinkedCode \/ FindStubMapping \/ FindRuntimeMapping \/ PlanRuntimeScan
      => probed' = probed
  BY DEF LoadLibrary, FindArtMethodField, LayoutProbeMissing, MeasureLayout,
         FlagProbeMissing, FindAccessFlags, FindClassMembers, KeepAot, DropLinkedCode,
         FindStubMapping, FindRuntimeMapping, PlanRuntimeScan, measured
<1>5. DiscourageCompilation \/ InstallBackup \/ InstallHook \/ WarnIfAotCompiled
      => probed' = probed
  BY DEF DiscourageCompilation, InstallBackup, InstallHook, WarnIfAotCompiled, measured
<1>6. ASSUME NEW m \in Methods, BeginHook(m) \/ Unhook(m) PROVE probed' = probed
  BY <1>6 DEF BeginHook, Unhook, measured
<1>7. CASE UNCHANGED <<art, pc, missing, measured, memory>>
  BY <1>7 DEF measured
<1>8. CASE UNCHANGED vars
  BY <1>8 DEF vars, measured
<1> QED
  BY <1>1, <1>2, <1>3, <1>4, <1>5, <1>6, <1>7, <1>8
     DEF Next, Proceed, StaticInitializer, Stores

LEMMA ProbesInvHolds == Spec => []ProbesInv
<1>1. Init => ProbesInv
  BY DEF Init, ProbesInv
<1> QED BY <1>1, ProbesInvStep, PTL DEF Spec

LEMMA StepsWalkMaps == ProbesInv /\ [Next]_vars => [MapsNext]_mapsVars
<1> SUFFICES ASSUME ProbesInv, [Next]_vars PROVE [MapsNext]_mapsVars
  OBVIOUS
<1>1. CASE OffTheMap
  BY <1>1, OffTheMapStays
<1>2. CASE FindStubMapping
  BY <1>2, StartupAssumption DEF FindStubMapping, ProbesInv, MapsNext
<1>3. CASE FindRuntimeMapping
  BY <1>3, StartupAssumption DEF FindRuntimeMapping, MapsNext
<1>4. CASE ValidateStub \/ PlanRuntimeScan \/ WarnIfAotCompiled
  BY <1>4 DEF ValidateStub, PlanRuntimeScan, WarnIfAotCompiled, MapsNext
<1>5. CASE ReadLine \/ OtherThreads
  BY <1>5 DEF MapsNext
<1>6. ASSUME NEW m \in Methods, BeginHook(m) PROVE MapsNext
  BY <1>6, StartupAssumption DEF BeginHook, MapsNext
<1>7. CASE UNCHANGED vars
  BY <1>7 DEF vars
<1> QED BY <1>1, <1>2, <1>3, <1>4, <1>5, <1>6, <1>7, NextSplits DEF OnTheMap

(* Whatever the static initialiser and the hooks look up, they look up the   *)
(* way find_mapping() does: their steps are steps of ProcMaps or leave the   *)
(* map and the walk alone (deoptimize.cpp:130-133).                          *)
THEOREM StartupWalksMaps == Spec => MapsSpec
<1>1. Init => MapsInit
  BY DEF Init
<1> QED BY <1>1, ProbesInvHolds, StepsWalkMaps, PTL DEF Spec, MapsSpec

(* In the static initialiser and in hooks, too, a mapping that nobody        *)
(* touches is found, and AOT code told apart by it.                          *)
THEOREM StartupFindsMappings == Spec => [](StableMappingIsFound /\ AotCodeIsToldApart)
BY StartupWalksMaps, MappingsAreFound, AotCodeIsKnown, PTL
-----------------------------------------------------------------------------
(* What init() has measured by the time it is used, and what may have      *)
(* failed by then.                                                         *)

Early    == {"load", "field", "layout"}
Measuring == {"flags", "members", "stub", "validate"}
Hooking  == {"warn", "discourage", "backup", "install"}
Late     == {"modifiers", "aot", "plan", "drop", "ready"}

InitInv ==
    /\ art \in Platforms
    /\ pc \in Early \cup Measuring \cup Late \cup Hooking \cup {"erroneous"}
    /\ initialized \in BOOLEAN
    /\ pc \in Early \cup Measuring => ~initialized /\ missing = "nothing"
    /\ pc \in Measuring => artMethodSize = art.distance /\ Plausible(artMethodSize)
    /\ pc \in Late => (initialized <=> missing = "nothing")
    /\ pc \in Hooking => initialized /\ missing = "nothing" /\ target \in Methods
    /\ pc = "erroneous" => ~initialized
    /\ initialized => artMethodSize = art.distance /\ Plausible(artMethodSize)
    /\ hooked \subseteq Methods
    /\ FlagsOffsetIsAccessFlags

LEMMA PlatformType ==
    ASSUME art \in Platforms
    PROVE  /\ art.size \in Nat /\ art.size >= 2 * Ptr + 16
           /\ \E k \in 1..MaxApart : art.distance = art.size * k
           /\ art.verbatim \in BOOLEAN /\ art.decoys \subseteq Offsets
<1>1. PICK s \in Sizes, k \in 1..MaxApart, d \in DecoySets, v \in BOOLEAN :
          art = [size |-> s, distance |-> s * k, decoys |-> d, verbatim |-> v]
  BY DEF Platforms
<1>2. s \in Nat /\ s >= 2 * Ptr + 16
  BY StartupAssumption
<1>3. d \subseteq Offsets
  BY StartupAssumption
<1>4. art.size = s /\ art.distance = s * k /\ art.decoys = d /\ art.verbatim = v
  BY <1>1
<1> QED BY <1>2, <1>3, <1>4

\* ART's access_flags_ is among the candidates if it stores modifiers
\* verbatim, and so the only candidate is access_flags_.
LEMMA OnlyCandidate ==
    ASSUME art.verbatim, Plausible(artMethodSize), artMethodSize \in Nat,
           NEW o, Candidates(artMethodSize) = {o}
    PROVE  o = AccessFlagsAt
<1>1. artMethodSize >= AccessFlagsAt + Word
  BY StartupAssumption DEF Plausible, AccessFlagsAt, Word
<1>2. AccessFlagsAt \in Candidates(artMethodSize)
  BY <1>1 DEF Candidates, Matches
<1> QED BY <1>2

LEMMA InitInvStep == InitInv /\ [Next]_vars => InitInv'
<1> SUFFICES ASSUME InitInv, [Next]_vars PROVE InitInv'
  OBVIOUS
<1> USE DEF InitInv, Early, Measuring, Hooking, Late, FlagsOffsetIsAccessFlags
<1>1. CASE LoadLibrary \/ FindArtMethodField \/ LayoutProbeMissing
  BY <1>1 DEF LoadLibrary, FindArtMethodField, LayoutProbeMissing, measured, memory
<1>2. CASE MeasureLayout
  BY <1>2 DEF MeasureLayout, memory
<1>3. CASE FlagProbeMissing \/ FindClassMembers
  BY <1>3 DEF FlagProbeMissing, FindClassMembers, measured, memory
<1>4. CASE FindAccessFlags
  <2>1. \E k \in 1..MaxApart : art.distance = art.size * k /\ art.size \in Nat
    BY PlatformType
  <2>2. artMethodSize \in Nat
    BY <1>4, <2>1, StartupAssumption DEF FindAccessFlags
  <2>3. FlagsOffsetIsAccessFlags'
    BY <1>4, <2>2, OnlyCandidate DEF FindAccessFlags
  <2> QED BY <1>4, <2>3 DEF FindAccessFlags, memory
<1>5. CASE StubProbeMissing \/ NullEntry
  BY <1>5 DEF StubProbeMissing, NullEntry, StubNotMeasured, memory
<1>6. CASE ReadProbe \/ FindStubMapping
  BY <1>6 DEF ReadProbe, FindStubMapping, measured, memory
<1>7. CASE ValidateStub
  BY <1>7 DEF ValidateStub, StubNotMeasured, memory
<1>8. CASE FindGetModifiers \/ KeepAot \/ FindRuntimeMapping \/ PlanRuntimeScan
           \/ DropLinkedCode
  BY <1>8 DEF FindGetModifiers, KeepAot, FindRuntimeMapping, PlanRuntimeScan,
              DropLinkedCode, measured, memory
<1>9. ASSUME NEW m \in Methods, BeginHook(m) \/ Unhook(m) PROVE InitInv'
  BY <1>9 DEF BeginHook, Unhook, measured
<1>10. CASE WarnIfAotCompiled \/ DiscourageCompilation \/ InstallBackup
  BY <1>10 DEF WarnIfAotCompiled, DiscourageCompilation, InstallBackup, measured, memory
<1>11. CASE InstallHook
  BY <1>11 DEF InstallHook, measured
<1>12. CASE UNCHANGED <<art, pc, missing, measured, memory>>
  BY <1>12 DEF measured, memory
<1>13. CASE UNCHANGED vars
  BY <1>13 DEF vars, measured, memory
<1> QED
  BY <1>1, <1>2, <1>3, <1>4, <1>5, <1>6, <1>7, <1>8, <1>9, <1>10, <1>11, <1>12, <1>13
     DEF Next, Proceed, StaticInitializer, Stores

(* The order of init(), as an inductive invariant: what is measured and what *)
(* may be missing at each of its steps (arthooks.cpp:294-310,                *)
(* art_method.cpp:277-291, class_init.cpp:210-248).                          *)
THEOREM InitInvHolds == Spec => []InitInv
<1>1. Init => InitInv
  BY DEF Init, InitInv, Early, Measuring, Hooking, Late, FlagsOffsetIsAccessFlags
<1> QED BY <1>1, InitInvStep, PTL DEF Spec

(* Whatever else in an ArtMethod looks like the probes' modifiers, and       *)
(* however far apart the layout probes are, nothing but access_flags_ is     *)
(* taken for it (art_method.cpp:196-229).                                    *)
THEOREM FlagsAreFound == Spec => []FlagsOffsetIsAccessFlags
<1>1. InitInv => FlagsOffsetIsAccessFlags
  BY DEF InitInv
<1> QED BY <1>1, InitInvHolds, PTL

(* init() fails exactly if something hooking cannot do without is missing.   *)
THEOREM AdvisoryPartsMayFail == Spec => []OnlyRequiredPartsCostTheLibrary
<1>1. InitInv => OnlyRequiredPartsCostTheLibrary
  BY DEF InitInv, OnlyRequiredPartsCostTheLibrary, Late
<1> QED BY <1>1, InitInvHolds, PTL
-----------------------------------------------------------------------------
(* Where the stores land.                                                  *)

\* Were the probes k methods apart, the offset would be off by k - 1 methods.
LEMMA SlotOfSomeMethod ==
    ASSUME NEW m \in Nat, NEW a \in Nat, NEW p \in Nat, NEW s \in Nat, NEW k \in Nat
    PROVE  (a + m * s) + (s * k - p) = (a + (m + (k - 1)) * s) + s - p
<1>1. (m + (k - 1)) * s = m * s + k * s - s
  OBVIOUS
<1>2. m * s \in Nat /\ k * s \in Nat /\ k * s = s * k
  OBVIOUS
<1> QED BY <1>1, <1>2

\* Only the platform that was measured makes both distances alike.
LEMMA AdjacentProbes ==
    ASSUME NEW s \in Nat, NEW k \in Nat, s > 0, s * k = s
    PROVE  k = 1
OBVIOUS

LEMMA EntryStoreHits ==
    ASSUME InitInv, initialized, NEW m \in Methods
    PROVE  HitsItsField([method |-> m, at |-> Base(m) + entryPointOffset, length |-> Ptr])
<1> DEFINE w == [method |-> m, at |-> Base(m) + entryPointOffset, length |-> Ptr]
<1>1. PICK k \in 1..MaxApart : art.distance = art.size * k
  BY PlatformType DEF InitInv
<1>2. /\ art.size \in Nat /\ art.size > 0 /\ k \in Nat /\ m \in Nat
      /\ ArrayAt \in Nat /\ Ptr \in Nat /\ MaxApart \in Nat
  BY PlatformType, StartupAssumption DEF InitInv
<1>3. artMethodSize = art.size * k
  BY <1>1 DEF InitInv
<1>4. w.at = (ArrayAt + m * art.size) + (art.size * k - Ptr)
  BY <1>3 DEF Base, entryPointOffset
<1>5. w.at = EntrySlot(m + (k - 1))
  BY <1>2, <1>4, SlotOfSomeMethod DEF EntrySlot, Base
<1>6. k - 1 \in 0..(MaxApart - 1)
  BY <1>2
<1>7. art.distance = art.size => w.at = EntrySlot(m)
  <2> SUFFICES ASSUME art.distance = art.size PROVE w.at = EntrySlot(m)
    OBVIOUS
  <2>1. k = 1
    BY <1>1, <1>2, AdjacentProbes
  <2>2. m + (k - 1) = m
    BY <1>2, <2>1
  <2> QED BY <1>5, <2>2
<1>8. w.method = m /\ w.length = Ptr
  OBVIOUS
<1> HIDE DEF w
<1>9. HitsItsField(w)
  BY <1>5, <1>6, <1>7, <1>8 DEF HitsItsField
<1> QED BY <1>9 DEF w

LEMMA FlagsStoreHits ==
    ASSUME InitInv, art.verbatim, accessFlagsOffset # NoOffset, NEW m
    PROVE  HitsItsField([method |-> m, at |-> Base(m) + accessFlagsOffset, length |-> Word])
BY DEF InitInv, FlagsOffsetIsAccessFlags, HitsItsField

LEMMA NextLeavesArt == [Next]_vars => art' = art
<1> SUFFICES ASSUME [Next]_vars PROVE art' = art
  OBVIOUS
<1>1. \/ LoadLibrary \/ FindArtMethodField \/ LayoutProbeMissing \/ MeasureLayout
      \/ FlagProbeMissing \/ FindAccessFlags \/ FindClassMembers \/ StubProbeMissing
      => art' = art
  BY DEF LoadLibrary, FindArtMethodField, LayoutProbeMissing, MeasureLayout,
         FlagProbeMissing, FindAccessFlags, FindClassMembers, StubProbeMissing
<1>2. \/ ReadProbe \/ NullEntry \/ FindGetModifiers \/ KeepAot
      \/ DropLinkedCode \/ DiscourageCompilation \/ InstallBackup \/ InstallHook
      => art' = art
  BY DEF ReadProbe, NullEntry, FindGetModifiers, KeepAot, DropLinkedCode,
         DiscourageCompilation, InstallBackup, InstallHook
<1>3. \/ FindStubMapping \/ ValidateStub \/ FindRuntimeMapping \/ PlanRuntimeScan
      \/ WarnIfAotCompiled
      => art' = art
  BY DEF FindStubMapping, ValidateStub, FindRuntimeMapping, PlanRuntimeScan,
         WarnIfAotCompiled
<1>4. ASSUME NEW m \in Methods, BeginHook(m) \/ Unhook(m) PROVE art' = art
  BY <1>4 DEF BeginHook, Unhook
<1> QED BY <1>1, <1>2, <1>3, <1>4, NextSplits DEF OffTheMap, OnTheMap, vars

\* A step stores nothing, or one field of a method.
StoresOne ==
    \/ written' = written
    \/ accessFlagsOffset # NoOffset /\ WriteTo(target, accessFlagsOffset, Word)
    \/ \E m \in Methods : initialized /\ WriteTo(m, entryPointOffset, Ptr)

LEMMA StepStoresOne == InitInv /\ [Next]_vars => StoresOne
<1> SUFFICES ASSUME InitInv, [Next]_vars PROVE StoresOne
  OBVIOUS
<1> USE DEF StoresOne, memory
<1>1. \/ LoadLibrary \/ FindArtMethodField \/ LayoutProbeMissing \/ MeasureLayout
      \/ FlagProbeMissing \/ FindAccessFlags \/ FindClassMembers \/ StubProbeMissing
      => written' = written
  BY DEF LoadLibrary, FindArtMethodField, LayoutProbeMissing, MeasureLayout,
         FlagProbeMissing, FindAccessFlags, FindClassMembers, StubProbeMissing
<1>2. \/ ReadProbe \/ NullEntry \/ FindGetModifiers \/ KeepAot \/ DropLinkedCode
      \/ FindStubMapping \/ ValidateStub \/ FindRuntimeMapping \/ PlanRuntimeScan
      \/ WarnIfAotCompiled
      => written' = written
  BY DEF ReadProbe, NullEntry, FindGetModifiers, KeepAot, DropLinkedCode,
         FindStubMapping, ValidateStub, FindRuntimeMapping, PlanRuntimeScan,
         WarnIfAotCompiled
<1>3. CASE DiscourageCompilation
  BY <1>3 DEF DiscourageCompilation
<1>4. CASE InstallBackup
  BY <1>4 DEF InstallBackup, InitInv, Hooking
<1>5. CASE InstallHook
  BY <1>5 DEF InstallHook, InitInv, Hooking
<1>6. ASSUME NEW m \in Methods, BeginHook(m) \/ Unhook(m) PROVE StoresOne
  BY <1>6 DEF BeginHook, Unhook
<1> QED BY <1>1, <1>2, <1>3, <1>4, <1>5, <1>6, NextSplits DEF OffTheMap, OnTheMap, vars

LEMMA StoresStep == InitInv /\ StoresHitTheirFields /\ [Next]_vars => StoresHitTheirFields'
<1> SUFFICES ASSUME InitInv, StoresHitTheirFields, [Next]_vars, art.verbatim
             PROVE  \A w \in written' : HitsItsField(w)
  <2> SUFFICES ASSUME InitInv, StoresHitTheirFields, [Next]_vars,
                      art.verbatim => \A w \in written' : HitsItsField(w)
               PROVE  StoresHitTheirFields'
    OBVIOUS
  <2>1. art' = art
    BY NextLeavesArt
  <2>2. ASSUME NEW w PROVE HitsItsField(w)' <=> HitsItsField(w)
    BY <2>1 DEF HitsItsField, EntrySlot, Base
  <2> QED BY <2>1, <2>2 DEF StoresHitTheirFields
<1>1. \A w \in written : HitsItsField(w)
  BY DEF StoresHitTheirFields
<1>2. CASE written' = written
  BY <1>1, <1>2
<1>3. CASE accessFlagsOffset # NoOffset /\ WriteTo(target, accessFlagsOffset, Word)
  BY <1>1, <1>3, FlagsStoreHits DEF WriteTo
<1>4. ASSUME NEW m \in Methods, initialized, WriteTo(m, entryPointOffset, Ptr)
      PROVE  \A w \in written' : HitsItsField(w)
  BY <1>1, <1>4, EntryStoreHits DEF WriteTo
<1> QED BY <1>2, <1>3, <1>4, StepStoresOne DEF StoresOne

(* Every store of a hook hits the access flags or the entry point of its     *)
(* method, for every size of ArtMethod; if the probes were not adjacent, the *)
(* entry point slot of a method further on (art_method.cpp:94-107).          *)
THEOREM StoresAreAimed == Spec => []StoresHitTheirFields
<1>1. Init => StoresHitTheirFields
  BY DEF Init, StoresHitTheirFields
<1> QED BY <1>1, StoresStep, InitInvHolds, PTL DEF Spec
-----------------------------------------------------------------------------
(* What init() and disable_aot() make of the answers of their walks.       *)

WalkInv ==
    /\ walk # NoWalk => pc \in {"validate", "plan", "warn"}
    /\ pc = "validate" /\ walk # NoWalk => walk.pointer = probed[1]
    /\ pc = "plan" /\ walk # NoWalk => walk.pointer = scan.runtime
    /\ scan \in [runtime : Runtimes \cup {Null}, bytes : Int]
    /\ pc = "plan" => scan.bytes = 0
    /\ pc \in Early \cup Measuring => stub = Null
    /\ RuntimeScanStaysMapped
    /\ MeasuredStubIsTheStub

\* The answer to a walk, if there is one, is the mapping nobody touches that
\* the pointer lies in.
LEMMA AnswerIsFixed ==
    ASSUME MapsInv, Finished, walk.answer # NoMapping, NEW m \in Fixed,
           Contains(m, AddressOf(walk.pointer))
    PROVE  walk.answer = m
<1>1. walk.at = "answered"
  BY DEF MapsInv, Finished, Walks
<1> QED BY <1>1 DEF MapsInv, StableMappingIsFound

LEMMA ReadingKeepsPointer ==
    ASSUME MapsInv, ReadLine PROVE walk # NoWalk /\ walk'.pointer = walk.pointer
<1>1. walk \in Walks /\ walk # NoWalk
  BY DEF MapsInv, ReadLine, ReadMatch, ReadPast, EndOfFile, Reading
<1>2. CASE EndOfFile
  BY <1>1, <1>2 DEF EndOfFile, Answer, Walks
<1>3. ASSUME NEW m \in mapped, ReadMatch(m) PROVE walk'.pointer = walk.pointer
  BY <1>1, <1>3 DEF ReadMatch, Answer, Walks
<1>4. ASSUME NEW m \in mapped, ReadPast(m) PROVE walk'.pointer = walk.pointer
  BY <1>1, <1>4 DEF ReadPast, Walks
<1> QED BY <1>1, <1>2, <1>3, <1>4 DEF ReadLine

LEMMA ScanIsPlanned ==
    ASSUME MapsInv, WalkInv, PlanRuntimeScan
    PROVE  RuntimeScanStaysMapped' /\ scan' \in [runtime : Runtimes \cup {Null}, bytes : Int]
<1> DEFINE bytes == BytesFrom(walk.answer, scan.runtime)
<1>1. /\ Finished /\ walk.pointer = scan.runtime
      /\ scan \in [runtime : Runtimes \cup {Null}, bytes : Int]
      /\ scan' = [scan EXCEPT !.bytes =
                     IF walk.answer = NoMapping THEN 0
                     ELSE IF bytes < RuntimeScanBytes THEN bytes ELSE RuntimeScanBytes]
  BY DEF PlanRuntimeScan, TakeAnswer, Finished, WalkInv
<1>2. RuntimeScanBytes \in Nat
  BY StartupAssumption
<1>3. walk.pointer \in Pointers /\ walk.answer \in Mappings \cup {NoMapping}
  BY <1>1 DEF MapsInv, Finished, Walks
<1>4. untagged(scan.runtime) \in Nat /\ AddressOf(scan.runtime) = untagged(scan.runtime)
  BY <1>1, <1>3, PointerType
<1>5. walk.answer # NoMapping => bytes \in Int
  BY <1>3, <1>4, MappingType DEF BytesFrom
<1>6. scan' \in [runtime : Runtimes \cup {Null}, bytes : Int] /\ scan'.runtime = scan.runtime
  BY <1>1, <1>2, <1>5
<1>7. ASSUME NEW m \in Fixed, Contains(m, AddressOf(scan.runtime))
      PROVE  AddressOf(scan.runtime) + scan'.bytes <= m.end
  <2>1. m.end \in Nat /\ untagged(scan.runtime) < m.end
    BY <1>4, <1>7, MapsAssumption, MappingType DEF Contains
  <2>2. CASE walk.answer = NoMapping
    <3>1. scan'.bytes = 0
      BY <1>1, <2>2
    <3> QED BY <1>4, <2>1, <3>1
  <2>3. CASE walk.answer # NoMapping
    <3>1. bytes = m.end - untagged(scan.runtime)
      BY <1>1, <1>7, <2>3, AnswerIsFixed DEF BytesFrom
    <3>2. scan'.bytes <= bytes
      BY <1>1, <1>2, <1>5, <2>3
    <3>3. scan'.bytes \in Int
      BY <1>6
    <3> QED BY <1>4, <2>1, <3>1, <3>2, <3>3
  <2> QED BY <2>2, <2>3
<1> QED BY <1>6, <1>7 DEF RuntimeScanStaysMapped, AddressOf

LEMMA StubIsValidated ==
    ASSUME MapsInv, WalkInv, ValidateStub
    PROVE  MeasuredStubIsTheStub'
<1>1. Finished /\ walk.pointer = probed[1] /\ stub = Null
  BY DEF ValidateStub, TakeAnswer, Finished, WalkInv, Measuring
<1>2. CASE ~IsTheStub
  BY <1>1, <1>2 DEF ValidateStub, StubNotMeasured, MeasuredStubIsTheStub
<1>3. CASE IsTheStub
  <2>1. stub' = probed[1] /\ probed' = probed
    BY <1>3 DEF ValidateStub
  <2>2. walk.answer # NoMapping /\ walk.answer.file = "libart"
    BY <1>3 DEF IsTheStub, IsInLibart
  <2>3. \A m \in Fixed : Contains(m, AddressOf(probed[1])) => m.file = "libart"
    BY <1>1, <2>2, AnswerIsFixed
  <2>4. stub' # Null => probed[2] # probed[1]
    BY <1>3, <2>1 DEF IsTheStub
  <2> QED BY <2>1, <2>3, <2>4 DEF MeasuredStubIsTheStub, AddressOf
<1> QED BY <1>2, <1>3

LEMMA WalkInvStep == MapsInv /\ InitInv /\ WalkInv /\ [Next]_vars => WalkInv'
<1> SUFFICES ASSUME MapsInv, InitInv, WalkInv, [Next]_vars PROVE WalkInv'
  OBVIOUS
<1> USE DEF WalkInv, RuntimeScanStaysMapped, MeasuredStubIsTheStub, AddressOf
<1>1. CASE \/ LoadLibrary \/ FindArtMethodField \/ LayoutProbeMissing \/ MeasureLayout
           \/ FlagProbeMissing \/ FindAccessFlags \/ FindClassMembers
  BY <1>1 DEF LoadLibrary, FindArtMethodField, LayoutProbeMissing, MeasureLayout,
              FlagProbeMissing, FindAccessFlags, FindClassMembers, mapsVars, measured,
              Early, Measuring
<1>2. CASE StubProbeMissing \/ NullEntry
  BY <1>2 DEF StubProbeMissing, NullEntry, StubNotMeasured, mapsVars, Early, Measuring
<1>3. CASE ReadProbe
  BY <1>3 DEF ReadProbe, mapsVars, Early, Measuring
<1>4. CASE FindStubMapping
  <2>1. walk'.pointer = probed[1] /\ pc = "validate" /\ pc' = pc
    BY <1>4 DEF FindStubMapping, FindMapping
  <2> QED BY <1>4, <2>1 DEF FindStubMapping, measured, Early, Measuring
<1>5. CASE ValidateStub
  <2>1. MeasuredStubIsTheStub'
    BY <1>5, StubIsValidated
  <2>2. walk' = NoWalk /\ pc' = "modifiers" /\ scan' = scan
    BY <1>5 DEF ValidateStub, TakeAnswer, StubNotMeasured
  <2> QED BY <2>1, <2>2 DEF Early, Measuring
<1>6. CASE FindGetModifiers \/ KeepAot \/ DropLinkedCode
  BY <1>6 DEF FindGetModifiers, KeepAot, DropLinkedCode, mapsVars, measured, Early, Measuring
<1>7. CASE FindRuntimeMapping
  <2>1. PICK runtime \in Runtimes :
            FindMapping(runtime) /\ scan' = [runtime |-> runtime, bytes |-> 0]
    BY <1>7 DEF FindRuntimeMapping
  <2>2. walk'.pointer = runtime
    BY <2>1 DEF FindMapping
  <2>3. untagged(runtime) \in Nat /\ AddressOf(runtime) = untagged(runtime)
    BY StartupAssumption, PointerType
  <2>4. ASSUME NEW m \in Fixed, Contains(m, AddressOf(runtime))
        PROVE  AddressOf(runtime) + 0 <= m.end
    BY <2>3, <2>4, MapsAssumption, MappingType DEF Contains
  <2>5. /\ pc' = "plan" /\ scan'.runtime = runtime /\ scan'.bytes = 0
        /\ stub' = stub /\ probed' = probed
        /\ scan' \in [runtime : Runtimes \cup {Null}, bytes : Int]
    BY <1>7, <2>1 DEF FindRuntimeMapping
  <2>6. RuntimeScanStaysMapped'
    BY <2>4, <2>5
  <2>7. MeasuredStubIsTheStub'
    BY <2>5
  <2> QED BY <2>2, <2>5, <2>6, <2>7 DEF Early, Measuring
<1>8. CASE PlanRuntimeScan
  <2>1. RuntimeScanStaysMapped' /\ scan' \in [runtime : Runtimes \cup {Null}, bytes : Int]
    BY <1>8, ScanIsPlanned
  <2>2. walk' = NoWalk /\ pc' = "drop" /\ stub' = stub /\ probed' = probed
    BY <1>8 DEF PlanRuntimeScan, TakeAnswer
  <2> QED BY <2>1, <2>2 DEF Early, Measuring
<1>9. ASSUME NEW m \in Methods, BeginHook(m) \/ Unhook(m) PROVE WalkInv'
  BY <1>9 DEF BeginHook, Unhook, FindMapping, mapsVars, measured, Early, Measuring
<1>10. CASE WarnIfAotCompiled
  BY <1>10 DEF WarnIfAotCompiled, TakeAnswer, measured, Early, Measuring
<1>11. CASE DiscourageCompilation \/ InstallBackup \/ InstallHook
  BY <1>11 DEF DiscourageCompilation, InstallBackup, InstallHook, mapsVars, measured,
               Early, Measuring
<1>12. CASE ReadLine /\ UNCHANGED <<art, pc, missing, measured, memory>>
  BY <1>12, ReadingKeepsPointer DEF measured
<1>13. CASE OtherThreads /\ UNCHANGED <<art, pc, missing, measured, memory>>
  BY <1>13 DEF OtherThreads, measured
<1>14. CASE UNCHANGED vars
  BY <1>14 DEF vars, mapsVars, measured
<1> QED
  BY <1>1, <1>2, <1>3, <1>4, <1>5, <1>6, <1>7, <1>8, <1>9, <1>10, <1>11, <1>12, <1>13, <1>14
     DEF Next, Proceed, StaticInitializer, Stores

LEMMA WalkInvHolds == Spec => []WalkInv
<1>1. Init => WalkInv
  <2> SUFFICES ASSUME Init PROVE WalkInv
    OBVIOUS
  <2>1. /\ walk = NoWalk /\ pc = "load" /\ stub = Null
        /\ scan = [runtime |-> Null, bytes |-> 0]
    BY DEF Init, MapsInit
  <2> QED
    BY <2>1 DEF WalkInv, RuntimeScanStaysMapped, MeasuredStubIsTheStub
<1>2. Spec => []MapsInv
  BY StartupWalksMaps, MapsInvHolds, PTL
<1> QED BY <1>1, <1>2, InitInvHolds, WalkInvStep, PTL DEF Spec

(* disable_aot() reads no word of art::Runtime that is not mapped: the end   *)
(* of the mapping is that of the runtime's, and its tag does not count       *)
(* (deoptimize.cpp:294-298).                                                 *)
THEOREM ScansStayMapped == Spec => []RuntimeScanStaysMapped
<1>1. WalkInv => RuntimeScanStaysMapped
  BY DEF WalkInv
<1> QED BY <1>1, WalkInvHolds, PTL

(* What is trusted as the resolution stub lies in libart, and is another     *)
(* entry point than that of a native whose class is initialised              *)
(* (class_init.cpp:107-124).                                                 *)
THEOREM StubsAreValidated == Spec => []MeasuredStubIsTheStub
<1>1. WalkInv => MeasuredStubIsTheStub
  BY DEF WalkInv
<1> QED BY <1>1, WalkInvHolds, PTL
-----------------------------------------------------------------------------
(* Types, from all of the above.                                           *)

TypeInv ==
    /\ artMethodSize = 0 \/ Plausible(artMethodSize)
    /\ accessFlagsOffset \in Offsets \cup {NoOffset}
    /\ stub \in ProbeEntries \cup {Null}
    /\ target # Null <=> pc \in Hooking
    /\ \A w \in written : w.method \in Methods

LEMMA TypeInvStep == InitInv /\ ProbesInv /\ TypeInv /\ [Next]_vars => TypeInv'
<1> SUFFICES ASSUME InitInv, ProbesInv, TypeInv, [Next]_vars PROVE TypeInv'
  OBVIOUS
<1> USE DEF TypeInv, Hooking
<1>1. CASE \/ LoadLibrary \/ FindArtMethodField \/ LayoutProbeMissing \/ FlagProbeMissing
           \/ FindClassMembers \/ FindGetModifiers \/ KeepAot \/ DropLinkedCode
           \/ FindRuntimeMapping \/ PlanRuntimeScan \/ ReadProbe \/ FindStubMapping
  BY <1>1 DEF LoadLibrary, FindArtMethodField, LayoutProbeMissing, FlagProbeMissing,
              FindClassMembers, FindGetModifiers, KeepAot, DropLinkedCode,
              FindRuntimeMapping, PlanRuntimeScan, ReadProbe, FindStubMapping,
              measured, memory
<1>2. CASE MeasureLayout
  BY <1>2 DEF MeasureLayout, memory
<1>3. CASE FindAccessFlags
  <2>1. Candidates(artMethodSize) \subseteq Offsets
    <3>1. AccessFlagsAt = Word * 1 /\ 1 \in 0..32
      BY DEF AccessFlagsAt, Word
    <3>2. AccessFlagsAt \in Offsets
      BY <3>1 DEF Offsets
    <3> QED BY <3>2, PlatformType DEF InitInv, Candidates, Matches
  <2>2. accessFlagsOffset' \in Offsets \cup {NoOffset}
    BY <1>3, <2>1 DEF FindAccessFlags
  <2> QED BY <1>3, <2>2 DEF FindAccessFlags, memory
<1>4. CASE StubProbeMissing \/ NullEntry
  BY <1>4 DEF StubProbeMissing, NullEntry, StubNotMeasured, memory
<1>5. CASE ValidateStub
  BY <1>5 DEF ValidateStub, StubNotMeasured, ProbesInv, memory
<1>6. ASSUME NEW m \in Methods, BeginHook(m) \/ Unhook(m) PROVE TypeInv'
  BY <1>6, StartupAssumption DEF BeginHook, Unhook, WriteTo, measured
<1>7. CASE WarnIfAotCompiled \/ DiscourageCompilation \/ InstallBackup \/ InstallHook
  BY <1>7 DEF WarnIfAotCompiled, DiscourageCompilation, InstallBackup, InstallHook,
              WriteTo, InitInv, measured, memory
<1>8. CASE UNCHANGED <<art, pc, missing, measured, memory>>
  BY <1>8 DEF measured, memory
<1>9. CASE UNCHANGED vars
  BY <1>9 DEF vars, measured, memory
<1> QED
  BY <1>1, <1>2, <1>3, <1>4, <1>5, <1>6, <1>7, <1>8, <1>9
     DEF Next, Proceed, StaticInitializer, Stores

(* The types of what is measured, and where a walk of the memory map may be  *)
(* in progress.                                                              *)
THEOREM StartupTypeCorrect == Spec => []StartupTypeOK
<1>1. Init => TypeInv
  BY DEF Init, TypeInv, Hooking
<1>2. Spec => []TypeInv
  BY <1>1, TypeInvStep, InitInvHolds, ProbesInvHolds, PTL DEF Spec
<1>3. Spec => []MapsInv
  BY StartupWalksMaps, MapsInvHolds, PTL
<1>4. MapsInv /\ InitInv /\ WalkInv /\ TypeInv => StartupTypeOK
  <2>1. ~Plausible(0)
    BY StartupAssumption DEF Plausible
  <2> QED BY <2>1 DEF MapsInv, InitInv, WalkInv, TypeInv, StartupTypeOK, Hooking
<1> QED BY <1>2, <1>3, <1>4, InitInvHolds, WalkInvHolds, PTL
=============================================================================
