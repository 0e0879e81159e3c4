--------------------------- MODULE ProcMaps_proofs --------------------------
(***************************************************************************)
(* What find_mapping() answers, for any address space and any number of    *)
(* mappings coming and going while it reads.                               *)
(***************************************************************************)
EXTENDS ProcMaps, TLAPS

\* The places of a mapping, without the rest of the assumption on them.
LEMMA MappingType ==
    ASSUME NEW m \in Mappings
    PROVE  m.start \in Nat /\ m.end \in Nat /\ m.start < m.end /\ m.file \in Files
BY MapsAssumption

LEMMA PointerType ==
    ASSUME NEW p \in Pointers
    PROVE  untagged(p) \in Nat /\ AddressOf(p) = untagged(p)
BY MapsAssumption DEF untagged, AddressOf

\* Two mappings of one layout that hold the same address are one mapping.
LEMMA OneMappingPerAddress ==
    ASSUME NEW ms \in Layouts, NEW m \in ms, NEW n \in ms, NEW a \in Nat,
           Contains(m, a), Contains(n, a)
    PROVE  m = n
<1>1. m \in Mappings /\ n \in Mappings
  BY DEF Layouts
<1>2. m.start \in Nat /\ m.end \in Nat /\ n.start \in Nat /\ n.end \in Nat
  BY <1>1, MappingType
<1>3. ~Disjoint(m, n)
  BY <1>2 DEF Disjoint, Contains
<1> QED BY <1>3 DEF Layouts, PairwiseDisjoint
-----------------------------------------------------------------------------
Walks == [at : {"reading", "answered", "unopened"}, pointer : Pointers, cursor : Nat,
          answer : Mappings \cup {NoMapping}]

\* The walk has not read past the mapping it looks for, if nobody touches that.
NotPastIt ==
    Reading =>
        \A m \in Fixed : Contains(m, untagged(walk.pointer)) => walk.cursor <= m.start

MapsInv ==
    /\ mapped \in Layouts
    /\ walk # NoWalk => walk \in Walks /\ (walk.at = "unopened" => walk.answer = NoMapping)
    /\ NotPastIt
    /\ StableMappingIsFound

\* What other threads do to the memory leaves a layout behind, in which every
\* mapping nobody touches still lies.
LEMMA LayoutsStay ==
    ASSUME mapped \in Layouts, OtherThreads
    PROVE  mapped' \in Layouts
<1>1. mapped \subseteq Mappings /\ Fixed \subseteq mapped /\ PairwiseDisjoint(mapped)
  BY DEF Layouts
<1>2. CASE \E m \in Mappings \ mapped :
              (\A n \in mapped : Disjoint(m, n)) /\ mapped' = mapped \cup {m}
  <2>1. PICK m \in Mappings \ mapped :
            (\A n \in mapped : Disjoint(m, n)) /\ mapped' = mapped \cup {m}
    BY <1>2
  <2>2. \A n \in mapped : Disjoint(n, m)
    BY <2>1 DEF Disjoint
  <2> QED BY <1>1, <2>1, <2>2 DEF Layouts, PairwiseDisjoint
<1>3. CASE \E m \in mapped \ Fixed : mapped' = mapped \ {m}
  BY <1>1, <1>3 DEF Layouts, PairwiseDisjoint
<1>4. CASE \E m \in mapped \ Fixed, n \in Mappings \ mapped :
              /\ n.start = m.start /\ n.end = m.end
              /\ mapped' = (mapped \ {m}) \cup {n}
  <2>1. PICK m \in mapped \ Fixed, n \in Mappings \ mapped :
            /\ n.start = m.start /\ n.end = m.end
            /\ mapped' = (mapped \ {m}) \cup {n}
    BY <1>4
  <2>2. \A x \in mapped \ {m} : Disjoint(n, x) /\ Disjoint(x, n)
    BY <1>1, <2>1 DEF PairwiseDisjoint, Disjoint
  <2> QED BY <1>1, <2>1, <2>2 DEF Layouts, PairwiseDisjoint
<1> QED BY <1>2, <1>3, <1>4 DEF OtherThreads

LEMMA MapsInvInit == MapsInit => MapsInv
BY DEF MapsInit, MapsInv, NotPastIt, StableMappingIsFound, Reading, Finished

LEMMA MapsInvStep == MapsInv /\ [MapsNext]_mapsVars => MapsInv'
<1> SUFFICES ASSUME MapsInv, [MapsNext]_mapsVars PROVE MapsInv'
  OBVIOUS
<1> USE DEF MapsInv
<1>1. CASE OtherThreads
  <2>1. mapped' \in Layouts
    BY <1>1, LayoutsStay
  <2>2. walk' = walk
    BY <1>1 DEF OtherThreads
  <2> QED BY <2>1, <2>2 DEF NotPastIt, StableMappingIsFound, Reading, Finished
<1>2. ASSUME NEW p \in Pointers, FindMapping(p) PROVE MapsInv'
  <2>1. PICK where \in {"reading", "unopened"} :
            walk' = [at |-> where, pointer |-> p, cursor |-> 0, answer |-> NoMapping]
    BY <1>2 DEF FindMapping
  <2>2. walk' \in Walks
    BY <2>1 DEF Walks
  <2>3. NotPastIt'
    <3>1. \A m \in Fixed : 0 <= m.start
      BY MapsAssumption, MappingType
    <3> QED BY <2>1, <3>1 DEF NotPastIt
  <2>4. StableMappingIsFound'
    BY <2>1 DEF StableMappingIsFound
  <2> QED BY <1>2, <2>2, <2>3, <2>4 DEF FindMapping
<1>3. CASE ReadLine
  <2> DEFINE target == untagged(walk.pointer)
  <2>1. /\ Reading /\ walk \in Walks /\ walk.pointer \in Pointers
        /\ walk.cursor \in Nat /\ target \in Nat /\ AddressOf(walk.pointer) = target
    BY <1>3, PointerType DEF ReadLine, ReadMatch, ReadPast, EndOfFile, Reading, Walks
  <2>2. \A m \in Fixed : m \in mapped /\ m \in Mappings
    BY MapsAssumption DEF Layouts
  <2>3. \A m \in Fixed : Contains(m, target) => walk.cursor <= m.start
    BY <2>1 DEF NotPastIt
  <2>4. ASSUME NEW m \in mapped, ReadMatch(m) PROVE MapsInv'
    <3>1. /\ mapped' = mapped
          /\ walk' = [walk EXCEPT !.at = "answered", !.answer = m]
      BY <2>4 DEF ReadMatch, Answer
    <3>2. m \in Mappings /\ Contains(m, target)
      BY <2>4 DEF ReadMatch, LineMatches, Layouts
    <3>3. \A n \in Fixed : Contains(n, target) => n = m
      BY <2>1, <2>2, <3>2, OneMappingPerAddress
    <3>4. walk' \in Walks /\ walk'.at = "answered" /\ walk'.answer = m
          /\ walk'.pointer = walk.pointer
      BY <2>1, <3>1, <3>2 DEF Walks
    <3> QED BY <2>1, <3>1, <3>3, <3>4 DEF NotPastIt, StableMappingIsFound, Reading, AddressOf, untagged
  <2>5. ASSUME NEW m \in mapped, ReadPast(m) PROVE MapsInv'
    <3>1. /\ mapped' = mapped
          /\ walk' = [walk EXCEPT !.cursor = m.end]
          /\ IsNextLine(m) /\ ~Contains(m, target)
      BY <2>5 DEF ReadPast, LineMatches
    <3>2. m \in Mappings /\ m.start \in Nat /\ m.end \in Nat
      BY MappingType DEF Layouts
    <3>3. ASSUME NEW n \in Fixed, Contains(n, target) PROVE m.end <= n.start
      <4>1. n \in mapped /\ n.start \in Nat /\ n.end \in Nat /\ n.start < n.end
        BY <2>2, MappingType
      <4>2. n # m /\ walk.cursor < n.end
        BY <2>1, <2>3, <3>1, <3>3, <4>1
      <4>3. m.start <= n.start
        BY <2>1, <3>1, <4>1, <4>2 DEF IsNextLine
      <4>4. Disjoint(m, n)
        BY <4>1, <4>2 DEF Layouts, PairwiseDisjoint
      <4> QED BY <3>2, <4>1, <4>3, <4>4 DEF Disjoint
    <3>4. walk' \in Walks /\ walk'.at = "reading" /\ walk'.cursor = m.end
          /\ walk'.pointer = walk.pointer
      BY <2>1, <3>1, <3>2 DEF Walks, Reading
    <3> QED BY <3>1, <3>3, <3>4 DEF NotPastIt, StableMappingIsFound
  <2>6. CASE EndOfFile
    <3>1. /\ mapped' = mapped
          /\ walk' = [walk EXCEPT !.at = "answered", !.answer = NoMapping]
          /\ \A m \in mapped : m.end <= walk.cursor
      BY <2>6 DEF EndOfFile, Answer
    <3>2. \A m \in Fixed : ~Contains(m, target)
      <4> SUFFICES ASSUME NEW m \in Fixed, Contains(m, target) PROVE FALSE
        OBVIOUS
      <4>1. m.end <= walk.cursor /\ walk.cursor <= m.start
        BY <2>2, <2>3, <3>1
      <4> QED BY <2>1, <2>2, <4>1, MappingType
    <3>3. walk' \in Walks /\ walk'.at = "answered" /\ walk'.pointer = walk.pointer
      BY <2>1, <3>1 DEF Walks
    <3> QED BY <2>1, <3>1, <3>2, <3>3 DEF NotPastIt, StableMappingIsFound, Reading, AddressOf, untagged
  <2> QED BY <1>3, <2>4, <2>5, <2>6 DEF ReadLine
<1>4. CASE TakeAnswer
  BY <1>4 DEF TakeAnswer, NotPastIt, StableMappingIsFound, Reading, Finished
<1>5. CASE UNCHANGED mapsVars
  BY <1>5 DEF mapsVars, NotPastIt, StableMappingIsFound, Reading, Finished
<1> QED BY <1>1, <1>2, <1>3, <1>4, <1>5 DEF MapsNext

(* The inductive invariant: the process's mappings never overlap, and until  *)
(* it answers the walk has not read past the mapping it looks for            *)
(* (deoptimize.cpp:137-187).                                                 *)
THEOREM MapsInvHolds == MapsSpec => []MapsInv
BY MapsInvInit, MapsInvStep, PTL DEF MapsSpec

(* A mapping that nobody touches is found for every pointer into it, tagged  *)
(* or not, whatever other threads map, unmap and protect between two lines   *)
(* of the file (deoptimize.cpp:130-187).                                     *)
THEOREM MappingsAreFound == MapsSpec => []StableMappingIsFound
<1>1. MapsInv => StableMappingIsFound
  BY DEF MapsInv
<1> QED BY <1>1, MapsInvHolds, PTL

\* What backs the mapping decides, once the right mapping was found.
LEMMA FoundIsToldApart == MapsInv => AotCodeIsToldApart
<1> SUFFICES ASSUME MapsInv, Finished, walk.at = "answered", NEW m \in Fixed,
                    Contains(m, AddressOf(walk.pointer)), m.file \notin Misleading
             PROVE  IsAotCode(walk.answer) <=> m.file = "oat"
  BY DEF AotCodeIsToldApart
<1>1. walk.answer = m
  BY DEF MapsInv, StableMappingIsFound
<1>2. m # NoMapping /\ m.file \in Files
  BY MapsAssumption
<1> QED BY <1>1, <1>2 DEF IsAotCode, NamesLibrary, Files, Misleading

(* is_aot_code() tells AOT code from everything else a mapping can hold that *)
(* nobody touches, unless its path misleads (deoptimize.cpp:429-447).        *)
THEOREM AotCodeIsKnown == MapsSpec => []AotCodeIsToldApart
BY MapsInvHolds, FoundIsToldApart, PTL
=============================================================================
