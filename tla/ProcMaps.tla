------------------------------ MODULE ProcMaps ------------------------------
(***************************************************************************)
(* find_mapping() of deoptimize.cpp: which mapping of the process an       *)
(* address lies in, read off /proc/self/maps line by line while the other  *)
(* threads map, unmap and protect memory; and what is_aot_code() and       *)
(* is_in_libart() make of the answer.                                      *)
(***************************************************************************)
EXTENDS Naturals

CONSTANTS
    Mappings,      \* mappings there may be: [start, end, protection, file]
    Fixed,         \* those that no thread touches
    AddressSpace,  \* 2^56: a pointer is a tag in its top byte and an address
    Pointers,      \* pointers that get looked up, tagged or not
    NoMapping, NoWalk

\* What backs a mapping.  "longLibrary" is a library whose path does not fit
\* the line buffer, "oatBySo" an oat file whose path has ".so" in it (that of
\* com.some.app, say), "memfd" a file in memory that the JIT fills.
Misleading == {"longLibrary", "oatBySo", "memfd"}

Files == {"libart", "library", "oat", "anonymous"} \cup Misleading

Disjoint(m, n) == m.end <= n.start \/ n.end <= m.start

PairwiseDisjoint(ms) == \A m, n \in ms : m # n => Disjoint(m, n)

Contains(m, address) == m.start <= address /\ address < m.end

ASSUME MapsAssumption ==
    /\ Pointers \subseteq Nat
    /\ AddressSpace \in Nat \ {0}
    /\ Fixed \subseteq Mappings
    /\ PairwiseDisjoint(Fixed)
    /\ \A m \in Mappings :
          m.start \in Nat /\ m.end \in Nat /\ m.start < m.end /\ m.file \in Files
    /\ NoMapping \notin Mappings

VARIABLES
    mapped,  \* the process's mappings
    walk     \* the walk in progress: what is looked for, how far the file has
             \* been read, and the answer

mapsVars == <<mapped, walk>>

\* What the hardware makes of a pointer: Top Byte Ignore.
AddressOf(pointer) == pointer % AddressSpace

\* The mask with (1 << 56) - 1.
untagged(pointer) == pointer % AddressSpace

Layouts == {ms \in SUBSET Mappings : Fixed \subseteq ms /\ PairwiseDisjoint(ms)}

MapsInit ==
    /\ mapped \in Layouts
    /\ walk = NoWalk

-----------------------------------------------------------------------------
\* mmap, munmap and mprotect by any thread of the process.
OtherThreads ==
    /\ \/ \E m \in Mappings \ mapped :
             /\ \A n \in mapped : Disjoint(m, n)
             /\ mapped' = mapped \cup {m}
       \/ \E m \in mapped \ Fixed : mapped' = mapped \ {m}
       \/ \E m \in mapped \ Fixed, n \in Mappings \ mapped :
             /\ n.start = m.start /\ n.end = m.end
             /\ mapped' = (mapped \ {m}) \cup {n}
    /\ UNCHANGED walk

\* fopen("/proc/self/maps"), which may fail.
FindMapping(pointer) ==
    /\ walk = NoWalk
    /\ \E where \in {"reading", "unopened"} :
          walk' = [at |-> where, pointer |-> pointer, cursor |-> 0, answer |-> NoMapping]
    /\ UNCHANGED mapped

Answer(m) == walk' = [walk EXCEPT !.at = "answered", !.answer = m] /\ UNCHANGED mapped

Reading == walk # NoWalk /\ walk.at = "reading"

\* The kernel's next line is the lowest mapping that ends beyond the last one.
\* A path that does not fit is cut, and its remainder parses as no mapping.
IsNextLine(m) ==
    /\ m \in mapped
    /\ m.end > walk.cursor
    /\ \A n \in mapped : n.end > walk.cursor => m.start <= n.start

\* Mutant of LineMatches: the end of a mapping is taken for part of it.
LineMatchesAtEnd(m) ==
    LET target == untagged(walk.pointer) IN m.start <= target /\ target <= m.end

LineMatches(m) == Contains(m, untagged(walk.pointer))

ReadMatch(m) == Reading /\ IsNextLine(m) /\ LineMatches(m) /\ Answer(m)

\* Mutant of ReadPast: the file is read again from where it was.
ReadAgain(m) ==
    /\ Reading /\ IsNextLine(m)
    /\ ~LineMatches(m)
    /\ UNCHANGED mapsVars

ReadPast(m) ==
    /\ Reading /\ IsNextLine(m)
    /\ ~LineMatches(m)
    /\ walk' = [walk EXCEPT !.cursor = m.end]
    /\ UNCHANGED mapped

EndOfFile ==
    /\ Reading
    /\ \A m \in mapped : m.end <= walk.cursor
    /\ Answer(NoMapping)

ReadLine == EndOfFile \/ \E m \in mapped : ReadMatch(m) \/ ReadPast(m)

Finished == walk # NoWalk /\ walk.at # "reading"

\* Mutant of TakeAnswer: the file is not closed.
LeaveOpen == Finished /\ UNCHANGED mapsVars

\* fclose(), and the caller takes the answer.
TakeAnswer == Finished /\ walk' = NoWalk /\ UNCHANGED mapped

MapsNext ==
    \/ OtherThreads \/ ReadLine \/ TakeAnswer
    \/ \E p \in Pointers : FindMapping(p)

MapsSpec == MapsInit /\ [][MapsNext]_mapsVars

-----------------------------------------------------------------------------
\* strstr(path, ".so"), on the part of the path that was read.
NamesLibrary(m) == m.file \in {"libart", "library", "oatBySo"}

\* Mutant of IsAotCode: JIT code and the heap count as well.
IsAotWithoutPath(m) == m # NoMapping /\ ~NamesLibrary(m)

\* The path starts with a slash and has no ".so" in it.
IsAotCode(m) == m # NoMapping /\ m.file # "anonymous" /\ ~NamesLibrary(m)

IsInLibart(m) == m # NoMapping /\ m.file = "libart"

(* Whatever the other threads do to the memory around it, a mapping nobody   *)
(* touches is found for every pointer into it, tagged or not, and no other   *)
(* is (deoptimize.cpp:130-132).                                              *)
StableMappingIsFound ==
    Finished /\ walk.at = "answered" =>
        \A m \in Fixed : Contains(m, AddressOf(walk.pointer)) => walk.answer = m

(* AOT code is told from ART's stubs, other libraries and the JIT's output   *)
(* by what backs it (deoptimize.hpp:62-66), except where the path misleads:  *)
(* a library's cut before its ".so", an oat file's that has one, and code    *)
(* of the JIT in a file.                                                     *)
AotCodeIsToldApart ==
    Finished /\ walk.at = "answered" =>
        \A m \in Fixed :
            /\ Contains(m, AddressOf(walk.pointer))
            /\ m.file \notin Misleading
            => (IsAotCode(walk.answer) <=> m.file = "oat")
=============================================================================
