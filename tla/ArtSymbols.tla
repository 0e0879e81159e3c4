----------------------------- MODULE ArtSymbols -----------------------------
(***************************************************************************)
(* The lookups of art_symbols.cpp in the libart.so mapped into the         *)
(* process: an exported symbol by walking a chain of DT_GNU_HASH, and the  *)
(* slot libart's PLT loads a function from by walking DT_JMPREL.           *)
(*                                                                         *)
(* No tag says how long the symbol table is: that the walk stops in time   *)
(* rests on the end bits the linker set.                                   *)
(***************************************************************************)
EXTENDS Naturals, Sequences

CONSTANTS
    Names,          \* symbol names
    Hash,           \* their gnu_hash_of()
    MaxSymbols,     \* bound: symbols of a library
    MaxBuckets,     \* bound: buckets of its hash table
    MaxRelocations  \* bound: entries of DT_JMPREL

ASSUME SymbolAssumption ==
    /\ Hash \in [Names -> Nat]
    /\ {MaxSymbols, MaxBuckets, MaxRelocations} \subseteq Nat

VARIABLES
    lib,     \* libart.so as the linker laid it out
    looked,  \* g_looked_for_libart
    known,   \* whether g_libart was filled in
    pc,      \* "idle", or in the loop of one of the two lookups
    op,      \* the lookup in progress, or the last one
    asked,   \* the name it was given
    cursor,  \* the index or the relocation it looks at
    answer   \* the symbol or the relocation it returned; 0 is nullptr

symbolVars == <<lib, looked, known, pc, op, asked, cursor, answer>>

-----------------------------------------------------------------------------
(* The linker's output.  Symbol 0 names nothing; those from "first" on are   *)
(* the hashed ones, which lie bucket by bucket.                              *)

\* "import": SHN_UNDEF.  "unset": defined, but st_value is 0.
Symbol == [name : Names, kind : {"export", "import", "unset"}]

SeqUpTo(S, n) == UNION {[1..k -> S] : k \in 0..n}

Libraries ==
    [readable    : BOOLEAN,              \* describe() finds the tables it needs
     symbols     : SeqUpTo(Symbol, MaxSymbols),
     first       : 1..(MaxSymbols + 1),
     bucketCount : 0..MaxBuckets,
     filtered    : BOOLEAN,              \* bloom_words is not 0
     relocations : SeqUpTo(0..MaxSymbols, MaxRelocations)]

Hashed(l) == l.first..Len(l.symbols)

BucketOf(l, n) == Hash[n] % l.bucketCount

BucketAt(l, i) == BucketOf(l, l.symbols[i].name)

WellFormed(l) ==
    /\ l.first <= Len(l.symbols) + 1
    /\ l.bucketCount = 0 \/ ~l.filtered => Hashed(l) = {}
    /\ \A i, j \in DOMAIN l.symbols :
          i # j => l.symbols[i].name # l.symbols[j].name
    /\ \A i \in DOMAIN l.symbols : l.symbols[i].kind = "import" <=> i < l.first
    /\ \A i, j, k \in Hashed(l) :
          i < j /\ j < k /\ BucketAt(l, i) = BucketAt(l, k) => BucketAt(l, j) = BucketAt(l, i)
    /\ \A r \in DOMAIN l.relocations : l.relocations[r] <= Len(l.symbols)

\* buckets[b]: the first symbol of the bucket, 0 if it is empty.
BucketHead(l, b) ==
    LET members == {i \in Hashed(l) : BucketAt(l, i) = b}
    IN  IF members = {} THEN 0 ELSE CHOOSE i \in members : \A j \in members : i <= j

LastOfBucket(l, i) ==
    i = Len(l.symbols) \/ BucketAt(l, i + 1) # BucketAt(l, i)

\* chain[i - first_hashed]: the hash, its low bit given up for the end mark.
ChainEntry(l, i) ==
    2 * (Hash[l.symbols[i].name] \div 2) + (IF LastOfBucket(l, i) THEN 1 ELSE 0)

-----------------------------------------------------------------------------
Init ==
    /\ lib \in {l \in Libraries : WellFormed(l)}
    /\ looked = FALSE /\ known = FALSE
    /\ pc = "idle" /\ op = "none"
    /\ asked \in Names
    /\ cursor = 0 /\ answer = 0

\* Mutant of Libart: a second look does not ask how the first one went.
LibartAnyway ==
    /\ looked' = TRUE
    /\ known' = (looked \/ lib.readable)

\* libart(): looked for once; a failure is remembered like a success.
Libart ==
    /\ looked' = TRUE
    /\ known' = IF looked THEN known ELSE lib.readable

Return(value) == pc' = "idle" /\ answer' = value

StartAt(where, i) == pc' = where /\ cursor' = i /\ UNCHANGED answer

\* find_libart_symbol() up to its loop.  A table without buckets or without a
\* Bloom filter to step over is not walked.
FindSymbol(n) ==
    LET head == BucketHead(lib, BucketOf(lib, n))
    IN  /\ pc = "idle"
        /\ Libart
        /\ op' = "symbol" /\ asked' = n
        /\ IF known' /\ lib.bucketCount # 0 /\ lib.filtered /\ head >= lib.first
           THEN StartAt("chain", head)
           ELSE Return(0) /\ UNCHANGED cursor
        /\ UNCHANGED lib

SameHash(entry, n) == entry \div 2 = Hash[n] \div 2

\* Mutant of IsWanted: equal hashes are taken for equal names.
IsHashed(n) ==
    /\ SameHash(ChainEntry(lib, cursor), n)
    /\ lib.symbols[cursor].kind = "export"

IsWanted(n) ==
    /\ SameHash(ChainEntry(lib, cursor), n)
    /\ lib.symbols[cursor].kind = "export"
    /\ lib.symbols[cursor].name = n

\* Mutant of EndsChain: the last symbol is the one whose mark is clear.
EndsUnmarked(entry) == entry % 2 = 0

EndsChain(entry) == entry % 2 = 1

FoundInChain ==
    /\ pc = "chain"
    /\ IsWanted(asked)
    /\ Return(cursor)
    /\ UNCHANGED <<lib, looked, known, op, asked, cursor>>

EndOfChain ==
    /\ pc = "chain"
    /\ ~IsWanted(asked)
    /\ EndsChain(ChainEntry(lib, cursor))
    /\ Return(0)
    /\ UNCHANGED <<lib, looked, known, op, asked, cursor>>

NextInChain ==
    /\ pc = "chain"
    /\ ~IsWanted(asked)
    /\ ~EndsChain(ChainEntry(lib, cursor))
    /\ cursor' = cursor + 1
    /\ UNCHANGED <<lib, looked, known, pc, op, asked, answer>>

-----------------------------------------------------------------------------
\* find_libart_plt_slot().
FindPltSlot(n) ==
    /\ pc = "idle"
    /\ Libart
    /\ op' = "slot" /\ asked' = n
    /\ IF known' THEN StartAt("relocations", 1) ELSE Return(0) /\ UNCHANGED cursor
    /\ UNCHANGED lib

\* An entry of symbol 0 names nothing.
RelocationNames(r, n) == lib.relocations[r] # 0 /\ lib.symbols[lib.relocations[r]].name = n

FoundRelocation ==
    /\ pc = "relocations"
    /\ cursor <= Len(lib.relocations)
    /\ RelocationNames(cursor, asked)
    /\ Return(cursor)
    /\ UNCHANGED <<lib, looked, known, op, asked, cursor>>

\* Mutant of EndOfRelocations: an entry that ends where the table does is left out.
EndsBeforeLast ==
    /\ pc = "relocations"
    /\ cursor >= Len(lib.relocations)
    /\ Return(0)
    /\ UNCHANGED <<lib, looked, known, op, asked, cursor>>

EndOfRelocations ==
    /\ pc = "relocations"
    /\ cursor > Len(lib.relocations)
    /\ Return(0)
    /\ UNCHANGED <<lib, looked, known, op, asked, cursor>>

\* Mutant of NextRelocation: an entry of symbol 0 is not stepped over.
NextNamedRelocation ==
    /\ pc = "relocations"
    /\ cursor <= Len(lib.relocations)
    /\ ~RelocationNames(cursor, asked)
    /\ cursor' = IF lib.relocations[cursor] = 0 THEN cursor ELSE cursor + 1
    /\ UNCHANGED <<lib, looked, known, pc, op, asked, answer>>

NextRelocation ==
    /\ pc = "relocations"
    /\ cursor <= Len(lib.relocations)
    /\ ~RelocationNames(cursor, asked)
    /\ cursor' = cursor + 1
    /\ UNCHANGED <<lib, looked, known, pc, op, asked, answer>>

-----------------------------------------------------------------------------
Proceed ==
    \/ FoundInChain \/ EndOfChain \/ NextInChain
    \/ FoundRelocation \/ EndOfRelocations \/ NextRelocation

Next == Proceed \/ \E n \in Names : FindSymbol(n) \/ FindPltSlot(n)

Spec == Init /\ [][Next]_symbolVars

\* The loops run without a wait.
FairSpec == Spec /\ WF_symbolVars(Proceed)

-----------------------------------------------------------------------------
LookupTypeOK ==
    /\ lib \in Libraries
    /\ looked \in BOOLEAN /\ known \in BOOLEAN
    /\ known <=> looked /\ lib.readable
    /\ pc \in {"idle", "chain", "relocations"}
    /\ op \in {"none", "symbol", "slot"}
    /\ asked \in Names
    /\ cursor \in Nat /\ answer \in Nat
    /\ pc # "idle" => known

(* The walk never leaves the symbols the hash table covers, whatever is       *)
(* asked for: nothing but the end bits keeps it inside ("its chain is the     *)
(* only thing that bounds the search", art_symbols.cpp:95-96).                *)
WalkStaysInTable == pc = "chain" => cursor \in Hashed(lib)

Exported(i, n) == i \in Hashed(lib) /\ lib.symbols[i] = [name |-> n, kind |-> "export"]

(* What is returned is the one export of that name, and nothing only if there *)
(* is none or libart could not be read ("Returns nullptr when the symbol is   *)
(* absent", art_symbols.hpp:17): bits lost to the end mark, other names of    *)
(* the bucket, equal hashes and symbols without an address do not deceive it. *)
AnswerIsTheExport ==
    pc = "idle" /\ op = "symbol" =>
        IF answer # 0
        THEN lib.readable /\ Exported(answer, asked)
        ELSE lib.readable => \A i \in Hashed(lib) : ~Exported(i, asked)

Relocates(r, n) ==
    /\ r \in DOMAIN lib.relocations
    /\ \E i \in DOMAIN lib.symbols : lib.relocations[r] = i /\ lib.symbols[i].name = n

(* The slot returned is that of a relocation against the function asked for;  *)
(* libart has no such relocation if none is returned (art_symbols.hpp:32-34). *)
SlotIsOfTheFunction ==
    pc = "idle" /\ op = "slot" =>
        IF answer # 0
        THEN Relocates(answer, asked)
        ELSE lib.readable => \A r \in DOMAIN lib.relocations : ~Relocates(r, asked)

(* Both loops end, for every table a linker produces.                         *)
LookupReturns == pc # "idle" ~> pc = "idle"
=============================================================================
