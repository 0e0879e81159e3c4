------------------------- MODULE ArtSymbols_proofs -------------------------
(***************************************************************************)
(* The lookups in libart.so, for hash tables of any size that a linker lays *)
(* out as WellFormed says, and for any hashes.                              *)
(***************************************************************************)
EXTENDS ArtSymbols, SequenceTheorems, WellFoundedInduction, TLAPS

(* A set of numbers has a least one: the symbol a bucket's head names.     *)
LEMMA LeastExists ==
    ASSUME NEW S, S \subseteq Nat, S # {}
    PROVE  \E i \in S : \A j \in S : i <= j
  <1>1. PICK i \in S : \A j \in S : ~(<<j, i>> \in OpToRel(<, Nat))
    BY NatLessThanWellFounded, WFMin
  <1>2. ASSUME NEW j \in S PROVE i <= j
    <2>1. ~(j < i)
      BY <1>1 DEF OpToRel
    <2>2. QED
      BY <2>1
  <1>3. QED
    BY <1>2

(* What the fields of a library are.                                       *)
LEMMA LibraryShape ==
    ASSUME NEW l \in Libraries
    PROVE  /\ l.readable \in BOOLEAN
           /\ l.symbols \in Seq(Symbol)
           /\ l.relocations \in Seq(Nat)
           /\ l.first \in Nat \ {0}
           /\ l.bucketCount \in Nat
           /\ Hashed(l) \subseteq DOMAIN l.symbols
           /\ Hashed(l) \subseteq Nat \ {0}
  <1>1. /\ MaxSymbols \in Nat /\ MaxBuckets \in Nat /\ MaxRelocations \in Nat
    BY SymbolAssumption
  <1>2. l.readable \in BOOLEAN /\ l.first \in Nat \ {0} /\ l.bucketCount \in Nat
    BY <1>1 DEF Libraries
  <1>3. l.symbols \in Seq(Symbol)
    <2>1. PICK k \in 0..MaxSymbols : l.symbols \in [1..k -> Symbol]
      BY DEF Libraries, SeqUpTo
    <2>2. k \in Nat
      BY <1>1
    <2>3. QED
      BY <2>1, <2>2, SeqDef
  <1>4. l.relocations \in Seq(Nat)
    <2>1. PICK k \in 0..MaxRelocations : l.relocations \in [1..k -> 0..MaxSymbols]
      BY DEF Libraries, SeqUpTo
    <2>2. k \in Nat /\ l.relocations \in [1..k -> Nat]
      BY <1>1, <2>1
    <2>3. QED
      BY <2>2, SeqDef
  <1>5. Hashed(l) \subseteq DOMAIN l.symbols /\ Hashed(l) \subseteq Nat \ {0}
    BY <1>2, <1>3 DEF Hashed
  <1>6. QED
    BY <1>2, <1>3, <1>4, <1>5

(* A bucket's head is its first symbol, or 0 and the bucket is empty.      *)
LEMMA HeadIsFirst ==
    ASSUME NEW l \in Libraries, NEW b
    PROVE  \/ /\ BucketHead(l, b) = 0
              /\ \A i \in Hashed(l) : BucketAt(l, i) # b
           \/ /\ BucketHead(l, b) \in Hashed(l)
              /\ BucketAt(l, BucketHead(l, b)) = b
              /\ \A i \in Hashed(l) : BucketAt(l, i) = b => BucketHead(l, b) <= i
  <1> DEFINE members == {i \in Hashed(l) : BucketAt(l, i) = b}
  <1>1. CASE members = {}
    BY <1>1 DEF BucketHead
  <1>2. CASE members # {}
    <2>1. members \subseteq Nat
      BY LibraryShape
    <2>2. \E i \in members : \A j \in members : i <= j
      <3> HIDE DEF members
      <3>1. QED
        BY <1>2, <2>1, LeastExists
    <2>3. BucketHead(l, b) = CHOOSE i \in members : \A j \in members : i <= j
      BY <1>2 DEF BucketHead
    <2>4. /\ BucketHead(l, b) \in members
          /\ \A j \in members : BucketHead(l, b) <= j
      <3> HIDE DEF members
      <3>1. QED
        BY <2>2, <2>3
    <2>5. QED
      BY <2>4
  <1>3. QED
    BY <1>1, <1>2

(* The end mark and the hash do not disturb each other in a chain entry.   *)
LEMMA EntryParts ==
    ASSUME NEW l \in Libraries, NEW i \in Hashed(l), NEW n \in Names
    PROVE  /\ EndsChain(ChainEntry(l, i)) <=> LastOfBucket(l, i)
           /\ SameHash(ChainEntry(l, i), n) <=> Hash[l.symbols[i].name] \div 2 = Hash[n] \div 2
  <1>1. l.symbols[i] \in Symbol
    BY LibraryShape, ElementOfSeq
  <1>2. Hash[l.symbols[i].name] \in Nat /\ Hash[n] \in Nat
    BY <1>1, SymbolAssumption DEF Symbol
  <1> DEFINE h == Hash[l.symbols[i].name] \div 2
  <1>3. h \in Nat
    BY <1>2
  <1>4. /\ (2 * h + 1) % 2 = 1 /\ (2 * h + 0) % 2 = 0
        /\ (2 * h + 1) \div 2 = h /\ (2 * h + 0) \div 2 = h
    <2> HIDE DEF h
    <2>1. QED
      BY <1>3
  <1>5. CASE LastOfBucket(l, i)
    <2>1. ChainEntry(l, i) = 2 * h + 1
      BY <1>5 DEF ChainEntry
    <2> HIDE DEF h
    <2>2. EndsChain(ChainEntry(l, i)) /\ ChainEntry(l, i) \div 2 = h
      BY <1>4, <2>1 DEF EndsChain
    <2>3. QED
      BY <1>5, <2>2 DEF SameHash, h
  <1>6. CASE ~LastOfBucket(l, i)
    <2>1. ChainEntry(l, i) = 2 * h + 0
      BY <1>6 DEF ChainEntry
    <2> HIDE DEF h
    <2>2. ~EndsChain(ChainEntry(l, i)) /\ ChainEntry(l, i) \div 2 = h
      BY <1>4, <2>1 DEF EndsChain
    <2>3. QED
      BY <1>6, <2>2 DEF SameHash, h
  <1>7. QED
    BY <1>5, <1>6
-----------------------------------------------------------------------------
(* What holds between two steps of a walk, and makes the properties          *)
(* inductive.                                                                *)

Laid == WellFormed(lib)

\* The walk stands in the bucket of the name, and at or before its export.
WalkIsOnTrack ==
    pc = "chain" =>
        /\ op = "symbol"
        /\ cursor \in Hashed(lib)
        /\ BucketAt(lib, cursor) = BucketOf(lib, asked)
        /\ \A i \in Hashed(lib) : Exported(i, asked) => cursor <= i

\* No relocation passed was the one asked for.
RelocationsAhead ==
    pc = "relocations" =>
        /\ op = "slot"
        /\ cursor >= 1
        /\ \A r \in DOMAIN lib.relocations : Relocates(r, asked) => cursor <= r

LookupInv ==
    /\ LookupTypeOK /\ Laid
    /\ WalkIsOnTrack /\ RelocationsAhead
    /\ AnswerIsTheExport /\ SlotIsOfTheFunction

(* An export of a name is in the name's bucket.                            *)
LEMMA ExportIsInBucket ==
    ASSUME NEW i \in Hashed(lib), NEW n \in Names, Exported(i, n)
    PROVE  BucketAt(lib, i) = BucketOf(lib, n)
  BY DEF Exported, BucketAt

(* The symbol looked at is taken if and only if it is the export asked for. *)
LEMMA WantedIsExported ==
    ASSUME LookupTypeOK, cursor \in Hashed(lib)
    PROVE  IsWanted(asked) <=> Exported(cursor, asked)
  <1>1. lib \in Libraries /\ asked \in Names
    BY DEF LookupTypeOK
  <1>2. lib.symbols[cursor] \in Symbol
    BY <1>1, LibraryShape, ElementOfSeq
  <1>3. lib.symbols[cursor] = [name |-> asked, kind |-> "export"] <=>
            lib.symbols[cursor].name = asked /\ lib.symbols[cursor].kind = "export"
    BY <1>2 DEF Symbol
  <1>4. lib.symbols[cursor].name = asked => SameHash(ChainEntry(lib, cursor), asked)
    BY <1>1, EntryParts
  <1>5. QED
    BY <1>3, <1>4 DEF IsWanted, Exported

(* Behind the last symbol of the name's bucket there is no export of it:    *)
(* buckets lie in one piece.                                                *)
LEMMA NothingBehindTheEnd ==
    ASSUME LookupInv, pc = "chain", LastOfBucket(lib, cursor),
           NEW i \in Hashed(lib), Exported(i, asked)
    PROVE  i = cursor
  <1>1. lib \in Libraries /\ asked \in Names
    BY DEF LookupInv, LookupTypeOK
  <1>2. /\ cursor \in Hashed(lib) /\ cursor <= i
        /\ BucketAt(lib, cursor) = BucketOf(lib, asked)
    BY DEF LookupInv, WalkIsOnTrack
  <1>3. BucketAt(lib, i) = BucketAt(lib, cursor)
    BY <1>1, <1>2, ExportIsInBucket
  <1>4. lib.first \in Nat /\ Len(lib.symbols) \in Nat
    BY <1>1, LibraryShape, LenProperties
  <1>5. SUFFICES ASSUME cursor < i PROVE FALSE
    BY <1>2, <1>4 DEF Hashed
  <1>6. cursor + 1 \in Hashed(lib) /\ cursor # Len(lib.symbols)
    BY <1>2, <1>4, <1>5 DEF Hashed
  <1>7. BucketAt(lib, cursor + 1) # BucketAt(lib, cursor)
    BY <1>6 DEF LastOfBucket
  <1>8. i # cursor + 1
    BY <1>3, <1>7
  <1>9. cursor < cursor + 1 /\ cursor + 1 < i
    BY <1>2, <1>4, <1>5, <1>8 DEF Hashed
  <1>10. BucketAt(lib, cursor + 1) = BucketAt(lib, cursor)
    BY <1>2, <1>3, <1>6, <1>9 DEF LookupInv, Laid, WellFormed
  <1>11. QED
    BY <1>7, <1>10

-----------------------------------------------------------------------------
(* Init => LookupInv                                                         *)
LEMMA LookupInit == Init => LookupInv
  <1> SUFFICES ASSUME Init PROVE LookupInv
    OBVIOUS
  <1>1. lib \in Libraries /\ Laid /\ asked \in Names
    BY DEF Init, Laid
  <1>2. pc = "idle" /\ op = "none" /\ cursor = 0 /\ answer = 0
    BY DEF Init
  <1>3. looked \in BOOLEAN /\ known \in BOOLEAN /\ (known <=> looked /\ lib.readable)
    BY Zenon DEF Init
  <1>4. LookupTypeOK
    BY <1>1, <1>2, <1>3 DEF LookupTypeOK
  <1>5. QED
    BY <1>1, <1>2, <1>4
       DEF LookupInv, WalkIsOnTrack, RelocationsAhead, AnswerIsTheExport, SlotIsOfTheFunction

(* LookupInv /\ [Next]_symbolVars => LookupInv', one lemma per lookup.      *)

(* A call gets as far as its loop, or returns nullptr: rightly, if libart    *)
(* could be read, because the bucket is empty.                               *)
LEMMA FindSymbolKeepsInv ==
    ASSUME LookupInv, NEW n \in Names, FindSymbol(n)
    PROVE  LookupInv'
  <1> DEFINE head == BucketHead(lib, BucketOf(lib, n))
  <1>1. /\ lib \in Libraries /\ lib' = lib /\ asked' = n /\ op' = "symbol" /\ looked' = TRUE
        /\ known' \in BOOLEAN /\ (known' <=> lib.readable)
    BY LibraryShape DEF LookupInv, LookupTypeOK, FindSymbol, Libart
  <1>2. lib.first \in Nat \ {0} /\ lib.readable \in BOOLEAN
    BY <1>1, LibraryShape
  <1>3. Laid'
    BY <1>1 DEF LookupInv, Laid, WellFormed, Hashed, BucketAt, BucketOf
  <1>4. CASE known' /\ lib.bucketCount # 0 /\ lib.filtered /\ head >= lib.first
    <2>1. pc' = "chain" /\ cursor' = head /\ answer' = answer
      BY <1>4 DEF FindSymbol, StartAt
    <2>2. /\ head \in Hashed(lib) /\ BucketAt(lib, head) = BucketOf(lib, n)
          /\ \A i \in Hashed(lib) : BucketAt(lib, i) = BucketOf(lib, n) => head <= i
      BY <1>1, <1>2, <1>4, HeadIsFirst
    <2> HIDE DEF head
    <2>3. WalkIsOnTrack'
      BY <1>1, <2>1, <2>2
         DEF WalkIsOnTrack, Hashed, BucketAt, BucketOf, Exported
    <2>4. LookupTypeOK'
      BY <1>1, <1>4, <2>1, <2>2, LibraryShape DEF LookupInv, LookupTypeOK
    <2>5. QED
      BY <1>3, <2>1, <2>3, <2>4
         DEF LookupInv, RelocationsAhead, AnswerIsTheExport, SlotIsOfTheFunction
  <1>5. CASE ~(known' /\ lib.bucketCount # 0 /\ lib.filtered /\ head >= lib.first)
    <2>1. pc' = "idle" /\ answer' = 0 /\ cursor' = cursor
      BY <1>5 DEF FindSymbol, Return
    <2>2. ASSUME lib.readable, NEW i \in Hashed(lib), Exported(i, n)
          PROVE  FALSE
      <3>1. lib.bucketCount # 0 /\ lib.filtered
        BY DEF LookupInv, Laid, WellFormed
      <3>2. ~(head >= lib.first)
        BY <1>1, <1>5, <2>2, <3>1
      <3>3. BucketAt(lib, i) = BucketOf(lib, n)
        BY <2>2, ExportIsInBucket
      <3>4. head \in Hashed(lib)
        BY <1>1, <3>3, HeadIsFirst
      <3>5. lib.first <= head
        BY <1>2, <3>4 DEF Hashed
      <3> HIDE DEF head
      <3>6. QED
        BY <1>1, <1>2, <3>2, <3>4, <3>5, LibraryShape
    <2>3. AnswerIsTheExport'
      BY <1>1, <2>1, <2>2 DEF AnswerIsTheExport, Hashed, Exported
    <2>4. LookupTypeOK'
      BY <1>1, <2>1 DEF LookupInv, LookupTypeOK
    <2>5. QED
      BY <1>1, <1>3, <2>1, <2>3, <2>4
         DEF LookupInv, WalkIsOnTrack, RelocationsAhead, SlotIsOfTheFunction
  <1>6. QED
    BY <1>4, <1>5

(* A step of the chain: what it returns is the export, what it passes is not. *)
LEMMA ChainKeepsInv ==
    ASSUME LookupInv, FoundInChain \/ EndOfChain \/ NextInChain
    PROVE  LookupInv'
  <1>1. /\ pc = "chain" /\ op = "symbol" /\ lib \in Libraries /\ known
        /\ cursor \in Hashed(lib) /\ asked \in Names
        /\ lib' = lib /\ op' = op /\ asked' = asked /\ looked' = looked /\ known' = known
    BY DEF LookupInv, LookupTypeOK, WalkIsOnTrack, FoundInChain, EndOfChain, NextInChain
  <1>2. cursor \in Nat \ {0}
    BY <1>1, LibraryShape
  <1>3. Laid'
    BY <1>1 DEF LookupInv, Laid, WellFormed, Hashed, BucketAt, BucketOf
  <1>4. IsWanted(asked) <=> Exported(cursor, asked)
    BY <1>1, WantedIsExported DEF LookupInv
  <1>5. EndsChain(ChainEntry(lib, cursor)) <=> LastOfBucket(lib, cursor)
    BY <1>1, EntryParts
  <1>6. CASE FoundInChain
    <2>1. pc' = "idle" /\ answer' = cursor /\ cursor' = cursor /\ Exported(cursor, asked)
      BY <1>4, <1>6 DEF FoundInChain, Return
    <2>2. lib.readable
      BY <1>1 DEF LookupInv, LookupTypeOK
    <2>3. AnswerIsTheExport'
      BY <1>1, <1>2, <2>1, <2>2 DEF AnswerIsTheExport, Exported, Hashed
    <2>4. LookupTypeOK'
      BY <1>1, <1>2, <2>1 DEF LookupInv, LookupTypeOK
    <2>5. QED
      BY <1>1, <1>3, <2>1, <2>3, <2>4
         DEF LookupInv, WalkIsOnTrack, RelocationsAhead, SlotIsOfTheFunction
  <1>7. CASE EndOfChain
    <2>1. pc' = "idle" /\ answer' = 0 /\ cursor' = cursor
      BY <1>7 DEF EndOfChain, Return
    <2>2. ~Exported(cursor, asked) /\ LastOfBucket(lib, cursor)
      BY <1>4, <1>5, <1>7 DEF EndOfChain
    <2>3. \A i \in Hashed(lib) : ~Exported(i, asked)
      BY <1>1, <2>2, NothingBehindTheEnd
    <2>4. AnswerIsTheExport'
      BY <1>1, <2>1, <2>3 DEF AnswerIsTheExport, Exported, Hashed
    <2>5. LookupTypeOK'
      BY <1>1, <1>2, <2>1 DEF LookupInv, LookupTypeOK
    <2>6. QED
      BY <1>1, <1>3, <2>1, <2>4, <2>5
         DEF LookupInv, WalkIsOnTrack, RelocationsAhead, SlotIsOfTheFunction
  <1>8. CASE NextInChain
    <2>1. pc' = "chain" /\ answer' = answer /\ cursor' = cursor + 1
      BY <1>1, <1>8 DEF NextInChain
    <2>2. ~Exported(cursor, asked) /\ ~LastOfBucket(lib, cursor)
      BY <1>4, <1>5, <1>8 DEF NextInChain
    <2>3. cursor # Len(lib.symbols) /\ BucketAt(lib, cursor + 1) = BucketAt(lib, cursor)
      BY <2>2 DEF LastOfBucket
    <2>4. cursor + 1 \in Hashed(lib)
      <3>1. lib.first \in Nat /\ Len(lib.symbols) \in Nat
        BY <1>1, LibraryShape, LenProperties
      <3>2. QED
        BY <1>1, <1>2, <2>3, <3>1 DEF Hashed
    <2>5. ASSUME NEW i \in Hashed(lib), Exported(i, asked)
          PROVE  cursor + 1 <= i
      <3>1. cursor <= i /\ i # cursor
        BY <1>1, <2>2, <2>5 DEF LookupInv, WalkIsOnTrack
      <3>2. i \in Nat
        BY <1>1, LibraryShape
      <3>3. QED
        BY <1>2, <3>1, <3>2
    <2>6. BucketAt(lib, cursor) = BucketOf(lib, asked)
      BY <1>1 DEF LookupInv, WalkIsOnTrack
    <2>7. WalkIsOnTrack'
      BY <1>1, <2>1, <2>3, <2>4, <2>5, <2>6
         DEF WalkIsOnTrack, Hashed, BucketAt, BucketOf, Exported
    <2>8. LookupTypeOK'
      BY <1>1, <1>2, <2>1 DEF LookupInv, LookupTypeOK
    <2>9. QED
      BY <1>1, <1>3, <2>1, <2>7, <2>8
         DEF LookupInv, RelocationsAhead, AnswerIsTheExport, SlotIsOfTheFunction
  <1>9. QED
    BY <1>6, <1>7, <1>8

(* The walk of the relocations starts at the first.                        *)
LEMMA FindPltSlotKeepsInv ==
    ASSUME LookupInv, NEW n \in Names, FindPltSlot(n)
    PROVE  LookupInv'
  <1>1. /\ lib \in Libraries /\ lib' = lib /\ asked' = n /\ op' = "slot" /\ looked' = TRUE
        /\ known' \in BOOLEAN /\ (known' <=> lib.readable)
    BY LibraryShape DEF LookupInv, LookupTypeOK, FindPltSlot, Libart
  <1>2. Laid'
    BY <1>1 DEF LookupInv, Laid, WellFormed, Hashed, BucketAt, BucketOf
  <1>3. lib.relocations \in Seq(Nat) /\ lib.readable \in BOOLEAN
    BY <1>1, LibraryShape
  <1>4. CASE known'
    <2>1. pc' = "relocations" /\ cursor' = 1 /\ answer' = answer
      BY <1>4 DEF FindPltSlot, StartAt
    <2>2. LookupTypeOK'
      BY <1>1, <1>4, <2>1 DEF LookupInv, LookupTypeOK
    <2>3. RelocationsAhead'
      BY <1>1, <1>3, <2>1, LenProperties DEF RelocationsAhead, Relocates
    <2>4. QED
      BY <1>1, <1>2, <2>1, <2>2, <2>3
         DEF LookupInv, WalkIsOnTrack, AnswerIsTheExport, SlotIsOfTheFunction
  <1>5. CASE ~known'
    <2>1. pc' = "idle" /\ cursor' = cursor /\ answer' = 0 /\ ~lib.readable
      BY <1>1, <1>5 DEF FindPltSlot, Return
    <2>2. LookupTypeOK'
      BY <1>1, <2>1 DEF LookupInv, LookupTypeOK
    <2>3. QED
      BY <1>1, <1>2, <2>1, <2>2
         DEF LookupInv, WalkIsOnTrack, RelocationsAhead, AnswerIsTheExport, SlotIsOfTheFunction
  <1>6. QED
    BY <1>4, <1>5

(* An entry is taken if and only if it is one against the function asked for, *)
(* symbol 0 being none.                                                       *)
LEMMA NamedIsRelocated ==
    ASSUME LookupInv, NEW r \in DOMAIN lib.relocations, NEW n \in Names
    PROVE  RelocationNames(r, n) <=> Relocates(r, n)
  <1>1. lib \in Libraries
    BY DEF LookupInv, LookupTypeOK
  <1>2. lib.symbols \in Seq(Symbol) /\ lib.relocations \in Seq(Nat)
    BY <1>1, LibraryShape
  <1>3. lib.relocations[r] \in Nat /\ lib.relocations[r] <= Len(lib.symbols)
    BY <1>2, ElementOfSeq DEF LookupInv, Laid, WellFormed
  <1>4. lib.relocations[r] # 0 <=> lib.relocations[r] \in DOMAIN lib.symbols
    BY <1>2, <1>3, LenProperties
  <1>5. QED
    BY <1>4 DEF RelocationNames, Relocates

(* A step of the relocations.                                              *)
LEMMA RelocationsKeepInv ==
    ASSUME LookupInv, FoundRelocation \/ EndOfRelocations \/ NextRelocation
    PROVE  LookupInv'
  <1>1. /\ pc = "relocations" /\ op = "slot" /\ lib \in Libraries /\ known
        /\ cursor \in Nat /\ cursor >= 1 /\ asked \in Names
        /\ lib' = lib /\ op' = op /\ asked' = asked /\ looked' = looked /\ known' = known
    BY DEF LookupInv, LookupTypeOK, RelocationsAhead, FoundRelocation, EndOfRelocations,
           NextRelocation
  <1>2. Laid'
    BY <1>1 DEF LookupInv, Laid, WellFormed, Hashed, BucketAt, BucketOf
  <1>3. /\ DOMAIN lib.relocations = 1..Len(lib.relocations)
        /\ Len(lib.relocations) \in Nat
    BY <1>1, LibraryShape, LenProperties
  <1>4. \A r \in DOMAIN lib.relocations : Relocates(r, asked) => cursor <= r
    BY <1>1 DEF LookupInv, RelocationsAhead
  <1>5. CASE FoundRelocation
    <2>1. /\ pc' = "idle" /\ answer' = cursor /\ cursor' = cursor
          /\ cursor \in DOMAIN lib.relocations
      BY <1>1, <1>3, <1>5 DEF FoundRelocation, Return
    <2>2. Relocates(cursor, asked)
      BY <1>1, <1>5, <2>1, NamedIsRelocated DEF FoundRelocation
    <2>3. SlotIsOfTheFunction'
      BY <1>1, <2>1, <2>2 DEF SlotIsOfTheFunction, Relocates
    <2>4. LookupTypeOK'
      BY <1>1, <2>1 DEF LookupInv, LookupTypeOK
    <2>5. QED
      BY <1>1, <1>2, <2>1, <2>3, <2>4
         DEF LookupInv, WalkIsOnTrack, RelocationsAhead, AnswerIsTheExport
  <1>6. CASE EndOfRelocations
    <2>1. /\ pc' = "idle" /\ answer' = 0 /\ cursor' = cursor
          /\ cursor > Len(lib.relocations)
      BY <1>6 DEF EndOfRelocations, Return
    <2>2. \A r \in DOMAIN lib.relocations : ~Relocates(r, asked)
      BY <1>1, <1>3, <1>4, <2>1
    <2>3. SlotIsOfTheFunction'
      BY <1>1, <2>1, <2>2 DEF SlotIsOfTheFunction, Relocates
    <2>4. LookupTypeOK'
      BY <1>1, <2>1 DEF LookupInv, LookupTypeOK
    <2>5. QED
      BY <1>1, <1>2, <2>1, <2>3, <2>4
         DEF LookupInv, WalkIsOnTrack, RelocationsAhead, AnswerIsTheExport
  <1>7. CASE NextRelocation
    <2>1. /\ pc' = "relocations" /\ answer' = answer /\ cursor' = cursor + 1
          /\ cursor \in DOMAIN lib.relocations
      BY <1>1, <1>3, <1>7 DEF NextRelocation
    <2>2. ~Relocates(cursor, asked)
      BY <1>1, <1>7, <2>1, NamedIsRelocated DEF NextRelocation
    <2>3. ASSUME NEW r \in DOMAIN lib.relocations, Relocates(r, asked)
          PROVE  cursor + 1 <= r
      <3>1. cursor <= r /\ r # cursor
        BY <1>4, <2>2, <2>3
      <3>2. QED
        BY <1>1, <1>3, <3>1
    <2>4. RelocationsAhead'
      BY <1>1, <2>1, <2>3 DEF RelocationsAhead, Relocates
    <2>5. LookupTypeOK'
      BY <1>1, <2>1 DEF LookupInv, LookupTypeOK
    <2>6. QED
      BY <1>1, <1>2, <2>1, <2>4, <2>5
         DEF LookupInv, WalkIsOnTrack, AnswerIsTheExport, SlotIsOfTheFunction
  <1>8. QED
    BY <1>5, <1>6, <1>7

-----------------------------------------------------------------------------
(* The inductive invariant holds of every state of every libart.so.        *)
THEOREM LookupInvHolds == Spec => []LookupInv
  <1>1. Init => LookupInv
    BY LookupInit
  <1>2. LookupInv /\ [Next]_symbolVars => LookupInv'
    <2> SUFFICES ASSUME LookupInv, [Next]_symbolVars PROVE LookupInv'
      OBVIOUS
    <2>1. ASSUME NEW n \in Names, FindSymbol(n) PROVE LookupInv'
      BY <2>1, FindSymbolKeepsInv
    <2>2. ASSUME NEW n \in Names, FindPltSlot(n) PROVE LookupInv'
      BY <2>2, FindPltSlotKeepsInv
    <2>3. CASE Proceed
      BY <2>3, ChainKeepsInv, RelocationsKeepInv DEF Proceed
    <2>4. CASE UNCHANGED symbolVars
      BY <2>4, SMTT(30) DEF symbolVars, LookupInv, LookupTypeOK, Laid, WalkIsOnTrack, RelocationsAhead,
                  AnswerIsTheExport, SlotIsOfTheFunction, Exported, Relocates, Hashed, BucketAt,
                  BucketOf, WellFormed
    <2>5. QED
      BY <2>1, <2>2, <2>3, <2>4 DEF Next
  <1>3. QED
    BY <1>1, <1>2, PTL DEF Spec

(* No walk leaves the symbols the hash table covers (art_symbols.cpp:168-183, *)
(* whose only bound is the end bit).                                          *)
THEOREM WalksStayInTable == Spec => []WalkStaysInTable
  <1>1. LookupInv => WalkStaysInTable
    BY DEF LookupInv, WalkIsOnTrack, WalkStaysInTable
  <1>2. QED
    BY <1>1, LookupInvHolds, PTL

(* find_libart_symbol() returns the export of that name if there is one, for *)
(* any hashes, equal ones included.                                          *)
THEOREM AnswersAreExports == Spec => []AnswerIsTheExport
  <1>1. LookupInv => AnswerIsTheExport
    BY DEF LookupInv
  <1>2. QED
    BY <1>1, LookupInvHolds, PTL

(* find_libart_plt_slot() returns the slot of that function if there is one. *)
THEOREM SlotsAreOfTheFunction == Spec => []SlotIsOfTheFunction
  <1>1. LookupInv => SlotIsOfTheFunction
    BY DEF LookupInv
  <1>2. QED
    BY <1>1, LookupInvHolds, PTL

(* The types of both walks, whatever table they are in.                      *)
THEOREM LookupTypeCorrect == Spec => []LookupTypeOK
  <1>1. LookupInv => LookupTypeOK
    BY DEF LookupInv
  <1>2. QED
    BY <1>1, LookupInvHolds, PTL
=============================================================================
