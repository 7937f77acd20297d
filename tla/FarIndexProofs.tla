--------------------------- MODULE FarIndexProofs ---------------------------
(* Proofs about what farextract reads, for unsigned integers of any width  *)
(* and files that hold any numbers in their headers and indexes.           *)
EXTENDS FarIndex, TLAPS

\* What is known at which stage.  The version tells whether the header of an
\* archive has been read.
Stage == /\ pc \in {"arguments", "identify", "header", "persist"} => archive.major = 0
         /\ pc \in {"identify", "header", "persist"} => size >= 24
         /\ pc \in {"enumerate", "extract", "save"} => archive.major # 0
         /\ pc = "header" \/ archive.major # 0 => archive.type \in {"far", "dbpf"}
         /\ archive.major = 0 => entries = <<>> /\ ~exhausted
         /\ pc \notin {"extract", "save", "done", "error"} => input.of = NOTHING
         /\ pc \in {"extract", "save"} => at >= 1
         /\ pc = "save" => at <= Len(entries)

\* Where the cursor is.  The entries of a DBPF file that are not read yet fit
\* in what is left of its index.
Cursor == archive.major # 0 =>
             /\ archive.type = "far" /\ ~exhausted => index + IndexSize = size + 4
             /\ archive.type = "dbpf" => ~exhausted
             /\ archive.type = "dbpf" /\ archive.files # 0 =>
                   /\ index + IndexSize = size
                   /\ IndexSize >= SIZEOF_ENTRY_DBPF * (archive.files - Len(entries))

\* The data of each entry is inside the file.
DataInside == \A i \in 1..Len(entries) : entries[i].compressed # 0 =>
                 entries[i].offset + entries[i].compressed <= size

IInv == TypeOK /\ Stage /\ Cursor /\ DataInside /\ InputExtent

-----------------------------------------------------------------------------
(* Unsigned arithmetic. *)

LEMMA UIntType == ASSUME NEW x \in Int PROVE UInt(x) \in Sizes
BY WordAssumption DEF UInt, Sizes

LEMMA UIntFits == ASSUME NEW x \in Sizes PROVE UInt(x) = x
BY WordAssumption DEF UInt, Sizes

LEMMA InputTypes ==
    /\ ArchiveSizes \subseteq Sizes /\ Counts \subseteq Sizes /\ Offsets \subseteq Sizes
    /\ IndexSizes \subseteq Sizes /\ DataSizes \subseteq Sizes /\ StreamSizes \subseteq Sizes
    /\ Names \subseteq Sizes
<1> DEFINE S == {ArchiveSizes, Counts, Offsets, IndexSizes, DataSizes, StreamSizes, Names}
<1>1. UNION S \subseteq Sizes
  BY WordAssumption DEF Sizes
<1>2. \A T \in S : T \subseteq UNION S
  OBVIOUS
<1> QED BY <1>1, <1>2

LEMMA SizesNat == Sizes \subseteq Nat /\ \A x \in Sizes : x < Word
BY WordAssumption DEF Sizes

LEMMA EntryTypes == ASSUME NEW e \in Entries
                    PROVE  /\ e.decompressed \in Sizes /\ e.compressed \in Sizes /\ e.offset \in Sizes
                           /\ e.decompressed \in Nat /\ e.compressed \in Nat /\ e.offset \in Nat
                           /\ e.name \in Nat
<1>1. e.decompressed \in Sizes /\ e.compressed \in Sizes /\ e.offset \in Sizes /\ e.name \in Sizes
  BY InputTypes DEF Entries
<1> QED BY <1>1, SizesNat

\* The entries a header of files may announce have at least 14 bytes each.
LEMMA FilesFit == ASSUME NEW x \in Sizes, NEW m \in {14, 16, 20, 24}, NEW files \in Nat, files <= x \div m
                  PROVE  files <= Word \div 14
BY WordAssumption DEF Sizes

LEMMA IndexFits == ASSUME NEW files \in Nat, files <= MAX_ENTRIES_DBPF
                   PROVE  /\ UInt(files * SIZEOF_ENTRY_DBPF) = files * SIZEOF_ENTRY_DBPF
                          /\ files <= Word \div 14
<1>1. files * 20 \in Sizes
  BY WordAssumption DEF MAX_ENTRIES_DBPF, SIZEOF_ENTRY_DBPF, Sizes
<1>2. files <= Word \div 14
  BY WordAssumption DEF MAX_ENTRIES_DBPF, SIZEOF_ENTRY_DBPF
<1> QED BY <1>1, <1>2, UIntFits DEF SIZEOF_ENTRY_DBPF

-----------------------------------------------------------------------------
(* The steps before an archive is enumerated. *)

LEMMA InitIInv == Init => IInv
<1> SUFFICES ASSUME Init PROVE IInv
  OBVIOUS
<1> USE DEF Init, NoArchive, NoInput, NOTHING, ARCHIVE
<1>1. entries \in Seq(Entries) /\ Len(entries) = 0 /\ 0 \in Sizes /\ 0 <= Word \div 14
  BY WordAssumption DEF Sizes
<1>2. archive \in [type : {"far", "dbpf", "persist", "invalid"}, major : {0, 1, 3}, revision : {0, 1},
                   offset : Sizes, indexsize : Sizes, files : 0..(Word \div 14)]
  BY <1>1
<1>3. input \in [of : NOTHING..Len(entries), from : Nat, length : Sizes]
  BY <1>1
<1>4. arguments \in [profile : {"none", "ts1", "tso", "sc4"}, overwrite : BOOLEAN]
  OBVIOUS
<1>5. Len(entries) <= archive.files /\ at \in 0..(Len(entries) + 1) /\ left \in 0..MaxArguments
  BY <1>1
<1>6. TypeOK
  BY <1>1, <1>2, <1>3, <1>4, <1>5 DEF TypeOK
<1> QED BY <1>1, <1>6 DEF IInv, Stage, Cursor, DataInside, InputExtent

LEMMA ArgumentsIInv == ASSUME IInv, Option \/ NoFile PROVE IInv'
<1> USE DEF IInv, Option, NoFile, Error, cursor, extraction
<1>1. arguments' \in [profile : {"none", "ts1", "tso", "sc4"}, overwrite : BOOLEAN]
  BY DEF TypeOK
<1>2. left' \in 0..MaxArguments
  BY WordAssumption DEF TypeOK
<1>3. TypeOK'
  BY <1>1, <1>2 DEF TypeOK
<1>4. Stage' /\ Cursor'
  BY DEF Stage, Cursor
<1> QED BY <1>3, <1>4 DEF DataInside, InputExtent

LEMMA OpenIInv == ASSUME IInv, NEW n \in ArchiveSizes, Open(n) PROVE IInv'
<1> USE DEF IInv, Open, cursor, extraction
<1>1. TypeOK'
  <2>1. UNCHANGED <<archive, index, IndexSize, exhausted, entries, at, live, input>>
    OBVIOUS
  <2>2. pc' = "identify" /\ left' = 0 /\ size' \in {0} \cup ArchiveSizes
    OBVIOUS
  <2>3. arguments' \in [profile : {"none", "ts1", "tso", "sc4"}, overwrite : BOOLEAN]
    BY DEF TypeOK
  <2>4. 0 \in 0..MaxArguments
    BY WordAssumption
  <2> HIDE DEF IInv, Open, cursor, extraction
  <2>5. IInv
    OBVIOUS
  <2> QED BY <2>1, <2>2, <2>3, <2>4, <2>5 DEF TypeOK, IInv
<1>2. Stage' /\ Cursor'
  BY InputTypes, SizesNat DEF Stage, Cursor
<1>3. entries = <<>> /\ input.of = NOTHING
  BY DEF Stage, TypeOK
<1> QED BY <1>1, <1>2, <1>3 DEF DataInside, InputExtent, NOTHING, ARCHIVE

LEMMA IdentifyIInv == ASSUME IInv, NEW magic, IdentifyArchive(magic) PROVE IInv'
<1> USE DEF IInv, IdentifyArchive, cursor, extraction
<1>1. Identify(magic, size) \in {"far", "dbpf", "persist", "invalid"}
  BY DEF Identify
<1>2. TypeOK'
  BY <1>1 DEF TypeOK
<1>3. archive'.major = archive.major /\ archive'.type = Identify(magic, size)
  BY DEF TypeOK
<1>4. Stage' /\ Cursor'
  BY <1>1, <1>3 DEF Stage, Cursor
<1> QED BY <1>2, <1>4 DEF DataInside, InputExtent

LEMMA RefuseIInv == ASSUME IInv, Refuse PROVE IInv'
<1> USE DEF IInv, Refuse, Error, cursor, extraction
<1>1. TypeOK'
  BY DEF TypeOK
<1>2. Stage' /\ Cursor'
  BY DEF Stage, Cursor
<1> QED BY <1>1, <1>2 DEF DataInside, InputExtent

-----------------------------------------------------------------------------
(* The header and the index. *)

\* What the start of the enumeration takes over from the header.
LEMMA BeginTypes ==
    ASSUME IInv, pc = "header", NEW a, Begin(a),
           a \in [type : {"far", "dbpf"}, major : {1, 3}, revision : {0, 1},
                  offset : Sizes, indexsize : Sizes, files : 0..(Word \div 14)]
    PROVE  TypeOK' /\ Stage' /\ DataInside' /\ InputExtent'
<1> USE DEF IInv, Begin, extraction
<1>1. index' \in Nat /\ IndexSize' \in Sizes /\ entries = <<>> /\ input.of = NOTHING
  <2>1. a.offset \in Sizes /\ size \in Sizes /\ size - a.offset \in Int
    BY InputTypes, SizesNat, WordAssumption, SMTT(30) DEF TypeOK, Sizes
  <2>2. entries = <<>> /\ input.of = NOTHING
    BY DEF Stage, TypeOK
  <2>3. IndexSize' \in Sizes
    BY <2>1, UIntType
  <2>4. index' = a.offset + 4 \/ index' = a.offset + 0
    OBVIOUS
  <2>5. a.offset \in Nat
    BY <2>1, SizesNat
  <2>6. index' \in Nat
    BY <2>4, <2>5
  <2> QED BY <2>2, <2>3, <2>6
<1>2. archive' \in [type : {"far", "dbpf", "persist", "invalid"}, major : {0, 1, 3}, revision : {0, 1},
                    offset : Sizes, indexsize : Sizes, files : 0..(Word \div 14)]
  OBVIOUS
<1>3. Len(entries) = 0 /\ 0 <= archive'.files
  BY <1>1, <1>2, WordAssumption
<1>4. TypeOK'
  BY <1>1, <1>2, <1>3 DEF TypeOK
<1>5. Stage'
  BY DEF Stage
<1> QED BY <1>1, <1>3, <1>4, <1>5 DEF DataInside, InputExtent, NOTHING, ARCHIVE

LEMMA ReadFARHeaderIInv ==
    ASSUME IInv, NEW major \in {1, 3}, NEW offset \in Offsets, NEW files \in Counts,
           ReadFARHeader(major, offset, files)
    PROVE  IInv'
<1> DEFINE a == [archive EXCEPT !.major = major, !.offset = offset, !.files = files,
                 !.revision = IF major = 1 /\ arguments.profile # "ts1" THEN 1 ELSE 0]
<1>1. offset \in Sizes /\ files \in Sizes /\ size \in Sizes /\ size >= 24 /\ archive.type = "far"
  BY InputTypes, SizesNat, WordAssumption, SMTT(30) DEF IInv, TypeOK, Stage, Sizes, ReadFARHeader
<1>2. size - 4 \in Sizes /\ offset <= size - 4 /\ size - offset \in Sizes
  <2>1. size - 4 \in Sizes
    BY <1>1, WordAssumption DEF Sizes
  <2>2. offset <= size - 4
    BY <2>1, UIntFits DEF ReadFARHeader
  <2> QED BY <1>1, <2>1, <2>2, WordAssumption DEF Sizes
<1>3. MinEntrySize(a) \in {14, 16, 20, 24}
  BY DEF MinEntrySize, SIZEOF_ENTRY_DBPF
<1>4. files \in 0..(Word \div 14)
  <2>1. files <= UInt(size - offset) \div MinEntrySize(a)
    BY DEF ReadFARHeader
  <2>2. files \in Nat
    BY <1>1, SizesNat
  <2> QED BY <1>2, <1>3, <2>1, <2>2, UIntFits, FilesFit
<1>5. a \in [type : {"far", "dbpf"}, major : {1, 3}, revision : {0, 1},
             offset : Sizes, indexsize : Sizes, files : 0..(Word \div 14)]
  BY <1>1, <1>4 DEF IInv, TypeOK
<1>6. Begin(a) /\ pc = "header"
  BY DEF ReadFARHeader
<1>7. TypeOK' /\ Stage' /\ DataInside' /\ InputExtent'
  BY <1>5, <1>6, BeginTypes
<1>8. a.offset = offset /\ a.type = "far"
  BY <1>1 DEF IInv, TypeOK
<1> HIDE DEF a
<1>9. archive' = a /\ index' = offset + 4 /\ IndexSize' = size - offset /\ size' = size
  BY <1>2, <1>6, <1>8, UIntFits DEF Begin
<1>10. Cursor'
  BY <1>1, <1>8, <1>9, SizesNat DEF Cursor
<1> QED BY <1>7, <1>10 DEF IInv

LEMMA ReadDBPFHeaderIInv ==
    ASSUME IInv, NEW offset \in Offsets, NEW indexsize \in IndexSizes, NEW files \in Counts,
           ReadDBPFHeader(offset, indexsize, files)
    PROVE  IInv'
<1> DEFINE a == [archive EXCEPT !.major = 1, !.offset = offset, !.indexsize = indexsize, !.files = files]
<1>1. offset \in Sizes /\ indexsize \in Sizes /\ files \in Nat /\ size \in Sizes /\ archive.type = "dbpf"
  BY InputTypes, SizesNat, WordAssumption, SMTT(30) DEF IInv, TypeOK, Sizes, ReadDBPFHeader
<1>2. files # 0 => /\ files <= Word \div 14 /\ indexsize = files * SIZEOF_ENTRY_DBPF
                   /\ offset <= size /\ UInt(size - offset) = size - offset
                   /\ indexsize <= size - offset
  <2> SUFFICES ASSUME files # 0 PROVE <1>2!2
    OBVIOUS
  <2>1. size - offset \in Sizes /\ offset <= size
    <3>1. offset <= size
      BY DEF ReadDBPFHeader
    <3> QED BY <1>1, <3>1, WordAssumption DEF Sizes
  <2> QED BY <1>1, <2>1, UIntFits, IndexFits DEF ReadDBPFHeader
<1>3. files \in 0..(Word \div 14)
  BY <1>1, <1>2, WordAssumption
<1>4. a \in [type : {"far", "dbpf"}, major : {1, 3}, revision : {0, 1},
             offset : Sizes, indexsize : Sizes, files : 0..(Word \div 14)]
  BY <1>1, <1>3 DEF IInv, TypeOK
<1>5. Begin(a) /\ pc = "header"
  BY DEF ReadDBPFHeader
<1>6. TypeOK' /\ Stage' /\ DataInside' /\ InputExtent'
  BY <1>4, <1>5, BeginTypes
<1>7. a.offset = offset /\ a.type = "dbpf" /\ a.files = files
  BY <1>1 DEF IInv, TypeOK
<1> HIDE DEF a
<1>8. /\ archive' = a /\ index' = offset + 0 /\ IndexSize' = UInt(size - offset)
      /\ size' = size /\ entries' = entries /\ exhausted' = exhausted
  BY <1>5, <1>7 DEF Begin
<1>9. entries = <<>> /\ ~exhausted /\ Len(entries) = 0
  BY <1>5 DEF IInv, Stage
<1>10. Cursor'
  BY <1>1, <1>2, <1>7, <1>8, <1>9, SizesNat DEF Cursor, SIZEOF_ENTRY_DBPF
<1> QED BY <1>6, <1>10 DEF IInv

LEMMA AcceptableEntry ==
    ASSUME IInv, archive.major # 0, NEW e \in Entries, Acceptable(e, SizeOrUnlimited(IndexSize))
    PROVE  /\ e.compressed # 0 => e.offset + e.compressed <= size
           /\ archive.type = "dbpf" => e.name = 0 /\ MinEntrySize(archive) = SIZEOF_ENTRY_DBPF
           /\ IndexSize # 0 => MinEntrySize(archive) + e.name <= IndexSize
           /\ MinEntrySize(archive) \in {14, 16, 20, 24}
<1>1. MinEntrySize(archive) \in {14, 16, 20, 24}
  BY DEF MinEntrySize, SIZEOF_ENTRY_DBPF
<1>2. size \in Sizes /\ IndexSize \in Sizes /\ size \in Nat /\ IndexSize \in Nat
  <2>1. size \in Sizes /\ IndexSize \in Sizes
    BY InputTypes, WordAssumption DEF IInv, TypeOK, Sizes
  <2> QED BY <2>1, SizesNat
<1>3. IndexSize # 0 => SizeOrUnlimited(IndexSize) = IndexSize
  BY DEF SizeOrUnlimited
<1>4. archive.type = "dbpf" => e.name = 0 /\ MinEntrySize(archive) = SIZEOF_ENTRY_DBPF
  BY DEF Acceptable, MinEntrySize
<1>5. ASSUME Inside(e) PROVE e.offset + e.compressed <= size
  <2>1. e.offset <= size /\ e.compressed <= UInt(size - e.offset)
    BY <1>5 DEF Inside
  <2>2. size - e.offset \in Sizes
    BY <1>2, <2>1, EntryTypes, WordAssumption DEF Sizes
  <2>3. e.compressed <= size - e.offset
    BY <2>1, <2>2, UIntFits
  <2> QED BY <1>2, <2>1, <2>3, EntryTypes
<1>6. ASSUME e.compressed # 0 PROVE Inside(e)
  <2>1. archive.type # "dbpf" => e.compressed <= e.decompressed /\ (e.decompressed # 0 => Inside(e))
    BY DEF Acceptable
  <2>2. e.compressed \in Nat /\ e.decompressed \in Nat
    BY EntryTypes
  <2>3. CASE archive.type = "dbpf"
    BY <1>6, <2>3 DEF Acceptable
  <2>4. CASE archive.type # "dbpf"
    BY <1>6, <2>1, <2>2, <2>4
  <2> QED BY <2>3, <2>4
<1>7. ASSUME IndexSize # 0 PROVE MinEntrySize(archive) + e.name <= IndexSize
  <2>1. archive.type = "dbpf" => IndexSize >= 20
    BY <1>3, <1>7 DEF Acceptable, SIZEOF_ENTRY_DBPF
  <2>2. archive.type # "dbpf" => e.name <= IndexSize - MinEntrySize(archive)
    BY <1>3, <1>7 DEF Acceptable
  <2> QED BY <1>1, <1>2, <1>4, <2>1, <2>2, EntryTypes DEF SIZEOF_ENTRY_DBPF
<1> QED BY <1>1, <1>4, <1>5, <1>6, <1>7

LEMMA ReadEntryIInv == ASSUME IInv, NEW e \in Entries, ReadEntry(e) PROVE IInv'
<1> USE DEF IInv, ReadEntry, Advance, extraction
<1> DEFINE step == MinEntrySize(archive) + e.name
<1>1. archive.major # 0 /\ archive.type \in {"far", "dbpf"}
  BY DEF Stage
<1>2. /\ e.compressed # 0 => e.offset + e.compressed <= size
      /\ archive.type = "dbpf" => step = SIZEOF_ENTRY_DBPF + 0
      /\ IndexSize # 0 => step <= IndexSize
      /\ MinEntrySize(archive) \in {14, 16, 20, 24}
  BY <1>1, AcceptableEntry
<1>3. /\ size \in Nat /\ IndexSize \in Sizes /\ index \in Nat /\ e.name \in Nat
      /\ archive.files \in Nat /\ exhausted \in BOOLEAN
  <2>1. size \in Sizes
    BY InputTypes, WordAssumption DEF TypeOK, Sizes
  <2> QED BY <2>1, SizesNat, EntryTypes DEF TypeOK
<1>4. step \in Nat /\ IndexSize \in Nat
  BY <1>2, <1>3, SizesNat
<1>5. index' = index + step
  BY <1>2, <1>3
<1>6. IndexSize' = UInt(IndexSize - step)
  BY <1>2, <1>3, SizesNat
<1>7. IndexSize # 0 => IndexSize' = IndexSize - step
  <2>1. ASSUME IndexSize # 0 PROVE IndexSize - step \in Sizes
    <3>1. step <= IndexSize /\ IndexSize < Word
      BY <1>2, <1>3, <2>1, SizesNat
    <3> HIDE DEF step
    <3> QED BY <1>4, <3>1, WordAssumption DEF Sizes
  <2> QED BY <1>6, <2>1, UIntFits
<1> HIDE DEF step
<1>8. IndexSize' \in Sizes /\ index' \in Nat
  BY <1>3, <1>4, <1>5, <1>6, SizesNat, UIntType
<1>9. /\ entries \in Seq(Entries) /\ entries' \in Seq(Entries) /\ Len(entries') = Len(entries) + 1
      /\ entries'[Len(entries) + 1] = e /\ \A i \in 1..Len(entries) : entries'[i] = entries[i]
  BY DEF TypeOK
<1>10. Len(entries') <= archive.files
  BY <1>3, <1>9 DEF MoreEntries
<1>11. exhausted' \in BOOLEAN
  BY <1>3
<1>12. TypeOK'
  BY <1>8, <1>9, <1>10, <1>11 DEF TypeOK
<1>13. Stage'
  BY <1>1 DEF Stage
<1>14. Cursor'
  <2>1. CASE archive.type = "far"
    <3> SUFFICES ASSUME ~exhausted' PROVE index' + IndexSize' = size + 4
      BY <2>1 DEF Cursor
    <3>1. ~exhausted /\ IndexSize # 0
      OBVIOUS
    <3>2. index + IndexSize = size + 4
      BY <1>1, <2>1, <3>1 DEF Cursor
    <3> QED BY <1>3, <1>4, <1>5, <1>7, <3>1, <3>2
  <2>2. CASE archive.type = "dbpf"
    <3>1. archive.files > 0 /\ Len(entries) < archive.files
      BY <1>3, <1>9 DEF MoreEntries
    <3>2. /\ ~exhausted /\ index + IndexSize = size
          /\ IndexSize >= 20 * (archive.files - Len(entries))
      BY <1>1, <2>2, <3>1 DEF Cursor, SIZEOF_ENTRY_DBPF
    <3>a. Len(entries) \in Nat
      BY <1>9
    <3>b. archive.files - Len(entries) >= 1
      BY <1>3, <3>1, <3>a
    <3>c. IndexSize >= 20
      BY <1>3, <1>4, <3>2, <3>a, <3>b
    <3>3. IndexSize # 0 /\ step = 20
      BY <1>2, <1>4, <2>2, <3>c DEF SIZEOF_ENTRY_DBPF
    <3>4. IndexSize' = IndexSize - 20 /\ index' = index + 20 /\ ~exhausted'
      BY <1>5, <1>7, <3>2, <3>3
    <3>5. IndexSize' >= 20 * (archive.files - Len(entries'))
      BY <1>3, <1>4, <1>9, <3>2, <3>4, <3>a
    <3>6. index' + IndexSize' = size
      BY <1>3, <1>4, <3>2, <3>4, SMTT(30)
    <3> QED BY <2>2, <3>4, <3>5, <3>6 DEF Cursor, SIZEOF_ENTRY_DBPF
  <2> QED BY <1>1, <2>1, <2>2
<1>15. DataInside'
  BY <1>2, <1>9 DEF DataInside
<1>16. InputExtent'
  <2>1. input.of > ARCHIVE => input.of \in 1..Len(entries) /\ entries'[input.of] = entries[input.of]
    BY <1>9 DEF TypeOK, NOTHING, ARCHIVE
  <2> QED BY <2>1 DEF InputExtent
<1> QED BY <1>12, <1>13, <1>14, <1>15, <1>16

LEMMA EnumerationIInv == ASSUME IInv, BadEntry \/ Enumerated PROVE IInv'
<1> USE DEF IInv, BadEntry, Enumerated, Error, cursor, extraction
<1>1. at' \in 0..(Len(entries) + 1)
  BY DEF TypeOK
<1>2. TypeOK'
  BY <1>1 DEF TypeOK
<1>3. Stage' /\ Cursor'
  BY DEF Stage, Cursor
<1> QED BY <1>2, <1>3 DEF DataInside, InputExtent

-----------------------------------------------------------------------------
(* The extraction. *)

\* An entry of no bytes passes for one of any size, and its stream wraps.
LEMMA StreamWraps == UInt(UInt(0 - 9) - 9) = Word - 18
<1>1. \A x \in Int : x < 0 /\ x + Word > 0 => UInt(x) = x + Word
  BY WordAssumption DEF UInt
<1>2. UInt(0 - 9) = Word - 9
  BY <1>1, WordAssumption
<1>3. (Word - 9) - 9 = Word - 18 /\ Word - 18 \in Sizes
  BY WordAssumption DEF Sizes
<1> QED BY <1>2, <1>3, UIntFits

\* The three lengths of an entry's Persist file that have to agree leave no
\* room but for what follows its header.
LEMMA StreamAgrees ==
    ASSUME NEW compressed \in Sizes, compressed # 0, Identify("1", compressed) = "persist"
    PROVE  UInt(UInt(compressed - 9) - 9) = compressed - 18
<1>1. compressed >= 18
  BY DEF Identify, SizeOrUnlimited, MINSIZE_PERSIST
<1>2. compressed - 9 \in Sizes /\ compressed - 18 \in Sizes /\ compressed - 9 - 9 = compressed - 18
  BY <1>1, WordAssumption DEF Sizes
<1> QED BY <1>2, UIntFits

LEMMA ReadEntryDataIInv ==
    ASSUME IInv, NEW p \in PersistHeaders, ReadEntryData(p, "1") PROVE IInv'
<1> USE DEF IInv, ReadEntryData, cursor
<1>1. at \in 1..Len(entries) /\ pc = "extract" /\ entries \in Seq(Entries)
  BY DEF Turn, TypeOK, Stage
<1>2. Entry \in Entries
  BY <1>1 DEF Entry
<1>3. p.compressed = UInt(Entry.compressed - 9)
  BY DEF Agrees
<1>4. input' = [of |-> at, from |-> Entry.offset + 18, length |-> UInt(p.compressed - 9)]
  OBVIOUS
<1>5. input' \in [of : NOTHING..Len(entries), from : Nat, length : Sizes]
  <2>1. Entry.offset + 18 \in Nat
    BY <1>2, EntryTypes
  <2>a. Entry.compressed - 9 \in Int
    BY <1>2, EntryTypes
  <2>2. p.compressed - 9 \in Int
    <3>1. p.compressed \in Sizes
      BY <1>3, <2>a, UIntType
    <3>2. p.compressed \in Nat
      BY <3>1, SizesNat
    <3> QED BY <3>2
  <2>3. UInt(p.compressed - 9) \in Sizes
    BY <2>2, UIntType
  <2> QED BY <1>1, <1>4, <2>1, <2>3 DEF NOTHING
<1>6. live' \subseteq {"parameters", "data"} \X (0..Len(entries))
  BY <1>1 DEF TypeOK
<1>7. at' \in 0..(Len(entries) + 1)
  BY <1>1
<1>8. TypeOK'
  BY <1>1, <1>5, <1>6, <1>7 DEF TypeOK
<1>9. Stage' /\ Cursor' /\ DataInside'
  BY <1>1 DEF Stage, Cursor, DataInside
<1>10. InputExtent'
  <2> DEFINE end == (Entry.offset + 18) + UInt(p.compressed - 9)
  <2>1. Entry.offset \in Nat /\ Entry.compressed \in Nat /\ Word \in Nat
    BY <1>2, EntryTypes, WordAssumption
  <2>2. CASE Entry.compressed = 0
    <3>1. end = Entry.offset + Word
      BY <1>3, <2>1, <2>2, StreamWraps
    <3> QED BY <1>1, <1>4, <2>2, <3>1 DEF InputExtent, Entry, ARCHIVE
  <2>3. CASE Entry.compressed # 0
    <3>1. UInt(p.compressed - 9) = Entry.compressed - 18
      BY <1>2, <1>3, <2>3, EntryTypes, StreamAgrees
    <3>2. Entry.offset + Entry.compressed <= size
      BY <1>1, <2>3 DEF DataInside, Entry
    <3>3. end = Entry.offset + Entry.compressed
      BY <2>1, <3>1
    <3> QED BY <1>1, <1>4, <2>3, <3>2, <3>3 DEF InputExtent, Entry, ARCHIVE
  <2> QED BY <2>2, <2>3
<1> QED BY <1>8, <1>9, <1>10

\* The steps of the extraction that decompress nothing.
LEMMA PassingIInv ==
    ASSUME IInv, CorruptData \/ PlainData \/ Save \/ NoPath \/ Finish PROVE IInv'
<1> USE DEF IInv, CorruptData, PlainData, Save, NoPath, Finish, Error, Turn, cursor, extraction
<1>1. Len(entries) \in Nat /\ at \in Nat
  BY DEF TypeOK
<1>2. at' \in 0..(Len(entries) + 1)
  BY <1>1 DEF TypeOK, Stage
<1>3. live' \subseteq live /\ UNCHANGED <<arguments, left, size, archive, index, IndexSize, exhausted, entries, input>>
  OBVIOUS
<1>4. pc' \in {"extract", "save", "done", "error"}
  OBVIOUS
<1>5. TypeOK'
  BY <1>2, <1>3, <1>4 DEF TypeOK
<1>6. Stage' /\ Cursor'
  BY <1>1 DEF Stage, Cursor
<1> QED BY <1>5, <1>6 DEF DataInside, InputExtent

LEMMA ExtractPersistIInv ==
    ASSUME IInv, NEW p \in PersistHeaders, ExtractPersist(p) PROVE IInv'
<1> USE DEF IInv, ExtractPersist, Error, cursor
<1>1. Len(entries) \in Nat
  BY DEF TypeOK
<1>2. live' \subseteq {"parameters", "data"} \X (0..Len(entries))
  BY <1>1
<1>3. /\ size \in Sizes /\ size \in Nat /\ size >= 24 /\ size < Word
      /\ p.compressed \in Sizes /\ p.compressed \in Nat /\ p.compressed < Word
  <2>1. size \in Sizes /\ size >= 24
    BY InputTypes, WordAssumption DEF TypeOK, Stage, Sizes
  <2>2. p.compressed \in Sizes
    BY InputTypes DEF PersistHeaders
  <2> QED BY <2>1, <2>2, SizesNat
<1>4. p.compressed >= size - 9
  <2>1. size - 9 \in Sizes
    BY <1>3, WordAssumption DEF Sizes
  <2> QED BY <2>1, UIntFits DEF PersistHeader
<1>5. UInt(p.compressed - 9) = p.compressed - 9 /\ p.compressed - 9 \in Sizes
  <2>1. p.compressed - 9 \in Sizes
    BY <1>3, <1>4, WordAssumption DEF Sizes
  <2> QED BY <2>1, UIntFits
<1>6. input' = [of |-> 0, from |-> 18, length |-> p.compressed - 9]
  BY <1>5 DEF ARCHIVE
<1>7. input' \in [of : NOTHING..Len(entries), from : Nat, length : Sizes]
  BY <1>1, <1>5, <1>6 DEF NOTHING
<1>8. TypeOK'
  BY <1>2, <1>7 DEF TypeOK
<1>9. Stage' /\ Cursor'
  BY DEF Stage, Cursor
<1>10. InputExtent'
  BY <1>3, <1>4, <1>6 DEF InputExtent, ARCHIVE
<1> QED BY <1>8, <1>9, <1>10 DEF DataInside

LEMMA PersistNoMemoryIInv == ASSUME IInv, NEW p, PersistNoMemory(p) PROVE IInv'
<1> USE DEF IInv, PersistNoMemory, Error, cursor
<1>1. Len(entries) \in Nat
  BY DEF TypeOK
<1>2. live' \subseteq {"parameters", "data"} \X (0..Len(entries))
  BY <1>1
<1>3. TypeOK'
  BY <1>2 DEF TypeOK
<1>4. Stage' /\ Cursor'
  BY DEF Stage, Cursor
<1> QED BY <1>3, <1>4 DEF DataInside, InputExtent

-----------------------------------------------------------------------------
LEMMA NextIInv == IInv /\ [Next]_vars => IInv'
<1> SUFFICES ASSUME IInv, [Next]_vars PROVE IInv'
  OBVIOUS
<1>1. CASE Option \/ NoFile
  BY <1>1, ArgumentsIInv
<1>2. ASSUME NEW n \in ArchiveSizes, Open(n) PROVE IInv'
  BY <1>2, OpenIInv
<1>3. ASSUME NEW magic \in Magics, IdentifyArchive(magic) PROVE IInv'
  BY <1>3, IdentifyIInv
<1>4. CASE Refuse
  BY <1>4, RefuseIInv
<1>5. CASE ReadHeader
  BY <1>5, ReadFARHeaderIInv, ReadDBPFHeaderIInv DEF ReadHeader
<1>6. ASSUME NEW e \in Entries, ReadEntry(e) PROVE IInv'
  BY <1>6, ReadEntryIInv
<1>7. CASE BadEntry \/ Enumerated
  BY <1>7, EnumerationIInv
<1>8. ASSUME NEW p \in PersistHeaders, ReadEntryData(p, "1") \/ ExtractPersist(p) \/ PersistNoMemory(p)
      PROVE  IInv'
  BY <1>8, ReadEntryDataIInv, ExtractPersistIInv, PersistNoMemoryIInv
<1>9. CASE CorruptData \/ PlainData \/ Save \/ NoPath \/ Finish
  BY <1>9, PassingIInv
<1>10. CASE UNCHANGED vars
  BY <1>10 DEF vars, cursor, extraction, IInv, TypeOK, Stage, Cursor, DataInside, InputExtent
<1> QED BY <1>1, <1>2, <1>3, <1>4, <1>5, <1>6, <1>7, <1>8, <1>9, <1>10 DEF Next

LEMMA Invariance == Spec => []IInv
<1>1. IInv /\ [Next]_vars => IInv'
  BY NextIInv
<1> QED BY <1>1, InitIInv, PTL DEF Spec

-----------------------------------------------------------------------------
(* The theorems. *)

\* Every variable keeps its type, the unsigned ones their width, and no more
\* entries are read than the header announces.
THEOREM TypeCorrect == Spec => []TypeOK
<1>1. IInv => TypeOK
  BY DEF IInv
<1> QED BY <1>1, Invariance, PTL

\* The cursor of far_enumerate_entries and the size it counts down stay in
\* step until that size is 0, and in a DBPF file it never is.
THEOREM CursorStaysInStep == Spec => []CursorInStep
<1>1. IInv => CursorInStep
  <2> SUFFICES ASSUME IInv PROVE CursorInStep
    OBVIOUS
  <2>1. archive.major = 0 => entries = <<>> /\ ~exhausted
    BY DEF IInv, Stage
  <2>2. archive.major # 0 => archive.type \in {"far", "dbpf"}
    BY DEF IInv, Stage
  <2>3. entries # <<>> => archive.files # 0
    BY DEF IInv, TypeOK
  <2> QED BY <2>1, <2>2, <2>3 DEF IInv, Cursor, CursorInStep
<1> QED BY <1>1, Invariance, PTL

\* What RefPackDecompress is told to read: the rest of an entry's data, inside
\* the file; up to the width of the integers for an entry of no bytes; at least
\* the rest of a Persist file.
THEOREM InputHasExtent == Spec => []InputExtent
<1>1. IInv => InputExtent
  BY DEF IInv
<1> QED BY <1>1, Invariance, PTL
=============================================================================
