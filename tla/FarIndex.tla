------------------------------ MODULE FarIndex ------------------------------
(***************************************************************************)
(* What farextract reads of a FAR, DBPF or Persist file before and while   *)
(* it extracts: its arguments, the kind and the header of the file, the    *)
(* cursor far_enumerate_entries moves through the index, and the Persist   *)
(* header of each compressed entry.  Offsets and sizes are unsigned        *)
(* integers that wrap; the list of entries is the matter of FarArchive.    *)
(***************************************************************************)
EXTENDS Integers, Sequences

CONSTANTS
    Word,          \* the unsigned integers are 0..Word - 1 (2^32 in the code)
    NameLimit,     \* FAR_CONFIG_MAX_FILE_NAME_LENGTH
    MaxArguments,  \* bound on the arguments of farextract
    ArchiveSizes,  \* sizes of files
    Counts,        \* what the number of files of a header may be
    Offsets,       \* what an offset may be, of the index or of the data of an entry
    IndexSizes,    \* what the size of an index may be
    DataSizes,     \* what a size of an entry may be
    StreamSizes,   \* what CompressedSize and StreamBodySize of a Persist file may be
    Names          \* what FilenameLength may be

ASSUME WordAssumption == /\ Word \in Nat /\ Word > 64 /\ MaxArguments \in Nat
                         /\ UNION {ArchiveSizes, Counts, Offsets, IndexSizes, DataSizes, StreamSizes, Names} \subseteq
                            0..(Word - 1)

UInt(x) == x % Word
Sizes == 0..(Word - 1)

\* Sizes of far.h.
MINSIZE_FAR == 20
MINSIZE_DBPF == 64
MINSIZE_PERSIST == 18
SIZEOF_ENTRY_DBPF == 20
MAX_ENTRIES_DBPF == (Word - 1) \div SIZEOF_ENTRY_DBPF

\* A size of 0 stands for one that is not known.
SizeOrUnlimited(size) == IF size = 0 THEN Word - 1 ELSE size

VARIABLES
    pc,        \* "arguments", "identify", "header", "enumerate", "extract", "persist", "done", "error"
    arguments, \* options read so far: the profile (or "none"), -f
    left,      \* arguments not read yet
    size,      \* ArchiveSize
    archive,   \* the FARFile: type, version, revision, offset and size of the index, files
    index, IndexSize, \* the cursor, as an offset of the file, and what is left by its count
    exhausted, \* history: an entry was read when IndexSize had come down to 0
    entries,   \* the entries enumerated
    at,        \* the entry the extraction is at
    live,      \* blocks allocated for entries: <<"parameters" or "data", entry>>
    input      \* what RefPackDecompress was told to read last: the entry, from where, how much

vars == <<pc, arguments, left, size, archive, index, IndexSize, exhausted, entries, at, live, input>>
cursor == <<index, IndexSize, exhausted, entries>>
extraction == <<at, live, input>>

NOTHING == -1  \* input.of before any call
ARCHIVE == 0   \* input.of of the file itself, a Persist file

NoInput == [of |-> NOTHING, from |-> 0, length |-> 0]
NoArchive == [type |-> "invalid", major |-> 0, revision |-> 0, offset |-> 0, indexsize |-> 0, files |-> 0]

Init == /\ pc = "arguments"
        /\ arguments = [profile |-> "none", overwrite |-> FALSE]
        /\ left \in 0..MaxArguments
        /\ size = 0 /\ archive = NoArchive
        /\ index = 0 /\ IndexSize = 0 /\ exhausted = FALSE /\ entries = <<>>
        /\ at = 0 /\ live = {} /\ input = NoInput

Error == pc' = "error"

-----------------------------------------------------------------------------
(* The arguments.  The last one is the directory, the one before it the file. *)

\* A first profile or a first -f is an option; a second one is the file.
Option == /\ pc = "arguments" /\ left > 2
          /\ \/ /\ arguments.profile = "none"
                /\ \E p \in {"ts1", "tso", "sc4"} : arguments' = [arguments EXCEPT !.profile = p]
             \/ /\ ~arguments.overwrite
                /\ arguments' = [arguments EXCEPT !.overwrite = TRUE]
          /\ left' = left - 1
          /\ UNCHANGED <<pc, size, archive, cursor, extraction>>

\* No file, or - for standard input.
NoFile == /\ pc = "arguments"
          /\ Error
          /\ UNCHANGED <<arguments, left, size, archive, cursor, extraction>>

\* A file of n bytes is read in whole.
Open(n) == /\ pc = "arguments" /\ left >= 2
           /\ n >= 24
           /\ left' = 0 /\ size' = n
           /\ arguments' = [arguments EXCEPT !.profile = IF @ = "none" THEN "tso" ELSE @]
           /\ pc' = "identify"
           /\ UNCHANGED <<archive, cursor, extraction>>

\* far_identify of n bytes that begin with magic.
Identify(magic, n) ==
    LET FileSize == SizeOrUnlimited(n)
    IN IF FileSize >= MINSIZE_FAR /\ magic = "FAR!byAZ" THEN "far"
       ELSE IF FileSize >= MINSIZE_DBPF /\ magic = "DBPF" THEN "dbpf"
       ELSE IF FileSize >= MINSIZE_PERSIST /\ magic = "1" THEN "persist" ELSE "invalid"

IdentifyArchive(magic) ==
    /\ pc = "identify"
    /\ LET type == Identify(magic, size)
       IN /\ pc' = IF type = "invalid" THEN "error"
                   ELSE IF type = "persist" THEN "persist" ELSE "header"
          /\ archive' = [archive EXCEPT !.type = type]
    /\ UNCHANGED <<arguments, left, size, cursor, extraction>>

\* The directory does not exist, there is no memory, or a header is refused.
Refuse == /\ pc \in {"identify", "header", "persist"}
          /\ Error
          /\ UNCHANGED <<arguments, left, size, archive, cursor, extraction>>

-----------------------------------------------------------------------------
(* far_read_header and far_enumerate_entries *)

MinEntrySize(a) == IF a.type = "dbpf" THEN SIZEOF_ENTRY_DBPF
                   ELSE IF a.major = 3 THEN 24
                   ELSE IF a.revision = 0 THEN 16 ELSE 14

\* The first statements of far_enumerate_entries follow the header.
Begin(a) == /\ archive' = a
            /\ index' = a.offset + IF a.type = "far" THEN 4 ELSE 0
            /\ IndexSize' = UInt(size - a.offset)
            /\ pc' = "enumerate"
            /\ UNCHANGED <<arguments, left, size, exhausted, entries, extraction>>

ReadFARHeader(major, offset, files) ==
    LET a == [archive EXCEPT !.major = major, !.offset = offset, !.files = files,
              !.revision = IF major = 1 /\ arguments.profile # "ts1" THEN 1 ELSE 0]
    IN /\ pc = "header" /\ archive.type = "far"
       /\ offset <= UInt(size - 4)
       /\ files <= UInt(size - offset) \div MinEntrySize(a)
       /\ Begin(a)

\* Bug: the size of the index is not held against the file.
ReadDBPFHeaderUnbounded(offset, indexsize, files) ==
    /\ pc = "header" /\ archive.type = "dbpf"
    /\ files # 0 => /\ files <= MAX_ENTRIES_DBPF
                    /\ indexsize = UInt(files * SIZEOF_ENTRY_DBPF)
                    /\ offset <= size
    /\ Begin([archive EXCEPT !.major = 1, !.offset = offset, !.indexsize = indexsize, !.files = files])

\* The trash index is checked the same way and not read.
ReadDBPFHeader(offset, indexsize, files) ==
    /\ pc = "header" /\ archive.type = "dbpf"
    /\ files # 0 => /\ files <= MAX_ENTRIES_DBPF
                    /\ indexsize = UInt(files * SIZEOF_ENTRY_DBPF)
                    /\ offset <= size
                    /\ indexsize <= UInt(size - offset)
    /\ Begin([archive EXCEPT !.major = 1, !.offset = offset, !.indexsize = indexsize, !.files = files])

Inside(e) == e.offset <= size /\ e.compressed <= UInt(size - e.offset)

\* The fields of an entry far_read_entry accepts.
Acceptable(e, MaxEntrySize) ==
    IF archive.type = "dbpf"
    THEN /\ MaxEntrySize >= SIZEOF_ENTRY_DBPF
         /\ e.name = 0 /\ ~e.packed
         /\ e.decompressed = e.compressed
         /\ e.compressed # 0 => Inside(e)
    ELSE /\ MaxEntrySize >= MinEntrySize(archive)
         /\ e.name <= MaxEntrySize - MinEntrySize(archive) /\ e.name <= NameLimit
         /\ e.compressed <= e.decompressed
         /\ IF e.decompressed # 0 THEN Inside(e) ELSE archive.major = 3 => ~e.packed
         /\ archive.major = 1 => ~e.packed  \* the version has no DataType

\* Bug: IndexSize does not account for the name.
AdvanceKeepsName(e) == /\ index' = index + MinEntrySize(archive) + e.name
                       /\ IndexSize' = UInt(IndexSize - MinEntrySize(archive))

Advance(e) == /\ index' = index + MinEntrySize(archive) + e.name
              /\ IndexSize' = UInt(IndexSize - MinEntrySize(archive) - e.name)

\* Bug: one entry too many is read.
MoreEntriesTooMany == Len(entries) <= archive.files

MoreEntries == Len(entries) < archive.files

ReadEntry(e) == /\ pc = "enumerate" /\ MoreEntries
                /\ Acceptable(e, SizeOrUnlimited(IndexSize))
                /\ entries' = Append(entries, e)
                /\ exhausted' = (exhausted \/ IndexSize = 0)
                /\ Advance(e)
                /\ UNCHANGED <<pc, arguments, left, size, archive, extraction>>

BadEntry == /\ pc = "enumerate" /\ MoreEntries
            /\ Error
            /\ UNCHANGED <<arguments, left, size, archive, cursor, extraction>>

Enumerated == /\ pc = "enumerate" /\ Len(entries) = archive.files
              /\ pc' = "extract" /\ at' = 1
              /\ UNCHANGED <<arguments, left, size, archive, cursor, live, input>>

-----------------------------------------------------------------------------
(* far_read_entry_data, far_read_persist_header, far_read_persist_data *)

Entry == entries[at]

\* The data of the entry is a Persist file.
Compressed == \/ archive.type = "dbpf" /\ arguments.profile = "sc4"
              \/ archive.type = "far" /\ archive.major = 1 /\ Entry.decompressed # Entry.compressed
              \/ archive.type = "far" /\ archive.major = 3 /\ Entry.packed

\* far_read_persist_header takes the header of n bytes of data.
PersistHeader(p, n) == /\ p.compressed >= UInt(n - 9)
                       /\ p.compressed = p.streambody

\* Bug: the size of the stream is not held against that of the entry.
AgreesOnOutput(p) == p.decompressed = Entry.decompressed /\ p.refpack

\* The header agrees with the entry; else its Parameters are freed again.
Agrees(p) == /\ p.decompressed = Entry.decompressed
             /\ p.compressed = UInt(Entry.compressed - 9)
             /\ p.refpack

Turn == pc = "extract" /\ at <= Len(entries)

\* The decompression fails (and frees its output) or not.
ReadEntryData(p, magic) ==
    /\ Turn /\ Compressed
    /\ Identify(magic, Entry.compressed) = "persist"
    /\ PersistHeader(p, Entry.compressed) /\ Agrees(p)
    /\ input' = [of |-> at, from |-> Entry.offset + 18, length |-> UInt(p.compressed - 9)]
    /\ \/ live' = live \cup {<<"parameters", at>>, <<"data", at>>} /\ pc' = "save" /\ at' = at
       \/ live' = live /\ pc' = pc /\ at' = at + 1
    /\ UNCHANGED <<arguments, left, size, archive, cursor>>

\* The data is no Persist file, or one that does not agree, or memory is short.
CorruptData == /\ Turn /\ Compressed
               /\ at' = at + 1
               /\ UNCHANGED <<pc, arguments, left, size, archive, cursor, live, input>>

\* DecompressedData is the data itself.
PlainData == /\ Turn /\ ~Compressed
             /\ pc' = "save"
             /\ UNCHANGED <<arguments, left, size, archive, cursor, extraction>>

\* Written, or skipped because it exists or cannot be opened.
Save == /\ pc = "save"
        /\ live' = live \ {<<"data", at>>}
        /\ at' = at + 1 /\ pc' = "extract"
        /\ UNCHANGED <<arguments, left, size, archive, cursor, input>>

NoPath == /\ pc = "save"
          /\ Error
          /\ UNCHANGED <<arguments, left, size, archive, cursor, extraction>>

Finish == /\ pc = "extract" /\ at > Len(entries)
          /\ pc' = "done"
          /\ UNCHANGED <<arguments, left, size, archive, cursor, extraction>>

\* The branch of farextract for a Persist file.  There is no index to hold its
\* header against: RefPackDecompress is called with what CompressedSize says.
\* What it decompresses is freed when it cannot be saved, and left to the end of
\* the process otherwise.
ExtractPersist(p) ==
    /\ pc = "persist"
    /\ PersistHeader(p, size)
    /\ input' = [of |-> ARCHIVE, from |-> 18, length |-> UInt(p.compressed - 9)]
    /\ \/ pc' = "done" /\ live' = {<<"parameters", 0>>, <<"data", 0>>}
       \/ Error /\ live' = {<<"parameters", 0>>}
    /\ UNCHANGED <<arguments, left, size, archive, cursor, at>>

\* There is no memory for what is decompressed.
PersistNoMemory(p) == /\ pc = "persist"
                      /\ PersistHeader(p, size)
                      /\ Error /\ live' = {<<"parameters", 0>>}
                      /\ UNCHANGED <<arguments, left, size, archive, cursor, at, input>>

Entries == [decompressed : DataSizes, compressed : DataSizes, offset : Offsets,
            name : Names, packed : BOOLEAN]
PersistHeaders == [decompressed : DataSizes, compressed : StreamSizes, streambody : StreamSizes,
                   refpack : BOOLEAN]
Magics == {"FAR!byAZ", "DBPF", "1", "other"}

ReadHeader == \E offset \in Offsets, files \in Counts :
                 \/ \E major \in {1, 3} : ReadFARHeader(major, offset, files)
                 \/ \E indexsize \in IndexSizes : ReadDBPFHeader(offset, indexsize, files)

Next == \/ Option \/ NoFile \/ \E n \in ArchiveSizes : Open(n)
        \/ \E magic \in Magics : IdentifyArchive(magic)
        \/ Refuse \/ ReadHeader
        \/ \E e \in Entries : ReadEntry(e)
        \/ BadEntry \/ Enumerated
        \/ \E p \in PersistHeaders : \/ ReadEntryData(p, "1")
                                    \/ ExtractPersist(p) \/ PersistNoMemory(p)
        \/ CorruptData \/ PlainData \/ Save \/ NoPath \/ Finish

Spec == Init /\ [][Next]_vars

-----------------------------------------------------------------------------
(* Properties. *)

TypeOK ==
    /\ pc \in {"arguments", "identify", "header", "enumerate", "extract", "save", "persist", "done", "error"}
    /\ arguments \in [profile : {"none", "ts1", "tso", "sc4"}, overwrite : BOOLEAN]
    /\ left \in 0..MaxArguments /\ size \in {0} \cup ArchiveSizes
    /\ archive \in [type : {"far", "dbpf", "persist", "invalid"}, major : {0, 1, 3}, revision : {0, 1},
                    offset : Sizes, indexsize : Sizes, files : 0..(Word \div 14)]
    /\ index \in Nat /\ IndexSize \in Sizes /\ exhausted \in BOOLEAN
    /\ entries \in Seq(Entries) /\ Len(entries) <= archive.files
    /\ at \in 0..(Len(entries) + 1)
    /\ live \subseteq {"parameters", "data"} \X (0..Len(entries))
    /\ input \in [of : NOTHING..Len(entries), from : Nat, length : Sizes]

\* The cursor of the index and the count of what is left of it move together,
\* whatever the names: an entry ends within the file, or within the four bytes
\* of the count of a FAR file that IndexSize does not account for.  It holds
\* until IndexSize has come down to 0, which far_read_entry takes for a size
\* that is not known; the header of a DBPF file makes sure it never does.
CursorInStep == LET end == IF archive.type = "far" THEN size + 4 ELSE size
                IN /\ entries # <<>> /\ ~exhausted => index + IndexSize = end
                   /\ archive.type = "dbpf" => ~exhausted

\* What RefPackDecompress is told to read for an entry is the rest of the data
\* the index gives that entry, and inside the file: the checks of the index, of
\* the Persist header and of the one against the other come to that together.
\* An entry of compressed size 0 is read up to the width of the integers, since
\* far_identify takes 0 for unknown.  A Persist file is read to its end at the
\* least, and as far beyond it as its header says.
InputExtent ==
    LET end == input.from + input.length
    IN /\ input.of > ARCHIVE =>
             LET e == entries[input.of]
             IN IF e.compressed = 0 THEN end = e.offset + Word
                                    ELSE end = e.offset + e.compressed /\ end <= size
       /\ input.of = ARCHIVE => end >= size
=============================================================================
