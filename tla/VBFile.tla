------------------------------- MODULE VBFile -------------------------------
(***************************************************************************)
(* vbparse: a VitaBoy file of nine kinds is read from its start, field     *)
(* after field.  Only an animation goes elsewhere: the frames of a motion  *)
(* are in two tables that were passed before, and the reader seeks to them *)
(* and back.  No field is compared with the size of the file.              *)
(***************************************************************************)
EXTENDS Integers, Sequences

CONSTANTS
    Counts,   \* values of the counts in a file
    Entries,  \* numbers of entries of a table, and first entries of a motion
    Lengths,  \* lengths of strings
    Word      \* 2^32: a position is an unsigned when it is taken or set

ASSUME CountsAssumption ==
    Counts \subseteq Nat /\ Entries \subseteq Nat /\ Lengths \subseteq Nat /\ Word \in Nat \ {0}

VARIABLES
    vbpc,     \* arguments, fields, done, failed or undefined
    todo,     \* the fields that are still to read
    pos,      \* VBFile.Position, counted from the start of the file
    end,      \* the bytes of the fields and tables that were read or passed
    tables,   \* of translations and rotations: the offset and the number of entries
    counts,   \* of vertices: with a texture coordinate, blended, in all
    seek      \* the table the reader is in, the frames left there, where it came from

vbvars == <<vbpc, todo, pos, end, tables, counts, seek>>

(***************************************************************************)
(* The kinds of fields, and what each part of a file consists of           *)
(***************************************************************************)
Field(kind, size, of) == [kind |-> kind, size |-> size, of |-> of]
Bytes(n)    == Field("bytes", n, "none")
Pascal(w)   == Field("string", w, "none")   \* the length in w bytes, and so many bytes
Many(w, g)  == Field("many", w, g)          \* a count in w bytes, and so many g
Maybe(w, g) == Field("maybe", w, g)         \* g if the w bytes are not 0
Table(n, t) == Field("table", n, t)         \* a count in 4 bytes, and so many entries that are passed

Asset == Bytes(8)        \* NOGROUP: File and Type
GroupAsset == Bytes(12)  \* READGROUP

ReadAppearance == <<Bytes(4), Asset, Many(4, "asset")>>
ReadBinding    == <<Bytes(4), Pascal(1), Maybe(4, "groupasset"), Maybe(4, "groupasset")>>
ReadCollection == <<Many(4, "podef")>>
ReadHandGroup  == <<Bytes(4), Bytes(18 * 8)>>
ReadOutfit     == <<Bytes(8), Asset, Asset, Asset, Bytes(8)>>
ReadPurchasableOutfit == <<Bytes(8), Maybe(4, "groupasset"), Maybe(4, "groupasset")>>
ReadMesh == <<Bytes(4), Many(4, "string"), Many(4, "face"), Many(4, "binding"),
              Many(4, "texture"), Many(4, "blend"), Many(4, "vertex")>>
ReadSkeleton  == <<Bytes(4), Pascal(1), Many(2, "bone")>>
ReadBone      == <<Bytes(4), Pascal(1), Pascal(1), Maybe(1, "propslist"), Bytes(28), Bytes(12), Bytes(8)>>
ReadAnimation == <<Bytes(4), Pascal(2), Bytes(9), Table(12, "translations"), Table(16, "rotations"),
                   Many(4, "motion")>>
ReadMotion    == <<Bytes(4), Pascal(1), Field("motion", 18, "none"),
                   Maybe(1, "propslists"), Maybe(1, "timepropslists")>>

\* The lists of properties, and of properties that come at a time.
PropsLists == [
    propslist |-> <<Many(4, "prop")>>, prop |-> <<Many(4, "entry")>>, entry |-> <<Pascal(1), Pascal(1)>>,
    propslists |-> <<Many(4, "propslist")>>, timepropslists |-> <<Many(4, "timepropslist")>>,
    timepropslist |-> <<Many(4, "timeprop")>>, timeprop |-> <<Bytes(4), Many(4, "prop")>> ]

Parts == [
    asset |-> <<Asset>>, groupasset |-> <<GroupAsset>>, podef |-> <<Bytes(4), Asset>>,
    string |-> <<Pascal(1)>>, face |-> <<Bytes(12)>>, binding |-> <<Bytes(20)>>,
    texture |-> <<Bytes(8)>>, blend |-> <<Bytes(8)>>, vertex |-> <<Bytes(24)>>,
    bone |-> ReadBone, motion |-> ReadMotion ]

Files == [apr |-> ReadAppearance, bnd |-> ReadBinding, col |-> ReadCollection, hag |-> ReadHandGroup,
          oft |-> ReadOutfit, po |-> ReadPurchasableOutfit, mesh |-> ReadMesh, skel |-> ReadSkeleton,
          anim |-> ReadAnimation]

Fields(g) == IF g \in DOMAIN PropsLists THEN PropsLists[g] ELSE Parts[g]

EntrySize == [translations |-> 12, rotations |-> 16]

Repeat(c, fields) == [i \in 1 .. c * Len(fields) |-> fields[((i - 1) % Len(fields)) + 1]]

NoSeek == [table |-> "none", frames |-> 0, back |-> 0]
NoTable == [offset |-> 0, count |-> 0]

VBInit ==
    /\ vbpc = "arguments" /\ todo = << >> /\ pos = 0 /\ end = 0 /\ seek = NoSeek
    /\ tables = [t \in DOMAIN EntrySize |-> NoTable]
    /\ counts = [texture |-> 0, blend |-> 0]

\* A name with no dot and no -t: strrchr gives NULL, which is moved by one.
VBArguments ==
    /\ vbpc = "arguments"
    /\ \/ vbpc' = "failed" /\ UNCHANGED todo      \* no such kind, or the file is not read
       \/ vbpc' = "undefined" /\ UNCHANGED todo
       \/ \E k \in DOMAIN Files : vbpc' = "fields" /\ todo' = Files[k]
    /\ UNCHANGED <<pos, end, tables, counts, seek>>

(***************************************************************************)
(* Reading a field                                                         *)
(***************************************************************************)
AtField(kind) == vbpc = "fields" /\ seek.table = "none" /\ todo # << >> /\ Head(todo).kind = kind

Size(n) == pos' = pos + n /\ end' = end + n

\* getpos and seekto: the position is cut to 32 bits.
Cut(position) == position % Word

Then(fields) == todo' = fields \o Tail(todo)

ReadBytes ==
    /\ AtField("bytes") /\ Size(Head(todo).size) /\ Then(<< >>)
    /\ UNCHANGED <<vbpc, tables, counts, seek>>

ReadString ==
    /\ AtField("string")
    /\ \E n \in Lengths : Size(Head(todo).size + n)
    /\ Then(<< >>) /\ UNCHANGED <<vbpc, tables, counts, seek>>

\* A vertex takes its texture coordinate or its blend data from what was read.
ReadMany ==
    /\ AtField("many") /\ Size(Head(todo).size)
    /\ LET g == Head(todo).of IN
       \E c \in Counts :
          /\ Then(Repeat(c, Fields(g)))
          /\ counts' = IF g \in DOMAIN counts THEN [counts EXCEPT ![g] = c] ELSE counts
          /\ vbpc' = IF g = "vertex" /\ c > counts.texture + counts.blend THEN "undefined" ELSE vbpc
    /\ UNCHANGED <<tables, seek>>

ReadMaybe ==
    /\ AtField("maybe") /\ Size(Head(todo).size)
    /\ Then(<< >>) \/ Then(Fields(Head(todo).of))
    /\ UNCHANGED <<vbpc, tables, counts, seek>>

\* The size of a table is a product of 32 bits, and so is its end.
PassTable ==
    /\ AtField("table")
    /\ \E c \in Entries :
          LET offset == Cut(pos + 4)
          IN /\ pos' = Cut(offset + Head(todo).size * c)
             /\ end' = end + 4 + Head(todo).size * c
             /\ tables' = [tables EXCEPT ![Head(todo).of] = [offset |-> offset, count |-> c]]
    /\ Then(<< >>) /\ UNCHANGED <<vbpc, counts, seek>>

\* FrameCount, Duration, the two flags and the first entry in each table.
ReadFrameCounts ==
    /\ AtField("motion") /\ Size(18)
    /\ \E n \in Counts, first \in Entries, has \in SUBSET DOMAIN EntrySize :
          LET frames(t) == IF t \in has THEN <<[kind |-> "frames", size |-> first, of |-> t, n |-> n]>> ELSE << >>
          IN Then(frames("translations") \o frames("rotations"))
    /\ UNCHANGED <<vbpc, tables, counts, seek>>

(***************************************************************************)
(* The frames of a motion                                                  *)
(***************************************************************************)
SeekTable ==
    /\ AtField("frames")
    /\ LET f == Head(todo) IN
       /\ seek' = [table |-> f.of, frames |-> f.n, back |-> Cut(pos)]
       /\ pos' = Cut(tables[f.of].offset + EntrySize[f.of] * f.size)
    /\ UNCHANGED <<vbpc, todo, end, tables, counts>>

ReadFrame ==
    /\ seek.frames > 0
    /\ pos' = pos + EntrySize[seek.table] /\ seek' = [seek EXCEPT !.frames = @ - 1]
    /\ UNCHANGED <<vbpc, todo, end, tables, counts>>

\* Bug: the reader stays behind the frames.
NotBack == pos

Back == seek.back

SeekBack ==
    /\ seek.table # "none" /\ seek.frames = 0
    /\ pos' = Back /\ seek' = NoSeek /\ Then(<< >>)
    /\ UNCHANGED <<vbpc, end, tables, counts>>

AllRead ==
    /\ vbpc = "fields" /\ todo = << >>
    /\ vbpc' = "done" /\ UNCHANGED <<todo, pos, end, tables, counts, seek>>

VBNext ==
    \/ VBArguments \/ ReadBytes \/ ReadString \/ ReadMany \/ ReadMaybe \/ PassTable
    \/ ReadFrameCounts \/ SeekTable \/ ReadFrame \/ SeekBack \/ AllRead

(***************************************************************************)
(* Property                                                                *)
(***************************************************************************)
\* A motion that names more entries than its table has.
TooManyFrames ==
    seek.table # "none" /\ Head(todo).size + Head(todo).n > tables[seek.table].count

(* For as long as the fields and the tables come to less than 2^32 bytes,  *)
(* by the counts in the file, the fields follow each other without a gap,  *)
(* whatever tables are visited between them, and the frames of a motion    *)
(* are read inside of their table unless the motion names more than the    *)
(* table has.  A table of 2^32 bytes and more takes the reader to where    *)
(* the product wraps to, back into what was read before.                   *)
FileInOrder ==
    end < Word =>
    /\ seek.table = "none" => pos = end
    /\ seek.table # "none" =>
       /\ seek.back = end
       /\ \/ TooManyFrames
          \/ LET t == tables[seek.table]
                 left == EntrySize[seek.table] * seek.frames
             IN pos >= t.offset /\ pos + left <= t.offset + EntrySize[seek.table] * t.count
                /\ pos + left <= end
=============================================================================
