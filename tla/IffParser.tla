----------------------------- MODULE IffParser -----------------------------
(***************************************************************************)
(* iff_parse_chunk, the parsers of iff/*.c and the byte stream they read   *)
(* from (iffparser.h).  A parser is a list of operations for the head of   *)
(* the chunk, one for each element of its array and one for each part of   *)
(* an element; what an operation does to the stream and to the memory of   *)
(* FormattedData is an action.  Sprites are decoded by IffSprite.          *)
(***************************************************************************)
EXTENDS IffSprite, SequencesExt

CONSTANTS
    Formats,     \* the formats that are parsed
    Sizes,       \* sizes of chunks
    Angles,      \* angles of a draw group (12 in the code)
    Lengths,     \* lengths of strings
    MaxElements, \* bound on the elements of an array
    Dimensions,  \* widths and heights of sprites
    SpriteSizes, \* size fields of sprites
    Offsets      \* offsets of sprites

ASSUME ParserAssumption ==
    /\ Sizes \subseteq 0..(Word - 1) /\ SpriteSizes \subseteq 0..(Word - 1)
    /\ Angles \in Nat \ {0} /\ MaxElements \in Nat
    /\ Lengths \subseteq Nat /\ Dimensions \subseteq Nat /\ Offsets \subseteq Nat

VARIABLES
    f,               \* the format that is being parsed
    TotalSize,
    Size,            \* b.Size
    place,           \* which operation of which list, and the element and part it is for, from 1
    elements, parts, \* the counts in FormattedData: of elements, of parts of each element
    script,          \* lengths a first pass has found
    blocks,          \* blocks of FormattedData: <<>> itself, <<0>> its array, <<e>> that of
                     \* element e, <<e, p, s>> string or picture s of part p
    result           \* "none", "parsing", "parsed", "failed"

input == <<f, TotalSize>>
stream == <<at, Size>>
counts == <<elements, parts, script>>
parsevars == <<input, stream, place, counts, blocks, result, spritevars>>

-----------------------------------------------------------------------------
(* Operations, and the parsers as lists of them. *)

Op(name, n) == [op |-> name, n |-> n, string |-> "none"]
Need(n) == Op("need", n)    \* if(b.Size < n) return 0
Stop(n) == Op("stop", n)    \* if(b.Size < n) return 1
Take(n) == Op("take", n)    \* n bytes are read, unchecked
Seek(n) == Op("seek", n)
Check == Op("check", 0)     \* values of fields
Table(n) == Op("table", n)  \* an array of n bytes each, held against the size first
Elements == Op("elements", 0)  \* the count of the array
Exactly(n) == Op("elements", n)
Found == [Op("elements", 0) EXCEPT !.string = "found"]  \* as many as were counted
Parts == Op("parts", 0)
Scan(n) == Op("scan", n)    \* a first pass, over elements of n bytes and their strings
Pad == Op("pad", 0)
Text(kind) == [Op("text", 0) EXCEPT !.string = kind]
OffsetTable(n) == Op("offsets", n)
Walk(n) == Op("walk", n)
SpriteAt(n) == Op("sprite", n)
Header(n) == Op("header", n)
Rows(n) == Op("rows", n)

Format(type, min, head, elementops, partops) ==
    [type |-> type, min |-> min, head |-> head, element |-> elementops, part |-> partops]

\* Formats 0 to -4 of STR#; one that is not known is big endian, without a
\* format of its own.
Strings(head, partops) == Format("STR#", 2, head, <<Need(2), Take(2), Parts>>, partops)

STRBigEndian == Strings(<<Take(2), Stop(2), Seek(0), Exactly(1)>>, <<Text("pascal")>>)
STR0 == Strings(<<Take(2), Stop(2), Exactly(1)>>, <<Text("pascal")>>)
STR1 == Strings(<<Take(2), Stop(2), Exactly(1)>>, <<Text("c")>>)
STR2 == Strings(<<Take(2), Stop(2), Exactly(1)>>, <<Text("c"), Text("c")>>)
STR3 == Format("STR#", 2, <<Take(2), Stop(2), Take(2), Scan(3), Found, Seek(4)>>,
               <<Take(1), Text("c"), Text("c")>>, <<>>)
STR4 == Strings(<<Take(2), Stop(2), Take(1), Check, Elements>>,
                <<Need(1), Take(1), Check, Text("pascal2"), Text("pascal2")>>)
CATS == Format("CATS", 0, <<Text("c"), Text("c")>>, <<>>, <<>>)
FWAV == Format("FWAV", 0, <<Text("c")>>, <<>>, <<>>)
GLOB == Format("GLOB", 0, <<Text("any")>>, <<>>, <<>>)
BCON == Format("BCON", 2, <<Take(2), Table(2)>>, <<>>, <<>>)
\* BHAV, whose version 0x8003 has a longer header, and OBJf and PALT.
BHAV == Format("BHAV", 12, <<Take(12), Check, Table(12)>>, <<>>, <<>>)
BHAV3 == Format("BHAV", 13, <<Take(13), Check, Table(12)>>, <<>>, <<>>)
OBJf == Format("OBJf", 16, <<Take(16), Check, Table(4)>>, <<>>, <<>>)
PALT == Format("PALT", 16, <<Take(16), Check, Table(3)>>, <<>>, <<>>)
\* Versions 20000, 20001, 20003 and 20004 of DGRP: Angles angles each.
DGRP(head, angle, sprite) ==
    Format("DGRP", 4 + 4 * Angles, <<Take(head), Check, Exactly(Angles)>>,
           <<Need(angle), Take(angle), Check, Parts>>, <<Need(sprite), Take(sprite)>>)
DGRP0 == DGRP(4, 4, 12)
DGRP1 == DGRP(4, 4, 16)
DGRP3 == DGRP(6, 12, 24)
DGRP4 == DGRP(6, 12, 32)
FCNS1 == Format("FCNS", 16, <<Take(16), Check, Elements>>,
                <<Text("c"), Pad, Need(4), Take(4), Text("c"), Pad>>, <<>>)
FCNS2 == Format("FCNS", 16, <<Take(16), Check, Elements>>,
                <<Text("pascal2"), Need(4), Take(4), Text("pascal2")>>, <<>>)
TRCN0 == Format("TRCN", 16, <<Take(16), Check, Elements>>,
                <<Need(10), Take(8), Need(1), Text("c"), Pad, Need(1), Text("c"), Pad>>, <<>>)
TRCN1 == [TRCN0 EXCEPT !.element = <<Need(10), Take(8), Need(1), Text("c"), Pad,
                                     Need(1), Text("c"), Pad, Need(5), Take(5)>>]
TRCN2 == [TRCN0 EXCEPT !.element = <<Need(10), Take(8), Need(1), Text("pascal2"),
                                     Need(1), Text("pascal2"), Need(5), Take(5)>>]
RSMP0 == Format("rsmp", 20, <<Take(20), Check, Elements>>, <<Need(8), Take(8), Parts>>,
                <<Need(9), Take(8), Text("c")>>)
RSMP1 == [RSMP0 EXCEPT !.part = <<Need(11), Take(10), Text("pascal")>>]
TMPL == Format("TMPL", 0, <<Stop(1), Scan(5), Found, Seek(0)>>, <<Text("pascal"), Take(4)>>, <<>>)
\* Sprites found by a table of offsets, or (version 1001) one after the other.
SPR(type, header, find) == Format(type, 12, <<Take(12), Check, find, Found>>,
                                  <<SpriteAt(header), Header(header), Rows(header)>>, <<>>)
SPR505 == SPR("SPR#", 8, OffsetTable(4))
SPR1001 == SPR("SPR#", 8, Walk(16))
SPR2 == SPR("SPR2", 16, OffsetTable(4))
SPR2_1001 == SPR("SPR2", 16, Walk(24))

AllFormats == {STRBigEndian, STR0, STR1, STR2, STR3, STR4, CATS, FWAV, GLOB, BCON, BHAV, BHAV3, OBJf, PALT,
               DGRP0, DGRP1, DGRP3, DGRP4, FCNS1, FCNS2, TRCN0, TRCN1, TRCN2, RSMP0, RSMP1, TMPL,
               SPR505, SPR1001, SPR2, SPR2_1001}

ASSUME KnownAssumption == Formats \subseteq AllFormats

-----------------------------------------------------------------------------
Start == [list |-> "head", op |-> 1, element |-> 0, part |-> 0]

ParserInit == /\ f = CATS /\ TotalSize = 0 /\ Size = 0 /\ at = 0
              /\ place = Start
              /\ elements = 0 /\ parts = <<>> /\ script = <<>>
              /\ blocks = {} /\ result = "none"
              /\ SpriteInit

\* FormattedData of these is the string that is read, and TMPL makes it after
\* its first pass.
MadeLater == {"FWAV", "GLOB", "TMPL"}
IsString == f.type \in {"FWAV", "GLOB"}

Parsing == result = "parsing"
Ops == f[place.list]
Current == Ops[place.op]
At(name) == Parsing /\ mode = "none" /\ place.op <= Len(Ops) /\ Current.op = name
Skip(n) == place' = [place EXCEPT !.op = @ + n]
NextOp == Skip(1)

\* set_bytestream and the check of the size by the parser.
ParseChunk(format, size) ==
    /\ f' = format /\ TotalSize' = size /\ Size' = size /\ at' = 0
    /\ place' = Start
    /\ elements' = 0 /\ parts' = <<>> /\ script' = <<>>
    /\ \/ /\ size >= format.min
          /\ result' = "parsing"
          /\ blocks' = IF format.type \in MadeLater THEN {} ELSE {<<>>}
       \/ result' = "failed" /\ blocks' = {}
    /\ UNCHANGED spritevars

\* Bug: the pictures or strings of the last element are left.
ReachedOneLess == {b \in blocks : Len(b) = 3 => IF f.part = <<>> THEN b[1] < elements
                                                ELSE b[2] < parts[b[1]]}

\* The blocks that iff_free_chunk and the iff_free function of the type reach by
\* the counts.
Reached == {b \in blocks : Len(b) = 3 => IF f.part = <<>> THEN b[1] <= elements
                                         ELSE b[2] <= parts[b[1]]}

\* Operations at which a parser may find its input unfit, or memory short.
MayFail == {"check", "table", "elements", "parts", "scan", "text", "offsets", "walk", "sprite", "header"}

\* A parser returns: its locals are gone.
Return(r) == /\ result' = r
             /\ place' = Start /\ TotalSize' = 0 /\ Size' = 0 /\ at' = 0 /\ script' = <<>>
             /\ SpriteReset
             /\ UNCHANGED f

\* It returns 0, and iff_parse_chunk frees what it has made.
Fail == /\ Parsing
        /\ \/ At("need") /\ Size < Current.n
           \/ \E name \in MayFail : At(name)
           \/ mode = "bad"
        /\ Return("failed")
        /\ blocks' = blocks \ Reached
        /\ elements' = 0 /\ parts' = <<>>

ReadNeed == /\ At("need") /\ Size >= Current.n
            /\ NextOp
            /\ UNCHANGED <<input, stream, counts, blocks, result, spritevars>>

\* A chunk that ends here is accepted.
StopHere == /\ At("stop") /\ Size < Current.n
            /\ Return("parsed")
            /\ UNCHANGED <<elements, parts, blocks>>

ReadStop == /\ At("stop") /\ Size >= Current.n
            /\ NextOp
            /\ UNCHANGED <<input, stream, counts, blocks, result, spritevars>>

\* read_uint8, read_uint16, read_uint32, read_float, memcpy: unchecked.
Advance(n) == at' = at + n /\ Size' = UInt(Size - n)

ReadTake == /\ At("take")
            /\ Advance(Current.n)
            /\ NextOp
            /\ UNCHANGED <<input, counts, blocks, result, spritevars>>

\* seekto
SeekTo(n) == n <= TotalSize /\ at' = n /\ Size' = TotalSize - n

ReadSeek == /\ At("seek")
            /\ SeekTo(Current.n)
            /\ NextOp
            /\ UNCHANGED <<input, counts, blocks, result, spritevars>>

ReadCheck == /\ At("check")
             /\ NextOp
             /\ UNCHANGED <<input, stream, counts, blocks, result, spritevars>>

\* An array without strings; PALT has room for it in FormattedData.
ReadTable == /\ At("table")
             /\ \E n \in 0..MaxElements :
                   /\ n * Current.n <= Size
                   /\ f.type = "PALT" => n > 0
                   /\ Advance(n * Current.n)
                   /\ blocks' = IF n > 0 /\ f.type # "PALT" THEN blocks \cup {<<0>>} ELSE blocks
             /\ NextOp
             /\ UNCHANGED <<input, counts, result, spritevars>>

\* The array is made even for no elements by FCNS, rsmp and TMPL; DGRP and most
\* of STR# have room for theirs in FormattedData.
OwnArray == f.type = "DGRP" \/ (f.type = "STR#" /\ Current # Found)
ArrayBlock(n) == IF ~OwnArray /\ (n > 0 \/ f.type \in {"FCNS", "rsmp", "TMPL"}) THEN {<<0>>} ELSE {}

ReadElements == /\ At("elements")
                /\ elements' \in IF Current = Found THEN {Len(script)}
                                 ELSE IF Current = Elements THEN 0..MaxElements ELSE {Current.n}
                /\ blocks' = blocks \cup {<<>>} \cup ArrayBlock(elements')
                /\ NextOp
                /\ UNCHANGED <<input, stream, parts, script, result, spritevars>>

\* The count is kept in FormattedData before the parts are there to be freed.
ReadParts ==
    /\ At("parts")
    /\ \E n \in 0..MaxElements : /\ parts' = Append(parts, n)
                                 /\ blocks' = IF n = 0 /\ f.type # "rsmp" THEN blocks
                                              ELSE blocks \cup {<<place.element>>}
    /\ NextOp
    /\ UNCHANGED <<input, stream, elements, script, result, spritevars>>

\* The sum of the first i lengths.
Sums(lengths) == LET sum[i \in 0..Len(lengths)] == IF i = 0 THEN 0 ELSE sum[i - 1] + lengths[i] IN sum
Total(lengths, i) == Sums(lengths)[i]

\* The first pass of STR# format -3 and of TMPL: each element has its bytes and
\* its strings (of one length), and TMPL is used up by them.
ReadScan == /\ At("scan")
            /\ script' \in BoundedSeq(Lengths, MaxElements)
            /\ LET strings == IF f.type = "TMPL" THEN 1 ELSE 2
                   used == Current.n * Len(script') + strings * Total(script', Len(script'))
               IN used <= Size /\ (f.type = "TMPL" => used = Size)
            /\ NextOp
            /\ UNCHANGED <<input, stream, elements, parts, blocks, result, spritevars>>

\* How many bytes a string of a given length may take.
TextBytes(kind, length) == IF kind = "pascal2" THEN {length + 1, length + 2} ELSE {length + 1}

\* The second pass meets the strings of the first.
LengthsHere == IF script = <<>> THEN Lengths ELSE {script[place.element]}

\* read_c_string, read_pascal_string, read_pascal2_string.
ReadText == /\ At("text")
            /\ \E length \in LengthsHere : \E n \in TextBytes(Current.string, length) :
                  /\ n <= Size
                  /\ Advance(n)
                  /\ blocks' = IF length = 0 THEN blocks
                               ELSE blocks \cup {IF IsString THEN <<>> ELSE <<place.element, place.part, place.op>>}
            /\ NextOp
            /\ UNCHANGED <<input, counts, result, spritevars>>

\* One byte 0xA3 may follow a string.
ReadPad == /\ At("pad")
           /\ \/ Size > 0 /\ Advance(1)
              \/ UNCHANGED stream
           /\ NextOp
           /\ UNCHANGED <<input, counts, blocks, result, spritevars>>

-----------------------------------------------------------------------------
(* Sprites. *)

\* A table of offsets; SpriteCount is held against it.  The offsets are read
\* when they are used: script has a 0 for each.
ReadOffsets == /\ At("offsets")
               /\ \E n \in 0..MaxElements : /\ n <= Size \div Current.n
                                            /\ script' = [i \in 1..n |-> 0]
               /\ NextOp
               /\ UNCHANGED <<input, stream, elements, parts, blocks, result, spritevars>>

\* The sprites of version 1001 are counted: eight bytes, the last four of which
\* say how many follow, while there are n bytes.
Walked(i) == Size - 8 * i - Total(script', i)

ReadWalk == /\ At("walk")
            /\ script' \in BoundedSeq(SpriteSizes, MaxElements)
            /\ \A i \in 1..Len(script') : Walked(i - 1) >= Current.n /\ Walked(i) >= 0
            /\ Walked(Len(script')) < Current.n
            /\ NextOp
            /\ UNCHANGED <<input, stream, elements, parts, blocks, result, spritevars>>

NextSpriteOffset == 16 + 8 * (place.element - 1) + Total(script, place.element - 1)

ReadSpriteAt == /\ At("sprite")
                /\ IF f \in {SPR1001, SPR2_1001}
                   THEN SeekTo(NextSpriteOffset + 4) /\ SpriteSize' = script[place.element]
                   ELSE /\ \E offset \in Offsets : SeekTo(offset)
                        /\ Size' >= Current.n /\ SpriteSize' = Size'
                /\ NextOp
                /\ UNCHANGED <<input, counts, blocks, result, mode, Sprite, RowCount, row, pixel, end>>

\* The pictures of a sprite are made, or it has no dimensions and its rows are
\* left out.
ReadSpriteHeader == /\ At("header")
              /\ Advance(Current.n)
              /\ \/ /\ \E w, h \in Dimensions, flags \in (IF f.type = "SPR#" THEN {0} ELSE {1, 3, 7}) :
                          /\ Sprite' = [Type |-> f.type, Width |-> w, Height |-> h, Flags |-> flags]
                          /\ blocks' = blocks \cup {<<place.element, 0, 1>>}
                                              \cup (IF flags >= 3 THEN {<<place.element, 0, 2>>} ELSE {})
                    /\ Skip(1)
                 \/ Skip(2) /\ UNCHANGED <<Sprite, blocks>>
              /\ UNCHANGED <<input, counts, result, mode, SpriteSize, RowCount, row, pixel, end>>

ReadRows == /\ At("rows")
            /\ Begin(Sprite, UInt(SpriteSize - Current.n))
            /\ UNCHANGED <<input, stream, place, counts, blocks, result>>

DecodeRows == SpriteNext /\ UNCHANGED <<input, Size, place, counts, blocks, result>>

SpriteDone == /\ mode = "end"
              /\ SpriteReset
              /\ NextOp
              /\ UNCHANGED <<input, stream, counts, blocks, result>>

-----------------------------------------------------------------------------
(* The loops over elements and their parts. *)

Finished == Parsing /\ mode = "none" /\ place.op > Len(Ops)
PartsHere == IF place.element \notin DOMAIN parts THEN 0 ELSE parts[place.element]

NextPart == /\ Finished /\ place.part < PartsHere
            /\ place' = [place EXCEPT !.list = "part", !.op = 1, !.part = @ + 1]
            /\ UNCHANGED <<input, stream, counts, blocks, result, spritevars>>

NextElement == /\ Finished /\ place.part = PartsHere /\ place.element < elements
               /\ place' = [list |-> "element", op |-> 1, element |-> place.element + 1, part |-> 0]
               /\ UNCHANGED <<input, stream, counts, blocks, result, spritevars>>

Complete == /\ Finished /\ place.part = PartsHere /\ place.element = elements
            /\ Return("parsed")
            /\ UNCHANGED <<elements, parts, blocks>>

ParserNext == \/ Fail \/ ReadNeed \/ StopHere \/ ReadStop \/ ReadTake \/ ReadSeek \/ ReadCheck \/ ReadTable
              \/ ReadElements \/ ReadParts \/ ReadScan \/ ReadText \/ ReadPad
              \/ ReadOffsets \/ ReadWalk \/ ReadSpriteAt \/ ReadSpriteHeader \/ ReadRows
              \/ DecodeRows \/ SpriteDone
              \/ NextPart \/ NextElement \/ Complete

-----------------------------------------------------------------------------
(* Properties. *)

\* No read goes past the end of the chunk, checked or not: outside of the rows
\* of a sprite the buffer and the size are in step, and inside of them the rows
\* end by the size of the sprite, which is within the chunk unless its size field
\* is less than its header.
StreamInside ==
    /\ Parsing /\ mode = "none" /\ ~At("sprite") /\ place.op <= Len(Ops) => at + Size = TotalSize
    /\ mode = "rows" /\ (f \in {SPR1001, SPR2_1001} => script[place.element] >= Current.n) => end <= TotalSize
    /\ RowsAccounted /\ PixelsInside

\* Whatever a parser has made when it fails is reached by the counts and freed.
FailedIsFreed == result = "failed" => blocks = {}
=============================================================================
