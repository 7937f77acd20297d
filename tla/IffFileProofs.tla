--------------------------- MODULE IffFileProofs ---------------------------
(***************************************************************************)
(* No parser of IFF chunks reads past its chunk, and what the parsers, the *)
(* pages and the tools make is freed by its owner: proofs about IffFile.   *)
(***************************************************************************)
EXTENDS IffFile, NaturalsInduction, WellFoundedInduction, TLAPS

Lists == {"head", "element", "part"}
IsSprite(fm) == fm.type \in {"SPR#", "SPR2"}
Walks == {SPR1001, SPR2_1001}
SpriteFormats == {SPR505, SPR1001, SPR2, SPR2_1001}

\* What every operation of every parser satisfies: bytes are read unchecked only
\* where the operation before has checked for them, or a first pass has, and the
\* operations that make memory are where the counts to free it are.
Checked(ops, k) == k > 1 /\ ops[k - 1].op \in {"need", "stop"} /\ ops[k].n <= ops[k - 1].n

HeadFits(fm) ==
    /\ \A k \in 1..Len(fm.head) : fm.head[k].n \in Nat
    /\ \A k \in 1..Len(fm.head) :
          fm.head[k].op = "take" => (k = 1 /\ fm.head[k].n <= fm.min) \/ Checked(fm.head, k)
    /\ \A k \in 1..Len(fm.head) : fm.head[k].op # "parts"
    /\ \A k \in 1..Len(fm.head) : fm.head[k].op = "text" => fm.part = <<>>
    /\ \A k \in 1..Len(fm.head) : fm.head[k].op = "scan" => fm \in {STR3, TMPL}
    /\ \A k \in 1..Len(fm.head) : fm.head[k].op \in {"offsets", "walk"} => fm \in SpriteFormats
    /\ \A k \in 1..Len(fm.head) : fm.head[k].op \notin {"sprite", "header", "rows"}

ElementFits(fm) ==
    /\ \A k \in 1..Len(fm.element) : fm.element[k].n \in Nat
    /\ \A k \in 1..Len(fm.element) :
          fm.element[k].op = "take" => Checked(fm.element, k) \/ fm \in {STR3, TMPL}
    /\ \A k \in 1..Len(fm.element) : fm.element[k].op = "parts" => fm.part # <<>>
    /\ \A k \in 1..Len(fm.element) : fm.element[k].op = "text" => fm.part = <<>>
    /\ \A k \in 1..Len(fm.element) : fm.element[k].op \in {"sprite", "header", "rows"} => fm \in SpriteFormats
    /\ \A k \in 1..Len(fm.element) : fm.element[k].op \notin {"elements", "scan", "offsets", "walk"}

PartFits(fm) ==
    /\ \A k \in 1..Len(fm.part) : fm.part[k].n \in Nat
    /\ \A k \in 1..Len(fm.part) : fm.part[k].op = "take" => Checked(fm.part, k)
    /\ \A k \in 1..Len(fm.part) : fm.part[k].op \in {"need", "take", "check", "text"}

WellFormed(fm) ==
    /\ fm.min \in Nat /\ Len(fm.head) \in Nat /\ Len(fm.element) \in Nat /\ Len(fm.part) \in Nat
    /\ HeadFits(fm) /\ ElementFits(fm) /\ PartFits(fm)
    /\ IsSprite(fm) => fm \in SpriteFormats

-----------------------------------------------------------------------------
(* The inductive invariant of the parser. *)

ParserTypes ==
    /\ f \in AllFormats
    /\ TotalSize \in 0..(Word - 1) /\ Size \in 0..(Word - 1) /\ at \in Nat
    /\ place \in [list : Lists, op : Nat \ {0}, element : Nat, part : Nat]
    /\ elements \in Nat /\ parts \in Seq(Nat)
    /\ script \in Seq(Nat) /\ Len(script) <= MaxElements
    /\ result \in {"none", "parsing", "parsed", "failed"}

\* The loops: the head has no element, an element has no part yet, and a part is
\* one of those its element counts.  Between chunks the parser is at its start.
Places ==
    /\ place.list = "head" => place.element = 0 /\ place.part = 0
    /\ place.list = "element" => place.element > 0 /\ place.part = 0
    /\ place.list = "part" => place.part > 0
    /\ place.element <= elements
    /\ place.part <= PartsHere
    /\ Parsing \/ (place = Start /\ script = <<>>)
    /\ Parsing /\ f.part = <<>> => parts = <<>>
    /\ result \in {"none", "failed"} => elements = 0 /\ parts = <<>>
    /\ f \in SpriteFormats => elements <= MaxElements
    /\ script # <<>> => f \in {STR3, TMPL} \cup SpriteFormats

\* Whatever was made is reached by the counts.
BlocksReached ==
    /\ \A b \in blocks : Len(b) = 3 =>
          IF f.part = <<>> THEN b[1] \in Nat /\ b[1] <= elements
          ELSE b[1] \in DOMAIN parts /\ b[2] \in Nat /\ b[2] <= parts[b[1]]
    /\ Parsing /\ place.list = "head" => \A b \in blocks : Len(b) = 3 => b[1] = 0
    /\ result \in {"none", "failed"} => blocks = {}

\* The decoder of sprites.
SpriteTypes ==
    /\ mode \in {"none", "rows", "pixels", "end", "bad"}
    /\ Sprite \in [Type : {"SPR#", "SPR2"}, Width : Nat, Height : Nat, Flags : Nat]
    /\ SpriteSize \in 0..(Word - 1) /\ RowCount \in Nat
    /\ row \in Nat /\ pixel \in Nat /\ end \in Nat
    /\ mode = "none" => row = 0 /\ pixel = 0
    /\ mode = "rows" => RowCount = 0
    /\ mode # "none" => Parsing /\ f \in SpriteFormats /\ place.list = "element" /\ place.op = 3
    /\ RowsAccounted /\ PixelsInside

\* The bytes that are left are known where they are read: the buffer and the size
\* are in step, and what was checked is there.
Sought == IsSprite(f) /\ place.list = "element" /\ place.op \notin {2, 3}
InStep == Parsing /\ mode = "none" => 
          /\ ~Sought => at + Size = TotalSize
          /\ place.list = "head" /\ place.op = 1 => at = 0 /\ f.min <= TotalSize
          /\ place.op > 1 /\ place.op <= Len(Ops) /\ Ops[place.op - 1].op \in {"need", "stop"} =>
                Ops[place.op - 1].n <= Size

\* The second pass of STR# format -3 is where the first pass said it would be.
StringsBack(op) == IF op = 1 THEN 0 ELSE IF op <= 3 THEN 2 ELSE 4
StringsInto(op, length) ==
    IF op = 1 THEN 0 ELSE IF op = 2 THEN 1 ELSE IF op = 3 THEN 2 + length ELSE 3 + 2 * length
StringsFit == 4 + 3 * Len(script) + 2 * Total(script, Len(script)) <= TotalSize
StringsStart == 4 + 3 * (place.element - 1) + 2 * Total(script, place.element - 1)
StringsPass == Parsing /\ f = STR3 =>
    /\ place.list # "part"
    /\ place.list = "head" => at = StringsBack(place.op) /\ place.op <= 7
    /\ place.list = "element" \/ place.op > 4 => StringsFit
    /\ place.list = "element" \/ place.op > 5 => elements = Len(script)
    /\ place.list = "element" =>
          at = StringsStart + StringsInto(place.op, script[place.element]) /\ place.op <= 4

FieldsInto(op, length) == IF op = 1 THEN 0 ELSE IF op = 2 THEN 1 + length ELSE 5 + length
FieldsFit == 5 * Len(script) + Total(script, Len(script)) = TotalSize
FieldsStart == 5 * (place.element - 1) + Total(script, place.element - 1)
FieldsPass == Parsing /\ f = TMPL =>
    /\ place.list # "part"
    /\ place.list = "head" => at = 0 /\ place.op <= 5
    /\ place.list = "element" \/ place.op > 2 => FieldsFit
    /\ place.list = "element" \/ place.op > 3 => elements = Len(script)
    /\ place.list = "element" =>
          at = FieldsStart + FieldsInto(place.op, script[place.element]) /\ place.op <= 3

\* Sprites: those of version 1001 are where the walk found them, and the others
\* end with the chunk.
HeaderSize == f.element[1].n
SpritesBack(op) == IF op = 1 THEN 0 ELSE 12
WalkFits == \A i \in 1..Len(script) : /\ script[i] < Word
                                      /\ 12 + 8 * (i - 1) + Total(script, i - 1) + HeaderSize + 8 <= TotalSize
                                      /\ 12 + 8 * i + Total(script, i) <= TotalSize
SpriteFound ==
    /\ f \in Walks => SpriteSize = script[place.element] /\ at = NextSpriteOffset + 4
    /\ f \notin Walks => SpriteSize = Size
    /\ HeaderSize <= Size
HeaderRead ==
    /\ f \in Walks => SpriteSize = script[place.element] /\ at = NextSpriteOffset + 4 + HeaderSize
    /\ f \notin Walks => SpriteSize = Size + HeaderSize
SpritesPass == Parsing /\ f \in SpriteFormats =>
    /\ place.list # "part"
    /\ place.list = "head" => at = SpritesBack(place.op) /\ place.op <= 5
    /\ (place.list = "element" \/ place.op > 3) /\ f \in Walks => WalkFits
    /\ place.list = "element" \/ place.op > 4 => elements = Len(script)
    /\ place.list = "element" => place.op <= 4
    /\ place.list = "element" /\ mode = "none" /\ place.op = 2 => SpriteFound
    /\ place.list = "element" /\ mode = "none" /\ place.op = 3 => HeaderRead
    /\ mode # "none" /\ (f \in Walks => script[place.element] >= HeaderSize) => end <= TotalSize

ParserInv == /\ ParserTypes /\ Places /\ BlocksReached /\ SpriteTypes
             /\ InStep /\ StringsPass /\ FieldsPass /\ SpritesPass

-----------------------------------------------------------------------------
(* The inductive invariant of the file. *)

Labels == {"open", "create", "header", "chunks", "export", "parse", "output", "page", "png", "png_z",
           "delete", "done"}

ChunkRecords ==
    {c \in [Type : {"NULL", "garbage", "parsed", "other"}, Size : {"zero", "positive", "garbage"},
            Data : {"NULL", "garbage", "data", "wild", "freed"},
            FormattedData : {"NULL", "garbage", "made", "wild", "freed"}] :
        c.FormattedData = "made" => c.Type = "parsed"}

FileTypes ==
    /\ tool \in {"iffexport", "iff2html"} /\ pc \in Labels
    /\ Allocated \in Nat /\ Chunks \in Seq(ChunkRecords)
    /\ chunk \in Nat /\ picture \in Nat
    /\ ChunkCount <= Allocated

\* Where each program is, and what it has come to.
Stages ==
    /\ pc \in {"open", "create"} => Chunks = <<>>
    /\ pc \in {"header", "chunks"} => Allocated > 0
    /\ pc \in {"open", "create", "header", "chunks", "export"} => result = "none"
    /\ pc \in {"open", "create", "header", "chunks"} => chunk = 1
    /\ pc # "done" => chunk \in 1..(ChunkCount + 1)
    /\ pc \in {"png", "png_z"} => chunk <= ChunkCount
    /\ Parsing => pc = "parse"
    /\ pc \in {"export", "parse", "output", "page", "png", "png_z"} => (pc = "export" <=> tool = "iffexport")

\* The sprite that is shown is one of a chunk of sprites.
Pictures ==
    /\ pc \in {"open", "create", "header", "chunks", "export", "parse", "output"} => picture = 0
    /\ picture > 0 => f \in SpriteFormats /\ (pc # "done" => chunk <= ChunkCount)
    /\ picture <= elements

\* What each program holds where it is.
Holds ==
    /\ held \subseteq {"IFFData", "Chunks", "page"} \cup PngMemory
    /\ pc \in {"header", "chunks", "export", "parse", "output", "page", "png", "png_z", "delete"} => "Chunks" \in held
    /\ pc \notin {"png", "png_z"} => held \cap PngMemory = {}
    /\ pc = "done" /\ "Chunks" \notin held => blocks = {}
    /\ pc = "done" /\ tool = "iffexport" => held = {}

\* Which pointers of the chunk i, when n were added, may have no value.
Ended == pc \in {"delete", "done"}
PointersOf(c, i, n, ended) ==
    /\ Unset(c.FormattedData) => i > 1 /\ i = n /\ ended
    /\ Unset(c.Data) => i > 1 /\ (c.Size = "zero" \/ Unset(c.FormattedData))

Pointers == \A i \in 1..ChunkCount : PointersOf(Chunks[i], i, ChunkCount, Ended)

\* When the file is deleted the data of its chunks is.
DataFreed == pc = "done" /\ "Chunks" \notin held =>
                \A i \in 1..ChunkCount : Chunks[i].Data # "data" /\ Chunks[i].FormattedData # "made"

FileInv == FileTypes /\ Stages /\ Pictures /\ Holds /\ Pointers /\ DataFreed

IInv == ParserInv /\ FileInv

-----------------------------------------------------------------------------
(* The parsers are well formed. *)

\* Every parser checks for the bytes it reads unchecked: iff/*.c.
LEMMA FormatsWellFormed == \A fm \in AllFormats : WellFormed(fm)
<1> USE DEF WellFormed, HeadFits, ElementFits, PartFits, Checked, IsSprite, Op, Need, Stop, Take, Seek, Check, Table, Elements, Exactly,
            Found, Parts, Scan, Pad, Text, OffsetTable, Walk, SpriteAt, Header, Rows, Format
<1>1. WellFormed(STRBigEndian)
  BY DEF STRBigEndian, Strings
<1>2. WellFormed(STR0)
  BY DEF STR0, Strings
<1>3. WellFormed(STR1)
  BY DEF STR1, Strings
<1>4. WellFormed(STR2)
  BY DEF STR2, Strings
<1>5. WellFormed(STR3)
  BY DEF STR3
<1>6. WellFormed(STR4)
  BY DEF STR4, Strings
<1>7. WellFormed(CATS)
  BY DEF CATS
<1>8. WellFormed(FWAV)
  BY DEF FWAV
<1>9. WellFormed(GLOB)
  BY DEF GLOB
<1>10. WellFormed(BCON)
  BY DEF BCON
<1>11. WellFormed(BHAV)
  BY DEF BHAV
<1>12. WellFormed(BHAV3)
  BY DEF BHAV3
<1>13. WellFormed(OBJf)
  BY DEF OBJf
<1>14. WellFormed(PALT)
  BY DEF PALT
<1>15. WellFormed(DGRP0)
  BY ParserAssumption DEF DGRP0, DGRP
<1>16. WellFormed(DGRP1)
  BY ParserAssumption DEF DGRP1, DGRP
<1>17. WellFormed(DGRP3)
  BY ParserAssumption DEF DGRP3, DGRP
<1>18. WellFormed(DGRP4)
  BY ParserAssumption DEF DGRP4, DGRP
<1>19. WellFormed(FCNS1)
  BY DEF FCNS1
<1>20. WellFormed(FCNS2)
  BY DEF FCNS2
<1>21. WellFormed(TRCN0)
  BY DEF TRCN0
<1>22. WellFormed(TRCN1)
  BY SMTT(60) DEF TRCN1, TRCN0
<1>23. WellFormed(TRCN2)
  BY SMTT(60) DEF TRCN2, TRCN0
<1>24. WellFormed(RSMP0)
  BY DEF RSMP0
<1>25. WellFormed(RSMP1)
  BY DEF RSMP1, RSMP0
<1>26. WellFormed(TMPL)
  BY DEF TMPL
<1>27. WellFormed(SPR505)
  BY DEF SPR505, SPR, SpriteFormats
<1>28. WellFormed(SPR1001)
  BY DEF SPR1001, SPR, SpriteFormats
<1>29. WellFormed(SPR2)
  BY DEF SPR2, SPR, SpriteFormats
<1>30. WellFormed(SPR2_1001)
  BY DEF SPR2_1001, SPR, SpriteFormats
<1> HIDE DEF WellFormed
<1>99. QED BY <1>1, <1>2, <1>3, <1>4, <1>5, <1>6, <1>7, <1>8, <1>9, <1>10, <1>11, <1>12, <1>13, <1>14, <1>15, <1>16, <1>17, <1>18, <1>19, <1>20, <1>21, <1>22, <1>23, <1>24, <1>25, <1>26, <1>27, <1>28, <1>29, <1>30 DEF AllFormats

-----------------------------------------------------------------------------
(* Facts about the operators of the parser. *)

\* An unsigned integer that does not wrap.
LEMMA UIntSame == ASSUME NEW x \in 0..(Word - 1) PROVE UInt(x) = x
BY WordAssumption DEF UInt

\* One that does is still one.
LEMMA UIntRange == ASSUME NEW x \in Int PROVE UInt(x) \in 0..(Word - 1)
BY WordAssumption DEF UInt

Place == [list : Lists, op : Nat \ {0}, element : Nat, part : Nat]

\* The next operation is of the same list, for the same element and part.
LEMMA SkipPlace ==
    ASSUME place \in Place, NEW n \in Nat, Skip(n)
    PROVE  /\ place' \in Place /\ place'.op = place.op + n
           /\ place'.list = place.list /\ place'.element = place.element /\ place'.part = place.part
BY DEF Skip, Place

\* Where the parser is in a list is where FormatsWellFormed speaks of.
LEMMA CurrentFits ==
    ASSUME ParserTypes, place.op <= Len(Ops)
    PROVE  /\ Current.n \in Nat /\ f.min \in Nat
           /\ Current.op = "take" => \/ place.list = "head" /\ place.op = 1 /\ Current.n <= f.min
                                     \/ /\ place.op > 1 /\ Ops[place.op - 1].op \in {"need", "stop"}
                                        /\ Current.n <= Ops[place.op - 1].n
                                     \/ f \in {STR3, TMPL}
           /\ Current.op = "elements" => place.list = "head"
           /\ Current.op = "parts" => place.list = "element" /\ f.part # <<>>
           /\ Current.op = "text" => place.list = "part" \/ f.part = <<>>
           /\ Current.op = "scan" => f \in {STR3, TMPL} /\ place.list = "head"
           /\ Current.op \in {"offsets", "walk"} => f \in SpriteFormats /\ place.list = "head"
           /\ Current.op \in {"sprite", "header", "rows"} => f \in SpriteFormats /\ place.list = "element"
<1>1. WellFormed(f) /\ place.list \in Lists /\ place.op \in Nat \ {0}
  BY FormatsWellFormed DEF ParserTypes
<1>2. CASE place.list = "head"
  <2>1. Ops = f.head /\ place.op \in 1..Len(f.head) /\ HeadFits(f)
    BY <1>1, <1>2 DEF Ops, WellFormed
  <2>2. QED BY <1>1, <1>2, <2>1 DEF HeadFits, Checked, Current, WellFormed
<1>3. CASE place.list = "element"
  <2>1. Ops = f.element /\ place.op \in 1..Len(f.element) /\ ElementFits(f)
    BY <1>1, <1>3 DEF Ops, WellFormed
  <2>2. QED BY <1>1, <1>3, <2>1 DEF ElementFits, Checked, Current, WellFormed
<1>4. CASE place.list = "part"
  <2>1. Ops = f.part /\ place.op \in 1..Len(f.part) /\ PartFits(f)
    BY <1>1, <1>4 DEF Ops, WellFormed
  <2>2. QED BY <1>1, <1>4, <2>1 DEF PartFits, Checked, Current, WellFormed
<1>5. QED BY <1>1, <1>2, <1>3, <1>4 DEF Lists

-----------------------------------------------------------------------------
(* Sums of the lengths that a first pass has found. *)

LEMMA Least == ASSUME NEW T, T \subseteq Nat, T # {} PROVE \E n \in T : \A m \in T : n <= m
<1>1. PICK n \in T : \A m \in T : <<m, n>> \notin OpToRel(<, Nat)
  BY NatLessThanWellFounded, WFMin
<1>2. \A m \in T : ~(m < n)
  BY <1>1 DEF OpToRel
<1> QED BY <1>2

Summand(sum, s, i) == IF i = 0 THEN 0 ELSE sum[i - 1] + s[i]

LEMMA SumsExist ==
    ASSUME NEW s, NEW n \in Nat
    PROVE  \E sum : sum = [i \in 0..n |-> Summand(sum, s, i)]
<1> DEFINE Listed(sum, m) == sum = [i \in 0..m |-> Summand(sum, s, i)]
           T == {m \in Nat : ~\E sum : Listed(sum, m)}
<1> SUFFICES ASSUME T # {} PROVE FALSE
  OBVIOUS
<1>1. PICK m \in T : \A l \in T : m <= l
  BY Least
<1>2. m # 0
  <2> DEFINE g == [i \in 0..0 |-> 0]
  <2>1. \A i \in 0..0 : Summand(g, s, i) = 0
    BY DEF Summand
  <2>2. Listed(g, 0)
    BY <2>1
  <2> QED BY <1>1, <2>2
<1>3. m \in Nat /\ m - 1 \in Nat /\ m - 1 \notin T
  <2>1. m \in Nat
    OBVIOUS
  <2> HIDE DEF T
  <2> QED BY <1>1, <1>2, <2>1
<1>4. PICK sum : Listed(sum, m - 1)
  BY <1>3
<1> DEFINE g == [i \in 0..m |-> Summand(sum, s, i)]
<1>5. ASSUME NEW i \in 0..m PROVE Summand(sum, s, i) = Summand(g, s, i)
  <2>1. CASE i = 0
    BY <2>1 DEF Summand
  <2>2. CASE i # 0
    <3>1. i - 1 \in 0..m - 1 /\ i - 1 \in 0..m
      BY <1>3, <2>2
    <3>2. sum[i - 1] = Summand(sum, s, i - 1)
      BY <1>4, <3>1
    <3>3. g[i - 1] = Summand(sum, s, i - 1)
      BY <3>1
    <3>4. sum[i - 1] = g[i - 1]
      BY <3>2, <3>3
    <3> HIDE DEF g
    <3> QED BY <2>2, <3>4 DEF Summand
  <2> QED BY <2>1, <2>2
<1>6. g = [i \in 0..m |-> Summand(g, s, i)]
  <2> HIDE DEF g
  <2>1. g = [i \in 0..m |-> Summand(sum, s, i)]
    BY DEF g
  <2> QED BY <1>5, <2>1
<1> HIDE DEF g
<1>7. Listed(g, m)
  BY <1>6
<1> QED BY <1>1, <1>7

\* Total(s, i) is the sum of the first i lengths.
LEMMA TotalStep ==
    ASSUME NEW s \in Seq(Nat)
    PROVE  /\ Total(s, 0) = 0
           /\ \A i \in 1..Len(s) : Total(s, i) = Total(s, i - 1) + s[i]
<1> DEFINE Listed(sum) == sum = [i \in 0..Len(s) |-> Summand(sum, s, i)]
           sums == CHOOSE sum : Listed(sum)
<1>1. \E sum : Listed(sum)
  <2>1. Len(s) \in Nat
    OBVIOUS
  <2> QED BY <2>1, SumsExist
<1>2. Listed(sums)
  <2> HIDE DEF Listed
  <2> QED BY <1>1
<1>3. \A i : Total(s, i) = sums[i]
  BY DEF Total, Sums, Summand
<1> HIDE DEF sums
<1>4. \A i \in 0..Len(s) : sums[i] = Summand(sums, s, i)
  BY <1>2
<1>5. sums[0] = 0 /\ \A i \in 1..Len(s) : sums[i] = sums[i - 1] + s[i]
  BY <1>4 DEF Summand
<1> QED BY <1>3, <1>5

LEMMA TotalNat ==
    ASSUME NEW s \in Seq(Nat), NEW i \in 0..Len(s)
    PROVE  Total(s, i) \in Nat
<1> DEFINE T == {k \in 0..Len(s) : Total(s, k) \notin Nat}
<1> SUFFICES ASSUME T # {} PROVE FALSE
  OBVIOUS
<1>1. PICK k \in T : \A l \in T : k <= l
  <2>1. T \subseteq Nat
    OBVIOUS
  <2> HIDE DEF T
  <2> QED BY <2>1, Least
<1>2. k # 0
  BY TotalStep
<1>3. k - 1 \in 0..Len(s) /\ k \in 1..Len(s) /\ k - 1 \notin T
  <2>1. k \in 0..Len(s)
    OBVIOUS
  <2> HIDE DEF T
  <2> QED BY <1>1, <1>2, <2>1
<1>4. Total(s, k - 1) \in Nat /\ Total(s, k) = Total(s, k - 1) + s[k] /\ s[k] \in Nat
  BY <1>3, TotalStep
<1> QED BY <1>4

\* More lengths have a greater sum.
LEMMA TotalMonotone ==
    ASSUME NEW s \in Seq(Nat), NEW i \in 0..Len(s), NEW j \in i..Len(s)
    PROVE  Total(s, i) <= Total(s, j)
<1> DEFINE T == {k \in i..Len(s) : ~(Total(s, i) <= Total(s, k))}
<1> SUFFICES ASSUME T # {} PROVE FALSE
  OBVIOUS
<1>1. PICK k \in T : \A l \in T : k <= l
  <2>1. T \subseteq Nat
    OBVIOUS
  <2> HIDE DEF T
  <2> QED BY <2>1, Least
<1>2. k # i
  BY TotalNat
<1>3. k - 1 \in i..Len(s) /\ k \in 1..Len(s) /\ k - 1 \in 0..Len(s) /\ k - 1 \notin T
  <2>1. k \in i..Len(s)
    OBVIOUS
  <2> HIDE DEF T
  <2> QED BY <1>1, <1>2, <2>1
<1>4. Total(s, i) <= Total(s, k - 1) /\ Total(s, k) = Total(s, k - 1) + s[k] /\ s[k] \in Nat
  BY <1>3, TotalStep
<1>5. Total(s, i) \in Nat /\ Total(s, k - 1) \in Nat
  BY <1>3, TotalNat
<1>6. Total(s, i) <= Total(s, k)
  BY <1>4, <1>5
<1> QED BY <1>6

-----------------------------------------------------------------------------
(* The parsers with two passes, and those of sprites. *)

Is(o, name, n) == o.op = name /\ o.n = n

LEMMA StringsShape ==
    /\ STR3.type = "STR#" /\ STR3.min = 2 /\ STR3.part = <<>> /\ STR3 \notin SpriteFormats /\ STR3 # TMPL
    /\ Len(STR3.head) = 6 /\ Len(STR3.element) = 3
    /\ Is(STR3.head[1], "take", 2) /\ Is(STR3.head[2], "stop", 2) /\ Is(STR3.head[3], "take", 2)
    /\ Is(STR3.head[4], "scan", 3) /\ STR3.head[5] = Found /\ Is(STR3.head[6], "seek", 4)
    /\ Is(STR3.element[1], "take", 1)
    /\ Is(STR3.element[2], "text", 0) /\ STR3.element[2].string = "c"
    /\ Is(STR3.element[3], "text", 0) /\ STR3.element[3].string = "c"
<1> USE DEF Op, Stop, Take, Seek, Found, Scan, Text, Format, Is
<1>1. STR3.type = "STR#" /\ TMPL.type = "TMPL"
  BY DEF STR3, TMPL
<1>2. \A fm \in SpriteFormats : fm.type # "STR#"
  BY DEF SpriteFormats, SPR505, SPR1001, SPR2, SPR2_1001, SPR
<1>3. STR3 \notin SpriteFormats /\ STR3 # TMPL
  BY <1>1, <1>2
<1> QED BY <1>3 DEF STR3

LEMMA FieldsShape ==
    /\ TMPL.type = "TMPL" /\ TMPL.min = 0 /\ TMPL.part = <<>> /\ TMPL \notin SpriteFormats
    /\ Len(TMPL.head) = 4 /\ Len(TMPL.element) = 2
    /\ Is(TMPL.head[1], "stop", 1) /\ Is(TMPL.head[2], "scan", 5) /\ TMPL.head[3] = Found
    /\ Is(TMPL.head[4], "seek", 0)
    /\ Is(TMPL.element[1], "text", 0) /\ TMPL.element[1].string = "pascal" /\ Is(TMPL.element[2], "take", 4)
<1> USE DEF Op, Stop, Take, Seek, Found, Scan, Text, Format, Is
<1>1. TMPL.type = "TMPL"
  BY DEF TMPL
<1>2. \A fm \in SpriteFormats : fm.type # "TMPL"
  BY DEF SpriteFormats, SPR505, SPR1001, SPR2, SPR2_1001, SPR
<1>3. TMPL \notin SpriteFormats
  BY <1>1, <1>2
<1> QED BY <1>3 DEF TMPL

SpriteShape(fm) ==
    /\ fm.type \in {"SPR#", "SPR2"} /\ fm.min = 12 /\ fm.part = <<>>
    /\ Len(fm.head) = 4 /\ Len(fm.element) = 3
    /\ Is(fm.head[1], "take", 12) /\ Is(fm.head[2], "check", 0) /\ fm.head[4] = Found
    /\ fm \in Walks => Is(fm.head[3], "walk", fm.element[1].n + 8)
    /\ fm \notin Walks => Is(fm.head[3], "offsets", 4)
    /\ fm.element[1].n \in {8, 16}
    /\ Is(fm.element[1], "sprite", fm.element[1].n) /\ Is(fm.element[2], "header", fm.element[1].n)
    /\ Is(fm.element[3], "rows", fm.element[1].n)

LEMMA SpritesShape == \A fm \in SpriteFormats : SpriteShape(fm)
<1> USE DEF Op, Take, Check, Found, OffsetTable, Walk, SpriteAt, Header, Rows, Format, SPR, Is, SpriteShape
<1>1. SPR1001 \in Walks /\ SPR2_1001 \in Walks
  BY DEF Walks
<1>2. SPR505 \notin Walks /\ SPR2 \notin Walks
  <2>1. SPR505.head[3].op = "offsets" /\ SPR2.head[3].op = "offsets"
    BY DEF SPR505, SPR2
  <2>2. SPR1001.head[3].op = "walk" /\ SPR2_1001.head[3].op = "walk"
    BY DEF SPR1001, SPR2_1001
  <2> QED BY <2>1, <2>2 DEF Walks
<1>3. SpriteShape(SPR505)
  BY <1>2 DEF SPR505
<1>4. SpriteShape(SPR1001)
  BY <1>1 DEF SPR1001
<1>5. SpriteShape(SPR2)
  BY <1>2 DEF SPR2
<1>6. SpriteShape(SPR2_1001)
  BY <1>1 DEF SPR2_1001
<1> HIDE DEF SpriteShape
<1> QED BY <1>3, <1>4, <1>5, <1>6 DEF SpriteFormats

LEMMA FoundIs == Found.op = "elements" /\ Found.n = 0
BY DEF Found, Op

-----------------------------------------------------------------------------
(* The rows of sprites. *)

LEMMA PixelBytesNat == ASSUME NEW command, NEW n \in Nat PROVE PixelBytes(command, n) \in Nat
<1>1. n % 2 \in Nat /\ 2 * n \in Nat /\ 3 * n \in Nat
  OBVIOUS
<1> QED BY <1>1 DEF PixelBytes, Padded

\* The buffer and the counts stay in step through every command, and no pixel is
\* written outside of the sprite.
LEMMA RowsStep ==
    ASSUME SpriteTypes, at \in Nat, SpriteNext, UNCHANGED <<f, place, result>>
    PROVE  SpriteTypes' /\ at' \in Nat /\ end' = end /\ mode # "none" /\ mode' # "none"
<1> USE DEF SpriteTypes, RowsAccounted, PixelsInside, Parsing
<1>1. f' = f /\ place' = place /\ result' = result /\ Word \in Nat
  BY WordAssumption
<1>2. CASE StartMarker
  BY <1>1, <1>2 DEF StartMarker, Command
<1>3. ASSUME NEW n \in 0..(SpriteSize + 1), PixelRow(n) PROVE SpriteTypes' /\ at' \in Nat /\ end' = end /\ mode # "none" /\ mode' # "none"
  BY <1>1, <1>3 DEF PixelRow, Command
<1>4. ASSUME NEW n \in 0..Sprite.Height, TransparentRows(n)
      PROVE  SpriteTypes' /\ at' \in Nat /\ end' = end /\ mode # "none" /\ mode' # "none"
  BY <1>1, <1>4 DEF TransparentRows, Command
<1>5. CASE EndMarker
  BY <1>1, <1>5 DEF EndMarker, Command
<1>6. CASE BadCommand
  BY <1>1, <1>6 DEF BadCommand, Bad
<1>7. ASSUME NEW command \in PixelCommands, NEW n \in 0..Sprite.Width, Pixels(command, n)
      PROVE  SpriteTypes' /\ at' \in Nat /\ end' = end /\ mode # "none" /\ mode' # "none"
  <2>1. PICK bytes \in Nat : bytes = PixelBytes(command, n)
    BY PixelBytesNat
  <2>2. mode = "pixels" /\ RowCount >= 2 /\ n <= Sprite.Width - pixel /\ bytes <= RowCount - 2
        /\ at' = at + 2 + bytes /\ RowCount' = RowCount - 2 - bytes /\ pixel' = pixel + n
        /\ UNCHANGED <<mode, Sprite, SpriteSize, row, end>>
    BY <1>7, <2>1 DEF Pixels
  <2> QED BY <1>1, <2>2
<1>8. CASE BadPixels
  BY <1>1, <1>8 DEF BadPixels, Bad
<1>9. CASE RowDone
  BY <1>1, <1>9 DEF RowDone
<1> QED BY <1>2, <1>3, <1>4, <1>5, <1>6, <1>7, <1>8, <1>9 DEF SpriteNext

-----------------------------------------------------------------------------
(* Facts about the state that several operations need. *)

LEMMA AdvanceBy ==
    ASSUME ParserTypes, NEW n \in Nat, Advance(n)
    PROVE  at' = at + n /\ at' \in Nat /\ Size' \in 0..(Word - 1) /\ (n <= Size => Size' = Size - n)
<1>1. at \in Nat /\ Size \in 0..(Word - 1) /\ Word \in Nat
  BY WordAssumption DEF ParserTypes
<1>2. at' = at + n /\ Size' = UInt(Size - n) /\ Size - n \in Int
  BY <1>1 DEF Advance
<1>3. Size' \in 0..(Word - 1)
  BY <1>2, UIntRange
<1>4. ASSUME n <= Size PROVE Size' = Size - n
  <2>1. Size - n \in 0..(Word - 1)
    BY <1>1, <1>4
  <2> QED BY <1>2, <2>1, UIntSame
<1> QED BY <1>1, <1>2, <1>3, <1>4

LEMMA SeekAt ==
    ASSUME ParserTypes, NEW n \in Nat, SeekTo(n)
    PROVE  at' = n /\ at' \in Nat /\ Size' = TotalSize - n /\ Size' \in 0..(Word - 1)
BY WordAssumption DEF SeekTo, ParserTypes

LEMMA BoundedSeqIs ==
    ASSUME NEW S, S \subseteq Nat, NEW s \in BoundedSeq(S, MaxElements)
    PROVE  s \in Seq(Nat) /\ Len(s) <= MaxElements /\ \A i \in 1..Len(s) : s[i] \in S
<1>1. PICK m \in 0..MaxElements : s \in [1..m -> S]
  BY DEF BoundedSeq, SeqOf
<1>2. m \in Nat /\ m <= MaxElements
  BY ParserAssumption
<1>3. s \in Seq(S) /\ Len(s) = m
  BY <1>1, <1>2
<1>4. \A i \in 1..m : s[i] \in S
  BY <1>1
<1>5. s \in [1..m -> Nat]
  BY <1>1, <1>4
<1>6. s \in Seq(Nat)
  BY <1>2, <1>5
<1> QED BY <1>2, <1>3, <1>4, <1>6

\* In the loop over what a first pass has found, the element is one of it.
LEMMA ElementOfScript ==
    ASSUME ParserInv, Parsing, place.list = "element", f \in {STR3, TMPL} \cup SpriteFormats
    PROVE  /\ place.element \in 1..Len(script) /\ place.element - 1 \in 0..Len(script)
           /\ script[place.element] \in Nat
           /\ Total(script, place.element - 1) \in Nat
           /\ Total(script, place.element) = Total(script, place.element - 1) + script[place.element]
           /\ Total(script, place.element) \in Nat
           /\ Total(script, Len(script)) \in Nat
           /\ Total(script, place.element) <= Total(script, Len(script))
<1>1. elements = Len(script)
  BY DEF ParserInv, StringsPass, FieldsPass, SpritesPass
<1>2. place.element > 0 /\ place.element <= elements /\ place.element \in Nat /\ script \in Seq(Nat)
  BY DEF ParserInv, Places, ParserTypes
<1>3. Len(script) \in Nat
  BY <1>2
<1>4. place.element \in 1..Len(script) /\ place.element - 1 \in 0..Len(script) /\ place.element \in 0..Len(script)
      /\ Len(script) \in place.element..Len(script) /\ Len(script) \in 0..Len(script)
  BY <1>1, <1>2, <1>3
<1>5. script[place.element] \in Nat
  BY <1>2, <1>4
<1>6. Total(script, place.element - 1) \in Nat /\ Total(script, place.element) \in Nat
      /\ Total(script, Len(script)) \in Nat
  BY <1>2, <1>4, TotalNat
<1>7. Total(script, place.element) = Total(script, place.element - 1) + script[place.element]
  BY <1>2, <1>4, TotalStep
<1>8. Total(script, place.element) <= Total(script, Len(script))
  BY <1>2, <1>4, TotalMonotone
<1> QED BY <1>4, <1>5, <1>6, <1>7, <1>8

LEMMA LengthsNat ==
    ASSUME ParserInv, At("text")
    PROVE  LengthsHere \subseteq Nat
<1>1. CASE script = <<>>
  BY <1>1, ParserAssumption DEF LengthsHere
<1>2. CASE script # <<>>
  <2>1. f \in {STR3, TMPL} \cup SpriteFormats /\ Parsing /\ place.op \in 1..Len(Ops) /\ Current.op = "text"
        /\ place.list \in Lists
    BY <1>2 DEF ParserInv, Places, At, ParserTypes
  <2>2. place.list # "part"
    BY <2>1 DEF ParserInv, StringsPass, FieldsPass, SpritesPass
  <2>3. place.list # "head"
    <3>1. ASSUME place.list = "head" PROVE FALSE
      <4>1. Ops = f.head
        BY <3>1 DEF Ops
      <4>2. CASE f = STR3
        BY <2>1, <4>1, <4>2, StringsShape, FoundIs DEF Current, Is
      <4>3. CASE f = TMPL
        BY <2>1, <4>1, <4>3, FieldsShape, FoundIs DEF Current, Is
      <4>4. CASE f \in SpriteFormats
        <5>1. SpriteShape(f)
          BY <4>4, SpritesShape
        <5> QED BY <2>1, <4>1, <5>1, FoundIs DEF Current, Is, SpriteShape
      <4> QED BY <2>1, <4>2, <4>3, <4>4
    <3> QED BY <3>1
  <2>4. script[place.element] \in Nat
    BY <2>1, <2>2, <2>3, ElementOfScript DEF Lists
  <2> QED BY <1>2, <2>4 DEF LengthsHere
<1> QED BY <1>1, <1>2

LEMMA TextBytesNat ==
    ASSUME NEW kind, NEW length \in Nat, NEW n \in TextBytes(kind, length)
    PROVE  n \in Nat /\ n > length
BY DEF TextBytes

LEMMA AtFacts ==
    ASSUME ParserTypes, NEW name, At(name)
    PROVE  /\ Parsing /\ mode = "none" /\ place \in Place /\ place.op \in 1..Len(Ops) /\ place.op <= Len(Ops)
           /\ Current.op = name /\ Current.n \in Nat
<1>1. place \in Place /\ place.op <= Len(Ops)
  BY DEF ParserTypes, At, Place
<1>2. Current.n \in Nat
  BY <1>1, CurrentFits
<1>3. Len(Ops) \in Nat
  <2>1. WellFormed(f)
    BY FormatsWellFormed DEF ParserTypes
  <2> QED BY <1>1, <2>1 DEF WellFormed, Ops, Lists, Place
<1>4. place.op \in Nat /\ place.op > 0
  BY <1>1 DEF Place
<1> QED BY <1>1, <1>2, <1>3, <1>4 DEF At

LEMMA PartPlace ==
    ASSUME place \in Place, place' = [place EXCEPT !.list = "part", !.op = 1, !.part = @ + 1]
    PROVE  /\ place' \in Place /\ place'.list = "part" /\ place'.op = 1
           /\ place'.element = place.element /\ place'.part = place.part + 1
<1>1. PICK moved : moved = [place EXCEPT !.list = "part"]
  OBVIOUS
<1>2. moved \in Place /\ moved.list = "part" /\ moved.element = place.element /\ moved.part = place.part
  BY <1>1 DEF Place, Lists
<1>3. PICK first : first = [moved EXCEPT !.op = 1]
  OBVIOUS
<1>4. first \in Place /\ first.list = "part" /\ first.op = 1 /\ first.element = place.element /\ first.part = place.part
  BY <1>2, <1>3 DEF Place
<1>5. place' = [first EXCEPT !.part = @ + 1]
  BY <1>1, <1>3
<1> QED BY <1>4, <1>5 DEF Place

-----------------------------------------------------------------------------
(* Each step keeps the types. *)

LEMMA TypesStep == ASSUME ParserInv, ParserNext PROVE ParserTypes'
<1> DEFINE Kept == /\ f' = f /\ TotalSize' = TotalSize /\ result' = result
           Counts == elements' = elements /\ parts' = parts /\ script' = script
<1> USE DEF Place
<1>1. ParserTypes /\ place \in Place /\ Word \in Nat /\ Word > 0
  BY WordAssumption DEF ParserInv, ParserTypes
<1>2. ASSUME Kept, Counts, place' \in Place, at' \in Nat, Size' \in 0..(Word - 1)
      PROVE  ParserTypes'
  BY <1>1, <1>2 DEF ParserTypes
<1>3. ASSUME NEW r \in {"parsed", "failed"}, Return(r), elements' \in Nat, parts' \in Seq(Nat)
      PROVE  ParserTypes'
  <2>1. Start \in Place /\ <<>> \in Seq(Nat) /\ Len(<<>>) <= MaxElements
    BY ParserAssumption DEF Start, Lists
  <2> QED BY <1>1, <1>3, <2>1 DEF ParserTypes, Return
<1>4. CASE Fail
  <2>1. Return("failed") /\ elements' \in Nat /\ parts' \in Seq(Nat)
    BY <1>4 DEF Fail
  <2> QED BY <1>3, <2>1
<1>5. CASE StopHere \/ Complete
  <2>1. Return("parsed") /\ elements' \in Nat /\ parts' \in Seq(Nat)
    BY <1>1, <1>5 DEF StopHere, Complete, ParserTypes
  <2> QED BY <1>3, <2>1
<1>6. ASSUME NextOp PROVE place' \in Place
  BY <1>1, <1>6, SkipPlace DEF NextOp
<1>7. CASE ReadNeed \/ ReadStop \/ ReadCheck
  <2>1. NextOp /\ UNCHANGED <<input, stream, counts, result>>
    BY <1>7 DEF ReadNeed, ReadStop, ReadCheck
  <2> QED BY <1>1, <1>2, <1>6, <2>1 DEF input, stream, counts, ParserTypes
<1>8. CASE ReadTake
  <2>1. NextOp /\ UNCHANGED <<input, counts, result>> /\ Advance(Current.n) /\ Current.n \in Nat
    BY <1>1, <1>8, AtFacts DEF ReadTake
  <2>2. at' \in Nat /\ Size' \in 0..(Word - 1)
    BY <1>1, <2>1, AdvanceBy
  <2> QED BY <1>2, <1>6, <2>1, <2>2 DEF input, counts
<1>9. CASE ReadSeek
  <2>1. NextOp /\ UNCHANGED <<input, counts, result>> /\ SeekTo(Current.n) /\ Current.n \in Nat
    BY <1>1, <1>9, AtFacts DEF ReadSeek
  <2>2. at' \in Nat /\ Size' \in 0..(Word - 1)
    BY <1>1, <2>1, SeekAt
  <2> QED BY <1>2, <1>6, <2>1, <2>2 DEF input, counts
<1>10. CASE ReadTable
  <2>1. Current.n \in Nat
    BY <1>1, <1>10, AtFacts DEF ReadTable
  <2>2. PICK n \in 0..MaxElements : Advance(n * Current.n)
    BY <1>10 DEF ReadTable
  <2>3. n * Current.n \in Nat
    BY <2>1, ParserAssumption
  <2>4. at' \in Nat /\ Size' \in 0..(Word - 1)
    BY <1>1, <2>2, <2>3, AdvanceBy
  <2>5. NextOp /\ UNCHANGED <<input, counts, result>>
    BY <1>10 DEF ReadTable
  <2> QED BY <1>2, <1>6, <2>4, <2>5 DEF input, counts
<1>11. CASE ReadElements
  <2>1. Current.n \in Nat /\ Len(script) \in Nat /\ 0..MaxElements \subseteq Nat
    BY <1>1, <1>11, AtFacts, ParserAssumption DEF ReadElements, ParserTypes
  <2>2. elements' \in Nat
    BY <1>11, <2>1 DEF ReadElements
  <2>3. NextOp /\ UNCHANGED <<input, stream, parts, script, result>>
    BY <1>11 DEF ReadElements
  <2> QED BY <1>1, <1>6, <2>2, <2>3 DEF input, stream, ParserTypes
<1>12. CASE ReadParts
  <2>1. PICK n \in 0..MaxElements : parts' = Append(parts, n)
    BY <1>12 DEF ReadParts
  <2>2. n \in Nat
    BY ParserAssumption
  <2>3. parts' \in Seq(Nat)
    BY <1>1, <2>1, <2>2 DEF ParserTypes
  <2>4. NextOp /\ UNCHANGED <<input, stream, elements, script, result>>
    BY <1>12 DEF ReadParts
  <2> QED BY <1>1, <1>6, <2>3, <2>4 DEF input, stream, ParserTypes
<1>13. CASE ReadScan \/ ReadOffsets \/ ReadWalk
  <2>1. NextOp /\ UNCHANGED <<input, stream, elements, parts, result>>
    BY <1>13 DEF ReadScan, ReadOffsets, ReadWalk
  <2>2. script' \in Seq(Nat) /\ Len(script') <= MaxElements
    <3>1. CASE ReadScan
      BY <3>1, BoundedSeqIs, ParserAssumption DEF ReadScan
    <3>2. CASE ReadOffsets
      <4>1. PICK n \in 0..MaxElements : script' = [i \in 1..n |-> 0]
        BY <3>2 DEF ReadOffsets
      <4> QED BY <4>1, ParserAssumption
    <3>3. CASE ReadWalk
      <4>1. SpriteSizes \subseteq Nat
        BY WordAssumption, ParserAssumption
      <4> QED BY <3>3, <4>1, BoundedSeqIs DEF ReadWalk
    <3> QED BY <1>13, <3>1, <3>2, <3>3
  <2> QED BY <1>1, <1>6, <2>1, <2>2 DEF input, stream, ParserTypes
<1>14. CASE ReadText
  <2>1. At("text")
    BY <1>14 DEF ReadText
  <2>2. PICK length \in LengthsHere : \E n \in TextBytes(Current.string, length) : Advance(n)
    BY <1>14 DEF ReadText
  <2>6. PICK n \in TextBytes(Current.string, length) : Advance(n)
    BY <2>2
  <2>3. n \in Nat
    BY <2>1, <2>2, <2>6, LengthsNat, TextBytesNat
  <2>4. at' \in Nat /\ Size' \in 0..(Word - 1)
    BY <1>1, <2>6, <2>3, AdvanceBy
  <2>5. NextOp /\ UNCHANGED <<input, counts, result>>
    BY <1>14 DEF ReadText
  <2> QED BY <1>2, <1>6, <2>4, <2>5 DEF input, counts
<1>15. CASE ReadPad
  <2>1. NextOp /\ UNCHANGED <<input, counts, result>>
    BY <1>15 DEF ReadPad
  <2>2. at' \in Nat /\ Size' \in 0..(Word - 1)
    <3>1. CASE Advance(1)
      BY <1>1, <3>1, AdvanceBy
    <3>2. CASE UNCHANGED stream
      BY <1>1, <3>2 DEF stream, ParserTypes
    <3> QED BY <1>15, <3>1, <3>2 DEF ReadPad
  <2> QED BY <1>2, <1>6, <2>1, <2>2 DEF input, counts
<1>16. CASE ReadSpriteAt
  <2>1. NextOp /\ UNCHANGED <<input, counts, result>>
    BY <1>16 DEF ReadSpriteAt
  <2>2. f \in SpriteFormats /\ place.list = "element" /\ Parsing
    BY <1>1, <1>16, AtFacts, CurrentFits DEF ReadSpriteAt
  <2>3. at' \in Nat /\ Size' \in 0..(Word - 1)
    <3>1. ASSUME NEW n \in Nat, SeekTo(n) PROVE at' \in Nat /\ Size' \in 0..(Word - 1)
      BY <1>1, <3>1, SeekAt
    <3>2. NextSpriteOffset + 4 \in Nat
      <4>1. Total(script, place.element - 1) \in Nat /\ place.element \in 1..Len(script)
        BY <2>2, ElementOfScript
      <4>2. place.element \in Nat /\ place.element - 1 >= 0
        BY <1>1, <4>1
      <4> QED BY <4>1, <4>2 DEF NextSpriteOffset
    <3> QED BY <1>16, <3>1, <3>2, ParserAssumption DEF ReadSpriteAt
  <2> QED BY <1>2, <1>6, <2>1, <2>3 DEF input, counts
<1>17. CASE ReadSpriteHeader
  <2>1. Advance(Current.n) /\ Current.n \in Nat /\ UNCHANGED <<input, counts, result>>
    BY <1>1, <1>17, AtFacts DEF ReadSpriteHeader
  <2>2. at' \in Nat /\ Size' \in 0..(Word - 1)
    BY <1>1, <2>1, AdvanceBy
  <2>3. place' \in Place
    BY <1>1, <1>17, SkipPlace DEF ReadSpriteHeader
  <2> QED BY <1>2, <2>1, <2>2, <2>3 DEF input, counts
<1>18. CASE ReadRows
  BY <1>1, <1>18 DEF ReadRows, input, stream, counts, ParserTypes
<1>19. CASE DecodeRows
  <2>1. at' \in Nat
    BY <1>19, RowsStep DEF DecodeRows, input, ParserInv, ParserTypes
  <2> QED BY <1>1, <1>2, <1>19, <2>1 DEF DecodeRows, input, counts, ParserTypes
<1>20. CASE SpriteDone
  BY <1>1, <1>2, <1>6, <1>20 DEF SpriteDone, input, stream, counts, ParserTypes
<1>21. CASE NextPart
  <2>1. place' = [place EXCEPT !.list = "part", !.op = 1, !.part = @ + 1] /\ UNCHANGED <<input, stream, counts, result>>
    BY <1>21 DEF NextPart
  <2>2. place' \in Place
    BY <1>1, <2>1, PartPlace
  <2> QED BY <1>1, <1>2, <2>1, <2>2 DEF input, stream, counts, ParserTypes
<1>22. CASE NextElement
  <2>1. place' = [list |-> "element", op |-> 1, element |-> place.element + 1, part |-> 0] /\ UNCHANGED <<input, stream, counts, result>>
    BY <1>22 DEF NextElement
  <2>2. place' \in Place
    <3>1. place.element + 1 \in Nat /\ "element" \in Lists
      BY <1>1 DEF Lists
    <3> QED BY <2>1, <3>1
  <2> QED BY <1>1, <1>2, <2>1, <2>2 DEF input, stream, counts, ParserTypes
<1> QED
  BY <1>4, <1>5, <1>7, <1>8, <1>9, <1>10, <1>11, <1>12, <1>13, <1>14, <1>15, <1>16, <1>17, <1>18, <1>19, <1>20, <1>21, <1>22
  DEF ParserNext

-----------------------------------------------------------------------------
(* Each step keeps the loops in bounds. *)

LEMMA PartsHereNat == ASSUME ParserTypes PROVE PartsHere \in Nat
BY DEF ParserTypes, PartsHere

\* The operations of sprites are of the head and of the element.
LEMMA FoundOfSprites ==
    ASSUME ParserTypes, Places, f \in SpriteFormats, At("elements")
    PROVE  Current = Found /\ place.list = "head" /\ place.op = 4
<1>1. SpriteShape(f) /\ place.op \in 1..Len(Ops) /\ place.list = "head" /\ Current.op = "elements"
  BY SpritesShape, AtFacts, CurrentFits
<1> QED BY <1>1 DEF Ops, Current, SpriteShape, Is

LEMMA PlacesStep == ASSUME ParserInv, ParserNext PROVE Places'
<1> DEFINE Kept == f' = f /\ result' = result
           Stays == place'.list = place.list /\ place'.element = place.element /\ place'.part = place.part
<1>1. /\ ParserTypes /\ Places /\ place \in Place /\ MaxElements \in Nat /\ PartsHere \in Nat
      /\ elements \in Nat /\ parts \in Seq(Nat) /\ script \in Seq(Nat) /\ Len(script) \in Nat
  BY ParserAssumption, PartsHereNat DEF ParserInv, ParserTypes, Place
<1>2. ParserTypes' /\ PartsHere' \in Nat
  <2>1. ParserTypes'
    BY TypesStep
  <2>2. PartsHere' \in Nat
    BY <2>1 DEF ParserTypes, PartsHere
  <2> QED BY <2>1, <2>2
<1>3. ASSUME Kept, Stays, Parsing, elements' = elements, parts' = parts, script' = script PROVE Places'
  <2>1. PartsHere' = PartsHere
    BY <1>3 DEF PartsHere
  <2> QED BY <1>1, <1>3, <2>1 DEF Places, Parsing
<1>4. ASSUME NEW r \in {"parsed", "failed"}, Return(r), elements' \in Nat,
             r = "failed" => elements' = 0 /\ parts' = <<>>,
             f \in SpriteFormats => elements' <= MaxElements
      PROVE  Places'
  BY <1>2, <1>4 DEF Return, Start, Places, Parsing
<1>5. CASE Fail
  <2>1. Return("failed") /\ elements' = 0 /\ parts' = <<>>
    BY <1>5 DEF Fail
  <2> QED BY <1>1, <1>4, <2>1
<1>6. CASE StopHere \/ Complete
  <2>1. Return("parsed") /\ elements' = elements
    BY <1>6 DEF StopHere, Complete
  <2> QED BY <1>1, <1>4, <2>1 DEF Places
<1>7. ASSUME NextOp PROVE Stays
  BY <1>1, <1>7, SkipPlace DEF NextOp
<1>8. CASE ReadNeed \/ ReadStop \/ ReadCheck \/ ReadTake \/ ReadSeek \/ ReadTable \/ ReadText \/ ReadPad \/ ReadSpriteAt
  <2>1. NextOp /\ UNCHANGED <<input, counts, result>> /\ Parsing
    BY <1>8 DEF ReadNeed, ReadStop, ReadCheck, ReadTake, ReadSeek, ReadTable, ReadText, ReadPad, ReadSpriteAt, At
  <2> QED BY <1>3, <1>7, <2>1 DEF input, counts
<1>9. CASE ReadElements
  <2>1. At("elements") /\ Parsing /\ place.list = "head" /\ NextOp /\ UNCHANGED <<input, parts, script, result>>
    BY <1>1, <1>9, AtFacts, CurrentFits DEF ReadElements
  <2>2. f \in SpriteFormats => elements' <= MaxElements
    <3>1. f \in SpriteFormats => elements' = Len(script)
      BY <1>1, <1>9, <2>1, FoundOfSprites DEF ReadElements
    <3> QED BY <1>1, <3>1 DEF ParserTypes
  <2>3. Stays /\ elements' \in Nat /\ place.element = 0 /\ place.part = 0
    BY <1>1, <1>2, <1>7, <2>1 DEF Places, ParserTypes
  <2>4. PartsHere' = PartsHere
    BY <2>1, <2>3 DEF PartsHere
  <2>5. Kept /\ parts' = parts /\ script' = script
    BY <2>1 DEF input
  <2> QED BY <1>1, <2>1, <2>2, <2>3, <2>4, <2>5 DEF Places, Parsing
<1>10. CASE ReadParts
  <2>1. At("parts") /\ Parsing /\ place.list = "element" /\ f.part # <<>> /\ NextOp
        /\ UNCHANGED <<input, elements, script, result>>
    BY <1>1, <1>10, AtFacts, CurrentFits DEF ReadParts
  <2>2. Stays /\ place.part = 0 /\ Kept /\ elements' = elements /\ script' = script
    BY <1>1, <1>7, <2>1 DEF Places, input
  <2> QED BY <1>1, <1>2, <2>1, <2>2 DEF Places, Parsing
<1>11. CASE ReadScan \/ ReadOffsets \/ ReadWalk
  <2>1. Parsing /\ NextOp /\ UNCHANGED <<input, elements, parts, result>>
    BY <1>11 DEF ReadScan, ReadOffsets, ReadWalk, At
  <2>2. f \in {STR3, TMPL} \cup SpriteFormats
    BY <1>1, <1>11, AtFacts, CurrentFits DEF ReadScan, ReadOffsets, ReadWalk
  <2>3. Stays /\ Kept /\ elements' = elements /\ parts' = parts
    BY <1>7, <2>1 DEF input
  <2>4. PartsHere' = PartsHere
    BY <2>3 DEF PartsHere
  <2> QED BY <1>1, <2>1, <2>2, <2>3, <2>4 DEF Places, Parsing
<1>12. CASE ReadSpriteHeader
  <2>1. Stays /\ UNCHANGED <<input, counts, result>> /\ Parsing
    BY <1>1, <1>12, AtFacts, SkipPlace DEF ReadSpriteHeader
  <2> QED BY <1>3, <2>1 DEF input, counts
<1>13. CASE ReadRows
  BY <1>3, <1>13 DEF ReadRows, input, counts, At
<1>14. CASE DecodeRows
  <2>1. mode # "none"
    BY <1>1, <1>14, RowsStep DEF DecodeRows, input, ParserInv, ParserTypes
  <2>2. Parsing
    BY <2>1 DEF ParserInv, SpriteTypes
  <2> QED BY <1>3, <1>14, <2>2 DEF DecodeRows, input, counts
<1>15. CASE SpriteDone
  <2>1. Parsing /\ NextOp /\ UNCHANGED <<input, counts, result>>
    BY <1>15 DEF ParserInv, SpriteTypes, SpriteDone
  <2> QED BY <1>3, <1>7, <2>1 DEF input, counts
<1>16. CASE NextPart
  <2>1. Parsing /\ place.part < PartsHere /\ UNCHANGED <<input, counts, result>>
    BY <1>16 DEF NextPart, Finished
  <2>2. place'.list = "part" /\ place'.element = place.element /\ place'.part = place.part + 1
    BY <1>1, <1>16, PartPlace DEF NextPart
  <2>3. PartsHere' = PartsHere
    BY <2>1, <2>2 DEF PartsHere, counts
  <2>4. place.part \in Nat
    BY <1>1 DEF Place
  <2>5. Kept /\ elements' = elements /\ parts' = parts /\ script' = script
    BY <2>1 DEF input, counts
  <2> QED BY <1>1, <2>1, <2>2, <2>3, <2>4, <2>5 DEF Places, Parsing
<1>17. CASE NextElement
  <2>1. Parsing /\ place.element < elements /\ UNCHANGED <<input, counts, result>>
    BY <1>17 DEF NextElement, Finished
  <2>2. place'.list = "element" /\ place'.element = place.element + 1 /\ place'.part = 0
    BY <1>17 DEF NextElement
  <2>3. place.element \in Nat
    BY <1>1 DEF Place
  <2>4. Kept /\ elements' = elements /\ parts' = parts /\ script' = script
    BY <2>1 DEF input, counts
  <2> QED BY <1>1, <1>2, <2>1, <2>2, <2>3, <2>4 DEF Places, Parsing
<1> QED
  BY <1>5, <1>6, <1>8, <1>9, <1>10, <1>11, <1>12, <1>13, <1>14, <1>15, <1>16, <1>17 DEF ParserNext

-----------------------------------------------------------------------------
(* Each step keeps what was made within reach of the counts. *)

LEMMA ReachedAll == ASSUME BlocksReached PROVE blocks \ Reached = {}
BY DEF BlocksReached, Reached

LEMMA LengthsOfBlocks == \A a, b, c : Len(<<>>) # 3 /\ Len(<<a>>) # 3 /\ <<a, b, c>>[1] = a /\ <<a, b, c>>[2] = b
OBVIOUS

LEMMA BlocksStep == ASSUME ParserInv, ParserNext PROVE BlocksReached'
<1> DEFINE Kept == f' = f /\ result' = result /\ elements' = elements /\ parts' = parts
<1>1. /\ ParserTypes /\ Places /\ BlocksReached /\ place \in Place
      /\ elements \in Nat /\ parts \in Seq(Nat) /\ place.element \in Nat /\ place.part \in Nat
  BY DEF ParserInv, ParserTypes, Place
<1>2. ASSUME Parsing, Kept, place'.list = "head" => place.list = "head", \A b \in blocks' : b \in blocks \/ Len(b) # 3
      PROVE  BlocksReached'
  BY <1>1, <1>2 DEF BlocksReached, Parsing
<1>3. ASSUME NextOp PROVE place'.list = place.list
  BY <1>1, <1>3, SkipPlace DEF NextOp
<1>4. CASE Fail
  <2>1. blocks' = {}
    BY <1>1, <1>4, ReachedAll DEF Fail
  <2> QED BY <2>1 DEF BlocksReached
<1>5. CASE StopHere \/ Complete
  <2>1. f' = f /\ result' = "parsed" /\ elements' = elements /\ parts' = parts /\ blocks' = blocks
    BY <1>5 DEF StopHere, Complete, Return
  <2> QED BY <1>1, <2>1 DEF BlocksReached, Parsing
<1>6. CASE ReadNeed \/ ReadStop \/ ReadCheck \/ ReadTake \/ ReadSeek \/ ReadPad \/ ReadSpriteAt
  <2>1. Parsing /\ NextOp /\ UNCHANGED <<input, counts, blocks, result>>
    BY <1>6 DEF ReadNeed, ReadStop, ReadCheck, ReadTake, ReadSeek, ReadPad, ReadSpriteAt, At
  <2> QED BY <1>2, <1>3, <2>1 DEF input, counts
<1>7. CASE ReadTable
  <2>1. Parsing /\ NextOp /\ UNCHANGED <<input, counts, result>> /\ blocks' \subseteq blocks \cup {<<0>>}
    BY <1>7 DEF ReadTable, At
  <2> QED BY <1>2, <1>3, <2>1, LengthsOfBlocks DEF input, counts
<1>8. CASE ReadElements
  <2>1. Parsing /\ place.list = "head" /\ NextOp /\ UNCHANGED <<input, parts, result>>
    BY <1>1, <1>8, AtFacts, CurrentFits DEF ReadElements
  <2>2. blocks' \subseteq blocks \cup {<<>>, <<0>>}
    BY <1>8 DEF ReadElements, ArrayBlock
  <2>3. place'.list = "head" /\ f' = f /\ result' = result /\ parts' = parts
    BY <1>3, <2>1 DEF input
  <2>4. elements' \in Nat
    BY TypesStep DEF ParserTypes
  <2>5. \A b \in blocks' : Len(b) = 3 => b \in blocks /\ b[1] = 0
    BY <1>1, <2>1, <2>2, LengthsOfBlocks DEF BlocksReached
  <2>6. \A b \in blocks' : Len(b) = 3 => IF f.part = <<>> THEN b[1] \in Nat /\ b[1] <= elements'
                                         ELSE b[1] \in DOMAIN parts /\ b[2] \in Nat /\ b[2] <= parts[b[1]]
    BY <1>1, <2>4, <2>5 DEF BlocksReached
  <2> QED BY <2>1, <2>3, <2>5, <2>6 DEF BlocksReached, Parsing
<1>9. CASE ReadParts
  <2>1. Parsing /\ place.list = "element" /\ f.part # <<>> /\ NextOp /\ UNCHANGED <<input, elements, result>>
    BY <1>1, <1>9, AtFacts, CurrentFits DEF ReadParts
  <2>2. PICK n \in 0..MaxElements : parts' = Append(parts, n) /\ blocks' \subseteq blocks \cup {<<place.element>>}
    BY <1>9 DEF ReadParts
  <2>3. \A b \in blocks' : Len(b) = 3 => b \in blocks
    BY <2>2, LengthsOfBlocks
  <2>4. \A e \in DOMAIN parts : e \in DOMAIN parts' /\ parts'[e] = parts[e]
    BY <1>1, <2>2, ParserAssumption
  <2>5. place'.list = "element" /\ f' = f /\ result' = result
    BY <1>3, <2>1 DEF input
  <2>6. \A b \in blocks' : Len(b) = 3 => b[1] \in DOMAIN parts' /\ b[2] \in Nat /\ b[2] <= parts'[b[1]]
    BY <1>1, <2>1, <2>3, <2>4 DEF BlocksReached
  <2> QED BY <2>1, <2>5, <2>6 DEF BlocksReached, Parsing
<1>10. CASE ReadScan \/ ReadOffsets \/ ReadWalk
  <2>1. Parsing /\ NextOp /\ UNCHANGED <<input, elements, parts, blocks, result>>
    BY <1>10 DEF ReadScan, ReadOffsets, ReadWalk, At
  <2> QED BY <1>2, <1>3, <2>1 DEF input
<1>11. ASSUME Parsing, Kept, place'.list = place.list, NEW p,
              p \in Nat,
              f.part # <<>> => place.element \in DOMAIN parts /\ p <= parts[place.element],
              \A b \in blocks' : b \in blocks \/ Len(b) # 3 \/ (b[1] = place.element /\ b[2] = p)
       PROVE  BlocksReached'
  <2>1. place.element \in Nat /\ place.element <= elements /\ (place.list = "head" => place.element = 0)
    BY <1>1 DEF Places
  <2> QED BY <1>1, <1>11, <2>1 DEF BlocksReached, Parsing
<1>12. CASE ReadText
  <2>1. Parsing /\ NextOp /\ UNCHANGED <<input, counts, result>> /\ (place.list = "part" \/ f.part = <<>>)
    BY <1>1, <1>12, AtFacts, CurrentFits DEF ReadText
  <2>2. blocks' \subseteq blocks \cup {<<>>, <<place.element, place.part, place.op>>}
    BY <1>12 DEF ReadText
  <2>3. f.part # <<>> => place.element \in DOMAIN parts /\ place.part <= parts[place.element]
    BY <1>1, <2>1 DEF Places, PartsHere
  <2>4. \A b \in blocks' : b \in blocks \/ Len(b) # 3 \/ (b[1] = place.element /\ b[2] = place.part)
    BY <2>2, LengthsOfBlocks
  <2> QED BY <1>1, <1>3, <1>11, <2>1, <2>3, <2>4 DEF input, counts
<1>13. CASE ReadSpriteHeader
  <2>1. Parsing /\ f \in SpriteFormats /\ UNCHANGED <<input, counts, result>>
    BY <1>1, <1>13, AtFacts, CurrentFits DEF ReadSpriteHeader
  <2>2. place'.list = place.list
    BY <1>1, <1>13, SkipPlace DEF ReadSpriteHeader
  <2>3. blocks' \subseteq blocks \cup {<<place.element, 0, 1>>, <<place.element, 0, 2>>}
    BY <1>13 DEF ReadSpriteHeader
  <2>4. f.part = <<>>
    BY <2>1, SpritesShape DEF SpriteShape
  <2>5. \A b \in blocks' : b \in blocks \/ Len(b) # 3 \/ (b[1] = place.element /\ b[2] = 0)
    BY <2>3, LengthsOfBlocks
  <2> QED BY <1>11, <2>1, <2>2, <2>4, <2>5 DEF input, counts
<1>14. CASE ReadRows
  BY <1>2, <1>14 DEF ReadRows, input, counts, At
<1>15. CASE DecodeRows
  <2>1. mode # "none"
    BY <1>15, RowsStep DEF DecodeRows, input, ParserInv, ParserTypes
  <2>2. Parsing
    BY <2>1 DEF ParserInv, SpriteTypes
  <2> QED BY <1>2, <1>15, <2>2 DEF DecodeRows, input, counts
<1>16. CASE SpriteDone
  <2>1. Parsing /\ NextOp /\ UNCHANGED <<input, counts, blocks, result>>
    BY <1>16 DEF ParserInv, SpriteTypes, SpriteDone
  <2> QED BY <1>2, <1>3, <2>1 DEF input, counts
<1>17. CASE NextPart
  <2>1. Parsing /\ UNCHANGED <<input, counts, blocks, result>> /\ place'.list = "part"
    BY <1>1, <1>17, PartPlace DEF NextPart, Finished
  <2> QED BY <1>2, <2>1 DEF input, counts
<1>18. CASE NextElement
  <2>1. Parsing /\ UNCHANGED <<input, counts, blocks, result>> /\ place'.list = "element"
    BY <1>18 DEF NextElement, Finished
  <2> QED BY <1>2, <2>1 DEF input, counts
<1> QED
  BY <1>4, <1>5, <1>6, <1>7, <1>8, <1>9, <1>10, <1>12, <1>13, <1>14, <1>15, <1>16, <1>17, <1>18 DEF ParserNext

-----------------------------------------------------------------------------
(* Each step keeps the counts of the sprite. *)

\* The operations on the element of a sprite are one of each.
LEMMA SpriteOps ==
    ASSUME ParserTypes, f \in SpriteFormats, place.list = "element", place.op \in 1..Len(Ops)
    PROVE  /\ Len(Ops) = 3 /\ Current.n = HeaderSize /\ HeaderSize \in {8, 16}
           /\ \/ place.op = 1 /\ Current.op = "sprite"
              \/ place.op = 2 /\ Current.op = "header"
              \/ place.op = 3 /\ Current.op = "rows"
<1>1. SpriteShape(f)
  BY SpritesShape
<1>2. Ops = f.element
  BY DEF Ops
<1>3. Len(Ops) = 3 /\ HeaderSize \in {8, 16}
  BY <1>1, <1>2 DEF SpriteShape, HeaderSize
<1>4. place.op = 1 \/ place.op = 2 \/ place.op = 3
  BY <1>3
<1>5. /\ place.op = 1 => Current.op = "sprite" /\ Current.n = HeaderSize
      /\ place.op = 2 => Current.op = "header" /\ Current.n = HeaderSize
      /\ place.op = 3 => Current.op = "rows" /\ Current.n = HeaderSize
  BY <1>1, <1>2 DEF SpriteShape, Is, HeaderSize, Current
<1> QED BY <1>3, <1>4, <1>5

LEMMA SpriteStep == ASSUME ParserInv, ParserNext PROVE SpriteTypes'
<1>1. /\ ParserTypes /\ Places /\ SpriteTypes /\ place \in Place /\ Word \in Nat /\ Word > 0
      /\ at \in Nat /\ Size \in 0..(Word - 1)
  BY WordAssumption DEF ParserInv, ParserTypes, Place
<1>2. ASSUME mode = "none", UNCHANGED spritevars PROVE SpriteTypes'
  BY <1>1, <1>2 DEF SpriteTypes, spritevars, RowsAccounted, PixelsInside
<1>3. ASSUME SpriteReset PROVE SpriteTypes'
  <2>1. NoSprite \in [Type : {"SPR#", "SPR2"}, Width : Nat, Height : Nat, Flags : Nat]
        /\ NoSprite.Height = 0 /\ NoSprite.Width = 0
    BY DEF NoSprite
  <2> QED BY <1>1, <1>3, <2>1 DEF SpriteTypes, SpriteReset, RowsAccounted, PixelsInside
<1>4. CASE Fail \/ StopHere \/ Complete \/ SpriteDone
  BY <1>3, <1>4 DEF Fail, StopHere, Complete, SpriteDone, Return
<1>5. CASE ReadNeed \/ ReadStop \/ ReadCheck \/ ReadTake \/ ReadSeek \/ ReadTable \/ ReadElements \/ ReadParts
           \/ ReadScan \/ ReadText \/ ReadPad \/ ReadOffsets \/ ReadWalk \/ NextPart \/ NextElement
  <2>1. mode = "none" /\ UNCHANGED spritevars
    BY <1>5 DEF ReadNeed, ReadStop, ReadCheck, ReadTake, ReadSeek, ReadTable, ReadElements, ReadParts,
                ReadScan, ReadText, ReadPad, ReadOffsets, ReadWalk, NextPart, NextElement, At, Finished
  <2> QED BY <1>2, <2>1
<1>6. CASE ReadSpriteAt
  <2>1. f \in SpriteFormats /\ place.list = "element" /\ Parsing /\ mode = "none"
    BY <1>1, <1>6, AtFacts, CurrentFits DEF ReadSpriteAt
  <2>2. SpriteSize' \in 0..(Word - 1)
    <3>1. CASE f \in Walks
      <4>1. place.element \in 1..Len(script) /\ script[place.element] \in Nat
        BY <2>1, ElementOfScript
      <4>2. script[place.element] < Word
        BY <2>1, <3>1, <4>1 DEF ParserInv, SpritesPass, WalkFits
      <4>3. SpriteSize' = script[place.element]
        BY <1>6, <3>1 DEF ReadSpriteAt, Walks
      <4> QED BY <1>1, <4>1, <4>2, <4>3
    <3>2. CASE f \notin Walks
      <4>1. SpriteSize' = Size'
        BY <1>6, <3>2 DEF ReadSpriteAt, Walks
      <4>2. Size' \in 0..(Word - 1)
        BY TypesStep DEF ParserTypes
      <4> QED BY <4>1, <4>2
    <3> QED BY <3>1, <3>2
  <2>3. UNCHANGED <<mode, Sprite, RowCount, row, pixel, end>>
    BY <1>6 DEF ReadSpriteAt
  <2> QED BY <1>1, <2>1, <2>2, <2>3 DEF SpriteTypes, RowsAccounted, PixelsInside
<1>7. CASE ReadSpriteHeader
  <2>1. f \in SpriteFormats /\ Parsing /\ mode = "none"
    BY <1>1, <1>7, AtFacts, CurrentFits DEF ReadSpriteHeader
  <2>2. f.type \in {"SPR#", "SPR2"}
    BY <2>1, SpritesShape DEF SpriteShape
  <2>3. Sprite' \in [Type : {"SPR#", "SPR2"}, Width : Nat, Height : Nat, Flags : Nat]
    <3>1. CASE UNCHANGED Sprite
      BY <1>1, <3>1 DEF SpriteTypes
    <3>2. CASE ~UNCHANGED Sprite
      <4>1. PICK w \in Dimensions, h \in Dimensions : \E flags \in {0, 1, 3, 7} :
                Sprite' = [Type |-> f.type, Width |-> w, Height |-> h, Flags |-> flags]
        BY <1>7, <3>2 DEF ReadSpriteHeader
      <4>2. w \in Nat /\ h \in Nat
        BY ParserAssumption
      <4> QED BY <2>2, <4>1, <4>2
    <3> QED BY <3>1, <3>2
  <2>4. UNCHANGED <<mode, SpriteSize, RowCount, row, pixel, end>>
    BY <1>7 DEF ReadSpriteHeader
  <2>5. Sprite'.Height \in Nat /\ Sprite'.Width \in Nat /\ row = 0 /\ pixel = 0
    BY <1>1, <2>1, <2>3 DEF SpriteTypes
  <2> QED BY <1>1, <2>1, <2>3, <2>4, <2>5 DEF SpriteTypes, RowsAccounted, PixelsInside
<1>8. CASE ReadRows
  <2>1. f \in SpriteFormats /\ place.list = "element" /\ Parsing /\ place.op \in 1..Len(Ops) /\ Current.op = "rows"
        /\ Current.n \in Nat
    BY <1>1, <1>8, AtFacts, CurrentFits DEF ReadRows
  <2>2. place.op = 3
    BY <1>1, <2>1, SpriteOps
  <2>3. SpriteSize - Current.n \in Int
    BY <1>1, <2>1 DEF SpriteTypes
  <2>4. PICK size \in 0..(Word - 1) : size = UInt(SpriteSize - Current.n)
    BY <2>3, UIntRange
  <2>5. /\ mode' = "rows" /\ Sprite' = Sprite /\ SpriteSize' = size /\ end' = at + size
        /\ RowCount' = 0 /\ row' = 0 /\ pixel' = 0
        /\ at' = at /\ f' = f /\ place' = place /\ result' = result
    BY <1>8, <2>4 DEF ReadRows, Begin, input, stream
  <2>6. Sprite.Height \in Nat /\ Sprite.Width \in Nat
    BY <1>1 DEF SpriteTypes
  <2> QED BY <1>1, <2>1, <2>2, <2>5, <2>6 DEF SpriteTypes, RowsAccounted, PixelsInside, Parsing
<1>9. CASE DecodeRows
  BY <1>1, <1>9, RowsStep DEF DecodeRows, input
<1> QED
  BY <1>4, <1>5, <1>6, <1>7, <1>8, <1>9 DEF ParserNext

-----------------------------------------------------------------------------
(* Each step keeps the buffer and the size in step. *)

LEMMA NotSought ==
    ASSUME ParserTypes, NEW name, At(name), name \notin {"sprite", "header", "rows"}
    PROVE  ~Sought /\ ~(f \in SpriteFormats /\ place.list = "element")
<1>1. WellFormed(f) /\ place.op \in 1..Len(Ops) /\ Current.op = name
  BY FormatsWellFormed, AtFacts DEF ParserTypes
<1>2. f \notin SpriteFormats \/ place.list # "element"
  BY <1>1, SpriteOps
<1> QED BY <1>1, <1>2 DEF Sought, WellFormed

\* What is read unchecked is there.
LEMMA TakeEnough == ASSUME ParserInv, At("take") PROVE Current.n <= Size
<1>1. /\ ParserTypes /\ Places /\ Parsing /\ mode = "none" /\ place \in Place /\ place.op \in 1..Len(Ops)
      /\ Current.op = "take" /\ at \in Nat /\ Size \in Nat /\ TotalSize \in Nat
  BY AtFacts, WordAssumption DEF ParserInv, ParserTypes
<1>2. at + Size = TotalSize
  BY <1>1, NotSought DEF ParserInv, InStep
<1>3. ASSUME place.list = "head", place.op = 1, Current.n \in Nat, f.min \in Nat, Current.n <= f.min
      PROVE  Current.n <= Size
  BY <1>1, <1>2, <1>3 DEF ParserInv, InStep
<1>4. ASSUME place.op > 1, Ops[place.op - 1].op \in {"need", "stop"}, Ops[place.op - 1].n \in Nat,
             Current.n \in Nat, Current.n <= Ops[place.op - 1].n
      PROVE  Current.n <= Size
  BY <1>1, <1>4 DEF ParserInv, InStep
<1>5. CASE f = STR3
  <2>1. place.list \in {"head", "element"} /\ STR3.min = 2
    BY <1>1, <1>5, StringsShape DEF ParserInv, StringsPass, Place, Lists
  <2>2. CASE place.list = "head"
    <3>1. Ops = f.head
      BY <2>2 DEF Ops
    <3>2. (place.op = 1 \/ place.op = 3) /\ Current.n = 2
      BY <1>1, <1>5, <3>1, StringsShape, FoundIs DEF Current, Is
    <3>3. place.op = 3 => Ops[place.op - 1].op = "stop" /\ Ops[place.op - 1].n = 2
      BY <1>5, <3>1, StringsShape DEF Is
    <3> QED BY <1>3, <1>4, <1>5, <2>1, <2>2, <3>2, <3>3
  <2>3. CASE place.list = "element"
    <3>1. Ops = f.element
      BY <2>3 DEF Ops
    <3>2. place.op = 1 /\ Current.n = 1
      BY <1>1, <1>5, <3>1, StringsShape DEF Current, Is
    <3>3. PICK n, e, before, this, all :
             /\ n = Len(script) /\ e = place.element /\ before = Total(script, place.element - 1)
             /\ this = script[place.element] /\ all = Total(script, Len(script))
      OBVIOUS
    <3>4. /\ n \in Nat /\ e \in 1..n /\ this \in Nat /\ before \in Nat /\ all \in Nat /\ before + this <= all
      <4>1. n \in Nat
        BY <1>1, <3>3 DEF ParserTypes
      <4> QED BY <1>1, <1>5, <2>3, <3>3, <4>1, ElementOfScript
    <3>5. 4 + 3 * n + 2 * all <= TotalSize /\ at = 4 + 3 * (e - 1) + 2 * before + 0
      BY <1>1, <1>5, <2>3, <3>2, <3>3 DEF ParserInv, StringsPass, StringsFit, StringsStart, StringsInto
    <3> QED BY <1>1, <1>2, <3>2, <3>4, <3>5
  <2> QED BY <2>1, <2>2, <2>3
<1>6. CASE f = TMPL
  <2>1. place.list \in {"head", "element"}
    BY <1>1, <1>6 DEF ParserInv, FieldsPass, Place, Lists
  <2>2. CASE place.list = "head"
    <3>1. Ops = f.head
      BY <2>2 DEF Ops
    <3> QED BY <1>1, <1>6, <3>1, FieldsShape, FoundIs DEF Current, Is
  <2>3. CASE place.list = "element"
    <3>1. Ops = f.element
      BY <2>3 DEF Ops
    <3>2. place.op = 2 /\ Current.n = 4
      BY <1>1, <1>6, <3>1, FieldsShape DEF Current, Is
    <3>3. PICK n, e, before, this, all :
             /\ n = Len(script) /\ e = place.element /\ before = Total(script, place.element - 1)
             /\ this = script[place.element] /\ all = Total(script, Len(script))
      OBVIOUS
    <3>4. /\ n \in Nat /\ e \in 1..n /\ this \in Nat /\ before \in Nat /\ all \in Nat /\ before + this <= all
      <4>1. n \in Nat
        BY <1>1, <3>3 DEF ParserTypes
      <4> QED BY <1>1, <1>6, <2>3, <3>3, <4>1, ElementOfScript
    <3>5. 5 * n + all = TotalSize /\ at = 5 * (e - 1) + before + (1 + this)
      BY <1>1, <1>6, <2>3, <3>2, <3>3 DEF ParserInv, FieldsPass, FieldsFit, FieldsStart, FieldsInto
    <3> QED BY <1>1, <1>2, <3>2, <3>4, <3>5
  <2> QED BY <2>1, <2>2, <2>3
<1>7. CASE f \notin {STR3, TMPL}
  <2>1. /\ Current.n \in Nat /\ f.min \in Nat
        /\ \/ place.list = "head" /\ place.op = 1 /\ Current.n <= f.min
           \/ /\ place.op > 1 /\ Ops[place.op - 1].op \in {"need", "stop"}
              /\ Current.n <= Ops[place.op - 1].n
    BY <1>1, <1>7, CurrentFits
  <2>2. place.op > 1 => Ops[place.op - 1].n \in Nat
    <3>1. WellFormed(f) /\ place.op \in Nat
      BY <1>1, FormatsWellFormed DEF ParserTypes, Place
    <3> QED BY <1>1, <3>1, SMTT(60) DEF Place, Lists, Ops, WellFormed, HeadFits, ElementFits, PartFits
  <2> QED BY <1>3, <1>4, <2>1, <2>2
<1> QED BY <1>5, <1>6, <1>7

LEMMA InStepStep == ASSUME ParserInv, ParserNext PROVE InStep'
<1>1. /\ ParserTypes /\ Places /\ SpriteTypes /\ InStep /\ place \in Place /\ Word \in Nat
      /\ at \in Nat /\ Size \in 0..(Word - 1) /\ Size \in Nat /\ TotalSize \in Nat /\ place.op \in Nat /\ place.op > 0
  BY WordAssumption DEF ParserInv, ParserTypes, Place
<1>2. ASSUME NextOp, f' = f PROVE Ops' = Ops /\ (Sought' => IsSprite(f) /\ place.list = "element") /\ place'.op = place.op + 1
  <2>1. place'.list = place.list /\ place'.op = place.op + 1
    BY <1>1, <1>2, SkipPlace DEF NextOp
  <2> QED BY <1>2, <2>1 DEF Ops, Sought, IsSprite
<1>3. ASSUME NEW name, At(name), name \notin {"sprite", "header", "rows"}, NextOp, f' = f,
             at' + Size' = TotalSize', name \in {"need", "stop"} => Current.n <= Size'
      PROVE  InStep'
  <2>1. place'.op = place.op + 1 /\ Ops' = Ops /\ Current.op = name
    BY <1>1, <1>2, <1>3, AtFacts
  <2>2. Ops'[place'.op - 1] = Current
    BY <1>1, <2>1 DEF Current
  <2>3. ~(place'.op = 1)
    BY <1>1, <2>1
  <2> QED BY <1>3, <2>1, <2>2, <2>3 DEF InStep
<1>4. ASSUME NEW name, At(name), name \notin {"sprite", "header", "rows"} PROVE at + Size = TotalSize
  <2>1. Parsing /\ mode = "none" /\ ~Sought
    BY <1>1, <1>4, AtFacts, NotSought
  <2> QED BY <1>1, <2>1 DEF InStep
<1>5. ASSUME NEW name, At(name), name \notin {"sprite", "header", "rows", "need", "stop"}, NextOp, UNCHANGED input,
             NEW n \in Nat, Advance(n), n <= Size
      PROVE  InStep'
  <2>1. at + Size = TotalSize /\ at' = at + n /\ Size' = Size - n /\ TotalSize' = TotalSize /\ f' = f
    BY <1>1, <1>4, <1>5, AdvanceBy DEF input
  <2>2. at' + Size' = TotalSize'
    BY <1>1, <1>5, <2>1
  <2> QED BY <1>3, <1>5, <2>1, <2>2
<1>6. CASE Fail \/ StopHere \/ Complete
  BY <1>6 DEF Fail, StopHere, Complete, Return, InStep, Parsing
<1>7. CASE ReadNeed \/ ReadStop
  <2>1. PICK name \in {"need", "stop"} : At(name)
    BY <1>7 DEF ReadNeed, ReadStop
  <2>2. NextOp /\ Current.n <= Size /\ UNCHANGED <<input, stream>>
    <3>1. Current.n <= Size \/ Current.n > Size
      BY <1>1, <2>1, AtFacts
    <3> QED BY <1>7, <3>1 DEF ReadNeed, ReadStop
  <2>3. at + Size = TotalSize
    BY <1>4, <2>1
  <2> QED BY <1>3, <2>1, <2>2, <2>3 DEF input, stream
<1>8. CASE ReadCheck \/ ReadElements \/ ReadParts \/ ReadScan \/ ReadOffsets \/ ReadWalk
  <2>1. PICK name \in {"check", "elements", "parts", "scan", "offsets", "walk"} : At(name)
    BY <1>8 DEF ReadCheck, ReadElements, ReadParts, ReadScan, ReadOffsets, ReadWalk
  <2>2. NextOp /\ UNCHANGED <<input, stream>>
    BY <1>8 DEF ReadCheck, ReadElements, ReadParts, ReadScan, ReadOffsets, ReadWalk
  <2>3. at + Size = TotalSize
    BY <1>4, <2>1
  <2> QED BY <1>3, <2>1, <2>2, <2>3 DEF input, stream
<1>9. CASE ReadTake
  <2>1. At("take") /\ NextOp /\ UNCHANGED input /\ Advance(Current.n)
    BY <1>9 DEF ReadTake
  <2>2. Current.n \in Nat /\ Current.n <= Size
    BY <1>1, <2>1, AtFacts, TakeEnough
  <2> QED BY <1>5, <2>1, <2>2
<1>10. CASE ReadSeek
  <2>1. At("seek") /\ NextOp /\ UNCHANGED input /\ SeekTo(Current.n)
    BY <1>10 DEF ReadSeek
  <2>2. Current.n \in Nat
    BY <1>1, <2>1, AtFacts
  <2>3. at' + Size' = TotalSize'
    BY <1>1, <2>1, <2>2, SeekAt DEF input
  <2> QED BY <1>3, <2>1, <2>3 DEF input
<1>11. CASE ReadTable
  <2>1. At("table") /\ NextOp /\ UNCHANGED input
    BY <1>11 DEF ReadTable
  <2>2. PICK n \in 0..MaxElements : n * Current.n <= Size /\ Advance(n * Current.n)
    BY <1>11 DEF ReadTable
  <2>3. n * Current.n \in Nat
    BY <1>1, <2>1, AtFacts, ParserAssumption
  <2> QED BY <1>5, <2>1, <2>2, <2>3
<1>12. CASE ReadText
  <2>1. At("text") /\ NextOp /\ UNCHANGED input
    BY <1>12 DEF ReadText
  <2>2. PICK length \in LengthsHere : \E n \in TextBytes(Current.string, length) : n <= Size /\ Advance(n)
    BY <1>12 DEF ReadText
  <2>3. PICK n \in TextBytes(Current.string, length) : n <= Size /\ Advance(n)
    BY <2>2
  <2>4. n \in Nat
    BY <2>1, <2>2, <2>3, LengthsNat, TextBytesNat
  <2> QED BY <1>5, <2>1, <2>3, <2>4
<1>13. CASE ReadPad
  <2>1. At("pad") /\ NextOp /\ UNCHANGED input
    BY <1>13 DEF ReadPad
  <2>2. CASE Size > 0 /\ Advance(1)
    BY <1>1, <1>5, <2>1, <2>2
  <2>3. CASE UNCHANGED stream
    <3>1. at + Size = TotalSize
      BY <1>4, <2>1
    <3> QED BY <1>3, <2>1, <2>3, <3>1 DEF input, stream
  <2> QED BY <1>13, <2>2, <2>3 DEF ReadPad
<1>14. ASSUME NEW name \in {"sprite", "header"}, At(name), place'.list = place.list, f' = f, place'.op \in Nat,
              place'.op > place.op, at' + Size' = TotalSize'
       PROVE  InStep'
  <2>1. f \in SpriteFormats /\ place.list = "element" /\ place.op \in 1..Len(Ops) /\ Current.op = name
    BY <1>1, <1>14, AtFacts, CurrentFits
  <2>2. Ops' = f.element /\ SpriteShape(f)
    BY <1>14, <2>1, SpritesShape DEF Ops
  <2>3. place'.op > 1 /\ place'.list = "element"
    BY <1>1, <1>14, <2>1
  <2>4. ASSUME place'.op <= 3 PROVE Ops'[place'.op - 1].op \in {"sprite", "header"}
    <3>1. place'.op = 2 \/ place'.op = 3
      BY <1>14, <2>3, <2>4
    <3> QED BY <2>2, <3>1 DEF SpriteShape, Is
  <2>5. Len(Ops') = 3
    BY <2>2 DEF SpriteShape
  <2> QED BY <1>14, <2>3, <2>4, <2>5 DEF InStep
<1>15. CASE ReadSpriteAt
  <2>1. At("sprite") /\ NextOp /\ UNCHANGED input
    BY <1>15 DEF ReadSpriteAt
  <2>2. PICK n : SeekTo(n)
    BY <1>15 DEF ReadSpriteAt
  <2>3. at' = n /\ Size' = TotalSize - n /\ at' \in Nat
    BY <2>2, TypesStep DEF SeekTo, ParserTypes
  <2>4. place'.op = place.op + 1 /\ place'.list = place.list
    BY <1>1, <2>1, SkipPlace DEF NextOp
  <2> QED BY <1>1, <1>14, <2>1, <2>3, <2>4 DEF input
<1>16. CASE ReadSpriteHeader
  <2>1. At("header") /\ UNCHANGED input /\ Advance(Current.n)
    BY <1>16 DEF ReadSpriteHeader
  <2>2. f \in SpriteFormats /\ place.list = "element" /\ place.op \in 1..Len(Ops) /\ Current.op = "header"
        /\ Parsing /\ mode = "none" /\ Current.n \in Nat
    BY <1>1, <2>1, AtFacts, CurrentFits
  <2>3. place.op = 2 /\ Current.n = HeaderSize
    BY <1>1, <2>2, SpriteOps
  <2>4. Current.n <= Size
    BY <1>1, <2>2, <2>3 DEF ParserInv, SpritesPass, SpriteFound
  <2>5. at + Size = TotalSize
    BY <1>1, <2>2, <2>3 DEF InStep, Sought
  <2>6. at' + Size' = TotalSize'
    <3>1. at' = at + Current.n /\ Size' = Size - Current.n
      BY <1>1, <2>1, <2>2, <2>4, AdvanceBy
    <3>2. at \in Nat /\ Size \in Nat /\ TotalSize' = TotalSize
      BY <1>1, <2>1 DEF ParserTypes, input
    <3> QED BY <2>2, <2>5, <3>1, <3>2
  <2>7. place'.op > place.op /\ place'.op \in Nat /\ place'.list = place.list
    <3>1. PICK n \in {1, 2} : Skip(n)
      BY <1>16 DEF ReadSpriteHeader
    <3> QED BY <1>1, <3>1, SkipPlace
  <2> QED BY <1>14, <2>1, <2>6, <2>7 DEF input
<1>17. CASE ReadRows \/ DecodeRows
  <2>1. mode' # "none"
    <3>1. CASE ReadRows
      BY <3>1 DEF ReadRows, Begin
    <3>2. CASE DecodeRows
      BY <1>1, <3>2, RowsStep DEF DecodeRows, input
    <3> QED BY <1>17, <3>1, <3>2
  <2> QED BY <2>1 DEF InStep
<1>18. CASE SpriteDone
  <2>1. f \in SpriteFormats /\ place.list = "element" /\ place.op = 3 /\ NextOp /\ f' = f
    BY <1>1, <1>18 DEF SpriteDone, SpriteTypes, input
  <2>2. place'.op = 4 /\ place'.list = "element"
    BY <1>1, <2>1, SkipPlace DEF NextOp
  <2>3. Ops' = f.element /\ SpriteShape(f)
    BY <2>1, <2>2, SpritesShape DEF Ops
  <2>4. Len(Ops') = 3 /\ IsSprite(f)
    BY <2>3 DEF SpriteShape, IsSprite
  <2>5. Sought'
    BY <2>1, <2>2, <2>4 DEF Sought, IsSprite
  <2> QED BY <2>2, <2>4, <2>5 DEF InStep
<1>19. CASE NextPart \/ NextElement
  <2>1. Parsing /\ mode = "none" /\ f' = f /\ stream' = stream /\ TotalSize' = TotalSize
    BY <1>19 DEF NextPart, NextElement, Finished, input
  <2>2. place'.op = 1 /\ place'.list # "head" /\ (place'.list = "element" \/ (place'.list = "part" /\ place.part < PartsHere))
    BY <1>1, <1>19, PartPlace DEF NextPart, NextElement
  <2>3. ASSUME IsSprite(f) PROVE Sought'
    <3>1. f \in SpriteFormats
      BY <1>1, <2>3, FormatsWellFormed DEF ParserTypes, WellFormed
    <3>2. f.part = <<>>
      BY <3>1, SpritesShape DEF SpriteShape
    <3>3. PartsHere = 0
      BY <1>1, <2>1, <3>2 DEF Places, PartsHere
    <3>4. place'.list = "element"
      BY <1>1, <2>2, <3>3 DEF Place
    <3> QED BY <2>1, <2>2, <2>3, <3>4 DEF Sought, IsSprite
  <2>4. ASSUME ~IsSprite(f) PROVE at' + Size' = TotalSize'
    <3>1. ~Sought
      BY <2>4 DEF Sought
    <3>2. at + Size = TotalSize
      BY <1>1, <2>1, <3>1 DEF InStep
    <3> QED BY <2>1, <3>2 DEF stream
  <2> QED BY <2>2, <2>3, <2>4 DEF InStep
<1> QED
  BY <1>6, <1>7, <1>8, <1>9, <1>10, <1>11, <1>12, <1>13, <1>15, <1>16, <1>17, <1>18, <1>19 DEF ParserNext

-----------------------------------------------------------------------------
(* Each step keeps the second pass of strings where the first said. *)

LEMMA StringsOps ==
    ASSUME ParserTypes, f = STR3, place.list # "part", NEW name, At(name)
    PROVE  \/ place.list = "head" /\ place.op = 1 /\ name = "take" /\ Current.n = 2
           \/ place.list = "head" /\ place.op = 2 /\ name = "stop"
           \/ place.list = "head" /\ place.op = 3 /\ name = "take" /\ Current.n = 2
           \/ place.list = "head" /\ place.op = 4 /\ name = "scan" /\ Current.n = 3
           \/ place.list = "head" /\ place.op = 5 /\ name = "elements" /\ Current = Found
           \/ place.list = "head" /\ place.op = 6 /\ name = "seek" /\ Current.n = 4
           \/ place.list = "element" /\ place.op = 1 /\ name = "take" /\ Current.n = 1
           \/ place.list = "element" /\ place.op \in {2, 3} /\ name = "text" /\ Current.string = "c"
<1>1. place.op \in 1..Len(Ops) /\ Current.op = name /\ place.list \in {"head", "element"}
  BY AtFacts DEF Place, Lists
<1>2. CASE place.list = "head"
  <2>1. Ops = STR3.head
    BY <1>2 DEF Ops
  <2>2. place.op \in 1..6
    BY <1>1, <2>1, StringsShape
  <2>3. place.op = 1 \/ place.op = 2 \/ place.op = 3 \/ place.op = 4 \/ place.op = 5 \/ place.op = 6
    BY <2>2
  <2> QED BY <1>1, <1>2, <2>1, <2>3, StringsShape, FoundIs DEF Current, Is
<1>3. CASE place.list = "element"
  <2>1. Ops = STR3.element
    BY <1>3 DEF Ops
  <2>2. place.op = 1 \/ place.op = 2 \/ place.op = 3
    BY <1>1, <2>1, StringsShape
  <2> QED BY <1>1, <1>3, <2>1, <2>2, StringsShape DEF Current, Is
<1> QED BY <1>1, <1>2, <1>3

LEMMA SameFormat == ASSUME ParserNext, Parsing' PROVE f' = f /\ TotalSize' = TotalSize
BY DEF ParserNext, Fail, ReadNeed, StopHere, ReadStop, ReadTake, ReadSeek, ReadCheck, ReadTable, ReadElements,
       ReadParts, ReadScan, ReadText, ReadPad, ReadOffsets, ReadWalk, ReadSpriteAt, ReadSpriteHeader, ReadRows,
       DecodeRows, SpriteDone, NextPart, NextElement, Complete, Return, input, Parsing

LEMMA StringsStep == ASSUME ParserInv, ParserNext PROVE StringsPass'
<1> SUFFICES ASSUME Parsing', f' = STR3 PROVE StringsPass'
  BY DEF StringsPass
<1>1. f = STR3 /\ f' = f
  BY SameFormat
<1>2. /\ ParserTypes /\ Places /\ SpriteTypes /\ place \in Place /\ Word \in Nat /\ at \in Nat /\ Size \in Nat
      /\ TotalSize \in Nat /\ script \in Seq(Nat) /\ Len(script) \in Nat /\ place.op \in Nat /\ place.op > 0
      /\ place.element \in Nat
  BY WordAssumption DEF ParserInv, ParserTypes, Place
<1>3. f \notin SpriteFormats /\ f.part = <<>> /\ mode = "none"
  BY <1>1, <1>2, StringsShape DEF SpriteTypes
<1>4. ASSUME Parsing
      PROVE  /\ place.list \in {"head", "element"}
             /\ place.list = "head" => at = StringsBack(place.op) /\ place.op <= 7
             /\ place.list = "element" \/ place.op > 4 => StringsFit
             /\ place.list = "element" \/ place.op > 5 => elements = Len(script)
             /\ place.list = "element" =>
                   at = StringsStart + StringsInto(place.op, script[place.element]) /\ place.op <= 4
  BY <1>1, <1>2, <1>4 DEF ParserInv, StringsPass, Place, Lists
<1>5. ASSUME NEW op, place'.list = "head", place'.op = op, op \in Nat, op <= 7, at' = StringsBack(op),
             op > 4 => StringsFit', op > 5 => elements' = Len(script')
      PROVE  StringsPass'
  BY <1>5 DEF StringsPass
<1>18. ASSUME NEW op, place'.list = "element", place'.op = op, op <= 4, NEW length, script'[place'.element] = length,
              NEW start, start = StringsStart', at' = start + StringsInto(op, length), StringsFit', elements' = Len(script')
       PROVE  StringsPass'
  BY <1>18 DEF StringsPass
<1>6. ASSUME NextOp PROVE place'.op = place.op + 1 /\ place'.list = place.list /\ place'.element = place.element
  BY <1>2, <1>6, SkipPlace DEF NextOp
<1>19. ASSUME place'.element = place.element, UNCHANGED <<input, counts>>
       PROVE  /\ StringsStart' = StringsStart /\ script'[place'.element] = script[place.element]
              /\ StringsFit' = StringsFit /\ elements' = elements /\ script' = script
  BY <1>19 DEF StringsStart, StringsFit, input, counts
<1>7. CASE Fail \/ StopHere \/ Complete
  BY <1>7 DEF Fail, StopHere, Complete, Return, Parsing
<1>8. CASE ReadNeed \/ ReadCheck \/ ReadTable \/ ReadParts \/ ReadPad \/ ReadOffsets \/ ReadWalk \/ ReadSpriteAt
           \/ ReadSpriteHeader \/ ReadRows
  <2>1. PICK name \in {"need", "check", "table", "parts", "pad", "offsets", "walk", "sprite", "header", "rows"} : At(name)
    BY <1>8 DEF ReadNeed, ReadCheck, ReadTable, ReadParts, ReadPad, ReadOffsets, ReadWalk, ReadSpriteAt,
                ReadSpriteHeader, ReadRows
  <2>2. place.list # "part"
    BY <1>4, <2>1 DEF At
  <2> QED BY <1>1, <1>2, <2>1, <2>2, StringsOps
<1>9. CASE ReadStop
  <2>1. At("stop") /\ NextOp /\ Parsing /\ UNCHANGED <<input, stream, counts>>
    BY <1>9 DEF ReadStop, At
  <2>2. place.list = "head" /\ place.op = 2
    BY <1>1, <1>2, <1>4, <2>1, StringsOps
  <2>3. at' = at /\ place'.op = 3 /\ place'.list = "head"
    BY <1>6, <2>1, <2>2 DEF stream
  <2>4. at' = StringsBack(3)
    BY <1>4, <2>1, <2>2, <2>3 DEF StringsBack
  <2> QED BY <1>5, <2>3, <2>4
<1>10. CASE ReadTake
  <2>1. At("take") /\ NextOp /\ Parsing /\ UNCHANGED <<input, counts>> /\ Advance(Current.n)
    BY <1>10 DEF ReadTake, At
  <2>2. Current.n \in Nat
    BY <1>2, <2>1, AtFacts
  <2>3. at' = at + Current.n
    BY <1>2, <2>1, <2>2, AdvanceBy
  <2>4. CASE place.list = "head"
    <3>1. (place.op = 1 \/ place.op = 3) /\ Current.n = 2
      BY <1>1, <1>2, <2>1, <2>4, StringsOps
    <3>2. place'.op = place.op + 1 /\ place'.list = "head" /\ at = StringsBack(place.op)
      BY <1>4, <1>6, <2>1, <2>4
    <3>3. CASE place.op = 1
      <4>1. at' = StringsBack(2)
        BY <2>3, <3>1, <3>2, <3>3 DEF StringsBack
      <4> QED BY <1>5, <3>2, <3>3, <4>1
    <3>4. CASE place.op = 3
      <4>1. at' = StringsBack(4)
        BY <2>3, <3>1, <3>2, <3>4 DEF StringsBack
      <4> QED BY <1>5, <3>2, <3>4, <4>1
    <3> QED BY <3>1, <3>3, <3>4
  <2>5. CASE place.list # "head"
    <3>1. place.list = "element" /\ place.op = 1 /\ Current.n = 1
      BY <1>1, <1>2, <1>4, <2>1, <2>5, StringsOps
    <3>2. place'.op = 2 /\ place'.list = "element" /\ place'.element = place.element
      BY <1>6, <2>1, <3>1
    <3>3. StringsStart \in Nat
      <4>1. place.element \in 1..Len(script) /\ Total(script, place.element - 1) \in Nat
        BY <1>1, <2>1, <3>1, ElementOfScript
      <4> QED BY <1>2, <4>1 DEF StringsStart
    <3>4. at = StringsStart + 0
      BY <1>4, <2>1, <3>1 DEF StringsInto
    <3>5. at' = StringsStart + StringsInto(2, script[place.element])
      BY <2>3, <3>1, <3>3, <3>4 DEF StringsInto
    <3> QED BY <1>4, <1>18, <1>19, <2>1, <3>1, <3>2, <3>5
  <2> QED BY <2>4, <2>5
<1>11. CASE ReadSeek
  <2>1. At("seek") /\ NextOp /\ Parsing /\ UNCHANGED <<input, counts>> /\ SeekTo(Current.n)
    BY <1>11 DEF ReadSeek, At
  <2>2. place.list = "head" /\ place.op = 6 /\ Current.n = 4
    BY <1>1, <1>2, <1>4, <2>1, StringsOps
  <2>3. at' = 4 /\ place'.op = 7 /\ place'.list = "head" /\ place'.element = place.element
    BY <1>6, <2>1, <2>2 DEF SeekTo
  <2>4. at' = StringsBack(7)
    BY <2>3 DEF StringsBack
  <2>5. StringsFit' /\ elements' = Len(script')
    BY <1>4, <1>19, <2>1, <2>2, <2>3
  <2> QED BY <1>5, <2>3, <2>4, <2>5
<1>12. CASE ReadElements
  <2>1. At("elements") /\ NextOp /\ Parsing /\ UNCHANGED <<input, stream, script>>
    BY <1>12 DEF ReadElements, At
  <2>2. place.list = "head" /\ place.op = 5 /\ Current = Found
    BY <1>1, <1>2, <1>4, <2>1, StringsOps
  <2>3. elements' = Len(script) /\ script' = script /\ at' = at
    BY <1>12, <2>1, <2>2 DEF ReadElements, stream
  <2>4. place'.op = 6 /\ place'.list = "head"
    BY <1>6, <2>1, <2>2
  <2>5. at' = StringsBack(6)
    BY <1>4, <2>1, <2>2, <2>3 DEF StringsBack
  <2>6. StringsFit'
    BY <1>4, <2>1, <2>2 DEF StringsFit, input
  <2> QED BY <1>5, <2>3, <2>4, <2>5, <2>6
<1>13. CASE ReadScan
  <2>1. At("scan") /\ NextOp /\ Parsing /\ UNCHANGED <<input, stream, elements>>
    BY <1>13 DEF ReadScan, At
  <2>2. place.list = "head" /\ place.op = 4 /\ Current.n = 3
    BY <1>1, <1>2, <1>4, <2>1, StringsOps
  <2>3. f.type # "TMPL"
    BY <1>1, StringsShape
  <2>4. 3 * Len(script') + 2 * Total(script', Len(script')) <= Size
    BY <1>13, <2>2, <2>3 DEF ReadScan
  <2>5. at = 4 /\ at' = 4 /\ place'.op = 5 /\ place'.list = "head" /\ TotalSize' = TotalSize
    BY <1>4, <1>6, <2>1, <2>2 DEF stream, input, StringsBack
  <2>6. at + Size = TotalSize
    BY <1>2, <1>3, <2>1, NotSought DEF ParserInv, InStep
  <2>7. script' \in Seq(Nat)
    BY TypesStep DEF ParserTypes
  <2>8. Len(script') \in Nat
    BY <2>7
  <2>9. Total(script', Len(script')) \in Nat
    BY <2>7, <2>8, TotalNat
  <2>10. StringsFit'
    <3>1. PICK n \in Nat, all \in Nat : n = Len(script') /\ all = Total(script', Len(script'))
      BY <2>8, <2>9
    <3>2. 4 + 3 * n + 2 * all <= TotalSize'
      BY <1>2, <2>4, <2>5, <2>6, <3>1
    <3> QED BY <3>1, <3>2 DEF StringsFit
  <2>11. at' = StringsBack(5)
    BY <2>5 DEF StringsBack
  <2> QED BY <1>5, <2>5, <2>10, <2>11
<1>14. CASE ReadText
  <2>1. At("text") /\ NextOp /\ Parsing /\ UNCHANGED <<input, counts>>
    BY <1>14 DEF ReadText, At
  <2>2. place.list = "element" /\ place.op \in {2, 3} /\ Current.string = "c"
    BY <1>1, <1>2, <1>4, <2>1, StringsOps
  <2>3. PICK start \in Nat, this \in Nat : start = StringsStart /\ this = script[place.element]
    <3>1. place.element \in 1..Len(script) /\ Total(script, place.element - 1) \in Nat /\ script[place.element] \in Nat
      BY <1>1, <2>1, <2>2, ElementOfScript
    <3>2. StringsStart \in Nat
      <4>1. PICK e \in Nat, before \in Nat : e = place.element - 1 /\ before = Total(script, place.element - 1)
        BY <1>2, <3>1
      <4>2. 4 + 3 * e + 2 * before \in Nat
        OBVIOUS
      <4> QED BY <4>1, <4>2 DEF StringsStart
    <3> QED BY <3>1, <3>2
  <2>4. Advance(this + 1)
    <3>1. script # <<>>
      <4>1. place.element \in 1..Len(script)
        BY <1>1, <2>1, <2>2, ElementOfScript
      <4> QED BY <4>1
    <3>2. LengthsHere = {this}
      BY <2>3, <3>1 DEF LengthsHere
    <3>3. TextBytes(Current.string, this) = {this + 1}
      BY <2>2 DEF TextBytes
    <3> QED BY <1>14, <3>2, <3>3 DEF ReadText
  <2>5. at' = at + this + 1
    BY <1>2, <2>3, <2>4, AdvanceBy
  <2>6. place'.op = place.op + 1 /\ place'.list = "element" /\ place'.element = place.element
    BY <1>6, <2>1, <2>2
  <2>7. at = start + StringsInto(place.op, this)
    BY <1>4, <2>1, <2>2, <2>3
  <2>8. at' = start + StringsInto(place'.op, this)
    <3>1. CASE place.op = 2
      BY <2>3, <2>5, <2>6, <2>7, <3>1 DEF StringsInto
    <3>2. CASE place.op = 3
      <4>1. at = start + (2 + this) /\ place'.op = 4
        BY <2>6, <2>7, <3>2 DEF StringsInto
      <4>2. at' = start + (3 + 2 * this)
        BY <2>3, <2>5, <4>1
      <4> QED BY <4>1, <4>2 DEF StringsInto
    <3> QED BY <2>2, <3>1, <3>2
  <2>9. place'.op <= 4
    BY <2>2, <2>6
  <2> QED BY <1>4, <1>18, <1>19, <2>1, <2>2, <2>3, <2>6, <2>8, <2>9
<1>15. CASE DecodeRows \/ SpriteDone
  <2>1. mode # "none"
    BY <1>2, <1>15, RowsStep DEF DecodeRows, SpriteDone, input
  <2> QED BY <1>3, <2>1
<1>16. CASE NextPart
  <2>1. Parsing /\ place.part < PartsHere
    BY <1>16 DEF NextPart, Finished
  <2>2. PartsHere = 0
    BY <1>2, <1>3, <2>1 DEF Places, PartsHere
  <2> QED BY <1>2, <2>1, <2>2 DEF Place
<1>17. CASE NextElement
  <2>1. Parsing /\ place.op > Len(Ops) /\ UNCHANGED <<input, stream, counts>>
    BY <1>17 DEF NextElement, Finished
  <2>2. place'.list = "element" /\ place'.op = 1 /\ place'.element = place.element + 1
    BY <1>17 DEF NextElement
  <2>3. TotalSize' = TotalSize /\ elements' = elements /\ script' = script /\ at' = at
    BY <2>1 DEF input, stream, counts
  <2>4. ASSUME StringsFit, elements = Len(script), at = 4 + 3 * place.element + 2 * Total(script, place.element)
        PROVE  StringsPass'
    <3>1. place'.element - 1 = place.element
      BY <1>2, <2>2
    <3>2. StringsStart' = at'
      BY <2>3, <2>4, <3>1 DEF StringsStart
    <3>3. at' = StringsStart' + StringsInto(1, script'[place'.element])
      BY <1>2, <2>3, <3>2 DEF StringsInto
    <3>4. StringsFit' /\ elements' = Len(script')
      BY <2>3, <2>4 DEF StringsFit
    <3> QED BY <1>18, <2>2, <3>3, <3>4
  <2>5. CASE place.list = "head"
    <3>1. Ops = STR3.head
      BY <1>1, <2>5 DEF Ops
    <3>2. place.op = 7
      BY <1>2, <1>4, <2>1, <2>5, <3>1, StringsShape
    <3>3. place.element = 0 /\ at = 4
      BY <1>2, <1>4, <2>1, <2>5, <3>2 DEF Places, StringsBack
    <3>4. Total(script, 0) = 0
      BY <1>2, TotalStep
    <3> QED BY <1>4, <2>1, <2>4, <3>2, <3>3, <3>4
  <2>6. CASE place.list = "element"
    <3>1. Ops = STR3.element
      BY <1>1, <2>6 DEF Ops
    <3>2. place.op = 4
      BY <1>2, <1>4, <2>1, <2>6, <3>1, StringsShape
    <3>3. PICK before \in Nat, this \in Nat : /\ before = Total(script, place.element - 1)
                                              /\ this = script[place.element]
                                              /\ Total(script, place.element) = before + this
      BY <1>1, <2>1, <2>6, ElementOfScript
    <3>4. at = 4 + 3 * (place.element - 1) + 2 * before + (3 + 2 * this)
      BY <1>4, <2>1, <2>6, <3>2, <3>3 DEF StringsStart, StringsInto
    <3>5. at = 4 + 3 * place.element + 2 * (before + this)
      <4>1. PICK e \in Nat : e = place.element
        BY <1>2
      <4>2. 4 + 3 * (e - 1) + 2 * before + (3 + 2 * this) = 4 + 3 * e + 2 * (before + this)
        OBVIOUS
      <4> QED BY <3>4, <4>1, <4>2
    <3>6. at = 4 + 3 * place.element + 2 * Total(script, place.element)
      BY <3>3, <3>5
    <3> QED BY <1>4, <2>1, <2>4, <2>6, <3>6
  <2> QED BY <1>4, <2>1, <2>5, <2>6
<1> QED
  BY <1>7, <1>8, <1>9, <1>10, <1>11, <1>12, <1>13, <1>14, <1>15, <1>16, <1>17 DEF ParserNext

-----------------------------------------------------------------------------
(* Each step keeps the second pass of TMPL where the first said. *)

LEMMA FieldsOps ==
    ASSUME ParserTypes, f = TMPL, place.list # "part", NEW name, At(name)
    PROVE  \/ place.list = "head" /\ place.op = 1 /\ name = "stop"
           \/ place.list = "head" /\ place.op = 2 /\ name = "scan" /\ Current.n = 5
           \/ place.list = "head" /\ place.op = 3 /\ name = "elements" /\ Current = Found
           \/ place.list = "head" /\ place.op = 4 /\ name = "seek" /\ Current.n = 0
           \/ place.list = "element" /\ place.op = 1 /\ name = "text" /\ Current.string = "pascal"
           \/ place.list = "element" /\ place.op = 2 /\ name = "take" /\ Current.n = 4
<1>1. place.op \in 1..Len(Ops) /\ Current.op = name /\ place.list \in {"head", "element"}
  BY AtFacts DEF Place, Lists
<1>2. CASE place.list = "head"
  <2>1. Ops = TMPL.head
    BY <1>2 DEF Ops
  <2>2. place.op \in 1..4
    BY <1>1, <2>1, FieldsShape
  <2>3. place.op = 1 \/ place.op = 2 \/ place.op = 3 \/ place.op = 4
    BY <2>2
  <2> QED BY <1>1, <1>2, <2>1, <2>3, FieldsShape, FoundIs DEF Current, Is
<1>3. CASE place.list = "element"
  <2>1. Ops = TMPL.element
    BY <1>3 DEF Ops
  <2>2. place.op = 1 \/ place.op = 2
    BY <1>1, <2>1, FieldsShape
  <2> QED BY <1>1, <1>3, <2>1, <2>2, FieldsShape DEF Current, Is
<1> QED BY <1>1, <1>2, <1>3

LEMMA FieldsStep == ASSUME ParserInv, ParserNext PROVE FieldsPass'
<1> SUFFICES ASSUME Parsing', f' = TMPL PROVE FieldsPass'
  BY DEF FieldsPass
<1>1. f = TMPL /\ f' = f
  BY SameFormat
<1>2. /\ ParserTypes /\ Places /\ SpriteTypes /\ place \in Place /\ Word \in Nat /\ at \in Nat /\ Size \in Nat
      /\ TotalSize \in Nat /\ script \in Seq(Nat) /\ Len(script) \in Nat /\ place.op \in Nat /\ place.op > 0
      /\ place.element \in Nat
  BY WordAssumption DEF ParserInv, ParserTypes, Place
<1>3. f \notin SpriteFormats /\ f.part = <<>> /\ f.type = "TMPL" /\ mode = "none"
  BY <1>1, <1>2, FieldsShape DEF SpriteTypes
<1>4. ASSUME Parsing
      PROVE  /\ place.list \in {"head", "element"}
             /\ place.list = "head" => at = 0 /\ place.op <= 5
             /\ place.list = "element" \/ place.op > 2 => FieldsFit
             /\ place.list = "element" \/ place.op > 3 => elements = Len(script)
             /\ place.list = "element" =>
                   at = FieldsStart + FieldsInto(place.op, script[place.element]) /\ place.op <= 3
  BY <1>1, <1>2, <1>4 DEF ParserInv, FieldsPass, Place, Lists
<1>5. ASSUME NEW op, place'.list = "head", place'.op = op, op \in Nat, op <= 5, at' = 0,
             op > 2 => FieldsFit', op > 3 => elements' = Len(script')
      PROVE  FieldsPass'
  BY <1>5 DEF FieldsPass
<1>18. ASSUME NEW op, place'.list = "element", place'.op = op, op <= 3, NEW length, script'[place'.element] = length,
              NEW start, start = FieldsStart', at' = start + FieldsInto(op, length), FieldsFit', elements' = Len(script')
       PROVE  FieldsPass'
  BY <1>18 DEF FieldsPass
<1>6. ASSUME NextOp PROVE place'.op = place.op + 1 /\ place'.list = place.list /\ place'.element = place.element
  BY <1>2, <1>6, SkipPlace DEF NextOp
<1>19. ASSUME place'.element = place.element, UNCHANGED <<input, counts>>
       PROVE  /\ FieldsStart' = FieldsStart /\ script'[place'.element] = script[place.element]
              /\ FieldsFit' = FieldsFit /\ elements' = elements /\ script' = script
  BY <1>19 DEF FieldsStart, FieldsFit, input, counts
<1>20. ASSUME Parsing, place.list = "element"
       PROVE  /\ FieldsStart \in Nat /\ script[place.element] \in Nat
              /\ Total(script, place.element) = Total(script, place.element - 1) + script[place.element]
              /\ Total(script, place.element - 1) \in Nat /\ script # <<>>
  <2>1. /\ place.element \in 1..Len(script) /\ Total(script, place.element - 1) \in Nat
        /\ script[place.element] \in Nat
        /\ Total(script, place.element) = Total(script, place.element - 1) + script[place.element]
    BY <1>1, <1>20, ElementOfScript
  <2>2. FieldsStart \in Nat
    <3>1. PICK e \in Nat, before \in Nat : e = place.element - 1 /\ before = Total(script, place.element - 1)
      BY <1>2, <2>1
    <3>2. 5 * e + before \in Nat
      OBVIOUS
    <3> QED BY <3>1, <3>2 DEF FieldsStart
  <2>3. script # <<>>
    BY <2>1
  <2> QED BY <2>1, <2>2, <2>3
<1>7. CASE Fail \/ StopHere \/ Complete
  BY <1>7 DEF Fail, StopHere, Complete, Return, Parsing
<1>8. CASE ReadNeed \/ ReadCheck \/ ReadTable \/ ReadParts \/ ReadPad \/ ReadOffsets \/ ReadWalk \/ ReadSpriteAt
           \/ ReadSpriteHeader \/ ReadRows
  <2>1. PICK name \in {"need", "check", "table", "parts", "pad", "offsets", "walk", "sprite", "header", "rows"} : At(name)
    BY <1>8 DEF ReadNeed, ReadCheck, ReadTable, ReadParts, ReadPad, ReadOffsets, ReadWalk, ReadSpriteAt,
                ReadSpriteHeader, ReadRows
  <2>2. place.list # "part"
    BY <1>4, <2>1 DEF At
  <2> QED BY <1>1, <1>2, <2>1, <2>2, FieldsOps
<1>9. CASE ReadStop
  <2>1. At("stop") /\ NextOp /\ Parsing /\ UNCHANGED <<input, stream, counts>>
    BY <1>9 DEF ReadStop, At
  <2>2. place.list = "head" /\ place.op = 1
    BY <1>1, <1>2, <1>4, <2>1, FieldsOps
  <2>3. at' = 0 /\ place'.op = 2 /\ place'.list = "head"
    BY <1>4, <1>6, <2>1, <2>2 DEF stream
  <2> QED BY <1>5, <2>3
<1>10. CASE ReadTake
  <2>1. At("take") /\ NextOp /\ Parsing /\ UNCHANGED <<input, counts>> /\ Advance(Current.n)
    BY <1>10 DEF ReadTake, At
  <2>2. place.list = "element" /\ place.op = 2 /\ Current.n = 4
    BY <1>1, <1>2, <1>4, <2>1, FieldsOps
  <2>3. at' = at + 4
    BY <1>2, <2>1, <2>2, AdvanceBy
  <2>4. place'.op = 3 /\ place'.list = "element" /\ place'.element = place.element
    BY <1>6, <2>1, <2>2
  <2>5. PICK start \in Nat, this \in Nat : start = FieldsStart /\ this = script[place.element]
    BY <1>20, <2>1, <2>2
  <2>6. at = start + (1 + this)
    BY <1>4, <2>1, <2>2, <2>5 DEF FieldsInto
  <2>7. at' = start + FieldsInto(3, this)
    BY <2>3, <2>5, <2>6 DEF FieldsInto
  <2> QED BY <1>4, <1>18, <1>19, <2>1, <2>2, <2>4, <2>5, <2>7
<1>11. CASE ReadSeek
  <2>1. At("seek") /\ NextOp /\ Parsing /\ UNCHANGED <<input, counts>> /\ SeekTo(Current.n)
    BY <1>11 DEF ReadSeek, At
  <2>2. place.list = "head" /\ place.op = 4 /\ Current.n = 0
    BY <1>1, <1>2, <1>4, <2>1, FieldsOps
  <2>3. at' = 0 /\ place'.op = 5 /\ place'.list = "head" /\ place'.element = place.element
    BY <1>6, <2>1, <2>2 DEF SeekTo
  <2>4. FieldsFit' /\ elements' = Len(script')
    BY <1>4, <1>19, <2>1, <2>2, <2>3
  <2> QED BY <1>5, <2>3, <2>4
<1>12. CASE ReadElements
  <2>1. At("elements") /\ NextOp /\ Parsing /\ UNCHANGED <<input, stream, script>>
    BY <1>12 DEF ReadElements, At
  <2>2. place.list = "head" /\ place.op = 3 /\ Current = Found
    BY <1>1, <1>2, <1>4, <2>1, FieldsOps
  <2>3. elements' = Len(script) /\ script' = script /\ at' = 0
    BY <1>4, <1>12, <2>1, <2>2 DEF ReadElements, stream
  <2>4. place'.op = 4 /\ place'.list = "head"
    BY <1>6, <2>1, <2>2
  <2>5. FieldsFit'
    BY <1>4, <2>1, <2>2 DEF FieldsFit, input
  <2> QED BY <1>5, <2>3, <2>4, <2>5
<1>13. CASE ReadScan
  <2>1. At("scan") /\ NextOp /\ Parsing /\ UNCHANGED <<input, stream, elements>>
    BY <1>13 DEF ReadScan, At
  <2>2. place.list = "head" /\ place.op = 2 /\ Current.n = 5
    BY <1>1, <1>2, <1>4, <2>1, FieldsOps
  <2>3. 5 * Len(script') + 1 * Total(script', Len(script')) = Size
    BY <1>3, <1>13, <2>2 DEF ReadScan
  <2>4. at = 0 /\ at' = 0 /\ place'.op = 3 /\ place'.list = "head" /\ TotalSize' = TotalSize
    BY <1>4, <1>6, <2>1, <2>2 DEF stream, input
  <2>5. at + Size = TotalSize
    BY <1>2, <1>3, <2>1, NotSought DEF ParserInv, InStep
  <2>6. script' \in Seq(Nat)
    BY TypesStep DEF ParserTypes
  <2>7. Len(script') \in Nat
    BY <2>6
  <2>8. Total(script', Len(script')) \in Nat
    BY <2>6, <2>7, TotalNat
  <2>9. FieldsFit'
    <3>1. PICK n \in Nat, all \in Nat : n = Len(script') /\ all = Total(script', Len(script'))
      BY <2>7, <2>8
    <3>2. 5 * n + all = TotalSize'
      BY <1>2, <2>3, <2>4, <2>5, <3>1
    <3> QED BY <3>1, <3>2 DEF FieldsFit
  <2> QED BY <1>5, <2>4, <2>9
<1>14. CASE ReadText
  <2>1. At("text") /\ NextOp /\ Parsing /\ UNCHANGED <<input, counts>>
    BY <1>14 DEF ReadText, At
  <2>2. place.list = "element" /\ place.op = 1 /\ Current.string = "pascal"
    BY <1>1, <1>2, <1>4, <2>1, FieldsOps
  <2>3. PICK start \in Nat, this \in Nat : start = FieldsStart /\ this = script[place.element]
    BY <1>20, <2>1, <2>2
  <2>4. Advance(this + 1)
    <3>1. LengthsHere = {this}
      BY <1>20, <2>1, <2>2, <2>3 DEF LengthsHere
    <3>2. TextBytes(Current.string, this) = {this + 1}
      BY <2>2 DEF TextBytes
    <3> QED BY <1>14, <3>1, <3>2 DEF ReadText
  <2>5. at' = at + this + 1
    BY <1>2, <2>3, <2>4, AdvanceBy
  <2>6. place'.op = 2 /\ place'.list = "element" /\ place'.element = place.element
    BY <1>6, <2>1, <2>2
  <2>7. at = start + 0
    BY <1>4, <2>1, <2>2, <2>3 DEF FieldsInto
  <2>8. at' = start + FieldsInto(2, this)
    BY <2>3, <2>5, <2>7 DEF FieldsInto
  <2> QED BY <1>4, <1>18, <1>19, <2>1, <2>2, <2>3, <2>6, <2>8
<1>15. CASE DecodeRows \/ SpriteDone
  <2>1. mode # "none"
    BY <1>2, <1>15, RowsStep DEF DecodeRows, SpriteDone, input
  <2> QED BY <1>3, <2>1
<1>16. CASE NextPart
  <2>1. Parsing /\ place.part < PartsHere
    BY <1>16 DEF NextPart, Finished
  <2>2. PartsHere = 0
    BY <1>2, <1>3, <2>1 DEF Places, PartsHere
  <2> QED BY <1>2, <2>1, <2>2 DEF Place
<1>17. CASE NextElement
  <2>1. Parsing /\ place.op > Len(Ops) /\ UNCHANGED <<input, stream, counts>>
    BY <1>17 DEF NextElement, Finished
  <2>2. place'.list = "element" /\ place'.op = 1 /\ place'.element = place.element + 1
    BY <1>17 DEF NextElement
  <2>3. TotalSize' = TotalSize /\ elements' = elements /\ script' = script /\ at' = at
    BY <2>1 DEF input, stream, counts
  <2>4. ASSUME FieldsFit, elements = Len(script), at = 5 * place.element + Total(script, place.element)
        PROVE  FieldsPass'
    <3>1. place'.element - 1 = place.element
      BY <1>2, <2>2
    <3>2. FieldsStart' = at'
      BY <2>3, <2>4, <3>1 DEF FieldsStart
    <3>3. at' = FieldsStart' + FieldsInto(1, script'[place'.element])
      BY <1>2, <2>3, <3>2 DEF FieldsInto
    <3>4. FieldsFit' /\ elements' = Len(script')
      BY <2>3, <2>4 DEF FieldsFit
    <3> QED BY <1>18, <2>2, <3>3, <3>4
  <2>5. CASE place.list = "head"
    <3>1. Ops = TMPL.head
      BY <1>1, <2>5 DEF Ops
    <3>2. place.op = 5
      BY <1>2, <1>4, <2>1, <2>5, <3>1, FieldsShape
    <3>3. place.element = 0 /\ at = 0
      BY <1>2, <1>4, <2>1, <2>5 DEF Places
    <3>4. Total(script, 0) = 0
      BY <1>2, TotalStep
    <3> QED BY <1>4, <2>1, <2>4, <3>2, <3>3, <3>4
  <2>6. CASE place.list = "element"
    <3>1. Ops = TMPL.element
      BY <1>1, <2>6 DEF Ops
    <3>2. place.op = 3
      BY <1>2, <1>4, <2>1, <2>6, <3>1, FieldsShape
    <3>3. PICK before \in Nat, this \in Nat : /\ before = Total(script, place.element - 1)
                                              /\ this = script[place.element]
                                              /\ Total(script, place.element) = before + this
      BY <1>20, <2>1, <2>6
    <3>4. at = 5 * (place.element - 1) + before + (5 + this)
      BY <1>4, <2>1, <2>6, <3>2, <3>3 DEF FieldsStart, FieldsInto
    <3>5. at = 5 * place.element + (before + this)
      <4>1. PICK e \in Nat : e = place.element
        BY <1>2
      <4>2. 5 * (e - 1) + before + (5 + this) = 5 * e + (before + this)
        OBVIOUS
      <4> QED BY <3>4, <4>1, <4>2
    <3>6. at = 5 * place.element + Total(script, place.element)
      BY <3>3, <3>5
    <3> QED BY <1>4, <2>1, <2>4, <2>6, <3>6
  <2> QED BY <1>4, <2>1, <2>5, <2>6
<1> QED
  BY <1>7, <1>8, <1>9, <1>10, <1>11, <1>12, <1>13, <1>14, <1>15, <1>16, <1>17 DEF ParserNext

-----------------------------------------------------------------------------
(* Each step keeps the sprites where the walk, or the chunk's end, is. *)

LEMMA SpriteHeadOps ==
    ASSUME ParserTypes, f \in SpriteFormats, place.list = "head", NEW name, At(name)
    PROVE  \/ place.op = 1 /\ name = "take" /\ Current.n = 12
           \/ place.op = 2 /\ name = "check"
           \/ place.op = 3 /\ name = "walk" /\ f \in Walks /\ Current.n = HeaderSize + 8
           \/ place.op = 3 /\ name = "offsets" /\ f \notin Walks
           \/ place.op = 4 /\ name = "elements" /\ Current = Found
<1>1. SpriteShape(f) /\ place.op \in 1..Len(Ops) /\ Current.op = name
  BY SpritesShape, AtFacts
<1>2. Ops = f.head
  BY DEF Ops
<1>3. place.op = 1 \/ place.op = 2 \/ place.op = 3 \/ place.op = 4
  <2>1. Len(Ops) = 4
    BY <1>1, <1>2 DEF SpriteShape
  <2> QED BY <1>1, <2>1
<1>4. CASE place.op = 3
  <2>1. f \in Walks => name = "walk" /\ Current.n = HeaderSize + 8
    BY <1>1, <1>2, <1>4 DEF SpriteShape, Is, HeaderSize, Current
  <2>2. f \notin Walks => name = "offsets"
    BY <1>1, <1>2, <1>4 DEF SpriteShape, Is, HeaderSize, Current
  <2> QED BY <1>4, <2>1, <2>2
<1>5. CASE place.op # 3
  BY <1>1, <1>2, <1>3, <1>5, FoundIs DEF SpriteShape, Is, Current
<1> QED BY <1>4, <1>5

\* The sprite that the walk found, in numbers.
LEMMA WalkHere ==
    ASSUME ParserInv, Parsing, f \in Walks, f \in SpriteFormats, place.list = "element"
    PROVE  /\ script[place.element] \in 0..(Word - 1) /\ NextSpriteOffset + 4 \in Nat
           /\ NextSpriteOffset + 4 + HeaderSize <= TotalSize
           /\ NextSpriteOffset + 4 + script[place.element] <= TotalSize
<1>1. /\ place.element \in 1..Len(script) /\ script[place.element] \in Nat
      /\ Total(script, place.element - 1) \in Nat
      /\ Total(script, place.element) = Total(script, place.element - 1) + script[place.element]
  BY ElementOfScript
<1>2. place.element \in Nat /\ TotalSize \in Nat /\ HeaderSize \in Nat /\ Word \in Nat
  <2>1. SpriteShape(f)
    BY SpritesShape
  <2> QED BY <2>1, WordAssumption DEF ParserInv, ParserTypes, HeaderSize, SpriteShape
<1>3. PICK e \in Nat, before \in Nat, this \in Nat, header \in Nat :
         /\ e = place.element - 1 /\ before = Total(script, place.element - 1)
         /\ this = script[place.element] /\ header = HeaderSize
  BY <1>1, <1>2
<1>4. WalkFits
  BY DEF ParserInv, SpritesPass
<1>5. /\ this < Word /\ 12 + 8 * e + before + header + 8 <= TotalSize
      /\ 12 + 8 * place.element + (before + this) <= TotalSize
  BY <1>1, <1>3, <1>4 DEF WalkFits
<1>6. NextSpriteOffset = 16 + 8 * e + before
  BY <1>3 DEF NextSpriteOffset
<1>7. place.element = e + 1
  BY <1>2, <1>3
<1>8. 12 + 8 * (e + 1) + (before + this) <= TotalSize
  BY <1>5, <1>7
<1>9. /\ 16 + 8 * e + before + 4 \in Nat /\ 16 + 8 * e + before + 4 + header <= TotalSize
      /\ 16 + 8 * e + before + 4 + this <= TotalSize /\ this \in 0..(Word - 1)
  BY <1>2, <1>3, <1>5, <1>8
<1> QED BY <1>3, <1>6, <1>9

LEMMA SpritesStep == ASSUME ParserInv, ParserNext PROVE SpritesPass'
<1> SUFFICES ASSUME Parsing', f' \in SpriteFormats PROVE SpritesPass'
  BY DEF SpritesPass
<1>1. f \in SpriteFormats /\ f' = f /\ TotalSize' = TotalSize /\ SpriteShape(f) /\ HeaderSize' = HeaderSize
  BY SameFormat, SpritesShape DEF HeaderSize
<1>2. /\ ParserTypes /\ Places /\ SpriteTypes /\ place \in Place /\ Word \in Nat /\ at \in Nat /\ Size \in Nat
      /\ Size \in 0..(Word - 1)
      /\ TotalSize \in Nat /\ script \in Seq(Nat) /\ Len(script) \in Nat /\ place.op \in Nat /\ place.op > 0
      /\ place.element \in Nat /\ HeaderSize \in Nat /\ HeaderSize > 0
  BY <1>1, WordAssumption DEF ParserInv, ParserTypes, Place, HeaderSize, SpriteShape
<1>3. f.part = <<>> /\ HeaderSize \in {8, 16}
  BY <1>1 DEF SpriteShape, HeaderSize
<1>4. ASSUME Parsing
      PROVE  /\ place.list \in {"head", "element"}
             /\ place.list = "head" => at = SpritesBack(place.op) /\ place.op <= 5
             /\ (place.list = "element" \/ place.op > 3) /\ f \in Walks => WalkFits
             /\ place.list = "element" \/ place.op > 4 => elements = Len(script)
             /\ place.list = "element" => place.op <= 4
             /\ place.list = "element" /\ mode = "none" /\ place.op = 2 => SpriteFound
             /\ place.list = "element" /\ mode = "none" /\ place.op = 3 => HeaderRead
             /\ mode # "none" /\ (f \in Walks => script[place.element] >= HeaderSize) => end <= TotalSize
  BY <1>1, <1>2, <1>4 DEF ParserInv, SpritesPass, Place, Lists
<1>5. ASSUME NEW op, place'.list = "head", place'.op = op, op \in Nat, op <= 5, at' = SpritesBack(op), mode' = "none",
             op > 3 /\ f \in Walks => WalkFits', op > 4 => elements' = Len(script')
      PROVE  SpritesPass'
  BY <1>1, <1>5 DEF SpritesPass
<1>18. ASSUME place'.list = "element", NEW op, place'.op = op, op <= 4, f \in Walks => WalkFits', elements' = Len(script'),
              mode' = "none" /\ op = 2 => SpriteFound', mode' = "none" /\ op = 3 => HeaderRead',
              mode' # "none" /\ (f \in Walks => script'[place'.element] >= HeaderSize) => end' <= TotalSize
       PROVE  SpritesPass'
  BY <1>1, <1>18 DEF SpritesPass
<1>6. ASSUME NextOp PROVE place'.op = place.op + 1 /\ place'.list = place.list /\ place'.element = place.element
  BY <1>2, <1>6, SkipPlace DEF NextOp
<1>19. ASSUME place'.element = place.element, UNCHANGED <<input, counts>>
       PROVE  /\ NextSpriteOffset' = NextSpriteOffset /\ script'[place'.element] = script[place.element]
              /\ WalkFits' = WalkFits /\ elements' = elements /\ script' = script
  BY <1>1, <1>19 DEF NextSpriteOffset, WalkFits, input, counts
<1>7. CASE Fail \/ StopHere \/ Complete
  BY <1>7 DEF Fail, StopHere, Complete, Return, Parsing
<1>20. ASSUME NEW name, At(name) PROVE Parsing /\ mode = "none" /\ place.list \in {"head", "element"}
  BY <1>4, <1>20 DEF At
<1>21. ASSUME NEW name, At(name), place.list = "element"
       PROVE  /\ Current.n = HeaderSize
              /\ \/ place.op = 1 /\ name = "sprite"
                 \/ place.op = 2 /\ name = "header"
                 \/ place.op = 3 /\ name = "rows"
  BY <1>1, <1>2, <1>21, AtFacts, SpriteOps
<1>8. CASE ReadNeed \/ ReadStop \/ ReadSeek \/ ReadTable \/ ReadParts \/ ReadScan \/ ReadText \/ ReadPad
  <2>1. PICK name \in {"need", "stop", "seek", "table", "parts", "scan", "text", "pad"} : At(name)
    BY <1>8 DEF ReadNeed, ReadStop, ReadSeek, ReadTable, ReadParts, ReadScan, ReadText, ReadPad
  <2> QED BY <1>1, <1>2, <1>20, <1>21, <2>1, SpriteHeadOps
<1>9. CASE ReadTake
  <2>1. At("take") /\ NextOp /\ UNCHANGED spritevars /\ Advance(Current.n)
    BY <1>9 DEF ReadTake
  <2>2. place.list = "head" /\ place.op = 1 /\ Current.n = 12
    BY <1>1, <1>2, <1>20, <1>21, <2>1, SpriteHeadOps
  <2>3. at' = at + 12
    BY <1>2, <2>1, <2>2, AdvanceBy
  <2>4. at' = SpritesBack(2)
    BY <1>4, <1>20, <2>1, <2>2, <2>3 DEF SpritesBack
  <2> QED BY <1>5, <1>6, <1>20, <2>1, <2>2, <2>4 DEF spritevars
<1>10. CASE ReadCheck
  <2>1. At("check") /\ NextOp /\ UNCHANGED <<spritevars, stream>>
    BY <1>10 DEF ReadCheck
  <2>2. place.list = "head" /\ place.op = 2
    BY <1>1, <1>2, <1>20, <1>21, <2>1, SpriteHeadOps
  <2>3. at' = SpritesBack(3)
    BY <1>4, <1>20, <2>1, <2>2 DEF SpritesBack, stream
  <2> QED BY <1>5, <1>6, <1>20, <2>1, <2>2, <2>3 DEF spritevars
<1>11. CASE ReadOffsets
  <2>1. At("offsets") /\ NextOp /\ UNCHANGED <<spritevars, stream>>
    BY <1>11 DEF ReadOffsets
  <2>2. place.list = "head" /\ place.op = 3 /\ f \notin Walks
    BY <1>1, <1>2, <1>20, <1>21, <2>1, SpriteHeadOps
  <2>3. at' = SpritesBack(4)
    BY <1>4, <1>20, <2>1, <2>2 DEF SpritesBack, stream
  <2> QED BY <1>5, <1>6, <1>20, <2>1, <2>2, <2>3 DEF spritevars
<1>12. CASE ReadWalk
  <2>1. At("walk") /\ NextOp /\ UNCHANGED <<spritevars, stream>>
    BY <1>12 DEF ReadWalk
  <2>2. place.list = "head" /\ place.op = 3 /\ Current.n = HeaderSize + 8
    BY <1>1, <1>2, <1>20, <1>21, <2>1, SpriteHeadOps
  <2>3. at = 12
    BY <1>4, <1>20, <2>1, <2>2 DEF SpritesBack
  <2>4. at' = SpritesBack(4)
    BY <2>1, <2>3 DEF SpritesBack, stream
  <2>5. at + Size = TotalSize
    BY <1>2, <1>20, <2>1, NotSought DEF ParserInv, InStep
  <2>6. script' \in BoundedSeq(SpriteSizes, MaxElements)
        /\ \A i \in 1..Len(script') : Walked(i - 1) >= HeaderSize + 8 /\ Walked(i) >= 0
    BY <1>12, <2>2 DEF ReadWalk
  <2>7. script' \in Seq(Nat) /\ Len(script') \in Nat
    BY TypesStep DEF ParserTypes
  <2>8. \A i \in 1..Len(script') : script'[i] < Word
    <3>1. SpriteSizes \subseteq Nat /\ \A n \in SpriteSizes : n < Word
      BY <1>2, ParserAssumption
    <3> QED BY <2>6, <3>1, BoundedSeqIs
  <2>9. ASSUME NEW i \in 1..Len(script')
        PROVE  /\ 12 + 8 * (i - 1) + Total(script', i - 1) + HeaderSize + 8 <= TotalSize
               /\ 12 + 8 * i + Total(script', i) <= TotalSize
    <3>1. i \in 0..Len(script') /\ i - 1 \in 0..Len(script') /\ i \in Nat
      BY <2>7
    <3>2. PICK before \in Nat, upto \in Nat : before = Total(script', i - 1) /\ upto = Total(script', i)
      BY <2>7, <3>1, TotalNat
    <3>3. Size - 8 * (i - 1) - before >= HeaderSize + 8 /\ Size - 8 * i - upto >= 0
      BY <2>6, <3>2 DEF Walked
    <3>4. 12 + 8 * (i - 1) + before + HeaderSize + 8 <= TotalSize /\ 12 + 8 * i + upto <= TotalSize
      BY <1>2, <2>3, <2>5, <3>1, <3>3
    <3> QED BY <3>2, <3>4
  <2>10. WalkFits'
    BY <1>1, <2>8, <2>9 DEF WalkFits
  <2> QED BY <1>5, <1>6, <1>20, <2>1, <2>2, <2>4, <2>10 DEF spritevars
<1>13. CASE ReadElements
  <2>1. At("elements") /\ NextOp /\ UNCHANGED <<input, spritevars, stream, script>>
    BY <1>13 DEF ReadElements
  <2>2. place.list = "head" /\ place.op = 4 /\ Current = Found
    BY <1>1, <1>2, <1>20, <1>21, <2>1, SpriteHeadOps
  <2>3. elements' = Len(script') /\ at' = SpritesBack(5)
    BY <1>4, <1>13, <1>20, <2>1, <2>2 DEF ReadElements, SpritesBack, stream
  <2>4. f \in Walks => WalkFits'
    BY <1>1, <1>4, <1>20, <2>1, <2>2 DEF WalkFits
  <2> QED BY <1>5, <1>6, <1>20, <2>1, <2>2, <2>3, <2>4 DEF spritevars
<1>14. CASE ReadSpriteAt
  <2>1. At("sprite") /\ NextOp /\ UNCHANGED <<input, counts>> /\ mode' = mode
    BY <1>14 DEF ReadSpriteAt
  <2>2. place.list = "element" /\ place.op = 1 /\ Current.n = HeaderSize /\ Parsing /\ mode = "none"
    BY <1>1, <1>2, <1>20, <1>21, <2>1, SpriteHeadOps
  <2>3. place'.list = "element" /\ place'.op = 2 /\ place'.element = place.element
    BY <1>6, <2>1, <2>2
  <2>4. SpriteFound'
    <3>1. CASE f \in Walks
      <4>1. SeekTo(NextSpriteOffset + 4) /\ SpriteSize' = script[place.element]
        BY <1>14, <3>1 DEF ReadSpriteAt, Walks
      <4>2. PICK n \in Nat : n = NextSpriteOffset + 4 /\ n + HeaderSize <= TotalSize
        BY <1>1, <2>2, <3>1, WalkHere
      <4>3. at' = n /\ Size' = TotalSize - n
        BY <1>2, <4>1, <4>2, SeekAt
      <4>4. HeaderSize <= Size'
        BY <1>2, <4>2, <4>3
      <4> QED BY <1>1, <1>19, <2>1, <2>3, <3>1, <4>1, <4>2, <4>3, <4>4 DEF SpriteFound
    <3>2. CASE f \notin Walks
      <4>1. Size' >= Current.n /\ SpriteSize' = Size'
        BY <1>14, <3>2 DEF ReadSpriteAt, Walks
      <4>2. Size' \in Nat
        BY <1>2, TypesStep DEF ParserTypes
      <4>3. HeaderSize <= Size'
        BY <1>2, <2>2, <4>1, <4>2
      <4> QED BY <1>1, <3>2, <4>1, <4>3 DEF SpriteFound
    <3> QED BY <3>1, <3>2
  <2> QED BY <1>4, <1>18, <1>19, <2>1, <2>2, <2>3, <2>4
<1>15. CASE ReadSpriteHeader
  <2>1. At("header") /\ UNCHANGED <<input, counts, mode, SpriteSize>> /\ Advance(Current.n)
    BY <1>15 DEF ReadSpriteHeader
  <2>2. place.list = "element" /\ place.op = 2 /\ Current.n = HeaderSize /\ Parsing /\ mode = "none"
    BY <1>1, <1>2, <1>20, <1>21, <2>1, SpriteHeadOps
  <2>3. place'.list = "element" /\ place'.op \in {3, 4} /\ place'.element = place.element
    <3>1. PICK n \in {1, 2} : Skip(n)
      BY <1>15 DEF ReadSpriteHeader
    <3> QED BY <1>2, <2>2, <3>1, SkipPlace
  <2>4. SpriteFound
    BY <1>4, <2>2
  <2>5. at' = at + HeaderSize /\ Size' = Size - HeaderSize
    BY <1>2, <2>1, <2>2, <2>4, AdvanceBy DEF SpriteFound
  <2>6. HeaderRead'
    <3>1. CASE f \in Walks
      BY <1>1, <1>19, <2>1, <2>3, <2>4, <2>5, <3>1 DEF SpriteFound, HeaderRead
    <3>2. CASE f \notin Walks
      <4>1. SpriteSize' = Size' + HeaderSize
        BY <1>2, <2>1, <2>4, <2>5, <3>2 DEF SpriteFound
      <4> QED BY <1>1, <3>2, <4>1 DEF HeaderRead
    <3> QED BY <3>1, <3>2
  <2> QED BY <1>4, <1>18, <1>19, <2>1, <2>2, <2>3, <2>6
<1>16. CASE ReadRows
  <2>1. At("rows") /\ UNCHANGED <<input, stream, place, counts>> /\ Begin(Sprite, UInt(SpriteSize - Current.n))
    BY <1>16 DEF ReadRows
  <2>2. place.list = "element" /\ place.op = 3 /\ Current.n = HeaderSize /\ Parsing /\ mode = "none"
    BY <1>1, <1>2, <1>20, <1>21, <2>1, SpriteHeadOps
  <2>3. mode' = "rows" /\ end' = at + UInt(SpriteSize - HeaderSize) /\ HeaderRead
    BY <1>4, <2>1, <2>2 DEF Begin
  <2>4. ASSUME f \in Walks, script[place.element] >= HeaderSize PROVE end' <= TotalSize
    <3>1. PICK n \in Nat, this \in 0..(Word - 1) :
             /\ n = NextSpriteOffset + 4 /\ this = script[place.element] /\ n + this <= TotalSize
      BY <1>1, <2>2, <2>4, WalkHere
    <3>2. SpriteSize = this /\ at = n + HeaderSize
      BY <2>3, <2>4, <3>1 DEF HeaderRead
    <3>3. this - HeaderSize \in 0..(Word - 1)
      <4>1. PICK header \in Nat, word \in Nat : header = HeaderSize /\ word = Word
        BY <1>2
      <4>2. this >= header /\ this <= word - 1 /\ this \in Nat
        BY <2>4, <3>1, <4>1
      <4>3. this - header \in 0..(word - 1)
        BY <4>2
      <4> QED BY <4>1, <4>3
    <3>4. end' = n + HeaderSize + (this - HeaderSize)
      BY <2>3, <3>2, <3>3, UIntSame
    <3> QED BY <1>2, <3>1, <3>4
  <2>5. ASSUME f \notin Walks PROVE end' <= TotalSize
    <3>1. SpriteSize - HeaderSize = Size
      BY <1>2, <2>3, <2>5 DEF HeaderRead
    <3>2. end' = at + Size
      BY <1>2, <2>3, <3>1, UIntSame
    <3>3. at + Size = TotalSize
      BY <2>2 DEF ParserInv, InStep, Sought
    <3> QED BY <1>2, <3>2, <3>3
  <2> QED BY <1>4, <1>18, <1>19, <2>1, <2>2, <2>3, <2>4, <2>5
<1>17. CASE DecodeRows
  <2>1. SpriteTypes' /\ end' = end /\ mode # "none" /\ mode' # "none" /\ UNCHANGED <<input, place, counts>>
    BY <1>2, <1>17, RowsStep DEF DecodeRows, input
  <2>2. Parsing /\ place.list = "element" /\ place.op = 3
    BY <1>2, <2>1 DEF SpriteTypes
  <2> QED BY <1>4, <1>18, <1>19, <2>1, <2>2
<1>22. CASE SpriteDone
  <2>1. mode # "none" /\ mode' = "none" /\ NextOp /\ UNCHANGED <<input, counts>>
    BY <1>22 DEF SpriteDone, SpriteReset
  <2>2. Parsing /\ place.list = "element" /\ place.op = 3
    BY <1>2, <2>1 DEF SpriteTypes
  <2> QED BY <1>4, <1>6, <1>18, <1>19, <2>1, <2>2
<1>23. CASE NextPart
  <2>1. Parsing /\ place.part < PartsHere
    BY <1>23 DEF NextPart, Finished
  <2>2. PartsHere = 0
    BY <1>2, <1>3, <2>1 DEF Places, PartsHere
  <2> QED BY <1>2, <2>1, <2>2 DEF Place
<1>24. CASE NextElement
  <2>1. Parsing /\ place.op > Len(Ops) /\ mode = "none" /\ mode' = "none" /\ UNCHANGED <<input, counts>>
    BY <1>24 DEF NextElement, Finished, spritevars
  <2>2. place'.list = "element" /\ place'.op = 1
    BY <1>24 DEF NextElement
  <2>3. place.list = "head" => place.op > 4
    <3>1. place.list = "head" => Len(Ops) = 4
      BY <1>1 DEF SpriteShape, Ops
    <3> QED BY <2>1, <3>1
  <2>4. elements = Len(script) /\ (f \in Walks => WalkFits)
    <3>1. place.list = "head" => place.op > 3
      BY <1>2, <2>3
    <3> QED BY <1>4, <2>1, <2>3, <3>1
  <2>5. elements' = Len(script') /\ (f \in Walks => WalkFits')
    BY <1>1, <2>1, <2>4 DEF WalkFits, counts
  <2> QED BY <1>18, <2>1, <2>2, <2>5
<1> QED
  BY <1>7, <1>8, <1>9, <1>10, <1>11, <1>12, <1>13, <1>14, <1>15, <1>16, <1>17, <1>22, <1>23, <1>24 DEF ParserNext

-----------------------------------------------------------------------------
(* The parser, from chunk to chunk. *)

LEMMA ParserStep == ASSUME ParserInv, ParserNext PROVE ParserInv'
BY TypesStep, PlacesStep, BlocksStep, SpriteStep, InStepStep, StringsStep, FieldsStep, SpritesStep DEF ParserInv

\* The rest of the program keeps what the parser has left.
LEMMA ParserFrame == ASSUME ParserInv, UNCHANGED parsevars PROVE ParserInv'
<1> USE DEF parsevars, input, stream, counts, spritevars, Parsing
<1>1. ParserTypes' /\ Places' /\ BlocksReached'
  BY DEF ParserInv, ParserTypes, Places, BlocksReached, PartsHere
<1>2. SpriteTypes'
  BY DEF ParserInv, SpriteTypes, RowsAccounted, PixelsInside
<1>3. InStep'
  BY DEF ParserInv, InStep, Sought, IsSprite, Ops
<1>4. StringsPass'
  BY DEF ParserInv, StringsPass, StringsFit, StringsStart
<1>5. FieldsPass'
  BY DEF ParserInv, FieldsPass, FieldsFit, FieldsStart
<1>6. SpritesPass'
  BY DEF ParserInv, SpritesPass, WalkFits, HeaderSize, SpriteFound, HeaderRead, NextSpriteOffset
<1> QED BY <1>1, <1>2, <1>3, <1>4, <1>5, <1>6 DEF ParserInv

LEMMA ParserInitInv == ParserInit => ParserInv
<1> SUFFICES ASSUME ParserInit PROVE ParserInv
  OBVIOUS
<1>1. ~Parsing /\ result = "none" /\ place = Start /\ elements = 0 /\ parts = <<>> /\ script = <<>> /\ blocks = {}
  BY DEF ParserInit, Parsing
<1>2. ParserTypes
  <2>1. f \in AllFormats
    BY DEF ParserInit, AllFormats
  <2> QED BY <1>1, <2>1, WordAssumption, ParserAssumption DEF ParserTypes, ParserInit, Start, Lists
<1>3. Places
  BY <1>1, ParserAssumption DEF Places, Start, PartsHere
<1>4. BlocksReached
  BY <1>1 DEF BlocksReached
<1>5. SpriteTypes
  BY <1>1, WordAssumption DEF SpriteTypes, ParserInit, SpriteInit, NoSprite, RowsAccounted, PixelsInside
<1>6. InStep /\ StringsPass /\ FieldsPass /\ SpritesPass
  BY <1>1 DEF InStep, StringsPass, FieldsPass, SpritesPass
<1> QED BY <1>2, <1>3, <1>4, <1>5, <1>6 DEF ParserInv

\* A parser begins with its bytes before it.
LEMMA ChunkStep ==
    ASSUME ParserInv, result = "none", NEW format \in Formats, NEW size \in Sizes, ParseChunk(format, size)
    PROVE  ParserInv'
<1>1. /\ f' = format /\ format \in AllFormats /\ TotalSize' = size /\ Size' = size /\ at' = 0 /\ place' = Start
      /\ elements' = 0 /\ parts' = <<>> /\ script' = <<>> /\ size \in 0..(Word - 1)
      /\ UNCHANGED spritevars /\ mode = "none" /\ ~Parsing
      /\ result' \in {"parsing", "failed"} /\ blocks' \subseteq {<<>>}
      /\ result' = "parsing" => size >= format.min
      /\ result' = "failed" => blocks' = {}
  BY ParserAssumption, KnownAssumption DEF ParseChunk, ParserInv, SpriteTypes, Parsing
<1>2. format.min \in Nat /\ Word \in Nat /\ size \in Nat
  BY <1>1, FormatsWellFormed, WordAssumption DEF WellFormed
<1>3. place'.list = "head" /\ place'.op = 1 /\ place'.element = 0 /\ place'.part = 0
  BY <1>1 DEF Start
<1>4. ParserTypes'
  BY <1>1, <1>2, ParserAssumption DEF ParserTypes, Start, Lists
<1>5. Places'
  BY <1>1, <1>3, ParserAssumption DEF Places, PartsHere
<1>6. BlocksReached'
  BY <1>1, LengthsOfBlocks DEF BlocksReached
<1>7. SpriteTypes'
  BY <1>1 DEF ParserInv, SpriteTypes, RowsAccounted, PixelsInside, spritevars
<1>8. InStep'
  BY <1>1, <1>2, <1>3 DEF InStep, Sought, Parsing
<1>9. StringsPass' /\ FieldsPass'
  BY <1>1, <1>3 DEF StringsPass, FieldsPass, StringsBack
<1>10. SpritesPass'
  BY <1>1, <1>3 DEF SpritesPass, SpritesBack, spritevars
<1> QED BY <1>4, <1>5, <1>6, <1>7, <1>8, <1>9, <1>10 DEF ParserInv

-----------------------------------------------------------------------------
(* Each step of the file and of the tools keeps FileInv. *)

LEMMA InitIInv == Init => IInv
<1> SUFFICES ASSUME Init PROVE IInv
  OBVIOUS
<1>1. ParserInv /\ result = "none" /\ elements = 0 /\ blocks = {}
  BY ParserInitInv DEF Init, ParserInit
<1>2. Chunks = <<>> /\ ChunkCount = 0
  BY DEF Init, ChunkCount
<1>3. FileTypes
  BY <1>2 DEF Init, FileTypes, Labels
<1>4. Stages
  BY <1>1, <1>2 DEF Init, Stages, Parsing
<1>5. Pointers /\ DataFreed
  BY <1>2 DEF Pointers, DataFreed
<1>6. Pictures /\ Holds
  BY <1>1 DEF Init, Pictures, Holds
<1> QED BY <1>1, <1>3, <1>4, <1>5, <1>6 DEF IInv, FileInv

\* A step that adds no chunk.
LEMMA SameChunks ==
    ASSUME FileInv, Chunks' = Chunks,
           pc \in {"delete", "done"} => pc' \in {"delete", "done"}
    PROVE  Pointers' /\ ChunkCount' = ChunkCount /\ ChunkCount \in Nat
BY DEF FileInv, FileTypes, Pointers, PointersOf, Ended, ChunkCount

\* The memory of WritePNG is none of main's.
LEMMA PngApart == {"IFFData", "Chunks", "page"} \cap PngMemory = {}
BY DEF PngMemory, PngSteps

\* An error is where the program ends, or deletes the file.
LEMMA ErrorEnds ==
    ASSUME IInv, Error, pc \in {"create", "header", "chunks", "output", "export"}
    PROVE  pc' \in {"delete", "done"} /\ UNCHANGED parsevars /\ (tool' = tool => Holds')
<1>1. Holds /\ Stages /\ BlocksReached
  BY DEF IInv, FileInv, ParserInv
<1>2. UNCHANGED parsevars /\ blocks' = blocks
  BY DEF Error, Goto, parsevars
<1>3. CASE tool = "iffexport" /\ "Chunks" \in held
  BY <1>1, <1>2, <1>3 DEF Error, Goto, Holds
<1>4. CASE ~(tool = "iffexport" /\ "Chunks" \in held)
  <2>1. pc' = "done" /\ held' = IF tool = "iffexport" THEN {} ELSE held
    BY <1>4 DEF Error, Goto
  <2>2. "Chunks" \notin held' => blocks = {}
    <3>1. pc = "create" => blocks = {}
      BY <1>1 DEF Stages, BlocksReached
    <3>2. pc # "create" => tool # "iffexport" /\ "Chunks" \in held
      BY <1>1, <1>4 DEF Stages, Holds
    <3> QED BY <2>1, <3>1, <3>2
  <2> QED BY <1>1, <1>2, <2>1, <2>2 DEF Holds
<1> QED BY <1>3, <1>4

\* The steps that leave the parser alone, its chunk among them.
Resting == \/ Open \/ NotOpened \/ Create \/ NotCreated \/ ReadHeader \/ NoHeader
           \/ ReadChunk \/ BadChunk \/ Enumerated \/ ParsedAll \/ OpenPage \/ NoPage
           \/ ShowChunk \/ ShowBitmap \/ SpritesShown \/ PngStep \/ WritePNG \/ EndPage
           \/ Export \/ NotExported \/ Exported

LEMMA RestingKeeps == ASSUME Resting PROVE UNCHANGED parsevars
<1> USE DEF Goto, Error
<1>1. CASE Open \/ NotOpened \/ Create \/ NotCreated \/ ReadHeader \/ NoHeader
  BY <1>1 DEF Open, NotOpened, Create, NotCreated, ReadHeader, NoHeader
<1>2. CASE ReadChunk \/ BadChunk \/ Enumerated \/ ParsedAll \/ OpenPage \/ NoPage
  BY <1>2 DEF ReadChunk, BadChunk, Enumerated, ParsedAll, OpenPage, NoPage
<1>3. CASE ShowChunk \/ ShowBitmap \/ SpritesShown \/ PngStep \/ WritePNG \/ EndPage
  BY <1>3 DEF ShowChunk, ShowBitmap, SpritesShown, PngStep, WritePNG, EndPage
<1>4. CASE Export \/ NotExported \/ Exported
  BY <1>4 DEF Export, NotExported, Exported
<1> QED BY <1>1, <1>2, <1>3, <1>4 DEF Resting

\* The array of chunks, in this step and the next.
LEMMA ChunksStep ==
    ASSUME IInv, Next
    PROVE  /\ Allocated' \in Nat /\ Chunks' \in Seq(ChunkRecords) /\ ChunkCount' \in Nat
           /\ ChunkCount' <= Allocated' /\ Pointers'
<1>1. /\ Allocated \in Nat /\ Chunks \in Seq(ChunkRecords) /\ ChunkCount \in Nat /\ ChunkCount <= Allocated
      /\ Pointers /\ Stages
  BY DEF IInv, FileInv, FileTypes, ChunkCount
<1>2. ASSUME Chunks' = Chunks, Allocated' = Allocated, pc \in {"delete", "done"} => pc' \in {"delete", "done"}
      PROVE  /\ Allocated' \in Nat /\ Chunks' \in Seq(ChunkRecords) /\ ChunkCount' \in Nat
             /\ ChunkCount' <= Allocated' /\ Pointers'
  BY <1>1, <1>2, SameChunks DEF ChunkCount, IInv
<1>3. ASSUME NEW c \in ChunkRecords, Chunks' = Append(Chunks, c)
      PROVE  /\ Chunks' \in Seq(ChunkRecords) /\ ChunkCount' = ChunkCount + 1
             /\ \A i \in 1..ChunkCount : Chunks'[i] = Chunks[i]
             /\ Chunks'[ChunkCount + 1] = c
  BY <1>1, <1>3 DEF ChunkCount
<1>4. /\ Fresh \in ChunkRecords /\ Fresh.Data \in {"NULL", "garbage"}
      /\ Fresh.FormattedData = Fresh.Data /\ (Fresh.Data = "garbage" => ChunkCount > 0)
  BY <1>1 DEF Fresh, ChunkRecords
<1>5. Allocated > 0 => Grown \in Nat /\ ChunkCount + 1 <= Grown
  BY <1>1 DEF Grown
<1>6. CASE Open \/ NotOpened \/ NotCreated \/ ReadHeader \/ NoHeader \/ Enumerated \/ OpenPage \/ NoPage
  BY <1>2, <1>6 DEF Open, NotOpened, NotCreated, ReadHeader, NoHeader, Enumerated, OpenPage, NoPage
<1>7. CASE ShowChunk \/ ShowBitmap \/ ShowSprite \/ SpritesShown \/ PngStep \/ WritePNG \/ EndPage
  BY <1>2, <1>7 DEF ShowChunk, Showing, ShowBitmap, ShowSprite, SpritesShown, PngStep, WritingPng, WritePNG, EndPage
<1>8. CASE Export \/ NotExported \/ Exported \/ ParseFirst \/ Parse
  BY <1>2, <1>8 DEF Export, NotExported, Exported, ParseFirst, Parse, filevars
<1>9. CASE Create
  <2>1. ChunkCount = 0 /\ Chunks' = Chunks /\ Allocated' = 1 /\ pc = "create"
    BY <1>1, <1>9 DEF Create, Stages, ChunkCount
  <2> QED BY <1>1, <2>1, SameChunks DEF ChunkCount, IInv
<1>14. ASSUME NEW c \in ChunkRecords, Chunks' = Append(Chunks, c), Allocated' = Grown, pc = "chunks",
              PointersOf(c, ChunkCount + 1, ChunkCount + 1, Ended')
       PROVE  /\ Allocated' \in Nat /\ Chunks' \in Seq(ChunkRecords) /\ ChunkCount' \in Nat
              /\ ChunkCount' <= Allocated' /\ Pointers'
  <2>1. /\ ChunkCount' = ChunkCount + 1 /\ Chunks'[ChunkCount + 1] = c
        /\ \A i \in 1..ChunkCount : Chunks'[i] = Chunks[i]
    BY <1>3, <1>14
  <2>2. Pointers'
    <3> SUFFICES ASSUME NEW i \in 1..ChunkCount' PROVE PointersOf(Chunks'[i], i, ChunkCount', Ended')
      BY DEF Pointers
    <3>1. CASE i = ChunkCount + 1
      BY <1>14, <2>1, <3>1 DEF PointersOf
    <3>2. CASE i # ChunkCount + 1
      <4>1. i \in 1..ChunkCount /\ Chunks'[i] = Chunks[i]
        BY <1>1, <2>1, <3>2
      <4> QED BY <1>1, <1>14, <4>1 DEF Pointers, PointersOf, Ended
    <3> QED BY <3>1, <3>2
  <2> QED BY <1>1, <1>3, <1>5, <1>14, <2>1, <2>2 DEF Stages
<1>15. ASSUME NEW type \in Types, NEW size \in {"zero", "positive"}
       PROVE  /\ Added(type, size) \in ChunkRecords /\ Added(type, size).Size = size
              /\ Added(type, size).Data = Fresh.Data /\ Added(type, size).FormattedData = Fresh.Data
  BY <1>4 DEF Added, Types, ChunkRecords
<1>10. CASE ReadChunk
  <2>1. PICK type \in Types, size \in {"zero", "positive"} :
           Chunks' = Append(Chunks, [Added(type, size) EXCEPT !.FormattedData = "NULL",
                                     !.Data = IF size = "zero" THEN @ ELSE "data"])
    BY <1>10 DEF ReadChunk
  <2> DEFINE c == [Added(type, size) EXCEPT !.FormattedData = "NULL",
                   !.Data = IF size = "zero" THEN @ ELSE "data"]
  <2>2. /\ c \in ChunkRecords /\ c.FormattedData = "NULL" /\ c.Size = size
        /\ c.Data = IF size = "zero" THEN Fresh.Data ELSE "data"
    BY <1>4, <1>15 DEF ChunkRecords
  <2>3. Allocated' = Grown /\ pc = "chunks"
    BY <1>10 DEF ReadChunk
  <2>4. Chunks' = Append(Chunks, c)
    BY <2>1
  <2> HIDE DEF c
  <2>5. PointersOf(c, ChunkCount + 1, ChunkCount + 1, Ended')
    BY <1>1, <1>3, <1>4, <2>2, <2>4 DEF PointersOf, Unset, Ended
  <2> QED BY <1>14, <2>2, <2>3, <2>4, <2>5
<1>11. CASE BadChunk
  <2>1. pc = "chunks" /\ pc' \in {"delete", "done"}
    BY <1>1, <1>11, ErrorEnds DEF BadChunk
  <2>2. CASE UNCHANGED <<Allocated, Chunks>>
    BY <1>2, <2>1, <2>2
  <2>3. CASE /\ Allocated' = Grown
             /\ \E type \in Types :
                   \/ Chunks' = Append(Chunks, Fresh)
                   \/ \E size \in {"zero", "positive"} : Chunks' = Append(Chunks, Added(type, size))
                   \/ Chunks' = Append(Chunks, [Added(type, "positive") EXCEPT !.Data = "NULL"])
    <3>1. ASSUME NEW type \in Types
          PROVE  LET c == [Added(type, "positive") EXCEPT !.Data = "NULL"]
                 IN c \in ChunkRecords /\ c.FormattedData = Fresh.Data /\ c.Data = "NULL"
      BY <1>4, <1>15 DEF ChunkRecords
    <3>2. PICK c \in ChunkRecords : /\ Chunks' = Append(Chunks, c) /\ c.FormattedData = Fresh.Data
                                    /\ c.Data \in {"NULL", Fresh.Data}
      BY <1>4, <1>15, <2>3, <3>1
    <3>3. ChunkCount' = ChunkCount + 1
      BY <1>3, <3>2
    <3>4. PointersOf(c, ChunkCount + 1, ChunkCount + 1, Ended')
      BY <1>1, <1>4, <2>1, <3>2, <3>3 DEF PointersOf, Unset, Ended
    <3> QED BY <1>14, <2>1, <2>3, <3>2, <3>4
  <2> QED BY <1>11, <2>2, <2>3 DEF BadChunk
<1>12. CASE ParsedAll
  <2>1. /\ Chunks' = [i \in 1..ChunkCount |-> Formatted(Chunks[i])]
        /\ Allocated' = Allocated /\ pc = "parse"
    BY <1>12 DEF ParsedAll
  <2>2. \A c \in ChunkRecords : /\ Formatted(c) \in ChunkRecords
                                /\ Formatted(c).Data = c.Data /\ Formatted(c).Size = c.Size
                                /\ Formatted(c).FormattedData \in {"made", c.FormattedData}
    BY DEF Formatted, ChunkRecords
  <2>3. \A i \in 1..ChunkCount : Chunks[i] \in ChunkRecords
    BY <1>1 DEF ChunkCount
  <2>4. Chunks' \in Seq(ChunkRecords) /\ ChunkCount' = ChunkCount
    BY <1>1, <2>1, <2>2, <2>3 DEF ChunkCount
  <2>5. Pointers'
    BY <1>1, <2>1, <2>2, <2>3, <2>4 DEF Pointers, PointersOf, Unset, Ended
  <2> QED BY <1>1, <2>1, <2>4, <2>5
<1>13. CASE Delete
  <2>1. PICK matches \in BOOLEAN : Chunks' = [i \in 1..ChunkCount |-> Deleted(Chunks[i], matches)]
    BY <1>13 DEF Delete
  <2>2. ASSUME NEW c \in ChunkRecords
        PROVE  LET d == Deleted(c, matches)
               IN /\ d \in ChunkRecords /\ d.Size = c.Size
                  /\ Unset(d.Data) <=> Unset(c.Data)
                  /\ Unset(d.FormattedData) <=> Unset(c.FormattedData)
    <3> DEFINE d == Deleted(c, matches)
    <3>1. /\ d = [Type |-> c.Type, Size |-> c.Size, Data |-> d.Data, FormattedData |-> d.FormattedData]
          /\ d.Size = c.Size /\ d.Type = c.Type /\ d.Data = Released(c.Data)
          /\ d.FormattedData \in {c.FormattedData, Released(c.FormattedData)}
      <4>1. c = [Type |-> c.Type, Size |-> c.Size, Data |-> c.Data, FormattedData |-> c.FormattedData]
        BY DEF ChunkRecords
      <4>2. \E new \in {c.FormattedData, Released(c.FormattedData)} :
               d = [c EXCEPT !.Data = Released(@), !.FormattedData = new]
        BY DEF Deleted
      <4>3. PICK new \in {c.FormattedData, Released(c.FormattedData)} :
               d = [c EXCEPT !.Data = Released(@), !.FormattedData = new]
        BY <4>2
      <4> HIDE DEF d
      <4>4. d = [Type |-> c.Type, Size |-> c.Size, Data |-> Released(c.Data), FormattedData |-> new]
        BY <4>1, <4>3
      <4> QED BY <4>3, <4>4
    <3>2. /\ Released(c.Data) \in {"NULL", "wild", "freed"}
          /\ Released(c.FormattedData) \in {"NULL", "wild", "freed"}
          /\ Unset(Released(c.Data)) <=> Unset(c.Data)
          /\ Unset(Released(c.FormattedData)) <=> Unset(c.FormattedData)
      BY DEF Released, Unset
    <3> HIDE DEF d
    <3> QED BY <3>1, <3>2 DEF ChunkRecords, d
  <2>3. \A i \in 1..ChunkCount : Chunks[i] \in ChunkRecords
    BY <1>1 DEF ChunkCount
  <2>4. Chunks' \in Seq(ChunkRecords) /\ ChunkCount' = ChunkCount
    BY <1>1, <2>1, <2>2, <2>3 DEF ChunkCount
  <2>5. pc' = "done" /\ Allocated' = Allocated /\ pc = "delete"
    BY <1>13 DEF Delete
  <2>6. Pointers'
    BY <1>1, <2>1, <2>2, <2>3, <2>4, <2>5 DEF Pointers, PointersOf, Ended
  <2> QED BY <1>1, <2>4, <2>5, <2>6
<1> QED BY <1>6, <1>7, <1>8, <1>9, <1>10, <1>11, <1>12, <1>13 DEF Next

\* The data of the chunks is freed when the file is deleted, and otherwise only
\* iff2html ends, with the file undeleted.
LEMMA DataFreedStep == ASSUME IInv, Next PROVE DataFreed'
<1>1. Stages /\ Holds /\ DataFreed /\ Chunks \in Seq(ChunkRecords)
  BY DEF IInv, FileInv, FileTypes
<1>2. CASE NotOpened \/ NotCreated
  <2>1. Chunks' = <<>>
    BY <1>1, <1>2 DEF NotOpened, NotCreated, Stages
  <2> QED BY <2>1 DEF DataFreed, ChunkCount
<1>3. CASE NoHeader \/ BadChunk \/ NoPage \/ NotExported
  <2>1. Error /\ "Chunks" \in held
    BY <1>1, <1>3 DEF NoHeader, BadChunk, NoPage, NotExported, Holds
  <2>2. pc' = "delete" \/ "Chunks" \in held'
    <3>1. CASE tool = "iffexport"
      BY <2>1, <3>1 DEF Error, Goto
    <3>2. CASE tool # "iffexport"
      BY <2>1, <3>2 DEF Error, Goto
    <3> QED BY <3>1, <3>2
  <2> QED BY <2>2 DEF DataFreed
<1>4. CASE Delete
  <2>1. PICK matches \in BOOLEAN : Chunks' = [i \in 1..ChunkCount |-> Deleted(Chunks[i], matches)]
    BY <1>4 DEF Delete
  <2>2. \A i \in 1..ChunkCount : Chunks[i] \in ChunkRecords
    BY <1>1 DEF ChunkCount
  <2>3. ChunkCount' = ChunkCount
    BY <1>1, <2>1 DEF ChunkCount
  <2>5. \A c \in ChunkRecords :
           Deleted(c, matches).Data # "data" /\ Deleted(c, matches).FormattedData # "made"
    BY DEF Deleted, Released, ChunkRecords
  <2> QED BY <2>1, <2>2, <2>3, <2>5 DEF DataFreed
<1>5. CASE Open \/ Create \/ ReadHeader \/ ReadChunk \/ Enumerated \/ ParseFirst \/ Parse \/ ParsedAll
  BY <1>5 DEF Open, Create, ReadHeader, ReadChunk, Enumerated, ParseFirst, Parse, ParsedAll, filevars,
              Goto, DataFreed
<1>6. CASE \/ OpenPage \/ ShowChunk \/ ShowBitmap \/ ShowSprite \/ SpritesShown \/ PngStep \/ WritePNG
           \/ EndPage \/ Export \/ Exported
  BY <1>6 DEF OpenPage, ShowChunk, Showing, ShowBitmap, ShowSprite, SpritesShown, PngStep, WritePNG,
              WritingPng, EndPage, Export, Exported, Goto, DataFreed
<1> QED BY <1>2, <1>3, <1>4, <1>5, <1>6 DEF Next

\* What the programs hold.
LEMMA HoldsStep == ASSUME IInv, Next PROVE Holds' /\ tool' = tool /\ tool \in {"iffexport", "iff2html"}
<1>1. Holds /\ Stages /\ pc \in Labels /\ tool \in {"iffexport", "iff2html"} /\ BlocksReached
  BY DEF IInv, FileInv, FileTypes, ParserInv
<1>2. "IFFData" \notin PngMemory /\ "Chunks" \notin PngMemory /\ "page" \notin PngMemory
  BY PngApart
<1>3. \A i \in 1..5 : PngSteps[i] \in PngMemory
  BY DEF PngMemory
<1>4. "Image_Data" \in PngMemory
  BY DEF PngMemory, PngSteps
<1>5. result = "none" => blocks = {}
  BY <1>1 DEF BlocksReached
<1>6. CASE Open
  BY <1>1, <1>2, <1>6 DEF Open, Goto, Holds
<1>7. CASE NotOpened
  <2>1. blocks' = {} /\ pc' = "done" /\ tool' = tool
    BY <1>1, <1>5, <1>7 DEF NotOpened, Goto, Stages, parsevars
  <2>2. held' = {} \/ (tool = "iff2html" /\ held' = {"IFFData"})
    BY <1>7 DEF NotOpened
  <2> QED BY <1>1, <1>2, <2>1, <2>2 DEF Holds
<1>8. CASE Create
  BY <1>1, <1>2, <1>8 DEF Create, Goto, Holds
<1>9. CASE NotCreated \/ NoHeader \/ BadChunk \/ NoPage \/ NotExported
  BY <1>1, <1>9, ErrorEnds DEF NotCreated, NoHeader, BadChunk, NoPage, NotExported
<1>10. CASE ReadHeader \/ Enumerated
  BY <1>1, <1>10 DEF ReadHeader, Enumerated, Goto, Holds
<1>11. CASE ReadChunk \/ ParsedAll \/ ShowChunk \/ SpritesShown \/ Export
  BY <1>1, <1>11 DEF ReadChunk, ParsedAll, ShowChunk, Showing, SpritesShown, Export, Goto, Holds
<1>12. CASE OpenPage
  BY <1>1, <1>2, <1>12 DEF OpenPage, Goto, Holds
<1>13. CASE ShowBitmap
  BY <1>1, <1>4, <1>13 DEF ShowBitmap, Showing, Goto, Holds
<1>14. CASE ShowSprite
  BY <1>1, <1>14 DEF ShowSprite, Holds
<1>15. CASE PngStep
  <2>1. PICK i \in 1..5 : held' = held \cup {PngSteps[i]}
    BY <1>15 DEF PngStep
  <2>2. PngSteps[i] \in PngMemory
    BY <1>3
  <2> QED BY <1>1, <1>15, <2>1, <2>2 DEF PngStep, WritingPng, Holds
<1>16. CASE WritePNG
  BY <1>1, <1>2, <1>16 DEF WritePNG, WritingPng, Goto, Holds
<1>17. CASE EndPage \/ Exported
  BY <1>1, <1>17 DEF EndPage, Exported, Goto, Holds
<1>18. CASE ParseFirst \/ Parse
  BY <1>1, <1>18 DEF ParseFirst, Parse, filevars, Holds
<1>19. CASE Delete
  <2>1. blocks' = {} /\ held' = {} /\ tool' = tool /\ pc' = "done"
    BY <1>1, <1>19, ReachedAll DEF Delete
  <2> QED BY <1>1, <2>1 DEF Holds
<1> QED
  BY <1>6, <1>7, <1>8, <1>9, <1>10, <1>11, <1>12, <1>13, <1>14, <1>15, <1>16, <1>17, <1>18, <1>19 DEF Next

\* Where the programs are, and how far they are.
LEMMA StagesStep == ASSUME IInv, Next PROVE Stages' /\ chunk' \in Nat /\ pc' \in Labels
<1>1. /\ Stages /\ pc \in Labels /\ chunk \in Nat /\ ChunkCount \in Nat
      /\ tool \in {"iffexport", "iff2html"} /\ tool' = tool /\ ChunkCount' \in Nat
  BY HoldsStep, ChunksStep DEF IInv, FileInv, FileTypes, ChunkCount
<1>2. ASSUME UNCHANGED parsevars PROVE result' = result /\ Parsing' = Parsing
  BY <1>2 DEF parsevars, Parsing
<1>3. Chunks' = Chunks => ChunkCount' = ChunkCount
  BY DEF ChunkCount
<1>4. Chunks = <<>> => ChunkCount = 0
  BY DEF ChunkCount
<1> USE <1>1, <1>2, <1>3, <1>4 DEF Goto, Stages, Labels
<1>5. CASE Open \/ NotOpened
  BY <1>5 DEF Open, NotOpened
<1>6. CASE Create
  BY <1>6 DEF Create
<1>7. CASE ReadHeader
  BY <1>7 DEF ReadHeader
<1>8. CASE NotCreated \/ NoHeader \/ BadChunk \/ NoPage \/ NotExported
  <2>1. pc' \in {"delete", "done"} /\ UNCHANGED parsevars /\ ~Parsing /\ chunk' = chunk
    BY <1>8, ErrorEnds DEF NotCreated, NoHeader, BadChunk, NoPage, NotExported
  <2>2. chunk \in 1..(ChunkCount' + 1)
    <3>1. CASE BadChunk
      <4>1. chunk = 1
        BY <3>1 DEF BadChunk
      <4>2. 1 \in 1..(ChunkCount' + 1)
        <5>1. \A n \in Nat : 1 \in 1..(n + 1)
          BY SMT
        <5> QED BY <5>1
      <4> QED BY <4>1, <4>2, Zenon
    <3>2. CASE ~BadChunk
      BY <1>8, <3>2 DEF NotCreated, NoHeader, NoPage, NotExported
    <3> QED BY <3>1, <3>2
  <2>3. pc' # "done" => chunk' \in 1..(ChunkCount' + 1)
    BY <2>1, <2>2, Zenon
  <2>4. ~Parsing' /\ chunk' \in Nat /\ pc' \in Labels
    BY <2>1
  <2>5. Stages'
    <3> HIDE <1>1, <1>2, <1>3, <1>4
    <3> QED BY <2>1, <2>3, <2>4
  <2> QED BY <2>4, <2>5, Zenon
<1>9. CASE ReadChunk
  <2>1. chunk = 1 /\ chunk' = 1 /\ pc = "chunks" /\ pc' = "chunks" /\ UNCHANGED parsevars
    BY <1>9 DEF ReadChunk
  <2>2. Allocated > 0 /\ Allocated' > 0
    <3>1. Allocated > 0 /\ Allocated \in Nat /\ Allocated' = Grown
      BY <1>9, <2>1 DEF ReadChunk, IInv, FileInv, FileTypes
    <3> QED BY <3>1 DEF Grown
  <2>3. \A n \in Nat : 1 \in 1..(n + 1)
    BY SMT
  <2>4. pc' # "done" => chunk' \in 1..(ChunkCount' + 1)
    BY <2>1, <2>3
  <2>5. result' = "none" /\ ~Parsing' /\ chunk' \in Nat /\ pc' \in Labels
    BY <2>1
  <2>6. Stages'
    <3> HIDE <1>1, <1>2, <1>3, <1>4
    <3> QED BY <2>1, <2>2, <2>4, <2>5
  <2> QED BY <2>5, <2>6, Zenon
<1>10. CASE Enumerated
  BY <1>10 DEF Enumerated
<1>11. CASE ParsedAll
  <2>1. ChunkCount' = ChunkCount
    BY <1>11 DEF ParsedAll, ChunkCount
  <2> QED BY <1>11, <2>1 DEF ParsedAll
<1>12. CASE OpenPage
  BY <1>12 DEF OpenPage
<1>13. CASE ShowChunk \/ ShowBitmap
  BY <1>13 DEF ShowChunk, ShowBitmap, Showing
<1>14. CASE ShowSprite
  BY <1>14 DEF ShowSprite, Parsing
<1>15. CASE SpritesShown
  BY <1>15 DEF SpritesShown, IInv, FileInv, Pictures
<1>16. CASE PngStep
  BY <1>16 DEF PngStep, WritingPng
<1>17. CASE WritePNG
  BY <1>17 DEF WritePNG, WritingPng, IInv, FileInv, Pictures
<1>18. CASE EndPage \/ Exported \/ Export
  BY <1>18 DEF EndPage, Exported, Export
<1>19. CASE ParseFirst \/ Parse
  BY <1>19 DEF ParseFirst, Parse, filevars
<1>20. CASE Delete
  BY <1>20 DEF Delete, Parsing
<1> QED
  BY <1>5, <1>6, <1>7, <1>8, <1>9, <1>10, <1>11, <1>12, <1>13, <1>14, <1>15, <1>16, <1>17, <1>18, <1>19, <1>20 DEF Next

\* What has pictures is a chunk of sprites that was parsed.
LEMMA SpritesHere == ASSUME ParserInv, HasPictures PROVE f \in SpriteFormats
<1>1. WellFormed(f)
  BY FormatsWellFormed DEF ParserInv, ParserTypes
<1> QED BY <1>1 DEF HasPictures, WellFormed, IsSprite

LEMMA PicturesStep == ASSUME IInv, Next PROVE Pictures' /\ picture' \in Nat
<1>1. /\ Pictures /\ Stages /\ pc \in Labels /\ chunk \in Nat /\ picture \in Nat /\ ChunkCount \in Nat /\ elements \in Nat
      /\ ParserInv /\ elements' \in Nat
  <2>1. elements' \in Nat
    <3>1. CASE Parse
      BY <3>1, ParserStep DEF Parse, IInv, ParserInv, ParserTypes
    <3>2. CASE ParseFirst
      BY <3>2 DEF ParseFirst, ParseChunk
    <3>3. CASE Resting
      BY <3>3, RestingKeeps DEF parsevars, counts, IInv, ParserInv, ParserTypes
    <3>4. CASE ShowSprite \/ Delete
      BY <3>4 DEF ShowSprite, Delete, counts, IInv, ParserInv, ParserTypes
    <3> QED BY <3>1, <3>2, <3>3, <3>4 DEF Next, Resting
  <2> QED BY <2>1 DEF IInv, FileInv, FileTypes, ChunkCount, ParserInv, ParserTypes
<1>2. ASSUME UNCHANGED parsevars PROVE f' = f /\ elements' = elements
  BY <1>2 DEF parsevars, input, counts
<1>3. Chunks' = Chunks => ChunkCount' = ChunkCount
  BY DEF ChunkCount
<1> USE <1>1, <1>2, <1>3 DEF Goto, Pictures, Labels
<1>4. CASE Open \/ NotOpened \/ Create \/ ReadHeader \/ Enumerated
  BY <1>4 DEF Open, NotOpened, Create, ReadHeader, Enumerated
<1>21. CASE ReadChunk
  <2>1. pc' = pc /\ pc = "chunks" /\ UNCHANGED <<chunk, picture, parsevars>>
    BY <1>21 DEF ReadChunk
  <2> QED BY <2>1
<1>5. CASE NotCreated \/ NoHeader \/ BadChunk \/ NoPage \/ NotExported
  <2>1. pc' \in {"delete", "done"} /\ UNCHANGED parsevars /\ picture = 0 /\ picture' = 0
    BY <1>5, ErrorEnds DEF NotCreated, NoHeader, BadChunk, NoPage, NotExported
  <2> QED BY <2>1
<1>6. CASE ParsedAll \/ OpenPage
  BY <1>6 DEF ParsedAll, OpenPage
<1>7. CASE ShowChunk \/ ShowBitmap
  BY <1>7 DEF ShowChunk, ShowBitmap, Showing
<1>8. CASE ShowSprite
  <2>1. f \in SpriteFormats /\ picture' = picture + 1 /\ picture < elements /\ f' = f /\ elements' = elements
    BY <1>8, SpritesHere DEF ShowSprite, input, counts
  <2>2. pc' \in {"page", "png"} /\ chunk' <= ChunkCount'
    BY <1>8 DEF ShowSprite
  <2> QED BY <2>1, <2>2
<1>9. CASE SpritesShown
  BY <1>9 DEF SpritesShown
<1>10. CASE PngStep
  BY <1>10 DEF PngStep, WritingPng
<1>11. CASE WritePNG
  BY <1>11 DEF WritePNG, WritingPng
<1>12. CASE EndPage \/ Exported \/ Export
  BY <1>12 DEF EndPage, Exported, Export
<1>13. CASE ParseFirst \/ Parse
  BY <1>13 DEF ParseFirst, Parse, filevars
<1>14. CASE Delete
  BY <1>14 DEF Delete, input, counts
<1> QED
  BY <1>4, <1>5, <1>6, <1>7, <1>8, <1>9, <1>10, <1>11, <1>12, <1>13, <1>14, <1>21 DEF Next

\* Between chunks, what the pages show and what the end frees.
LEMMA ParserKept == ASSUME IInv, Next PROVE ParserInv'
<1>1. ParserInv /\ Stages
  BY DEF IInv, FileInv
<1>2. CASE Resting
  BY <1>1, <1>2, RestingKeeps, ParserFrame
<1>3. CASE Parse
  BY <1>1, <1>3, ParserStep DEF Parse
<1>4. CASE ParseFirst
  BY <1>1, <1>4, ChunkStep DEF ParseFirst
<1>5. ASSUME ~Parsing, UNCHANGED <<input, stream, place, counts, result, spritevars>>, BlocksReached'
      PROVE  ParserInv'
  <2> USE DEF input, stream, counts, spritevars, Parsing
  <2>1. ParserTypes' /\ Places'
    BY <1>1, <1>5 DEF ParserInv, ParserTypes, Places, PartsHere
  <2>2. SpriteTypes'
    BY <1>1, <1>5 DEF ParserInv, SpriteTypes, RowsAccounted, PixelsInside
  <2>3. InStep' /\ StringsPass' /\ FieldsPass' /\ SpritesPass'
    BY <1>5 DEF InStep, StringsPass, FieldsPass, SpritesPass
  <2> QED BY <1>5, <2>1, <2>2, <2>3 DEF ParserInv
<1>6. CASE ShowSprite
  <2>1. /\ ~Parsing /\ UNCHANGED <<input, stream, place, counts, result, spritevars>>
        /\ picture' = picture + 1 /\ picture < elements /\ blocks' \subseteq blocks \cup {<<picture', 0, 3>>}
    BY <1>1, <1>6 DEF ShowSprite, Stages, Depalette
  <2>2. f.part = <<>>
    BY <1>1, <1>6, SpritesHere, SpritesShape DEF ShowSprite, SpriteShape
  <2>3. elements \in Nat /\ picture \in Nat /\ BlocksReached /\ Places
    BY <1>1 DEF ParserInv, ParserTypes, IInv, FileInv, FileTypes
  <2>4. result \notin {"none", "failed"}
    BY <2>1, <2>3 DEF Places
  <2>5. f' = f /\ elements' = elements /\ result' = result /\ ~Parsing'
    BY <2>1 DEF input, counts, Parsing
  <2>6. <<picture', 0, 3>>[1] \in Nat /\ <<picture', 0, 3>>[1] <= elements
    BY <2>1, <2>3
  <2>7. \A b \in blocks' : Len(b) = 3 => b[1] \in Nat /\ b[1] <= elements
    BY <2>1, <2>2, <2>3, <2>6 DEF BlocksReached
  <2>8. BlocksReached'
    BY <2>2, <2>4, <2>5, <2>7 DEF BlocksReached
  <2> QED BY <1>5, <2>1, <2>8
<1>7. CASE Delete
  <2>1. ~Parsing /\ UNCHANGED <<input, stream, place, counts, result, spritevars>>
    BY <1>1, <1>7 DEF Delete, Stages
  <2>2. blocks' = {}
    BY <1>1, <1>7, ReachedAll DEF Delete, ParserInv
  <2> QED BY <1>5, <2>1, <2>2 DEF BlocksReached
<1> QED BY <1>2, <1>3, <1>4, <1>6, <1>7 DEF Next, Resting

-----------------------------------------------------------------------------
(* The invariant, and what it shows. *)

LEMMA NextIInv == IInv /\ [Next]_<<filevars, parsevars>> => IInv'
<1>1. ASSUME IInv, Next PROVE IInv'
  <2>1. tool' \in {"iffexport", "iff2html"}
    BY <1>1, HoldsStep
  <2> QED BY <1>1, <2>1, ParserKept, StagesStep, PicturesStep, HoldsStep, ChunksStep, DataFreedStep DEF IInv, FileInv, FileTypes
<1>2. ASSUME IInv, UNCHANGED <<filevars, parsevars>> PROVE IInv'
  <2>1. ParserInv'
    BY <1>2, ParserFrame DEF IInv
  <2>2. UNCHANGED <<tool, pc, Allocated, Chunks, chunk, picture, held>> /\ UNCHANGED <<result, f, elements, blocks>>
    BY <1>2 DEF filevars, parsevars, input, counts
  <2>3. FileTypes' /\ Stages' /\ Pictures' /\ Holds' /\ Pointers' /\ DataFreed'
    BY <1>2, <2>2 DEF IInv, FileInv, FileTypes, Stages, Pictures, Holds, Pointers, PointersOf, Ended, DataFreed,
                      ChunkCount, Parsing
  <2> QED BY <2>1, <2>3 DEF IInv, FileInv
<1> QED BY <1>1, <1>2

LEMMA Invariance == Spec => []IInv
BY InitIInv, NextIInv, PTL DEF Spec

\* The array of chunks has room for every chunk that iff_add_chunk adds, the
\* stream and the sprites keep their ranges, and no loop of a parser or of a page
\* leaves what its count says: iff.c, iffparser.h and iff2html.c.
THEOREM FileTyped == Spec => []TypeOK
<1>1. IInv => TypeOK
  <2> SUFFICES ASSUME IInv PROVE TypeOK
    OBVIOUS
  <2>1. picture \in 0..MaxElements
    BY ParserAssumption DEF IInv, FileInv, FileTypes, Pictures, ParserInv, ParserTypes, Places
  <2>2. ChunkCount <= Allocated /\ (chunk \in 1..(ChunkCount + 1) \/ pc = "done")
    BY DEF IInv, FileInv, FileTypes, Stages
  <2>3. held \subseteq {"IFFData", "Chunks", "page"} \cup PngMemory
    BY DEF IInv, FileInv, Holds
  <2> QED BY <2>1, <2>2, <2>3 DEF TypeOK, IInv, ParserInv, ParserTypes, SpriteTypes, Places
<1> QED BY <1>1, Invariance, PTL

\* No parser of iff/*.c reads past the end of its chunk, whether it has checked
\* for the bytes (b.Size) or leans on a first pass or on the size of a sprite, and
\* no row or pixel is written outside of its sprite: iffparser.h, str.c, tmpl.c, spr.c.
THEOREM ParsersInside == Spec => []StreamInside
<1>1. IInv => StreamInside
  <2> SUFFICES ASSUME IInv PROVE StreamInside
    OBVIOUS
  <2>1. ParserInv /\ ParserTypes /\ SpriteTypes /\ InStep /\ SpritesPass /\ place \in Place
    BY DEF IInv, ParserInv, ParserTypes, Place
  <2>2. ASSUME Parsing, mode = "none", ~At("sprite"), place.op <= Len(Ops) PROVE at + Size = TotalSize
    <3>1. WellFormed(f) /\ place.op \in 1..Len(Ops)
      BY <2>1, <2>2, FormatsWellFormed DEF ParserTypes, Place, Ops, WellFormed, Lists
    <3>2. ~Sought
      <4> SUFFICES ASSUME Sought PROVE FALSE
        OBVIOUS
      <4>1. f \in SpriteFormats /\ place.list = "element" /\ place.op \notin {2, 3}
        BY <3>1 DEF Sought, WellFormed
      <4>2. Current.op = "sprite"
        BY <2>1, <3>1, <4>1, SpriteOps
      <4> QED BY <2>2, <4>2 DEF At
    <3> QED BY <2>1, <2>2, <3>2 DEF InStep
  <2>3. ASSUME mode = "rows", f \in {SPR1001, SPR2_1001} => script[place.element] >= Current.n
        PROVE  end <= TotalSize
    <3>1. Parsing /\ f \in SpriteFormats /\ place.list = "element" /\ place.op = 3
      BY <2>1, <2>3 DEF SpriteTypes
    <3>2. Current.n = HeaderSize
      <4>1. SpriteShape(f)
        BY <3>1, SpritesShape
      <4>2. place.op \in 1..Len(Ops)
        BY <3>1, <4>1 DEF SpriteShape, Ops
      <4> QED BY <2>1, <3>1, <4>2, SpriteOps
    <3> QED BY <2>1, <2>3, <3>1, <3>2 DEF SpritesPass, Walks
  <2>4. RowsAccounted /\ PixelsInside
    BY <2>1 DEF SpriteTypes
  <2> QED BY <2>2, <2>3, <2>4 DEF StreamInside
<1> QED BY <1>1, Invariance, PTL

\* Memory has one owner to the end: what a parser has made is freed when it fails
\* and when the file is deleted, with the data of its chunks, and WritePNG and
\* iffexport leave nothing; iff_delete passes to free, besides, only the pointers
\* without a value of chunks for which realloc made room: the Data of an empty
\* chunk, and both of a last chunk that was not read (iff.c, image.c, iffexport.c).
THEOREM MemoryOwned == Spec => []Owned
<1>1. IInv => Owned
  BY DEF IInv, FileInv, ParserInv, BlocksReached, Stages, Holds, Pointers, PointersOf, Ended, DataFreed,
         Owned, FailedIsFreed
<1> QED BY <1>1, Invariance, PTL
=============================================================================
