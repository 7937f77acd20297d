--------------------------- MODULE VitaboyProofs ---------------------------
(* Proofs about libvitaboy's two programs: for files with any counts and    *)
(* lengths in them, and for characters of any bones, meshes and motions.    *)
EXTENDS Vitaboy, WellFoundedInduction, SequenceTheorems, TLAPS

-----------------------------------------------------------------------------
(* The fields of a file. *)

Groups == {"asset", "groupasset", "podef", "string", "face", "binding", "texture", "blend", "vertex",
           "bone", "motion", "propslist", "prop", "entry", "propslists", "timepropslists",
           "timepropslist", "timeprop"}

AnyField == [kind : {"bytes", "string", "motion"}, size : Nat, of : {"none"}]
            \cup [kind : {"many", "maybe"}, size : Nat, of : Groups]
            \cup {Table(12, "translations"), Table(16, "rotations")}
            \cup [kind : {"frames"}, size : Nat, of : DOMAIN EntrySize, n : Nat]

\* A table, all of which has been passed.
TableRead(t) == /\ t \in DOMAIN EntrySize
                /\ tables[t].offset \in Nat /\ tables[t].count \in Nat
                /\ end < Word => tables[t].offset + EntrySize[t] * tables[t].count <= end

\* The reader is in the table the next field names, as many frames after the
\* first as it has read there.
InTable == seek.table # "none" =>
    /\ vbpc = "fields" /\ todo # << >> /\ Head(todo).kind = "frames" /\ Head(todo).of = seek.table
    /\ seek.frames \in 0..Head(todo).n
    /\ pos = Cut(tables[seek.table].offset + EntrySize[seek.table] * Head(todo).size)
             + EntrySize[seek.table] * (Head(todo).n - seek.frames)

FileInv == /\ todo \in Seq(AnyField)
           /\ pos \in Nat /\ end \in Nat
           /\ tables \in [DOMAIN EntrySize -> [offset : Nat, count : Nat]]
           /\ \A t \in DOMAIN EntrySize : TableRead(t)
           /\ seek \in [table : DOMAIN EntrySize \cup {"none"}, frames : Nat, back : Nat]
           /\ seek.table = "none" => (end < Word => pos = end) /\ seek.frames = 0
           /\ seek.table # "none" => (end < Word => seek.back = end)
           /\ InTable

\* A position of less than 32 bits is as it is.
LEMMA CutIs == ASSUME NEW x \in Nat PROVE Cut(x) \in Nat /\ (x < Word => Cut(x) = x)
BY CountsAssumption DEF Cut

LEMMA EntrySizes == /\ DOMAIN EntrySize = {"translations", "rotations"}
                    /\ EntrySize["translations"] = 12 /\ EntrySize["rotations"] = 16
BY DEF EntrySize

LEMMA Constructed ==
    /\ \A n \in Nat : Bytes(n) \in AnyField /\ Pascal(n) \in AnyField
    /\ \A w \in Nat : Field("motion", w, "none") \in AnyField
    /\ \A w \in Nat, g \in Groups : Many(w, g) \in AnyField /\ Maybe(w, g) \in AnyField
    /\ Table(12, "translations") \in AnyField /\ Table(16, "rotations") \in AnyField
<1>1. \A n \in Nat : Bytes(n) \in AnyField /\ Pascal(n) \in AnyField
  BY DEF Bytes, Pascal, Field, AnyField
<1>2. \A w \in Nat : Field("motion", w, "none") \in AnyField
  BY DEF Field, AnyField
<1>3. \A w \in Nat, g \in Groups : Many(w, g) \in AnyField /\ Maybe(w, g) \in AnyField
  BY DEF Many, Maybe, Field, AnyField
<1>4. Table(12, "translations") \in AnyField /\ Table(16, "rotations") \in AnyField
  BY DEF AnyField
<1> QED BY <1>1, <1>2, <1>3, <1>4

\* The parameters of a field, by its kind.
LEMMA FieldTypes ==
    ASSUME NEW f \in AnyField
    PROVE  /\ f.size \in Nat
           /\ f.kind \in {"many", "maybe"} => f.of \in Groups
           /\ f.kind = "table" => f.of \in DOMAIN EntrySize /\ f.size = EntrySize[f.of]
           /\ f.kind = "frames" => f.of \in DOMAIN EntrySize /\ f.n \in Nat
<1>1. CASE f \in [kind : {"bytes", "string", "motion"}, size : Nat, of : {"none"}]
  BY <1>1
<1>2. CASE f \in [kind : {"many", "maybe"}, size : Nat, of : Groups]
  BY <1>2
<1>3. CASE f \in {Table(12, "translations"), Table(16, "rotations")}
  BY <1>3, EntrySizes DEF Table, Field
<1>4. CASE f \in [kind : {"frames"}, size : Nat, of : DOMAIN EntrySize, n : Nat]
  BY <1>4
<1> QED BY <1>1, <1>2, <1>3, <1>4 DEF AnyField

LEMMA ConstructedAll ==
    /\ Asset \in AnyField /\ GroupAsset \in AnyField
    /\ \A n \in {4, 7, 8, 9, 12, 20, 24, 28, 144} : Bytes(n) \in AnyField
    /\ Pascal(1) \in AnyField /\ Pascal(2) \in AnyField
    /\ \A w \in {1, 2, 4}, g \in Groups : Many(w, g) \in AnyField /\ Maybe(w, g) \in AnyField
BY Constructed DEF Asset, GroupAsset

LEMMA FileFields == ASSUME NEW k \in DOMAIN Files PROVE Files[k] \in Seq(AnyField)
<1>1. ReadAppearance \in Seq(AnyField)
  BY ConstructedAll DEF ReadAppearance, Groups
<1>2. ReadBinding \in Seq(AnyField)
  BY ConstructedAll DEF ReadBinding, Groups
<1>3. ReadCollection \in Seq(AnyField)
  BY ConstructedAll DEF ReadCollection, Groups
<1>4. ReadHandGroup \in Seq(AnyField)
  BY Constructed DEF ReadHandGroup, Asset
<1>5. ReadOutfit \in Seq(AnyField)
  BY ConstructedAll DEF ReadOutfit
<1>6. ReadPurchasableOutfit \in Seq(AnyField)
  BY ConstructedAll DEF ReadPurchasableOutfit, Groups
<1>7. ReadMesh \in Seq(AnyField)
  BY ConstructedAll DEF ReadMesh, Groups
<1>8. ReadSkeleton \in Seq(AnyField)
  BY ConstructedAll DEF ReadSkeleton, Groups
<1>9. ReadAnimation \in Seq(AnyField)
  BY ConstructedAll, Constructed DEF ReadAnimation, Groups
<1>10. /\ Files["apr"] = ReadAppearance /\ Files["bnd"] = ReadBinding /\ Files["col"] = ReadCollection
       /\ Files["hag"] = ReadHandGroup /\ Files["oft"] = ReadOutfit
       /\ Files["po"] = ReadPurchasableOutfit /\ Files["mesh"] = ReadMesh
       /\ Files["skel"] = ReadSkeleton /\ Files["anim"] = ReadAnimation
  BY DEF Files
<1>11. k \in {"apr", "bnd", "col", "hag", "oft", "po", "mesh", "skel", "anim"}
  BY DEF Files
<1> QED BY <1>1, <1>2, <1>3, <1>4, <1>5, <1>6, <1>7, <1>8, <1>9, <1>10, <1>11

LEMMA GroupFields == ASSUME NEW g \in Groups PROVE Fields(g) \in Seq(AnyField)
<1>1. CASE g = "asset"
  <2>1. Fields("asset") = <<Asset>>
    BY DEF Fields, PropsLists, Parts
  <2>2. <<Asset>> \in Seq(AnyField)
    BY ConstructedAll
  <2> QED BY <1>1, <2>1, <2>2
<1>2. CASE g = "groupasset"
  <2>1. Fields("groupasset") = <<GroupAsset>>
    BY DEF Fields, PropsLists, Parts
  <2>2. <<GroupAsset>> \in Seq(AnyField)
    BY ConstructedAll
  <2> QED BY <1>2, <2>1, <2>2
<1>3. CASE g = "podef"
  <2>1. Fields("podef") = <<Bytes(4), Asset>>
    BY DEF Fields, PropsLists, Parts
  <2>2. <<Bytes(4), Asset>> \in Seq(AnyField)
    BY ConstructedAll
  <2> QED BY <1>3, <2>1, <2>2
<1>4. CASE g = "string"
  <2>1. Fields("string") = <<Pascal(1)>>
    BY DEF Fields, PropsLists, Parts
  <2>2. <<Pascal(1)>> \in Seq(AnyField)
    BY ConstructedAll
  <2> QED BY <1>4, <2>1, <2>2
<1>5. CASE g = "face"
  <2>1. Fields("face") = <<Bytes(12)>>
    BY DEF Fields, PropsLists, Parts
  <2>2. <<Bytes(12)>> \in Seq(AnyField)
    BY ConstructedAll
  <2> QED BY <1>5, <2>1, <2>2
<1>6. CASE g = "binding"
  <2>1. Fields("binding") = <<Bytes(20)>>
    BY DEF Fields, PropsLists, Parts
  <2>2. <<Bytes(20)>> \in Seq(AnyField)
    BY ConstructedAll
  <2> QED BY <1>6, <2>1, <2>2
<1>7. CASE g \in {"texture", "blend"}
  <2>1. Fields("texture") = <<Bytes(8)>> /\ Fields("blend") = <<Bytes(8)>>
    BY DEF Fields, PropsLists, Parts
  <2>2. <<Bytes(8)>> \in Seq(AnyField)
    BY ConstructedAll
  <2> QED BY <1>7, <2>1, <2>2
<1>8. CASE g = "vertex"
  <2>1. Fields("vertex") = <<Bytes(24)>>
    BY DEF Fields, PropsLists, Parts
  <2>2. <<Bytes(24)>> \in Seq(AnyField)
    BY ConstructedAll
  <2> QED BY <1>8, <2>1, <2>2
<1>9. CASE g = "bone"
  <2>1. Fields("bone") = ReadBone
    BY DEF Fields, PropsLists, Parts
  <2>2. ReadBone \in Seq(AnyField)
    BY ConstructedAll DEF ReadBone, Groups
  <2> QED BY <1>9, <2>1, <2>2
<1>10. CASE g = "motion"
  <2>1. Fields("motion") = ReadMotion
    BY DEF Fields, PropsLists, Parts
  <2>2. ReadMotion \in Seq(AnyField)
    BY ConstructedAll, Constructed DEF ReadMotion, Groups
  <2> QED BY <1>10, <2>1, <2>2
<1>11. CASE g = "propslist"
  <2>1. Fields("propslist") = <<Many(4, "prop")>>
    BY DEF Fields, PropsLists, Parts
  <2>2. <<Many(4, "prop")>> \in Seq(AnyField)
    BY ConstructedAll DEF Groups
  <2> QED BY <1>11, <2>1, <2>2
<1>12. CASE g = "prop"
  <2>1. Fields("prop") = <<Many(4, "entry")>>
    BY DEF Fields, PropsLists, Parts
  <2>2. <<Many(4, "entry")>> \in Seq(AnyField)
    BY ConstructedAll DEF Groups
  <2> QED BY <1>12, <2>1, <2>2
<1>13. CASE g = "entry"
  <2>1. Fields("entry") = <<Pascal(1), Pascal(1)>>
    BY DEF Fields, PropsLists, Parts
  <2>2. <<Pascal(1), Pascal(1)>> \in Seq(AnyField)
    BY ConstructedAll
  <2> QED BY <1>13, <2>1, <2>2
<1>14. CASE g = "propslists"
  <2>1. Fields("propslists") = <<Many(4, "propslist")>>
    BY DEF Fields, PropsLists, Parts
  <2>2. <<Many(4, "propslist")>> \in Seq(AnyField)
    BY ConstructedAll DEF Groups
  <2> QED BY <1>14, <2>1, <2>2
<1>15. CASE g = "timepropslists"
  <2>1. Fields("timepropslists") = <<Many(4, "timepropslist")>>
    BY DEF Fields, PropsLists, Parts
  <2>2. <<Many(4, "timepropslist")>> \in Seq(AnyField)
    BY ConstructedAll DEF Groups
  <2> QED BY <1>15, <2>1, <2>2
<1>16. CASE g = "timepropslist"
  <2>1. Fields("timepropslist") = <<Many(4, "timeprop")>>
    BY DEF Fields, PropsLists, Parts
  <2>2. <<Many(4, "timeprop")>> \in Seq(AnyField)
    BY ConstructedAll DEF Groups
  <2> QED BY <1>16, <2>1, <2>2
<1>17. CASE g = "timeprop"
  <2>1. Fields("timeprop") = <<Bytes(4), Many(4, "prop")>>
    BY DEF Fields, PropsLists, Parts
  <2>2. <<Bytes(4), Many(4, "prop")>> \in Seq(AnyField)
    BY ConstructedAll DEF Groups
  <2> QED BY <1>17, <2>1, <2>2
<1> QED BY <1>1, <1>2, <1>3, <1>4, <1>5, <1>6, <1>7, <1>8, <1>9, <1>10, <1>11, <1>12, <1>13, <1>14, <1>15, <1>16, <1>17 DEF Groups

LEMMA RepeatTyped == ASSUME NEW S, NEW f \in Seq(S), NEW c \in Nat PROVE Repeat(c, f) \in Seq(S)
<1>1. c * Len(f) \in Nat
  OBVIOUS
<1>2. ASSUME NEW i \in 1..(c * Len(f)) PROVE f[((i - 1) % Len(f)) + 1] \in S
  <2>1. Len(f) # 0
    BY <1>1
  <2>2. ((i - 1) % Len(f)) + 1 \in 1..Len(f)
    BY <1>1, <2>1
  <2> QED BY <2>2
<1> QED BY <1>1, <1>2 DEF Repeat

LEMMA Splice ==
    ASSUME NEW S, NEW t \in Seq(S), t # << >>, NEW f \in Seq(S)
    PROVE  /\ Head(t) \in S /\ Tail(t) \in Seq(S)
           /\ f \o Tail(t) \in Seq(S)
OBVIOUS

\* Where the frames of a motion are, k of n being left.
LEMMA FrameAt ==
    ASSUME NEW t \in DOMAIN EntrySize, NEW o \in Nat, NEW n \in Nat, NEW k \in 0..n
    PROVE  /\ o + EntrySize[t] * (n - k) \in Nat
           /\ o + EntrySize[t] * (n - k) >= o
           /\ k > 0 => o + EntrySize[t] * (n - k) + EntrySize[t] = o + EntrySize[t] * (n - (k - 1))
           /\ o + EntrySize[t] * (n - k) + EntrySize[t] * k = o + EntrySize[t] * n
<1>1. CASE t = "translations"
  <2>1. EntrySize[t] = 12
    BY <1>1, EntrySizes
  <2> QED BY <2>1
<1>2. CASE t = "rotations"
  <2>1. EntrySize[t] = 16
    BY <1>2, EntrySizes
  <2> QED BY <2>1
<1> QED BY <1>1, <1>2, EntrySizes

-----------------------------------------------------------------------------
(* The fields are read in order. *)

LEMMA FileStart == VBInit => FileInv
<1> SUFFICES ASSUME VBInit PROVE FileInv
  OBVIOUS
<1> USE DEF VBInit
<1>1. todo \in Seq(AnyField) /\ pos \in Nat /\ end \in Nat
  OBVIOUS
<1>2. tables \in [DOMAIN EntrySize -> [offset : Nat, count : Nat]]
  BY DEF NoTable
<1>3. \A t \in DOMAIN EntrySize : TableRead(t)
  BY EntrySizes DEF TableRead, NoTable
<1>4. seek \in [table : DOMAIN EntrySize \cup {"none"}, frames : Nat, back : Nat]
  BY DEF NoSeek
<1>5. seek.table = "none" /\ seek.frames = 0 /\ pos = end
  BY DEF NoSeek
<1> QED BY <1>1, <1>2, <1>3, <1>4, <1>5 DEF FileInv, InTable

\* A field that is read and no table: what follows is behind it.
LEMMA FieldPassed ==
    ASSUME FileInv, NEW n \in Nat, Size(n), seek.table = "none",
           todo' \in Seq(AnyField), UNCHANGED <<tables, seek>>
    PROVE  FileInv'
<1>1. pos \in Nat /\ end \in Nat /\ (end < Word => pos = end) /\ pos' = pos + n /\ end' = end + n
      /\ Word \in Nat
  BY CountsAssumption DEF FileInv, Size
<1>2. \A t \in DOMAIN EntrySize : TableRead(t)'
  <2> TAKE t \in DOMAIN EntrySize
  <2>1. TableRead(t)
    BY DEF FileInv
  <2> QED BY <1>1, <2>1, EntrySizes DEF TableRead
<1>3. seek.frames = 0
  BY DEF FileInv
<1> QED BY <1>1, <1>2, <1>3 DEF FileInv, InTable

LEMMA AtFieldTyped ==
    ASSUME FileInv, NEW kind, AtField(kind)
    PROVE  /\ seek.table = "none" /\ todo # << >> /\ Head(todo).kind = kind
           /\ Head(todo) \in AnyField /\ Tail(todo) \in Seq(AnyField)
           /\ << >> \o Tail(todo) \in Seq(AnyField)
<1>1. todo \in Seq(AnyField) /\ todo # << >>
  BY DEF FileInv, AtField
<1>2. << >> \in Seq(AnyField)
  OBVIOUS
<1> QED BY <1>1, <1>2, Splice DEF AtField

LEMMA FileStep == FileInv /\ (VBNext \/ UNCHANGED vbvars) => FileInv'
<1> SUFFICES ASSUME FileInv, VBNext \/ UNCHANGED vbvars PROVE FileInv'
  OBVIOUS
<1>1. CASE VBArguments
  <2>1. seek.table = "none"
    BY <1>1 DEF FileInv, InTable, VBArguments
  <2>2. todo' \in Seq(AnyField)
    <3>1. CASE UNCHANGED todo
      BY <3>1 DEF FileInv
    <3>2. CASE \E k \in DOMAIN Files : todo' = Files[k]
      BY <3>2, FileFields
    <3> QED BY <1>1, <3>1, <3>2 DEF VBArguments
  <2>3. UNCHANGED <<pos, end, tables, seek>>
    BY <1>1 DEF VBArguments
  <2> QED BY <2>1, <2>2, <2>3 DEF FileInv, InTable, TableRead
<1>2. CASE ReadBytes
  <2>1. /\ seek.table = "none" /\ Head(todo) \in AnyField /\ << >> \o Tail(todo) \in Seq(AnyField)
    BY <1>2, AtFieldTyped DEF ReadBytes
  <2>2. Head(todo).size \in Nat
    BY <2>1, FieldTypes
  <2> QED BY <1>2, <2>1, <2>2, FieldPassed DEF ReadBytes, Then
<1>3. CASE ReadString
  <2>1. /\ seek.table = "none" /\ Head(todo) \in AnyField /\ << >> \o Tail(todo) \in Seq(AnyField)
    BY <1>3, AtFieldTyped DEF ReadString
  <2>2. Head(todo).size \in Nat
    BY <2>1, FieldTypes
  <2>3. PICK n \in Lengths : Size(Head(todo).size + n)
    BY <1>3 DEF ReadString
  <2>4. Head(todo).size + n \in Nat
    BY <2>2, <2>3, CountsAssumption
  <2> QED BY <1>3, <2>1, <2>3, <2>4, FieldPassed DEF ReadString, Then
<1>4. CASE ReadMany
  <2>1. /\ seek.table = "none" /\ Head(todo) \in AnyField /\ todo \in Seq(AnyField) /\ todo # << >>
        /\ Head(todo).kind = "many"
    BY <1>4, AtFieldTyped DEF ReadMany, FileInv
  <2>2. Head(todo).size \in Nat /\ Head(todo).of \in Groups
    BY <2>1, FieldTypes
  <2>3. PICK c \in Counts : Then(Repeat(c, Fields(Head(todo).of)))
    BY <1>4 DEF ReadMany
  <2>4. Repeat(c, Fields(Head(todo).of)) \in Seq(AnyField)
    BY <2>2, <2>3, CountsAssumption, GroupFields, RepeatTyped
  <2>5. todo' \in Seq(AnyField)
    BY <2>1, <2>3, <2>4, Splice DEF Then
  <2> QED BY <1>4, <2>1, <2>2, <2>5, FieldPassed DEF ReadMany
<1>5. CASE ReadMaybe
  <2>1. /\ seek.table = "none" /\ Head(todo) \in AnyField /\ todo \in Seq(AnyField) /\ todo # << >>
        /\ Head(todo).kind = "maybe" /\ << >> \o Tail(todo) \in Seq(AnyField)
    BY <1>5, AtFieldTyped DEF ReadMaybe, FileInv
  <2>2. Head(todo).size \in Nat /\ Head(todo).of \in Groups
    BY <2>1, FieldTypes
  <2>3. Fields(Head(todo).of) \o Tail(todo) \in Seq(AnyField)
    BY <2>1, <2>2, GroupFields, Splice
  <2>4. todo' \in Seq(AnyField)
    BY <1>5, <2>1, <2>3 DEF ReadMaybe, Then
  <2> QED BY <1>5, <2>1, <2>2, <2>4, FieldPassed DEF ReadMaybe
<1>6. CASE PassTable
  <2>1. /\ seek.table = "none" /\ Head(todo) \in AnyField /\ Head(todo).kind = "table"
        /\ << >> \o Tail(todo) \in Seq(AnyField)
    BY <1>6, AtFieldTyped DEF PassTable
  <2>2. Head(todo).of \in DOMAIN EntrySize /\ Head(todo).size = EntrySize[Head(todo).of]
    BY <2>1, FieldTypes
  <2> DEFINE h == Head(todo).of
  <2>3. PICK c \in Entries :
          /\ pos' = Cut(Cut(pos + 4) + Head(todo).size * c)
          /\ end' = end + 4 + Head(todo).size * c
          /\ tables' = [tables EXCEPT ![h] = [offset |-> Cut(pos + 4), count |-> c]]
    BY <1>6 DEF PassTable
  <2>4. c \in Nat /\ Word \in Nat
    BY CountsAssumption
  <2>5. /\ pos \in Nat /\ end \in Nat /\ (end < Word => pos = end)
        /\ tables \in [DOMAIN EntrySize -> [offset : Nat, count : Nat]]
    BY <2>1 DEF FileInv
  <2>6. EntrySize[h] * c \in Nat /\ end' = end + 4 + EntrySize[h] * c
        /\ pos' = Cut(Cut(pos + 4) + EntrySize[h] * c)
    BY <2>2, <2>3, <2>4, EntrySizes
  <2> HIDE DEF h
  <2>7. /\ Cut(pos + 4) \in Nat /\ pos' \in Nat /\ end' \in Nat /\ end' >= end
        /\ end' < Word => /\ end < Word /\ pos = end /\ Cut(pos + 4) = pos + 4
                          /\ pos' = end' /\ end' = pos + 4 + EntrySize[h] * c
    <3> DEFINE table == EntrySize[h] * c
    <3>1. table \in Nat /\ end' = end + 4 + table
      BY <2>6
    <3> HIDE DEF table
    <3>2. end' \in Nat /\ end' >= end /\ (end' < Word => end < Word /\ pos = end /\ end' = pos + 4 + table)
      BY <2>4, <2>5, <3>1
    <3>3. Cut(pos + 4) \in Nat /\ (pos + 4 < Word => Cut(pos + 4) = pos + 4)
      BY <2>5, CutIs
    <3>4. end' < Word => Cut(pos + 4) = pos + 4 /\ Cut(pos + 4) + table = end'
      BY <2>4, <2>5, <3>1, <3>2, <3>3
    <3>5. /\ Cut(Cut(pos + 4) + table) \in Nat
          /\ Cut(pos + 4) + table < Word => Cut(Cut(pos + 4) + table) = Cut(pos + 4) + table
      BY <3>1, <3>3, CutIs
    <3> QED BY <2>6, <3>2, <3>3, <3>4, <3>5 DEF table
  <2>8. tables' \in [DOMAIN EntrySize -> [offset : Nat, count : Nat]]
    <3>1. [offset |-> Cut(pos + 4), count |-> c] \in [offset : Nat, count : Nat]
      BY <2>4, <2>7
    <3> QED BY <2>3, <2>5, <3>1
  <2>9. ASSUME NEW t \in DOMAIN EntrySize PROVE TableRead(t)'
    <3>1. CASE t = h
      <4>1. tables'[t].offset = Cut(pos + 4) /\ tables'[t].count = c
        BY <2>3, <2>5, <3>1
      <4>2. end' < Word => Cut(pos + 4) + EntrySize[t] * c <= end'
        BY <2>4, <2>5, <2>6, <2>7, <3>1
      <4> QED BY <2>4, <2>7, <4>1, <4>2 DEF TableRead
    <3>2. CASE t # h
      <4>1. tables'[t] = tables[t] /\ TableRead(t)
        BY <2>3, <2>5, <3>2 DEF FileInv
      <4> QED BY <2>4, <2>5, <2>7, <4>1, EntrySizes DEF TableRead
    <3> QED BY <3>1, <3>2
  <2>10. UNCHANGED seek /\ todo' \in Seq(AnyField)
    BY <1>6, <2>1 DEF PassTable, Then
  <2> QED BY <2>1, <2>7, <2>8, <2>9, <2>10 DEF FileInv, InTable
<1>7. CASE ReadFrameCounts
  <2>1. /\ seek.table = "none" /\ todo \in Seq(AnyField) /\ todo # << >>
    BY <1>7, AtFieldTyped DEF ReadFrameCounts, FileInv
  <2> DEFINE frames(n, first, has, t) ==
        IF t \in has THEN <<[kind |-> "frames", size |-> first, of |-> t, n |-> n]>> ELSE << >>
  <2>2. PICK n \in Counts, first \in Entries, has \in SUBSET DOMAIN EntrySize :
          Then(frames(n, first, has, "translations") \o frames(n, first, has, "rotations"))
    BY <1>7 DEF ReadFrameCounts
  <2>3. ASSUME NEW t \in DOMAIN EntrySize PROVE frames(n, first, has, t) \in Seq(AnyField)
    <3>1. [kind |-> "frames", size |-> first, of |-> t, n |-> n] \in AnyField
      BY CountsAssumption DEF AnyField
    <3>2. <<[kind |-> "frames", size |-> first, of |-> t, n |-> n]>> \in Seq(AnyField)
      BY <3>1
    <3>3. << >> \in Seq(AnyField)
      OBVIOUS
    <3> QED BY <3>2, <3>3
  <2>4. frames(n, first, has, "translations") \o frames(n, first, has, "rotations") \in Seq(AnyField)
    <3>1. frames(n, first, has, "translations") \in Seq(AnyField) /\ frames(n, first, has, "rotations") \in Seq(AnyField)
      BY <2>3, EntrySizes
    <3> HIDE DEF frames
    <3> QED BY <3>1
  <2>5. todo' \in Seq(AnyField)
    <3> HIDE DEF frames
    <3> QED BY <2>1, <2>2, <2>4, Splice DEF Then
  <2> QED BY <1>7, <2>1, <2>5, FieldPassed DEF ReadFrameCounts
<1>8. CASE SeekTable
  <2>1. /\ seek.table = "none" /\ todo # << >> /\ Head(todo) \in AnyField /\ Head(todo).kind = "frames"
    BY <1>8, AtFieldTyped DEF SeekTable
  <2> DEFINE f == Head(todo)
  <2>2. f.of \in DOMAIN EntrySize /\ f.n \in Nat /\ f.size \in Nat
    BY <2>1, FieldTypes
  <2>3. /\ vbpc = "fields" /\ UNCHANGED <<vbpc, todo, end, tables>>
        /\ seek' = [table |-> f.of, frames |-> f.n, back |-> Cut(pos)]
        /\ pos' = Cut(tables[f.of].offset + EntrySize[f.of] * f.size)
    BY <1>8 DEF SeekTable, AtField
  <2>4. TableRead(f.of)
    BY <2>2 DEF FileInv
  <2>5. pos' \in Nat /\ Cut(pos) \in Nat /\ (end < Word => Cut(pos) = end)
    <3>1. tables[f.of].offset + EntrySize[f.of] * f.size \in Nat
      BY <2>2, <2>4, EntrySizes DEF TableRead
    <3>2. pos \in Nat /\ (end < Word => pos = end)
      BY <2>1 DEF FileInv
    <3> HIDE DEF f
    <3> QED BY <2>3, <3>1, <3>2, CutIs
  <2>6. seek'.table = f.of /\ seek'.frames = f.n /\ seek'.back = Cut(pos) /\ f.of # "none"
    BY <2>2, <2>3, EntrySizes
  <2>7. InTable'
    <3>1. f.n \in 0..f.n /\ pos' = pos' + EntrySize[f.of] * (f.n - f.n)
      BY <2>2, <2>5, EntrySizes
    <3> QED BY <2>1, <2>2, <2>3, <2>6, <3>1 DEF InTable
  <2>8. seek' \in [table : DOMAIN EntrySize \cup {"none"}, frames : Nat, back : Nat]
    BY <2>2, <2>3, <2>5
  <2> QED BY <2>1, <2>3, <2>5, <2>6, <2>7, <2>8 DEF FileInv, TableRead
<1>9. CASE ReadFrame
  <2>1. seek.table # "none" /\ seek.table \in DOMAIN EntrySize /\ seek.frames \in Nat /\ seek.frames > 0
    BY <1>9 DEF FileInv, ReadFrame
  <2> DEFINE f == Head(todo)
  <2>2. /\ vbpc = "fields" /\ todo # << >> /\ f.kind = "frames" /\ f.of = seek.table
        /\ seek.frames \in 0..f.n
        /\ pos = Cut(tables[seek.table].offset + EntrySize[seek.table] * f.size)
                 + EntrySize[seek.table] * (f.n - seek.frames)
    BY <2>1 DEF FileInv, InTable
  <2>3. f \in AnyField
    BY <2>2, Splice DEF FileInv
  <2>4. f.n \in Nat /\ f.size \in Nat
    BY <2>2, <2>3, FieldTypes
  <2>5. /\ pos' = pos + EntrySize[seek.table] /\ UNCHANGED <<vbpc, todo, end, tables>>
        /\ seek'.table = seek.table /\ seek'.frames = seek.frames - 1 /\ seek'.back = seek.back
        /\ seek' \in [table : DOMAIN EntrySize \cup {"none"}, frames : Nat, back : Nat]
    BY <1>9, <2>1, SMTT(30) DEF ReadFrame, FileInv
  <2>6. Cut(tables[seek.table].offset + EntrySize[seek.table] * f.size) \in Nat
    <3>1. tables[seek.table].offset \in Nat
      BY <2>1 DEF FileInv, TableRead
    <3> DEFINE a == tables[seek.table].offset + EntrySize[seek.table] * f.size
    <3>2. a \in Nat
      BY <2>1, <2>4, <3>1, EntrySizes
    <3> HIDE DEF a
    <3>3. Cut(a) \in Nat
      BY <3>2, CutIs
    <3> QED BY <3>3 DEF a
  <2>7. /\ pos' \in Nat /\ seek'.frames \in 0..f.n
        /\ pos' = Cut(tables[seek.table].offset + EntrySize[seek.table] * f.size)
                  + EntrySize[seek.table] * (f.n - seek'.frames)
    <3> DEFINE k == seek.frames
               o == Cut(tables[seek.table].offset + EntrySize[seek.table] * f.size)
               E == EntrySize[seek.table]
               at(j) == o + E * (f.n - j)
    <3>1. k \in 0..f.n /\ k > 0 /\ k - 1 \in 0..f.n
      BY <2>1, <2>2, <2>4
    <3>2. at(k) + E = at(k - 1) /\ at(k - 1) \in Nat
      <4> DEFINE t == seek.table
      <4>1. t \in DOMAIN EntrySize /\ o \in Nat /\ f.n \in Nat
        BY <2>1, <2>4, <2>6
      <4> HIDE DEF t, o, f, k
      <4>2. at(k) + EntrySize[t] = at(k - 1)
        <5>1. EntrySize[t] = 12 \/ EntrySize[t] = 16
          BY <4>1, EntrySizes
        <5>2. E = EntrySize[t]
          BY DEF t
        <5> HIDE DEF E
        <5> QED BY <3>1, <4>1, <5>1, <5>2
      <4>3. at(k - 1) \in Nat
        BY <3>1, <4>1, FrameAt DEF t
      <4> QED BY <4>2, <4>3 DEF t
    <3>3. pos' = at(k) + E /\ seek'.frames = k - 1
      BY <2>2, <2>5
    <3> QED BY <3>1, <3>2, <3>3
  <2>8. InTable'
    BY <2>2, <2>5, <2>7 DEF InTable
  <2> QED BY <2>1, <2>5, <2>7, <2>8 DEF FileInv, TableRead
<1>10. CASE SeekBack
  <2>1. /\ seek.table # "none" /\ todo \in Seq(AnyField) /\ todo # << >>
        /\ seek.back \in Nat /\ (end < Word => seek.back = end)
    BY <1>10 DEF FileInv, InTable, SeekBack
  <2>2. << >> \in Seq(AnyField)
    OBVIOUS
  <2>3. todo' \in Seq(AnyField)
    BY <1>10, <2>1, <2>2, Splice DEF SeekBack, Then
  <2>4. /\ pos' = seek.back /\ seek' = NoSeek /\ UNCHANGED <<vbpc, end, tables>>
    BY <1>10, <2>1 DEF SeekBack, Back
  <2>5. /\ seek'.table = "none" /\ seek'.frames = 0
        /\ seek' \in [table : DOMAIN EntrySize \cup {"none"}, frames : Nat, back : Nat]
    BY <2>4 DEF NoSeek
  <2> QED BY <2>1, <2>3, <2>4, <2>5 DEF FileInv, InTable, TableRead
<1>11. CASE AllRead
  <2>1. seek.table = "none"
    BY <1>11 DEF FileInv, InTable, AllRead
  <2> QED BY <1>11, <2>1 DEF FileInv, InTable, AllRead, TableRead
<1>12. CASE UNCHANGED vbvars
  BY <1>12 DEF vbvars, FileInv, InTable, TableRead
<1> QED
  BY <1>1, <1>2, <1>3, <1>4, <1>5, <1>6, <1>7, <1>8, <1>9, <1>10, <1>11, <1>12 DEF VBNext

\* A table has been passed, so it ends before the reader's way back.
LEMMA FileImplies == FileInv => FileInOrder
<1> SUFFICES ASSUME FileInv, end < Word, seek.table # "none", ~TooManyFrames
             PROVE  LET t == tables[seek.table]
                        left == EntrySize[seek.table] * seek.frames
                    IN pos >= t.offset /\ pos + left <= t.offset + EntrySize[seek.table] * t.count
                       /\ pos + left <= end
  BY DEF FileInv, FileInOrder
<1> DEFINE f == Head(todo)
           o == tables[seek.table].offset
           E == EntrySize[seek.table]
<1>1. /\ todo # << >> /\ f.kind = "frames" /\ seek.frames \in 0..f.n
      /\ pos = Cut(o + E * f.size) + E * (f.n - seek.frames)
  BY DEF FileInv, InTable
<1>2. f \in AnyField
  BY <1>1, Splice DEF FileInv
<1>3. f.n \in Nat /\ f.size \in Nat /\ seek.frames \in Nat
  BY <1>1, <1>2, FieldTypes
<1>4. /\ seek.table \in DOMAIN EntrySize /\ E \in {12, 16} /\ o \in Nat
      /\ tables[seek.table].count \in Nat /\ end \in Nat /\ Word \in Nat
      /\ o + E * tables[seek.table].count <= end
  BY EntrySizes, CountsAssumption DEF FileInv, TableRead
<1>5. f.size + f.n <= tables[seek.table].count
  BY <1>3, <1>4 DEF TooManyFrames
<1> HIDE DEF f, E, o
<1>6. /\ o + E * f.size \in Nat /\ o + E * f.size >= o
      /\ o + E * f.size + E * f.n <= o + E * tables[seek.table].count
      /\ o + E * f.size < Word
  BY <1>3, <1>4, <1>5
<1>7. Cut(o + E * f.size) = o + E * f.size
  BY <1>6, CutIs
<1>8. pos >= o /\ pos + E * seek.frames = o + E * f.size + E * f.n
  <2>1. pos = (o + E * f.size) + E * (f.n - seek.frames)
    BY <1>1, <1>7
  <2>2. seek.frames \in 0..f.n /\ E = EntrySize[seek.table]
    BY <1>1 DEF E
  <2>3. /\ pos >= o + E * f.size
        /\ pos + E * seek.frames = (o + E * f.size) + E * f.n
    BY <1>3, <1>4, <1>6, <2>1, <2>2, FrameAt
  <2>4. pos \in Nat
    BY <1>3, <1>4, <1>6, <2>1, <2>2, FrameAt
  <2> QED BY <1>4, <1>6, <2>3, <2>4
<1>9. pos + E * seek.frames <= o + E * tables[seek.table].count
  BY <1>6, <1>8
<1>10. pos + E * seek.frames <= end
  BY <1>3, <1>4, <1>8, <1>9
<1> QED BY <1>8, <1>9, <1>10 DEF o, E

(* vbparse reads the fields of a file without a gap between them, and the  *)
(* frames inside of their table, whatever counts and lengths the file has, *)
(* for as long as they come to less than what an unsigned counts.          *)
THEOREM FieldsFollow == Spec => []FileInOrder
<1>1. Init => FileInv
  BY FileStart DEF Init
<1>2. FileInv /\ [Next]_vars => FileInv'
  BY FileStep DEF Next, vars
<1> QED BY <1>1, <1>2, FileImplies, PTL DEF Spec

-----------------------------------------------------------------------------
(* The window and its context. *)

\* What is held when the steps before k were taken, and how the cursor is.
Taken(k) ==
    {x \in {"window", "dc", "rc"} :
        IF platform = "wgl"
        THEN (x = "window" /\ k > 1) \/ (x = "dc" /\ k > 2) \/ (x = "rc" /\ k > 4)
        ELSE (x = "rc" /\ k > 2) \/ (x = "window" /\ k > 3)}

CurrentAt(k) == IF k > (IF platform = "wgl" THEN 5 ELSE 4) THEN Outcomes ELSE {"none"}

NumSteps == IF platform = "wgl" THEN 7 ELSE 6

Hides == fullscreen /\ platform = "wgl"

HasContext == have = Taken(NumSteps) /\ current \in Outcomes

\* The window is gone after F11: Windows' version is about to end, X11's goes on.
NoContext == have = {} /\ current = "none"

Creating == pc = "create" =>
    /\ step \in 1..NumSteps
    /\ have = Taken(step) /\ current \in CurrentAt(step)
    /\ cursor = IF Hides /\ step > 1 THEN -1 ELSE 0

Looping == pc \in {"loop", "scene"} =>
    \/ HasContext /\ cursor = (IF Hides THEN -1 ELSE 0)
    \/ NoContext /\ platform = "wgl" /\ quit
    \/ NoContext /\ platform = "glx" /\ again /\ cursor = 0

\* What is not given back with the window, and what of it at the end.
Keeping ==
    /\ kept \subseteq IF platform = "wgl" THEN {"class"} ELSE {"display", "colormap", "visual"}
    /\ pc = "exit" => kept \subseteq {"visual"}

DemoInv ==
    /\ platform \in {"wgl", "glx"}
    /\ pc \in {"open", "startup", "create", "loop", "scene", "exit", "failed", "undefined"}
    /\ again \in BOOLEAN /\ fullscreen \in BOOLEAN /\ quit \in BOOLEAN
    /\ cursor \in Int
    /\ pc \in {"open", "startup"} => NoContext /\ ~fullscreen /\ cursor = 0
    /\ Creating /\ Looping /\ Keeping
    /\ pc = "scene" /\ platform = "wgl" => ~quit
    /\ pc \in {"exit", "failed"} => NoContext

LEMMA StepNames ==
    /\ DOMAIN Steps = {"wgl", "glx"} /\ Len(Steps["wgl"]) = 7 /\ Len(Steps["glx"]) = 6
    /\ Steps["wgl"][1] = "window" /\ Steps["wgl"][2] = "dc" /\ Steps["wgl"][3] = "format"
    /\ Steps["wgl"][4] = "rc" /\ Steps["wgl"][5] = "current" /\ Steps["wgl"][6] = "InitGL"
    /\ Steps["wgl"][7] = "ResizeScene"
    /\ Steps["glx"][1] = "visual" /\ Steps["glx"][2] = "rc" /\ Steps["glx"][3] = "window"
    /\ Steps["glx"][4] = "current" /\ Steps["glx"][5] = "InitGL" /\ Steps["glx"][6] = "ResizeScene"
BY DEF Steps

\* The next step, by its number.
LEMMA NextIs ==
    ASSUME DemoInv, step \in 1..NumSteps
    PROVE  /\ NextStep = "visual" => platform = "glx"
           /\ NextStep = "window" <=> step = (IF platform = "wgl" THEN 1 ELSE 3)
           /\ NextStep = "dc" <=> platform = "wgl" /\ step = 2
           /\ NextStep = "rc" <=> step = (IF platform = "wgl" THEN 4 ELSE 2)
           /\ NextStep = "current" <=> step = (IF platform = "wgl" THEN 5 ELSE 4)
           /\ NextStep \in {"InitGL", "ResizeScene"} <=> step > (IF platform = "wgl" THEN 5 ELSE 4)
<1>1. CASE platform = "wgl"
  <2>1. NextStep = Steps["wgl"][step]
    BY <1>1 DEF NextStep
  <2>2. step = 1 \/ step = 2 \/ step = 3 \/ step = 4 \/ step = 5 \/ step = 6 \/ step = 7
    BY <1>1 DEF NumSteps
  <2> QED BY <1>1, <2>1, <2>2, StepNames
<1>2. CASE platform = "glx"
  <2>1. NextStep = Steps["glx"][step]
    BY <1>2 DEF NextStep
  <2>2. step = 1 \/ step = 2 \/ step = 3 \/ step = 4 \/ step = 5 \/ step = 6
    BY <1>2 DEF NumSteps
  <2> QED BY <1>2, <2>1, <2>2, StepNames
<1> QED BY <1>1, <1>2 DEF DemoInv

LEMMA StepOkKept == DemoInv /\ StepOk => DemoInv'
<1> SUFFICES ASSUME DemoInv, StepOk PROVE DemoInv'
  OBVIOUS
<1>1. /\ pc = "create" /\ step \in 1..NumSteps /\ have = Taken(step) /\ current \in CurrentAt(step)
      /\ cursor = IF Hides /\ step > 1 THEN -1 ELSE 0
      /\ UNCHANGED <<platform, again, fullscreen, keys, quit>>
  BY DEF DemoInv, Creating, StepOk
<1>2. /\ cursor' = IF Hides THEN -1 ELSE 0
      /\ cursor' \in Int
  BY <1>1 DEF StepOk, Hides, NumSteps
<1>3. Len(Steps[platform]) = NumSteps
  BY StepNames DEF NumSteps, DemoInv
<1>4. /\ have' = Taken(step + 1)
      /\ current' \in CurrentAt(step + 1)
  <2>1. /\ have' = have \union ({NextStep} \intersect {"window", "dc", "rc"})
        /\ IF NextStep = "current" THEN current' \in Outcomes ELSE current' = current
    BY DEF StepOk
  <2>2. current' \in CurrentAt(step + 1)
    <3>1. step \in Nat /\ (NextStep = "current" <=> step = (IF platform = "wgl" THEN 5 ELSE 4))
      BY <1>1, NextIs DEF NumSteps
    <3> QED BY <1>1, <2>1, <3>1 DEF CurrentAt
  <2>3. Taken(step + 1) = Taken(step) \union ({NextStep} \intersect {"window", "dc", "rc"})
    <3>1. ASSUME NEW x \in {"window", "dc", "rc"}
          PROVE  x \in Taken(step + 1) <=> x \in Taken(step) \/ x = NextStep
      <4>1. step \in Nat /\ platform \in {"wgl", "glx"}
        BY <1>1 DEF DemoInv, NumSteps
      <4>2. x = NextStep <=> step = IF platform = "wgl"
                                    THEN IF x = "window" THEN 1 ELSE IF x = "dc" THEN 2 ELSE 4
                                    ELSE IF x = "window" THEN 3 ELSE IF x = "dc" THEN 0 ELSE 2
        BY <1>1, <4>1, NextIs DEF NumSteps
      <4>3. CASE platform = "wgl"
        <5>1. \A k \in Nat : x \in Taken(k) <=> k > (IF x = "window" THEN 1 ELSE IF x = "dc" THEN 2 ELSE 4)
          BY <4>3 DEF Taken
        <5> QED BY <4>1, <4>2, <4>3, <5>1
      <4>4. CASE platform = "glx"
        <5>1. \A k \in Nat : x \in Taken(k) <=> x # "dc" /\ k > (IF x = "window" THEN 3 ELSE 2)
          BY <4>4 DEF Taken
        <5>2. step > 0
          BY <1>1 DEF NumSteps
        <5> QED BY <4>1, <4>2, <4>4, <5>1, <5>2
      <4> QED BY <4>1, <4>3, <4>4
    <3>2. Taken(step) \subseteq {"window", "dc", "rc"} /\ Taken(step + 1) \subseteq {"window", "dc", "rc"}
      BY DEF Taken
    <3> QED BY <3>1, <3>2
  <2> QED BY <1>1, <2>1, <2>2, <2>3
<1>7. Keeping'
  <2>1. NextStep = "visual" => platform = "glx"
    BY <1>1, NextIs
  <2>2. kept' = IF NextStep = "visual" THEN kept \union {"visual", "colormap"} ELSE kept
    BY DEF StepOk
  <2>3. pc' # "exit"
    BY <1>1 DEF StepOk
  <2> QED BY <1>1, <2>1, <2>2, <2>3 DEF DemoInv, Keeping
<1>5. CASE step = NumSteps
  <2>1. pc' = "loop" /\ step' = 1
    BY <1>3, <1>5 DEF StepOk
  <2>2. Taken(step + 1) = Taken(NumSteps) /\ CurrentAt(step + 1) = Outcomes /\ Outcomes' = Outcomes
    BY <1>1, <1>5 DEF Outcomes, Taken, NumSteps, CurrentAt
  <2>3. HasContext'
    BY <1>1, <1>4, <2>2 DEF HasContext, Taken, NumSteps
  <2> QED BY <1>1, <1>2, <1>7, <2>1, <2>3 DEF DemoInv, Creating, Looping, Hides
<1>6. CASE step # NumSteps
  <2>1. pc' = "create" /\ step' = step + 1 /\ step' \in 1..NumSteps /\ step' > 1
    BY <1>1, <1>3, <1>6 DEF StepOk, NumSteps
  <2>2. have' = Taken(step)' /\ current' \in CurrentAt(step)' /\ NumSteps' = NumSteps /\ Hides' = Hides
    BY <1>1, <1>4, <2>1 DEF Outcomes, Taken, CurrentAt, NumSteps, Hides
  <2> QED BY <1>1, <1>2, <1>7, <2>1, <2>2 DEF DemoInv, Creating, Looping
<1> QED BY <1>5, <1>6

\* The steps of the demo that are not a step of CreateGLWindow.
LEMMA DemoKept ==
    DemoInv /\ (Open \/ StepFails \/ F11Down \/ KeyDown \/ KeyUp \/ Close \/ Quit \/ Startup(FALSE)
                \/ SceneDrawn \/ UNCHANGED demovars)
    => DemoInv'
<1> SUFFICES ASSUME DemoInv,
                    Open \/ StepFails \/ F11Down \/ KeyDown \/ KeyUp \/ Close \/ Quit \/ Startup(FALSE)
                    \/ SceneDrawn \/ UNCHANGED demovars
             PROVE  DemoInv'
  OBVIOUS
<1> USE DEF DemoInv, Hides, NoContext
<1>1. CASE StepFails
  <2>1. /\ have' = {} /\ current' = "none" /\ pc' = (IF again THEN "loop" ELSE "failed")
        /\ quit' = (quit \/ (again /\ platform = "wgl"))
        /\ UNCHANGED <<platform, again, kept, fullscreen>>
    BY <1>1 DEF StepFails, GiveBack
  <2>2. cursor' \in Int /\ (platform = "glx" => cursor' = 0)
    BY <1>1 DEF StepFails, Creating
  <2>3. quit' \in BOOLEAN /\ (again /\ platform = "wgl" => quit')
    BY <2>1
  <2>4. NoContext' /\ pc' \in {"loop", "failed"}
    BY <2>1
  <2>5. Keeping'
    BY <2>1 DEF Keeping
  <2> QED BY <2>1, <2>2, <2>3, <2>4, <2>5 DEF Creating, Looping
<1>2. CASE F11Down
  <2>1. have' = {} /\ current' = "none" /\ pc' = "create" /\ step' = 1 /\ fullscreen' = ~fullscreen
        /\ again' = TRUE /\ UNCHANGED <<platform, kept, quit>>
    BY <1>2 DEF F11Down, CreateFrom, KillGLWindow, GiveBack
  <2>2. cursor' = 0
    BY <1>2 DEF F11Down, Message, KillGLWindow, Shown, Looping, HasContext, Taken
  <2>3. Taken(1)' = {} /\ CurrentAt(1)' = {"none"} /\ 1 \in 1..NumSteps'
    BY DEF Taken, CurrentAt, NumSteps
  <2>4. Creating'
    BY <2>1, <2>2, <2>3 DEF Creating
  <2>5. again' \in BOOLEAN /\ fullscreen' \in BOOLEAN /\ Keeping'
    BY <2>1 DEF Keeping
  <2> QED BY <2>1, <2>2, <2>4, <2>5 DEF Looping
<1>3. CASE KeyDown \/ KeyUp
  <2>1. UNCHANGED <<platform, pc, step, again, have, kept, current, cursor, fullscreen, quit>>
    <3>1. CASE KeyDown
      BY <3>1 DEF KeyDown, glvars
    <3>2. CASE KeyUp
      BY <3>2 DEF KeyUp, glvars
    <3> QED BY <1>3, <3>1, <3>2
  <2>2. NumSteps' = NumSteps /\ Taken(NumSteps)' = Taken(NumSteps) /\ Outcomes' = Outcomes
    BY <2>1 DEF NumSteps, Taken, Outcomes
  <2>3. Taken(step)' = Taken(step) /\ CurrentAt(step)' = CurrentAt(step)
    BY <2>1, <2>2 DEF Taken, CurrentAt
  <2>4. Creating' /\ Looping' /\ Keeping'
    BY <2>1, <2>2, <2>3 DEF Creating, Looping, HasContext, Keeping
  <2> QED BY <2>1, <2>4
<1>4. CASE EndDemo /\ UNCHANGED <<platform, again, fullscreen>> /\ quit' \in BOOLEAN
  <2>1. have' = {} /\ current' = "none" /\ pc' = "exit" /\ kept' = kept \ {"class", "display", "colormap"}
    BY <1>4 DEF EndDemo, KillGLWindow, GiveBack
  <2>2. cursor' \in Int
    BY <1>4 DEF EndDemo, KillGLWindow, Shown
  <2>3. Keeping'
    BY <1>4, <2>1 DEF Keeping
  <2> QED BY <1>4, <2>1, <2>2, <2>3 DEF Creating, Looping
<1>5. CASE Close /\ platform = "wgl"
  BY <1>5 DEF Close, glvars, Creating, Looping, HasContext, Taken, CurrentAt, NumSteps, Message, Outcomes,
              Keeping
<1>6. CASE Startup(FALSE)
  BY <1>6 DEF Startup, glvars, Creating, Looping, Keeping
<1>7. CASE SceneDrawn
  BY <1>7 DEF SceneDrawn, glvars, Creating, Looping, HasContext, Taken, CurrentAt, NumSteps, Outcomes, Keeping
<1>8. CASE UNCHANGED demovars
  BY <1>8 DEF demovars, Creating, Looping, HasContext, Taken, CurrentAt, NumSteps, Outcomes, Keeping
<1>9. CASE Open
  <2>1. /\ pc = "open" /\ pc' \in {"startup", "failed"}
        /\ UNCHANGED <<platform, again, have, current, fullscreen, cursor, quit>>
    BY <1>9 DEF Open
  <2>2. Keeping'
    BY <1>9 DEF Open, Keeping
  <2> QED BY <2>1, <2>2 DEF Creating, Looping
<1>10. Close \/ Quit => \/ Close /\ platform = "wgl"
                        \/ EndDemo /\ UNCHANGED <<platform, again, fullscreen>> /\ quit' \in BOOLEAN
  BY DEF Close, Quit
<1> QED BY <1>1, <1>2, <1>3, <1>4, <1>5, <1>6, <1>7, <1>8, <1>9, <1>10

\* The animation may end the program here, or Startup or a scene goes on.
LEMMA CreateKept ==
    ASSUME DemoInv, pc = "startup", pc' \in {"create", "undefined"}, step' = 1,
           UNCHANGED <<platform, again, glvars, fullscreen, keys, quit>>
    PROVE  DemoInv'
BY DEF DemoInv, NoContext, glvars, Creating, Looping, Taken, CurrentAt, NumSteps, Hides, Keeping

LEMMA BeginKept ==
    ASSUME DemoInv, MessagesDone, pc' \in {"scene", "undefined"},
           UNCHANGED <<platform, step, again, glvars, fullscreen, keys, quit>>
    PROVE  DemoInv'
BY DEF DemoInv, MessagesDone, NoContext, glvars, Creating, Looping, HasContext, Taken, NumSteps, Hides,
       Outcomes, Keeping

\* A scene ends the program at a skeleton of no bones.
LEMMA EndsKept ==
    ASSUME DemoInv, pc' = "undefined", UNCHANGED <<platform, step, again, glvars, fullscreen, keys, quit>>
    PROVE  DemoInv'
BY DEF DemoInv, glvars, Creating, Looping, Keeping

LEMMA AdvanceFrameEnds ==
    ASSUME NEW d, NEW p, AdvanceFrame(d, pc' = p)
    PROVE  pc' \in {p, "undefined"}
BY DEF AdvanceFrame

LEMMA DemoStep == DemoInv /\ (RendererNext \/ UNCHANGED rvars) => DemoInv'
<1> SUFFICES ASSUME DemoInv, RendererNext \/ UNCHANGED rvars PROVE DemoInv'
  OBVIOUS
<1>1. CASE Demo
  BY <1>1, StepOkKept, DemoKept DEF Demo
<1>2. CASE NotRead
  BY <1>2, DemoKept DEF NotRead
<1>3. CASE LoadAnimation
  <2>1. pc' \in {"create", "undefined"}
    BY <1>3, AdvanceFrameEnds DEF LoadAnimation
  <2> QED BY <1>3, <2>1, CreateKept DEF LoadAnimation
<1>4. CASE BeginScene
  <2>1. pc' \in {"scene", "undefined"}
    BY <1>4, AdvanceFrameEnds DEF BeginScene
  <2> QED BY <1>4, <2>1, BeginKept DEF BeginScene
<1>5. CASE EndScene
  BY <1>5, DemoKept DEF EndScene
<1>6. CASE UNCHANGED demovars
  BY <1>6, DemoKept
<1>7. CASE WalkNothing
  BY <1>7, EndsKept DEF WalkNothing
<1> QED BY <1>1, <1>2, <1>3, <1>4, <1>5, <1>6, <1>7
        DEF RendererNext, rvars, LoadSkeleton, AddBone, LoadMesh, Walk, VisitBone, CallChild, Return,
            BlendVertices

LEMMA DemoStart == DemoInit => DemoInv
<1> SUFFICES ASSUME DemoInit PROVE DemoInv
  OBVIOUS
<1>1. NoContext /\ ~fullscreen /\ cursor = 0 /\ pc = "open" /\ kept = {}
  BY DEF DemoInit, NoContext
<1>2. again \in BOOLEAN /\ fullscreen \in BOOLEAN /\ quit \in BOOLEAN
  BY DEF DemoInit
<1> QED BY <1>1, <1>2 DEF DemoInv, DemoInit, Creating, Looping, Keeping

LEMMA DemoImplies == DemoInv => InContext
<1> SUFFICES ASSUME DemoInv PROVE InContext
  OBVIOUS
<1>1. pc = "scene" => LostWindow \/ Context
  BY DEF DemoInv, Looping, LostWindow, HasContext, NoContext, Taken, NumSteps, Context, Outcomes
<1>2. pc = "create" /\ NextStep \in {"InitGL", "ResizeScene"} => Context
  <2> SUFFICES ASSUME pc = "create", NextStep \in {"InitGL", "ResizeScene"} PROVE Context
    OBVIOUS
  <2>1. /\ step \in 1..NumSteps /\ have = Taken(step) /\ current \in CurrentAt(step)
        /\ platform \in {"wgl", "glx"}
    BY DEF DemoInv, Creating
  <2>2. step > IF platform = "wgl" THEN 5 ELSE 4
    BY <2>1, NextIs
  <2> QED BY <2>1, <2>2 DEF Context, CurrentAt, Outcomes, Taken, NumSteps
<1>3. pc = "scene" /\ platform = "wgl" => cursor = IF fullscreen THEN -1 ELSE 0
  BY DEF DemoInv, Looping, Hides
<1> QED BY <1>1, <1>2, <1>3 DEF InContext, DemoInv, NoContext, Keeping

(* A scene is drawn with a window and a context, which X11 may have        *)
(* refused to make current; the cursor is hidden with the whole screen     *)
(* only; and what is held at the end is what the kind of end leaves,       *)
(* whatever fails and whenever F11 is pressed.                             *)
THEOREM DrawnInContext == Spec => []InContext
<1>1. Init => DemoInv
  BY DemoStart DEF Init, RendererInit
<1>2. DemoInv /\ [Next]_vars => DemoInv'
  BY DemoStep DEF Next, vars
<1> QED BY <1>1, <1>2, DemoImplies, PTL DEF Spec

-----------------------------------------------------------------------------
(* The frames of the animation. *)

FrameInv == /\ sim \in Sims \cup {NoSim}
            /\ AnimationTime \in Nat
            /\ FramesInside

LEMMA Element == ASSUME NEW S, NEW q \in Seq(S), NEW i \in DOMAIN q PROVE q[i] \in S
OBVIOUS

LEMMA Remainder == ASSUME NEW a \in Nat, NEW b \in Nat, b > 0 PROVE fmod(a, b) \in 0..(b - 1)
BY DEF fmod

LEMMA MotionsTyped == ASSUME sim \in Sims \cup {NoSim}
                      PROVE  sim.motions \in Seq([bone : STRING, frames : Nat, has : BOOLEAN])
<1>1. CASE sim = NoSim
  BY <1>1 DEF NoSim
<1> QED BY <1>1, SimsAssumption

\* With frames that all the motions have, what is blended is there, or the
\* time was rounded up.
LEMMA Advanced ==
    ASSUME sim \in Sims \cup {NoSim}, AnimationTime \in Nat, NEW d \in Nat, UNCHANGED sim,
           NEW p, p # "undefined", AdvanceFrame(d, pc' = p)
    PROVE  AnimationTime' \in Nat /\ (pc' = "undefined" => (Uneven \/ RoundedUp)')
<1>1. CASE sim.motions = << >> \/ sim.motions[1].frames = 0
  BY <1>1 DEF AdvanceFrame, time, Uneven
<1>2. CASE ~(sim.motions = << >> \/ sim.motions[1].frames = 0)
  <2> DEFINE n == sim.motions[1].frames
             t == fmod(AnimationTime + d, 2 * n)
  <2>1. sim.motions \in Seq([bone : STRING, frames : Nat, has : BOOLEAN])
    BY MotionsTyped
  <2>2. n \in Nat /\ n > 0
    <3>1. 1 \in DOMAIN sim.motions
      BY <1>2, <2>1
    <3>2. sim.motions[1] \in [bone : STRING, frames : Nat, has : BOOLEAN]
      BY <2>1, <3>1, Element
    <3>3. n \in Nat
      BY <3>2
    <3> QED BY <1>2, <3>3
  <2>3. t \in 0..(2 * n - 1)
    <3> HIDE DEF n
    <3> QED BY <2>2, Remainder
  <2>4. AnimationTime' = t
    BY <1>2 DEF AdvanceFrame
  <2>5. PICK f \in {Half(t)} \union (IF t = 2 * n - 1 THEN {n} ELSE {}) :
           /\ frame' = <<f, NextFrame(f, n)>>
           /\ IF Inside(frame') THEN pc' = p ELSE pc' = "undefined"
    BY <1>2 DEF AdvanceFrame
  <2> HIDE DEF t
  <2>6. CASE f = n /\ t = 2 * n - 1
    <3>1. RoundedUp'
      BY <2>4, <2>5, <2>6 DEF RoundedUp
    <3> QED BY <2>2, <2>3, <2>4, <3>1
  <2>7. CASE f = Half(t) /\ ~Uneven
    <3>1. f \in 0..(n - 1) /\ NextFrame(f, n) \in 0..(n - 1)
      <4> HIDE DEF n
      <4> QED BY <2>2, <2>3, <2>7 DEF Half, NextFrame
    <3>2. \A i \in DOMAIN sim.motions : sim.motions[i].frames \in Nat /\ n <= sim.motions[i].frames
      <4> TAKE i \in DOMAIN sim.motions
      <4>1. sim.motions[i].frames \in Nat /\ ~(sim.motions[i].frames < n)
        <5>1. sim.motions[i] \in [bone : STRING, frames : Nat, has : BOOLEAN]
          BY <2>1, Element
        <5> QED BY <2>7, <5>1 DEF Uneven
      <4> HIDE DEF n
      <4> QED BY <2>2, <4>1
    <3>3. frame'[1] = f /\ frame'[2] = NextFrame(f, n)
      BY <2>5
    <3>4. \A i \in DOMAIN sim.motions : \A j \in 1..2 : frame'[j] >= 0 /\ frame'[j] < sim.motions[i].frames
      <4> TAKE i \in DOMAIN sim.motions
      <4> TAKE j \in 1..2
      <4>1. j = 1 \/ j = 2
        OBVIOUS
      <4>2. frame'[j] \in 0..(n - 1) /\ sim.motions[i].frames \in Nat /\ n <= sim.motions[i].frames
        BY <3>1, <3>2, <3>3, <4>1
      <4> HIDE DEF n
      <4> QED BY <2>2, <4>2
    <3>5. Inside(frame')
      BY <3>4 DEF Inside, Motions
    <3> QED BY <2>2, <2>3, <2>4, <2>5, <3>5
  <2>8. CASE Uneven
    BY <2>2, <2>3, <2>4, <2>8 DEF Uneven
  <2> QED BY <2>5, <2>6, <2>7, <2>8
<1> QED BY <1>1, <1>2

LEMMA FrameStep == FrameInv /\ (RendererNext \/ UNCHANGED rvars) => FrameInv'
<1> SUFFICES ASSUME FrameInv, RendererNext \/ UNCHANGED rvars PROVE FrameInv'
  OBVIOUS
<1>1. CASE LoadAnimation
  <2>1. UNCHANGED sim /\ AdvanceFrame(0, pc' = "create")
    BY <1>1 DEF LoadAnimation, model
  <2> QED BY <2>1, Advanced DEF FrameInv, FramesInside
<1>2. CASE BeginScene
  <2>1. UNCHANGED sim
    BY <1>2 DEF BeginScene, model
  <2>2. CASE "N" \in keys
    <3>1. PICK d \in TimeDeltas(Deltas) : AdvanceFrame(d, pc' = "scene")
      BY <1>2, <2>2 DEF BeginScene
    <3>2. d \in Nat
      BY SimsAssumption DEF TimeDeltas
    <3> QED BY <2>1, <3>1, <3>2, Advanced DEF FrameInv, FramesInside
  <2>3. CASE "N" \notin keys
    BY <1>2, <2>1, <2>3 DEF BeginScene, FrameInv, FramesInside, time
  <2> QED BY <2>2, <2>3
<1>3. CASE LoadSkeleton
  BY <1>3 DEF LoadSkeleton, FrameInv, FramesInside, demovars, time
<1>4. CASE Demo
  <2>1. UNCHANGED <<sim, AnimationTime, frame>>
    BY <1>4 DEF Demo, model, time
  <2>2. pc' # "undefined" \/ pc' = pc
    BY <1>4 DEF Demo, Open, EndDemo, StepOk, StepFails, F11Down, CreateFrom, KeyDown, KeyUp, Close, Quit
  <2> QED BY <2>1, <2>2 DEF FrameInv, FramesInside, Uneven, RoundedUp
<1>5. CASE NotRead \/ EndScene
  BY <1>5 DEF NotRead, Startup, EndScene, SceneDrawn, model, time, FrameInv, FramesInside
<1>6. CASE UNCHANGED <<sim, pc, AnimationTime, frame>>
  BY <1>6 DEF FrameInv, FramesInside, Uneven, RoundedUp
<1>7. CASE WalkNothing
  BY <1>7 DEF WalkNothing, model, time, FrameInv, FramesInside
<1> QED BY <1>1, <1>2, <1>3, <1>4, <1>5, <1>6, <1>7
        DEF RendererNext, rvars, demovars, model, time, AddBone, LoadMesh, Walk, VisitBone, CallChild,
            Return, BlendVertices

(* The frames that are blended are the motions' own, but where the first   *)
(* motion does not speak for the others or time rounds up to the end; only *)
(* a skeleton of no bones ends the program otherwise.                      *)
THEOREM FramesOfMotion == Spec => []FramesInside
<1>1. Init => FrameInv
  BY DEF Init, RendererInit, DemoInit, FrameInv, FramesInside
<1>2. FrameInv /\ [Next]_vars => FrameInv'
  BY FrameStep DEF Next, vars
<1> QED BY <1>1, <1>2, PTL DEF Spec, FrameInv

-----------------------------------------------------------------------------
(* The tree of bones. *)

Parent(b) == FindBone(sim.bones[b].parent, b - 1)

\* The bone a is b, or b hangs from it.
On(a, b) == \E i \in DOMAIN Path(b) : Path(b)[i] = a

\* The children of the bones read so far: those, and no others, that name
\* the bone as their parent.
TreeInv ==
    /\ sim \in Sims \cup {NoSim}
    /\ children \in Seq(Seq(Nat)) /\ Len(children) <= Len(sim.bones)
    /\ \A p \in DOMAIN children : Len(children[p]) <= Len(children) - p
    /\ \A p \in DOMAIN children : \A j \in DOMAIN children[p] : children[p][j] \in DOMAIN children
    /\ \A p, c \in DOMAIN children :
          Parent(c) = p <=> \E j \in DOMAIN children[p] : children[p][j] = c

LEMMA Smallest == ASSUME NEW T, T \subseteq Nat, T # {} PROVE \E n \in T : \A m \in T : n <= m
<1>1. PICK n \in T : \A m \in T : <<m, n>> \notin OpToRel(<, Nat)
  BY NatLessThanWellFounded, WFMin
<1>2. \A m \in T : ~(m < n)
  BY <1>1 DEF OpToRel
<1> QED BY <1>2

LEMMA FindBoneRange == ASSUME NEW name, NEW n \in Nat PROVE FindBone(name, n) \in 0..n
<1> DEFINE found == {i \in 1..n : sim.bones[i].name = name}
<1>1. CASE found = {}
  BY <1>1 DEF FindBone
<1>2. CASE found # {}
  <2>1. \E i \in found : \A j \in found : i <= j
    <3>1. found \subseteq Nat
      OBVIOUS
    <3> HIDE DEF found
    <3> QED BY <1>2, <3>1, Smallest
  <2>2. (CHOOSE i \in found : \A j \in found : i <= j) \in found
    BY <2>1
  <2> QED BY <1>2, <2>2 DEF FindBone
<1> QED BY <1>1, <1>2

\* A parent comes before its children.
LEMMA ParentBefore == ASSUME NEW b \in Nat, b > 0 PROVE Parent(b) \in 0..(b - 1)
BY FindBoneRange DEF Parent

\* The path of a bone, from the one of its parent.
PathFrom(f, b) == IF Parent(b) = 0 THEN <<b>> ELSE Append(f[Parent(b)], b)

LEMMA PathExists ==
    ASSUME NEW n \in Nat
    PROVE  \E f : f = [b \in 1..n |-> PathFrom(f, b)]
<1> DEFINE Is(f, k) == f = [b \in 1..k |-> PathFrom(f, b)]
           T == {k \in Nat : ~\E f : Is(f, k)}
<1> SUFFICES ASSUME T # {} PROVE FALSE
  OBVIOUS
<1>1. PICK k \in T : \A m \in T : k <= m
  BY Smallest
<1>2. k # 0
  <2>1. Is([b \in 1..0 |-> << >>], 0)
    OBVIOUS
  <2> QED BY <1>1, <2>1
<1>3. k - 1 \in Nat /\ k - 1 \notin T
  BY <1>1, <1>2
<1>4. PICK f : Is(f, k - 1)
  BY <1>3
<1> DEFINE g == [b \in 1..k |-> PathFrom(f, b)]
<1>5. ASSUME NEW b \in 1..k PROVE PathFrom(f, b) = PathFrom(g, b)
  <2>1. CASE Parent(b) = 0
    BY <2>1 DEF PathFrom
  <2>2. CASE Parent(b) # 0
    <3>1. Parent(b) \in 1..(k - 1)
      BY <2>2, ParentBefore, <1>3
    <3>2. f[Parent(b)] = PathFrom(f, Parent(b))
      BY <1>4, <3>1
    <3>3. g[Parent(b)] = PathFrom(f, Parent(b))
      BY <1>3, <3>1
    <3> QED BY <2>2, <3>2, <3>3 DEF PathFrom
  <2> QED BY <2>1, <2>2
<1>6. Is(g, k)
  <2> HIDE DEF g
  <2>1. g = [b \in 1..k |-> PathFrom(f, b)]
    BY DEF g
  <2> QED BY <1>5, <2>1
<1> QED BY <1>1, <1>6

LEMMA PathIs ==
    ASSUME sim \in Sims \cup {NoSim}, NEW b \in DOMAIN sim.bones
    PROVE  Path(b) = IF Parent(b) = 0 THEN <<b>> ELSE Append(Path(Parent(b)), b)
<1> DEFINE Is(f) == f = [i \in DOMAIN sim.bones |-> PathFrom(f, i)]
           path == CHOOSE f : Is(f)
<1>1. sim.bones \in Seq([name : STRING, parent : STRING])
  <2>1. CASE sim = NoSim
    BY <2>1 DEF NoSim
  <2> QED BY <2>1, SimsAssumption
<1>2. DOMAIN sim.bones = 1..Len(sim.bones) /\ Len(sim.bones) \in Nat
  BY <1>1
<1>3. \E f : Is(f)
  BY <1>2, PathExists
<1>4. Is(path)
  <2> HIDE DEF Is
  <2> QED BY <1>3
<1>5. \A i : Path(i) = path[i]
  BY DEF Path, PathFrom, Parent
<1>6. Parent(b) # 0 => Parent(b) \in DOMAIN sim.bones
  BY <1>2, ParentBefore
<1>7. path[b] = PathFrom(path, b)
  <2> HIDE DEF path
  <2> QED BY <1>4
<1> HIDE DEF path
<1> QED BY <1>5, <1>6, <1>7 DEF PathFrom

LEMMA SimTyped ==
    ASSUME sim \in Sims \cup {NoSim}
    PROVE  /\ sim.bones \in Seq([name : STRING, parent : STRING])
           /\ DOMAIN sim.bones = 1..Len(sim.bones) /\ Len(sim.bones) \in Nat
<1>1. CASE sim = NoSim
  BY <1>1 DEF NoSim
<1>2. CASE sim \in Sims
  BY <1>2, SimsAssumption
<1> QED BY <1>1, <1>2

\* A path is of bones and ends with its own.
LEMMA PathTyped ==
    ASSUME sim \in Sims \cup {NoSim}, NEW b \in DOMAIN sim.bones
    PROVE  Path(b) \in Seq(Nat) /\ Path(b) # << >> /\ Path(b)[Len(Path(b))] = b
<1> DEFINE Good(c) == Path(c) \in Seq(Nat) /\ Path(c) # << >> /\ Path(c)[Len(Path(c))] = c
           T == {c \in DOMAIN sim.bones : ~Good(c)}
<1> SUFFICES ASSUME T # {} PROVE FALSE
  OBVIOUS
<1>1. DOMAIN sim.bones = 1..Len(sim.bones) /\ Len(sim.bones) \in Nat
  BY SimTyped
<1>2. PICK c \in T : \A m \in T : c <= m
  <2>1. T \subseteq Nat
    BY <1>1
  <2> HIDE DEF T
  <2> QED BY <2>1, Smallest
<1>3. c \in DOMAIN sim.bones /\ c \in Nat /\ c > 0 /\ Parent(c) \in 0..(c - 1)
  BY <1>1, <1>2, ParentBefore
<1>4. CASE Parent(c) = 0
  <2>1. Path(c) = <<c>>
    BY <1>3, <1>4, PathIs
  <2>2. <<c>> \in Seq(Nat) /\ <<c>> # << >> /\ <<c>>[Len(<<c>>)] = c
    BY <1>3
  <2>3. Good(c)
    BY <2>1, <2>2
  <2> QED BY <1>2, <2>3
<1>5. CASE Parent(c) # 0
  <2>1. Path(c) = Append(Path(Parent(c)), c)
    BY <1>3, <1>5, PathIs
  <2>2. Parent(c) \in DOMAIN sim.bones /\ Parent(c) \notin T
    BY <1>1, <1>2, <1>3, <1>5
  <2>3. Path(Parent(c)) \in Seq(Nat)
    BY <2>2
  <2>4. Good(c)
    <3> HIDE DEF Good
    <3> DEFINE q == Path(Parent(c))
    <3>1. Append(q, c) \in Seq(Nat) /\ Append(q, c) # << >> /\ Append(q, c)[Len(Append(q, c))] = c
      <4> HIDE DEF q
      <4> QED BY <1>3, <2>3 DEF q
    <3> QED BY <2>1, <3>1 DEF Good
  <2> QED BY <1>2, <2>4
<1> QED BY <1>3, <1>4, <1>5

LEMMA OnItself ==
    ASSUME sim \in Sims \cup {NoSim}, NEW b \in DOMAIN sim.bones
    PROVE  On(b, b) /\ (Path(b)[1] = 1 => On(1, b))
<1>1. Path(b) \in Seq(Nat) /\ Path(b) # << >> /\ Path(b)[Len(Path(b))] = b
  BY PathTyped
<1>2. Len(Path(b)) \in DOMAIN Path(b) /\ 1 \in DOMAIN Path(b)
  BY <1>1
<1> QED BY <1>1, <1>2 DEF On

\* A bone below another is below one of its children, or is one.
LEMMA NextOnPath ==
    ASSUME sim \in Sims \cup {NoSim}, NEW a, NEW b \in DOMAIN sim.bones, On(a, b), a # b
    PROVE  \E c \in DOMAIN sim.bones : Parent(c) = a /\ On(c, b) /\ a # 0
<1> DEFINE Next1(x) == \E c \in DOMAIN sim.bones : Parent(c) = a /\ On(c, x) /\ a # 0
           T == {x \in DOMAIN sim.bones : On(a, x) /\ a # x /\ ~Next1(x)}
<1> SUFFICES ASSUME T # {} PROVE FALSE
  OBVIOUS
<1>1. DOMAIN sim.bones = 1..Len(sim.bones) /\ Len(sim.bones) \in Nat
  BY SimTyped
<1>2. PICK x \in T : \A m \in T : x <= m
  <2>1. T \subseteq Nat
    BY <1>1
  <2> HIDE DEF T
  <2> QED BY <2>1, Smallest
<1>3. x \in DOMAIN sim.bones /\ x \in Nat /\ x > 0 /\ Parent(x) \in 0..(x - 1)
  BY <1>1, <1>2, ParentBefore
<1>4. PICK i \in DOMAIN Path(x) : Path(x)[i] = a
  BY <1>2 DEF On
<1>5. CASE Parent(x) = 0
  <2>1. Path(x) = <<x>>
    BY <1>3, <1>5, PathIs
  <2>2. a = x
    BY <1>4, <2>1
  <2> QED BY <1>2, <2>2
<1>6. CASE Parent(x) # 0
  <2> DEFINE p == Parent(x)
  <2>1. Path(x) = Append(Path(p), x)
    BY <1>3, <1>6, PathIs
  <2>2. p \in DOMAIN sim.bones /\ p \notin T
    BY <1>1, <1>2, <1>3, <1>6
  <2>3. Path(p) \in Seq(Nat)
    BY <2>2, PathTyped
  <2>4. \A j \in DOMAIN Path(p) : j \in DOMAIN Path(x) /\ Path(x)[j] = Path(p)[j]
    BY <2>1, <2>3
  <2>5. i \in DOMAIN Path(p)
    BY <1>2, <1>4, <2>1, <2>3
  <2>6. On(a, p)
    BY <1>4, <2>4, <2>5 DEF On
  <2>7. CASE a = p
    BY <1>2, <1>3, <1>6, <2>7, OnItself
  <2>8. CASE a # p
    <3>1. PICK c \in DOMAIN sim.bones : Parent(c) = a /\ On(c, p) /\ a # 0
      BY <2>2, <2>6, <2>8
    <3>2. On(c, x)
      BY <2>4, <3>1 DEF On
    <3> QED BY <1>2, <3>1, <3>2
  <2> QED BY <2>7, <2>8
<1> QED BY <1>5, <1>6

-----------------------------------------------------------------------------
(* A scene. *)

Loaded == Len(children) = Len(sim.bones)

Walking == phase \in {"vertices", "bones"}

PhaseInv ==
    /\ pc = "open" => phase = "skeleton"
    /\ pc = "startup" => phase \in {"skeleton", "bone", "mesh", "animation"}
    /\ pc \in {"open", "startup"} /\ phase = "skeleton" => children = << >>
    /\ pc = "startup" /\ phase = "bone" => Len(children) < Len(sim.bones)
    /\ pc = "startup" /\ phase \in {"mesh", "animation"} => Loaded
    /\ pc \in {"create", "loop"} => phase = "done" /\ Loaded
    /\ pc = "scene" => phase \in {"meshes", "vertices", "blend", "skeleton", "bones", "drawn"} /\ Loaded
    /\ phase \in {"vertices", "blend", "bones", "drawn"} => pc = "scene"
    /\ Walking => sim.bones # << >>
    /\ ~Walking => calls = << >>
    /\ ~Walking /\ ~overflow => stack = << >>
    /\ pc = "scene" /\ ~Walking /\ ~overflow => matrix = <<"camera">>
    /\ overflow \in BOOLEAN
    /\ pc \in {"open", "startup"} => ~overflow

\* The product when a walk begins.
Base == IF phase = "bones" THEN <<"camera">> ELSE << >>

Transform == Nat \cup {"camera"}

\* The entries of the stack, of which each level that saves has one.
StackAt(position) ==
    /\ position[1] = 1 /\ position[Len(calls)] = Len(stack) /\ stack[1] = <<"camera">>
    /\ \A k \in 1..(Len(calls) - 1) : \A b \in DOMAIN children :
          calls[k].bone = b =>
             IF Saves(b) THEN position[k + 1] = position[k] + 1 /\ stack[position[k + 1]] = Base \o Path(b)
             ELSE position[k + 1] = position[k]
    /\ \A j, k \in DOMAIN calls : j <= k => position[j] <= position[k]
    /\ \A k \in DOMAIN calls : position[k] <= k

\* Each level is at a child of the level above, which comes before it.
CallsInv ==
    /\ calls \in Seq([bone : DOMAIN children, next : Nat]) /\ calls # << >> /\ calls[1].bone = 1
    /\ \A k \in DOMAIN calls : calls[k].next <= Len(children[calls[k].bone]) + 1
    /\ \A k \in 1..(Len(calls) - 1) :
          calls[k].next >= 2 /\ calls[k + 1].bone = children[calls[k].bone][calls[k].next - 1]
    /\ \A k \in DOMAIN calls : calls[k].bone >= k

\* Only a bone that has one child leaves another product than its own, and
\* only after that child.
MatrixInv ==
    /\ matrix \in Seq(Transform) /\ stack \in Seq(Seq(Transform))
    /\ \A b \in DOMAIN children : Top.bone = b =>
          IF Top.next = 0 THEN Append(matrix, b) = Base \o Path(b)
          ELSE Saves(b) \/ Top.next # 2 => matrix = Base \o Path(b)
    /\ \E position \in [DOMAIN calls -> Nat] : StackAt(position)

WalkInv == CallsInv /\ (~overflow => MatrixInv)

\* What is bound to a bone was placed, or the bone is still to come: it is
\* visited next, or it is below a child that a level has not called yet.
PlacedFor(b) ==
    \A m \in DOMAIN vertices : \A k \in DOMAIN vertices[m] :
        m = MeshIndex(sim.bones[b].name) /\ IsBinding(m, k, sim.bones[b].name) => vertices[m][k] = "placed"

ToCome(b) ==
    \/ Top.next = 0 /\ Top.bone = b
    \/ \E c \in DOMAIN children : On(c, b) /\
          \E l \in DOMAIN calls : \E j \in DOMAIN children[calls[l].bone] :
             j >= calls[l].next /\ children[calls[l].bone][j] = c

CoverInv ==
    \A b \in DOMAIN sim.bones : Path(b)[1] = 1 =>
        /\ phase = "vertices" => PlacedFor(b) \/ ToCome(b)
        /\ phase = "blend" => PlacedFor(b)

\* A skeleton whose matrices do not fit has at least as many bones.
OverflowInv == overflow => Len(sim.bones) >= StackDepth

SceneInv == PhaseInv /\ (Walking => WalkInv) /\ CoverInv /\ OverflowInv

-----------------------------------------------------------------------------
(* The tree is built bone by bone. *)

LEMMA PathSame ==
    ASSUME sim' = sim
    PROVE  /\ \A b : Path(b)' = Path(b) /\ Parent(b)' = Parent(b)
           /\ \A a, b : On(a, b)' <=> On(a, b)
<1>1. \A b : Path(b)' = Path(b) /\ Parent(b)' = Parent(b)
  BY DEF Path, Parent, FindBone
<1> QED BY <1>1 DEF On

LEMMA TreeStep == TreeInv /\ PhaseInv /\ (RendererNext \/ UNCHANGED rvars) => TreeInv'
<1> SUFFICES ASSUME TreeInv, PhaseInv, RendererNext \/ UNCHANGED rvars PROVE TreeInv'
  OBVIOUS
<1>1. CASE LoadSkeleton
  <2>1. sim' \in Sims /\ children' = << >>
    BY <1>1 DEF LoadSkeleton, PhaseInv
  <2>2. Len(sim'.bones) \in Nat
    BY <2>1, SimsAssumption
  <2> QED BY <2>1, <2>2 DEF TreeInv
<1>2. CASE AddBone
  <2> DEFINE N == Len(children)
             b == N + 1
             P == Parent(b)
             given == IF P = 0 THEN children ELSE [children EXCEPT ![P] = Append(@, b)]
  <2>1. children' = Append(given, << >>) /\ sim' = sim
    BY <1>2 DEF AddBone, Parent
  <2>2. /\ children \in Seq(Seq(Nat)) /\ N \in Nat /\ DOMAIN children = 1..N
        /\ N < Len(sim.bones) /\ Len(sim.bones) \in Nat
    BY <1>2, SimTyped DEF AddBone, PhaseInv, TreeInv
  <2>3. P \in 0..N
    BY <2>2, ParentBefore
  <2>4. given \in Seq(Seq(Nat)) /\ Len(given) = N
    <3> HIDE DEF P
    <3>1. CASE P = 0
      BY <2>2, <3>1
    <3>2. CASE P # 0
      <4>1. P \in 1..N /\ children[P] \in Seq(Nat)
        BY <2>2, <2>3, <3>2
      <4>2. Append(children[P], b) \in Seq(Nat)
        BY <2>2, <4>1
      <4>3. given = [children EXCEPT ![P] = Append(children[P], b)]
        BY <3>2
      <4> QED BY <2>2, <4>1, <4>2, <4>3
    <3> QED BY <3>1, <3>2
  <2>5. /\ children' \in Seq(Seq(Nat)) /\ Len(children') = b /\ DOMAIN children' = 1..b
        /\ children'[b] = << >>
        /\ \A p \in 1..N : children'[p] = IF p = P THEN Append(children[p], b) ELSE children[p]
    <3>1. \A p \in 1..N : given[p] = IF p = P THEN Append(children[p], b) ELSE children[p]
      BY <2>2, <2>3
    <3>2. << >> \in Seq(Nat)
      OBVIOUS
    <3> HIDE DEF given
    <3> QED BY <2>1, <2>2, <2>4, <3>1, <3>2
  <2>6. \A p \in 1..N : IF p = P
                         THEN /\ Len(children'[p]) = Len(children[p]) + 1
                              /\ children'[p][Len(children[p]) + 1] = b
                              /\ \A j \in 1..Len(children[p]) : children'[p][j] = children[p][j]
                         ELSE children'[p] = children[p]
    <3> TAKE p \in 1..N
    <3> DEFINE q == children[p]
    <3>1. q \in Seq(Nat) /\ b \in Nat
      BY <2>2
    <3>2. /\ Len(Append(q, b)) = Len(q) + 1 /\ Append(q, b)[Len(q) + 1] = b
          /\ \A j \in 1..Len(q) : Append(q, b)[j] = q[j]
      <4> HIDE DEF q, b
      <4> QED BY <3>1
    <3>3. children'[p] = IF p = P THEN Append(q, b) ELSE q
      BY <2>5
    <3> HIDE DEF P, b
    <3> QED BY <3>2, <3>3
  <2>7. \A p \in 1..b : Len(children'[p]) <= b - p
    <3> TAKE p \in 1..b
    <3>1. CASE p = b
      BY <2>2, <2>5, <3>1
    <3>2. CASE p \in 1..N
      <4>1. children[p] \in Seq(Nat) /\ Len(children[p]) <= N - p
        <5>1. p \in DOMAIN children /\ TreeInv
          BY <2>2, <3>2
        <5> HIDE DEF given, P, b
        <5>2. children \in Seq(Seq(Nat)) /\ Len(children[p]) <= Len(children) - p
          BY <5>1 DEF TreeInv
        <5> QED BY <5>1, <5>2
      <4>2. Len(children'[p]) \in {Len(children[p]), Len(children[p]) + 1}
        BY <2>6, <3>2
      <4> QED BY <2>2, <3>2, <4>1, <4>2
    <3> QED BY <2>2, <3>1, <3>2
  <2>8. ASSUME NEW p \in 1..N, NEW j
        PROVE  j \in DOMAIN children'[p] <=>
                 j \in DOMAIN children[p] \/ (p = P /\ j = Len(children[p]) + 1)
    <3>1. children[p] \in Seq(Nat) /\ children'[p] \in Seq(Nat)
      BY <2>2, <2>5
    <3>2. DOMAIN children[p] = 1..Len(children[p]) /\ DOMAIN children'[p] = 1..Len(children'[p])
      BY <3>1
    <3> HIDE DEF P
    <3> QED BY <2>6, <3>1, <3>2
  <2>9. ASSUME NEW p \in 1..N
        PROVE  \A j \in DOMAIN children[p] : children'[p][j] = children[p][j] /\ children[p][j] \in 1..N
    <3>1. children[p] \in Seq(Nat)
      BY <2>2
    <3>2. \A j \in DOMAIN children[p] : children[p][j] \in 1..N
      BY <2>2 DEF TreeInv
    <3>3. \A j \in DOMAIN children[p] : children'[p][j] = children[p][j]
      <4> TAKE j \in DOMAIN children[p]
      <4>1. j \in 1..Len(children[p])
        BY <3>1
      <4> QED BY <2>6, <4>1
    <3> QED BY <3>2, <3>3
  <2>10. ASSUME NEW p \in 1..b, NEW j \in DOMAIN children'[p]
         PROVE  children'[p][j] \in 1..b
    <3>1. p \in 1..N
      BY <2>2, <2>5
    <3>2. CASE j \in DOMAIN children[p]
      <4>1. children'[p][j] \in 1..N
        BY <2>9, <3>1, <3>2
      <4> QED BY <2>2, <4>1
    <3>3. CASE p = P /\ j = Len(children[p]) + 1
      <4>1. children'[p][j] = b
        BY <2>6, <3>1, <3>3
      <4> QED BY <2>2, <4>1
    <3> QED BY <2>8, <3>1, <3>2, <3>3
  <2>11. ASSUME NEW p \in 1..b, NEW c \in 1..b
         PROVE  Parent(c) = p <=> \E j \in DOMAIN children'[p] : children'[p][j] = c
    <3>1. Parent(c) \in 0..(c - 1)
      BY <2>2, ParentBefore
    <3>2. CASE p = b
      BY <2>2, <2>5, <3>1, <3>2
    <3>3. CASE p \in 1..N /\ c = b
      <4>1. P = p => \E j \in DOMAIN children'[p] : children'[p][j] = c
        BY <2>6, <2>8, <3>3
      <4>2. (\E j \in DOMAIN children'[p] : children'[p][j] = c) => P = p
        <5> HIDE DEF P, N
        <5> QED BY <2>2, <2>6, <2>8, <2>9, <3>3 DEF N
      <4> QED BY <3>3, <4>1, <4>2
    <3>4. CASE p \in 1..N /\ c \in 1..N
      <4>1. Parent(c) = p <=> \E j \in DOMAIN children[p] : children[p][j] = c
        BY <2>2, <3>4 DEF TreeInv
      <4>2. (\E j \in DOMAIN children[p] : children[p][j] = c)
                => \E j \in DOMAIN children'[p] : children'[p][j] = c
        BY <2>8, <2>9, <3>4
      <4>3. ASSUME NEW j \in DOMAIN children'[p], children'[p][j] = c
            PROVE  j \in DOMAIN children[p] /\ children[p][j] = c
        <5> HIDE DEF P, N
        <5> QED BY <2>2, <2>6, <2>8, <2>9, <3>4, <4>3 DEF N
      <4> QED BY <4>1, <4>2, <4>3
    <3> QED BY <2>2, <3>2, <3>3, <3>4
  <2>12. \A c : Parent(c)' = Parent(c)
    BY <2>1, PathSame
  <2> HIDE DEF P, b, N
  <2>13. Len(children') <= Len(sim'.bones)
    BY <2>1, <2>2, <2>5 DEF b
  <2>14. sim' \in Sims \cup {NoSim}
    BY <2>1 DEF TreeInv
  <2>15. \A p, c \in DOMAIN children' :
           Parent(c)' = p <=> \E j \in DOMAIN children'[p] : children'[p][j] = c
    BY <2>5, <2>11, <2>12
  <2>16. \A p \in DOMAIN children' : Len(children'[p]) <= Len(children') - p
    BY <2>5, <2>7
  <2>17. \A p \in DOMAIN children' : \A j \in DOMAIN children'[p] : children'[p][j] \in DOMAIN children'
    BY <2>5, <2>10
  <2> QED BY <2>5, <2>13, <2>14, <2>15, <2>16, <2>17 DEF TreeInv
<1>3. CASE UNCHANGED <<sim, children>>
  <2>1. \A b : Parent(b)' = Parent(b)
    BY <1>3, PathSame
  <2> QED BY <1>3, <2>1 DEF TreeInv
<1> QED BY <1>1, <1>2, <1>3
        DEF RendererNext, rvars, model, Demo, NotRead, LoadMesh, LoadAnimation, BeginScene, Walk, WalkNothing,
            VisitBone, CallChild, Return, BlendVertices, EndScene

-----------------------------------------------------------------------------
(* The phases, and the walk over the bones. *)

LEMMA TreeTyped ==
    ASSUME TreeInv
    PROVE  /\ Len(children) \in Nat /\ DOMAIN children = 1..Len(children)
           /\ DOMAIN children \subseteq DOMAIN sim.bones
           /\ Loaded => DOMAIN children = DOMAIN sim.bones /\ (sim.bones # << >> => 1 \in DOMAIN children)
           /\ \A b \in DOMAIN children : children[b] \in Seq(Nat) /\ Len(children[b]) \in Nat
                                         /\ DOMAIN children[b] = 1..Len(children[b])
<1>1. children \in Seq(Seq(Nat)) /\ Len(children) <= Len(sim.bones) /\ sim \in Sims \cup {NoSim}
  BY DEF TreeInv
<1>2. sim.bones \in Seq([name : STRING, parent : STRING])
      /\ DOMAIN sim.bones = 1..Len(sim.bones) /\ Len(sim.bones) \in Nat
  BY <1>1, SimTyped
<1>3. Len(children) \in Nat /\ DOMAIN children = 1..Len(children)
  BY <1>1
<1>4. \A b \in DOMAIN children : children[b] \in Seq(Nat) /\ Len(children[b]) \in Nat
                                 /\ DOMAIN children[b] = 1..Len(children[b])
  BY <1>1
<1>5. Loaded => DOMAIN children = DOMAIN sim.bones /\ (sim.bones # << >> => 1 \in DOMAIN children)
  BY <1>2, <1>3 DEF Loaded
<1> QED BY <1>1, <1>2, <1>3, <1>4, <1>5

\* The product for a bone from that for its parent; for the first bone, from
\* what there is when the walk begins.
LEMMA Products ==
    ASSUME sim \in Sims \cup {NoSim}, NEW b \in DOMAIN sim.bones,
           NEW from \in Seq(Transform)
    PROVE  /\ b \in Transform
           /\ Path(b) \in Seq(Transform) /\ from \o Path(b) \in Seq(Transform)
           /\ Parent(b) # 0 => Append(from \o Path(Parent(b)), b) = from \o Path(b)
           /\ Parent(b) = 0 => Append(from, b) = from \o Path(b)
<1>1. DOMAIN sim.bones = 1..Len(sim.bones) /\ Len(sim.bones) \in Nat
  BY SimTyped
<1>2. b \in Transform
  BY <1>1 DEF Transform
<1>3. from \in Seq(Transform)
  OBVIOUS
<1>4. \A c \in DOMAIN sim.bones : Path(c) \in Seq(Transform)
  <2> TAKE c \in DOMAIN sim.bones
  <2>1. Path(c) \in Seq(Nat)
    BY PathTyped
  <2> QED BY <2>1 DEF Transform
<1>5. CASE Parent(b) = 0
  <2>1. Path(b) = <<b>>
    BY <1>5, PathIs
  <2>2. Append(from, b) = from \o <<b>>
    BY <1>2, <1>3, AppendIsConcat
  <2> QED BY <1>2, <1>3, <1>4, <1>5, <2>1, <2>2
<1>6. CASE Parent(b) # 0
  <2>1. Path(b) = Append(Path(Parent(b)), b)
    BY <1>6, PathIs
  <2>2. Parent(b) \in DOMAIN sim.bones
    BY <1>1, <1>6, ParentBefore
  <2>3. Path(Parent(b)) \in Seq(Transform)
    BY <1>4, <2>2
  <2>4. Append(from \o Path(Parent(b)), b) = from \o Append(Path(Parent(b)), b)
    <3> DEFINE q == Path(Parent(b))
    <3>1. q \in Seq(Transform)
      BY <2>3
    <3> HIDE DEF q
    <3>2. from \o q \in Seq(Transform) /\ <<b>> \in Seq(Transform)
      BY <1>2, <1>3, <3>1
    <3>3. Append(from \o q, b) = (from \o q) \o <<b>> /\ Append(q, b) = q \o <<b>>
      BY <1>2, <3>1, <3>2, AppendIsConcat
    <3>4. (from \o q) \o <<b>> = from \o (q \o <<b>>)
      BY <1>3, <3>1, <3>2, ConcatAssociative
    <3>5. Append(from \o q, b) = from \o Append(q, b)
      BY <3>3, <3>4
    <3> QED BY <3>5 DEF q
  <2>5. from \o Path(b) \in Seq(Transform)
    <3> DEFINE q == Path(b)
    <3>1. q \in Seq(Transform)
      BY <1>4
    <3> HIDE DEF q
    <3>2. from \o q \in Seq(Transform)
      BY <1>3, <3>1
    <3> QED BY <3>2 DEF q
  <2> QED BY <1>2, <1>3, <1>4, <1>6, <2>1, <2>4, <2>5
<1> QED BY <1>5, <1>6

LEMMA BaseTyped == Base \in Seq(Transform)
<1>1. << >> \in Seq(Transform) /\ <<"camera">> \in Seq(Transform)
  BY DEF Transform
<1> QED BY <1>1 DEF Base

LEMMA FirstBone == Parent(1) = 0
BY ParentBefore

\* The walk ends where it began, with the camera.
LEMMA WalkEnds ==
    ASSUME MatrixInv, Len(calls) = 1
    PROVE  stack[Len(stack)] = <<"camera">> /\ SubSeq(stack, 1, Len(stack) - 1) = << >>
<1>1. PICK position \in [DOMAIN calls -> Nat] : StackAt(position)
  BY DEF MatrixInv
<1>2. Len(stack) = 1 /\ stack[1] = <<"camera">>
  BY <1>1 DEF StackAt
<1> QED BY <1>2

LEMMA Replaced ==
    ASSUME NEW S, NEW q \in Seq(S), NEW i \in DOMAIN q, NEW x \in S
    PROVE  /\ [q EXCEPT ![i] = x] \in Seq(S) /\ Len([q EXCEPT ![i] = x]) = Len(q)
           /\ DOMAIN [q EXCEPT ![i] = x] = DOMAIN q /\ [q EXCEPT ![i] = x][i] = x
           /\ \A k \in DOMAIN q : k # i => [q EXCEPT ![i] = x][k] = q[k]
OBVIOUS

LEMMA WithoutLast ==
    ASSUME NEW S, NEW q \in Seq(S), q # << >>
    PROVE  /\ q[Len(q)] \in S
           /\ SubSeq(q, 1, Len(q) - 1) \in Seq(S) /\ Len(SubSeq(q, 1, Len(q) - 1)) = Len(q) - 1
           /\ \A k \in 1..(Len(q) - 1) : SubSeq(q, 1, Len(q) - 1)[k] = q[k]
<1> DEFINE n == Len(q) - 1
<1>1. n \in Nat /\ n + 1 = Len(q) /\ Len(q) \in DOMAIN q
  OBVIOUS
<1>2. q[Len(q)] \in S
  BY <1>1
<1>3. n \in 0..Len(q) /\ 1..n \subseteq DOMAIN q
  OBVIOUS
<1> HIDE DEF n
<1>4. SubSeq(q, 1, n) \in Seq(S) /\ Len(SubSeq(q, 1, n)) = n /\ \A k \in 1..n : SubSeq(q, 1, n)[k] = q[k]
  BY <1>1, <1>3, SubSeqProperties
<1> QED BY <1>2, <1>4 DEF n

LEMMA BelowIs ==
    ASSUME CallsInv
    PROVE  /\ Len(calls) \in Nat /\ Len(calls) >= 1 /\ DOMAIN calls = 1..Len(calls)
           /\ Below = << >> <=> Len(calls) = 1
           /\ Below \in Seq([bone : DOMAIN children, next : Nat])
           /\ Len(Below) = Len(calls) - 1 /\ \A k \in 1..(Len(calls) - 1) : Below[k] = calls[k]
           /\ Top \in [bone : DOMAIN children, next : Nat]
<1>1. calls \in Seq([bone : DOMAIN children, next : Nat]) /\ calls # << >>
  BY DEF CallsInv
<1>2. Len(calls) \in Nat /\ Len(calls) >= 1 /\ DOMAIN calls = 1..Len(calls)
  BY <1>1
<1>3. /\ Below \in Seq([bone : DOMAIN children, next : Nat])
      /\ Len(Below) = Len(calls) - 1 /\ \A k \in 1..(Len(calls) - 1) : Below[k] = calls[k]
  BY <1>1, WithoutLast DEF Below
<1>4. Below = << >> <=> Len(calls) = 1
  BY <1>2, <1>3
<1>5. Top \in [bone : DOMAIN children, next : Nat]
  BY <1>1, WithoutLast DEF Top
<1> QED BY <1>2, <1>3, <1>4, <1>5

LEMMA PhaseStep == TreeInv /\ SceneInv /\ (RendererNext \/ UNCHANGED rvars) => PhaseInv'
<1> SUFFICES ASSUME TreeInv, SceneInv, RendererNext \/ UNCHANGED rvars PROVE PhaseInv'
  OBVIOUS
<1>0. PhaseInv /\ (Walking => WalkInv)
  BY DEF SceneInv
<1>1. CASE Demo
  <2>1. UNCHANGED <<phase, sim, children, calls, matrix, stack, overflow>>
    BY <1>1 DEF Demo, model, scene
  <2>2. \/ pc \in {"create", "loop"} /\ pc' \in {"create", "loop", "exit", "failed"}
        \/ pc = "open" /\ pc' \in {"startup", "failed"}
    BY <1>1 DEF Demo, Open, EndDemo, StepOk, StepFails, F11Down, KeyDown, KeyUp, Close, Quit, CreateFrom, Message,
                KillGLWindow
  <2> QED BY <1>0, <2>1, <2>2 DEF PhaseInv, Walking, Loaded
<1>2. CASE NotRead
  BY <1>0, <1>2 DEF NotRead, Startup, PhaseInv, Walking, Loaded, model, scene
<1>3. CASE LoadSkeleton
  <2>1. /\ sim' \in Sims /\ children' = << >> /\ pc' = "startup" /\ calls' = << >> /\ ~overflow'
        /\ stack' = << >> /\ phase' = IF sim'.bones = << >> THEN "mesh" ELSE "bone"
        /\ overflow' \in BOOLEAN
    BY <1>0, <1>3 DEF LoadSkeleton, PhaseInv, Walking, scene, demovars
  <2>2. Len(sim'.bones) \in Nat /\ (sim'.bones = << >> <=> Len(sim'.bones) = 0)
    <3>1. sim'.bones \in Seq([name : STRING, parent : STRING])
      BY <2>1, SimsAssumption
    <3> QED BY <3>1
  <2>3. Len(children') = 0
    BY <2>1
  <2> QED BY <2>1, <2>2, <2>3 DEF PhaseInv, Walking, Loaded
<1>4. CASE AddBone
  <2>1. /\ pc' = "startup" /\ UNCHANGED <<sim, calls, stack, overflow>>
        /\ phase' = IF Len(children) + 1 = Len(sim.bones) THEN "mesh" ELSE "bone"
    BY <1>4 DEF AddBone, demovars, scene
  <2>2. Len(children') = Len(children) + 1
    <3> DEFINE P == FindBone(sim.bones[Len(children) + 1].parent, Len(children) + 1 - 1)
               given == IF P = 0 THEN children ELSE [children EXCEPT ![P] = Append(@, Len(children) + 1)]
    <3>1. children' = Append(given, << >>)
      BY <1>4 DEF AddBone
    <3>2. DOMAIN given = DOMAIN children
      OBVIOUS
    <3>3. TreeInv'
      BY <1>0, TreeStep
    <3>4. children' \in Seq(Seq(Nat)) /\ children \in Seq(Seq(Nat))
      BY <3>3 DEF TreeInv
    <3>5. P \in 0..Len(children)
      <4>1. Len(children) \in Nat /\ Len(children) + 1 - 1 = Len(children)
        BY <3>4
      <4> QED BY <4>1, FindBoneRange
    <3>6. Len(given) = Len(children) /\ given \in Seq(Seq(Nat))
      <4> HIDE DEF P
      <4>1. CASE P = 0
        BY <3>4, <4>1
      <4>2. CASE P # 0
        <5>1. children[P] \in Seq(Nat) /\ P \in DOMAIN children /\ Len(children) + 1 \in Nat
          BY <3>4, <3>5, <4>2
        <5>2. Append(children[P], Len(children) + 1) \in Seq(Nat)
          BY <5>1
        <5> QED BY <3>4, <4>2, <5>1, <5>2
      <4> QED BY <4>1, <4>2
    <3> HIDE DEF given
    <3>7. << >> \in Seq(Nat)
      OBVIOUS
    <3> QED BY <3>1, <3>6, <3>7
  <2>3. Len(children) < Len(sim.bones) /\ Len(children) \in Nat /\ Len(sim.bones) \in Nat /\ calls = << >>
    BY <1>0, <1>4, SimTyped DEF AddBone, PhaseInv, Walking, TreeInv
  <2>4. stack = << >> /\ ~overflow /\ overflow \in BOOLEAN
    BY <1>0, <1>4 DEF AddBone, PhaseInv, Walking
  <2> QED BY <2>1, <2>2, <2>3, <2>4 DEF PhaseInv, Walking, Loaded
<1>5. CASE LoadMesh
  BY <1>0, <1>5 DEF LoadMesh, PhaseInv, Walking, Loaded, demovars, scene
<1>6. CASE LoadAnimation
  <2>1. pc' \in {"create", "undefined"}
    BY <1>6, AdvanceFrameEnds DEF LoadAnimation
  <2> QED BY <1>0, <1>6, <2>1 DEF LoadAnimation, PhaseInv, Walking, Loaded, model, scene
<1>7. CASE BeginScene
  <2>1. pc' \in {"scene", "undefined"}
    BY <1>7, AdvanceFrameEnds DEF BeginScene
  <2> QED BY <1>0, <1>7, <2>1 DEF BeginScene, MessagesDone, PhaseInv, Walking, Loaded, model
<1>8. CASE Walk
  BY <1>0, <1>8 DEF Walk, Push, PhaseInv, Walking, Loaded, model, demovars
<1>9. CASE VisitBone \/ CallChild
  <2>1. Walking /\ UNCHANGED <<pc, phase, sim, children>> /\ overflow' \in BOOLEAN /\ pc = "scene"
    BY <1>0, <1>9 DEF VisitBone, CallChild, Push, PhaseInv, demovars, model
  <2> QED BY <1>0, <2>1 DEF PhaseInv, Walking, Loaded
<1>10. CASE Return
  <2>1. Walking /\ UNCHANGED <<pc, sim, children, overflow>> /\ pc = "scene" /\ WalkInv
    BY <1>0, <1>10 DEF Return, Pop, PhaseInv, demovars, model
  <2>2. CASE Below # << >>
    <3>1. phase' = phase
      BY <1>10, <2>2 DEF Return
    <3> QED BY <1>0, <2>1, <3>1 DEF PhaseInv, Walking, Loaded
  <2>3. CASE Below = << >>
    <3>1. phase' \in {"blend", "drawn"} /\ calls' = << >> /\ Pop
      BY <1>10, <2>3 DEF Return
    <3>2. ~overflow => matrix' = <<"camera">> /\ stack' = << >>
      <4> SUFFICES ASSUME ~overflow PROVE matrix' = <<"camera">> /\ stack' = << >>
        OBVIOUS
      <4>1. Len(calls) = 1 /\ MatrixInv
        BY <2>1, <2>3, BelowIs DEF WalkInv
      <4>2. stack[Len(stack)] = <<"camera">> /\ SubSeq(stack, 1, Len(stack) - 1) = << >>
        BY <4>1, WalkEnds
      <4>3. CASE stack = << >>
        <5>1. PICK position \in [DOMAIN calls -> Nat] : StackAt(position)
          BY <4>1 DEF MatrixInv
        <5>2. Len(stack) = 1
          BY <4>1, <5>1 DEF StackAt
        <5> QED BY <4>3, <5>2
      <4> QED BY <3>1, <4>2, <4>3 DEF Pop
    <3> QED BY <1>0, <2>1, <3>1, <3>2 DEF PhaseInv, Walking, Loaded
  <2> QED BY <2>2, <2>3
<1>11. CASE BlendVertices
  BY <1>0, <1>11 DEF BlendVertices, PhaseInv, Walking, Loaded, demovars, scene
<1>12. CASE EndScene
  BY <1>0, <1>12 DEF EndScene, SceneDrawn, PhaseInv, Walking, Loaded, model, scene
<1>13. CASE UNCHANGED rvars
  BY <1>0, <1>13 DEF rvars, demovars, model, scene, PhaseInv, Walking, Loaded
<1>14. CASE WalkNothing
  BY <1>0, <1>14 DEF WalkNothing, PhaseInv, Walking, Loaded, model, scene
<1> QED BY <1>1, <1>2, <1>3, <1>4, <1>5, <1>6, <1>7, <1>8, <1>9, <1>10, <1>11, <1>12, <1>13, <1>14 DEF RendererNext

LEMMA WalkBegins == TreeInv /\ PhaseInv /\ Walk => WalkInv'
<1> SUFFICES ASSUME TreeInv, PhaseInv, Walk PROVE WalkInv'
  OBVIOUS
<1>1. /\ pc = "scene" /\ phase \in {"meshes", "skeleton"} /\ Loaded /\ sim.bones # << >>
      /\ (~overflow => matrix = <<"camera">> /\ stack = << >>) /\ UNCHANGED <<sim, children>>
  BY DEF Walk, PhaseInv, Walking, model
<1>2. 1 \in DOMAIN children /\ 1 \in DOMAIN sim.bones /\ sim \in Sims \cup {NoSim}
  BY <1>1, TreeTyped DEF TreeInv
<1> DEFINE call == [bone |-> 1, next |-> 0]
<1>3. calls' = <<call>>
  BY DEF Walk, Call
<1>4. call \in [bone : DOMAIN children, next : Nat] /\ children[1] \in Seq(Nat)
  BY <1>2, TreeTyped
<1>5. /\ Len(calls') = 1 /\ calls'[1] = call /\ DOMAIN calls' = {1}
      /\ calls' \in Seq([bone : DOMAIN children, next : Nat]) /\ calls' # << >>
  BY <1>3, <1>4
<1>6. Top' = call
  BY <1>5 DEF Top
<1>7. CallsInv'
  BY <1>1, <1>4, <1>5 DEF CallsInv
<1>8. ASSUME ~overflow' PROVE MatrixInv'
  <2>1. /\ matrix = <<"camera">> /\ stack = << >> /\ stack' = <<matrix>> /\ matrix' = Base'
    <3>1. ~overflow /\ ~Full /\ stack' = Append(stack, matrix)
      BY <1>8, Zenon DEF Walk, Push
    <3>2. matrix = <<"camera">> /\ stack = << >>
      BY <1>1, <3>1
    <3>3. Append(<< >>, matrix) = <<matrix>>
      BY <3>2
    <3>4. /\ matrix' = (IF phase = "meshes" THEN << >> ELSE matrix)
          /\ phase' = (IF phase = "meshes" THEN "vertices" ELSE "bones")
      BY DEF Walk
    <3>5. matrix' = Base'
      BY <3>2, <3>4 DEF Base
    <3> QED BY <3>1, <3>2, <3>3, <3>5
  <2>2. <<"camera">> \in Seq(Transform) /\ << >> \in Seq(Transform)
    BY DEF Transform
  <2>3. Base' \in Seq(Transform)
    BY <2>2 DEF Base
  <2>4. stack' \in Seq(Seq(Transform)) /\ Len(stack') = 1 /\ stack'[1] = <<"camera">>
    BY <2>1, <2>2
  <2>5. Append(matrix', 1) = Base' \o Path(1)
    BY <1>2, <2>1, <2>3, FirstBone, Products
  <2>6. \A b \in DOMAIN children' : Top'.bone = b =>
          IF Top'.next = 0 THEN Append(matrix', b) = Base' \o Path(b)'
          ELSE Saves(b)' \/ Top'.next # 2 => matrix' = Base' \o Path(b)'
    BY <1>1, <1>6, <2>5, PathSame
  <2>7. \E position \in [DOMAIN calls' -> Nat] : StackAt(position)'
    <3> DEFINE position == [k \in {1} |-> 1]
    <3>1. position \in [DOMAIN calls' -> Nat]
      BY <1>5
    <3>2. StackAt(position)'
      BY <1>5, <2>4 DEF StackAt
    <3> QED BY <3>1, <3>2
  <2> QED BY <2>1, <2>3, <2>4, <2>6, <2>7 DEF MatrixInv
<1> QED BY <1>7, <1>8 DEF WalkInv

\* What a bone's visit leaves as it is.
LEMMA VisitKept ==
    ASSUME CallsInv, VisitBone
    PROVE  /\ DOMAIN calls' = DOMAIN calls /\ Len(calls') = Len(calls)
           /\ calls' \in Seq([bone : DOMAIN children, next : Nat])
           /\ \A k \in DOMAIN calls : calls'[k].bone = calls[k].bone
           /\ \A k \in 1..(Len(calls) - 1) : calls'[k] = calls[k]
           /\ Top'.bone = Top.bone /\ Top'.next = 1 /\ Top.next = 0
<1> DEFINE n == Len(calls)
<1>1. /\ calls \in Seq([bone : DOMAIN children, next : Nat]) /\ n \in Nat /\ n >= 1
      /\ DOMAIN calls = 1..n /\ calls[n] \in [bone : DOMAIN children, next : Nat]
  BY BelowIs DEF CallsInv, Top
<1>2. calls' = [calls EXCEPT ![n].next = 1] /\ Top.next = 0
  BY DEF VisitBone
<1> DEFINE call == [calls[n] EXCEPT !.next = 1]
<1>3. call \in [bone : DOMAIN children, next : Nat] /\ call.bone = calls[n].bone /\ call.next = 1
  BY <1>1
<1>4. calls' = [calls EXCEPT ![n] = call]
  BY <1>2
<1>5. /\ calls' \in Seq([bone : DOMAIN children, next : Nat]) /\ Len(calls') = n
      /\ DOMAIN calls' = 1..n /\ calls'[n] = call /\ \A k \in 1..(n - 1) : calls'[k] = calls[k]
  <2> HIDE DEF n, call
  <2>1. n \in DOMAIN calls
    BY <1>1
  <2>2. Len(calls) = n
    BY DEF n
  <2> QED BY <1>1, <1>3, <1>4, <2>1, <2>2, Replaced
<1> HIDE DEF n, call
<1>6. \A k \in DOMAIN calls : calls'[k].bone = calls[k].bone
  BY <1>1, <1>3, <1>5
<1>7. Top'.bone = Top.bone /\ Top'.next = 1
  BY <1>3, <1>5 DEF Top, n
<1> QED BY <1>1, <1>2, <1>5, <1>6, <1>7 DEF n

LEMMA VisitCalls == TreeInv /\ CallsInv /\ VisitBone => CallsInv'
<1> SUFFICES ASSUME TreeInv, CallsInv, VisitBone PROVE CallsInv'
  OBVIOUS
<1>1. UNCHANGED <<sim, children, phase, stack>> /\ Base' = Base
  BY DEF VisitBone, Base
<1>2. /\ DOMAIN calls' = DOMAIN calls /\ Len(calls') = Len(calls)
      /\ calls' \in Seq([bone : DOMAIN children, next : Nat])
      /\ \A k \in DOMAIN calls : calls'[k].bone = calls[k].bone
      /\ \A k \in 1..(Len(calls) - 1) : calls'[k] = calls[k]
      /\ Top'.bone = Top.bone /\ Top'.next = 1 /\ Top.next = 0
  BY VisitKept
<1>3. /\ Len(calls) \in Nat /\ Len(calls) >= 1 /\ DOMAIN calls = 1..Len(calls)
      /\ Top \in [bone : DOMAIN children, next : Nat]
  BY BelowIs
<1>4. calls' # << >> /\ calls'[1].bone = 1
  <2>1. 1 \in DOMAIN calls /\ calls[1].bone = 1
    BY <1>3 DEF CallsInv
  <2>2. Len(calls') # 0
    BY <1>2, <1>3
  <2> QED BY <1>2, <2>1, <2>2
<1>5. \A b \in DOMAIN children : Len(children[b]) \in Nat
  BY TreeTyped
<1>6. \A k \in DOMAIN calls' : calls'[k].next <= Len(children'[calls'[k].bone]) + 1
  <2> TAKE k \in DOMAIN calls'
  <2>1. CASE k = Len(calls)
    <3>1. calls'[k].next = 1 /\ calls'[k].bone \in DOMAIN children
      BY <1>2, <1>3, <2>1 DEF Top
    <3> QED BY <1>1, <1>5, <3>1
  <2>2. CASE k \in 1..(Len(calls) - 1)
    BY <1>1, <1>2, <2>2 DEF CallsInv
  <2> QED BY <1>2, <1>3, <2>1, <2>2
<1>7. \A k \in 1..(Len(calls') - 1) :
        calls'[k].next >= 2 /\ calls'[k + 1].bone = children'[calls'[k].bone][calls'[k].next - 1]
  <2> TAKE k \in 1..(Len(calls') - 1)
  <2>1. k \in 1..(Len(calls) - 1) /\ k + 1 \in DOMAIN calls
    BY <1>2, <1>3
  <2>2. calls[k].next >= 2 /\ calls[k + 1].bone = children[calls[k].bone][calls[k].next - 1]
    BY <2>1 DEF CallsInv
  <2> QED BY <1>1, <1>2, <2>1, <2>2
<1>8. \A k \in DOMAIN calls' : calls'[k].bone >= k
  BY <1>2 DEF CallsInv
<1> QED BY <1>1, <1>2, <1>4, <1>6, <1>7, <1>8 DEF CallsInv

LEMMA VisitMatrix == TreeInv /\ CallsInv /\ MatrixInv /\ VisitBone => MatrixInv'
<1> SUFFICES ASSUME TreeInv, CallsInv, MatrixInv, VisitBone PROVE MatrixInv'
  OBVIOUS
<1>1. UNCHANGED <<sim, children, phase, stack>> /\ Base' = Base
  BY DEF VisitBone, Base
<1>2. /\ DOMAIN calls' = DOMAIN calls /\ Len(calls') = Len(calls)
      /\ calls' \in Seq([bone : DOMAIN children, next : Nat])
      /\ \A k \in DOMAIN calls : calls'[k].bone = calls[k].bone
      /\ \A k \in 1..(Len(calls) - 1) : calls'[k] = calls[k]
      /\ Top'.bone = Top.bone /\ Top'.next = 1 /\ Top.next = 0
  BY VisitKept
<1>3. /\ Len(calls) \in Nat /\ Len(calls) >= 1 /\ DOMAIN calls = 1..Len(calls)
      /\ Top \in [bone : DOMAIN children, next : Nat]
  BY BelowIs
<1>8. matrix' = Append(matrix, Top.bone) /\ matrix' = Base \o Path(Top.bone)
  BY <1>2, <1>3 DEF VisitBone, MatrixInv
<1>9. matrix' \in Seq(Transform) /\ stack' \in Seq(Seq(Transform))
  <2>1. Top.bone \in Transform
    BY <1>3, TreeTyped DEF Transform
  <2>2. matrix \in Seq(Transform)
    BY DEF MatrixInv
  <2>3. Append(matrix, Top.bone) \in Seq(Transform)
    BY <2>1, <2>2
  <2> QED BY <1>1, <1>8, <2>3 DEF MatrixInv
<1>10. \A b \in DOMAIN children' : Top'.bone = b =>
          IF Top'.next = 0 THEN Append(matrix', b) = Base' \o Path(b)'
          ELSE Saves(b)' \/ Top'.next # 2 => matrix' = Base' \o Path(b)'
  <2> TAKE b \in DOMAIN children'
  <2>1. Path(b)' = Path(b)
    BY <1>1, PathSame
  <2>2. Top.bone = b => matrix' = Base \o Path(b)
    BY <1>8
  <2> QED BY <1>1, <1>2, <2>1, <2>2
<1>11. \E position \in [DOMAIN calls' -> Nat] : StackAt(position)'
  <2>1. PICK position \in [DOMAIN calls -> Nat] : StackAt(position)
    BY DEF MatrixInv
  <2>2. ASSUME NEW k \in 1..(Len(calls') - 1), NEW b \in DOMAIN children', calls'[k].bone = b
        PROVE  IF Saves(b)' THEN position[k + 1] = position[k] + 1 /\ stack'[position[k + 1]] = Base' \o Path(b)'
               ELSE position[k + 1] = position[k]
    <3>1. Saves(b)' <=> Saves(b)
      BY <1>1 DEF Saves
    <3>2. Path(b)' = Path(b)
      BY <1>1, PathSame
    <3>3. k \in 1..(Len(calls) - 1) /\ b \in DOMAIN children /\ calls[k].bone = b
      BY <1>1, <1>2, <1>3, <2>2
    <3> QED BY <1>1, <2>1, <3>1, <3>2, <3>3 DEF StackAt
  <2>3. StackAt(position)'
    BY <1>1, <1>2, <2>1, <2>2 DEF StackAt
  <2> QED BY <1>2, <2>1, <2>3
<1> QED BY <1>1, <1>2, <1>9, <1>10, <1>11 DEF MatrixInv

LEMMA WalkVisits == TreeInv /\ WalkInv /\ VisitBone => WalkInv'
<1>1. VisitBone => overflow' = overflow
  BY DEF VisitBone
<1> QED BY <1>1, VisitCalls, VisitMatrix DEF WalkInv

LEMMA Appended ==
    ASSUME NEW S, NEW q \in Seq(S), NEW x \in S
    PROVE  /\ Append(q, x) \in Seq(S) /\ Len(Append(q, x)) = Len(q) + 1
           /\ DOMAIN Append(q, x) = 1..(Len(q) + 1) /\ Append(q, x)[Len(q) + 1] = x
           /\ \A k \in 1..Len(q) : Append(q, x)[k] = q[k]
OBVIOUS

\* The levels when a child is called: one more, and one has moved on.
LEMMA CallKept ==
    ASSUME TreeInv, CallsInv, CallChild
    PROVE  LET n == Len(calls)
               b == Top.bone
               c == children[b][Top.next]
           IN /\ n \in Nat /\ n >= 1 /\ DOMAIN calls = 1..n
              /\ b \in DOMAIN children /\ Top.next \in 1..Len(children[b])
              /\ c \in DOMAIN children /\ Parent(c) = b
              /\ calls' \in Seq([bone : DOMAIN children, next : Nat])
              /\ Len(calls') = n + 1 /\ DOMAIN calls' = 1..(n + 1)
              /\ \A k \in 1..n : calls'[k].bone = calls[k].bone
              /\ \A k \in 1..(n - 1) : calls'[k] = calls[k]
              /\ calls'[n].next = Top.next + 1
              /\ calls'[n + 1].bone = c /\ calls'[n + 1].next = 0
              /\ Top'.bone = c /\ Top'.next = 0
<1> DEFINE n == Len(calls)
           b == Top.bone
           c == children[b][Top.next]
           S == [bone : DOMAIN children, next : Nat]
           on == [calls[n] EXCEPT !.next = @ + 1]
           moved == [calls EXCEPT ![n] = on]
           call == [bone |-> c, next |-> 0]
<1>1. /\ n \in Nat /\ n >= 1 /\ DOMAIN calls = 1..n /\ calls \in Seq(S) /\ Top \in S /\ n \in DOMAIN calls
  BY BelowIs, SMTT(30) DEF CallsInv
<1>2. b \in DOMAIN children /\ Top.next \in Nat
  BY <1>1
<1>3. Top.next \in DOMAIN children[b] /\ DOMAIN children[b] = 1..Len(children[b])
  BY <1>2, TreeTyped DEF CallChild
<1>4. c \in DOMAIN children /\ Parent(c) = b
  BY <1>2, <1>3 DEF TreeInv
<1>5. on \in S /\ on.bone = b /\ on.next = Top.next + 1
  BY <1>1 DEF Top
<1>6. calls' = Append(moved, call)
  <2>1. moved = [calls EXCEPT ![n].next = @ + 1]
    OBVIOUS
  <2> HIDE DEF moved
  <2> QED BY <2>1 DEF CallChild, Call
<1>7. call \in S /\ call.bone = c /\ call.next = 0
  BY <1>4
<1>8. /\ moved \in Seq(S) /\ Len(moved) = n /\ moved[n] = on
      /\ \A k \in 1..n : k # n => moved[k] = calls[k]
  <2> HIDE DEF on
  <2> QED BY <1>1, <1>5, Replaced
<1>9. /\ calls' \in Seq(S) /\ Len(calls') = n + 1 /\ DOMAIN calls' = 1..(n + 1)
      /\ calls'[n + 1] = call /\ \A k \in 1..n : calls'[k] = moved[k]
  <2> HIDE DEF moved, call
  <2> QED BY <1>6, <1>7, <1>8, Appended
<1> HIDE DEF on, moved, call, c, S, n
<1>10. \A k \in 1..(n - 1) : calls'[k] = calls[k]
  BY <1>1, <1>8, <1>9
<1>11. \A k \in 1..n : calls'[k].bone = calls[k].bone
  <2>1. calls[n].bone = b
    BY DEF Top, n
  <2> QED BY <1>1, <1>5, <1>8, <1>9, <2>1
<1>12. calls'[n].next = Top.next + 1
  BY <1>1, <1>5, <1>8, <1>9
<1>13. calls'[n + 1].bone = c /\ calls'[n + 1].next = 0 /\ Top'.bone = c /\ Top'.next = 0
  BY <1>7, <1>9 DEF Top
<1> QED BY <1>1, <1>2, <1>3, <1>4, <1>9, <1>10, <1>11, <1>12, <1>13 DEF n, c, S

LEMMA CallCalls == TreeInv /\ CallsInv /\ CallChild => CallsInv'
<1> SUFFICES ASSUME TreeInv, CallsInv, CallChild PROVE CallsInv'
  OBVIOUS
<1> DEFINE n == Len(calls)
           b == Top.bone
           c == children[b][Top.next]
<1>1. UNCHANGED <<sim, children, phase, matrix>> /\ Base' = Base
  BY DEF CallChild, Base, model
<1>2. /\ n \in Nat /\ n >= 1 /\ DOMAIN calls = 1..n
      /\ b \in DOMAIN children /\ Top.next \in 1..Len(children[b])
      /\ c \in DOMAIN children /\ Parent(c) = b
      /\ calls' \in Seq([bone : DOMAIN children, next : Nat])
      /\ Len(calls') = n + 1 /\ DOMAIN calls' = 1..(n + 1)
      /\ \A k \in 1..n : calls'[k].bone = calls[k].bone
      /\ \A k \in 1..(n - 1) : calls'[k] = calls[k]
      /\ calls'[n].next = Top.next + 1
      /\ calls'[n + 1].bone = c /\ calls'[n + 1].next = 0
      /\ Top'.bone = c /\ Top'.next = 0
  BY CallKept
<1>3. calls[n].bone = b /\ calls[n].next = Top.next
  BY DEF Top
<1>4. \A x \in DOMAIN children : Len(children[x]) \in Nat
  BY TreeTyped
<1> HIDE DEF n, b, c
<1>6. calls' # << >> /\ calls'[1].bone = 1
  <2>1. calls[1].bone = 1 /\ 1 \in 1..n
    BY <1>2 DEF CallsInv
  <2>2. Len(calls') # 0
    BY <1>2
  <2> QED BY <1>2, <2>1, <2>2
<1>7. \A k \in DOMAIN calls' : calls'[k].next <= Len(children'[calls'[k].bone]) + 1
  <2> TAKE k \in DOMAIN calls'
  <2>1. CASE k = n + 1
    BY <1>1, <1>2, <1>4, <2>1
  <2>2. CASE k = n
    <3>1. calls'[n].bone = b
      BY <1>2, <1>3
    <3> QED BY <1>1, <1>2, <1>4, <2>2, <3>1
  <2>3. CASE k \in 1..(n - 1)
    <3>1. k \in DOMAIN calls /\ calls'[k] = calls[k]
      BY <1>2, <2>3
    <3> QED BY <1>1, <3>1 DEF CallsInv
  <2> QED BY <1>2, <2>1, <2>2, <2>3
<1>8. \A k \in 1..(Len(calls') - 1) :
        calls'[k].next >= 2 /\ calls'[k + 1].bone = children'[calls'[k].bone][calls'[k].next - 1]
  <2> TAKE k \in 1..(Len(calls') - 1)
  <2>1. CASE k = n
    <3>1. calls'[n].bone = b /\ calls'[n].next - 1 = Top.next /\ calls'[n].next >= 2
      <4>1. Top.next \in Nat /\ Top.next >= 1
        BY <1>2, <1>4
      <4>2. calls'[n].bone = b
        BY <1>2, <1>3
      <4>3. calls'[n].next = Top.next + 1
        BY <1>2
      <4> QED BY <4>1, <4>2, <4>3
    <3> QED BY <1>1, <1>2, <2>1, <3>1 DEF c
  <2>2. CASE k \in 1..(n - 1)
    <3>1. k \in 1..(Len(calls) - 1) /\ k + 1 \in 1..n
      BY <1>2, <2>2 DEF n
    <3>2. calls[k].next >= 2 /\ calls[k + 1].bone = children[calls[k].bone][calls[k].next - 1]
      BY <3>1 DEF CallsInv
    <3> QED BY <1>1, <1>2, <2>2, <3>1, <3>2
  <2> QED BY <1>2, <2>1, <2>2
<1>9. \A k \in DOMAIN calls' : calls'[k].bone >= k
  <2>1. \A k \in 1..n : calls'[k].bone >= k
    BY <1>2 DEF CallsInv
  <2>2. c >= n + 1
    <3>1. b >= n /\ b \in Nat /\ c \in Nat /\ c > 0
      <4>1. n \in DOMAIN calls /\ calls[n].bone >= n
        BY <1>2 DEF CallsInv
      <4>2. DOMAIN children = 1..Len(children) /\ Len(children) \in Nat
        BY TreeTyped
      <4> QED BY <1>2, <1>3, <4>1, <4>2
    <3>2. b \in 0..(c - 1)
      BY <1>2, <3>1, ParentBefore
    <3> QED BY <1>2, <3>1, <3>2
  <2> QED BY <1>2, <2>1, <2>2
<1> QED BY <1>1, <1>2, <1>6, <1>7, <1>8, <1>9 DEF CallsInv

LEMMA CallMatrix == TreeInv /\ CallsInv /\ MatrixInv /\ CallChild /\ ~overflow' => MatrixInv'
<1> SUFFICES ASSUME TreeInv, CallsInv, MatrixInv, CallChild, ~overflow' PROVE MatrixInv'
  OBVIOUS
<1> DEFINE n == Len(calls)
           b == Top.bone
           c == children[b][Top.next]
<1>1. UNCHANGED <<sim, children, phase, matrix>> /\ Base' = Base
  BY DEF CallChild, Base, model
<1>2. /\ n \in Nat /\ n >= 1 /\ DOMAIN calls = 1..n
      /\ b \in DOMAIN children /\ Top.next \in 1..Len(children[b])
      /\ c \in DOMAIN children /\ Parent(c) = b
      /\ calls' \in Seq([bone : DOMAIN children, next : Nat])
      /\ Len(calls') = n + 1 /\ DOMAIN calls' = 1..(n + 1)
      /\ \A k \in 1..n : calls'[k].bone = calls[k].bone
      /\ \A k \in 1..(n - 1) : calls'[k] = calls[k]
      /\ calls'[n].next = Top.next + 1
      /\ calls'[n + 1].bone = c /\ calls'[n + 1].next = 0
      /\ Top'.bone = c /\ Top'.next = 0
  BY CallKept
<1>3. calls[n].bone = b /\ calls[n].next = Top.next
  BY DEF Top
<1>4. \A x \in DOMAIN children : Len(children[x]) \in Nat
  BY TreeTyped
<1>5. matrix = Base \o Path(b)
  <2>1. Top.next # 0 /\ (Saves(b) \/ Top.next # 2)
    BY <1>2, <1>4 DEF Saves
  <2> QED BY <1>2, <2>1 DEF MatrixInv
<1> HIDE DEF n, b, c
<1>9. matrix' \in Seq(Transform) /\ matrix \in Seq(Transform) /\ stack \in Seq(Seq(Transform))
  BY <1>1 DEF MatrixInv
<1>10. stack' = IF Saves(b) THEN Append(stack, matrix) ELSE stack
  BY DEF CallChild, Push, b
<1>11. /\ stack' \in Seq(Seq(Transform))
       /\ \A i \in 1..Len(stack) : stack'[i] = stack[i]
       /\ Len(stack') = Len(stack) + (IF Saves(b) THEN 1 ELSE 0)
       /\ Saves(b) => stack'[Len(stack) + 1] = Base \o Path(b)
       /\ Len(stack) \in Nat
  <2>1. CASE Saves(b)
    BY <1>5, <1>9, <1>10, <2>1, Appended
  <2>2. CASE ~Saves(b)
    BY <1>9, <1>10, <2>2
  <2> QED BY <2>1, <2>2
<1>12. \A x \in DOMAIN children' : Top'.bone = x =>
          IF Top'.next = 0 THEN Append(matrix', x) = Base' \o Path(x)'
          ELSE Saves(x)' \/ Top'.next # 2 => matrix' = Base' \o Path(x)'
  <2> TAKE x \in DOMAIN children'
  <2>1. Path(x)' = Path(x)
    BY <1>1, PathSame
  <2>2. Append(Base \o Path(b), c) = Base \o Path(c)
    <3>1. c \in DOMAIN sim.bones /\ Parent(c) # 0 /\ sim \in Sims \cup {NoSim}
      <4>1. b # 0 /\ c \in DOMAIN sim.bones
        BY <1>2, TreeTyped
      <4> QED BY <1>2, <4>1 DEF TreeInv
    <3> QED BY <1>2, <3>1, BaseTyped, Products
  <2> QED BY <1>1, <1>2, <1>5, <2>1, <2>2
<1>13. \E position \in [DOMAIN calls' -> Nat] : StackAt(position)'
  <2>1. PICK old \in [DOMAIN calls -> Nat] : StackAt(old)
    BY DEF MatrixInv
  <2>0. PICK position : position = [k \in 1..(n + 1) |-> IF k = n + 1 THEN Len(stack') ELSE old[k]]
    OBVIOUS
  <2>2. old[1] = 1 /\ old[n] = Len(stack) /\ stack[1] = <<"camera">> /\ 1 <= Len(stack)
        /\ \A j, k \in 1..n : j <= k => old[j] <= old[k]
    <3>1. old[1] = 1 /\ old[n] = Len(stack) /\ stack[1] = <<"camera">>
          /\ \A j, k \in 1..n : j <= k => old[j] <= old[k]
      BY <1>2, <2>1 DEF StackAt, n
    <3> QED BY <1>2, <3>1
  <2>3. position \in [DOMAIN calls' -> Nat]
    BY <1>2, <1>11, <2>0
  <2>4. position[n + 1] = Len(stack') /\ \A k \in 1..n : position[k] = old[k]
    BY <1>2, <2>0
  <2>5. position[1] = 1 /\ position[Len(calls')] = Len(stack') /\ stack'[1] = <<"camera">>
    BY <1>2, <1>11, <2>2, <2>4
  <2>6. \A j, k \in DOMAIN calls' : j <= k => position[j] <= position[k]
    <3> TAKE j, k \in DOMAIN calls'
    <3>0. \A i \in 1..n : old[i] \in Nat
      BY <1>2, <2>1
    <3>1. CASE j \in 1..n /\ k \in 1..n
      BY <2>2, <2>4, <3>1
    <3>2. CASE j = n + 1 /\ k = n + 1
      BY <1>11, <2>4, <3>2
    <3>3. CASE j \in 1..n /\ k = n + 1
      <4>1. position[j] <= old[n] /\ position[j] \in Nat
        BY <1>2, <2>2, <2>4, <3>0, <3>3
      <4> QED BY <1>11, <2>2, <2>4, <3>3, <4>1
    <3>4. CASE j = n + 1 /\ k \in 1..n
      BY <1>2, <3>4
    <3> QED BY <1>2, <3>1, <3>2, <3>3, <3>4
  <2>7. ASSUME NEW k \in 1..(Len(calls') - 1), NEW x \in DOMAIN children', calls'[k].bone = x
        PROVE  IF Saves(x)' THEN position[k + 1] = position[k] + 1 /\ stack'[position[k + 1]] = Base' \o Path(x)'
               ELSE position[k + 1] = position[k]
    <3>1. (Saves(x)' <=> Saves(x)) /\ Path(x)' = Path(x) /\ x \in DOMAIN children
      BY <1>1, PathSame DEF Saves
    <3>2. k \in 1..n /\ calls[k].bone = x
      BY <1>2, <2>7
    <3>3. CASE k = n
      <4>1. x = b
        BY <1>3, <3>2, <3>3
      <4>2. position[k + 1] = Len(stack') /\ position[k] = Len(stack)
        BY <1>2, <2>2, <2>4, <3>3
      <4> QED BY <1>1, <1>11, <3>1, <4>1, <4>2
    <3>4. CASE k \in 1..(n - 1)
      <4>1. k + 1 \in 1..n /\ k \in 1..(Len(calls) - 1)
        BY <1>2, <3>4 DEF n
      <4>2. IF Saves(x) THEN old[k + 1] = old[k] + 1 /\ stack[old[k + 1]] = Base \o Path(x)
            ELSE old[k + 1] = old[k]
        BY <2>1, <3>1, <3>2, <4>1 DEF StackAt
      <4>3. old[k + 1] \in 1..Len(stack)
        <5>1. old[1] <= old[k + 1] /\ old[k + 1] <= old[n]
          BY <1>2, <2>2, <4>1
        <5>2. old[k + 1] \in Nat
          BY <1>2, <2>1, <4>1
        <5> QED BY <1>11, <2>2, <5>1, <5>2
      <4>4. position[k + 1] = old[k + 1] /\ position[k] = old[k] /\ stack'[old[k + 1]] = stack[old[k + 1]]
        BY <1>11, <2>4, <3>2, <4>1, <4>3
      <4>5. CASE Saves(x)
        <5>1. position[k + 1] = position[k] + 1
          BY <4>2, <4>4, <4>5
        <5>2. stack'[position[k + 1]] = Base \o Path(x)
          BY <4>2, <4>4, <4>5
        <5> QED BY <1>1, <3>1, <4>5, <5>1, <5>2
      <4>6. CASE ~Saves(x)
        BY <3>1, <4>2, <4>4, <4>6
      <4> QED BY <4>5, <4>6
    <3>5. k = n \/ k \in 1..(n - 1)
      BY <1>2, <3>2
    <3> QED BY <3>3, <3>4, <3>5
  <2>8. \A k \in DOMAIN calls' : position[k] <= k
    <3>1. \A k \in 1..n : position[k] <= k
      BY <1>2, <2>1, <2>4 DEF StackAt
    <3>2. Len(stack') <= n + 1
      <4>1. Len(stack) <= n
        BY <1>2, <2>1, <2>2 DEF StackAt
      <4> QED BY <1>2, <1>11, <4>1
    <3> QED BY <1>2, <2>4, <3>1, <3>2
  <2>9. StackAt(position)'
    BY <2>5, <2>6, <2>7, <2>8 DEF StackAt
  <2> QED BY <2>3, <2>9
<1> QED BY <1>1, <1>2, <1>9, <1>11, <1>12, <1>13 DEF MatrixInv

LEMMA WalkCalls == TreeInv /\ PhaseInv /\ WalkInv /\ CallChild => WalkInv'
<1>1. CallChild /\ overflow \in BOOLEAN => (~overflow' => ~overflow)
  BY DEF CallChild, Push
<1> QED BY <1>1, CallCalls, CallMatrix DEF WalkInv, PhaseInv

\* The matrix that does not fit: there is a bone for each that is held.
LEMMA CallOverflows ==
    ASSUME TreeInv, PhaseInv, CallsInv, ~overflow => MatrixInv, OverflowInv, CallChild
    PROVE  OverflowInv'
<1>1. UNCHANGED sim
  BY DEF CallChild, model
<1>2. CASE overflow
  BY <1>1, <1>2 DEF OverflowInv
<1>3. CASE ~overflow /\ Full
  <2>1. PICK position \in [DOMAIN calls -> Nat] : StackAt(position)
    BY <1>3 DEF MatrixInv
  <2>2. Len(calls) \in Nat /\ Len(calls) >= 1 /\ Len(calls) \in DOMAIN calls
    BY BelowIs
  <2>3. Len(stack) <= Len(calls) /\ Len(stack) \in Nat
    BY <1>3, <2>1, <2>2 DEF StackAt, MatrixInv
  <2>4. /\ Len(calls') = Len(calls) + 1 /\ DOMAIN calls' = 1..(Len(calls) + 1)
        /\ children' = children /\ CallsInv'
    BY CallKept, CallCalls DEF CallChild, model
  <2>5. /\ calls'[Len(calls) + 1].bone \in DOMAIN children
        /\ calls'[Len(calls) + 1].bone >= Len(calls) + 1
    <3>1. Len(calls) + 1 \in DOMAIN calls'
      BY <2>2, <2>4
    <3>2. calls' \in Seq([bone : DOMAIN children, next : Nat])
      BY <2>4 DEF CallsInv
    <3>3. calls'[Len(calls) + 1] \in [bone : DOMAIN children, next : Nat]
      BY <3>1, <3>2, Element
    <3> QED BY <2>4, <3>1, <3>3 DEF CallsInv
  <2>6. DOMAIN children = 1..Len(children) /\ Len(children) \in Nat /\ Len(children) <= Len(sim.bones)
        /\ Len(sim.bones) \in Nat
    BY TreeTyped, SimTyped DEF TreeInv
  <2>7. Len(stack) + 1 >= StackDepth /\ StackDepth \in Nat
    BY <1>3, SimsAssumption DEF Full
  <2> QED BY <1>1, <2>2, <2>3, <2>5, <2>6, <2>7 DEF OverflowInv
<1>4. CASE ~overflow /\ ~Full
  BY <1>4 DEF CallChild, Push, OverflowInv
<1> QED BY <1>2, <1>3, <1>4

\* Back in the level above: its product is popped, or its only child was done.
LEMMA ReturnCalls == TreeInv /\ CallsInv /\ Return /\ Below # << >> => CallsInv'
<1> SUFFICES ASSUME TreeInv, CallsInv, Return, Below # << >> PROVE CallsInv'
  OBVIOUS
<1> DEFINE n == Len(calls)
           m == n - 1
           b == calls[m].bone
<1>1. UNCHANGED <<sim, children, phase>> /\ Base' = Base /\ calls' = Below
  BY DEF Return, Base, model
<1>2. /\ n \in Nat /\ m \in Nat /\ m >= 1 /\ m + 1 = n /\ DOMAIN calls = 1..n
      /\ calls' \in Seq([bone : DOMAIN children, next : Nat]) /\ Len(calls') = m
      /\ \A k \in 1..m : calls'[k] = calls[k]
      /\ DOMAIN calls' = 1..m
  <2>1. /\ n \in Nat /\ n >= 1 /\ DOMAIN calls = 1..n /\ n # 1
        /\ calls' \in Seq([bone : DOMAIN children, next : Nat]) /\ Len(calls') = n - 1
        /\ \A k \in 1..(n - 1) : calls'[k] = calls[k]
    BY <1>1, BelowIs
  <2>2. DOMAIN calls' = 1..(n - 1)
    BY <2>1
  <2> QED BY <2>1, <2>2
<1>3. Top'.bone = b /\ Top'.next = calls[m].next /\ Below[Len(Below)] = calls[m]
  <2>1. Top' = calls[m]
    BY <1>2 DEF Top
  <2> QED BY <1>1, <1>2, <2>1
<1>4. /\ b \in DOMAIN children /\ calls[m].next \in Nat /\ calls[m].next >= 2
      /\ calls[m].next <= Len(children[b]) + 1 /\ Len(children[b]) \in Nat
  <2>1. calls[m] \in [bone : DOMAIN children, next : Nat]
    <3>1. calls \in Seq([bone : DOMAIN children, next : Nat]) /\ m \in DOMAIN calls
      BY <1>2 DEF CallsInv
    <3> HIDE DEF m
    <3> QED BY <3>1, Element
  <2>2. m \in 1..(Len(calls) - 1) /\ m \in DOMAIN calls
    BY <1>2
  <2>3. calls[m].next >= 2 /\ calls[m].next <= Len(children[b]) + 1
    <3> HIDE DEF m
    <3> QED BY <2>2 DEF CallsInv
  <2> QED BY <2>1, <2>3, TreeTyped
<1> HIDE DEF n, m, b
<1>10. calls' # << >> /\ calls'[1].bone = 1
  <2>1. calls[1].bone = 1 /\ 1 \in 1..m
    BY <1>2 DEF CallsInv
  <2>2. Len(calls') # 0
    BY <1>2
  <2> QED BY <1>2, <2>1, <2>2
<1>11. \A k \in DOMAIN calls' : calls'[k].next <= Len(children'[calls'[k].bone]) + 1
  <2> TAKE k \in DOMAIN calls'
  <2>1. k \in DOMAIN calls /\ calls'[k] = calls[k]
    BY <1>2
  <2> QED BY <1>1, <2>1 DEF CallsInv
<1>12. \A k \in 1..(Len(calls') - 1) :
         calls'[k].next >= 2 /\ calls'[k + 1].bone = children'[calls'[k].bone][calls'[k].next - 1]
  <2> TAKE k \in 1..(Len(calls') - 1)
  <2>1. k \in 1..m /\ k + 1 \in 1..m /\ k \in 1..(Len(calls) - 1)
    BY <1>2 DEF n
  <2>2. calls[k].next >= 2 /\ calls[k + 1].bone = children[calls[k].bone][calls[k].next - 1]
    BY <2>1 DEF CallsInv
  <2> QED BY <1>1, <1>2, <2>1, <2>2
<1>13. \A k \in DOMAIN calls' : calls'[k].bone >= k
  BY <1>2 DEF CallsInv
<1> QED BY <1>1, <1>2, <1>10, <1>11, <1>12, <1>13 DEF CallsInv

LEMMA ReturnMatrix == TreeInv /\ CallsInv /\ MatrixInv /\ Return /\ Below # << >> => MatrixInv'
<1> SUFFICES ASSUME TreeInv, CallsInv, MatrixInv, Return, Below # << >> PROVE MatrixInv'
  OBVIOUS
<1> DEFINE n == Len(calls)
           m == n - 1
           b == calls[m].bone
<1>1. UNCHANGED <<sim, children, phase>> /\ Base' = Base /\ calls' = Below
  BY DEF Return, Base, model
<1>2. /\ n \in Nat /\ m \in Nat /\ m >= 1 /\ m + 1 = n /\ DOMAIN calls = 1..n
      /\ calls' \in Seq([bone : DOMAIN children, next : Nat]) /\ Len(calls') = m
      /\ \A k \in 1..m : calls'[k] = calls[k]
      /\ DOMAIN calls' = 1..m
  <2>1. /\ n \in Nat /\ n >= 1 /\ DOMAIN calls = 1..n /\ n # 1
        /\ calls' \in Seq([bone : DOMAIN children, next : Nat]) /\ Len(calls') = n - 1
        /\ \A k \in 1..(n - 1) : calls'[k] = calls[k]
    BY <1>1, BelowIs
  <2>2. DOMAIN calls' = 1..(n - 1)
    BY <2>1
  <2> QED BY <2>1, <2>2
<1>3. Top'.bone = b /\ Top'.next = calls[m].next /\ Below[Len(Below)] = calls[m]
  <2>1. Top' = calls[m]
    BY <1>2 DEF Top
  <2> QED BY <1>1, <1>2, <2>1
<1>4. /\ b \in DOMAIN children /\ calls[m].next \in Nat /\ calls[m].next >= 2
      /\ calls[m].next <= Len(children[b]) + 1 /\ Len(children[b]) \in Nat
  <2>1. calls[m] \in [bone : DOMAIN children, next : Nat]
    <3>1. calls \in Seq([bone : DOMAIN children, next : Nat]) /\ m \in DOMAIN calls
      BY <1>2 DEF CallsInv
    <3> HIDE DEF m
    <3> QED BY <3>1, Element
  <2>2. m \in 1..(Len(calls) - 1) /\ m \in DOMAIN calls
    BY <1>2
  <2>3. calls[m].next >= 2 /\ calls[m].next <= Len(children[b]) + 1
    <3> HIDE DEF m
    <3> QED BY <2>2 DEF CallsInv
  <2> QED BY <2>1, <2>3, TreeTyped
<1>5. PICK position \in [DOMAIN calls -> Nat] : StackAt(position)
  BY DEF MatrixInv
<1>6. /\ position[1] = 1 /\ position[n] = Len(stack) /\ stack[1] = <<"camera">>
      /\ \A j, k \in 1..n : j <= k => position[j] <= position[k]
      /\ \A k \in 1..n : position[k] \in Nat
      /\ IF Saves(b) THEN position[n] = position[m] + 1 /\ stack[position[n]] = Base \o Path(b)
         ELSE position[n] = position[m]
  <2>1. position[1] = 1 /\ position[n] = Len(stack) /\ stack[1] = <<"camera">>
        /\ \A j, k \in 1..n : j <= k => position[j] <= position[k]
    BY <1>2, <1>5 DEF StackAt
  <2>2. m \in 1..(Len(calls) - 1)
    BY <1>2
  <2>3. IF Saves(b) THEN position[m + 1] = position[m] + 1 /\ stack[position[m + 1]] = Base \o Path(b)
        ELSE position[m + 1] = position[m]
    <3> HIDE DEF m
    <3> QED BY <1>4, <1>5, <2>2 DEF StackAt
  <2>4. \A k \in 1..n : position[k] \in Nat
    BY <1>2, <1>5
  <2> HIDE DEF m, n, b
  <2> QED BY <1>2, <2>1, <2>3, <2>4
<1>7. stack \in Seq(Seq(Transform)) /\ matrix \in Seq(Transform)
  BY DEF MatrixInv
<1>8. IF Saves(b) THEN Pop ELSE UNCHANGED <<matrix, stack, overflow>>
  BY <1>3 DEF Return
<1> HIDE DEF n, m, b
<1>9. /\ stack' \in Seq(Seq(Transform)) /\ Len(stack') = position[m] /\ matrix' \in Seq(Transform)
      /\ \A i \in 1..position[m] : stack'[i] = stack[i]
      /\ Saves(b) => matrix' = Base \o Path(b)
  <2>1. position[m] \in Nat /\ position[m] >= 1
    BY <1>2, <1>6
  <2>2. CASE Saves(b)
    <3>1. Len(stack) = position[m] + 1 /\ stack # << >>
      BY <1>6, <2>1, <2>2
    <3>2. matrix' = stack[Len(stack)] /\ stack' = SubSeq(stack, 1, Len(stack) - 1)
      BY <1>8, <2>2, <3>1 DEF Pop
    <3>3. matrix' \in Seq(Transform) /\ stack' \in Seq(Seq(Transform)) /\ Len(stack') = Len(stack) - 1
          /\ \A k \in 1..(Len(stack) - 1) : stack'[k] = stack[k]
      BY <1>7, <3>1, <3>2, WithoutLast
    <3>4. Len(stack) - 1 = position[m]
      BY <2>1, <3>1
    <3> QED BY <1>6, <2>2, <3>2, <3>3, <3>4
  <2>3. CASE ~Saves(b)
    BY <1>6, <1>7, <1>8, <2>3
  <2> QED BY <2>2, <2>3
<1>13. ASSUME NEW x \in DOMAIN children', Top'.bone = x
       PROVE  IF Top'.next = 0 THEN Append(matrix', x) = Base' \o Path(x)'
              ELSE Saves(x)' \/ Top'.next # 2 => matrix' = Base' \o Path(x)'
  <2>1. (Saves(x)' <=> Saves(x)) /\ Path(x)' = Path(x) /\ x = b
    BY <1>1, <1>3, <1>13, PathSame DEF Saves
  <2>2. Saves(b) \/ Top'.next = 2
    BY <1>3, <1>4 DEF Saves
  <2>3. Top'.next # 0
    BY <1>3, <1>4
  <2> QED BY <1>1, <1>9, <2>1, <2>2, <2>3
<1>14. \E pos2 \in [DOMAIN calls' -> Nat] : StackAt(pos2)'
  <2>1. PICK pos2 : pos2 = [k \in 1..m |-> position[k]]
    OBVIOUS
  <2>2. pos2 \in [DOMAIN calls' -> Nat] /\ \A k \in 1..m : pos2[k] = position[k]
    BY <1>2, <1>6, <2>1
  <2>3. pos2[1] = 1 /\ pos2[Len(calls')] = Len(stack') /\ stack'[1] = <<"camera">>
    <3>1. position[1] <= position[m] /\ position[m] \in Nat
      BY <1>2, <1>6
    <3> QED BY <1>2, <1>6, <1>9, <2>2, <3>1
  <2>4. \A j, k \in DOMAIN calls' : j <= k => pos2[j] <= pos2[k]
    BY <1>2, <1>6, <2>2
  <2>5. ASSUME NEW k \in 1..(Len(calls') - 1), NEW x \in DOMAIN children', calls'[k].bone = x
        PROVE  IF Saves(x)' THEN pos2[k + 1] = pos2[k] + 1 /\ stack'[pos2[k + 1]] = Base' \o Path(x)'
               ELSE pos2[k + 1] = pos2[k]
    <3>1. (Saves(x)' <=> Saves(x)) /\ Path(x)' = Path(x) /\ x \in DOMAIN children
      BY <1>1, PathSame DEF Saves
    <3>2. k \in 1..m /\ k + 1 \in 1..m /\ k \in 1..(Len(calls) - 1) /\ calls[k].bone = x
      BY <1>2, <2>5 DEF n
    <3>3. IF Saves(x) THEN position[k + 1] = position[k] + 1 /\ stack[position[k + 1]] = Base \o Path(x)
          ELSE position[k + 1] = position[k]
      BY <1>5, <3>1, <3>2 DEF StackAt
    <3>4. position[k + 1] \in 1..position[m]
      <4>1. position[1] <= position[k + 1] /\ position[k + 1] <= position[m] /\ position[k + 1] \in Nat
        BY <1>2, <1>6, <3>2
      <4> QED BY <1>2, <1>6, <4>1
    <3>5. stack'[position[k + 1]] = stack[position[k + 1]]
      BY <1>9, <3>4
    <3> QED BY <1>1, <2>2, <3>1, <3>2, <3>3, <3>5
  <2>6. StackAt(pos2)'
    <3>1. \A k \in DOMAIN calls' : pos2[k] <= k
      BY <1>2, <1>5, <2>2 DEF StackAt
    <3> QED BY <2>3, <2>4, <2>5, <3>1 DEF StackAt
  <2> QED BY <2>2, <2>6
<1> QED BY <1>1, <1>2, <1>9, <1>13, <1>14 DEF MatrixInv

LEMMA WalkReturns == TreeInv /\ WalkInv /\ Return /\ Below # << >> => WalkInv'
<1>1. Return => overflow' = overflow
  BY DEF Return, Pop
<1> QED BY <1>1, ReturnCalls, ReturnMatrix DEF WalkInv

LEMMA WalkStep ==
    TreeInv /\ SceneInv /\ (RendererNext \/ UNCHANGED rvars) => (Walking => WalkInv)'
<1> SUFFICES ASSUME TreeInv, SceneInv, RendererNext \/ UNCHANGED rvars, Walking' PROVE WalkInv'
  OBVIOUS
<1>0. PhaseInv /\ (Walking => WalkInv)
  BY DEF SceneInv
<1>1. CASE Walk
  BY <1>0, <1>1, WalkBegins
<1>2. CASE VisitBone
  <2>1. WalkInv
    BY <1>0, <1>2 DEF VisitBone, PhaseInv
  <2> QED BY <1>2, <2>1, WalkVisits
<1>3. CASE CallChild
  <2>1. WalkInv
    BY <1>0, <1>3 DEF CallChild, PhaseInv
  <2> QED BY <1>0, <1>3, <2>1, WalkCalls
<1>4. CASE Return
  <2>1. WalkInv
    BY <1>0, <1>4 DEF Return, PhaseInv
  <2>2. Below # << >>
    BY <1>4 DEF Return, Walking
  <2> QED BY <1>4, <2>1, <2>2, WalkReturns
<1>5. CASE UNCHANGED rvars
  <2>1. UNCHANGED <<sim, children, phase, calls, matrix, stack, overflow>>
    BY <1>5 DEF rvars, model, scene
  <2>2. WalkInv /\ Base' = Base /\ Top' = Top
    BY <1>0, <2>1 DEF Walking, Base, Top
  <2>3. \A x \in DOMAIN children : (Saves(x)' <=> Saves(x)) /\ Path(x)' = Path(x)
    BY <2>1, PathSame DEF Saves
  <2>4. ASSUME NEW position, StackAt(position) PROVE StackAt(position)'
    BY <2>1, <2>2, <2>3, <2>4 DEF StackAt
  <2>5. CallsInv'
    BY <2>1, <2>2 DEF WalkInv, CallsInv
  <2>6. ~overflow => MatrixInv'
    BY <2>1, <2>2, <2>3, <2>4 DEF WalkInv, MatrixInv
  <2> QED BY <2>1, <2>5, <2>6 DEF WalkInv
<1>6. ~Demo
  BY <1>0 DEF Demo, Open, StepOk, StepFails, F11Down, KeyDown, KeyUp, Close, Quit, Message, PhaseInv, Walking
<1> QED BY <1>0, <1>1, <1>2, <1>3, <1>4, <1>5, <1>6
        DEF RendererNext, NotRead, LoadSkeleton, AddBone, LoadMesh, LoadAnimation, BeginScene, BlendVertices,
            WalkNothing, EndScene, Startup, PhaseInv, Walking

-----------------------------------------------------------------------------
(* No bone below the first is left out. *)

LEMMA ThroughChild ==
    ASSUME TreeInv, Loaded, NEW a \in DOMAIN children, NEW b \in DOMAIN sim.bones, On(a, b), a # b
    PROVE  \E c \in DOMAIN children : On(c, b) /\ \E j \in DOMAIN children[a] : children[a][j] = c
<1>1. sim \in Sims \cup {NoSim} /\ DOMAIN children = DOMAIN sim.bones
  BY TreeTyped DEF TreeInv
<1>2. PICK c \in DOMAIN sim.bones : Parent(c) = a /\ On(c, b)
  BY <1>1, NextOnPath
<1> QED BY <1>1, <1>2 DEF TreeInv

LEMMA PlacedSame ==
    ASSUME UNCHANGED <<sim, vertices>>, NEW b
    PROVE  PlacedFor(b)' <=> PlacedFor(b)
BY DEF PlacedFor, IsBinding

\* A visit places what is bound to the bone and takes nothing away.
LEMMA VisitPlaces ==
    ASSUME VisitBone, phase = "vertices"
    PROVE  \A b : b = Top.bone \/ PlacedFor(b) => PlacedFor(b)'
<1> DEFINE name == sim.bones[Top.bone].name
           m0 == MeshIndex(name)
<1>1. /\ sim' = sim
      /\ vertices' = [vertices EXCEPT ![m0] =
                        [k \in DOMAIN vertices[m0] |-> IF IsBinding(m0, k, name) THEN "placed" ELSE vertices[m0][k]]]
  BY DEF VisitBone
<1> HIDE DEF m0, name
<1>2. /\ DOMAIN vertices' = DOMAIN vertices
      /\ \A m \in DOMAIN vertices : DOMAIN vertices'[m] = DOMAIN vertices[m]
      /\ \A m \in DOMAIN vertices : \A k \in DOMAIN vertices[m] :
            vertices'[m][k] = IF m = m0 /\ IsBinding(m, k, name) THEN "placed" ELSE vertices[m][k]
  BY <1>1
<1>3. ASSUME NEW b,
             \A m \in DOMAIN vertices : \A k \in DOMAIN vertices[m] :
                m = MeshIndex(sim.bones[b].name) /\ IsBinding(m, k, sim.bones[b].name)
                   => vertices'[m][k] = "placed"
      PROVE  PlacedFor(b)'
  <2>1. \A m, k : IsBinding(m, k, sim.bones[b].name)' <=> IsBinding(m, k, sim.bones[b].name)
    BY <1>1 DEF IsBinding
  <2>2. MeshIndex(sim.bones[b].name)' = MeshIndex(sim.bones[b].name)
    BY <1>1
  <2> QED BY <1>2, <1>3, <2>1, <2>2 DEF PlacedFor
<1>4. ASSUME NEW b, PlacedFor(b) PROVE PlacedFor(b)'
  BY <1>2, <1>3, <1>4 DEF PlacedFor
<1>5. ASSUME NEW b, b = Top.bone PROVE PlacedFor(b)'
  <2>1. MeshIndex(sim.bones[b].name) = m0 /\ sim.bones[b].name = name
    BY <1>5 DEF m0, name
  <2> QED BY <1>2, <1>3, <2>1
<1> QED BY <1>4, <1>5

\* What a walk step does for one bone below the first.
LEMMA CoverWalks ==
    ASSUME TreeInv, PhaseInv, Walking => WalkInv, NEW b \in DOMAIN sim.bones, Path(b)[1] = 1,
           phase = "vertices" => PlacedFor(b) \/ ToCome(b),
           Walk \/ VisitBone \/ CallChild \/ Return
    PROVE  /\ phase' = "vertices" => PlacedFor(b)' \/ ToCome(b)'
           /\ phase' = "blend" => PlacedFor(b)'
<1>1. /\ UNCHANGED <<sim, children>> /\ Loaded /\ sim \in Sims \cup {NoSim}
      /\ DOMAIN children = DOMAIN sim.bones
  <2>1. UNCHANGED <<sim, children>> /\ pc = "scene"
    BY DEF Walk, VisitBone, CallChild, Return, model
  <2> QED BY <2>1, TreeTyped DEF PhaseInv, TreeInv
<1>2. \A a, c : On(a, c)' <=> On(a, c)
  BY <1>1, PathSame
<1>3. \A x \in DOMAIN children : Len(children[x]) \in Nat /\ DOMAIN children[x] = 1..Len(children[x])
  BY TreeTyped
<1>4. CASE Walk
  <2>1. phase' = "vertices" \/ phase' = "bones"
    BY <1>4 DEF Walk
  <2>2. On(1, b) /\ 1 \in DOMAIN children
    BY <1>1, <1>4, OnItself, TreeTyped DEF Walk
  <2>3. calls' = <<[bone |-> 1, next |-> 0]>>
    BY <1>4 DEF Walk, Call
  <2>4. DOMAIN calls' = {1} /\ calls'[1].bone = 1 /\ calls'[1].next = 0 /\ Top'.bone = 1 /\ Top'.next = 0
    BY <2>3 DEF Top
  <2>5. CASE b = 1
    BY <2>1, <2>4, <2>5 DEF ToCome
  <2>6. CASE b # 1
    <3>1. PICK c \in DOMAIN children : On(c, b) /\ \E j \in DOMAIN children[1] : children[1][j] = c
      BY <1>1, <2>2, <2>6, ThroughChild
    <3>2. PICK j \in DOMAIN children[1] : children[1][j] = c
      BY <3>1
    <3>3. j >= 0
      BY <1>3, <2>2
    <3>4. ToCome(b)'
      BY <1>1, <1>2, <2>4, <3>1, <3>2, <3>3 DEF ToCome
    <3> QED BY <2>1, <3>4
  <2> QED BY <2>5, <2>6
<1>5. CASE VisitBone /\ phase = "vertices"
  <2>1. CallsInv /\ phase' = phase
    BY <1>5 DEF Walking, VisitBone, WalkInv
  <2>2. /\ DOMAIN calls' = DOMAIN calls /\ \A k \in DOMAIN calls : calls'[k].bone = calls[k].bone
        /\ \A k \in 1..(Len(calls) - 1) : calls'[k] = calls[k]
        /\ Top'.bone = Top.bone /\ Top'.next = 1 /\ Len(calls') = Len(calls)
    BY <1>5, <2>1, VisitKept
  <2>3. b = Top.bone \/ PlacedFor(b) => PlacedFor(b)'
    BY <1>5, VisitPlaces
  <2>4. CASE PlacedFor(b)
    BY <1>5, <2>1, <2>3, <2>4
  <2>5. CASE Top.bone = b
    BY <1>5, <2>1, <2>3, <2>5
  <2>6. ASSUME NEW c \in DOMAIN children, On(c, b), NEW l \in DOMAIN calls,
               NEW j \in DOMAIN children[calls[l].bone], j >= calls[l].next, children[calls[l].bone][j] = c
        PROVE  ToCome(b)'
    <3>1. calls[l].bone \in DOMAIN children
      <4>1. calls[l] \in [bone : DOMAIN children, next : Nat]
        BY <2>1, Element DEF CallsInv
      <4> QED BY <4>1
    <3>2. j >= calls'[l].next
      <4>1. CASE l = Len(calls)
        <5>1. calls'[l].next = 1
          BY <2>2, <4>1 DEF Top
        <5> QED BY <1>3, <3>1, <5>1
      <4>2. CASE l \in 1..(Len(calls) - 1)
        BY <2>2, <2>6, <4>2
      <4> QED BY <2>1, <4>1, <4>2, BelowIs
    <3> QED BY <1>1, <1>2, <2>2, <2>6, <3>2 DEF ToCome
  <2> QED BY <1>5, <2>1, <2>4, <2>5, <2>6 DEF ToCome
<1>6. CASE CallChild /\ phase = "vertices"
  <2>1. CallsInv /\ phase' = phase /\ UNCHANGED vertices
    BY <1>6 DEF Walking, CallChild, model, WalkInv
  <2> DEFINE n == Len(calls)
             d == children[Top.bone][Top.next]
  <2>2. /\ n \in Nat /\ n >= 1 /\ DOMAIN calls = 1..n
        /\ Top.bone \in DOMAIN children /\ Top.next \in 1..Len(children[Top.bone])
        /\ d \in DOMAIN children
        /\ Len(calls') = n + 1 /\ DOMAIN calls' = 1..(n + 1)
        /\ \A k \in 1..n : calls'[k].bone = calls[k].bone
        /\ \A k \in 1..(n - 1) : calls'[k] = calls[k]
        /\ calls'[n].next = Top.next + 1
        /\ calls'[n + 1].bone = d /\ calls'[n + 1].next = 0
        /\ Top'.bone = d /\ Top'.next = 0
    BY <1>6, <2>1, CallKept
  <2>3. CASE PlacedFor(b)
    BY <1>1, <1>6, <2>1, <2>3, PlacedSame
  <2>4. Top.next # 0 /\ Top.next \in Nat
    BY <1>3, <2>2
  <2>5. ASSUME NEW c \in DOMAIN children, On(c, b), NEW l \in DOMAIN calls,
               NEW j \in DOMAIN children[calls[l].bone], j >= calls[l].next, children[calls[l].bone][j] = c
        PROVE  ToCome(b)'
    <3> HIDE DEF d
    <3>1. calls[l].bone \in DOMAIN children
      <4>1. calls[l] \in [bone : DOMAIN children, next : Nat]
        BY <2>1, Element DEF CallsInv
      <4> QED BY <4>1
    <3>2. j \in Nat
      BY <1>3, <3>1
    <3>3. CASE l \in 1..(n - 1)
      <4>1. l \in DOMAIN calls' /\ calls'[l] = calls[l]
        BY <2>2, <3>3
      <4> QED BY <1>1, <1>2, <2>5, <4>1 DEF ToCome
    <3>4. CASE l = n /\ j # Top.next
      <4>1. l \in DOMAIN calls' /\ calls'[l].bone = calls[l].bone /\ calls'[l].next = Top.next + 1
        BY <2>2, <3>4
      <4>2. j >= calls'[l].next
        BY <2>4, <2>5, <3>2, <3>4, <4>1 DEF Top
      <4> QED BY <1>1, <1>2, <2>5, <4>1, <4>2 DEF ToCome
    <3>5. CASE l = n /\ j = Top.next
      <4>1. c = d
        BY <2>5, <3>5 DEF Top, d
      <4>2. CASE b = d
        BY <2>2, <4>2 DEF ToCome
      <4>3. CASE b # d
        <5>1. PICK c2 \in DOMAIN children : On(c2, b) /\ \E i \in DOMAIN children[d] : children[d][i] = c2
          BY <1>1, <2>2, <2>5, <4>1, <4>3, ThroughChild
        <5>2. PICK i \in DOMAIN children[d] : children[d][i] = c2
          BY <5>1
        <5>3. i >= calls'[n + 1].next /\ n + 1 \in DOMAIN calls'
          BY <1>3, <2>2
        <5> QED BY <1>1, <1>2, <2>2, <5>1, <5>2, <5>3 DEF ToCome
      <4> QED BY <4>2, <4>3
    <3> QED BY <2>2, <3>3, <3>4, <3>5
  <2> QED BY <1>6, <2>1, <2>3, <2>4, <2>5 DEF ToCome
<1>7. CASE Return /\ phase = "vertices"
  <2>1. CallsInv /\ UNCHANGED vertices /\ calls' = Below /\ Top.next = Len(children[Top.bone]) + 1
    BY <1>7 DEF Walking, Return, model, WalkInv
  <2>2. /\ Len(calls) \in Nat /\ Len(calls) >= 1 /\ DOMAIN calls = 1..Len(calls)
        /\ Len(calls') = Len(calls) - 1 /\ \A k \in 1..(Len(calls) - 1) : calls'[k] = calls[k]
        /\ Top.bone \in DOMAIN children
        /\ calls' \in Seq([bone : DOMAIN children, next : Nat])
    BY <2>1, BelowIs
  <2>3. CASE PlacedFor(b)
    BY <1>1, <1>7, <2>1, <2>3, PlacedSame
  <2>4. Top.next # 0
    BY <1>3, <2>1, <2>2
  <2>5. ASSUME NEW c \in DOMAIN children, On(c, b), NEW l \in DOMAIN calls,
               NEW j \in DOMAIN children[calls[l].bone], j >= calls[l].next, children[calls[l].bone][j] = c
        PROVE  ToCome(b)' /\ Below # << >>
    <3>1. l # Len(calls)
      <4> SUFFICES ASSUME l = Len(calls) PROVE FALSE
        OBVIOUS
      <4>1. j \in DOMAIN children[Top.bone] /\ j >= Len(children[Top.bone]) + 1
        BY <2>1, <2>5 DEF Top
      <4> QED BY <1>3, <2>2, <4>1
    <3>2. l \in 1..(Len(calls) - 1)
      BY <2>2, <3>1
    <3>3. l \in DOMAIN calls' /\ calls'[l] = calls[l]
      <4>1. DOMAIN calls' = 1..(Len(calls) - 1)
        BY <2>2
      <4> QED BY <2>2, <3>2, <4>1
    <3>4. Below # << >>
      BY <2>1, <2>2, <3>2
    <3> QED BY <1>1, <1>2, <2>5, <3>3, <3>4 DEF ToCome
  <2>6. phase' = "vertices" \/ Below = << >>
    BY <1>7 DEF Return
  <2> QED BY <1>7, <2>3, <2>4, <2>5, <2>6 DEF ToCome, Return
<1>8. CASE phase = "bones" /\ (VisitBone \/ CallChild \/ Return)
  BY <1>8 DEF VisitBone, CallChild, Return
<1>9. VisitBone \/ CallChild \/ Return => phase \in {"vertices", "bones"}
  BY DEF VisitBone, CallChild, Return, PhaseInv, Walking
<1> QED BY <1>4, <1>5, <1>6, <1>7, <1>8, <1>9

LEMMA CoverStep == TreeInv /\ SceneInv /\ (RendererNext \/ UNCHANGED rvars) => CoverInv'
<1> SUFFICES ASSUME TreeInv, SceneInv, RendererNext \/ UNCHANGED rvars PROVE CoverInv'
  OBVIOUS
<1>0. PhaseInv /\ (Walking => WalkInv) /\ CoverInv
  BY DEF SceneInv
<1>1. CASE Walk \/ VisitBone \/ CallChild \/ Return
  <2>1. sim' = sim
    BY <1>1 DEF Walk, VisitBone, CallChild, Return, model
  <2> SUFFICES ASSUME NEW b \in DOMAIN sim'.bones, (Path(b)[1] = 1)'
               PROVE  /\ phase' = "vertices" => PlacedFor(b)' \/ ToCome(b)'
                      /\ phase' = "blend" => PlacedFor(b)'
    BY DEF CoverInv
  <2>2. b \in DOMAIN sim.bones /\ Path(b)[1] = 1
    BY <2>1, PathSame
  <2>3. phase = "vertices" => PlacedFor(b) \/ ToCome(b)
    BY <1>0, <2>2 DEF CoverInv
  <2> QED BY <1>0, <1>1, <2>2, <2>3, CoverWalks
<1>2. CASE phase' \notin {"vertices", "blend"}
  BY <1>2 DEF CoverInv
<1>3. CASE UNCHANGED <<sim, children, phase, calls, vertices>>
  <2>1. \A b : (Path(b)' = Path(b)) /\ (PlacedFor(b)' <=> PlacedFor(b)) /\ (\A a : On(a, b)' <=> On(a, b))
    BY <1>3, PathSame, PlacedSame
  <2>2. \A b : ToCome(b) => ToCome(b)'
    BY <1>3, <2>1 DEF ToCome, Top
  <2> QED BY <1>0, <1>3, <2>1, <2>2 DEF CoverInv
<1>4. Demo => UNCHANGED <<sim, children, phase, calls, vertices>>
  BY DEF Demo, model, scene
<1>5. RendererNext => \/ Demo \/ Walk \/ VisitBone \/ CallChild \/ Return
                      \/ UNCHANGED <<sim, children, phase, calls, vertices>>
                      \/ phase' \notin {"vertices", "blend"}
  BY <1>0 DEF RendererNext, NotRead, LoadSkeleton, AddBone, LoadMesh, LoadAnimation, BeginScene, BlendVertices,
              WalkNothing, EndScene, model, scene, PhaseInv
<1>6. UNCHANGED rvars => UNCHANGED <<sim, children, phase, calls, vertices>>
  BY DEF rvars, model, scene
<1> QED BY <1>1, <1>2, <1>3, <1>4, <1>5, <1>6

-----------------------------------------------------------------------------
(* Placed *)

LEMMA SceneStart == RendererInit => TreeInv /\ SceneInv
<1> SUFFICES ASSUME RendererInit PROVE TreeInv /\ SceneInv
  OBVIOUS
<1>1. /\ sim = NoSim /\ children = << >> /\ pc = "open" /\ phase = "skeleton" /\ calls = << >>
      /\ stack = << >> /\ overflow = FALSE
  BY DEF RendererInit, DemoInit
<1>2. Len(children) = 0 /\ DOMAIN children = {} /\ children \in Seq(Seq(Nat)) /\ sim.bones = << >>
  BY <1>1 DEF NoSim
<1>3. TreeInv
  BY <1>1, <1>2 DEF TreeInv
<1>4. PhaseInv /\ ~Walking
  BY <1>1 DEF PhaseInv, Walking
<1>5. CoverInv
  BY <1>1 DEF CoverInv
<1> QED BY <1>1, <1>3, <1>4, <1>5 DEF SceneInv, OverflowInv

LEMMA OverflowStep == TreeInv /\ SceneInv /\ (RendererNext \/ UNCHANGED rvars) => OverflowInv'
<1> SUFFICES ASSUME TreeInv, SceneInv, RendererNext \/ UNCHANGED rvars PROVE OverflowInv'
  OBVIOUS
<1>0. PhaseInv /\ (Walking => WalkInv) /\ OverflowInv
  BY DEF SceneInv
<1>1. CASE CallChild
  <2>1. Walking
    BY <1>0, <1>1 DEF CallChild, PhaseInv
  <2> QED BY <1>0, <1>1, <2>1, CallOverflows DEF WalkInv
<1>2. CASE Walk
  <2>1. ~overflow => ~Full
    <3> SUFFICES ASSUME ~overflow PROVE ~Full
      OBVIOUS
    <3>1. stack = << >>
      BY <1>0, <1>2 DEF Walk, PhaseInv, Walking
    <3>2. Len(stack) = 0
      BY <3>1
    <3> QED BY <3>2, SimsAssumption DEF Full
  <2>2. overflow' = overflow /\ UNCHANGED sim
    BY <1>0, <1>2, <2>1 DEF Walk, Push, model, PhaseInv
  <2> QED BY <1>0, <2>2 DEF OverflowInv
<1>3. CASE LoadSkeleton
  BY <1>0, <1>3 DEF LoadSkeleton, PhaseInv, scene, OverflowInv
<1>4. CASE UNCHANGED <<sim, overflow>>
  BY <1>0, <1>4 DEF OverflowInv
<1> QED BY <1>1, <1>2, <1>3, <1>4
        DEF RendererNext, rvars, scene, model, Demo, NotRead, AddBone, LoadMesh, LoadAnimation, BeginScene,
            WalkNothing, VisitBone, Return, Pop, BlendVertices, EndScene

LEMMA SceneStep ==
    TreeInv /\ SceneInv /\ (RendererNext \/ UNCHANGED rvars) => TreeInv' /\ SceneInv'
<1> SUFFICES ASSUME TreeInv, SceneInv, RendererNext \/ UNCHANGED rvars PROVE TreeInv' /\ SceneInv'
  OBVIOUS
<1>1. TreeInv'
  BY TreeStep DEF SceneInv
<1>2. PhaseInv'
  BY PhaseStep
<1>3. (Walking => WalkInv)'
  BY WalkStep
<1>4. CoverInv'
  BY CoverStep
<1>5. OverflowInv'
  BY OverflowStep
<1> QED BY <1>1, <1>2, <1>3, <1>4, <1>5 DEF SceneInv

LEMMA SceneImplies == TreeInv /\ SceneInv => Placed
<1> SUFFICES ASSUME TreeInv, SceneInv PROVE Placed
  OBVIOUS
<1>1. calls # << >> /\ Top.next = 1 /\ ~overflow =>
         matrix = (IF phase = "bones" THEN <<"camera">> ELSE << >>) \o Path(Top.bone)
  <2> SUFFICES ASSUME calls # << >>, Top.next = 1, ~overflow PROVE matrix = Base \o Path(Top.bone)
    BY DEF Base
  <2>1. CallsInv /\ MatrixInv
    BY DEF SceneInv, PhaseInv, WalkInv
  <2>2. Top.bone \in DOMAIN children
    BY <2>1, BelowIs
  <2> QED BY <2>1, <2>2 DEF MatrixInv
<1>2. phase \in {"blend", "drawn"} /\ ~overflow => stack = << >> /\ matrix = <<"camera">>
  BY DEF SceneInv, PhaseInv, Walking
<1>3. ASSUME phase = "blend", NEW m \in DOMAIN vertices, NEW k \in DOMAIN vertices[m], Bound(m, k)
      PROVE  vertices[m][k] = "placed"
  <2>1. PICK b \in DOMAIN sim.bones :
          /\ Path(b)[1] = 1
          /\ m = MeshIndex(sim.bones[b].name) /\ IsBinding(m, k, sim.bones[b].name)
    BY <1>3 DEF Bound
  <2>2. PlacedFor(b)
    BY <1>3, <2>1 DEF SceneInv, CoverInv
  <2> QED BY <2>1, <2>2 DEF PlacedFor
<1>4. \A b \in DOMAIN children : Len(children[b]) <= Len(sim.bones) - b
  <2> TAKE b \in DOMAIN children
  <2>1. Len(children[b]) <= Len(children) - b /\ Len(children) <= Len(sim.bones)
    BY DEF TreeInv
  <2>2. /\ b \in Nat /\ Len(children[b]) \in Nat /\ Len(children) \in Nat /\ Len(sim.bones) \in Nat
    BY TreeTyped, SimTyped DEF TreeInv
  <2> QED BY <2>1, <2>2
<1> QED BY <1>1, <1>2, <1>3, <1>4 DEF Placed, SceneInv, OverflowInv

(* Every bone is visited with the product of the transforms on its path,   *)
(* for every skeleton, one of no bones included, as long as the matrices   *)
(* fit in GL's stack; they do if it has fewer bones than the stack has     *)
(* entries.  The camera is there again after it, and what is blended was   *)
(* placed in the same frame.                                               *)
THEOREM BonesPlaced == Spec => []Placed
<1>1. Init => TreeInv /\ SceneInv
  BY SceneStart DEF Init
<1>2. TreeInv /\ SceneInv /\ [Next]_vars => (TreeInv /\ SceneInv)'
  BY SceneStep DEF Next, vars
<1> QED BY <1>1, <1>2, SceneImplies, PTL DEF Spec

=============================================================================
