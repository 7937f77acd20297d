----------------------------- MODULE HitProofs -----------------------------
(***************************************************************************)
(* Proofs about HitTools, for every set of binaries, every capacity of the *)
(* list, every set of labels and every size of a section that has room for *)
(* a word: what hitdump touches (DumpInside) and what the relocations and  *)
(* symbols of hitasm lead to (Relocatable).                                *)
(***************************************************************************)
EXTENDS HitTools, WellFoundedInduction, TLAPS

Kinds == {"variable", "byte", "dword", "address", "jump", "none"}

Everywhere == {"arguments", "read", "open", "failed", "done", "undefined"}
DumpPlaces == {"header", "hit", "evt", "hsm", "hot", "dump", "dumped"}
AsmPlaces  == {"line", "token", "eol", "skip", "datum", "data", "operand", "constant", "object"}

\* Each tool has places of its own.
Control ==
    /\ tool \in {"hitdump", "hitasm", "hitld"}
    /\ tool = "hitdump" => pc \in Everywhere \union DumpPlaces
    /\ tool = "hitasm" => pc \in Everywhere \union {"sections"} \union AsmPlaces
    /\ tool = "hitld" => pc \in Everywhere \union {"link"}

-----------------------------------------------------------------------------
(* The inductive invariant of hitasm. *)

Symbol == [name : Names, value : Nat, line : BOOLEAN]
Reloc  == [offset : Nat, index : Nat, label : Names]

Starting == {"arguments", "read", "open", "sections"}

\* A section in use has room for a word when it doubles.
Room ==
    /\ Text \in [Position : Nat, Size : Nat] /\ Text.Position <= Text.Size
    /\ pc \in Starting => Text.Position = 0
    /\ pc \in AsmPlaces => Text.Size >= 4

Typed == symbols \in Seq(Symbol) /\ relocs \in Seq(Reloc) /\ defs \in [Names -> Seq(Nat)]

\* What is used is named, and its name is kept at its index.
Resolved ==
    \A r \in DOMAIN relocs :
        /\ relocs[r].offset + 4 <= Text.Position
        /\ relocs[r].index - FirstSymbol + 1 \in DOMAIN symbols
        /\ symbols[relocs[r].index - FirstSymbol + 1].name = relocs[r].label

Apart == \A r \in DOMAIN relocs : r > 1 => relocs[r - 1].offset + 4 <= relocs[r].offset

Distinct == \A i, j \in DOMAIN symbols : symbols[i].name = symbols[j].name => i = j

\* A symbol has a value once it is defined, and all definitions but the last
\* were at 0, which is how they could be repeated.
Valued ==
    \A i \in DOMAIN symbols :
        LET places == defs[symbols[i].name]
        IN IF places = << >> THEN symbols[i].value = 0
           ELSE /\ symbols[i].value = places[Len(places)]
                /\ \A d \in 1 .. Len(places) - 1 : places[d] = 0

Known == \A l \in Names : defs[l] # << >> => \E i \in DOMAIN symbols : symbols[i].name = l

\* The operands that are asked for; one that is read is of some kind.
Wanted ==
    /\ wanted \in Seq(Kinds)
    /\ pc \in {"operand", "constant"} => wanted # << >>
    /\ pc = "constant" => Head(wanted) # "none"

Cleared == Done => \A i \in DOMAIN symbols : ~symbols[i].line

Object == Typed /\ Resolved /\ Apart /\ Distinct /\ Valued /\ Known

AsmInv == Room /\ Object /\ Wanted /\ Cleared

-----------------------------------------------------------------------------
(* The inductive invariant of hitdump. *)

\* The bytes of up to three operands.
Behind(ops) ==
    (IF Len(ops) >= 1 THEN OperandSize(ops[1]) ELSE 0)
    + (IF Len(ops) >= 2 THEN OperandSize(ops[2]) ELSE 0)
    + (IF Len(ops) >= 3 THEN OperandSize(ops[3]) ELSE 0)

\* A jump, whose size is chosen when it is read, is an instruction's last.
Operands ==
    /\ operands \in Seq(Kinds \ {"none"}) /\ Len(operands) <= 3
    /\ \A i \in DOMAIN operands : operands[i] = "jump" => Len(operands) = 1

Opening == {"arguments", "read", "open", "header"}

List == /\ count \in Nat /\ allocated \in Nat /\ count <= allocated /\ (count > 0 => made)
        /\ pc \in Opening => count = 0
        /\ pc \in DumpPlaces \ {"header"} => allocated >= 1

Shape ==
    /\ hit \in Hits \union {NoHit} /\ SymbolTable \in {0, hit.ENTP}
    /\ pc \in Opening => SymbolTable = 0
    /\ pc \in DumpPlaces \ {"header"} => hit \in Hits
    /\ tool = "hitdump" /\ pc = "undefined" => Overcounted \/ Unended \/ ~made

\* The operands that are still to read are inside of the binary.
Cursor ==
    /\ addr \in Nat /\ addr >= 16
    /\ pc \in {"header", "hit", "evt", "hsm", "hot"} => addr = 16 /\ operands = << >>
    /\ pc \in Everywhere \ {"failed", "done", "undefined"} => addr = 16 /\ operands = << >>
    /\ pc = "dump" => addr + Behind(operands) <= hit.size

DumpInv == Operands /\ List /\ Shape /\ Cursor

IInv == Control /\ AsmInv /\ DumpInv

-----------------------------------------------------------------------------
(* What the operators do. *)

LEMMA Element == ASSUME NEW S, NEW q \in Seq(S), NEW i \in DOMAIN q PROVE q[i] \in S
OBVIOUS

LEMMA Replaced ==
    ASSUME NEW S, NEW q \in Seq(S), NEW i \in DOMAIN q, NEW x \in S
    PROVE  /\ [q EXCEPT ![i] = x] \in Seq(S) /\ DOMAIN [q EXCEPT ![i] = x] = DOMAIN q
           /\ [q EXCEPT ![i] = x][i] = x
           /\ \A j \in DOMAIN q : j # i => [q EXCEPT ![i] = x][j] = q[j]
OBVIOUS

LEMMA Appended ==
    ASSUME NEW S, NEW q \in Seq(S), NEW x \in S
    PROVE  /\ Append(q, x) \in Seq(S) /\ Len(Append(q, x)) = Len(q) + 1 /\ Append(q, x) # << >>
           /\ Append(q, x)[Len(q) + 1] = x
           /\ \A j \in 1 .. Len(q) : Append(q, x)[j] = q[j]
OBVIOUS

LEMMA Smallest == ASSUME NEW T, T \subseteq Nat, T # {} PROVE \E n \in T : \A m \in T : n <= m
<1>1. PICK n \in T : \A m \in T : <<m, n>> \notin OpToRel(<, Nat)
  BY NatLessThanWellFounded, WFMin
<1>2. \A m \in T : ~(m < n)
  BY <1>1 DEF OpToRel
<1> QED BY <1>2

\* The allocation after k entries, from the one before.
Allocation(f, a, k) == IF k = 0 THEN a ELSE IF f[k - 1] < k THEN 2 * f[k - 1] ELSE f[k - 1]

\* A list doubled one entry at a time has room for the entries.
LEMMA DoublingExists ==
    ASSUME NEW a \in Nat, a >= 1, NEW n \in Nat
    PROVE  \E f : f = [k \in 0 .. n |-> Allocation(f, a, k)] /\ \A k \in 0 .. n : f[k] \in Nat /\ f[k] >= k /\ f[k] >= 1
<1> DEFINE Listed(f, m) == /\ f = [k \in 0 .. m |-> Allocation(f, a, k)]
                           /\ \A k \in 0 .. m : f[k] \in Nat /\ f[k] >= k /\ f[k] >= 1
           T == {m \in Nat : ~\E f : Listed(f, m)}
<1> SUFFICES ASSUME T # {} PROVE FALSE
  OBVIOUS
<1>1. PICK m \in T : \A l \in T : m <= l
  BY Smallest
<1>2. m # 0
  <2> DEFINE g == [k \in 0 .. 0 |-> a]
  <2>1. \A k \in 0 .. 0 : Allocation(g, a, k) = a
    BY DEF Allocation
  <2>2. Listed(g, 0)
    BY <2>1
  <2> QED BY <1>1, <2>2
<1>3. m \in Nat /\ m - 1 \in Nat /\ m - 1 \notin T
  <2>1. m \in Nat
    OBVIOUS
  <2> HIDE DEF T
  <2> QED BY <1>1, <1>2, <2>1
<1>4. PICK f : Listed(f, m - 1)
  BY <1>3
<1> DEFINE g == [k \in 0 .. m |-> Allocation(f, a, k)]
<1>5. ASSUME NEW k \in 0 .. m PROVE Allocation(f, a, k) = Allocation(g, a, k)
  <2>1. CASE k = 0
    BY <2>1 DEF Allocation
  <2>2. CASE k # 0
    <3>1. k - 1 \in 0 .. m - 1 /\ k - 1 \in 0 .. m
      BY <1>3, <2>2
    <3>2. f[k - 1] = Allocation(f, a, k - 1)
      BY <1>4, <3>1
    <3>3. g[k - 1] = Allocation(f, a, k - 1)
      BY <3>1
    <3>4. f[k - 1] = g[k - 1]
      BY <3>2, <3>3
    <3> HIDE DEF g
    <3> QED BY <2>2, <3>4 DEF Allocation
  <2> QED BY <2>1, <2>2
<1>6. g = [k \in 0 .. m |-> Allocation(g, a, k)]
  <2> HIDE DEF g
  <2>1. g = [k \in 0 .. m |-> Allocation(f, a, k)]
    BY DEF g
  <2> QED BY <1>5, <2>1
<1>7. ASSUME NEW k \in 0 .. m PROVE g[k] \in Nat /\ g[k] >= k /\ g[k] >= 1
  <2>1. g[k] = Allocation(f, a, k)
    OBVIOUS
  <2>2. CASE k = 0
    BY <2>1, <2>2 DEF Allocation
  <2>3. CASE k # 0
    <3>1. k - 1 \in 0 .. m - 1
      BY <1>3, <2>3
    <3>2. f[k - 1] \in Nat /\ f[k - 1] >= k - 1 /\ f[k - 1] >= 1
      BY <1>4, <3>1
    <3> HIDE DEF g
    <3> QED BY <2>1, <2>3, <3>2 DEF Allocation
  <2> QED BY <2>2, <2>3
<1>8. Listed(g, m)
  <2> HIDE DEF g
  <2> QED BY <1>6, <1>7
<1> QED BY <1>1, <1>8

LEMMA DoubledEnough ==
    ASSUME NEW a \in Nat, a >= 1, NEW n \in Nat
    PROVE  Doubled(a, n) \in Nat /\ Doubled(a, n) >= n /\ Doubled(a, n) >= 1
<1> DEFINE Listed(f) == f = [k \in 0 .. n |-> Allocation(f, a, k)]
           size == CHOOSE f : Listed(f)
<1>1. PICK g : Listed(g) /\ \A k \in 0 .. n : g[k] \in Nat /\ g[k] >= k /\ g[k] >= 1
  BY DoublingExists
<1>2. Listed(size)
  <2> HIDE DEF Listed
  <2> QED BY <1>1
<1>3. Doubled(a, n) = size[n]
  BY DEF Doubled, Allocation
<1> DEFINE T == {k \in 0 .. n : size[k] # g[k]}
<1>4. T = {}
  <2> SUFFICES ASSUME T # {} PROVE FALSE
    OBVIOUS
  <2> HIDE DEF size
  <2>1. PICK k \in T : \A l \in T : k <= l
    <3>1. T \subseteq Nat
      OBVIOUS
    <3> HIDE DEF T
    <3> QED BY <3>1, Smallest
  <2>2. size[k] = Allocation(size, a, k) /\ g[k] = Allocation(g, a, k)
    BY <1>1, <1>2, <2>1
  <2>3. k # 0 => k - 1 \in 0 .. n /\ k - 1 \notin T
    BY <2>1
  <2>4. k # 0 => size[k - 1] = g[k - 1]
    BY <2>3
  <2> QED BY <2>1, <2>2, <2>4 DEF Allocation
<1>5. size[n] = g[n] /\ n \in 0 .. n
  <2> HIDE DEF size
  <2> QED BY <1>4
<1> HIDE DEF size
<1> QED BY <1>1, <1>3, <1>5

\* The bytes of the operands up to k.
Summed(f, ops, k) == IF k = 0 THEN 0 ELSE f[k - 1] + OperandSize(ops[k])

LEMMA OperandBytesAre ==
    ASSUME NEW ops \in Seq(Kinds), Len(ops) <= 3
    PROVE  OPERAND_BYTES(ops) = Behind(ops)
<1> DEFINE Listed(f) == f = [k \in 0 .. Len(ops) |-> Summed(f, ops, k)]
           sum == CHOOSE f : Listed(f)
           one == OperandSize(ops[1])
           two == OperandSize(ops[2])
           three == OperandSize(ops[3])
           g == [k \in 0 .. Len(ops) |-> IF k = 0 THEN 0 ELSE IF k = 1 THEN one
                                         ELSE IF k = 2 THEN one + two ELSE one + two + three]
<1>1. Len(ops) \in 0 .. 3
  <2>1. PICK n : n = Len(ops)
    OBVIOUS
  <2>2. n \in Nat /\ n <= 3
    BY <2>1
  <2> QED BY <2>1, <2>2
<1>2. one \in Nat /\ two \in Nat /\ three \in Nat
  BY DEF OperandSize
<1>3. ASSUME NEW k \in 0 .. Len(ops) PROVE g[k] = Summed(g, ops, k)
  <2>1. k \in {0, 1, 2, 3} /\ (k # 0 => k - 1 \in 0 .. Len(ops))
    BY <1>1
  <2> HIDE DEF one, two, three
  <2>2. k = 0 => g[k] = 0
    OBVIOUS
  <2>3. k = 1 => g[0] = 0 /\ g[k] = one
    BY <2>1
  <2>4. k = 2 => g[1] = one /\ g[k] = one + two
    BY <2>1
  <2>5. k = 3 => g[2] = one + two /\ g[k] = one + two + three
    BY <2>1
  <2> HIDE DEF g
  <2> QED BY <1>2, <2>1, <2>2, <2>3, <2>4, <2>5 DEF Summed, one, two, three
<1>4. Listed(g)
  <2>1. g = [k \in 0 .. Len(ops) |-> g[k]]
    OBVIOUS
  <2> HIDE DEF g
  <2> QED BY <1>3, <2>1
<1>5. Listed(sum)
  <2> HIDE DEF Listed, g
  <2> QED BY <1>4
<1>6. OPERAND_BYTES(ops) = sum[Len(ops)]
  BY DEF OPERAND_BYTES, Summed
<1>7. \A k \in 0 .. Len(ops) : sum[k] = Summed(sum, ops, k)
  <2> HIDE DEF sum
  <2> QED BY <1>5
<1> HIDE DEF sum
<1>8. sum[0] = 0 /\ (Len(ops) >= 1 => sum[1] = one)
  BY <1>1, <1>2, <1>7 DEF Summed
<1>9. (Len(ops) >= 2 => sum[2] = one + two) /\ (Len(ops) >= 3 => sum[3] = one + two + three)
  BY <1>1, <1>2, <1>7, <1>8 DEF Summed
<1> HIDE DEF one, two, three
<1>10. Len(ops) \in {0, 1, 2, 3}
  BY <1>1
<1> QED BY <1>2, <1>6, <1>8, <1>9, <1>10 DEF Behind, one, two, three

-----------------------------------------------------------------------------
(* The symbol table. *)

\* The index of a name is that of its symbol, the only one that has it, and
\* no other symbol moves.
LEMMA SymbolAdded ==
    ASSUME Object, NEW name \in Names, NEW s, s = add_symbol(name),
           NEW k, k = SymbolIndex(name) - FirstSymbol + 1
    PROVE  /\ s \in Seq(Symbol) /\ SymbolIndex(name) \in Nat
           /\ k \in DOMAIN s /\ s[k].name = name
           /\ \A i \in DOMAIN symbols : i \in DOMAIN s /\ s[i] = symbols[i]
           /\ \A i \in DOMAIN s : i \notin DOMAIN symbols =>
                 s[i] = [name |-> name, value |-> 0, line |-> FALSE] /\ \A j \in DOMAIN symbols : symbols[j].name # name
           /\ \A i, j \in DOMAIN s : s[i].name = s[j].name => i = j
<1>1. /\ symbols \in Seq(Symbol) /\ DOMAIN symbols = 1 .. Len(symbols) /\ Len(symbols) \in Nat
      /\ \A i, j \in DOMAIN symbols : symbols[i].name = symbols[j].name => i = j
  BY DEF Object, Typed, Distinct
<1>2. CASE Position(name) # {}
  <2>1. PICK i : i = CHOOSE j \in Position(name) : TRUE
    OBVIOUS
  <2>2. i \in Position(name)
    BY <1>2, <2>1
  <2>3. i \in DOMAIN symbols /\ symbols[i].name = name
    BY <2>2 DEF Position
  <2>4. i \in Nat /\ i >= 1
    BY <1>1, <2>3
  <2>5. SymbolIndex(name) = 3 + i - 1
    BY <1>2, <2>1 DEF SymbolIndex, FirstSymbol
  <2>6. k = i /\ SymbolIndex(name) \in Nat /\ s = symbols
    BY <1>2, <2>4, <2>5 DEF FirstSymbol, add_symbol
  <2> QED BY <1>1, <2>3, <2>6
<1>3. CASE Position(name) = {}
  <2> DEFINE new == [name |-> name, value |-> 0, line |-> FALSE]
  <2>1. \A j \in DOMAIN symbols : symbols[j].name # name
    BY <1>3 DEF Position
  <2>2. s = Append(symbols, new) /\ new \in Symbol /\ new.name = name
    BY <1>3 DEF add_symbol, Symbol
  <2> HIDE DEF new
  <2>3. /\ s \in Seq(Symbol) /\ DOMAIN s = 1 .. (Len(symbols) + 1) /\ s[Len(symbols) + 1] = new
        /\ \A i \in DOMAIN symbols : i \in DOMAIN s /\ s[i] = symbols[i]
    BY <1>1, <2>2
  <2>4. k = Len(symbols) + 1 /\ SymbolIndex(name) \in Nat
    BY <1>1, <1>3 DEF SymbolIndex, FirstSymbol
  <2>5. \A i \in DOMAIN s : i \notin DOMAIN symbols => i = Len(symbols) + 1
    BY <1>1, <2>3
  <2>6. \A i, j \in DOMAIN s : s[i].name = s[j].name => i = j
    BY <1>1, <2>1, <2>2, <2>3, <2>5
  <2>7. k \in DOMAIN s
    BY <1>1, <2>3, <2>4
  <2> QED BY <2>1, <2>2, <2>3, <2>4, <2>5, <2>6, <2>7 DEF new
<1> QED BY <1>2, <1>3

\* bw_expand makes room for a word.
LEMMA WriteRoom ==
    ASSUME Room, pc \in AsmPlaces, pc' \in AsmPlaces, NEW n \in 1 .. 4, Write(n)
    PROVE  /\ Room' /\ Text'.Position = Text.Position + n
           /\ Text.Position \in Nat
<1>1. /\ Text.Position \in Nat /\ Text.Size \in Nat /\ Text.Position <= Text.Size /\ Text.Size >= 4
  BY DEF Room
<1>2. Text' = [Position |-> Text.Position + n,
               Size |-> IF Text.Size - Text.Position < n THEN 2 * Text.Size ELSE Text.Size]
  BY DEF Write, Written
<1>3. Text'.Position = Text.Position + n
      /\ Text'.Size = IF Text.Size - Text.Position < n THEN 2 * Text.Size ELSE Text.Size
  BY <1>2
<1>4. Text'.Position \in Nat /\ Text'.Size \in Nat /\ Text'.Position <= Text'.Size /\ Text'.Size >= 4
  BY <1>1, <1>3
<1>5. Text' \in [Position : Nat, Size : Nat]
  BY <1>2, <1>3, <1>4
<1>6. pc' \notin Starting
  BY DEF AsmPlaces, Starting
<1> QED BY <1>1, <1>3, <1>4, <1>5, <1>6 DEF Room

\* What was added stays true when the text grows.
LEMMA ObjectKept ==
    ASSUME Object, UNCHANGED names, Text.Position \in Nat, Text'.Position \in Nat, Text'.Position >= Text.Position
    PROVE  Object'
<1> USE DEF names
<1>1. Typed' /\ Apart' /\ Distinct' /\ Valued' /\ Known'
  BY DEF Object, Typed, Apart, Distinct, Valued, Known, Symbol, Reloc
<1>2. ASSUME NEW r \in DOMAIN relocs PROVE relocs[r].offset + 4 <= Text'.Position
  <2>1. relocs[r] \in Reloc
    BY DEF Object, Typed
  <2>2. relocs[r].offset \in Nat /\ relocs[r].offset + 4 <= Text.Position
    BY <2>1 DEF Reloc, Object, Resolved
  <2> QED BY <2>2
<1>3. Resolved'
  BY <1>2 DEF Object, Resolved
<1> QED BY <1>1, <1>3 DEF Object

\* A use of a name is an entry behind all others, which leads to the symbol.
LEMMA Referenced ==
    ASSUME Object, NEW name \in Names, parser_add_reference(name),
           Text.Position \in Nat, Text'.Position = Text.Position + 4
    PROVE  Object'
<1> DEFINE new == [offset |-> Text.Position, index |-> SymbolIndex(name), label |-> name]
           k == SymbolIndex(name) - FirstSymbol + 1
<1>1. symbols' = add_symbol(name) /\ relocs' = Append(relocs, new) /\ defs' = defs
  BY DEF parser_add_reference
<1>2. /\ symbols' \in Seq(Symbol) /\ SymbolIndex(name) \in Nat /\ k \in DOMAIN symbols' /\ symbols'[k].name = name
      /\ \A i \in DOMAIN symbols : i \in DOMAIN symbols' /\ symbols'[i] = symbols[i]
      /\ \A i \in DOMAIN symbols' : i \notin DOMAIN symbols =>
            /\ symbols'[i] = [name |-> name, value |-> 0, line |-> FALSE]
            /\ \A j \in DOMAIN symbols : symbols[j].name # name
      /\ \A i, j \in DOMAIN symbols' : symbols'[i].name = symbols'[j].name => i = j
  <2> HIDE DEF k
  <2> QED BY <1>1, SymbolAdded DEF k
<1>3. new \in Reloc /\ new.offset = Text.Position /\ new.index = SymbolIndex(name) /\ new.label = name
  BY <1>2 DEF Reloc
<1> HIDE DEF new, k
<1>4. relocs \in Seq(Reloc) /\ Len(relocs) \in Nat /\ DOMAIN relocs = 1 .. Len(relocs)
  BY DEF Object, Typed
<1>5. /\ relocs' \in Seq(Reloc) /\ DOMAIN relocs' = 1 .. (Len(relocs) + 1) /\ relocs'[Len(relocs) + 1] = new
      /\ \A r \in 1 .. Len(relocs) : relocs'[r] = relocs[r]
  BY <1>1, <1>3, <1>4
<1>6. \A r \in 1 .. Len(relocs) :
         /\ relocs[r].offset \in Nat /\ relocs[r].offset + 4 <= Text.Position
         /\ relocs[r].index - FirstSymbol + 1 \in DOMAIN symbols
         /\ symbols[relocs[r].index - FirstSymbol + 1].name = relocs[r].label
  <2> TAKE r \in 1 .. Len(relocs)
  <2>1. relocs[r] \in Reloc
    BY <1>4
  <2> QED BY <1>4, <2>1 DEF Reloc, Object, Resolved
<1>7. Resolved'
  <2> SUFFICES ASSUME NEW r \in DOMAIN relocs'
               PROVE  /\ relocs'[r].offset + 4 <= Text'.Position
                      /\ relocs'[r].index - FirstSymbol + 1 \in DOMAIN symbols'
                      /\ symbols'[relocs'[r].index - FirstSymbol + 1].name = relocs'[r].label
    BY DEF Resolved
  <2>1. CASE r = Len(relocs) + 1
    BY <1>2, <1>3, <1>5, <2>1 DEF k
  <2>2. CASE r \in 1 .. Len(relocs)
    <3>1. relocs'[r] = relocs[r]
      BY <1>5, <2>2
    <3>2. relocs[r].offset \in Nat /\ relocs[r].offset + 4 <= Text'.Position
      BY <1>6, <2>2
    <3> QED BY <1>2, <1>6, <2>2, <3>1, <3>2
  <2>3. r = Len(relocs) + 1 \/ r \in 1 .. Len(relocs)
    BY <1>4, <1>5
  <2> QED BY <2>1, <2>2, <2>3
<1>8. Apart'
  <2> SUFFICES ASSUME NEW r \in DOMAIN relocs', r > 1 PROVE relocs'[r - 1].offset + 4 <= relocs'[r].offset
    BY DEF Apart
  <2>1. r \in Nat /\ r - 1 \in 1 .. Len(relocs) /\ relocs'[r - 1] = relocs[r - 1]
    BY <1>4, <1>5
  <2>2. CASE r = Len(relocs) + 1
    BY <1>3, <1>5, <1>6, <2>1, <2>2
  <2>3. CASE r \in 1 .. Len(relocs)
    BY <1>4, <1>5, <2>1, <2>3 DEF Object, Apart
  <2>4. r = Len(relocs) + 1 \/ r \in 1 .. Len(relocs)
    BY <1>4, <1>5
  <2> QED BY <2>2, <2>3, <2>4
<1>9. Valued'
  <2> SUFFICES ASSUME NEW i \in DOMAIN symbols', NEW places, places = defs[symbols'[i].name]
               PROVE  IF places = << >> THEN symbols'[i].value = 0
                      ELSE /\ symbols'[i].value = places[Len(places)]
                           /\ \A d \in 1 .. Len(places) - 1 : places[d] = 0
    BY <1>1 DEF Valued
  <2>1. CASE i \in DOMAIN symbols
    <3>1. symbols'[i] = symbols[i] /\ places = defs[symbols[i].name]
      BY <1>2, <2>1
    <3> QED BY <2>1, <3>1 DEF Object, Valued
  <2>2. CASE i \notin DOMAIN symbols
    <3>1. symbols'[i].name = name /\ symbols'[i].value = 0 /\ \A j \in DOMAIN symbols : symbols[j].name # name
      BY <1>2, <2>2
    <3>2. defs[name] = << >>
      BY <3>1 DEF Object, Known
    <3> QED BY <3>1, <3>2
  <2> QED BY <2>1, <2>2
<1>10. Known'
  <2> SUFFICES ASSUME NEW l \in Names, defs[l] # << >> PROVE \E i \in DOMAIN symbols' : symbols'[i].name = l
    BY <1>1 DEF Known
  <2>1. PICK i \in DOMAIN symbols : symbols[i].name = l
    BY DEF Object, Known
  <2> QED BY <1>2, <2>1
<1>11. Distinct' /\ Typed'
  BY <1>1, <1>2, <1>5 DEF Distinct, Typed, Object, Symbol, Reloc
<1> QED BY <1>7, <1>8, <1>9, <1>10, <1>11 DEF Object

\* A definition gives its symbol a value, once, or again after 0.
LEMMA Defined ==
    ASSUME Object, NEW name \in Names, Text.Position \in Nat, Text' = Text, relocs' = relocs,
           \A j \in Position(name) : symbols[j].value = 0,
           symbols' = [add_symbol(name) EXCEPT ![SymbolIndex(name) - FirstSymbol + 1] =
                         [name |-> name, value |-> Text.Position, line |-> TRUE]],
           defs' = [defs EXCEPT ![name] = Append(@, Text.Position)]
    PROVE  Object'
<1> DEFINE k == SymbolIndex(name) - FirstSymbol + 1
           s == add_symbol(name)
           new == [name |-> name, value |-> Text.Position, line |-> TRUE]
<1>1. /\ s \in Seq(Symbol) /\ k \in DOMAIN s /\ s[k].name = name
      /\ \A i \in DOMAIN symbols : i \in DOMAIN s /\ s[i] = symbols[i]
      /\ \A i \in DOMAIN s : i \notin DOMAIN symbols =>
            /\ s[i] = [name |-> name, value |-> 0, line |-> FALSE]
            /\ \A j \in DOMAIN symbols : symbols[j].name # name
      /\ \A i, j \in DOMAIN s : s[i].name = s[j].name => i = j
  <2> HIDE DEF k, s
  <2> QED BY SymbolAdded DEF k, s
<1>2. symbols' = [s EXCEPT ![k] = new] /\ new \in Symbol /\ new.name = name /\ new.value = Text.Position
  BY DEF Symbol
<1> HIDE DEF s, k, new
<1>3. /\ symbols' \in Seq(Symbol) /\ DOMAIN symbols' = DOMAIN s /\ symbols'[k] = new
      /\ \A i \in DOMAIN s : i # k => symbols'[i] = s[i]
  <2>1. s \in Seq(Symbol) /\ k \in DOMAIN s
    BY <1>1
  <2>2. new \in Symbol
    BY <1>2
  <2>3. /\ [s EXCEPT ![k] = new] \in Seq(Symbol) /\ DOMAIN [s EXCEPT ![k] = new] = DOMAIN s
        /\ [s EXCEPT ![k] = new][k] = new
        /\ \A j \in DOMAIN s : j # k => [s EXCEPT ![k] = new][j] = s[j]
    BY <2>1, <2>2, Replaced, Zenon
  <2>4. symbols' = [s EXCEPT ![k] = new]
    BY <1>2
  <2> QED BY <2>3, <2>4, Zenon
<1>4. \A i \in DOMAIN s : symbols'[i].name = s[i].name
  BY <1>1, <1>2, <1>3
<1>5. defs \in [Names -> Seq(Nat)]
  BY DEF Object, Typed
<1> DEFINE d == defs[name]
<1>6. d \in Seq(Nat) /\ Len(d) \in Nat /\ defs'[name] = Append(d, Text.Position)
      /\ \A l \in Names : l # name => defs'[l] = defs[l]
  BY <1>5
<1>7. d # << >> => Len(d) >= 1 /\ d[Len(d)] = 0 /\ \A e \in 1 .. Len(d) - 1 : d[e] = 0
  <2> SUFFICES ASSUME d # << >> PROVE Len(d) >= 1 /\ d[Len(d)] = 0 /\ \A e \in 1 .. Len(d) - 1 : d[e] = 0
    OBVIOUS
  <2>1. PICK i \in DOMAIN symbols : symbols[i].name = name
    BY DEF Object, Known
  <2>2. symbols[i].value = 0
    BY <2>1 DEF Position
  <2> QED BY <1>6, <2>1, <2>2 DEF Object, Valued
<1>8. \A e \in 1 .. Len(d) : d[e] = 0
  <2> TAKE e \in 1 .. Len(d)
  <2> HIDE DEF d
  <2>1. PICK n : n = Len(d)
    OBVIOUS
  <2>2. e \in 1 .. n /\ n \in Nat /\ d # << >>
    BY <1>6, <2>1
  <2> QED BY <1>7, <2>1, <2>2
<1> HIDE DEF d
<1>9. /\ defs' \in [Names -> Seq(Nat)] /\ defs'[name] # << >> /\ Len(defs'[name]) = Len(d) + 1
      /\ defs'[name][Len(d) + 1] = Text.Position /\ \A e \in 1 .. Len(d) : defs'[name][e] = 0
  <2>1. /\ Append(d, Text.Position) \in Seq(Nat) /\ Append(d, Text.Position) # << >>
        /\ Len(Append(d, Text.Position)) = Len(d) + 1
        /\ Append(d, Text.Position)[Len(d) + 1] = Text.Position
        /\ \A e \in 1 .. Len(d) : Append(d, Text.Position)[e] = d[e]
    <3>1. d \in Seq(Nat) /\ Text.Position \in Nat
      BY <1>6
    <3> QED BY <3>1, Appended, ZenonT(60)
  <2> QED BY <1>5, <1>6, <1>8, <2>1 DEF d
<1>10. Typed'
  BY <1>3, <1>9 DEF Object, Typed, Symbol, Reloc
<1>11. Distinct'
  BY <1>1, <1>3, <1>4 DEF Distinct
<1>12. Apart'
  BY DEF Object, Apart
<1>13. Resolved'
  <2> SUFFICES ASSUME NEW r \in DOMAIN relocs, NEW i, i = relocs[r].index - FirstSymbol + 1
               PROVE  /\ relocs[r].offset + 4 <= Text.Position
                      /\ i \in DOMAIN symbols' /\ symbols'[i].name = relocs[r].label
    BY DEF Resolved
  <2>1. i \in DOMAIN symbols /\ symbols[i].name = relocs[r].label /\ relocs[r].offset + 4 <= Text.Position
    BY DEF Object, Resolved
  <2> QED BY <1>1, <1>3, <1>4, <2>1
<1>14. Valued'
  <2> SUFFICES ASSUME NEW i \in DOMAIN symbols', NEW places, places = defs'[symbols'[i].name]
               PROVE  IF places = << >> THEN symbols'[i].value = 0
                      ELSE /\ symbols'[i].value = places[Len(places)]
                           /\ \A e \in 1 .. Len(places) - 1 : places[e] = 0
    BY ZenonT(60) DEF Valued
  <2>1. CASE i = k
    <3>1. places = defs'[name] /\ symbols'[i].value = Text.Position
      BY <1>2, <1>3, <2>1
    <3>2. Len(places) = Len(d) + 1 /\ \A e \in 1 .. Len(places) - 1 : places[e] = 0
      <4>1. Len(places) = Len(d) + 1
        BY <1>9, <3>1
      <4>2. Len(places) - 1 = Len(d)
        BY <1>6, <4>1
      <4> QED BY <1>9, <3>1, <4>1, <4>2
    <3> QED BY <1>9, <3>1, <3>2
  <2>2. CASE i # k
    <3>1. symbols'[i] = s[i] /\ s[i].name # name /\ i \in DOMAIN s
      BY <1>1, <1>3, <2>2
    <3>2. i \in DOMAIN symbols /\ s[i] = symbols[i]
      BY <1>1, <3>1
    <3>3. symbols[i].name \in Names
      <4>1. symbols[i] \in Symbol
        BY <3>2, Element DEF Object, Typed
      <4> QED BY <4>1 DEF Symbol
    <3>4. places = defs[symbols[i].name]
      BY <1>6, <3>1, <3>2, <3>3
    <3> QED BY <3>1, <3>2, <3>4 DEF Object, Valued
  <2> QED BY <2>1, <2>2
<1>15. Known'
  <2> SUFFICES ASSUME NEW l \in Names, defs'[l] # << >> PROVE \E i \in DOMAIN symbols' : symbols'[i].name = l
    BY DEF Known
  <2>1. CASE l = name
    BY <1>1, <1>3, <1>4, <2>1
  <2>2. CASE l # name
    <3>1. PICK i \in DOMAIN symbols : symbols[i].name = l
      BY <1>6, <2>2 DEF Object, Known
    <3> QED BY <1>1, <1>3, <1>4, <3>1
  <2> QED BY <2>1, <2>2
<1> QED BY <1>10, <1>11, <1>12, <1>13, <1>14, <1>15 DEF Object

-----------------------------------------------------------------------------
(* The steps of hitasm. *)

\* Only hitasm takes them, and it ends by an object or by failing.
LEMMA AsmStays ==
    ASSUME Control, AsmNext
    PROVE  /\ tool = "hitasm" /\ tool' = tool
           /\ pc' \in AsmPlaces \union {"failed", "done", "undefined"}
<1> USE DEF files, asmvars, Shutdown_M, Shutdown, Fail, AsmPlaces
<1>1. pc \in AsmPlaces \union {"sections"}
  BY DEF AsmNext, Sections, NextLine, verify_eol, Unimplemented, SkipLine, OpenBracket, CloseBracket, NotACommand,
         parser_add_symbol, Instruction, Indented, Declare, AtDatum, NoDatum, MoreData, TakeOperand, SkipOperand,
         WriteOperand, RefuseOperand, WriteObject
<1>2. tool = "hitasm"
  BY <1>1 DEF Control, Everywhere, DumpPlaces
<1>3. CASE Sections \/ NextLine \/ verify_eol
  BY <1>2, <1>3 DEF Sections, NextLine, verify_eol
<1>4. CASE Unimplemented \/ SkipLine \/ OpenBracket \/ CloseBracket \/ NotACommand
  BY <1>1, <1>2, <1>4 DEF Unimplemented, SkipLine, OpenBracket, CloseBracket, NotACommand
<1>5. CASE parser_add_symbol
  BY <1>2, <1>5 DEF parser_add_symbol
<1>6. CASE Instruction \/ Declare \/ NoDatum \/ MoreData
  BY <1>2, <1>6 DEF Instruction, Declare, NoDatum, MoreData
<1>7. CASE TakeOperand \/ SkipOperand
  BY <1>2, <1>7 DEF TakeOperand, SkipOperand
<1>8. CASE WriteOperand \/ RefuseOperand \/ WriteObject
  BY <1>2, <1>8 DEF WriteOperand, RefuseOperand, WriteObject
<1> QED BY <1>3, <1>4, <1>5, <1>6, <1>7, <1>8 DEF AsmNext

LEMMA FailKeeps == ASSUME Fail PROVE AsmInv'
<1>1. /\ pc' = "failed" /\ Text' = [Position |-> 0, Size |-> 0] /\ wanted' = << >>
      /\ symbols' = << >> /\ relocs' = << >> /\ defs' = [n \in Names |-> << >>]
  BY DEF Fail, Shutdown_M, Shutdown
<1>2. Room' /\ Wanted' /\ Cleared'
  BY <1>1 DEF Room, Wanted, Cleared, Done, AsmPlaces, Starting
<1>3. Typed' /\ Resolved' /\ Apart' /\ Distinct' /\ Valued' /\ Known'
  BY <1>1 DEF Typed, Resolved, Apart, Distinct, Valued, Known
<1> QED BY <1>2, <1>3 DEF AsmInv, Object

\* A step that writes nothing.
LEMMA NothingWritten ==
    ASSUME AsmInv, UNCHANGED sections, Wanted', pc' # "done",
           pc \in AsmPlaces \/ pc' \notin AsmPlaces, pc \in Starting \/ pc' \notin Starting
    PROVE  AsmInv'
<1> USE DEF sections, names
<1>1. Room' /\ Cleared'
  BY DEF AsmInv, Room, Cleared, Done
<1>2. Object'
  <2>1. Text.Position \in Nat
    BY DEF AsmInv, Room
  <2> QED BY <2>1, ObjectKept DEF AsmInv
<1> QED BY <1>1, <1>2 DEF AsmInv

\* A step that writes n bytes and, if they are a label, its use.
LEMMA Writes ==
    ASSUME AsmInv, pc \in AsmPlaces, pc' \in AsmPlaces, NEW n \in 1 .. 4, Write(n), Wanted',
           UNCHANGED names \/ (n = 4 /\ \E name \in Names : parser_add_reference(name))
    PROVE  AsmInv'
<1>1. Room' /\ Text'.Position = Text.Position + n /\ Text.Position \in Nat
  BY WriteRoom DEF AsmInv
<1>2. Object'
  <2>1. CASE UNCHANGED names
    <3>1. Text'.Position \in Nat /\ Text'.Position >= Text.Position
      BY <1>1
    <3> QED BY <1>1, <2>1, <3>1, ObjectKept DEF AsmInv
  <2>2. ASSUME n = 4, NEW name \in Names, parser_add_reference(name) PROVE Object'
    BY <1>1, <2>2, Referenced DEF AsmInv
  <2> QED BY <2>1, <2>2
<1>3. Cleared'
  BY DEF Cleared, Done, AsmPlaces
<1> QED BY <1>1, <1>2, <1>3 DEF AsmInv

\* A constant of one byte is no label.
LEMMA ConstantOf ==
    ASSUME NEW size, Constant(size)
    PROVE  UNCHANGED names \/ (size = 4 /\ \E name \in Names : parser_add_reference(name))
BY DEF Constant

LEMMA NextOperand ==
    ASSUME wanted \in Seq(Kinds), wanted # << >>, wanted' = Tail(wanted),
           pc' = IF Len(wanted) = 1 THEN "eol" ELSE "operand"
    PROVE  Wanted' /\ pc' \in AsmPlaces
<1>1. Tail(wanted) \in Seq(Kinds) /\ Len(Tail(wanted)) = Len(wanted) - 1 /\ Len(wanted) \in Nat
  OBVIOUS
<1>2. Len(wanted) # 1 => Tail(wanted) # << >>
  BY <1>1
<1> QED BY <1>1, <1>2 DEF Wanted, AsmPlaces

LEMMA InstructionKinds == ASSUME NEW ops \in AsmInstructions PROVE ops \in Seq(Kinds)
<1>1. CASE ops \in Instructions
  <2>1. /\ << >> \in Seq(Kinds) /\ <<"variable">> \in Seq(Kinds) /\ <<"variable", "variable">> \in Seq(Kinds)
        /\ <<"variable", "variable", "variable">> \in Seq(Kinds) /\ <<"variable", "byte">> \in Seq(Kinds)
    BY DEF Kinds
  <2>2. /\ <<"variable", "dword">> \in Seq(Kinds) /\ <<"address">> \in Seq(Kinds) /\ <<"jump">> \in Seq(Kinds)
        /\ <<"byte">> \in Seq(Kinds) /\ <<"byte", "byte">> \in Seq(Kinds)
    BY DEF Kinds
  <2> QED BY <1>1, <2>1, <2>2 DEF Instructions
<1>2. CASE ops = [i \in 1 .. 7 |-> "none"]
  BY <1>2 DEF Kinds
<1> QED BY <1>1, <1>2 DEF AsmInstructions

LEMMA AsmStep == ASSUME Control, AsmInv, AsmNext PROVE AsmInv'
<1> USE DEF sections, names
<1>0. wanted \in Seq(Kinds) /\ Text \in [Position : Nat, Size : Nat]
  BY DEF AsmInv, Wanted, Room
<1>a. CASE Fail
  BY <1>a, FailKeeps
<1>1. CASE Sections
  <2>1. CASE Shutdown_M /\ UNCHANGED asmvars
    <3>1. pc' = "failed" /\ UNCHANGED <<sections, wanted>>
      BY <2>1 DEF Shutdown_M, Shutdown, asmvars
    <3>2. Wanted' /\ pc' \notin AsmPlaces /\ pc' \notin Starting
      BY <1>0, <3>1 DEF Wanted, AsmPlaces, Starting
    <3> QED BY <3>1, <3>2, NothingWritten
  <2>2. CASE pc' = "line" /\ Text' = [Position |-> 0, Size |-> SectionSize] /\ UNCHANGED <<wanted, names>>
    <3>1. Text' \in [Position : Nat, Size : Nat] /\ Text'.Position = 0 /\ Text'.Size >= 4
      BY <2>2, SectionAssumption
    <3>2. Room' /\ Wanted' /\ Cleared'
      BY <1>0, <2>2, <3>1, SectionAssumption DEF Room, Wanted, Cleared, Done, Starting
    <3>3. Text.Position = 0
      BY <1>1 DEF Sections, AsmInv, Room, Starting
    <3>4. Object'
      BY <2>2, <3>1, <3>3, ObjectKept DEF AsmInv
    <3> QED BY <3>2, <3>4 DEF AsmInv
  <2> QED BY <1>1, <2>1, <2>2 DEF Sections
<1>2. CASE NextLine \/ verify_eol \/ Unimplemented \/ SkipLine \/ OpenBracket \/ CloseBracket \/ MoreData
  <2>1. \/ Fail
        \/ /\ UNCHANGED <<sections, wanted>> /\ pc \in AsmPlaces
           /\ pc' \in {"token", "object", "line", "skip", "eol", "datum"}
    BY <1>2 DEF NextLine, verify_eol, Unimplemented, SkipLine, OpenBracket, CloseBracket, MoreData, asmvars, AsmPlaces
  <2>2. CASE UNCHANGED <<sections, wanted>> /\ pc \in AsmPlaces
             /\ pc' \in {"token", "object", "line", "skip", "eol", "datum"}
    <3>1. Wanted' /\ pc' \notin Starting /\ pc' # "done"
      BY <1>0, <2>2 DEF Wanted, Starting
    <3> QED BY <2>2, <3>1, NothingWritten
  <2> QED BY <1>a, <2>1, <2>2
<1>3. CASE NotACommand \/ NoDatum \/ RefuseOperand
  BY <1>3, <1>a DEF NotACommand, NoDatum, RefuseOperand
<1>4. CASE parser_add_symbol
  <2> SUFFICES ASSUME ~Fail PROVE AsmInv'
    BY <1>a
  <2> DEFINE name == token.text
  <2>1. /\ name \in Names /\ \A j \in Position(name) : symbols[j].value = 0
        /\ symbols' = [add_symbol(name) EXCEPT ![SymbolIndex(name) - FirstSymbol + 1] =
                         [name |-> name, value |-> Text.Position, line |-> TRUE]]
        /\ defs' = [defs EXCEPT ![name] = Append(@, Text.Position)]
        /\ pc = "token" /\ pc' = "eol" /\ UNCHANGED <<Text, relocs, wanted>>
    BY <1>4 DEF parser_add_symbol
  <2>2. Object'
    BY <1>0, <2>1, Defined DEF AsmInv
  <2>3. Room' /\ Wanted' /\ Cleared'
    BY <1>0, <2>1 DEF AsmInv, Room, Wanted, Cleared, Done, AsmPlaces, Starting
  <2> QED BY <2>2, <2>3 DEF AsmInv
<1>5. CASE Instruction
  <2>1. PICK ops \in AsmInstructions :
           Write(1) /\ wanted' = ops /\ pc' = IF ops = << >> THEN "eol" ELSE "operand"
    BY <1>5 DEF Instruction
  <2>2. pc = "token" /\ UNCHANGED names
    BY <1>5 DEF Instruction, Indented
  <2>3. pc' \in AsmPlaces /\ Wanted'
    BY <2>1, InstructionKinds DEF Wanted, AsmPlaces
  <2> QED BY <2>1, <2>2, <2>3, Writes DEF AsmPlaces
<1>6. CASE Declare
  <2>1. pc \in AsmPlaces /\ pc' = "data" /\ wanted' = wanted
    BY <1>6 DEF Declare, AtDatum, Indented, AsmPlaces
  <2>2. Wanted' /\ pc' \in AsmPlaces
    BY <1>0, <2>1 DEF Wanted, AsmPlaces
  <2>3. CASE Constant(4) /\ Write(4)
    BY <2>1, <2>2, <2>3, ConstantOf, Writes
  <2>4. CASE Write(1) /\ UNCHANGED names
    BY <2>1, <2>2, <2>4, Writes
  <2> QED BY <1>6, <2>3, <2>4 DEF Declare
<1>7. CASE TakeOperand
  <2> SUFFICES ASSUME ~Fail PROVE AsmInv'
    BY <1>a
  <2>1. /\ pc = "operand" /\ wanted # << >> /\ UNCHANGED <<sections, wanted>>
        /\ pc' = "undefined" \/ (pc' = "constant" /\ Head(wanted) # "none")
    BY <1>7 DEF TakeOperand, asmvars, AsmInv, Wanted
  <2>2. Wanted' /\ pc \in AsmPlaces /\ pc' \notin Starting /\ pc' # "done"
    BY <1>0, <2>1 DEF Wanted, AsmPlaces, Starting
  <2> QED BY <2>1, <2>2, NothingWritten
<1>8. CASE SkipOperand
  <2>1. /\ pc = "operand" /\ wanted # << >> /\ wanted' = Tail(wanted) /\ UNCHANGED sections
        /\ pc' = IF Len(wanted) = 1 THEN "eol" ELSE "operand"
    BY <1>8 DEF SkipOperand, AsmInv, Wanted
  <2>2. Wanted' /\ pc' \in AsmPlaces
    BY <1>0, <2>1, NextOperand
  <2>3. pc \in AsmPlaces /\ pc' \notin Starting /\ pc' # "done"
    BY <2>1 DEF AsmPlaces, Starting
  <2> QED BY <2>1, <2>2, <2>3, NothingWritten
<1>9. CASE WriteOperand
  <2> DEFINE o == Head(wanted)
  <2>1. /\ pc = "constant" /\ wanted # << >> /\ wanted' = Tail(wanted) /\ Accepted(o) /\ Write(OperandBytes(o))
        /\ pc' = IF Len(wanted) = 1 THEN "eol" ELSE "operand"
    BY <1>9 DEF WriteOperand, AsmInv, Wanted
  <2>2. Wanted' /\ pc' \in AsmPlaces /\ pc \in AsmPlaces
    BY <1>0, <2>1, NextOperand DEF AsmPlaces
  <2> HIDE DEF o
  <2>3. OperandBytes(o) \in 1 .. 4
    BY DEF OperandBytes, OperandSize
  <2>4. UNCHANGED names \/ (OperandBytes(o) = 4 /\ \E name \in Names : parser_add_reference(name))
    <3>1. CASE o = "variable"
      BY <2>1, <3>1 DEF Accepted
    <3>2. CASE o \in {"byte", "dword"}
      <4>1. Constant(OperandSize(o)) /\ OperandBytes(o) = OperandSize(o)
        BY <2>1, <3>2 DEF Accepted, OperandBytes
      <4> QED BY <4>1, ConstantOf
    <3>3. CASE o \in {"address", "jump"}
      <4>1. Constant(4) /\ OperandBytes(o) = 4
        BY <2>1, <3>3 DEF Accepted, OperandBytes, OperandSize
      <4> QED BY <4>1, ConstantOf
    <3> QED BY <2>1, <3>1, <3>2, <3>3 DEF Accepted
  <2> QED BY <2>1, <2>2, <2>3, <2>4, Writes
<1>10. CASE WriteObject
  <2>1. /\ symbols' = [i \in DOMAIN symbols |-> [symbols[i] EXCEPT !.line = FALSE]]
        /\ UNCHANGED <<Text, relocs, defs, wanted>> /\ pc' = "done"
    BY <1>10 DEF WriteObject, Shutdown
  <2>2. symbols \in Seq(Symbol) /\ \A i \in DOMAIN symbols : symbols[i] \in Symbol
    BY Element DEF AsmInv, Object, Typed
  <2>3. \A i \in DOMAIN symbols : /\ symbols'[i] \in Symbol /\ symbols'[i].name = symbols[i].name
                                  /\ symbols'[i].value = symbols[i].value /\ ~symbols'[i].line
    BY <2>1, <2>2 DEF Symbol
  <2>4. DOMAIN symbols' = DOMAIN symbols /\ symbols' \in Seq(Symbol)
    <3>1. DOMAIN symbols = 1 .. Len(symbols) /\ Len(symbols) \in Nat /\ symbols' = [i \in DOMAIN symbols |-> symbols'[i]]
      BY <2>1, <2>2
    <3> QED BY <2>3, <3>1
  <2>5. Object'
    <3>1. Typed' /\ Resolved' /\ Apart'
      BY <2>1, <2>3, <2>4 DEF AsmInv, Object, Typed, Resolved, Apart, Symbol, Reloc
    <3>2. Distinct' /\ Known'
      BY <2>1, <2>3, <2>4 DEF AsmInv, Object, Distinct, Known
    <3>3. Valued'
      BY <2>1, <2>3, <2>4 DEF AsmInv, Object, Valued
    <3> QED BY <3>1, <3>2, <3>3 DEF Object
  <2>6. Room' /\ Wanted' /\ Cleared'
    BY <1>0, <2>1, <2>3, <2>4 DEF AsmInv, Room, Wanted, Cleared, AsmPlaces, Starting
  <2> QED BY <2>5, <2>6 DEF AsmInv
<1> QED BY <1>1, <1>2, <1>3, <1>4, <1>5, <1>6, <1>7, <1>8, <1>9, <1>10 DEF AsmNext

-----------------------------------------------------------------------------
(* The steps of hitdump. *)

LEMMA DumpStays ==
    ASSUME Control, DumpNext
    PROVE  /\ tool = "hitdump" /\ tool' = tool /\ pc \in DumpPlaces
           /\ pc' \in DumpPlaces \union {"failed", "done", "undefined"}
<1> USE DEF files, dumpvars, DumpFail, Shutdown_M, Shutdown, DumpPlaces
<1>1. pc \in DumpPlaces
  BY DEF DumpNext, VerifyHeader, read_hit_addresses, NoMemory, read_evt_addresses, read_hsm_addresses, ReadLines,
         HotSection, HotEntry, HotSectionEnds, ListMade, HotGoesOn, PassTable, ReadInstruction, ReadOperand, DumpEnds
<1>2. tool = "hitdump"
  BY <1>1 DEF Control, Everywhere, AsmPlaces
<1>3. CASE VerifyHeader \/ read_hit_addresses \/ NoMemory
  BY <1>1, <1>2, <1>3 DEF VerifyHeader, read_hit_addresses, NoMemory, add_address
<1>4. CASE read_evt_addresses \/ read_hsm_addresses
  BY <1>1, <1>2, <1>4 DEF read_evt_addresses, read_hsm_addresses, ReadLines, Line, add_address
<1>5. CASE HotSection \/ HotEntry \/ HotSectionEnds \/ ListMade
  BY <1>1, <1>2, <1>5 DEF HotSection, HotEntry, HotSectionEnds, ListMade, HotGoesOn, Line, add_address
<1>6. CASE PassTable \/ ReadInstruction \/ ReadOperand \/ DumpEnds
  BY <1>1, <1>2, <1>6 DEF PassTable, ReadInstruction, ReadOperand, DumpEnds, Touch
<1> QED BY <1>3, <1>4, <1>5, <1>6 DEF DumpNext

LEMMA DumpFails == ASSUME DumpInv, DumpFail PROVE DumpInv'
<1>1. /\ pc' = "failed" /\ tool' = tool /\ count' = 0 /\ allocated' = 0 /\ ~made'
      /\ UNCHANGED <<hit, SymbolTable, addr, operands>>
  BY DEF DumpFail, Shutdown_M, Shutdown
<1>2. Operands' /\ List' /\ Shape' /\ Cursor'
  BY <1>1 DEF DumpInv, Operands, List, Shape, Cursor, DumpPlaces, Everywhere, Opening
<1> QED BY <1>2 DEF DumpInv

\* The sizes and places of a binary that was opened.
LEMMA HitTyped ==
    ASSUME hit \in Hits
    PROVE  /\ hit.size \in Nat /\ hit.ENTP \in Nat /\ hit.size >= 16
           /\ \A e \in hit.EENT : e \in Nat /\ e >= 16 /\ e + 4 <= hit.size
<1>1. hit \in [size : Nat, ENTP : Nat, EENT : SUBSET Nat]
  BY HitsAssumption
<1>2. hit.size \in Nat /\ hit.ENTP \in Nat
  BY <1>1
<1>3. hit.size >= 16 /\ hit.EENT \subseteq 16 .. hit.size - 4
  BY HitsAssumption
<1>4. ASSUME NEW e \in hit.EENT PROVE e \in Nat /\ e >= 16 /\ e + 4 <= hit.size
  <2>1. e \in 16 .. hit.size - 4
    BY <1>3
  <2> QED BY <1>2, <2>1
<1> QED BY <1>2, <1>3, <1>4

LEMMA FirstIn == ASSUME NEW S, S \subseteq Nat, S # {} PROVE First(S) \in S
<1>1. \E e \in S : \A f \in S : e <= f
  BY Smallest
<1> QED BY <1>1 DEF First

\* The list has room after n entries, one of them found or added.
LEMMA ListGrows ==
    ASSUME List, pc \in DumpPlaces \ {"header"}, pc' \notin Opening, NEW n \in Nat, NEW next, add_address(n, next)
    PROVE  List'
<1>1. count \in Nat /\ allocated \in Nat /\ allocated >= 1 /\ count + n \in Nat
  BY DEF List, Opening
<1>2. CASE made
  <2>1. count' = count + n /\ allocated' = Doubled(allocated, count + n) /\ made' = made
    BY <1>2 DEF add_address
  <2>2. allocated' \in Nat /\ allocated' >= count' /\ allocated' >= 1
    BY <1>1, <2>1, DoubledEnough
  <2> QED BY <1>1, <1>2, <2>1, <2>2 DEF List, Opening
<1>3. CASE ~made
  <2>1. count' = count /\ allocated' = allocated /\ made' = made /\ pc' = "undefined"
    BY <1>3 DEF add_address
  <2> QED BY <2>1 DEF List, Opening, DumpPlaces
<1> QED BY <1>2, <1>3

LEMMA LineGrows ==
    ASSUME List, pc \in DumpPlaces \ {"header"}, pc' \notin Opening, Line
    PROVE  List'
<1>1. CASE add_address(1, pc)
  BY <1>1, ListGrows
<1>2. CASE UNCHANGED list /\ pc' = pc
  BY <1>2 DEF List, list, Opening
<1> QED BY <1>1, <1>2 DEF Line

\* What is left of an instruction after its first operand.
LEMMA FirstRead ==
    ASSUME Operands, operands # << >>
    PROVE  LET rest == Tail(operands)
               o == Head(operands)
           IN /\ o \in Kinds /\ rest \in Seq(Kinds \ {"none"}) /\ Len(rest) <= 3
              /\ \A i \in DOMAIN rest : rest[i] = "jump" => Len(rest) = 1
              /\ Behind(rest) \in Nat /\ Behind(operands) = OperandSize(o) + Behind(rest)
              /\ o = "jump" => rest = << >>
<1> DEFINE rest == Tail(operands)
           o == Head(operands)
<1>1. /\ operands \in Seq(Kinds \ {"none"}) /\ Len(operands) <= 3
      /\ \A i \in DOMAIN operands : operands[i] = "jump" => Len(operands) = 1
  BY DEF Operands
<1>2. /\ rest \in Seq(Kinds \ {"none"}) /\ o \in Kinds /\ o = operands[1] /\ Len(rest) = Len(operands) - 1
      /\ Len(operands) \in Nat /\ Len(rest) \in Nat /\ Len(operands) >= 1
      /\ DOMAIN rest = 1 .. Len(rest) /\ DOMAIN operands = 1 .. Len(operands)
      /\ \A i \in DOMAIN rest : rest[i] = operands[i + 1]
  BY <1>1
<1> HIDE DEF rest, o
<1>3. Len(rest) <= 3 /\ 1 \in DOMAIN operands
  BY <1>1, <1>2
<1>4. o = "jump" => Len(rest) = 0
  <2>1. operands[1] = "jump" => Len(operands) = 1
    BY <1>1, <1>3, Zenon
  <2>2. Len(operands) = 1 => Len(rest) = 0
    BY <1>2
  <2> QED BY <1>2, <2>1, <2>2, Zenon
<1>5. Len(rest) = 0 => rest = << >>
  BY <1>2
<1>6. ASSUME NEW i \in DOMAIN rest, rest[i] = "jump" PROVE Len(rest) = 1
  <2>1. i + 1 \in DOMAIN operands
    BY <1>2
  <2>2. Len(operands) = 1
    BY <1>1, <1>2, <1>6, <2>1
  <2> QED BY <1>2, <2>2
<1>7. \A x : OperandSize(x) \in Nat
  BY DEF OperandSize
<1>8. Behind(rest) \in Nat
  BY <1>7 DEF Behind
<1>9. /\ Len(rest) >= 1 => rest[1] = operands[2]
      /\ Len(rest) >= 2 => rest[2] = operands[3]
      /\ ~(Len(rest) >= 3)
  BY <1>1, <1>2
<1>10. (Len(operands) >= 2 <=> Len(rest) >= 1) /\ (Len(operands) >= 3 <=> Len(rest) >= 2)
  BY <1>2
<1>11. Behind(operands) = OperandSize(o) + Behind(rest)
  BY <1>2, <1>7, <1>9, <1>10 DEF Behind
<1> QED BY <1>1, <1>2, <1>3, <1>4, <1>5, <1>6, <1>8, <1>11 DEF rest, o

LEMMA InstructionOperands ==
    ASSUME NEW ops \in Instructions
    PROVE  /\ ops \in Seq(Kinds \ {"none"}) /\ ops \in Seq(Kinds) /\ Len(ops) <= 3
           /\ \A i \in DOMAIN ops : ops[i] = "jump" => Len(ops) = 1
<1>1. CASE ops = << >>
  BY <1>1 DEF Kinds
<1>2. CASE ops = <<"variable">>
  BY <1>2 DEF Kinds
<1>3. CASE ops = <<"variable", "variable">>
  BY <1>3 DEF Kinds
<1>4. CASE ops = <<"variable", "variable", "variable">>
  BY <1>4 DEF Kinds
<1>5. CASE ops = <<"variable", "byte">>
  BY <1>5 DEF Kinds
<1>6. CASE ops = <<"variable", "dword">>
  BY <1>6 DEF Kinds
<1>7. CASE ops = <<"address">>
  BY <1>7 DEF Kinds
<1>8. CASE ops = <<"jump">>
  BY <1>8 DEF Kinds
<1>9. CASE ops = <<"byte">>
  BY <1>9 DEF Kinds
<1>10. CASE ops = <<"byte", "byte">>
  BY <1>10 DEF Kinds
<1> QED BY <1>1, <1>2, <1>3, <1>4, <1>5, <1>6, <1>7, <1>8, <1>9, <1>10 DEF Instructions

\* A step of the three readers and of what is before the disassembly.
LEMMA Gathers ==
    ASSUME DumpInv, List', tool' = tool, hit \in Hits, UNCHANGED <<hit, addr, operands>>,
           addr = 16, operands = << >>, SymbolTable' \in {0, hit.ENTP},
           pc' \in {"hit", "evt", "hsm", "hot", "dump", "failed"}
    PROVE  DumpInv'
<1>1. hit.size \in Nat /\ hit.size >= 16
  BY HitTyped
<1>2. Operands' /\ Shape'
  BY DEF DumpInv, Operands, Shape, Opening
<1>3. Behind(<< >>) = 0
  BY DEF Behind
<1>4. Cursor'
  BY <1>1, <1>3 DEF DumpInv, Cursor, Everywhere
<1> QED BY <1>2, <1>4 DEF DumpInv

LEMMA DumpStep == ASSUME Control, DumpInv, DumpNext PROVE DumpInv'
<1> USE DEF list
<1>1. tool = "hitdump" /\ tool' = tool /\ pc \in DumpPlaces
  BY DumpStays
<1>2. CASE DumpFail
  BY <1>2, DumpFails
<1>3. CASE VerifyHeader
  <2> SUFFICES ASSUME ~DumpFail PROVE DumpInv'
    BY <1>2
  <2>1. /\ hit' \in Hits /\ allocated' = Capacity /\ pc' = "hit" /\ pc = "header"
        /\ UNCHANGED <<SymbolTable, count, addr, operands>>
    BY <1>3 DEF VerifyHeader
  <2>2. count = 0 /\ SymbolTable = 0 /\ addr = 16 /\ operands = << >>
    BY <2>1 DEF DumpInv, Cursor, Shape, List, Opening
  <2>3. Operands' /\ Shape' /\ Cursor'
    BY <2>1, <2>2 DEF DumpInv, Operands, Shape, Cursor, Everywhere, Opening, DumpPlaces
  <2>4. List'
    BY <2>1, <2>2, CapacityAssumption DEF List, Opening
  <2> QED BY <2>3, <2>4 DEF DumpInv
<1>4. CASE read_hit_addresses
  <2>1. /\ pc = "hit" /\ hit \in Hits /\ addr = 16 /\ operands = << >>
        /\ UNCHANGED <<hit, addr, operands>> /\ SymbolTable' \in {SymbolTable, hit.ENTP}
        /\ \/ UNCHANGED list /\ pc' = "evt"
           \/ /\ Counted # {}
              /\ add_address(TableCount, IF hit.ENTP + 4 + 8 * TableCount <= hit.size THEN "evt" ELSE "undefined")
    BY <1>4 DEF read_hit_addresses, DumpInv, Shape, Cursor, DumpPlaces, Opening
  <2>2. /\ hit.size \in Nat /\ hit.ENTP \in Nat
        /\ Counted \subseteq Nat /\ (Counted # {} => First(Counted) \in Nat)
    <3>1. Counted \subseteq Nat
      BY <2>1, HitTyped DEF Counted
    <3> QED BY <2>1, <3>1, HitTyped, FirstIn
  <2>3. Counted # {} => TableCount \in Nat
    BY <2>2 DEF TableCount
  <2>4. pc' \in {"evt", "undefined"}
    BY <2>1 DEF add_address
  <2>5. List'
    <3>1. CASE UNCHANGED list /\ pc' = "evt"
      BY <1>1, <2>1, <3>1 DEF DumpInv, List, DumpPlaces, Opening
    <3>2. CASE UNCHANGED list /\ pc' = "undefined"
      BY <3>2 DEF DumpInv, List, DumpPlaces, Opening
    <3>3. ASSUME NEW next, Counted # {}, add_address(TableCount, next) PROVE List'
      <4>1. pc \in DumpPlaces \ {"header"} /\ pc' \notin Opening
        BY <2>1, <2>4 DEF DumpPlaces, Opening
      <4> QED BY <2>3, <3>3, <4>1, ListGrows DEF DumpInv
    <3> QED BY <2>1, <3>1, <3>3
  <2>6. SymbolTable' \in {0, hit.ENTP}
    BY <2>1 DEF DumpInv, Shape, Opening
  <2>7. CASE pc' = "evt"
    BY <1>1, <2>1, <2>5, <2>6, <2>7, Gathers
  <2>8. CASE pc' = "undefined"
    <3>1. Counted # {} /\ (~made' \/ ~(hit.ENTP + 4 + 8 * TableCount <= hit.size))
      BY <2>1, <2>8 DEF add_address
    <3>2. Overcounted' \/ ~made'
      BY <2>1, <2>2, <2>3, <3>1 DEF Overcounted, TableCount, Counted
    <3>3. Operands' /\ Shape' /\ Cursor'
      BY <2>1, <2>6, <2>8, <3>2 DEF DumpInv, Operands, Shape, Cursor, DumpPlaces, Everywhere, Opening
    <3> QED BY <2>5, <3>3 DEF DumpInv
  <2> QED BY <2>4, <2>7, <2>8
<1>5. CASE \/ read_evt_addresses \/ read_hsm_addresses
           \/ HotSection \/ HotEntry \/ HotSectionEnds \/ ListMade
  <2>1. /\ pc \in {"evt", "hsm", "hot"} /\ UNCHANGED <<hit, SymbolTable, addr, operands>>
        /\ Line \/ (UNCHANGED list /\ pc' \in {"evt", "hsm", "hot", "dump"})
    BY <1>5 DEF read_evt_addresses, read_hsm_addresses, ReadLines, HotSection, HotEntry, HotSectionEnds, ListMade,
                HotGoesOn, dumpvars
  <2>2. pc' \in {"evt", "hsm", "hot", "dump"} \/ (pc' = "undefined" /\ ~made')
    BY <2>1 DEF Line, add_address
  <2>3. pc \in DumpPlaces \ {"header"} /\ pc' \notin Opening
    BY <2>1, <2>2 DEF DumpPlaces, Opening
  <2>4. hit \in Hits /\ addr = 16 /\ operands = << >> /\ SymbolTable' \in {0, hit.ENTP}
    BY <2>1, <2>3 DEF DumpInv, Shape, Cursor, Opening
  <2>5. List'
    <3>1. CASE UNCHANGED list
      BY <2>3, <3>1 DEF DumpInv, List, Opening
    <3> QED BY <2>1, <2>3, <3>1, LineGrows DEF DumpInv
  <2>6. CASE pc' \in {"evt", "hsm", "hot", "dump"}
    BY <1>1, <2>1, <2>4, <2>5, <2>6, Gathers
  <2>7. CASE pc' = "undefined" /\ ~made'
    <3>1. Operands' /\ Shape' /\ Cursor'
      BY <2>1, <2>4, <2>7 DEF DumpInv, Operands, Shape, Cursor, DumpPlaces, Everywhere, Opening
    <3> QED BY <2>5, <3>1 DEF DumpInv
  <2> QED BY <2>2, <2>6, <2>7
<1>6. ASSUME pc = "dump" PROVE /\ hit \in Hits /\ hit.size \in Nat /\ addr \in Nat /\ addr >= 16
                               /\ addr + Behind(operands) <= hit.size
  BY <1>6, HitTyped DEF DumpInv, Shape, Cursor, DumpPlaces, Opening
<1>7. CASE PassTable
  <2>1. /\ pc = "dump" /\ operands = << >> /\ SymbolTable = addr /\ UNCHANGED <<hit, list, operands>>
        /\ \/ Ends = {} /\ pc' = "undefined" /\ UNCHANGED <<addr, SymbolTable>>
           \/ Ends # {} /\ pc' = "dumped" /\ UNCHANGED <<addr, SymbolTable>>
           \/ Ends # {} /\ pc' = "dump" /\ addr' = First(Ends) + 4 /\ SymbolTable' = 0
    BY <1>7 DEF PassTable
  <2>2. Operands' /\ List'
    BY <2>1 DEF DumpInv, Operands, List, DumpPlaces, Opening
  <2>3. CASE Ends = {} /\ pc' = "undefined" /\ UNCHANGED <<addr, SymbolTable>>
    <3>1. Unended'
      BY <1>6, <2>1, <2>3 DEF Unended, Ends
    <3>2. Shape' /\ Cursor'
      BY <1>6, <2>1, <2>3, <3>1 DEF DumpInv, Shape, Cursor, DumpPlaces, Everywhere, Opening
    <3> QED BY <2>2, <3>2 DEF DumpInv
  <2>4. CASE pc' = "dumped" /\ UNCHANGED <<addr, SymbolTable>>
    <3>1. Shape' /\ Cursor'
      BY <1>6, <2>1, <2>4 DEF DumpInv, Shape, Cursor, DumpPlaces, Everywhere, Opening
    <3> QED BY <2>2, <3>1 DEF DumpInv
  <2>5. CASE Ends # {} /\ pc' = "dump" /\ addr' = First(Ends) + 4 /\ SymbolTable' = 0
    <3>1. First(Ends) \in hit.EENT
      <4>1. Ends \subseteq hit.EENT /\ Ends \subseteq Nat
        BY <1>6, <2>1, HitTyped DEF Ends
      <4>2. First(Ends) \in Ends
        BY <2>5, <4>1, FirstIn
      <4> QED BY <4>1, <4>2
    <3>2. First(Ends) \in Nat /\ First(Ends) >= 16 /\ First(Ends) + 4 <= hit.size
      BY <1>6, <2>1, <3>1, HitTyped
    <3>3. hit.ENTP \in Nat
      BY <1>6, <2>1, HitTyped
    <3>4. Behind(<< >>) = 0
      BY DEF Behind
    <3>5. addr' \in Nat /\ addr' >= 16 /\ addr' + Behind(operands') <= hit'.size
      BY <1>6, <2>1, <2>5, <3>2, <3>4
    <3>6. Shape' /\ Cursor'
      BY <1>6, <2>1, <2>5, <3>5 DEF Shape, Cursor, DumpPlaces, Everywhere, Opening
    <3> QED BY <2>2, <3>6 DEF DumpInv
  <2> QED BY <2>1, <2>3, <2>4, <2>5
<1>8. CASE ReadInstruction
  <2> SUFFICES ASSUME ~DumpFail PROVE DumpInv'
    BY <1>2
  <2>1. PICK ops \in Instructions :
           /\ hit.size - (addr + 1) >= OPERAND_BYTES(ops) /\ addr' = addr + 1 /\ operands' = ops
           /\ pc = "dump" /\ UNCHANGED <<pc, hit, SymbolTable, list>>
    BY <1>8 DEF ReadInstruction
  <2>2. /\ ops \in Seq(Kinds \ {"none"}) /\ ops \in Seq(Kinds) /\ Len(ops) <= 3
        /\ \A i \in DOMAIN ops : ops[i] = "jump" => Len(ops) = 1
    BY InstructionOperands
  <2>3. OPERAND_BYTES(ops) = Behind(ops)
    BY <2>2, OperandBytesAre
  <2>4. Behind(ops) \in Nat
    BY DEF Behind, OperandSize
  <2>5. addr' \in Nat /\ addr' >= 16 /\ addr' + Behind(operands') <= hit'.size
    BY <1>6, <2>1, <2>3, <2>4
  <2>6. Operands' /\ List'
    BY <2>1, <2>2 DEF DumpInv, Operands, List, Opening
  <2>7. Shape' /\ Cursor'
    BY <1>1, <2>1, <2>5 DEF DumpInv, Shape, Cursor, Everywhere, Opening
  <2> QED BY <2>6, <2>7 DEF DumpInv
<1>9. CASE ReadOperand
  <2> SUFFICES ASSUME ~DumpFail PROVE DumpInv'
    BY <1>2
  <2> DEFINE o == Head(operands)
             rest == Tail(operands)
  <2>1. PICK n \in IF o = "jump" THEN JumpSizes ELSE {OperandSize(o)} :
           /\ Touch(n) /\ addr' = addr + n /\ operands' = rest
           /\ pc = "dump" /\ operands # << >> /\ UNCHANGED <<hit, SymbolTable, list>>
    BY <1>9 DEF ReadOperand
  <2>2. /\ o \in Kinds /\ rest \in Seq(Kinds \ {"none"}) /\ Len(rest) <= 3
        /\ \A i \in DOMAIN rest : rest[i] = "jump" => Len(rest) = 1
        /\ Behind(rest) \in Nat /\ Behind(operands) = OperandSize(o) + Behind(rest)
        /\ o = "jump" => rest = << >>
    BY <2>1, FirstRead DEF DumpInv
  <2> HIDE DEF o, rest
  <2>3. OperandSize(o) \in Nat /\ (o = "jump" => OperandSize(o) = 1)
    BY DEF OperandSize
  <2>4. n \in Nat /\ addr + n + Behind(rest) <= hit.size
    <3>1. CASE o = "jump"
      <4>1. Behind(rest) = 0
        BY <2>2, <3>1 DEF Behind
      <4>2. n = 1 \/ (n = 4 /\ hit.size - addr >= 4)
        BY <2>1, <3>1 DEF JumpSizes
      <4> QED BY <1>6, <2>1, <2>2, <2>3, <3>1, <4>1, <4>2
    <3>2. CASE o # "jump"
      BY <1>6, <2>1, <2>2, <2>3, <3>2
    <3> QED BY <3>1, <3>2
  <2>5. pc' = "dump"
    BY <1>6, <2>1, <2>2, <2>4 DEF Touch
  <2>6. addr' \in Nat /\ addr' >= 16 /\ addr' + Behind(operands') <= hit'.size
    BY <1>6, <2>1, <2>4
  <2>7. Operands' /\ List'
    BY <2>1, <2>2, <2>5 DEF DumpInv, Operands, List, Opening
  <2>8. Shape' /\ Cursor'
    BY <1>1, <2>1, <2>5, <2>6 DEF DumpInv, Shape, Cursor, Everywhere, Opening
  <2> QED BY <2>7, <2>8 DEF DumpInv
<1>10. CASE DumpEnds
  <2>1. /\ pc' = "done" /\ count' = 0 /\ allocated' = 0 /\ UNCHANGED <<hit, SymbolTable, addr, operands>>
    BY <1>10 DEF DumpEnds, Shutdown
  <2>2. Operands' /\ List' /\ Shape' /\ Cursor'
    BY <2>1 DEF DumpInv, Operands, List, Shape, Cursor, DumpPlaces, Everywhere, Opening
  <2> QED BY <2>2 DEF DumpInv
<1>11. CASE NoMemory
  BY <1>2, <1>11 DEF NoMemory
<1> QED BY <1>3, <1>4, <1>5, <1>7, <1>8, <1>9, <1>10, <1>11 DEF DumpNext

-----------------------------------------------------------------------------
(* The invariant. *)

LEMMA Start == Init => IInv
<1> SUFFICES ASSUME Init PROVE IInv
  OBVIOUS
<1> USE DEF Init, FilesInit, DumpInit, AsmInit
<1>1. Control
  BY DEF Control, Everywhere
<1>2. Room /\ Wanted /\ Cleared
  BY DEF Room, Wanted, Cleared, Done, AsmPlaces
<1>3. Typed /\ Resolved /\ Apart /\ Distinct /\ Valued /\ Known
  BY DEF Typed, Resolved, Apart, Distinct, Valued, Known
<1>4. Operands /\ List
  BY DEF Operands, List, DumpPlaces, Opening
<1>5. Shape /\ Cursor
  BY DEF Shape, Cursor, DumpPlaces, Opening
<1> QED BY <1>1, <1>2, <1>3, <1>4, <1>5 DEF IInv, AsmInv, Object, DumpInv

\* What the tools share: reading the arguments, the files and the output's name.
LEMMA SharedStep ==
    ASSUME IInv, Arguments \/ ReadFiles \/ OpenOutput \/ Link, UNCHANGED <<dumpvars, asmvars>>
    PROVE  IInv'
<1> USE DEF files, dumpvars, asmvars
<1>1. /\ tool' = tool /\ pc \in {"arguments", "read", "open", "link"} /\ (pc = "link" => pc' = "done")
      /\ \/ pc' = "failed" \/ (pc = "arguments" /\ pc' = "read") \/ (pc = "read" /\ pc' = "open")
         \/ pc = "link" /\ pc' = "done"
         \/ /\ pc = "open"
            /\ pc' = IF tool = "hitdump" THEN "header" ELSE IF tool = "hitasm" THEN "sections" ELSE "link"
  BY DEF Arguments, ReadFiles, OpenOutput, Link, Shutdown_M, Shutdown
<1>2. Control'
  BY <1>1 DEF IInv, Control, Everywhere, AsmPlaces, DumpPlaces
<1>3. pc' \notin AsmPlaces /\ (pc \in Starting \/ pc' \notin Starting)
  BY <1>1 DEF AsmPlaces, Starting
<1>4. Room' /\ Wanted'
  BY <1>1, <1>3 DEF IInv, AsmInv, Room, Wanted
<1>5. Cleared'
  BY <1>1 DEF IInv, Control, Cleared, Done, Everywhere, AsmPlaces
<1>6. Object'
  <2>1. Text.Position \in Nat
    BY DEF IInv, AsmInv, Room
  <2> QED BY <2>1, ObjectKept DEF IInv, AsmInv, names
<1>7. Operands' /\ List'
  BY <1>1 DEF IInv, DumpInv, Operands, List, DumpPlaces, Opening
<1>8. Shape' /\ Cursor'
  BY <1>1 DEF IInv, DumpInv, Shape, Cursor, DumpPlaces, Everywhere, Opening
<1> QED BY <1>2, <1>4, <1>5, <1>6, <1>7, <1>8 DEF IInv, AsmInv, DumpInv

LEMMA Inductive == IInv /\ [Next]_vars => IInv'
<1> SUFFICES ASSUME IInv, [Next]_vars PROVE IInv'
  OBVIOUS
<1> USE DEF IInv
<1>1. CASE (Arguments \/ ReadFiles \/ OpenOutput \/ Link) /\ UNCHANGED <<dumpvars, asmvars>>
  BY <1>1, SharedStep
<1>2. CASE DumpNext /\ UNCHANGED asmvars
  <2>1. /\ tool = "hitdump" /\ tool' = tool /\ pc \in DumpPlaces
        /\ pc' \in DumpPlaces \union {"failed", "done", "undefined"}
    BY <1>2, DumpStays
  <2>2. Control'
    BY <2>1 DEF Control, Everywhere, DumpPlaces
  <2>3. pc' \notin AsmPlaces /\ pc' \notin Starting
    BY <2>1 DEF DumpPlaces, AsmPlaces, Starting
  <2>4. Room' /\ Wanted' /\ Cleared'
    BY <1>2, <2>1, <2>3 DEF AsmInv, Room, Wanted, Cleared, Done, asmvars, AsmPlaces
  <2>5. Object'
    <3>1. Text.Position \in Nat
      BY DEF AsmInv, Room
    <3> QED BY <1>2, <3>1, ObjectKept DEF AsmInv, asmvars, names
  <2> QED BY <1>2, <2>2, <2>4, <2>5, DumpStep DEF AsmInv
<1>3. CASE AsmNext /\ UNCHANGED dumpvars
  <2>1. tool = "hitasm" /\ tool' = tool /\ pc' \in AsmPlaces \union {"failed", "done", "undefined"}
    BY <1>3, AsmStays
  <2>2. Control'
    BY <2>1 DEF Control, Everywhere, AsmPlaces
  <2>3. Operands' /\ List' /\ Shape' /\ Cursor'
    BY <1>3, <2>1 DEF DumpInv, Operands, List, Shape, Cursor, dumpvars, AsmPlaces, DumpPlaces, Everywhere, Opening
  <2> QED BY <1>3, <2>2, <2>3, AsmStep DEF DumpInv
<1>4. CASE UNCHANGED vars
  <2> USE <1>4 DEF vars, dumpvars, asmvars
  <2>1. Control'
    BY DEF Control
  <2>2. Room' /\ Wanted' /\ Cleared'
    BY DEF AsmInv, Room, Wanted, Cleared, Done
  <2>3. Object'
    <3>1. Text.Position \in Nat
      BY DEF AsmInv, Room
    <3> QED BY <3>1, ObjectKept DEF AsmInv, names
  <2>4. Operands' /\ List' /\ Shape' /\ Cursor'
    BY DEF DumpInv, Operands, List, Shape, Cursor, Overcounted, Unended, TableCount, Counted, Ends, Opening
  <2> QED BY <2>1, <2>2, <2>3, <2>4 DEF AsmInv, DumpInv
<1> QED BY <1>1, <1>2, <1>3, <1>4 DEF Next

LEMMA Invariance == Spec => []IInv
<1> QED BY Start, Inductive, PTL DEF Spec

-----------------------------------------------------------------------------
(* The theorems. *)

\* hitdump reads inside of the binary and writes inside of its list, for every
\* binary and every list that is allocated, but for the tables that are counted
\* too far or have no end it meets.  A list that is not allocated stays empty,
\* and the first entry for it is written through NULL.
THEOREM DumpStaysInside == Spec => []DumpInside
<1>1. IInv => DumpInside
  <2> SUFFICES ASSUME IInv PROVE DumpInside
    OBVIOUS
  <2>1. tool = "hitdump" /\ pc = "undefined" => Overcounted \/ Unended \/ ~made
    BY DEF IInv, DumpInv, Shape, Opening
  <2>2. count <= allocated /\ (count > 0 => made)
    BY DEF IInv, DumpInv, List, Opening
  <2>3. ASSUME pc = "dump" PROVE addr <= hit.size
    <3>1. hit.size \in Nat /\ addr \in Nat /\ addr + Behind(operands) <= hit.size
      BY <2>3, HitTyped DEF IInv, DumpInv, Shape, Cursor, DumpPlaces, Opening
    <3>2. Behind(operands) \in Nat
      BY DEF Behind, OperandSize
    <3> QED BY <3>1, <3>2
  <2> QED BY <2>1, <2>2, <2>3 DEF DumpInside
<1> QED BY <1>1, Invariance, PTL

\* The object hitasm writes is one hitld can relocate: every relocation is at a
\* place of its own and leads to the symbol that was named there, and a symbol
\* has the place of its label, whether it was used before or after.
THEOREM ObjectRelocatable == Spec => []Relocatable
<1>1. IInv => Relocatable
  <2> SUFFICES ASSUME IInv PROVE Relocatable
    OBVIOUS
  <2> USE DEF IInv, AsmInv, Object
  <2>1. Text.Position <= Text.Size /\ (Done => \A i \in DOMAIN symbols : ~symbols[i].line)
    BY DEF Room, Cleared
  <2>2. ASSUME NEW r \in DOMAIN relocs
        PROVE  /\ relocs[r].offset + 4 <= Text.Position
               /\ relocs[r].index - FirstSymbol + 1 \in DOMAIN symbols
               /\ symbols[relocs[r].index - FirstSymbol + 1].name = relocs[r].label
               /\ r > 1 => relocs[r - 1].offset + 4 <= relocs[r].offset
    BY DEF Resolved, Apart
  <2>3. ASSUME NEW l \in Names, defs[l] # << >>
        PROVE  /\ \E i \in DOMAIN symbols : symbols[i].name = l /\ symbols[i].value = defs[l][Len(defs[l])]
               /\ \A d \in 1 .. Len(defs[l]) - 1 : defs[l][d] = 0
    <3>1. PICK i \in DOMAIN symbols : symbols[i].name = l
      BY <2>3 DEF Known
    <3> QED BY <2>3, <3>1 DEF Valued
  <2>4. \A i, j \in DOMAIN symbols : symbols[i].name = symbols[j].name => i = j
    BY DEF Distinct
  <2> QED BY <2>1, <2>2, <2>3, <2>4 DEF Relocatable
<1> QED BY <1>1, Invariance, PTL
=============================================================================
