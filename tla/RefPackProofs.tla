--------------------------- MODULE RefPackProofs ---------------------------
(* Proofs about RefPackDecompress, for every stream, size and HNSV. *)
EXTENDS RefPack, TLAPS

Offset == op.offset + 1

\* What the doubling loop maintains.  While bytes are left, copylength is the
\* whole of what was pasted so far, and the newest Offset bytes of the output
\* equal the Offset bytes before the reference: the seam at which the next
\* block is pasted continues the period.
Doubling ==
    pc = "copying" =>
        /\ copysource < pos /\ Offset <= copysource
        /\ op.left > 0 => /\ copylength = pos - copysource
                          /\ Offset <= copylength
                          /\ \A i \in 0..Offset-1 :
                                buf[(pos - Offset) + i] = buf[(copysource - Offset) + i]

Granted == /\ pc = "referenced" => op.left > 0
           /\ pc # "done" => result = "none"
           /\ result = "ok" => pc = "done" /\ csize = 0 /\ dsize = 0

\* No opcode encodes a reference of more than 1028 bytes, so that copylength
\* never reaches the bit the loop looks at before it doubles it.
MaxReference == 1028

Short == /\ op.left <= MaxReference
         /\ pc = "copying" => (pos - copysource) + op.left <= MaxReference

IInv == TypeOK /\ Accounting /\ Doubling /\ RepeatsHistory /\ Granted /\ Short

\* The fields of every opcode are natural numbers.
LEMMA OpcodeFields ==
    ASSUME NEW b \in Byte, NEW b2 \in Byte, NEW b3 \in Byte, NEW b4 \in Byte
    PROVE  /\ OpcodeSize(b) \in 1..4
           /\ ProceedingDataLength(b, b2) \in Nat
           /\ ReferencedDataLength(b, b4) \in 0..MaxReference
           /\ ReferencedDataOffset(b, b2, b3) \in Nat
           /\ IsStop(b) \in BOOLEAN
<1> USE DEF Byte
<1>1. OpcodeSize(b) \in 1..4
  BY DEF OpcodeSize
<1>2. StopFlagData \in {0, 1, 3, 7, 15, 31}
  BY DEF StopFlagData
<1>3. b % (StopFlagData + 1) \in Nat
  BY <1>2
<1>4. ProceedingDataLength(b, b2) \in Nat
  BY <1>1, <1>3 DEF ProceedingDataLength
<1>a. /\ b \in Nat /\ b2 \in Nat /\ b3 \in Nat /\ b4 \in Nat
      /\ b \div 4 \in Nat /\ b \div 16 \in Nat /\ b \div 32 \in Nat
  OBVIOUS
<1>b. /\ (b \div 4) % 8 \in Nat /\ (b \div 4) % 4 \in Nat /\ b % 64 \in Nat
      /\ (b \div 16) % 2 \in Nat /\ (b \div 32) % 4 \in Nat /\ b2 % 64 \in Nat
  BY <1>a
<1>c. (b \div 4) % 8 <= 7 /\ (b \div 4) % 4 <= 3 /\ b % 64 <= 63 /\ b4 <= 255
  BY <1>a
<1>d. /\ ((b \div 4) % 8) + 3 \in 0..MaxReference /\ (b % 64) + 4 \in 0..MaxReference
      /\ (256 * ((b \div 4) % 4)) + 5 + b4 \in 0..MaxReference /\ 0 \in 0..MaxReference
  BY SMT, <1>a, <1>b, <1>c DEF MaxReference
<1>5. ReferencedDataLength(b, b4) \in 0..MaxReference
  BY <1>d DEF ReferencedDataLength
<1>6. ReferencedDataOffset(b, b2, b3) \in Nat
  BY <1>a, <1>b DEF ReferencedDataOffset
<1>7. IsStop(b) \in BOOLEAN
  BY DEF IsStop
<1> QED BY <1>1, <1>4, <1>5, <1>6, <1>7

\* A call starts with nothing written, promised or owed.
LEMMA InitIInv == Init => IInv
<1> SUFFICES ASSUME Init PROVE IInv
  OBVIOUS
<1>1. total \in Nat /\ csize \in Nat
  BY RefPackAssumption DEF Init
<1>a. op \in [proceeding : Nat, left : Nat, offset : Nat]
  BY DEF Init
<1>b. buf \in [0..total-1 -> LiteralByte \cup {Unset}]
  BY DEF Init
<1>c. pos \in 0..total
  BY <1>1 DEF Init
<1>2. TypeOK
  BY <1>1, <1>a, <1>b, <1>c DEF Init, TypeOK
<1>3. Accounting
  BY <1>1 DEF Init, Accounting, Owed
<1> QED BY <1>2, <1>3 DEF Init, IInv, Doubling, RepeatsHistory, Granted, Short, MaxReference

\* NoHole is the third part of Accounting.
NoHole == \A i \in 0..total-1 : buf[i] = Unset <=> i >= pos

\* A memcpy from below the output pointer extends what is written.
LEMMA MemcpyExtends ==
    ASSUME TypeOK, NoHole, total' = total,
           NEW source \in Nat, NEW length \in Nat,
           source + length <= pos, pos + length <= total,
           Memcpy(source, length)
    PROVE  /\ buf' \in [0..total'-1 -> LiteralByte \cup {Unset}]
           /\ pos' = pos + length /\ pos' \in 0..total'
           /\ NoHole'
           /\ \A i \in 0..total-1 : i < pos => buf'[i] = buf[i]
           /\ \A i \in pos..pos+length-1 : buf'[i] = buf[source + (i - pos)]
           /\ \A i \in 0..total-1 : i >= pos + length => buf'[i] = buf[i]
<1> total \in Nat /\ pos \in Nat /\ pos <= total
  BY RefPackAssumption DEF TypeOK
<1> USE DEF Memcpy, TypeOK, NoHole
<1>1. \A i \in pos..pos+length-1 : /\ i \in 0..total-1
                                   /\ source + (i - pos) \in 0..total-1
                                   /\ source + (i - pos) < pos
  OBVIOUS
<1>2. buf' \in [0..total'-1 -> LiteralByte \cup {Unset}]
  BY <1>1
<1>3. NoHole'
  BY <1>1
<1>4. pos' = pos + length /\ pos' \in 0..total'
  OBVIOUS
<1>5. \A i \in 0..total-1 : i < pos => buf'[i] = buf[i]
  OBVIOUS
<1>6. \A i \in pos..pos+length-1 : buf'[i] = buf[source + (i - pos)]
  BY <1>1
<1>7. \A i \in 0..total-1 : i >= pos + length => buf'[i] = buf[i]
  OBVIOUS
<1> QED BY <1>2, <1>3, <1>4, <1>5, <1>6, <1>7

\* A failing call leaves everything but pc and result alone.
LEMMA CorruptIInv ==
    ASSUME IInv, Corrupt, pc # "copying"
    PROVE  IInv'
<1> USE DEF IInv, Corrupt, params, opcode, copying
<1>1. TypeOK'
  BY DEF TypeOK
<1>2. Accounting'
  BY DEF Accounting, Owed
<1>3. Doubling' /\ RepeatsHistory' /\ Granted' /\ Short'
  BY DEF Doubling, RepeatsHistory, Granted, Short
<1> QED BY <1>1, <1>2, <1>3

\* Between two copies an opcode may ask for anything: it moves no pointer.
LEMMA FetchIInv == ASSUME IInv, FetchOpcode PROVE IInv'
<1> USE DEF IInv, FetchOpcode, params, copying
<1>1. PICK b \in FirstByte, b2 \in NextByte, b3 \in NextByte, b4 \in NextByte :
         /\ csize >= OpcodeSize(b)
         /\ csize' = csize - OpcodeSize(b)
         /\ stopflag' = IsStop(b)
         /\ op' = [proceeding |-> ProceedingDataLength(b, b2),
                   left       |-> ReferencedDataLength(b, b4),
                   offset     |-> ReferencedDataOffset(b, b2, b3)]
  OBVIOUS
<1>2. b \in Byte /\ b2 \in Byte /\ b3 \in Byte /\ b4 \in Byte
  BY RefPackAssumption
<1>a. OpcodeSize(b) \in 1..4
  BY <1>2, OpcodeFields
<1>3. csize' \in Nat
  BY <1>1, <1>a DEF TypeOK
<1>b. ReferencedDataLength(b, b4) \in 0..MaxReference
  BY <1>2, OpcodeFields
<1>4. op' \in [proceeding : Nat, left : Nat, offset : Nat] /\ stopflag' \in BOOLEAN
  BY <1>1, <1>2, <1>b, OpcodeFields DEF MaxReference
<1>5. TypeOK'
  BY <1>3, <1>4 DEF TypeOK
<1>6. Accounting'
  BY DEF Accounting, Owed
<1>7. Short'
  BY <1>1, <1>b DEF Short, MaxReference
<1> QED BY <1>5, <1>6, <1>7 DEF Doubling, RepeatsHistory, Granted

\* Literal data is counted and written alike, and there is none in progress.
LEMMA ProceedingIInv == ASSUME IInv, CopyProceeding PROVE IInv'
<1> DEFINE n == op.proceeding
<1> USE DEF IInv, CopyProceeding, Grant, params, copying
<1>1. /\ total \in Nat /\ pos \in 0..total /\ n \in Nat /\ csize \in Nat
      /\ dsize \in Nat /\ datawritten \in Nat /\ op.left \in Nat
      /\ pos = datawritten /\ pos + dsize = total
  BY RefPackAssumption DEF TypeOK, Accounting, Owed
<1>2. PICK data \in [0..n-1 -> LiteralByte] :
        buf' = [i \in 0..total-1 |->
                  IF i >= pos /\ i < pos + n THEN data[i - pos] ELSE buf[i]]
  OBVIOUS
<1>a. \A i \in pos..pos+n-1 : i - pos \in 0..n-1
  BY <1>1
<1>b. \A i \in pos..pos+n-1 : data[i - pos] \in LiteralByte
  BY <1>a
<1>3. \A i \in pos..pos+n-1 : data[i - pos] \in LiteralByte /\ data[i - pos] # Unset
  BY <1>b, RefPackAssumption
<1>4. pos + n <= total /\ pos' = pos + n /\ pos' \in 0..total /\ total' = total
  BY <1>1
<1>5. buf' \in [0..total'-1 -> LiteralByte \cup {Unset}]
  BY <1>1, <1>2, <1>3, <1>4 DEF TypeOK
<1>6. NoHole'
  <2> SUFFICES ASSUME NEW i \in 0..total-1 PROVE buf'[i] = Unset <=> i >= pos'
    BY <1>4 DEF NoHole
  <2>1. CASE i >= pos /\ i < pos + n
    <3>1. i \in pos..pos+n-1
      BY <1>1, <2>1
    <3>2. buf'[i] = data[i - pos]
      BY <1>2, <2>1
    <3> QED BY <1>1, <1>3, <1>4, <2>1, <3>1, <3>2, SMTT(30)
  <2>2. CASE ~(i >= pos /\ i < pos + n)
    <3>1. buf'[i] = buf[i]
      BY <1>2, <2>2
    <3>2. buf[i] = Unset <=> i >= pos
      BY DEF Accounting
    <3> QED BY <1>1, <1>4, <2>2, <3>1, <3>2
  <2> QED BY <2>1, <2>2
<1>7. /\ dsize' = dsize - n /\ csize' = csize - n /\ datawritten' = datawritten + n
      /\ dsize' \in Nat /\ csize' \in Nat /\ datawritten' \in Nat
  BY <1>1, SMTT(30)
<1>8. pc' = (IF op.left = 0 THEN "fetch" ELSE "referenced") /\ op' = op
  OBVIOUS
<1>9. TypeOK'
  BY <1>4, <1>5, <1>7, <1>8 DEF TypeOK
<1>10. Accounting'
  <2>1. Owed' = 0
    BY <1>8 DEF Owed
  <2>2. pos' + Owed' = datawritten' /\ datawritten' + dsize' = total'
    BY <1>1, <1>4, <1>7, <2>1, SMTT(30)
  <2> QED BY <1>6, <2>2 DEF Accounting, NoHole
<1>11. Granted' /\ Short'
  BY <1>1, <1>8 DEF Granted, Short
<1> QED BY <1>8, <1>9, <1>10, <1>11 DEF Doubling, RepeatsHistory
\* The first copy establishes the period, and the seam.
LEMMA ReferencedIInv == ASSUME IInv, CopyReferenced PROVE IInv'
<1> DEFINE first == MinOf(Offset, op.left)
<1> USE DEF IInv, params
<1>a. op \in [proceeding : Nat, left : Nat, offset : Nat]
  BY DEF TypeOK
<1>1. /\ total \in Nat /\ pos \in 0..total /\ Offset \in Nat /\ op.offset \in Nat
      /\ dsize \in Nat /\ datawritten \in Nat /\ op.left \in Nat /\ op.left > 0
      /\ pos = datawritten /\ pos + dsize = total /\ NoHole
      /\ csize \in Nat /\ stopflag \in BOOLEAN /\ result \in {"none", "ok", "corrupt"}
  BY RefPackAssumption, SMTT(30)
     DEF CopyReferenced, Grant, TypeOK, Accounting, Owed, Granted, Offset, NoHole
<1>2. /\ op.left <= dsize /\ Offset <= pos /\ Offset >= 1
      /\ dsize' = dsize - op.left /\ datawritten' = datawritten + op.left
      /\ copysource' = pos /\ pc' = "copying" /\ total' = total
      /\ csize' = csize /\ stopflag' = stopflag /\ result' = result
  BY <1>1 DEF CopyReferenced, Grant, Offset
<1>3. CASE Offset = 1
  <2>1. /\ buf' = [i \in 0..total-1 |->
                     IF i >= pos /\ i < pos + op.left THEN buf[pos-1] ELSE buf[i]]
        /\ pos' = pos + op.left
        /\ op' = [op EXCEPT !.left = 0]
        /\ copylength' = op.left /\ calls' = 0
    BY <1>3 DEF CopyReferenced, Grant, Offset
  <2>2. op' \in [proceeding : Nat, left : Nat, offset : Nat]
        /\ op'.left = 0 /\ op'.offset = op.offset
    BY <2>1 DEF TypeOK
  <2>3. buf[pos-1] \in LiteralByte /\ buf[pos-1] # Unset
    BY <1>1, <1>2 DEF NoHole, TypeOK
  <2>4. buf' \in [0..total'-1 -> LiteralByte \cup {Unset}]
    BY <1>1, <1>2, <2>1, <2>3 DEF TypeOK
  <2>5. pos' \in 0..total' /\ dsize' \in Nat /\ datawritten' \in Nat
    BY <1>1, <1>2, <2>1
  <2>6. TypeOK'
    BY <1>1, <1>2, <2>1, <2>2, <2>4, <2>5 DEF TypeOK
  <2>7. NoHole'
    BY <1>1, <1>2, <2>1, <2>3 DEF NoHole
  <2>8. Accounting'
    BY <1>1, <1>2, <2>1, <2>2, <2>7 DEF Accounting, Owed, NoHole
  <2>9. RepeatsHistory'
    <3>a. op'.offset + 1 = 1 /\ copysource' = pos /\ pos' = pos + op.left
      BY <1>2, <1>3, <2>1, <2>2 DEF Offset
    <3> SUFFICES ASSUME NEW i \in pos..pos+op.left-1
                 PROVE  buf'[i] = buf'[i - 1]
      BY <1>1, <3>a DEF RepeatsHistory
    <3>1. buf'[i] = buf[pos-1]
      BY <1>1, <1>2, <2>1, SMTT(30)
    <3>2. i - 1 \in 0..total-1 /\ i - 1 >= pos - 1 /\ i - 1 < pos + op.left
      BY <1>1, <1>2
    <3>3. buf'[i - 1] = buf[pos-1]
      BY <1>1, <2>1, <3>2
    <3> QED BY <3>1, <3>3
  <2>10. Doubling'
    BY <1>1, <1>2, <1>3, <2>1, <2>2, SMTT(30) DEF Doubling, Offset
  <2>11. Short'
    BY <1>1, <1>2, <2>1, <2>2 DEF Short, MaxReference
  <2>12. Granted'
    BY <1>2 DEF Granted, CopyReferenced, Grant
  <2> QED BY <2>6, <2>8, <2>9, <2>10, <2>11, <2>12
<1>4. CASE Offset # 1
  <2>1. /\ Memcpy(pos - Offset, first)
        /\ op' = [op EXCEPT !.left = @ - first]
        /\ copylength' = first /\ calls' = 1
    BY <1>4 DEF CopyReferenced, Grant, Offset
  <2>2. first \in Nat /\ first >= 1 /\ first <= Offset /\ first <= op.left
        /\ (first < op.left => first = Offset)
    BY <1>1, <1>2 DEF MinOf
  <2> HIDE DEF first
  <2>a. op.left - first \in Nat
    BY <1>1, <2>2
  <2>3. /\ op' \in [proceeding : Nat, left : Nat, offset : Nat]
        /\ op'.left = op.left - first /\ op'.offset = op.offset
    BY <1>a, <2>1, <2>a
  <2>4. /\ buf' \in [0..total'-1 -> LiteralByte \cup {Unset}]
        /\ pos' = pos + first /\ pos' \in 0..total' /\ NoHole'
        /\ \A i \in 0..total-1 : i < pos => buf'[i] = buf[i]
        /\ \A i \in pos..pos+first-1 : buf'[i] = buf[(pos - Offset) + (i - pos)]
    <3>1. pos - Offset \in Nat /\ (pos - Offset) + first <= pos /\ pos + first <= total
      BY <1>1, <1>2, <2>2
    <3> QED BY <1>1, <1>2, <2>1, <2>2, <3>1, MemcpyExtends, SMTT(30)
  <2>5. dsize' \in Nat /\ datawritten' \in Nat
    BY <1>1, <1>2
  <2>6. TypeOK'
    BY <1>1, <1>2, <2>1, <2>2, <2>3, <2>4, <2>5 DEF TypeOK
  <2>7. Owed' = op.left - first
    BY <1>2, <2>3 DEF Owed
  <2>8. Accounting'
    <3>1. pos' + Owed' = datawritten'
      BY <1>1, <1>2, <2>2, <2>4, <2>7
    <3>2. datawritten' + dsize' = total'
      BY <1>1, <1>2
    <3> QED BY <2>4, <3>1, <3>2 DEF Accounting, NoHole
  <2>9. \A i \in pos..pos+first-1 : buf'[i] = buf'[i - Offset]
    <3> TAKE i \in pos..pos+first-1
    <3>1. buf'[i] = buf[(pos - Offset) + (i - pos)]
      BY <2>4
    <3>2. (pos - Offset) + (i - pos) = i - Offset
      BY <1>1, <2>2
    <3>3. i - Offset \in 0..total-1 /\ i - Offset < pos
      BY <1>1, <1>2, <2>2
    <3> QED BY <2>4, <3>1, <3>2, <3>3
  <2>10. RepeatsHistory'
    <3>1. op'.offset + 1 = Offset /\ copysource' = pos /\ pos' = pos + first
      BY <1>2, <2>3, <2>4 DEF Offset
    <3> QED BY <1>1, <2>2, <2>9, <3>1 DEF RepeatsHistory
  <2>11. Doubling'
    <3>1. copysource' < pos' /\ Offset' <= copysource' /\ Offset' = Offset
      BY <1>1, <1>2, <2>2, <2>3, <2>4 DEF Offset
    <3>2. ASSUME op'.left > 0
          PROVE  /\ copylength' = pos' - copysource' /\ Offset' <= copylength'
                 /\ \A i \in 0..Offset'-1 :
                       buf'[(pos' - Offset') + i] = buf'[(copysource' - Offset') + i]
      <4>1. first = Offset
        BY <1>1, <2>2, <2>3, <3>2
      <4>2. \A i \in 0..Offset-1 : /\ pos + i \in pos..pos+first-1
                                   /\ (pos + i) - Offset = (pos - Offset) + i
                                   /\ (pos' - Offset) + i = pos + i
        BY <1>1, <2>2, <2>4, <4>1
      <4>3. \A i \in 0..Offset-1 : buf'[pos + i] = buf'[(pos + i) - Offset]
        BY <2>9, <4>2
      <4>4. copylength' = pos' - copysource' /\ Offset' <= copylength'
        BY <1>1, <1>2, <2>1, <2>2, <2>4, <3>1, <4>1
      <4>5. \A i \in 0..Offset-1 :
               buf'[(pos' - Offset) + i] = buf'[(copysource' - Offset) + i]
        BY <1>2, <4>2, <4>3
      <4> QED BY <3>1, <4>4, <4>5
    <3> QED BY <3>1, <3>2 DEF Doubling
  <2>12. Short'
    BY <1>1, <1>2, <2>2, <2>3, <2>4, SMTT(30) DEF Short, MaxReference
  <2>13. Granted'
    BY <1>2 DEF Granted, CopyReferenced, Grant
  <2> QED BY <2>6, <2>8, <2>10, <2>11, <2>12, <2>13
<1> QED BY <1>3, <1>4
\* Pasting a block of everything pasted so far continues the period, because
\* the block starts where the seam says the period is at its beginning.
LEMMA PasteIInv == ASSUME IInv, PasteAgain PROVE IInv'
<1> DEFINE length == MinOf(copylength, op.left)
<1> USE DEF IInv, params
<1>a. op \in [proceeding : Nat, left : Nat, offset : Nat]
  BY DEF TypeOK
<1>1. /\ total \in Nat /\ pos \in 0..total /\ Offset \in Nat /\ Offset >= 1
      /\ op.offset \in Nat /\ op.left \in Nat /\ op.left > 0 /\ NoHole
      /\ dsize \in Nat /\ datawritten \in Nat /\ copysource \in Nat /\ calls \in Nat
      /\ pos + op.left = datawritten /\ datawritten + dsize = total
  BY RefPackAssumption, SMTT(30) DEF PasteAgain, TypeOK, Accounting, Owed, Offset, NoHole
<1>2. /\ copysource < pos /\ Offset <= copysource /\ Offset <= copylength
      /\ copylength = pos - copysource
      /\ (pos - copysource) + op.left <= MaxReference
      /\ \A i \in 0..Offset-1 :
            buf[(pos - Offset) + i] = buf[(copysource - Offset) + i]
  BY <1>1 DEF PasteAgain, Doubling, Short
<1>3. \A i \in copysource..pos-1 : buf[i] = buf[i - Offset]
  BY DEF PasteAgain, RepeatsHistory, Offset
<1>4. /\ Memcpy(copysource, length)
      /\ op' = [op EXCEPT !.left = @ - length]
      /\ copylength' = IF length <= Bit31Clear THEN 2 * length ELSE length
      /\ calls' = calls + 1
      /\ pc = "copying" /\ pc' = "copying" /\ copysource' = copysource /\ total' = total
      /\ UNCHANGED <<csize, stopflag, dsize, datawritten, result>>
  BY DEF PasteAgain
<1>5. /\ length \in Nat /\ length >= 1 /\ length <= copylength /\ length <= op.left
      /\ (length < op.left => length = copylength)
  BY <1>1, <1>2 DEF MinOf
<1> HIDE DEF length
<1>6. copylength' = 2 * length
  BY SMT, <1>1, <1>2, <1>4, <1>5 DEF MaxReference, Bit31Clear
<1>b. op.left - length \in Nat
  BY <1>1, <1>5
<1>7. /\ op' \in [proceeding : Nat, left : Nat, offset : Nat]
      /\ op'.left = op.left - length /\ op'.offset = op.offset /\ Offset' = Offset
  BY <1>a, <1>b, <1>4 DEF Offset
<1>8. /\ buf' \in [0..total'-1 -> LiteralByte \cup {Unset}]
      /\ pos' = pos + length /\ pos' \in 0..total' /\ NoHole'
      /\ \A i \in 0..total-1 : i < pos => buf'[i] = buf[i]
      /\ \A i \in pos..pos+length-1 : buf'[i] = buf[copysource + (i - pos)]
  <2>1. copysource + length <= pos /\ pos + length <= total
    BY <1>1, <1>2, <1>5
  <2> QED BY <1>1, <1>4, <1>5, <2>1, MemcpyExtends
<1>9. TypeOK'
  <2>1. copylength' \in Nat /\ calls' \in Nat
    BY <1>1, <1>4, <1>5, <1>6
  <2> QED BY <1>1, <1>4, <1>7, <1>8, <2>1 DEF TypeOK
<1>10. Accounting'
  <2>1. Owed' = op.left - length
    BY <1>4, <1>7 DEF Owed
  <2>2. pos' + Owed' = datawritten' /\ datawritten' + dsize' = total'
    BY <1>1, <1>4, <1>5, <1>8, <2>1
  <2> QED BY <1>8, <2>2 DEF Accounting, NoHole
<1>11. \A i \in copysource..pos'-1 : buf'[i] = buf'[i - Offset]
  <2> TAKE i \in copysource..pos'-1
  <2>1. CASE i < pos
    <3>1. i \in 0..total-1 /\ i - Offset \in 0..total-1 /\ i - Offset < pos
          /\ i \in copysource..pos-1
      BY <1>1, <1>2, <2>1
    <3> QED BY <1>3, <1>8, <2>1, <3>1
  <2>2. CASE i >= pos
    <3> DEFINE j == i - pos
    <3>1. i \in pos..pos+length-1 /\ j \in 0..length-1
      BY <1>1, <1>5, <1>8, <2>2
    <3>2. copysource + j \in copysource..pos-1
      BY <1>1, <1>2, <1>5, <3>1
    <3>3. buf'[i] = buf[(copysource + j) - Offset]
      BY <1>3, <1>8, <3>1, <3>2
    <3>4. CASE j >= Offset
      <4>1. i - Offset \in pos..pos+length-1
        BY <1>1, <1>5, <3>1, <3>4
      <4>2. buf'[i - Offset] = buf[copysource + ((i - Offset) - pos)]
        BY <1>8, <4>1
      <4>3. copysource + ((i - Offset) - pos) = (copysource + j) - Offset
        BY <1>1, <3>1
      <4> QED BY <3>3, <4>2, <4>3
    <3>5. CASE j < Offset
      <4>1. j \in 0..Offset-1 /\ i - Offset = (pos - Offset) + j
            /\ (copysource + j) - Offset = (copysource - Offset) + j
        BY <1>1, <1>5, <3>1, <3>5
      <4>2. i - Offset \in 0..total-1 /\ i - Offset < pos
        BY <1>1, <1>2, <3>1, <3>5, <4>1
      <4>3. buf'[i - Offset] = buf[(pos - Offset) + j]
        BY <1>8, <4>1, <4>2
      <4> QED BY <1>2, <3>3, <4>1, <4>3
    <3> QED BY <1>1, <3>1, <3>4, <3>5
  <2> QED BY <1>1, <1>5, <1>8, <2>1, <2>2
<1>12. RepeatsHistory'
  BY <1>4, <1>7, <1>11 DEF RepeatsHistory, Offset
<1>13. Doubling'
  <2>1. copysource' < pos' /\ Offset' <= copysource'
    BY <1>1, <1>2, <1>4, <1>5, <1>7, <1>8, SMTT(30)
  <2>2. ASSUME op'.left > 0
        PROVE  /\ copylength' = pos' - copysource' /\ Offset' <= copylength'
               /\ \A i \in 0..Offset'-1 :
                     buf'[(pos' - Offset') + i] = buf'[(copysource' - Offset') + i]
    <3>1. length = copylength
      BY <1>1, <1>5, <1>7, <2>2
    <3>2. copylength' = pos' - copysource' /\ Offset' <= copylength'
      <4>1. copysource' = copysource /\ pos' = pos + length /\ Offset' = Offset
        BY <1>4, <1>7, <1>8
      <4> QED BY <1>1, <1>2, <1>5, <1>6, <3>1, <4>1
    <3>3. ASSUME NEW i \in 0..Offset-1
          PROVE  buf'[(pos' - Offset) + i] = buf'[(copysource - Offset) + i]
      <4>1. /\ (pos' - Offset) + i \in pos..pos+length-1
            /\ copysource + (((pos' - Offset) + i) - pos) = (pos - Offset) + i
        BY <1>1, <1>2, <1>5, <1>8, <3>1
      <4>2. buf'[(pos' - Offset) + i] = buf[(pos - Offset) + i]
        BY <1>8, <4>1
      <4>3. (copysource - Offset) + i \in 0..total-1 /\ (copysource - Offset) + i < pos
        BY <1>1, <1>2
      <4>4. buf'[(copysource - Offset) + i] = buf[(copysource - Offset) + i]
        BY <1>8, <4>3
      <4> QED BY <1>2, <4>2, <4>4
    <3> QED BY <1>4, <1>7, <3>2, <3>3
  <2> QED BY <2>1, <2>2 DEF Doubling
<1>14. Short'
  <2>1. op'.left <= op.left /\ (pos' - copysource') + op'.left = (pos - copysource) + op.left
    <3>1. op'.left = op.left - length /\ pos' = pos + length /\ copysource' = copysource
      BY <1>4, <1>7, <1>8
    <3> QED BY SMT, <1>1, <1>5, <3>1
  <2>2. op.left <= MaxReference /\ (pos - copysource) + op.left <= MaxReference
    BY <1>4 DEF Short
  <2> QED BY <1>1, <1>b, <1>7, <2>1, <2>2 DEF Short, MaxReference
<1>15. Granted'
  BY <1>4 DEF Granted
<1> QED BY <1>9, <1>10, <1>12, <1>13, <1>14, <1>15

\* The loop that copies a reference ends when nothing is owed.
LEMMA EndReferenceIInv == ASSUME IInv, EndReference PROVE IInv'
<1> USE DEF IInv, EndReference, params, opcode, copying
<1>1. TypeOK'
  BY DEF TypeOK
<1>2. Accounting'
  BY DEF Accounting, Owed, TypeOK
<1> QED BY <1>1, <1>2 DEF Doubling, RepeatsHistory, Granted, Short

\* Returning changes the result only.
LEMMA ReturnIInv == ASSUME IInv, Return PROVE IInv'
<1> USE DEF IInv, Return, params, opcode, copying
<1>1. TypeOK'
  BY DEF TypeOK
<1>2. Accounting'
  BY DEF Accounting, Owed
<1> QED BY <1>1, <1>2 DEF Doubling, RepeatsHistory, Granted, Short

\* Nothing changes when no variable does.
LEMMA StutterIInv == ASSUME IInv, UNCHANGED vars PROVE IInv'
<1> USE DEF IInv, vars, params, opcode, copying
<1>1. TypeOK'
  BY DEF TypeOK
<1>2. Accounting'
  BY DEF Accounting, Owed
<1>3. Doubling' /\ RepeatsHistory'
  BY DEF Doubling, RepeatsHistory, Offset
<1>4. Granted' /\ Short'
  BY DEF Granted, Short
<1> QED BY <1>1, <1>2, <1>3, <1>4

\* Every step preserves the invariant.
LEMMA NextIInv == IInv /\ [Next]_vars => IInv'
<1> SUFFICES ASSUME IInv, [Next]_vars PROVE IInv'
  OBVIOUS
<1>1. CASE TruncatedOpcode
  BY <1>1, CorruptIInv DEF TruncatedOpcode
<1>2. CASE FetchOpcode
  BY <1>2, FetchIInv
<1>3. CASE ProceedingTooLong
  BY <1>3, CorruptIInv DEF ProceedingTooLong
<1>4. CASE CopyProceeding
  BY <1>4, ProceedingIInv
<1>5. CASE BadReference
  BY <1>5, CorruptIInv DEF BadReference
<1>6. CASE CopyReferenced
  BY <1>6, ReferencedIInv
<1>7. CASE PasteAgain
  BY <1>7, PasteIInv
<1>8. CASE EndReference
  BY <1>8, EndReferenceIInv
<1>9. CASE Return
  BY <1>9, ReturnIInv
<1>10. CASE UNCHANGED vars
  BY <1>10, StutterIInv
<1> QED BY <1>1, <1>2, <1>3, <1>4, <1>5, <1>6, <1>7, <1>8, <1>9, <1>10 DEF Next

-----------------------------------------------------------------------------
\* The state of a call is always of its type: no size_t counter wraps and the
\* output pointer never leaves the output.
THEOREM TypeCorrect == Spec => []TypeOK
<1>1. IInv => TypeOK
  BY DEF IInv
<1> QED BY <1>1, InitIInv, NextIInv, PTL DEF Spec

\* Pointer, counters and memory agree at every step of a call.
THEOREM AccountingHolds == Spec => []Accounting
<1>1. IInv => Accounting
  BY DEF IInv
<1> QED BY <1>1, InitIInv, NextIInv, PTL DEF Spec

\* A reference repeats the output byte by byte, though it is pasted in blocks.
THEOREM HistoryRepeated == Spec => []RepeatsHistory
<1>1. IInv => RepeatsHistory
  BY DEF IInv
<1> QED BY <1>1, InitIInv, NextIInv, PTL DEF Spec

\* No memcpy of the doubling loop reads what it writes.
THEOREM CopiesDisjoint == Spec => []CopyDisjoint
<1>1. IInv => CopyDisjoint
  <2> SUFFICES ASSUME IInv, pc = "copying", op.left > 0
               PROVE  copysource + MinOf(copylength, op.left) <= pos
    BY DEF CopyDisjoint
  <2>1. op.left \in Nat /\ copysource \in Nat /\ pos \in Int
        /\ copylength = pos - copysource
    BY RefPackAssumption DEF IInv, Doubling, TypeOK
  <2> QED BY <2>1 DEF MinOf
<1> QED BY <1>1, InitIInv, NextIInv, PTL DEF Spec

\* A call reports success only of an output without a hole and an input used up.
THEOREM SuccessIsComplete == Spec => []OkIsComplete
<1>1. IInv => OkIsComplete
  <2> SUFFICES ASSUME IInv, result = "ok"
               PROVE  csize = 0 /\ \A i \in 0..total-1 : buf[i] \in LiteralByte
    BY DEF OkIsComplete
  <2>1. pc = "done" /\ csize = 0 /\ dsize = 0
    BY DEF IInv, Granted
  <2>2. total \in Nat /\ pos \in Nat /\ datawritten \in Nat
    BY RefPackAssumption DEF IInv, TypeOK
  <2>3. pos = total
    BY <2>1, <2>2 DEF IInv, Accounting, Owed
  <2>4. ASSUME NEW i \in 0..total-1 PROVE buf[i] # Unset
    BY <2>2, <2>3, <2>4 DEF IInv, Accounting
  <2>5. ASSUME NEW i \in 0..total-1 PROVE buf[i] \in LiteralByte \cup {Unset}
    BY <2>5 DEF IInv, TypeOK
  <2> QED BY <2>1, <2>4, <2>5
<1> QED BY <1>1, InitIInv, NextIInv, PTL DEF Spec
-----------------------------------------------------------------------------
(* The number of copies. *)

LEMMA Powers ==
    /\ DOMAIN PowerOf2 = 0..10 /\ PowerOf2[0] = 1 /\ PowerOf2[10] = 1024
    /\ \A k \in 0..10 : PowerOf2[k] \in Nat
    /\ \A k \in 0..9 : PowerOf2[k + 1] = 2 * PowerOf2[k]
<1> DEFINE IsPower(f) == f = [k \in 0..10 |-> IF k = 0 THEN 1 ELSE 2 * f[k - 1]]
           g == [k \in 0..10 |-> IF k = 0 THEN 1 ELSE IF k = 1 THEN 2 ELSE IF k = 2 THEN 4
                   ELSE IF k = 3 THEN 8 ELSE IF k = 4 THEN 16 ELSE IF k = 5 THEN 32
                   ELSE IF k = 6 THEN 64 ELSE IF k = 7 THEN 128 ELSE IF k = 8 THEN 256
                   ELSE IF k = 9 THEN 512 ELSE 1024]
<1>1. \A k \in 0..10 : g[k] = IF k = 0 THEN 1 ELSE 2 * g[k - 1]
  OBVIOUS
<1>2. IsPower(g)
  BY <1>1
<1>3. PowerOf2 = CHOOSE f : IsPower(f)
  BY DEF PowerOf2
<1>4. IsPower(PowerOf2)
  <2> HIDE DEF IsPower, g
  <2> QED BY <1>2, <1>3
<1> HIDE DEF g
<1>5. DOMAIN PowerOf2 = 0..10 /\ \A k \in 0..10 : PowerOf2[k] = IF k = 0 THEN 1 ELSE 2 * PowerOf2[k - 1]
  BY <1>4
<1>6. PowerOf2[0] = 1 /\ \A k \in 0..9 : PowerOf2[k + 1] = 2 * PowerOf2[k]
  BY <1>5
<1>7. /\ PowerOf2[1] = 2 /\ PowerOf2[2] = 4 /\ PowerOf2[3] = 8 /\ PowerOf2[4] = 16 /\ PowerOf2[5] = 32
      /\ PowerOf2[6] = 64 /\ PowerOf2[7] = 128 /\ PowerOf2[8] = 256 /\ PowerOf2[9] = 512 /\ PowerOf2[10] = 1024
  BY <1>6
<1>8. \A k \in 0..10 : PowerOf2[k] \in Nat
  BY <1>6, <1>7
<1> QED BY <1>5, <1>6, <1>7, <1>8

\* While bytes are left, each copy has doubled what is pasted, from an offset
\* of two or more.
Doubled == pc = "copying" /\ op.left > 0 =>
              calls \in 1..10 /\ copylength >= PowerOf2[calls]

\* No opcode encodes a reference of one or two bytes.
Long == pc \in {"proceeding", "referenced"} => op.left = 0 \/ op.left >= 3

CopiesInv == IInv /\ Doubled /\ FewCopies /\ Long

LEMMA ReferenceIsLong ==
    ASSUME NEW b \in Byte, NEW b4 \in Byte
    PROVE  ReferencedDataLength(b, b4) = 0 \/ ReferencedDataLength(b, b4) >= 3
<1>1. /\ b \in Nat /\ b4 \in Nat /\ b \div 4 \in Nat
  BY DEF Byte
<1>2. /\ (b \div 4) % 8 \in Nat /\ (b \div 4) % 4 \in Nat /\ b % 64 \in Nat
  BY <1>1
<1>3. /\ ((b \div 4) % 8) + 3 >= 3 /\ (b % 64) + 4 >= 3 /\ (256 * ((b \div 4) % 4)) + 5 + b4 >= 3
  BY SMT, <1>1, <1>2
<1> QED BY <1>3 DEF ReferencedDataLength

\* The first copy is of one byte, with a memset, or of two at least.
LEMMA FirstCopy == ASSUME IInv, Long, CopyReferenced PROVE Doubled' /\ FewCopies'
<1>1. /\ op.left \in Nat /\ op.left >= 3 /\ op.offset \in Nat /\ pos \in Nat
      /\ op \in [proceeding : Nat, left : Nat, offset : Nat]
  BY RefPackAssumption DEF IInv, CopyReferenced, Granted, TypeOK, Long
<1>2. copysource' = pos
  BY DEF CopyReferenced
<1>3. CASE op.offset + 1 = 1
  <2>1. calls' = 0 /\ op' = [op EXCEPT !.left = 0]
    BY <1>3 DEF CopyReferenced
  <2> QED BY <1>1, <2>1 DEF Doubled, FewCopies
<1>4. CASE op.offset + 1 # 1
  <2> DEFINE first == MinOf(op.offset + 1, op.left)
  <2>1. /\ calls' = 1 /\ op' = [op EXCEPT !.left = @ - first] /\ copylength' = first /\ pos' = pos + first
    BY <1>4 DEF CopyReferenced, Memcpy
  <2>2. op'.left = op.left - first
    BY <1>1, <2>1
  <2>3. /\ first \in Nat /\ first >= 1 /\ first <= op.left /\ (first < op.left => first >= 2)
    BY <1>1, <1>4 DEF MinOf
  <2> HIDE DEF first
  <2>4. PowerOf2[1] = 2 /\ PowerOf2[0] = 1 /\ calls' - 1 = 0 /\ 0 \in DOMAIN PowerOf2
    BY <2>1, Powers
  <2>5. Doubled'
    BY <1>1, <2>1, <2>2, <2>3, <2>4 DEF Doubled
  <2>6. pos' - copysource' + op'.left = op.left
    BY <1>1, <1>2, <2>1, <2>2, <2>3
  <2> QED BY <1>1, <2>4, <2>5, <2>6 DEF FewCopies
<1> QED BY <1>3, <1>4

\* A copy of the loop is of all that was pasted, or of all that is left.
LEMMA NextCopy == ASSUME IInv, Doubled, FewCopies, PasteAgain PROVE Doubled' /\ FewCopies'
<1> DEFINE length == MinOf(copylength, op.left)
<1>1. /\ op.left \in Nat /\ op.left > 0 /\ pos \in Nat /\ copysource \in Nat /\ copylength \in Nat
      /\ op \in [proceeding : Nat, left : Nat, offset : Nat] /\ pc = "copying"
      /\ copylength = pos - copysource /\ copylength + op.left <= 1028
  BY RefPackAssumption DEF IInv, PasteAgain, Doubling, Short, MaxReference, TypeOK
<1>2. /\ calls' = calls + 1 /\ op' = [op EXCEPT !.left = @ - length] /\ pos' = pos + length
      /\ copylength' = IF length <= Bit31Clear THEN 2 * length ELSE length
      /\ copysource' = copysource /\ pc' = pc
  BY DEF PasteAgain, Memcpy
<1>3. op'.left = op.left - length
  BY <1>1, <1>2
<1>4. length \in Nat /\ length <= op.left /\ (length < op.left => length = copylength) /\ length <= Bit31Clear
  BY <1>1 DEF MinOf, Bit31Clear
<1> HIDE DEF length
<1>5. calls \in 1..10 /\ copylength >= PowerOf2[calls]
  BY <1>1 DEF Doubled
<1>6. calls \in DOMAIN PowerOf2 /\ PowerOf2[calls] \in Nat /\ calls' - 1 = calls
  BY <1>2, <1>5, Powers
<1>7. pos' - copysource' + op'.left = copylength + op.left
  BY <1>1, <1>2, <1>3, <1>4
<1>8. FewCopies'
  BY <1>1, <1>5, <1>6, <1>7 DEF FewCopies
<1>9. ASSUME op'.left > 0 PROVE calls' \in 1..10 /\ copylength' >= PowerOf2[calls']
  <2>1. length = copylength /\ copylength' = 2 * copylength
    BY <1>1, <1>2, <1>3, <1>4, <1>9
  <2>2. copylength < 1024
    BY <1>1, <1>3, <1>4, <1>9, <2>1
  <2>3. calls # 10
    BY <1>1, <1>5, <2>2, Powers
  <2>4. calls \in 0..9 /\ calls + 1 \in 1..10
    BY <1>5, <2>3
  <2>5. PowerOf2[calls + 1] = 2 * PowerOf2[calls]
    BY <2>4, Powers
  <2> QED BY <1>1, <1>2, <1>5, <1>6, <2>1, <2>4, <2>5
<1> QED BY <1>8, <1>9 DEF Doubled

\* No other step copies anything of a reference.
LEMMA CopiesInvariant == Init /\ [][Next]_vars => []CopiesInv
<1>1. Init => CopiesInv
  BY InitIInv DEF Init, CopiesInv, Doubled, FewCopies, Long
<1>2. ASSUME CopiesInv, [Next]_vars PROVE CopiesInv'
  <2>1. IInv'
    BY <1>2, NextIInv DEF CopiesInv
  <2>2. CASE CopyReferenced
    <3>1. pc' = "copying"
      BY <2>2 DEF CopyReferenced
    <3> QED BY <1>2, <2>1, <2>2, <3>1, FirstCopy DEF CopiesInv, Long
  <2>3. CASE PasteAgain
    <3>1. pc' = "copying"
      BY <2>3 DEF PasteAgain
    <3> QED BY <1>2, <2>1, <2>3, <3>1, NextCopy DEF CopiesInv, Long
  <2>4. CASE FetchOpcode
    <3>1. pc' = "proceeding" /\ (op'.left = 0 \/ op'.left >= 3)
      <4>1. PICK b \in FirstByte, b2, b3, b4 \in NextByte :
               op' = [proceeding |-> ProceedingDataLength(b, b2),
                      left       |-> ReferencedDataLength(b, b4),
                      offset     |-> ReferencedDataOffset(b, b2, b3)]
        BY <2>4 DEF FetchOpcode
      <4>2. b \in Byte /\ b4 \in Byte
        BY RefPackAssumption
      <4> QED BY <2>4, <4>1, <4>2, ReferenceIsLong DEF FetchOpcode
    <3> QED BY <2>1, <3>1 DEF CopiesInv, Doubled, FewCopies, Long
  <2>5. CASE CopyProceeding
    <3>1. pc = "proceeding" /\ pc' \in {"fetch", "referenced"} /\ op' = op
      BY <2>5 DEF CopyProceeding
    <3> QED BY <1>2, <2>1, <3>1 DEF CopiesInv, Doubled, FewCopies, Long
  <2>6. CASE \/ TruncatedOpcode \/ ProceedingTooLong \/ BadReference \/ EndReference \/ Return
    <3>1. pc' \in {"done", "fetch"}
      BY <2>6 DEF TruncatedOpcode, ProceedingTooLong, BadReference, EndReference, Return, Corrupt
    <3> QED BY <2>1, <3>1 DEF CopiesInv, Doubled, FewCopies, Long
  <2>7. CASE UNCHANGED vars
    BY <1>2, <2>1, <2>7 DEF CopiesInv, Doubled, FewCopies, Long, vars, opcode, copying, params
  <2> QED BY <1>2, <2>2, <2>3, <2>4, <2>5, <2>6, <2>7 DEF Next
<1> QED BY <1>1, <1>2, PTL

\* A reference of N bytes is pasted by at most ceil(log2(N)) calls of memcpy, as
\* the comment of the code says, and by none if it repeats a single byte.
THEOREM CopiesAreFew == Spec => []FewCopies
<1>1. CopiesInv => FewCopies
  BY DEF CopiesInv
<1> QED BY <1>1, CopiesInvariant, PTL DEF Spec

-----------------------------------------------------------------------------
(* The decoder implements LZ77. *)

\* At first nothing is produced.
LEMMA InitImplements == ASSUME Init PROVE LZ!Init
<1>1. total \in Nat /\ Produced = 0 /\ Verdict = "running"
  BY RefPackAssumption DEF Init, Produced, Verdict
<1>2. Output = [i \in 0..total-1 |-> Unset]
  BY <1>1 DEF Output
<1> QED BY <1>1, <1>2 DEF LZ!Init

\* A step that adds nothing to what is produced is not seen.
LEMMA Unseen ==
    ASSUME IInv, total' = total, result' = result, Produced' = Produced,
           \A i \in 0..total-1 : i < Produced => buf'[i] = buf[i]
    PROVE  UNCHANGED LZ!vars
<1>1. Output' = Output
  BY DEF Output
<1> QED BY <1>1 DEF LZ!vars, Verdict

\* A call that ends ends the abstract one, with the same verdict.
LEMMA FinishImplements ==
    ASSUME IInv, UNCHANGED <<total, buf, pos>>, pc # "copying", pc' = "done",
           result = "none", result' \in {"ok", "corrupt"}, result' = "ok" => pos = total
    PROVE  LZ!Next
<1>1. Produced = pos /\ Produced' = pos /\ Output' = Output
  BY DEF Produced, Output
<1>2. Verdict = "running" /\ Verdict' = result'
  BY DEF Verdict
<1>3. LZ!Finish
  BY <1>1, <1>2 DEF LZ!Finish
<1> QED BY <1>2, <1>3 DEF LZ!Next

\* So does one that fails, wherever it fails.
LEMMA CorruptImplements == ASSUME IInv, Corrupt, pc \notin {"copying", "done"} PROVE LZ!Next
BY FinishImplements DEF Corrupt, IInv, Granted, params

\* Success is reported only of an output that is full.
LEMMA ReturnImplements == ASSUME IInv, Return PROVE LZ!Next
<1>1. result' = "ok" => pos = total
  BY DEF Return, IInv, Accounting, Owed, TypeOK
<1> QED BY <1>1, FinishImplements DEF Return, IInv, Granted, params

\* Proceeding data is a Literal step, or none when it is empty.
LEMMA LiteralImplements == ASSUME IInv, CopyProceeding PROVE [LZ!Next]_(LZ!vars)
<1> DEFINE n == op.proceeding
<1> USE DEF IInv, params, copying
<1>1. /\ total \in Nat /\ pos \in 0..total /\ n \in Nat /\ n <= dsize
      /\ pos + dsize = total /\ pos' = pos + n /\ total' = total
      /\ pc # "copying" /\ pc' # "copying" /\ result' = result /\ result = "none"
  BY RefPackAssumption DEF CopyProceeding, Grant, TypeOK, Accounting, Owed, Granted
<1>2. PICK data \in [0..n-1 -> LiteralByte] :
        buf' = [i \in 0..total-1 |->
                  IF i >= pos /\ i < pos + n THEN data[i - pos] ELSE buf[i]]
  BY DEF CopyProceeding, Grant
<1>3. Produced = pos /\ Produced' = pos + n /\ Verdict = "running" /\ Verdict' = "running"
  BY <1>1 DEF Produced, Verdict
<1>4. CASE n = 0
  BY <1>1, <1>2, <1>3, <1>4, Unseen
<1>5. CASE n > 0
  <2>a. n \in Nat /\ total \in Nat /\ pos \in Nat /\ dsize \in Int
    BY <1>1, RefPackAssumption DEF TypeOK
  <2>b. pos + n <= total
    BY <1>1, <2>a
  <2>1. n \in 1..total /\ pos + n <= total
    BY <1>1, <1>5, <2>a, <2>b
  <2>2. \A i \in 0..total-1 : (i < pos \/ i >= pos + n) => Output'[i] = Output[i]
    <3> TAKE i \in 0..total-1
    <3>1. CASE i < pos
      <4>1. buf'[i] = buf[i]
        BY <1>1, <1>2, <3>1
      <4> QED BY <1>1, <1>3, <3>1, <4>1 DEF Output
    <3>2. CASE i >= pos + n
      BY <1>1, <1>3, <3>2 DEF Output
    <3> QED BY <3>1, <3>2
  <2>3. \A i \in pos..pos+n-1 : Output'[i] \in Byte
    <3> TAKE i \in pos..pos+n-1
    <3>1. i \in 0..total-1 /\ i - pos \in 0..n-1 /\ i >= pos /\ i < pos + n
      BY <1>1, <2>1
    <3>2. buf'[i] = data[i - pos]
      BY <1>2, <3>1
    <3>3. Output'[i] = buf'[i]
      BY <1>1, <1>3, <3>1 DEF Output
    <3>4. data[i - pos] \in LiteralByte
      BY <3>1
    <3> QED BY <3>2, <3>3, <3>4, RefPackAssumption
  <2>4. DOMAIN Output' = 0..total-1
    BY <1>1 DEF Output
  <2>5. LZ!Grow(n)
    BY <1>1, <1>3, <2>1, <2>2, <2>4 DEF LZ!Grow
  <2>6. LZ!Literal
    BY <1>3, <2>1, <2>3, <2>5 DEF LZ!Literal
  <2> QED BY <1>3, <2>6 DEF LZ!Next
<1> QED BY <1>1, <1>4, <1>5
\* The copies of a reference write above copysource, out of sight.
LEMMA ReferencedImplements == ASSUME IInv, CopyReferenced PROVE UNCHANGED LZ!vars
<1>1. /\ total' = total /\ result' = result /\ pc' = "copying" /\ copysource' = pos
      /\ pc = "referenced"
  BY DEF CopyReferenced, Grant, params
<1>2. Produced = pos /\ Produced' = pos
  BY <1>1 DEF Produced
<1>3. \A i \in 0..total-1 : i < pos => buf'[i] = buf[i]
  <2>1. total \in Nat /\ pos \in Nat
    BY RefPackAssumption DEF IInv, TypeOK
  <2>2. CASE op.offset + 1 = 1
    BY <2>1, <2>2 DEF CopyReferenced, Grant
  <2>3. CASE op.offset + 1 # 1
    BY <2>1, <2>3 DEF CopyReferenced, Grant, Memcpy
  <2> QED BY <2>2, <2>3
<1> QED BY <1>1, <1>2, <1>3, Unseen

\* Nor is a later copy of a reference seen.
LEMMA PasteImplements == ASSUME IInv, PasteAgain PROVE UNCHANGED LZ!vars
<1>1. /\ total' = total /\ result' = result /\ pc' = "copying" /\ pc = "copying"
      /\ copysource' = copysource /\ copysource < pos
  BY DEF PasteAgain, params, IInv, Doubling
<1>2. Produced = copysource /\ Produced' = copysource
  BY <1>1 DEF Produced
<1>3. \A i \in 0..total-1 : i < copysource => buf'[i] = buf[i]
  BY <1>1, RefPackAssumption DEF PasteAgain, Memcpy, IInv, TypeOK
<1> QED BY <1>1, <1>2, <1>3, Unseen

\* The end of a reference shows all of it at once.
LEMMA EndImplements == ASSUME IInv, EndReference PROVE LZ!Next
<1> DEFINE n == pos - copysource
<1>1. /\ total \in Nat /\ pos \in 0..total /\ copysource \in Nat /\ copysource < pos
      /\ Offset \in 1..copysource /\ n \in 1..total /\ copysource + n = pos
  BY RefPackAssumption DEF EndReference, IInv, TypeOK, Doubling, Offset
<1>2. /\ UNCHANGED <<total, buf, pos, result>> /\ pc = "copying" /\ pc' = "fetch"
      /\ result = "none"
  BY DEF EndReference, params, IInv, Granted
<1>3. Produced = copysource /\ Produced' = pos /\ Verdict = "running" /\ Verdict' = "running"
  BY <1>2 DEF Produced, Verdict
<1>4. Output' = [i \in 0..total-1 |-> IF i < pos THEN buf[i] ELSE Unset]
  BY <1>2, <1>3 DEF Output
<1>5. \A i \in 0..total-1 :
        (i < copysource \/ i >= copysource + n) => Output'[i] = Output[i]
  <2> TAKE i \in 0..total-1
  <2>1. Output[i] = IF i < copysource THEN buf[i] ELSE Unset
    BY <1>3 DEF Output
  <2>2. Output'[i] = IF i < pos THEN buf[i] ELSE Unset
    BY <1>4
  <2> QED BY <1>1, <2>1, <2>2
<1>6. LZ!Grow(n)
  BY <1>1, <1>2, <1>3, <1>4, <1>5 DEF LZ!Grow
<1>7. \A i \in copysource..copysource+n-1 : Output'[i] = Output'[i - Offset]
  <2> TAKE i \in copysource..copysource+n-1
  <2>1. /\ i \in 0..total-1 /\ i - Offset \in 0..total-1 /\ i < pos /\ i - Offset < pos
        /\ i \in copysource..pos-1
    BY <1>1
  <2>2. buf[i] = buf[i - Offset]
    BY <1>2, <2>1 DEF IInv, RepeatsHistory, Offset
  <2> QED BY <1>4, <2>1, <2>2
<1>8. LZ!Reference
  BY <1>1, <1>3, <1>6, <1>7 DEF LZ!Reference
<1> QED BY <1>3, <1>8 DEF LZ!Next

\* Every step is one of the byte-by-byte decoder, or unseen by it.
LEMMA NextImplements == ASSUME IInv, [Next]_vars PROVE [LZ!Next]_(LZ!vars)
<1>1. CASE TruncatedOpcode
  BY <1>1, CorruptImplements DEF TruncatedOpcode
<1>2. CASE FetchOpcode
  <2>1. /\ total' = total /\ result' = result /\ buf' = buf /\ pos' = pos
        /\ pc # "copying" /\ pc' # "copying"
    BY <1>2 DEF FetchOpcode, params
  <2>2. Produced' = Produced
    BY <2>1 DEF Produced
  <2> QED BY <2>1, <2>2, Unseen
<1>3. CASE ProceedingTooLong
  BY <1>3, CorruptImplements DEF ProceedingTooLong
<1>4. CASE CopyProceeding
  BY <1>4, LiteralImplements
<1>5. CASE BadReference
  BY <1>5, CorruptImplements DEF BadReference
<1>6. CASE CopyReferenced
  BY <1>6, ReferencedImplements
<1>7. CASE PasteAgain
  BY <1>7, PasteImplements
<1>8. CASE EndReference
  BY <1>8, EndImplements
<1>9. CASE Return
  BY <1>9, ReturnImplements
<1>10. CASE UNCHANGED vars
  <2>1. UNCHANGED <<total, result, buf, Produced>>
    BY <1>10 DEF vars, params, copying, Produced
  <2> QED BY <2>1, Unseen
<1> QED BY <1>1, <1>2, <1>3, <1>4, <1>5, <1>6, <1>7, <1>8, <1>9, <1>10 DEF Next

\* What the decoder writes is what the stream means: ImplementsLZ77, for every
\* stream, size and HNSV.
THEOREM DecoderImplementsLZ77 == Spec => ImplementsLZ77
<1>1. Init => LZ!Init
  BY InitImplements
<1>2. IInv /\ [Next]_vars => [LZ!Next]_(LZ!vars)
  BY NextImplements
<1> QED BY <1>1, <1>2, InitIInv, NextIInv, PTL DEF Spec, ImplementsLZ77, LZ!Spec
=============================================================================
