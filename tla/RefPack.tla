------------------------------ MODULE RefPack ------------------------------
(***************************************************************************)
(* RefPackDecompress of Libraries/FileHandler/far/refpack_dec.c: one call, *)
(* statement by statement.  CompressedData is read once, front to back, so *)
(* its bytes are chosen when they are read; only its size is kept.         *)
(***************************************************************************)
EXTENDS Integers

CONSTANTS CompressedSizes,    \* the sizes a caller passes (the third and
          DecompressedSizes,  \* fields a FAR entry header declares)
          HNSV,               \* the highest non-stop value of the entry
          FirstByte,          \* values of the first byte of an opcode,
          NextByte,           \* of its other bytes,
          LiteralByte,        \* and of the data between opcodes
          Unset               \* a byte of DecompressedData never written

Byte == 0..255

ASSUME RefPackAssumption ==
    /\ CompressedSizes \subseteq Nat /\ DecompressedSizes \subseteq Nat
    /\ HNSV \in Byte
    /\ FirstByte \subseteq Byte /\ NextByte \subseteq Byte /\ LiteralByte \subseteq Byte
    /\ Unset \notin Byte

VARIABLES
    total,        \* DecompressedSize as it was passed
    csize,        \* CompressedSize: bytes of input left
    dsize,        \* DecompressedSize: bytes of output not yet promised
    datawritten,
    stopflag,
    op,           \* ProceedingDataLength, ReferencedDataLength and -Offset
    buf,          \* the memory at the DecompressedData that was passed
    pos,          \* the DecompressedData pointer, as an index of buf
    copysource,   \* an index of buf as well
    copylength,
    calls,        \* history: calls of memcpy made for the current reference
    pc,
    result        \* the returned value

params == <<total>>
opcode == <<csize, stopflag, op>>
copying == <<copysource, copylength, calls>>
vars == <<params, opcode, copying, dsize, datawritten, buf, pos, pc, result>>

\* copylength & 0x80000000 is zero up to here.
Bit31Clear == 2147483647

MinOf(a, b) == IF a < b THEN a ELSE b

-----------------------------------------------------------------------------
(* The opcodes. *)

Highest == IF HNSV = 0 THEN 251 ELSE HNSV

\* A mask of low bits: b & StopFlagData is b % (StopFlagData + 1).
StopFlagData == CASE Highest >= 255 -> 31
                  [] Highest = 254  -> 0
                  [] Highest = 253  -> 1
                  [] Highest \in 251..252 -> 3
                  [] Highest \in 247..250 -> 7
                  [] OTHER -> 15

OpcodeSize(b) == CASE b <= 127 -> 2
                   [] b \in 128..191 -> 3
                   [] b \in 192..223 -> 4
                   [] OTHER -> 1

IsStop(b) == b >= 224 /\ b > Highest

ProceedingDataLength(b, b2) ==
    CASE OpcodeSize(b) \in {2, 4} -> b % 4
      [] OpcodeSize(b) = 3 -> b2 \div 64
      [] IsStop(b) -> b % (StopFlagData + 1)
      [] OTHER -> 4 * ((b % 32) + 1)

ReferencedDataLength(b, b4) ==
    CASE OpcodeSize(b) = 2 -> ((b \div 4) % 8) + 3
      [] OpcodeSize(b) = 3 -> (b % 64) + 4
      [] OpcodeSize(b) = 4 -> (256 * ((b \div 4) % 4)) + 5 + b4
      [] OTHER -> 0

\* As encoded: the code adds one before it uses it.  A one-byte opcode sets
\* none and, having no referenced data, never reads it.
ReferencedDataOffset(b, b2, b3) ==
    CASE OpcodeSize(b) = 2 -> (256 * ((b \div 32) % 4)) + b2
      [] OpcodeSize(b) = 3 -> (256 * (b2 % 64)) + b3
      [] OpcodeSize(b) = 4 -> (65536 * ((b \div 16) % 2)) + (256 * b2) + b3
      [] OTHER -> 0

-----------------------------------------------------------------------------
Init == /\ total \in DecompressedSizes
        /\ csize \in CompressedSizes
        /\ dsize = total
        /\ datawritten = 0
        /\ stopflag = FALSE
        /\ op = [proceeding |-> 0, left |-> 0, offset |-> 0]
        /\ buf = [i \in 0..total-1 |-> Unset]
        /\ pos = 0
        /\ copysource = 0 /\ copylength = 0 /\ calls = 0
        /\ pc = "fetch"
        /\ result = "none"

\* Bug: a call that fails reports the success of what was written so far.
CorruptButOk == /\ pc' = "done"
                /\ result' = IF dsize = 0 THEN "ok" ELSE "corrupt"
                /\ UNCHANGED <<params, opcode, copying, dsize, datawritten, buf, pos>>

Corrupt == /\ pc' = "done"
           /\ result' = "corrupt"
           /\ UNCHANGED <<params, opcode, copying, dsize, datawritten, buf, pos>>

\* memcpy within the output: length bytes from source to pos, which advances.
Memcpy(source, length) ==
    /\ buf' = [i \in 0..total-1 |->
                 IF i >= pos /\ i < pos + length THEN buf[source + (i - pos)] ELSE buf[i]]
    /\ pos' = pos + length

\* Bug: the output promised to a copy is not added to datawritten.
GrantUncounted(n) == /\ dsize' = dsize - n
                     /\ UNCHANGED datawritten

\* A copy is promised n bytes of the output.
Grant(n) == /\ dsize' = dsize - n
            /\ datawritten' = datawritten + n

TruncatedOpcode == /\ pc = "fetch" /\ csize > 0 /\ ~stopflag
                   /\ \E b \in FirstByte : csize < OpcodeSize(b)
                   /\ Corrupt

FetchOpcode ==
    /\ pc = "fetch" /\ csize > 0 /\ ~stopflag
    /\ \E b \in FirstByte, b2, b3, b4 \in NextByte :
         /\ csize >= OpcodeSize(b)
         /\ csize' = csize - OpcodeSize(b)
         /\ stopflag' = IsStop(b)
         /\ op' = [proceeding |-> ProceedingDataLength(b, b2),
                   left       |-> ReferencedDataLength(b, b4),
                   offset     |-> ReferencedDataOffset(b, b2, b3)]
    /\ pc' = "proceeding"
    /\ UNCHANGED <<params, copying, dsize, datawritten, buf, pos, result>>

ProceedingTooLong == /\ pc = "proceeding"
                     /\ op.proceeding > csize \/ op.proceeding > dsize
                     /\ Corrupt

CopyProceeding ==
    LET n == op.proceeding
    IN  /\ pc = "proceeding" /\ n <= csize /\ n <= dsize
        /\ \E data \in [0..n-1 -> LiteralByte] :
             buf' = [i \in 0..total-1 |->
                       IF i >= pos /\ i < pos + n THEN data[i - pos] ELSE buf[i]]
        /\ Grant(n)
        /\ csize' = csize - n
        /\ pos' = pos + n
        /\ pc' = IF op.left = 0 THEN "fetch" ELSE "referenced"
        /\ UNCHANGED <<params, stopflag, op, copying, result>>

BadReference == /\ pc = "referenced"
                /\ op.left > dsize \/ op.offset + 1 > datawritten
                /\ Corrupt

\* The first copy of a reference.  With an offset of one it is a memset of
\* the whole length, otherwise a memcpy of at most offset bytes.
CopyReferenced ==
    LET offset == op.offset + 1
        first  == MinOf(offset, op.left)
    IN  /\ pc = "referenced" /\ op.left <= dsize /\ offset <= datawritten
        /\ Grant(op.left)
        /\ copysource' = pos
        /\ IF offset = 1
             THEN /\ buf' = [i \in 0..total-1 |->
                               IF i >= pos /\ i < pos + op.left THEN buf[pos-1] ELSE buf[i]]
                  /\ pos' = pos + op.left
                  /\ op' = [op EXCEPT !.left = 0]
                  /\ copylength' = op.left
                  /\ calls' = 0
             ELSE /\ Memcpy(pos - offset, first)
                  /\ op' = [op EXCEPT !.left = @ - first]
                  /\ copylength' = first
                  /\ calls' = 1
        /\ pc' = "copying"
        /\ UNCHANGED <<params, csize, stopflag, result>>

\* Bugs: copylength is doubled before the copy instead of after it; it is shifted
\* by two; the last copy is not cut to what is left; copylength is never doubled.
Paste(length, next) ==
    /\ pc = "copying" /\ op.left > 0
    /\ Memcpy(copysource, length)
    /\ op' = [op EXCEPT !.left = @ - length]
    /\ copylength' = next
    /\ calls' = calls + 1
    /\ UNCHANGED <<params, csize, stopflag, dsize, datawritten, copysource, pc, result>>

PasteDoubledFirst == Paste(MinOf(2 * copylength, op.left), 2 * copylength)
PasteShiftedTwo   == Paste(MinOf(copylength, op.left), 4 * copylength)
PasteUncut        == Paste(copylength, 2 * copylength)
PasteSame         == Paste(MinOf(copylength, op.left), copylength)

\* One iteration of the loop that doubles what is pasted.
PasteAgain ==
    LET length == MinOf(copylength, op.left)
    IN  /\ pc = "copying" /\ op.left > 0
        /\ Memcpy(copysource, length)
        /\ op' = [op EXCEPT !.left = @ - length]
        /\ copylength' = IF length <= Bit31Clear THEN 2 * length ELSE length
        /\ calls' = calls + 1
        /\ UNCHANGED <<params, csize, stopflag, dsize, datawritten, copysource, pc, result>>

EndReference == /\ pc = "copying" /\ op.left = 0
                /\ pc' = "fetch"
                /\ UNCHANGED <<params, opcode, copying, dsize, datawritten, buf, pos, result>>

Return == /\ pc = "fetch" /\ (csize = 0 \/ stopflag)
          /\ pc' = "done"
          /\ result' = IF stopflag /\ csize = 0 /\ dsize = 0 THEN "ok" ELSE "corrupt"
          /\ UNCHANGED <<params, opcode, copying, dsize, datawritten, buf, pos>>

Next == \/ TruncatedOpcode \/ FetchOpcode
        \/ ProceedingTooLong \/ CopyProceeding
        \/ BadReference \/ CopyReferenced \/ PasteAgain \/ EndReference
        \/ Return

Spec == Init /\ [][Next]_vars

-----------------------------------------------------------------------------
(* Properties. *)

TypeOK == /\ total \in DecompressedSizes
          /\ csize \in Nat /\ dsize \in Nat /\ datawritten \in Nat
          /\ stopflag \in BOOLEAN
          /\ op \in [proceeding : Nat, left : Nat, offset : Nat]
          /\ buf \in [0..total-1 -> LiteralByte \cup {Unset}]
          /\ pos \in 0..total
          /\ copysource \in Nat /\ copylength \in Nat /\ calls \in Nat
          /\ pc \in {"fetch", "proceeding", "referenced", "copying", "done"}
          /\ result \in {"none", "ok", "corrupt"}

\* Bytes a reference was granted (DecompressedSize and datawritten already
\* count them) and that are still to be copied.
Owed == IF pc = "copying" THEN op.left ELSE 0

\* The ways the decoder tells how far it is, the pointer and the two counters,
\* agree between any two copies with each other and with the memory: no counter
\* is moved twice, or by something else than what was written, and no copy
\* leaves a hole below the pointer or writes above it.
Accounting == /\ pos + Owed = datawritten
              /\ datawritten + dsize = total
              /\ \A i \in 0..total-1 : buf[i] = Unset <=> i >= pos

\* The next memcpy of the doubling loop reads only bytes of this reference
\* that are already there: its two regions, __restrict to each other, do not
\* overlap, and it does not copy past the length of the reference.
CopyDisjoint == (pc = "copying" /\ op.left > 0) =>
                    copysource + MinOf(copylength, op.left) <= pos

\* Every byte of the reference in progress equals the one offset bytes before
\* it, though the loop pastes blocks of doubled size and not single bytes.
RepeatsHistory ==
    pc = "copying" => \A i \in copysource..pos-1 : buf[i] = buf[i - (op.offset + 1)]

\* Two to the power of k, up to the longest reference an opcode encodes.
PowerOf2[k \in 0..10] == IF k = 0 THEN 1 ELSE 2 * PowerOf2[k - 1]

\* The comment of the code: memcpy is called ceil(log2(N)) times and not N
\* times for a reference of N bytes (calls <= ceil(log2(N)) is N > 2^(calls-1)).
FewCopies == (pc = "copying" /\ calls > 0) =>
                 /\ calls - 1 \in DOMAIN PowerOf2
                 /\ pos - copysource + op.left > PowerOf2[calls - 1]

\* A call that reports success filled all of DecompressedData and used all of
\* CompressedData, from whatever opcodes.
OkIsComplete == result = "ok" => /\ csize = 0
                                 /\ \A i \in 0..total-1 : buf[i] \in LiteralByte

-----------------------------------------------------------------------------
\* A reference in progress is invisible in the abstract output until its last
\* byte is there.
Produced == IF pc = "copying" THEN copysource ELSE pos

Output == [i \in 0..total-1 |-> IF i < Produced THEN buf[i] ELSE Unset]

Verdict == IF result = "none" THEN "running" ELSE result

LZ == INSTANCE LZ77 WITH out <- Output, pos <- Produced, done <- Verdict

\* The decoder produces what the stream means: each reference is one step of
\* the byte-by-byte definition, however it was cut into copies.
ImplementsLZ77 == LZ!Spec
=============================================================================
