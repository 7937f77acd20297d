------------------------------ MODULE HitDump ------------------------------
(***************************************************************************)
(* hitdump: a list of addresses is gathered from a HIT binary and up to    *)
(* three files beside it; then the binary is disassembled from byte 16 on. *)
(*                                                                         *)
(* The binary is described by its size, by where "ENTP" first is and by    *)
(* where "EENT" is, before it or behind it; the instructions are chosen as *)
(* they are read.  Of the list its length is kept and whether it was       *)
(* allocated: what an entry says is a choice, and so is whether a search   *)
(* finds one.                                                              *)
(***************************************************************************)
EXTENDS HitFiles

CONSTANTS
    Hits,       \* HIT binaries: the size, the place of ENTP and those of EENT
    Capacity,   \* entries the list is first allocated for (32)
    MaxLines    \* lines read of a file beside the binary

\* ENTP is 0 when it is not there.  Neither word overlaps the other.
ASSUME HitsAssumption ==
    /\ Hits \subseteq [size : Nat, ENTP : Nat, EENT : SUBSET Nat]
    /\ \A h \in Hits :
          /\ h.size >= 16 /\ h.ENTP \in {0} \union 16 .. h.size - 4 /\ h.EENT \subseteq 16 .. h.size - 4
          /\ \A e \in h.EENT : e + 4 <= h.ENTP \/ h.ENTP + 4 <= e

ASSUME CapacityAssumption == Capacity \in Nat \ {0}

VARIABLES
    hit,          \* the binary: size, ENTP, EENT
    SymbolTable,  \* the position of ENTP, 0 when there is none or it was passed
    count,        \* List->Count
    allocated,    \* List->SizeAllocated, in entries
    made,         \* is List->Entries not NULL?
    hot,          \* the section of the HOT file being read
    lines,        \* lines read of the file at hand
    addr,         \* the disassembler's position
    operands      \* operands of the instruction that are still to read

dumpvars == <<hit, SymbolTable, count, allocated, made, hot, lines, addr, operands>>
list == <<count, allocated, made>>

NoHit == [size |-> 0, ENTP |-> 0, EENT |-> {}]
NoHot == [section |-> "none", next |-> "none", entries |-> 0, read |-> FALSE]

DumpInit ==
    /\ hit = NoHit /\ SymbolTable = 0 /\ count = 0 /\ allocated = 0 /\ made = FALSE
    /\ hot = NoHot /\ lines = 0 /\ addr = 16 /\ operands = << >>

\* Shutdown frees the list with the rest.
DumpFail ==
    /\ Shutdown_M /\ count' = 0 /\ allocated' = 0 /\ made' = FALSE
    /\ UNCHANGED <<hit, SymbolTable, hot, lines, addr, operands>>

\* The header is 16 bytes and is compared before the list is made.  Whether
\* there was memory for the list is not looked at.
VerifyHeader ==
    /\ pc = "header"
    /\ \/ DumpFail
       \/ \E h \in Hits :
             /\ hit' = h /\ allocated' = Capacity /\ made' \in BOOLEAN /\ pc' = "hit"
             /\ UNCHANGED <<files, SymbolTable, count, hot, lines, addr, operands>>

(***************************************************************************)
(* The list of addresses                                                   *)
(***************************************************************************)
\* The allocation doubles whenever it is full and one more entry is added.
Doubled(a, n) ==
    LET size[k \in 0 .. n] == IF k = 0 THEN a ELSE IF size[k - 1] < k THEN 2 * size[k - 1] ELSE size[k - 1]
    IN size[n]

\* The first entry is written through a pointer that may be NULL.
add_address(n, next) ==
    /\ UNCHANGED made
    /\ IF made THEN count' = count + n /\ allocated' = Doubled(allocated, count + n) /\ pc' = next
               ELSE UNCHANGED <<count, allocated>> /\ pc' = "undefined"

\* EENT is looked for from the start of the file in steps of eight bytes, and
\* the steps are the entries that are read from behind ENTP.
Counted    == {e \in hit.EENT : e % 8 = 0}
First(S)   == CHOOSE e \in S : \A f \in S : e <= f
TableCount == First(Counted) \div 8
HasTable   == hit.ENTP > 0 /\ hit.ENTP + 8 <= hit.size

read_hit_addresses ==
    /\ pc = "hit"
    /\ SymbolTable' = IF HasTable THEN hit.ENTP ELSE SymbolTable
    /\ IF HasTable /\ Counted # {}
       THEN add_address(TableCount, IF hit.ENTP + 4 + 8 * TableCount <= hit.size THEN "evt" ELSE "undefined")
       ELSE pc' = "evt" /\ UNCHANGED list
    /\ UNCHANGED <<files, hit, hot, lines, addr, operands>>

\* A line of EVT, HSM or HOT names an entry that is found or added.
Line == lines < MaxLines /\ lines' = lines + 1
        /\ (add_address(1, pc) \/ (count > 0 /\ UNCHANGED <<list, pc>>))

ReadLines(file, next) ==
    /\ pc = file
    /\ \/ file \in data /\ Line
       \/ pc' = next /\ lines' = 0 /\ UNCHANGED list
    /\ UNCHANGED <<files, hit, SymbolTable, hot, addr, operands>>

read_evt_addresses == ReadLines("evt", "hsm")
read_hsm_addresses == ReadLines("hsm", "hot")

(* A section of the HOT file: its header is found and what comes right     *)
(* after it is the first thing the loop looks at.  The rest of the         *)
(* header's line belongs to that.                                          *)
HotSection ==
    /\ pc = "hot" /\ "hot" \in data /\ hot.section # "done" /\ hot.next = "none"
    /\ \E n \in 0 .. MaxLines, c \in {"eol", "entry"} :
          hot' = [section |-> hot.section, next |-> c, entries |-> n, read |-> FALSE]
    /\ UNCHANGED <<pc, files, hit, SymbolTable, list, lines, addr, operands>>

NextSection == IF hot.section = "none" THEN "track" ELSE "done"
StopsAt(c) == c \in {"eol", "["}

HotGoesOn == pc = "hot" /\ hot.next # "none" /\ ~StopsAt(hot.next) /\ lines < hot.entries

HotEntry ==
    /\ HotGoesOn /\ Line
    /\ \E c \in {"eol", "[", "entry"} : hot' = [hot EXCEPT !.next = c, !.read = TRUE]
    /\ UNCHANGED <<files, hit, SymbolTable, addr, operands>>

\* add_address finds the list full and cannot double it, for an entry of the
\* symbol table or of a line.
NoMemory ==
    /\ made
    /\ \/ pc = "hit" /\ HasTable /\ Counted # {} /\ TableCount > allocated
       \/ (pc \in data \intersect {"evt", "hsm"} \/ HotGoesOn) /\ lines < MaxLines /\ count = allocated
    /\ DumpFail

HotSectionEnds ==
    /\ pc = "hot" /\ hot.next # "none" /\ (StopsAt(hot.next) \/ lines = hot.entries)
    /\ hot' = [hot EXCEPT !.section = NextSection, !.next = "none"] /\ lines' = 0
    /\ UNCHANGED <<pc, files, hit, SymbolTable, list, addr, operands>>

ListMade ==
    /\ pc = "hot" /\ hot.next = "none" /\ ("hot" \in data => hot.section = "done")
    /\ pc' = "dump"
    /\ UNCHANGED <<files, dumpvars>>

(***************************************************************************)
(* The disassembly                                                         *)
(***************************************************************************)
\* From behind ENTP in steps of eight: the places of EENT that are met.
Ends == {e \in hit.EENT : e > hit.ENTP /\ (e - hit.ENTP - 4) % 8 = 0}

PassTable ==
    /\ pc = "dump" /\ addr < hit.size /\ operands = << >> /\ SymbolTable = addr
    /\ IF Ends = {} THEN pc' = "undefined" /\ UNCHANGED <<addr, SymbolTable>>
       ELSE IF First(Ends) + 4 = hit.size THEN pc' = "dumped" /\ UNCHANGED <<addr, SymbolTable>>
       ELSE addr' = First(Ends) + 4 /\ SymbolTable' = 0 /\ UNCHANGED pc
    /\ UNCHANGED <<files, hit, list, hot, lines, operands>>

\* An opcode is illegal, or not implemented, or has its operands behind it.
ReadInstruction ==
    /\ pc = "dump" /\ addr < hit.size /\ operands = << >> /\ SymbolTable # addr
    /\ \/ DumpFail
       \/ \E ops \in Instructions :
             /\ hit.size - (addr + 1) >= OPERAND_BYTES(ops)
             /\ addr' = addr + 1 /\ operands' = ops
             /\ UNCHANGED <<pc, files, hit, SymbolTable, list, hot, lines>>

Touch(n) == pc' = IF addr + n <= hit.size THEN pc ELSE "undefined"

\* A jump takes an address that is in the file, or else a variable, which
\* is followed by three bytes unless it is v1 or v2.
JumpSizes ==
    IF hit.size - addr >= 4 THEN {1, 4} ELSE {1}

ReadOperand ==
    /\ pc = "dump" /\ operands # << >>
    /\ \/ Head(operands) \in {"variable", "jump"} /\ DumpFail
       \/ \E n \in IF Head(operands) = "jump" THEN JumpSizes ELSE {OperandSize(Head(operands))} :
             /\ Touch(n) /\ addr' = addr + n /\ operands' = Tail(operands)
             /\ UNCHANGED <<files, hit, SymbolTable, list, hot, lines>>

DumpEnds ==
    /\ \/ pc = "dump" /\ addr >= hit.size /\ operands = << >>
       \/ pc = "dumped"
    /\ Shutdown("done") /\ count' = 0 /\ allocated' = 0 /\ made' = FALSE
    /\ UNCHANGED <<tool, version, hit, SymbolTable, hot, lines, addr, operands>>

DumpNext ==
    \/ VerifyHeader \/ read_hit_addresses \/ NoMemory \/ read_evt_addresses \/ read_hsm_addresses
    \/ HotSection \/ HotEntry \/ HotSectionEnds \/ ListMade
    \/ PassTable \/ ReadInstruction \/ ReadOperand \/ DumpEnds

(***************************************************************************)
(* Properties                                                              *)
(***************************************************************************)
\* More entries counted than there are bytes behind ENTP; and no end met.
Overcounted == Counted # {} /\ hit.ENTP + 4 + 8 * TableCount > hit.size
Unended     == SymbolTable > 0 /\ Ends = {}

(* What hitdump reads of the binary is inside of it, and what it writes to *)
(* the list inside of the list, but in three cases.  Of the symbol table   *)
(* there are two: the entries, counted from the start of the file to the   *)
(* first EENT in steps of eight and not from ENTP, go beyond the end; and  *)
(* no EENT is met in steps from ENTP.  The third is an entry for a list    *)
(* that there was no memory for: it is added through NULL.  What is in the *)
(* list was added to one that is allocated and is long enough.             *)
DumpInside ==
    /\ tool = "hitdump" /\ pc = "undefined" => Overcounted \/ Unended \/ ~made
    /\ count <= allocated /\ (count > 0 => made)
    /\ pc = "dump" => addr <= hit.size

(* The HOT file's sections are used: one that has entries gives at least   *)
(* one address when it is read.                                            *)
HotUsed == pc = "hot" /\ hot.section # "none" /\ hot.next = "none" /\ hot.entries > 0 => hot.read
=============================================================================
