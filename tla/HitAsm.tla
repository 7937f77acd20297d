------------------------------- MODULE HitAsm -------------------------------
(***************************************************************************)
(* hitasm: a source of BINARY sections is assembled in one pass into four  *)
(* sections of an object file.  Labels may be used before they are defined;*)
(* every use is an entry of the relocation table.                          *)
(*                                                                         *)
(* The source is chosen token by token.  A token is what it is compared    *)
(* with: a command, a bracket, a name, an integer, with a '#' or without.  *)
(* The lexer says whether the next token is on the same line, and whether  *)
(* it is indented.                                                         *)
(***************************************************************************)
EXTENDS HitFiles

CONSTANTS
    Labels,      \* names that mean nothing else
    MaxTokens,   \* tokens of a source
    SectionSize  \* bytes first allocated for a section (1024)

\* A section that doubles has room for a word.
ASSUME SectionAssumption == SectionSize \in Nat /\ SectionSize >= 4

VARIABLES
    token,      \* the current token: its text, if it starts with '#', if it is in the first column
    taken,      \* tokens taken from the source
    newline,    \* the next token, which was seen and not given, is on a new line
    InBinary,   \* inside of the brackets
    wanted,     \* operands of the instruction that are still to come
    Text,       \* Section[Text]: bytes written and allocated
    symbols,    \* the named symbols: name, st_value, and the line kept in st_size
    relocs,     \* the relocation table: offset, symbol index, and the name used
    defs        \* of each name, where it was defined, in order

asmvars == <<token, taken, newline, InBinary, wanted, Text, symbols, relocs, defs>>
lexer == <<token, taken, newline>>
names == <<symbols, relocs, defs>>
sections == <<Text, names>>

Skipped == {"INCLUDE"}     \* BASEID_TRACKDATA, INCLUDE, INIFILE, LIST, SYMBOLFILE
Names   == {"BINARY", "op", "Constant"} \union Skipped \union AllVariables \union Labels
Numbers == {"5", "300"}    \* one that fits a byte and one that does not
Tokens  == [text : Names \union Numbers \union {"[", "]"}, hash : {FALSE}, col1 : BOOLEAN]
           \union [text : Names \union Numbers, hash : {TRUE}, col1 : BOOLEAN]

NoToken == [text |-> "", hash |-> FALSE, col1 |-> TRUE]
Is(text) == token.text = text /\ ~token.hash

AsmInit ==
    /\ token = NoToken /\ taken = 0 /\ newline = FALSE /\ InBinary = FALSE
    /\ wanted = << >> /\ Text = [Position |-> 0, Size |-> 0]
    /\ symbols = << >> /\ relocs = << >> /\ defs = [n \in Names |-> << >>]

Sections ==
    /\ pc = "sections"
    /\ \/ Shutdown_M /\ UNCHANGED asmvars
       \/ /\ pc' = "line" /\ Text' = [Position |-> 0, Size |-> SectionSize]
          /\ UNCHANGED <<files, lexer, InBinary, wanted, names>>

(***************************************************************************)
(* parser_next_token                                                       *)
(***************************************************************************)
\* A token of any line; one that was held back is on a new line.
Take ==
    /\ taken < MaxTokens /\ taken' = taken + 1 /\ newline' = FALSE
    /\ token' \in Tokens

\* A token of this line only.
TakeSameLine == ~newline /\ Take /\ ~token'.col1

\* None on this line: it ends, or the source does.
NoneOnLine == newline' = TRUE /\ UNCHANGED <<token, taken>>

\* The sections are freed with the rest.
Fail ==
    /\ Shutdown_M /\ token' = NoToken /\ taken' = 0 /\ newline' = FALSE /\ InBinary' = FALSE
    /\ wanted' = << >> /\ Text' = [Position |-> 0, Size |-> 0]
    /\ symbols' = << >> /\ relocs' = << >> /\ defs' = [n \in Names |-> << >>]

\* verify_eol at the end of a line that is complete.
verify_eol ==
    /\ pc = "eol"
    /\ \/ ~newline /\ taken < MaxTokens /\ Fail
       \/ NoneOnLine /\ pc' = "line" /\ UNCHANGED <<files, InBinary, wanted, sections>>

(***************************************************************************)
(* The sections                                                            *)
(***************************************************************************)
\* bw_write8 and bw_write32: the section doubles when n bytes do not fit.
Written(s, n) ==
    [Position |-> s.Position + n, Size |-> IF s.Size - s.Position < n THEN 2 * s.Size ELSE s.Size]

Write(n) == Text' = Written(Text, n)

\* Three symbols of the header come before the named ones.
FirstSymbol == 3

Position(name) == {i \in DOMAIN symbols : symbols[i].name = name}

\* Bug: the index of a symbol that is not there yet is the last one's.
LastIndex(name) ==
    IF Position(name) # {} THEN FirstSymbol + (CHOOSE i \in Position(name) : TRUE) - 1
                           ELSE FirstSymbol + Len(symbols) - 1

\* find_symbol_by_name: the index of the symbol, or the next that is free.
SymbolIndex(name) ==
    IF Position(name) # {} THEN FirstSymbol + (CHOOSE i \in Position(name) : TRUE) - 1
                           ELSE FirstSymbol + Len(symbols)

\* The symbol is added unless it is there.
add_symbol(name) ==
    IF Position(name) # {} THEN symbols ELSE Append(symbols, [name |-> name, value |-> 0, line |-> FALSE])

(* A symbol is taken to be defined when its value is not 0, and the line of *)
(* its definition is there only for the message.                           *)
parser_add_symbol ==
    /\ pc = "token" /\ InBinary /\ token.col1 /\ ~Is("]") /\ ~(token.text \in Skipped /\ ~token.hash)
    /\ LET name == token.text IN
       IF token.hash \/ name \notin Names \/ (\E j \in Position(name) : symbols[j].value # 0) THEN Fail
       ELSE /\ symbols' = [add_symbol(name) EXCEPT ![SymbolIndex(name) - FirstSymbol + 1] =
                              [name |-> name, value |-> Text.Position, line |-> TRUE]]
            /\ defs' = [defs EXCEPT ![name] = Append(@, Text.Position)]
            /\ pc' = "eol"
            /\ UNCHANGED <<files, lexer, InBinary, wanted, Text, relocs>>

parser_add_reference(name) ==
    /\ relocs' = Append(relocs, [offset |-> Text.Position, index |-> SymbolIndex(name), label |-> name])
    /\ symbols' = add_symbol(name)
    /\ UNCHANGED defs

(***************************************************************************)
(* A line of the source                                                    *)
(***************************************************************************)
NextLine ==
    /\ pc = "line"
    /\ \/ Take /\ pc' = "token" /\ UNCHANGED <<files, InBinary, wanted, sections>>
       \/ IF InBinary THEN Fail
          ELSE pc' = "object" /\ UNCHANGED <<files, asmvars>>

\* INCLUDE and the like are skipped with the rest of their line.
Unimplemented ==
    /\ pc = "token" /\ token.text \in Skipped /\ ~token.hash
    /\ IF InBinary THEN Fail
       ELSE pc' = "skip" /\ UNCHANGED <<files, asmvars>>

SkipLine ==
    /\ pc = "skip"
    /\ \/ TakeSameLine /\ UNCHANGED pc
       \/ NoneOnLine /\ pc' = "line"
    /\ UNCHANGED <<files, InBinary, wanted, sections>>

OpenBracket ==
    /\ pc = "token" /\ Is("BINARY") /\ ~InBinary
    /\ \/ Fail
       \/ /\ Take /\ token'.text = "[" /\ InBinary' = TRUE /\ pc' = "eol"
          /\ UNCHANGED <<files, wanted, sections>>

CloseBracket ==
    /\ pc = "token" /\ Is("]") /\ InBinary
    /\ InBinary' = FALSE /\ pc' = "eol"
    /\ UNCHANGED <<files, lexer, wanted, sections>>

NotACommand ==
    /\ pc = "token" /\ ~InBinary /\ (token.hash \/ token.text \notin Skipped \union {"BINARY"})
    /\ Fail

Indented ==
    pc = "token" /\ InBinary /\ ~token.col1 /\ (token.hash \/ token.text \notin Skipped \union {"]"})

\* The word of an unimplemented instruction is all ones: seven operands of no
\* kind, which are taken and not looked at.
AsmInstructions == Instructions \union {[i \in 1 .. 7 |-> "none"]}

\* An instruction: its opcode, and its operands are asked for.
Instruction ==
    /\ Indented /\ Is("op")
    /\ \E ops \in AsmInstructions :
          /\ Write(1) /\ wanted' = ops
          /\ pc' = IF ops = << >> THEN "eol" ELSE "operand"
    /\ UNCHANGED <<files, lexer, InBinary, names>>

Fits(size) == token.text = "5" \/ token.text = "Constant" \/ (token.text = "300" /\ size = 4)

\* A constant that fits, or a label, which needs four bytes.
Constant(size) ==
    \/ Fits(size) /\ UNCHANGED names
    \/ size = 4 /\ token.text \in Names \ {"Constant"} /\ parser_add_reference(token.text)

\* Data: integers are bytes, and what starts with '#' is four bytes.
AtDatum == pc = "datum" \/ (Indented /\ ~Is("op"))

Declare ==
    /\ AtDatum /\ pc' = "data" /\ UNCHANGED <<files, lexer, InBinary, wanted>>
    /\ \/ token.hash /\ Constant(4) /\ Write(4)
       \/ Is("5") /\ Write(1) /\ UNCHANGED names

NoDatum == AtDatum /\ ~token.hash /\ token.text # "5" /\ Fail

MoreData ==
    /\ pc = "data" /\ UNCHANGED <<files, InBinary, wanted, sections>>
    /\ \/ TakeSameLine /\ pc' = "datum"
       \/ NoneOnLine /\ pc' = "line"

\* An operand must be on the line of its instruction.  The message says how
\* many are wanted with one of four words, and seven are more than that.
TakeOperand ==
    /\ pc = "operand"
    /\ \/ IF Head(wanted) = "none" THEN pc' = "undefined" /\ UNCHANGED <<files, asmvars>> ELSE Fail
       \/ Head(wanted) # "none" /\ TakeSameLine /\ pc' = "constant"
          /\ UNCHANGED <<files, InBinary, wanted, sections>>

\* MaxTokens does not count these.
SkipOperand ==
    /\ pc = "operand" /\ Head(wanted) = "none"
    /\ wanted' = Tail(wanted) /\ pc' = IF Len(wanted) = 1 THEN "eol" ELSE "operand"
    /\ UNCHANGED <<files, lexer, InBinary, sections>>

OperandBytes(o) == IF o = "jump" THEN 4 ELSE OperandSize(o)

Accepted(o) ==
    \/ o = "variable" /\ token.text \in Variables[version] /\ ~token.hash /\ UNCHANGED names
    \/ o \in {"byte", "dword"} /\ Constant(OperandSize(o))
    \/ o \in {"address", "jump"} /\ token.text \notin Numbers /\ Constant(4)

WriteOperand ==
    /\ pc = "constant"
    /\ Accepted(Head(wanted)) /\ Write(OperandBytes(Head(wanted)))
    /\ wanted' = Tail(wanted) /\ pc' = IF Len(wanted) = 1 THEN "eol" ELSE "operand"
    /\ UNCHANGED <<files, lexer, InBinary>>

Refused(o) ==
    \/ o = "variable" /\ (token.text \notin Variables[version] \/ token.hash)
    \/ o = "byte" /\ ~Fits(1)
    \/ o = "dword" /\ token.text \in {"[", "]"}
    \/ o \in {"address", "jump"} /\ token.text \notin Names

RefuseOperand == pc = "constant" /\ Refused(Head(wanted)) /\ Fail

\* The lines are cleared from st_size and the sections follow each other.
WriteObject ==
    /\ pc = "object"
    /\ symbols' = [i \in DOMAIN symbols |-> [symbols[i] EXCEPT !.line = FALSE]]
    /\ Shutdown("done")
    /\ UNCHANGED <<tool, version, lexer, InBinary, wanted, Text, relocs, defs>>

AsmNext ==
    \/ Sections \/ NextLine \/ verify_eol
    \/ Unimplemented \/ SkipLine \/ OpenBracket \/ CloseBracket \/ NotACommand
    \/ parser_add_symbol \/ Instruction \/ Declare \/ NoDatum \/ MoreData
    \/ TakeOperand \/ SkipOperand \/ WriteOperand \/ RefuseOperand \/ WriteObject

(***************************************************************************)
(* Property                                                                *)
(***************************************************************************)
Done == tool = "hitasm" /\ pc = "done"

(* In an object that is written every relocation lies in the text, leads   *)
(* to the symbol that was named there, and no two overlap; a symbol has    *)
(* the place of its label's only definition, and no line number is left.   *)
(* A label at the start of the text, whose value is 0, may have been       *)
(* defined again.                                                          *)
Relocatable ==
    /\ Text.Position <= Text.Size
    /\ Done =>
       /\ \A r \in DOMAIN relocs :
             /\ relocs[r].offset + 4 <= Text.Position
             /\ relocs[r].index - FirstSymbol + 1 \in DOMAIN symbols
             /\ symbols[relocs[r].index - FirstSymbol + 1].name = relocs[r].label
             /\ r > 1 => relocs[r - 1].offset + 4 <= relocs[r].offset
       /\ \A i, j \in DOMAIN symbols : symbols[i].name = symbols[j].name => i = j
       /\ \A i \in DOMAIN symbols : ~symbols[i].line
       /\ \A l \in Names : defs[l] # << >> =>
             /\ \E i \in DOMAIN symbols : symbols[i].name = l /\ symbols[i].value = defs[l][Len(defs[l])]
             /\ \A d \in 1 .. Len(defs[l]) - 1 : defs[l][d] = 0
=============================================================================
