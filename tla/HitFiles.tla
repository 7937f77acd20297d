------------------------------ MODULE HitFiles ------------------------------
(***************************************************************************)
(* What hitdump, hitasm and hitld have in common: the arguments, the files *)
(* that are read whole, the output that is opened before any of them is    *)
(* looked at, and the table of instructions.                               *)
(***************************************************************************)
EXTENDS Integers, Sequences, FiniteSets

VARIABLES
    tool,     \* hitdump, hitasm or hitld
    pc,       \* where it is
    version,  \* SimsVersion
    data      \* the files whose contents are in memory

files == <<tool, version, data>>

Optional == [hitdump |-> {"hsm", "hot", "evt"}, hitasm |-> {}, hitld |-> {"hsm", "hot"}]
Required == [hitdump |-> {"hit"}, hitasm |-> {"txt"}, hitld |-> {}]

FilesInit ==
    /\ tool \in {"hitdump", "hitasm", "hitld"}
    /\ pc = "arguments" /\ version = "none" /\ data = {}

\* Shutdown frees every path, file and table and closes the output.
Shutdown(result) == pc' = result /\ data' = {}
Shutdown_M == Shutdown("failed") /\ UNCHANGED <<tool, version>>

Arguments ==
    /\ pc = "arguments"
    /\ \/ Shutdown_M
       \/ /\ version' \in {"ts1", "tso"} /\ pc' = "read"
          /\ UNCHANGED <<tool, data>>

\* hitdump goes on without an optional file that cannot be read; hitld does
\* not, and neither goes on without a required one.
ReadFiles ==
    /\ pc = "read"
    /\ \/ Shutdown_M
       \/ \E given \in SUBSET Optional[tool] :
             /\ data' = Required[tool] \union given /\ pc' = "open"
             /\ UNCHANGED <<tool, version>>

OpenOutput ==
    /\ pc = "open"
    /\ \/ Shutdown_M
       \/ /\ pc' = IF tool = "hitdump" THEN "header" ELSE IF tool = "hitasm" THEN "sections" ELSE "link"
          /\ UNCHANGED files

\* Linking is a header and nothing more yet.
Link == pc = "link" /\ Shutdown("done") /\ UNCHANGED <<tool, version>>

(***************************************************************************)
(* The instruction set: the operands of each that is implemented           *)
(***************************************************************************)
Instructions == {
    << >>,                                   \* return, wait_samp, end, nop, loop, test1, duck
    <<"variable">>,                          \* note_on, wait, test, inc, play_trk
    <<"variable", "variable">>,              \* set, add, cmp, setll, waiteq
    <<"variable", "variable", "variable">>,  \* rand, getsrcdatafield
    <<"variable", "byte">>,                  \* loadb
    <<"variable", "dword">>,                 \* loadl, max, min, setlg
    <<"address">>,                           \* call, ifeq, ifne
    <<"jump">>,                              \* jump
    <<"byte">>,                              \* seqgroup_kill
    <<"byte", "byte">> }                     \* seqgroup_trkid

OperandSize(o) == IF o \in {"dword", "address"} THEN 4 ELSE 1

\* Bug: only the first operand is counted.
FirstOperandBytes(ops) == IF ops = << >> THEN 0 ELSE OperandSize(ops[1])

OPERAND_BYTES(ops) ==
    LET sum[i \in 0 .. Len(ops)] == IF i = 0 THEN 0 ELSE sum[i - 1] + OperandSize(ops[i])
    IN sum[Len(ops)]

\* The versions share most variables, and each has some of its own.
Variables == [ts1 |-> {"filter_type"}, tso |-> {"fadeinspeed"}]
AllVariables == Variables["ts1"] \union Variables["tso"]
=============================================================================
