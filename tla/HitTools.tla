------------------------------ MODULE HitTools ------------------------------
(* The three tools of hitutils: what they share, and then one of them. *)
EXTENDS HitDump, HitAsm

Init == FilesInit /\ DumpInit /\ AsmInit

Next ==
    \/ (Arguments \/ ReadFiles \/ OpenOutput \/ Link) /\ UNCHANGED <<dumpvars, asmvars>>
    \/ DumpNext /\ UNCHANGED asmvars
    \/ AsmNext /\ UNCHANGED dumpvars

vars == <<tool, pc, version, data, dumpvars, asmvars>>

Spec == Init /\ [][Next]_vars
=============================================================================
