------------------------------ MODULE Vitaboy ------------------------------
(* libvitaboy's two programs: the parser of files and the renderer. *)
EXTENDS Renderer, VBFile

VARIABLE program

vars == <<program, rvars, vbvars>>

Init == program \in {"vbparse", "Renderer"} /\ RendererInit /\ VBInit

Next ==
    /\ UNCHANGED program
    /\ \/ program = "vbparse" /\ VBNext /\ UNCHANGED rvars
       \/ program = "Renderer" /\ RendererNext /\ UNCHANGED vbvars

Spec == Init /\ [][Next]_vars
=============================================================================
