------------------------------- MODULE GLDemo -------------------------------
(***************************************************************************)
(* libgldemo: a window with an OpenGL context, made again when F11 goes to *)
(* or from the whole screen, and a loop that handles messages and calls    *)
(* the program's DrawScene.  There is one for Windows (wgl.c) and one for  *)
(* X11 (glx.c); they make, check and end things differently.               *)
(***************************************************************************)
EXTENDS Integers, Sequences

VARIABLES
    platform,    \* wgl or glx
    pc,          \* open, startup, create, loop, scene (inside of DrawScene), exit or failed
    step,        \* the step of CreateGLWindow that is next
    again,       \* it was called for F11
    have,        \* what KillGLWindow gives back: window, dc, rc
    kept,        \* what it does not: class; display, colormap, visual
    current,     \* the context is current: yes, none, or refused by glXMakeCurrent
    fullscreen,
    cursor,      \* Windows' display count of the cursor, 0 when it is shown
    keys,        \* keys that are down, of those that matter: F11, N and Q
    quit         \* WM_QUIT was posted

demovars == <<platform, pc, step, again, have, kept, current, fullscreen, cursor, keys, quit>>
glvars == <<have, kept, current, cursor>>

DemoInit ==
    /\ platform \in {"wgl", "glx"} /\ pc = "open" /\ step = 1 /\ again = FALSE
    /\ have = {} /\ kept = {} /\ current = "none" /\ fullscreen = FALSE /\ cursor = 0 /\ keys = {} /\ quit = FALSE

\* What CreateGLWindow does in turn; each of them may fail, but for ResizeScene.
\* X11's version does not look at whether MakeCurrent did.
Steps == [wgl |-> <<"window", "dc", "format", "rc", "current", "InitGL", "ResizeScene">>,
          glx |-> <<"visual", "rc", "window", "current", "InitGL", "ResizeScene">>]
Noticed(s) == s # "ResizeScene" /\ ~(platform = "glx" /\ s = "current")
Outcomes   == IF platform = "glx" THEN {"yes", "refused"} ELSE {"yes"}

Shown(c) == IF fullscreen /\ platform = "wgl" THEN c + 1 ELSE c

GiveBack == have' = {} /\ current' = "none"

KillGLWindow == GiveBack /\ cursor' = Shown(cursor)

\* The display is closed, and its colour maps with it, or the class unregistered.
EndDemo == pc' = "exit" /\ KillGLWindow /\ kept' = kept \ {"class", "display", "colormap"}

\* The display is opened, or the window's class registered.
Open ==
    /\ pc = "open"
    /\ \/ pc' = "startup" /\ kept' = {IF platform = "glx" THEN "display" ELSE "class"}
       \/ pc' = "failed" /\ UNCHANGED kept
    /\ UNCHANGED <<platform, step, again, have, current, fullscreen, cursor, keys, quit>>

\* The window for the whole screen hides the cursor before it is made.
CreateFrom(f11, full) ==
    /\ pc' = "create" /\ step' = 1 /\ again' = f11 /\ fullscreen' = full

Startup(ok) ==
    /\ pc = "startup"
    /\ IF ok THEN CreateFrom(FALSE, FALSE) ELSE pc' = "failed" /\ UNCHANGED <<step, again, fullscreen>>
    /\ UNCHANGED <<platform, glvars, keys, quit>>

NextStep == Steps[platform][step]

StepOk ==
    /\ pc = "create"
    /\ have' = have \union ({NextStep} \intersect {"window", "dc", "rc"})
    /\ kept' = IF NextStep = "visual" THEN kept \union {"visual", "colormap"} ELSE kept
    /\ IF NextStep = "current" THEN current' \in Outcomes ELSE UNCHANGED current
    /\ cursor' = IF step = 1 /\ fullscreen /\ platform = "wgl" THEN cursor - 1 ELSE cursor
    /\ IF step = Len(Steps[platform]) THEN pc' = "loop" /\ step' = 1 ELSE pc' = pc /\ step' = step + 1
    /\ UNCHANGED <<platform, again, fullscreen, keys, quit>>

\* After F11, Windows' version posts WM_QUIT and X11's goes on.  At the start,
\* both end with what they keep.
StepFails ==
    /\ pc = "create" /\ Noticed(NextStep)
    /\ GiveBack
    /\ cursor' = IF step > 1 /\ fullscreen /\ platform = "wgl" THEN cursor + 1 ELSE cursor
    /\ step' = 1
    /\ pc' = IF again THEN "loop" ELSE "failed"
    /\ quit' = (quit \/ (again /\ platform = "wgl"))
    /\ UNCHANGED <<platform, again, kept, fullscreen, keys>>

(***************************************************************************)
(* Messages.  A window that was destroyed gets no more of them; what X11   *)
(* has queued before that is still handled.                                *)
(***************************************************************************)
Message == pc = "loop" /\ ("window" \in have \/ platform = "glx")

F11Down ==
    /\ Message /\ "F11" \notin keys /\ keys' = keys \union {"F11"}
    /\ KillGLWindow
    /\ CreateFrom(TRUE, ~fullscreen)
    /\ UNCHANGED <<platform, kept, quit>>

KeyDown ==
    /\ Message /\ \E k \in {"N", "Q"} : keys' = keys \union {k}
    /\ UNCHANGED <<platform, pc, step, again, glvars, fullscreen, quit>>

KeyUp ==
    /\ Message /\ \E k \in keys : keys' = keys \ {k}
    /\ UNCHANGED <<platform, pc, step, again, glvars, fullscreen, quit>>

\* A change of the size goes to ResizeScene and changes nothing here.
Close ==
    /\ Message
    /\ IF platform = "wgl" THEN quit' = TRUE /\ UNCHANGED <<pc, glvars>>
       ELSE EndDemo /\ UNCHANGED quit
    /\ UNCHANGED <<platform, step, again, fullscreen, keys>>

\* WM_QUIT comes after what was posted before it, and before a frame is drawn.
Quit ==
    /\ pc = "loop" /\ quit
    /\ EndDemo
    /\ UNCHANGED <<platform, step, again, fullscreen, keys, quit>>

\* Bug: the messages that are left are handled after the frame.
AnyTime == pc = "loop"

MessagesDone == pc = "loop" /\ ~quit

(* A frame: Windows' version leaves out one whose time is negative or more *)
(* than five seconds, X11's takes a negative time as none.                 *)
TimeDeltas(deltas) ==
    IF platform = "wgl" THEN {d \in deltas : d >= 0} ELSE {IF d < 0 THEN 0 ELSE d : d \in deltas}

DrawScene ==
    /\ MessagesDone /\ pc' = "scene"
    /\ UNCHANGED <<platform, step, again, glvars, fullscreen, keys, quit>>

SceneDrawn ==
    /\ pc = "scene" /\ pc' = "loop"
    /\ UNCHANGED <<platform, step, again, glvars, fullscreen, keys, quit>>

(***************************************************************************)
(* Property                                                                *)
(***************************************************************************)
\* X11's version goes on when its window could not be made again.
LostWindow == platform = "glx" /\ again /\ "window" \notin have

\* A window and a context for it, which is current or which X11 refused.
Context == {"window", "rc"} \subseteq have /\ (current = "yes" \/ (platform = "glx" /\ current = "refused"))

(* A scene is drawn, and InitGL and ResizeScene are called, only with a    *)
(* window and a context that was made current, which in X11's version may  *)
(* have been refused, and but for X11's version after F11 failed.  The     *)
(* cursor is hidden when a scene fills the screen and else it is shown.    *)
(* An end that the user asked for leaves only X11's visuals; one for a     *)
(* failure gives the window and the context back and keeps the rest, which *)
(* is no more than what its platform keeps.                                *)
InContext ==
    /\ pc = "scene" => LostWindow \/ Context
    /\ pc = "create" /\ NextStep \in {"InitGL", "ResizeScene"} => Context
    /\ pc = "scene" /\ platform = "wgl" => cursor = IF fullscreen THEN -1 ELSE 0
    /\ pc \in {"exit", "failed"} => have = {} /\ current = "none"
    /\ pc = "exit" => kept \subseteq {"visual"}
    /\ pc = "failed" => kept \subseteq IF platform = "wgl" THEN {"class"} ELSE {"display", "colormap", "visual"}
=============================================================================
