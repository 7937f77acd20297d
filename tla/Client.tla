------------------------------- MODULE Client -------------------------------
(***************************************************************************)
(* The life of the game client: WinMain and the Initialize and Shutdown of *)
(* Window, System, Graphics and Audio on the main thread, the message loop *)
(* (Window::Procedure, WndProc) on a thread of its own.  The two share the *)
(* event Response, the variable Result, the queue of the message thread    *)
(* and the volatile UserInput_v.                                           *)
(***************************************************************************)
EXTENDS Integers, Sequences

CONSTANTS Keys   \* the keyboard's keys (System::UserInput_t::Keys)

VARIABLES
    pc,         \* where WinMain is
    step,       \* index in InitSteps of the initialization it is at
    held,       \* resources whose handle the variables of the process hold
    open,       \* system objects that are open, with or without such a variable
    todo,       \* the releases Shutdown has still to go through
    code,       \* the exit code
    input,      \* System::UserInput, what the scene sees
    wpc,        \* where Window::Procedure is
    signaled,   \* the state of the auto-reset event Response
    Result,     \* Window::Result
    class,      \* the window class is registered
    window,     \* the window exists
    queue,      \* the message thread has a message queue
    quit,       \* WM_QUIT is in it
    input_v     \* System::UserInput_v

main == <<pc, step, held, open, todo, code, input>>
shared == <<signaled, Result, quit>>
thread == <<wpc, class, window, queue, input_v>>
vars == <<main, shared, thread>>

-----------------------------------------------------------------------------
(* What is initialized, in order.  "gets" is the handle a step obtains.    *)

Step(component, gets, error) == [component |-> component, gets |-> gets, error |-> error]

WindowInitialize == <<Step("Window", "Response", 1), Step("Window", "Thread", 2),
                      Step("Window", "wait", 3),     Step("Window", "result", 0),
                      Step("Window", "hWnd", 6)>>
SystemInitialize == <<Step("System", "FreeType", 1), Step("System", "FontFace", 2)>>
GraphicsInitialize == <<Step("Graphics", "hDC", 1),
                        Step("Graphics", "choose", 2), Step("Graphics", "set", 3),
                        Step("Graphics", "hRC", 4),    Step("Graphics", "current", 5)>>
AudioInitialize == <<Step("Audio", "com", 1), Step("Audio", "XAudio2", 2),
                     Step("Audio", "MasterVoice", 3)>>

InitSteps == WindowInitialize \o SystemInitialize \o GraphicsInitialize
               \o AudioInitialize \o <<Step("Logic", "Scene", 1)>>

\* The digit of the exit code that names the component, and the code itself.
ComponentCode(component) == IF component = "Window" THEN 256
                            ELSE IF component = "System" THEN 512
                            ELSE IF component = "Graphics" THEN 768
                            ELSE IF component = "Audio" THEN 1024 ELSE 1280

ErrorInit == 4096
ErrorAnotherInstance == 4097
ExitCode(component, error) == ErrorInit + ComponentCode(component) + error

\* Steps that give no handle to keep, and those that open nothing: FindWindow
\* finds what the message thread has created.
NoHandle == {"wait", "result", "choose", "set", "current", "com"}
OpensNothing == {"wait", "result", "choose", "set", "current", "hWnd"}

\* Bug: the event is closed before the thread that sets it has ended.
WindowShutdownEarly == <<"hWnd", "Response", "Thread", "class">>

\* Bug: the device context goes before the rendering context made from it.
GraphicsShutdownSwapped == <<"hDC", "hRC">>

\* The Shutdown of each component, and of all of them.
WindowShutdown == <<"hWnd", "Thread", "Response", "class">>
SystemShutdown == <<"FontFace", "FreeType">>
GraphicsShutdown == <<"hRC", "hDC">>
AudioShutdown == <<"MasterVoice", "XAudio2">>

ShutdownOf(component) == IF component = "Window" THEN WindowShutdown
                         ELSE IF component = "System" THEN SystemShutdown
                         ELSE IF component = "Graphics" THEN GraphicsShutdown
                         ELSE IF component = "Audio" THEN AudioShutdown ELSE <<>>

ShutdownAll == AudioShutdown \o GraphicsShutdown \o SystemShutdown \o WindowShutdown

-----------------------------------------------------------------------------
NoInput == [keys |-> {}, close |-> FALSE]

Init == /\ pc = "start" /\ step = 1 /\ held = {} /\ open = {} /\ todo = <<>> /\ code = 0
        /\ input = NoInput /\ input_v = NoInput
        /\ wpc = "none" /\ signaled = FALSE /\ Result = 0
        /\ class = FALSE /\ window = FALSE /\ queue = FALSE /\ quit = FALSE

(* The main thread. *)

\* The mutex of another instance exists.
AnotherInstance == /\ pc = "start"
                   /\ pc' = "exit" /\ code' = ErrorAnotherInstance
                   /\ open' = {"mutex"}
                   /\ UNCHANGED <<step, held, todo, input, shared, thread>>

\* The mutex is new, or could not be made: the handle is not looked at.
OnlyInstance == /\ pc = "start"
                /\ pc' = "init"
                /\ open' \in {{}, {"mutex"}}
                /\ UNCHANGED <<step, held, todo, code, input, shared, thread>>

Now == InitSteps[step]

\* A step of initialization succeeds.  CreateThread starts the message thread;
\* the wait ends when Response is set, and resets it; Result is what the
\* thread reported, and is read only then; FindWindow finds the window there is.
Obtain ==
    /\ pc = "init"
    /\ Now.gets = "wait" => signaled
    /\ Now.gets = "result" => Result = 0
    /\ Now.gets = "hWnd" => window
    /\ held' = IF Now.gets \in NoHandle THEN held ELSE held \cup {Now.gets}
    /\ open' = IF Now.gets \in OpensNothing THEN open ELSE open \cup {Now.gets}
    /\ wpc' = IF Now.gets = "Thread" THEN "register" ELSE wpc
    /\ signaled' = IF Now.gets = "wait" THEN FALSE ELSE signaled
    /\ IF step = Len(InitSteps)
         THEN pc' = "show" /\ UNCHANGED step
         ELSE step' = step + 1 /\ UNCHANGED pc
    /\ UNCHANGED <<todo, code, input, Result, quit, class, window, queue, input_v>>

\* Bug: every component reports its errors as those of the window.
FailAsWindow ==
    /\ pc = "init"
    /\ Now.gets = "result" => Result # 0
    /\ code' = ExitCode("Window", IF Now.gets = "result" THEN Result ELSE Now.error)
    /\ todo' = ShutdownOf(Now.component) \o ShutdownAll
    /\ pc' = "release"
    /\ UNCHANGED <<step, held, open, input, shared, thread>>

\* A step of initialization fails: its component shuts itself down, WinMain
\* everything (a failed scene has deleted itself).  Looking at Result fails
\* exactly when the thread reported an error.
Fail ==
    /\ pc = "init"
    /\ Now.gets = "result" => Result # 0
    /\ code' = ExitCode(Now.component, IF Now.gets = "result" THEN Result ELSE Now.error)
    /\ todo' = ShutdownOf(Now.component) \o ShutdownAll
    /\ pc' = "release"
    /\ UNCHANGED <<step, held, open, input, shared, thread>>

\* ShowWindow on the window of another thread returns when that thread has
\* handled the message it sends.
Show == /\ pc = "show" /\ wpc = "pump"
        /\ pc' = "frame"
        /\ UNCHANGED <<step, held, open, todo, code, input, shared, thread>>

\* A frame: the keys of UserInput_v are copied, then CloseWindow, then the
\* scene runs.  Copying may interleave with WndProc.
CopyKeys == /\ pc = "frame"
            /\ input' = [input EXCEPT !.keys = input_v.keys]
            /\ pc' = "copyClose"
            /\ UNCHANGED <<step, held, open, todo, code, shared, thread>>

CopyClose == /\ pc = "copyClose"
             /\ input' = [input EXCEPT !.close = input_v.close]
             /\ pc' = "run"
             /\ UNCHANGED <<step, held, open, todo, code, shared, thread>>

\* RunFor: the login screen asks to be left when CloseWindow is set.
RunFor == /\ pc = "run"
          /\ pc' = IF input.close THEN "hide" ELSE "frame"
          /\ UNCHANGED <<step, held, open, todo, code, input, shared, thread>>

\* ShowWindow(SW_HIDE), delete CurrentScene, Shutdown.
Leave == /\ pc = "hide" /\ wpc = "pump"
         /\ held' = held \ {"Scene"} /\ open' = open \ {"Scene"}
         /\ todo' = ShutdownAll
         /\ pc' = "release"
         /\ UNCHANGED <<step, code, input, shared, thread>>

\* Giving up the handle of a resource closes it, if there is one.  The thread's
\* is only forgotten.
GiveUp(resource) == /\ held' = held \ {resource}
                    /\ open' = IF resource \in held /\ resource # "Thread" THEN open \ {resource} ELSE open

\* Bug: Shutdown does not wait for the message thread to end.
ReleaseNoJoin ==
    /\ pc = "release" /\ todo # <<>>
    /\ GiveUp(Head(todo))
    /\ todo' = Tail(todo)
    /\ class' = IF Head(todo) = "class" /\ ~window THEN FALSE ELSE class
    /\ UNCHANGED <<pc, step, code, input, shared, wpc, window, queue, input_v>>

\* DestroyWindow fails (the window is of another thread): it goes when that
\* thread ends.  The class can be unregistered once no window of it exists.
Release ==
    /\ pc = "release" /\ todo # <<>>
    /\ Head(todo) = "Thread" /\ "Thread" \in held => wpc = "exited"
    /\ GiveUp(Head(todo))
    /\ todo' = Tail(todo)
    /\ class' = IF Head(todo) = "class" /\ ~window THEN FALSE ELSE class
    /\ UNCHANGED <<pc, step, code, input, shared, wpc, window, queue, input_v>>

\* As long as the thread runs WM_QUIT is posted to it, over and over: posting
\* fails while the thread has no queue.
PostQuit ==
    /\ pc = "release" /\ todo # <<>> /\ Head(todo) = "Thread"
    /\ "Thread" \in held /\ wpc # "exited"
    /\ quit' = queue
    /\ UNCHANGED <<main, signaled, Result, thread>>

Exit == /\ pc = "release" /\ todo = <<>>
        /\ pc' = "exit"
        /\ UNCHANGED <<step, held, open, todo, code, input, shared, thread>>

Main == \/ AnotherInstance \/ OnlyInstance \/ Obtain \/ Fail \/ Show
        \/ CopyKeys \/ CopyClose \/ RunFor \/ Leave
        \/ Release \/ PostQuit \/ Exit

-----------------------------------------------------------------------------
(* The message thread: Procedure, CreateWindowInvisible and WndProc. *)

ErrorRegisterClass == 4
ErrorCreate == 5

\* Bug: the event is set as soon as the thread runs.
RegisterSignals == /\ wpc = "register"
                   /\ class' = TRUE /\ wpc' = "create" /\ signaled' = TRUE
                   /\ UNCHANGED <<main, Result, quit, window, queue, input_v>>

Register == /\ wpc = "register"
            /\ class' = TRUE /\ wpc' = "create"
            /\ UNCHANGED <<main, shared, window, queue, input_v>>

Create == /\ wpc = "create"
          /\ window' = TRUE /\ queue' = TRUE /\ wpc' = "signal"
          /\ UNCHANGED <<main, shared, class, input_v>>

\* Bug: Result is given the whole exit code and not the error of the window.
CannotCreateWholeCode ==
    /\ wpc \in {"register", "create"}
    /\ Result' = ExitCode("Window", IF wpc = "register" THEN ErrorRegisterClass ELSE ErrorCreate)
    /\ queue' = TRUE /\ wpc' = "failed"
    /\ UNCHANGED <<main, signaled, quit, class, window, input_v>>

\* CreateWindowInvisible fails, after a message box.
CannotCreate == /\ wpc \in {"register", "create"}
                /\ Result' = IF wpc = "register" THEN ErrorRegisterClass ELSE ErrorCreate
                /\ queue' = TRUE /\ wpc' = "failed"
                /\ UNCHANGED <<main, signaled, quit, class, window, input_v>>

Signal == /\ wpc \in {"signal", "failed"}
          /\ signaled' = TRUE
          /\ wpc' = IF wpc = "signal" THEN "pump" ELSE "ending"
          /\ UNCHANGED <<main, Result, quit, class, window, queue, input_v>>

WndProc(newInput) == /\ wpc = "pump"
                     /\ input_v' = newInput
                     /\ UNCHANGED <<main, shared, wpc, class, window, queue>>

\* Bug: a key writes the whole of UserInput_v, the request to close included.
KeyDownOverwrites(k) == WndProc([keys |-> input_v.keys \cup {k}, close |-> FALSE])

KeyDown(k) == WndProc([input_v EXCEPT !.keys = @ \cup {k}])
KeyUp(k)   == WndProc([input_v EXCEPT !.keys = @ \ {k}])

\* WM_CLOSE does not destroy the window: it asks the scene to leave.
Close == WndProc([input_v EXCEPT !.close = TRUE])

\* GetMessage takes WM_QUIT and Procedure returns.
Quit == /\ wpc = "pump" /\ quit
        /\ wpc' = "ending"
        /\ UNCHANGED <<main, shared, class, window, queue, input_v>>

\* The thread ends, and with it its window and its queue.
End == /\ wpc = "ending"
       /\ wpc' = "exited"
       /\ window' = FALSE /\ queue' = FALSE /\ quit' = FALSE
       /\ UNCHANGED <<main, signaled, Result, class, input_v>>

Input == Close \/ \E k \in Keys : KeyDown(k) \/ KeyUp(k)

Procedure == Register \/ Create \/ CannotCreate \/ Signal \/ Quit \/ End

Next == Main \/ Input \/ Procedure

\* Both threads are scheduled.  CopyKeys is the frame whose time is in range:
\* a frame out of range changes nothing, and not every frame is.
Fairness == WF_vars(Main) /\ WF_vars(Procedure)

Spec == Init /\ [][Next]_vars /\ Fairness

-----------------------------------------------------------------------------
(* Properties. *)

Handles == {s.gets : s \in {InitSteps[i] : i \in DOMAIN InitSteps}} \ NoHandle
Objects == {s.gets : s \in {InitSteps[i] : i \in DOMAIN InitSteps}} \ OpensNothing
Inputs == [keys : SUBSET Keys, close : BOOLEAN]

TypeOK ==
    /\ pc \in {"start", "init", "show", "frame", "copyClose", "run", "hide",
               "release", "exit"}
    /\ step \in DOMAIN InitSteps
    /\ held \subseteq Handles /\ open \subseteq Objects \cup {"mutex"}
    /\ todo \in Seq(Handles \cup {"class"})
    /\ code \in Nat
    /\ input \in Inputs /\ input_v \in Inputs
    /\ wpc \in {"none", "register", "create", "failed", "signal", "pump", "ending", "exited"}
    /\ signaled \in BOOLEAN /\ Result \in {0, ErrorRegisterClass, ErrorCreate}
    /\ class \in BOOLEAN /\ window \in BOOLEAN /\ queue \in BOOLEAN /\ quit \in BOOLEAN

\* The handshake of the two threads, in both directions: the event stays open
\* as long as the message thread has still to set it, even when the main thread
\* has given up on it; and when the main thread looks at Result, the message
\* thread has said there all it will ever say.
Handshake ==
    /\ wpc \in {"register", "create", "failed", "signal"} => "Response" \in held
    /\ (pc = "init" /\ Now.gets = "result") =>
          \/ wpc = "pump" /\ window /\ Result = 0
          \/ wpc \in {"ending", "exited"} /\ Result # 0

\* No resource outlives one it was made from: not on any of the paths of a
\* failed initialization, in which Shutdown of one component runs twice, and
\* not the window, which belongs to the other thread.
MadeFrom == {<<"FontFace", "FreeType">>, <<"hRC", "hDC">>, <<"hDC", "hWnd">>,
             <<"MasterVoice", "XAudio2">>, <<"hWnd", "Thread">>,
             <<"Scene", "hRC">>, <<"Scene", "FontFace">>, <<"Scene", "MasterVoice">>}

ReleaseOrder == /\ \A m \in MadeFrom : m[1] \in held => m[2] \in held
                /\ {"hWnd", "hDC", "hRC"} \intersect held # {} => window

\* When WinMain returns, whichever step failed, the message thread has ended,
\* its window and class are gone and no variable holds a handle.  What is left
\* open is what the code leaves to the end of the process and nothing else: the
\* mutex, the handle of the thread and COM, of these what was obtained.
Obtained == {InitSteps[i].gets : i \in 1..(step - 1)}

CleanExit == pc = "exit" =>
                /\ held = {}
                /\ wpc \in {"none", "exited"}
                /\ ~window /\ ~class
                /\ open \ {"mutex"} = IF code = ErrorAnotherInstance THEN {}
                                       ELSE {"Thread", "com"} \intersect Obtained

\* The codes a failure of a step is reported with.
Codes(s) == IF s.gets = "result"
              THEN {ExitCode(s.component, e) : e \in {ErrorRegisterClass, ErrorCreate}}
              ELSE {ExitCode(s.component, s.error)}

\* "Program exit codes (Return 0 for success)": 0 is returned when the user has
\* closed the window, and any other code is that of one step, the one that failed.
ExitTells == (pc = "exit" /\ code # ErrorAnotherInstance) =>
                /\ code = 0 <=> input.close
                /\ code # 0 => {i \in DOMAIN InitSteps : code \in Codes(InitSteps[i])} = {step}

\* What was begun ends: a shutdown, though WM_QUIT may be posted to a thread
\* with no queue yet, and a session whose user closes the window, though the
\* request is made on another thread than the one that acts on it.
Leaves == /\ pc = "release" ~> pc = "exit"
          /\ input_v.close ~> pc = "exit"
=============================================================================
