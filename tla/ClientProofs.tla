---------------------------- MODULE ClientProofs ----------------------------
(***************************************************************************)
(* Proofs about the life of the client, for any keyboard, and about the    *)
(* login screen that it shows, for frames of any duration.                 *)
(***************************************************************************)
EXTENDS Client, LoginScreen, TLAPS

\* The handles obtained by the steps before the k-th.
Before(k) == {InitSteps[j].gets : j \in 1..(k - 1)} \ NoHandle

Occurring(s) == {s[k] : k \in DOMAIN s}

\* a occurs in s, and b does not occur up to there.
Precedes(a, b, s) == \E k \in DOMAIN s : s[k] = a /\ \A j \in 1..k : s[j] # b

\* What must go before what, the window class included, once the scene is gone.
Order == {<<"FontFace", "FreeType">>, <<"hRC", "hDC">>, <<"hDC", "hWnd">>,
          <<"MasterVoice", "XAudio2">>, <<"hWnd", "Thread">>,
          <<"Thread", "Response">>, <<"Thread", "class">>}

Running == {"show", "frame", "copyClose", "run", "hide"}

\* What is held.
Holding == /\ pc = "start" => held = {} /\ step = 1
           /\ pc = "init" => held = Before(step)
           /\ pc \in Running => held = Handles /\ step = 16
           /\ pc = "exit" => held = {}
           /\ \A m \in MadeFrom : m[1] \in held => m[2] \in held

\* What is left to release covers all that is held, in a safe order.
Releasing == pc = "release" => /\ held \subseteq Occurring(todo) /\ "Scene" \notin held
                               /\ class \/ "Thread" \in held => "class" \in Occurring(todo)
                               /\ \A m \in Order : m[1] \in held => Precedes(m[1], m[2], todo)

\* How far the message thread can have come by then.
Threads == /\ wpc = "none" => ~class /\ ~window /\ ~queue /\ ~signaled /\ Result = 0
           /\ "Thread" \in held => wpc # "none" /\ "Response" \in held
           /\ "Thread" \notin held => wpc \in {"none", "exited"}
           /\ wpc \in {"register", "create", "signal", "pump"} => Result = 0
           /\ wpc = "failed" => Result # 0
           /\ signaled => wpc \in {"pump", "ending", "exited"}
           /\ window => wpc \in {"signal", "pump", "ending"}
           /\ wpc \in {"signal", "pump"} => window
           /\ queue => wpc \in {"signal", "failed", "pump", "ending"}
           /\ quit => queue /\ pc = "release"
           /\ wpc \in {"ending", "exited"} /\ pc \notin {"release", "exit"} => Result # 0
           /\ pc = "start" \/ (pc = "init" /\ step <= 2) => wpc = "none"
           /\ pc = "init" /\ step >= 4 => wpc \in {"pump", "ending", "exited"}
           /\ pc = "init" /\ step >= 5 => Result = 0
           /\ pc \in Running => Result = 0
           /\ pc = "exit" => ~class
           /\ "hWnd" \in held => wpc = "pump" /\ ~quit

\* What the exit code will tell.
Outcome == /\ pc \in {"start", "init"} \cup Running => code = 0
           /\ pc \in {"start", "init", "show", "frame", "copyClose"} => ~input.close
           /\ pc = "hide" => input.close
           /\ pc \in {"release", "exit"} =>
                 \/ code = 0 /\ input.close
                 \/ code \in Codes(InitSteps[step]) /\ ~input.close
                 \/ code = ErrorAnotherInstance /\ pc = "exit"

\* What is open: besides what is held, only what the code leaves to the end of
\* the process.
Left == {"Thread", "com"}

Opening == /\ pc = "start" => open = {}
           /\ pc = "exit" /\ code = ErrorAnotherInstance => open = {"mutex"}
           /\ open \subseteq held \cup Left \cup {"mutex"}
           /\ pc # "start" /\ code # ErrorAnotherInstance => \A x \in Left : x \in open <=> x \in Obtained
           /\ code = ErrorAnotherInstance => pc = "exit"

IInv == TypeOK /\ Opening /\ Holding /\ Releasing /\ Threads /\ Outcome

-----------------------------------------------------------------------------
(* The tables. *)

LEMMA InitStepsAre ==
    /\ DOMAIN InitSteps = 1..16 /\ Len(InitSteps) = 16
    /\ InitSteps[1] = Step("Window", "Response", 1)
    /\ InitSteps[2] = Step("Window", "Thread", 2)
    /\ InitSteps[3] = Step("Window", "wait", 3)
    /\ InitSteps[4] = Step("Window", "result", 0)
    /\ InitSteps[5] = Step("Window", "hWnd", 6)
    /\ InitSteps[6] = Step("System", "FreeType", 1)
    /\ InitSteps[7] = Step("System", "FontFace", 2)
    /\ InitSteps[8] = Step("Graphics", "hDC", 1)
    /\ InitSteps[9] = Step("Graphics", "choose", 2)
    /\ InitSteps[10] = Step("Graphics", "set", 3)
    /\ InitSteps[11] = Step("Graphics", "hRC", 4)
    /\ InitSteps[12] = Step("Graphics", "current", 5)
    /\ InitSteps[13] = Step("Audio", "com", 1)
    /\ InitSteps[14] = Step("Audio", "XAudio2", 2)
    /\ InitSteps[15] = Step("Audio", "MasterVoice", 3)
    /\ InitSteps[16] = Step("Logic", "Scene", 1)
BY DEF InitSteps, WindowInitialize, SystemInitialize, GraphicsInitialize, AudioInitialize

LEMMA Gets ==
    /\ InitSteps[1].gets = "Response" /\ InitSteps[2].gets = "Thread" /\ InitSteps[3].gets = "wait"
    /\ InitSteps[4].gets = "result" /\ InitSteps[5].gets = "hWnd" /\ InitSteps[6].gets = "FreeType"
    /\ InitSteps[7].gets = "FontFace" /\ InitSteps[8].gets = "hDC" /\ InitSteps[9].gets = "choose"
    /\ InitSteps[10].gets = "set" /\ InitSteps[11].gets = "hRC" /\ InitSteps[12].gets = "current"
    /\ InitSteps[13].gets = "com" /\ InitSteps[14].gets = "XAudio2" /\ InitSteps[15].gets = "MasterVoice"
    /\ InitSteps[16].gets = "Scene"
BY InitStepsAre DEF Step

LEMMA Components ==
    /\ \A k \in 1..5 : InitSteps[k].component = "Window"
    /\ \A k \in 6..7 : InitSteps[k].component = "System"
    /\ \A k \in 8..12 : InitSteps[k].component = "Graphics"
    /\ \A k \in 13..15 : InitSteps[k].component = "Audio"
    /\ InitSteps[16].component = "Logic"
BY InitStepsAre DEF Step

LEMMA Errors ==
    /\ InitSteps[1].error = 1 /\ InitSteps[2].error = 2 /\ InitSteps[3].error = 3
    /\ InitSteps[4].error = 0 /\ InitSteps[5].error = 6 /\ InitSteps[6].error = 1
    /\ InitSteps[7].error = 2 /\ InitSteps[8].error = 1 /\ InitSteps[9].error = 2
    /\ InitSteps[10].error = 3 /\ InitSteps[11].error = 4 /\ InitSteps[12].error = 5
    /\ InitSteps[13].error = 1 /\ InitSteps[14].error = 2 /\ InitSteps[15].error = 3
    /\ InitSteps[16].error = 1
BY InitStepsAre DEF Step

\* What is obtained by a step: the class of the window is the thread's.
LEMMA NeverGot == "class" \notin Before(17)
<1>1. ASSUME NEW j \in 1..8 PROVE InitSteps[j].gets # "class"
  BY Gets, SMTT(30)
<1>2. ASSUME NEW j \in 9..16 PROVE InitSteps[j].gets # "class"
  BY Gets, SMTT(30)
<1>3. \A j \in 1..16 : j \in 1..8 \/ j \in 9..16
  OBVIOUS
<1> QED BY <1>1, <1>2, <1>3 DEF Before

\* The step each handle is obtained by.
LEMMA HandleAt ==
    ASSUME NEW k \in 1..17
    PROVE  /\ "Response" \in Before(k) <=> k > 1
           /\ "Thread" \in Before(k) <=> k > 2
           /\ "hWnd" \in Before(k) <=> k > 5
           /\ "FreeType" \in Before(k) <=> k > 6
           /\ "FontFace" \in Before(k) <=> k > 7
           /\ "hDC" \in Before(k) <=> k > 8
           /\ "hRC" \in Before(k) <=> k > 11
           /\ "XAudio2" \in Before(k) <=> k > 14
           /\ "MasterVoice" \in Before(k) <=> k > 15
           /\ "Scene" \in Before(k) <=> k > 16
<1>1. "Response" \in Before(k) <=> k > 1
  BY Gets DEF Before, NoHandle
<1>2. "Thread" \in Before(k) <=> k > 2
  BY Gets DEF Before, NoHandle
<1>3. "hWnd" \in Before(k) <=> k > 5
  BY Gets DEF Before, NoHandle
<1>4. "FreeType" \in Before(k) <=> k > 6
  BY Gets DEF Before, NoHandle
<1>5. "FontFace" \in Before(k) <=> k > 7
  BY Gets DEF Before, NoHandle
<1>6. "hDC" \in Before(k) <=> k > 8
  BY Gets DEF Before, NoHandle
<1>7. "hRC" \in Before(k) <=> k > 11
  BY Gets DEF Before, NoHandle
<1>8. "XAudio2" \in Before(k) <=> k > 14
  BY Gets DEF Before, NoHandle
<1>9. "MasterVoice" \in Before(k) <=> k > 15
  BY Gets DEF Before, NoHandle
<1>10. "Scene" \in Before(k) <=> k > 16
  BY Gets DEF Before, NoHandle
<1> QED BY <1>1, <1>2, <1>3, <1>4, <1>5, <1>6, <1>7, <1>8, <1>9, <1>10

\* The codes of the steps are all different.
LEMMA CodesAre ==
    ASSUME NEW x
    PROVE  /\ x \in Codes(InitSteps[1]) <=> x = 4353
           /\ x \in Codes(InitSteps[2]) <=> x = 4354
           /\ x \in Codes(InitSteps[3]) <=> x = 4355
           /\ x \in Codes(InitSteps[4]) <=> x = 4356 \/ x = 4357
           /\ x \in Codes(InitSteps[5]) <=> x = 4358
           /\ x \in Codes(InitSteps[6]) <=> x = 4609
           /\ x \in Codes(InitSteps[7]) <=> x = 4610
           /\ x \in Codes(InitSteps[8]) <=> x = 4865
           /\ x \in Codes(InitSteps[9]) <=> x = 4866
           /\ x \in Codes(InitSteps[10]) <=> x = 4867
           /\ x \in Codes(InitSteps[11]) <=> x = 4868
           /\ x \in Codes(InitSteps[12]) <=> x = 4869
           /\ x \in Codes(InitSteps[13]) <=> x = 5121
           /\ x \in Codes(InitSteps[14]) <=> x = 5122
           /\ x \in Codes(InitSteps[15]) <=> x = 5123
           /\ x \in Codes(InitSteps[16]) <=> x = 5377
BY Gets, Components, Errors DEF Codes, ExitCode, ErrorInit, ComponentCode, ErrorRegisterClass, ErrorCreate

LEMMA CodesApart ==
    ASSUME NEW k \in 1..16, NEW j \in 1..16, NEW x, x \in Codes(InitSteps[k]), x \in Codes(InitSteps[j])
    PROVE  k = j /\ x \in Nat /\ x # 0 /\ x # ErrorAnotherInstance
BY CodesAre DEF ErrorAnotherInstance

\* All handles are those of all steps.
LEMMA HandlesAre == Handles = Before(17)
<1>1. DOMAIN InitSteps = 1..(17 - 1)
  BY InitStepsAre
<1> QED BY <1>1 DEF Handles, Before

LEMMA BeforeSubset == ASSUME NEW k \in 1..17 PROVE Before(k) \subseteq Handles
<1>1. 1..(k - 1) \subseteq 1..(17 - 1)
  OBVIOUS
<1> QED BY <1>1, HandlesAre DEF Before

LEMMA BeforeNext ==
    ASSUME NEW k \in 1..16
    PROVE  Before(k + 1) = IF InitSteps[k].gets \in NoHandle THEN Before(k)
                                                           ELSE Before(k) \cup {InitSteps[k].gets}
<1>1. 1..((k + 1) - 1) = 1..(k - 1) \cup {k}
  OBVIOUS
<1> QED BY <1>1 DEF Before

LEMMA BeforeClosed == ASSUME NEW k \in 1..17, NEW m \in MadeFrom, m[1] \in Before(k) PROVE m[2] \in Before(k)
BY HandleAt DEF MadeFrom

-----------------------------------------------------------------------------
(* The orders of release. *)

LEMMA PrecedesHead ==
    ASSUME NEW S, NEW s \in Seq(S), NEW a, NEW b, Precedes(a, b, s)
    PROVE  s # <<>> /\ Head(s) # b
<1>1. PICK k \in 1..Len(s) : \A j \in 1..k : s[j] # b
  BY DEF Precedes
<1>2. Len(s) >= 1 /\ 1 \in 1..k
  OBVIOUS
<1> QED BY <1>1, <1>2

LEMMA PrecedesTail ==
    ASSUME NEW S, NEW s \in Seq(S), NEW a, NEW b, Precedes(a, b, s), Head(s) # a
    PROVE  Precedes(a, b, Tail(s))
<1>1. PICK k \in 1..Len(s) : s[k] = a /\ \A j \in 1..k : s[j] # b
  BY DEF Precedes
<1>2. k # 1 /\ s # <<>>
  BY <1>1
<1>3. k - 1 \in 1..Len(Tail(s)) /\ DOMAIN Tail(s) = 1..Len(Tail(s))
  BY <1>2
<1>4. \A j \in 1..Len(Tail(s)) : Tail(s)[j] = s[j + 1]
  BY <1>2
<1>5. Tail(s)[k - 1] = a
  BY <1>1, <1>3, <1>4
<1>6. \A j \in 1..(k - 1) : Tail(s)[j] # b
  BY <1>1, <1>3, <1>4
<1> QED BY <1>3, <1>5, <1>6 DEF Precedes

LEMMA MembersTail ==
    ASSUME NEW S, NEW s \in Seq(S), s # <<>>
    PROVE  Occurring(s) \subseteq {Head(s)} \cup Occurring(Tail(s))
<1> SUFFICES ASSUME NEW k \in 1..Len(s) PROVE s[k] \in {Head(s)} \cup Occurring(Tail(s))
  BY DEF Occurring
<1>1. CASE k = 1
  BY <1>1
<1>2. CASE k > 1
  <2>1. k - 1 \in DOMAIN Tail(s) /\ Tail(s)[k - 1] = s[k]
    BY <1>2
  <2> QED BY <2>1 DEF Occurring
<1> QED BY <1>1, <1>2

LEMMA JoinElements ==
    ASSUME NEW S, NEW s \in Seq(S), NEW t \in Seq(S)
    PROVE  /\ DOMAIN (s \o t) = 1..(Len(s) + Len(t))
           /\ \A k \in 1..Len(s) : (s \o t)[k] = s[k]
           /\ \A k \in 1..Len(t) : (s \o t)[Len(s) + k] = t[k]
OBVIOUS

LEMMA PrecedesLeft ==
    ASSUME NEW S, NEW s \in Seq(S), NEW t \in Seq(S), NEW a, NEW b, Precedes(a, b, s)
    PROVE  Precedes(a, b, s \o t)
<1>1. PICK k \in 1..Len(s) : s[k] = a /\ \A j \in 1..k : s[j] # b
  BY DEF Precedes
<1>2. (s \o t)[k] = a
  BY <1>1, JoinElements
<1>3. ASSUME NEW j \in 1..k PROVE (s \o t)[j] # b
  BY <1>1, JoinElements
<1>4. k \in DOMAIN (s \o t)
  BY JoinElements
<1> QED BY <1>2, <1>3, <1>4 DEF Precedes

LEMMA PrecedesRight ==
    ASSUME NEW S, NEW s \in Seq(S), NEW t \in Seq(S), NEW a, NEW b, Precedes(a, b, t), b \notin Occurring(s)
    PROVE  Precedes(a, b, s \o t)
<1>1. PICK k \in 1..Len(t) : t[k] = a /\ \A j \in 1..k : t[j] # b
  BY DEF Precedes
<1>2. (s \o t)[Len(s) + k] = a
  BY <1>1, JoinElements
<1>3. ASSUME NEW j \in 1..(Len(s) + k) PROVE (s \o t)[j] # b
  <2>1. CASE j <= Len(s)
    <3>1. j \in 1..Len(s) /\ (s \o t)[j] = s[j]
      BY <2>1, JoinElements
    <3> QED BY <3>1 DEF Occurring
  <2>2. CASE j > Len(s)
    <3>1. j - Len(s) \in 1..k /\ j - Len(s) \in 1..Len(t) /\ Len(s) + (j - Len(s)) = j
      BY <2>2
    <3>2. (s \o t)[j] = t[j - Len(s)]
      BY <3>1, JoinElements
    <3> QED BY <1>1, <3>1, <3>2
  <2> QED BY <2>1, <2>2
<1>4. Len(s) + k \in DOMAIN (s \o t)
  BY JoinElements
<1> QED BY <1>2, <1>3, <1>4 DEF Precedes

Released == Handles \cup {"class"}

LEMMA ReleasedAre ==
    {"Response", "Thread", "hWnd", "FreeType", "FontFace", "hDC", "hRC", "XAudio2", "MasterVoice", "class"}
       \subseteq Released
BY HandlesAre, HandleAt DEF Released

LEMMA ShutdownsTyped ==
    /\ WindowShutdown \in Seq(Released) /\ SystemShutdown \in Seq(Released)
    /\ GraphicsShutdown \in Seq(Released) /\ AudioShutdown \in Seq(Released)
<1>1. WindowShutdown \in Seq(Released)
  BY ReleasedAre DEF WindowShutdown
<1>2. SystemShutdown \in Seq(Released)
  BY ReleasedAre DEF SystemShutdown
<1>3. GraphicsShutdown \in Seq(Released)
  BY ReleasedAre DEF GraphicsShutdown
<1>4. AudioShutdown \in Seq(Released)
  BY ReleasedAre DEF AudioShutdown
<1> QED BY <1>1, <1>2, <1>3, <1>4

LEMMA ShutdownOfTyped == ASSUME NEW component PROVE ShutdownOf(component) \in Seq(Released)
<1>1. <<>> \in Seq(Released)
  OBVIOUS
<1> QED BY <1>1, ShutdownsTyped DEF ShutdownOf

LEMMA ShutdownAllIs ==
    /\ ShutdownAll \in Seq(Released) /\ DOMAIN ShutdownAll = 1..10
    /\ ShutdownAll[1] = "MasterVoice" /\ ShutdownAll[2] = "XAudio2"
    /\ ShutdownAll[3] = "hRC" /\ ShutdownAll[4] = "hDC"
    /\ ShutdownAll[5] = "FontFace" /\ ShutdownAll[6] = "FreeType"
    /\ ShutdownAll[7] = "hWnd" /\ ShutdownAll[8] = "Thread"
    /\ ShutdownAll[9] = "Response" /\ ShutdownAll[10] = "class"
<1>1. ShutdownAll \in Seq(Released)
  BY ShutdownsTyped DEF ShutdownAll
<1>2. DOMAIN ShutdownAll = 1..10
  BY DEF ShutdownAll, AudioShutdown, GraphicsShutdown, SystemShutdown, WindowShutdown
<1> QED BY <1>1, <1>2 DEF ShutdownAll, AudioShutdown, GraphicsShutdown, SystemShutdown, WindowShutdown

LEMMA ShutdownAllOrdered == ASSUME NEW m \in Order PROVE Precedes(m[1], m[2], ShutdownAll)
BY ShutdownAllIs DEF Order, Precedes

LEMMA ShutdownAllCovers ==
    /\ Handles \ {"Scene"} \subseteq Occurring(ShutdownAll) /\ "class" \in Occurring(ShutdownAll)
<1>1. \A x \in Before(17) : x = "Scene" \/ \E k \in 1..10 : ShutdownAll[k] = x
  BY Gets, ShutdownAllIs, SMTT(30) DEF Before, NoHandle
<1> QED BY <1>1, HandlesAre, ShutdownAllIs DEF Occurring

\* The Shutdown of a component that failed, and after it that of all: the
\* window, whose is the only one to pass over something made from it, fails
\* before there is a device context.
LEMMA ShutdownOfOrdered ==
    ASSUME NEW component, NEW m \in Order, component # "Window" \/ m[1] # "hDC"
    PROVE  Precedes(m[1], m[2], ShutdownOf(component) \o ShutdownAll)
<1>1. ShutdownOf(component) \in Seq(Released) /\ ShutdownAll \in Seq(Released)
  BY ShutdownOfTyped, ShutdownAllIs
<1>2. m[2] \notin Occurring(ShutdownOf(component)) \/ Precedes(m[1], m[2], ShutdownOf(component))
  <2>1. CASE component = "Window"
    BY <2>1 DEF ShutdownOf, WindowShutdown, Occurring, Precedes, Order
  <2>2. CASE component = "System"
    BY <2>2 DEF ShutdownOf, SystemShutdown, Occurring, Precedes, Order
  <2>3. CASE component = "Graphics"
    BY <2>3 DEF ShutdownOf, GraphicsShutdown, Occurring, Precedes, Order
  <2>4. CASE component = "Audio"
    BY <2>4 DEF ShutdownOf, AudioShutdown, Occurring, Precedes, Order
  <2>5. CASE component \notin {"Window", "System", "Graphics", "Audio"}
    BY <2>5 DEF ShutdownOf, Occurring
  <2> QED BY <2>1, <2>2, <2>3, <2>4, <2>5
<1>3. CASE Precedes(m[1], m[2], ShutdownOf(component))
  BY <1>1, <1>3, PrecedesLeft
<1>4. CASE m[2] \notin Occurring(ShutdownOf(component))
  BY <1>1, <1>4, ShutdownAllOrdered, PrecedesRight
<1> QED BY <1>2, <1>3, <1>4

LEMMA MembersRight ==
    ASSUME NEW S, NEW s \in Seq(S), NEW t \in Seq(S) PROVE Occurring(t) \subseteq Occurring(s \o t)
<1>1. ASSUME NEW k \in 1..Len(t) PROVE t[k] \in Occurring(s \o t)
  <2>1. (s \o t)[Len(s) + k] = t[k] /\ Len(s) + k \in DOMAIN (s \o t)
    BY JoinElements
  <2> QED BY <2>1 DEF Occurring
<1>2. DOMAIN t = 1..Len(t)
  OBVIOUS
<1> QED BY <1>1, <1>2 DEF Occurring

-----------------------------------------------------------------------------
(* The main thread. *)

LEMMA StepTyped == ASSUME TypeOK PROVE step \in 1..16
BY InitStepsAre DEF TypeOK

LEMMA InitIInv == Init => IInv
<1> SUFFICES ASSUME Init PROVE IInv
  OBVIOUS
<1> USE DEF Init, NoInput
<1>1. input \in Inputs /\ input_v \in Inputs
  BY DEF Inputs
<1>2. <<>> \in Seq(Handles \cup {"class"})
  OBVIOUS
<1>3. TypeOK
  <2>1. step \in DOMAIN InitSteps
    BY InitStepsAre
  <2>2. todo \in Seq(Handles \cup {"class"}) /\ held \subseteq Handles
    BY <1>2
  <2> QED BY <1>1, <2>1, <2>2 DEF TypeOK
<1>4. Holding /\ Releasing /\ Threads /\ Outcome
  BY DEF Holding, Releasing, Threads, Outcome, Running, MadeFrom
<1>5. Opening
  BY DEF Opening, ErrorAnotherInstance
<1> QED BY <1>3, <1>4, <1>5 DEF IInv

LEMMA StartIInv == ASSUME IInv, AnotherInstance \/ OnlyInstance PROVE IInv'
<1> USE DEF IInv, AnotherInstance, OnlyInstance, shared, thread
<1>1. TypeOK'
  BY DEF TypeOK, ErrorAnotherInstance
<1>2. Before(1) = {}
  BY DEF Before
<1>3. Holding' /\ Releasing'
  BY <1>2 DEF Holding, Releasing, Running
<1>4. wpc = "none" /\ ~class
  BY DEF Threads, Holding
<1>5. Threads'
  BY <1>3, <1>4 DEF Threads, Running, Holding
<1>6. Outcome'
  BY DEF Outcome, Running
<1>7. Opening'
  <2>1. Obtained' = {}
    BY DEF Obtained, Holding
  <2> QED BY <2>1 DEF Opening, Left
<1> QED BY <1>1, <1>3, <1>5, <1>6, <1>7

LEMMA ObtainIInv == ASSUME IInv, Obtain PROVE IInv'
<1> USE DEF IInv, Obtain
<1>1. step \in 1..16 /\ Len(InitSteps) = 16
  BY StepTyped, InitStepsAre
<1>2. /\ pc = "init" /\ held = Before(step) /\ held' = Before(step + 1)
      /\ \/ step = 16 /\ pc' = "show" /\ step' = step
         \/ step # 16 /\ pc' = "init" /\ step' = step + 1
  BY <1>1, BeforeNext DEF Holding, Now
<1>3. step + 1 \in 1..17 /\ step' \in 1..16
  BY <1>1, <1>2
<1>4. TypeOK'
  <2>1. held' \subseteq Handles
    BY <1>2, <1>3, BeforeSubset
  <2>2. step' \in DOMAIN InitSteps /\ pc' \in {"init", "show"}
    BY <1>2, <1>3, InitStepsAre
  <2>3. wpc' \in {"register", wpc} /\ signaled' \in BOOLEAN
    BY DEF TypeOK
  <2>4. UNCHANGED <<todo, code, input, Result, quit, class, window, queue, input_v>>
    OBVIOUS
  <2>5. open' \subseteq Objects \cup {"mutex"}
    <3>1. Now.gets \in OpensNothing \/ Now.gets \in Objects
      BY <1>1, InitStepsAre DEF Now, Objects
    <3> QED BY <3>1 DEF TypeOK
  <2> QED BY <2>1, <2>2, <2>3, <2>4, <2>5 DEF TypeOK
<1>5. Holding'
  <2>1. \A m \in MadeFrom : m[1] \in held' => m[2] \in held'
    BY <1>2, <1>3, BeforeClosed
  <2>2. pc' = "show" => held' = Handles /\ step' = 16
    BY <1>2, HandlesAre
  <2> QED BY <1>2, <2>1, <2>2 DEF Holding, Running
<1>6. Releasing'
  BY <1>2 DEF Releasing
<1>7. Threads'
  <2>1. /\ Now.gets = "Thread" <=> step = 2
        /\ Now.gets = "wait" <=> step = 3
        /\ Now.gets = "result" <=> step = 4
        /\ Now.gets = "hWnd" <=> step = 5
    BY <1>1, Gets DEF Now
  <2>2. /\ "Thread" \in held <=> step > 2
        /\ "Thread" \in held' <=> step + 1 > 2
        /\ "Response" \in held' <=> step + 1 > 1
        /\ "hWnd" \in held' <=> step + 1 > 5
        /\ "hWnd" \in held <=> step > 5
    BY <1>1, <1>2, <1>3, HandleAt
  <2>3. UNCHANGED <<Result, quit, class, window, queue>>
    OBVIOUS
  <2>4. wpc' = IF step = 2 THEN "register" ELSE wpc
    BY <2>1
  <2>5. signaled' = IF step = 3 THEN FALSE ELSE signaled
    BY <2>1
  <2>6. (step = 3 => signaled) /\ (step = 4 => Result = 0) /\ (step = 5 => window)
    BY <2>1
  <2>7. CASE step = 1
    BY <1>2, <2>2, <2>3, <2>4, <2>5, <2>7 DEF Threads, Running
  <2>8. CASE step = 2
    BY <1>2, <2>2, <2>3, <2>4, <2>5, <2>8 DEF Threads, Running
  <2>9. CASE step = 3
    BY <1>2, <2>2, <2>3, <2>4, <2>5, <2>6, <2>9 DEF Threads, Running
  <2>10. CASE step = 4
    BY <1>2, <2>2, <2>3, <2>4, <2>5, <2>6, <2>10 DEF Threads, Running
  <2>11. CASE step = 5
    BY <1>2, <2>2, <2>3, <2>4, <2>5, <2>6, <2>11 DEF Threads, Running
  <2>12. CASE step > 5
    BY <1>1, <1>2, <1>3, <2>2, <2>3, <2>4, <2>5, <2>12 DEF Threads, Running
  <2> QED BY <1>1, <2>7, <2>8, <2>9, <2>10, <2>11, <2>12
<1>8. Outcome'
  BY <1>2 DEF Outcome, Running
<1>9. Opening'
  <2>1. open' = IF Now.gets \in OpensNothing THEN open ELSE open \cup {Now.gets}
    OBVIOUS
  <2>2. held' = IF Now.gets \in NoHandle THEN held ELSE held \cup {Now.gets}
    OBVIOUS
  <2>3. Now.gets \notin OpensNothing => Now.gets \notin NoHandle \/ Now.gets = "com"
    BY DEF OpensNothing, NoHandle
  <2>4. open' \subseteq held' \cup Left \cup {"mutex"}
    BY <2>1, <2>2, <2>3 DEF Opening, Left
  <2>5. ASSUME NEW x \in Left PROVE x \in open' <=> x \in open \/ x = Now.gets
    BY <2>1 DEF Left, OpensNothing
  <2>6. \A x \in Left : x \in open <=> x \in Obtained
    BY <1>2 DEF Opening
  <2>7. ASSUME step # 16 PROVE Obtained' = Obtained \cup {Now.gets}
    <3>1. step' = step + 1 /\ 1..(step' - 1) = 1..(step - 1) \cup {step}
      BY <1>1, <1>2, <2>7
    <3> QED BY <3>1 DEF Obtained, Now
  <2>8. ASSUME step = 16 PROVE Obtained' = Obtained /\ Now.gets \notin Left
    BY <1>1, <1>2, <2>8, Gets DEF Obtained, Now, Left
  <2> QED BY <1>2, <2>4, <2>5, <2>6, <2>7, <2>8 DEF Opening
<1> QED BY <1>4, <1>5, <1>6, <1>7, <1>8, <1>9

LEMMA FailIInv == ASSUME IInv, Fail PROVE IInv'
<1> USE DEF IInv, Fail, shared, thread
<1> DEFINE first == ShutdownOf(Now.component)
<1>1. step \in 1..16 /\ held = Before(step) /\ held' = held /\ step' = step /\ pc' = "release"
  BY StepTyped DEF Holding
<1>2. first \in Seq(Released) /\ ShutdownAll \in Seq(Released) /\ todo' = first \o ShutdownAll
  BY ShutdownOfTyped, ShutdownAllIs
<1> HIDE DEF first
<1>3. code' \in Codes(InitSteps[step])
  BY DEF Codes, Now, TypeOK
<1>4. TypeOK'
  <2>1. todo' \in Seq(Handles \cup {"class"})
    BY <1>2 DEF Released
  <2>2. code' \in Nat
    BY <1>1, <1>3, CodesApart
  <2> QED BY <1>1, <2>1, <2>2 DEF TypeOK
<1>5. Holding'
  BY <1>1 DEF Holding, Running
<1>6. Releasing'
  <2>1. "Scene" \notin held
    BY <1>1, HandleAt
  <2>2. held \subseteq Handles
    BY DEF TypeOK
  <2>3. Occurring(ShutdownAll) \subseteq Occurring(todo')
    BY <1>2, MembersRight
  <2>4. held' \subseteq Occurring(todo') /\ "class" \in Occurring(todo')
    BY <1>1, <2>1, <2>2, <2>3, ShutdownAllCovers
  <2>5. ASSUME NEW m \in Order, m[1] \in held PROVE Precedes(m[1], m[2], todo')
    <3>1. Now.component # "Window" \/ m[1] # "hDC"
      <4>1. m[1] = "hDC" => step > 8
        BY <1>1, <2>5, HandleAt
      <4>2. step > 8 => Now.component # "Window"
        BY <1>1, Components, SMTT(30) DEF Now
      <4> QED BY <4>1, <4>2
    <3> QED BY <3>1, <1>2, ShutdownOfOrdered DEF first
  <2> QED BY <1>1, <2>1, <2>4, <2>5 DEF Releasing
<1>7. Threads'
  BY <1>1 DEF Threads, Running
<1>8. Outcome'
  BY <1>1, <1>3 DEF Outcome, Running
<1>9. Opening'
  BY <1>1, <1>3, CodesApart DEF Opening, Obtained
<1> QED BY <1>4, <1>5, <1>6, <1>7, <1>8, <1>9

LEMMA FrameIInv == ASSUME IInv, Show \/ CopyKeys \/ CopyClose \/ RunFor PROVE IInv'
<1> USE DEF IInv, Show, CopyKeys, CopyClose, RunFor, shared, thread
<1>1. pc \in Running /\ pc' \in Running /\ UNCHANGED <<step, held, open, todo, code>>
  BY DEF Running
<1>2. input' \in Inputs
  BY DEF TypeOK, Inputs
<1>3. TypeOK'
  BY <1>1, <1>2 DEF TypeOK, Running
<1>4. Holding' /\ Releasing'
  BY <1>1 DEF Holding, Releasing, Running
<1>5. Threads'
  BY <1>1 DEF Threads, Running
<1>6. Outcome'
  <2>1. CopyKeys => input'.close = input.close
    BY DEF TypeOK, Inputs
  <2> QED BY <1>1, <2>1 DEF Outcome, Running
<1>7. Opening'
  BY <1>1 DEF Opening, Obtained, Running
<1> QED BY <1>3, <1>4, <1>5, <1>6, <1>7

LEMMA LeaveIInv == ASSUME IInv, Leave PROVE IInv'
<1> USE DEF IInv, Leave, shared, thread
<1>1. held = Handles /\ held' = Handles \ {"Scene"} /\ todo' = ShutdownAll /\ pc' = "release"
  BY DEF Holding, Running
<1>2. TypeOK'
  BY <1>1, ShutdownAllIs DEF TypeOK, Released
<1>3. Holding'
  BY <1>1 DEF Holding, Running, MadeFrom
<1>4. Releasing'
  BY <1>1, ShutdownAllCovers, ShutdownAllOrdered DEF Releasing
<1>5. Threads'
  BY <1>1 DEF Threads, Running
<1>6. Outcome'
  BY DEF Outcome, Running
<1>7. Opening'
  BY <1>1 DEF Opening, Obtained, Left
<1> QED BY <1>2, <1>3, <1>4, <1>5, <1>6, <1>7

LEMMA ReleaseIInv == ASSUME IInv, Release PROVE IInv'
<1> USE DEF IInv, Release, GiveUp, shared
<1> DEFINE T == Handles \cup {"class"}
<1>1. todo \in Seq(T) /\ todo # <<>> /\ todo' = Tail(todo) /\ held' = held \ {Head(todo)}
  BY DEF TypeOK
<1>2. Head(todo) \in T /\ todo' \in Seq(T)
  BY <1>1
<1>3. TypeOK'
  BY <1>2 DEF TypeOK
<1>4. ASSUME NEW m \in Order, m[1] \in held' PROVE Precedes(m[1], m[2], todo') /\ Head(todo) # m[2]
  <2>1. Precedes(m[1], m[2], todo) /\ Head(todo) # m[1]
    BY <1>4 DEF Releasing
  <2> HIDE DEF T
  <2> QED BY <1>1, <2>1, PrecedesHead, PrecedesTail
<1>5. Holding'
  <2>1. ASSUME NEW m \in MadeFrom, m[1] \in held' PROVE m[2] \in held'
    <3>1. m[1] \in held /\ m[2] \in held
      BY <2>1 DEF Holding
    <3>2. m[1] # "Scene"
      BY <3>1 DEF Releasing
    <3>3. m \in Order
      BY <3>2 DEF MadeFrom, Order
    <3> QED BY <1>4, <2>1, <3>1, <3>3
  <2> QED BY <2>1 DEF Holding, Running
<1>6. Occurring(todo) \subseteq {Head(todo)} \cup Occurring(todo')
  <2> HIDE DEF T
  <2> QED BY <1>1, MembersTail
<1>7. "class" \notin held
  BY NeverGot, HandlesAre DEF TypeOK
<1>8. Releasing'
  <2>1. held' \subseteq Occurring(todo') /\ "Scene" \notin held'
    BY <1>6 DEF Releasing
  <2>2. ASSUME class' \/ "Thread" \in held' PROVE "class" \in Occurring(todo')
    <3>1. class \/ "Thread" \in held
      BY <2>2
    <3>2. "class" \in Occurring(todo)
      BY <3>1 DEF Releasing
    <3>3. "Thread" \in held' => Head(todo) # "class"
      <4>1. <<"Thread", "class">> \in Order
        BY DEF Order
      <4> QED BY <1>4, <4>1
    <3>4. "Thread" \notin held' /\ Head(todo) = "class" => ~class'
      BY DEF Threads
    <3> QED BY <1>6, <2>2, <3>2, <3>3, <3>4
  <2> QED BY <1>4, <2>1, <2>2 DEF Releasing
<1>9. Threads'
  <2>1. "Thread" \in held' => "Response" \in held'
    <3>1. <<"Thread", "Response">> \in Order
      BY DEF Order
    <3> QED BY <1>4, <3>1 DEF Threads
  <2>2. class' => class
    OBVIOUS
  <2>3. "Thread" \notin held' => wpc \in {"none", "exited"}
    BY DEF Threads
  <2> QED BY <2>1, <2>2, <2>3 DEF Threads, Running
<1>10. Outcome'
  BY DEF Outcome, Running
<1>11. Opening'
  <2>1. "com" \notin held
    BY DEF TypeOK, Handles, NoHandle
  <2>2. \A x \in Left : x \in open' <=> x \in open
    BY <2>1 DEF Left
  <2>3. open' \subseteq held' \cup Left \cup {"mutex"}
    BY DEF Opening, Left
  <2> QED BY <2>2, <2>3 DEF Opening, Obtained
<1> QED BY <1>3, <1>5, <1>8, <1>9, <1>10, <1>11

LEMMA PostQuitIInv == ASSUME IInv, PostQuit PROVE IInv'
<1> USE DEF IInv, PostQuit, main, thread
<1>1. TypeOK'
  BY DEF TypeOK
<1>2. Holding' /\ Releasing' /\ Outcome' /\ Opening'
  BY DEF Opening, Obtained, Holding, Releasing, Outcome, Running
<1>3. "hWnd" \notin held
  <2>1. "hWnd" \in held => Precedes("hWnd", "Thread", todo)
    BY DEF Releasing, Order
  <2> QED BY <2>1, PrecedesHead DEF TypeOK
<1>4. Threads'
  BY <1>3 DEF Threads, Running
<1> QED BY <1>1, <1>2, <1>4

LEMMA ExitIInv == ASSUME IInv, Exit PROVE IInv'
<1> USE DEF IInv, Exit, shared, thread
<1>1. TypeOK'
  BY DEF TypeOK
<1>2. Occurring(todo) = {}
  BY DEF Occurring
<1>3. held = {} /\ ~class
  BY <1>2 DEF Releasing
<1>4. Holding' /\ Releasing'
  BY <1>3 DEF Holding, Releasing, Running
<1>5. Threads'
  BY <1>3 DEF Threads, Running
<1>6. Outcome'
  BY DEF Outcome, Running
<1>7. Opening'
  <2>1. code # ErrorAnotherInstance
    <3>1. code = 0 \/ code \in Codes(InitSteps[step])
      BY DEF Outcome
    <3> QED BY <3>1, StepTyped, CodesApart DEF ErrorAnotherInstance
  <2> QED BY <2>1 DEF Opening, Obtained
<1> QED BY <1>1, <1>4, <1>5, <1>6, <1>7

-----------------------------------------------------------------------------
(* The message thread. *)

\* What it does touches nothing the main thread keeps to itself.
LEMMA MainKept == ASSUME IInv, UNCHANGED main, class' = class PROVE Holding' /\ Releasing' /\ Outcome' /\ Opening'
BY DEF IInv, main, Opening, Obtained, Holding, Releasing, Outcome, Running

LEMMA RegisterIInv == ASSUME IInv, Register PROVE IInv'
<1> USE DEF IInv, Register, main, shared
<1>1. TypeOK'
  BY DEF TypeOK
<1>2. "Thread" \in held
  BY DEF Threads
<1>3. Holding' /\ Outcome' /\ Opening'
  BY DEF Opening, Obtained, Holding, Outcome, Running
<1>4. Releasing'
  BY <1>2 DEF Releasing
<1>5. Threads'
  BY <1>2 DEF Threads, Running, Holding
<1> QED BY <1>1, <1>3, <1>4, <1>5

LEMMA CreateIInv == ASSUME IInv, Create \/ CannotCreate PROVE IInv'
<1> USE DEF IInv, Create, CannotCreate, main, shared
<1>1. TypeOK'
  BY DEF TypeOK
<1>2. Holding' /\ Releasing' /\ Outcome' /\ Opening'
  BY MainKept
<1>3. wpc \in {"register", "create"} /\ "Thread" \in held /\ "hWnd" \notin held
  BY DEF Threads
<1>4. pc \notin Running /\ pc \notin {"start", "exit"} /\ (pc = "init" => step = 3)
  <2>1. "hWnd" \in Handles
    BY HandlesAre, HandleAt
  <2>2. step \in 1..16
    BY StepTyped
  <2> QED BY <1>3, <2>1, <2>2 DEF Threads, Holding
<1>5. CASE Create
  BY <1>1, <1>2, <1>3, <1>4, <1>5 DEF Threads, Running
<1>6. CASE CannotCreate
  <2>1. Result' # 0 /\ wpc' = "failed" /\ queue'
    BY <1>6 DEF ErrorRegisterClass, ErrorCreate
  <2> QED BY <1>1, <1>2, <1>3, <1>4, <1>6, <2>1 DEF Threads, Running
<1> QED BY <1>5, <1>6

LEMMA SignalIInv == ASSUME IInv, Signal PROVE IInv'
<1> USE DEF IInv, Signal, main
<1>1. TypeOK'
  BY DEF TypeOK
<1>2. Holding' /\ Releasing' /\ Outcome' /\ Opening'
  BY MainKept
<1>3. Threads'
  BY DEF Threads, Running
<1> QED BY <1>1, <1>2, <1>3

LEMMA QuitIInv == ASSUME IInv, Quit \/ End PROVE IInv'
<1> USE DEF IInv, Quit, End, main, shared
<1>1. TypeOK'
  BY DEF TypeOK
<1>2. Holding' /\ Releasing' /\ Outcome' /\ Opening'
  BY MainKept
<1>3. Threads'
  BY DEF Threads, Running
<1> QED BY <1>1, <1>2, <1>3

LEMMA InputIInv == ASSUME IInv, Input PROVE IInv'
<1> USE DEF IInv, main, shared
<1>1. input_v' \in Inputs /\ UNCHANGED <<main, shared, wpc, class, window, queue>>
  <2>1. input_v \in Inputs
    BY DEF TypeOK
  <2>2. PICK newInput \in Inputs : WndProc(newInput)
    BY <2>1 DEF Input, Close, KeyDown, KeyUp, Inputs
  <2> QED BY <2>2 DEF WndProc
<1>2. TypeOK'
  BY <1>1 DEF TypeOK
<1>3. Holding' /\ Releasing' /\ Outcome' /\ Opening'
  BY <1>1, MainKept
<1>4. Threads'
  BY <1>1 DEF Threads, Running
<1> QED BY <1>2, <1>3, <1>4

-----------------------------------------------------------------------------
LEMMA NextIInv == IInv /\ [Next]_vars => IInv'
<1> SUFFICES ASSUME IInv, [Next]_vars PROVE IInv'
  OBVIOUS
<1>1. CASE Main
  BY <1>1, StartIInv, ObtainIInv, FailIInv, FrameIInv, LeaveIInv, ReleaseIInv, PostQuitIInv, ExitIInv DEF Main
<1>2. CASE Input
  BY <1>2, InputIInv
<1>3. CASE Procedure
  BY <1>3, RegisterIInv, CreateIInv, SignalIInv, QuitIInv DEF Procedure
<1>4. CASE UNCHANGED vars
  <2> USE <1>4 DEF vars, main, shared, thread, IInv
  <2>1. TypeOK'
    BY DEF TypeOK
  <2>2. Holding' /\ Releasing' /\ Outcome' /\ Opening'
    BY MainKept
  <2> QED BY <2>1, <2>2 DEF Threads, Running
<1> QED BY <1>1, <1>2, <1>3, <1>4 DEF Next

LEMMA Invariance == Spec => []IInv
<1>1. IInv /\ [Next]_vars => IInv'
  BY NextIInv
<1> QED BY <1>1, InitIInv, PTL DEF Spec

-----------------------------------------------------------------------------
(* The theorems. *)

\* Every variable keeps its type.
THEOREM TypeCorrect == Spec => []TypeOK
<1>1. IInv => TypeOK
  BY DEF IInv
<1> QED BY <1>1, Invariance, PTL

\* The event is open as long as the message thread has to set it, and Result
\* has its last value when the main thread looks at it.
THEOREM HandshakeKept == Spec => []Handshake
<1>1. IInv => Handshake
  <2> SUFFICES ASSUME IInv PROVE Handshake
    OBVIOUS
  <2>1. wpc \in {"register", "create", "failed", "signal"} => "Response" \in held
    BY DEF IInv, Threads
  <2>2. ASSUME pc = "init", Now.gets = "result" PROVE step = 4
    BY <2>2, StepTyped, Gets DEF IInv, Now
  <2>3. pc = "init" /\ step = 4 => wpc \in {"pump", "ending", "exited"}
    BY DEF IInv, Threads
  <2> QED BY <2>1, <2>2, <2>3 DEF Handshake, IInv, Threads
<1> QED BY <1>1, Invariance, PTL

\* Nothing outlives what it was made from, on any path through Shutdown.
THEOREM ReleasedInOrder == Spec => []ReleaseOrder
<1>1. IInv => ReleaseOrder
  <2> SUFFICES ASSUME IInv PROVE ReleaseOrder
    OBVIOUS
  <2>1. "hRC" \in held => "hDC" \in held
    BY DEF IInv, Holding, MadeFrom
  <2>2. "hDC" \in held => "hWnd" \in held
    BY DEF IInv, Holding, MadeFrom
  <2>3. "hWnd" \in held => window
    BY DEF IInv, Threads
  <2> QED BY <2>1, <2>2, <2>3 DEF ReleaseOrder, IInv, Holding
<1> QED BY <1>1, Invariance, PTL

\* When WinMain has returned, all that is left open of what it made are the mutex,
\* the handle of the thread and COM.
THEOREM CleanAtExit == Spec => []CleanExit
<1>1. IInv => CleanExit
  <2> SUFFICES ASSUME IInv, pc = "exit" PROVE CleanExit
    BY DEF CleanExit
  <2>1. held = {} /\ ~class /\ wpc \in {"none", "exited"} /\ ~window
    BY DEF IInv, Holding, Threads
  <2>2. CASE code = ErrorAnotherInstance
    BY <2>1, <2>2 DEF CleanExit, IInv, Opening
  <2>3. CASE code # ErrorAnotherInstance
    <3>1. open \subseteq Left \cup {"mutex"} /\ \A x \in Left : x \in open <=> x \in Obtained
      BY <2>1, <2>3 DEF IInv, Opening
    <3>2. open \ {"mutex"} = Left \intersect Obtained
      BY <3>1 DEF Left
    <3> QED BY <2>1, <2>3, <3>2 DEF CleanExit, Left
  <2> QED BY <2>2, <2>3
<1> QED BY <1>1, Invariance, PTL

\* The exit code tells the one step that failed, or that the user has closed
\* the window.
THEOREM ExitCodeTells == Spec => []ExitTells
<1>1. IInv => ExitTells
  <2> SUFFICES ASSUME IInv, pc = "exit", code # ErrorAnotherInstance
               PROVE  /\ code = 0 <=> input.close
                      /\ code # 0 => {k \in DOMAIN InitSteps : code \in Codes(InitSteps[k])} = {step}
    BY DEF ExitTells
  <2>1. step \in 1..16 /\ DOMAIN InitSteps = 1..16
    BY StepTyped, InitStepsAre DEF IInv
  <2>2. \/ code = 0 /\ input.close
        \/ code \in Codes(InitSteps[step]) /\ ~input.close
    BY DEF IInv, Outcome
  <2>3. code \in Codes(InitSteps[step]) => code # 0
    BY <2>1, CodesApart
  <2>4. code \in Codes(InitSteps[step]) => \A k \in 1..16 : code \in Codes(InitSteps[k]) => k = step
    BY <2>1, CodesApart
  <2> QED BY <2>1, <2>2, <2>3, <2>4
<1> QED BY <1>1, Invariance, PTL

-----------------------------------------------------------------------------
(* The login screen. *)

Constructing == {"image", "texture", "string", "upload", "sound", "load", "play"}

\* Where each stage is, and what the constructor has made when it is there.
Stage ==
    /\ stage \in {"new", "frame", "destroy", "stop", "free", "gone", "shutdown", "exit", "crashed"}
                 \cup Constructing
    /\ image \subseteq Images /\ sound \subseteq Sounds
    /\ stage \in {"new"} \cup Constructing \cup {"frame"} => ~SceneFailed
    /\ stage \in {"new", "image", "texture", "string", "upload", "sound", "load"} => sound = {}
    /\ stage = "new" => i = 0 /\ image = {}
    /\ stage \in {"image", "texture"} => i \in ScreenFiles /\ image = {}
    /\ stage = "string" => i \in Images /\ image = {n \in Images : n < i}
    /\ stage = "upload" => i \in Images /\ image = {n \in Images : n <= i}
    /\ stage \in {"sound", "load", "play", "frame"} => image = Images
    /\ stage \in {"sound", "load", "play", "stop", "free"} => i \in Sounds
    /\ stage = "free" => i \in sound

Sampled == {<<"playable", s>> : s \in sound} \cup {<<"samples", s>> : s \in sound}

\* What is allocated in the stages that Owned does not speak of.
Freeing ==
    /\ stage = "new" => heap = {}
    /\ stage = "play" /\ i \in sound => heap = {<<"scene", 0>>, <<"textures", 0>>} \cup Members
    /\ stage \in {"stop", "free"} => heap \ Undecoded = {<<"scene", 0>>} \cup Sampled
    /\ stage = "gone" => heap \ Undecoded = {<<"scene", 0>>}

\* Only a sound whose Playing is set has a voice that runs, and only from the
\* time it was started to the time it is deleted.  One that was told to stop is
\* at the end of the scene's life.
Heard ==
    /\ voices \in [Sounds -> {"none", "ready", "started", "stopping", "refused"}]
    /\ \A s \in Sounds : voices[s] = "started" =>
          s \in Playing /\ s \in sound /\ stage \in {"frame", "destroy", "stop"}
    /\ \A s \in Sounds : voices[s] \in {"stopping", "refused"} =>
          s \in sound /\ stage \in {"free", "stop", "gone", "shutdown"}

SceneIInv == Owned /\ Stage /\ Freeing /\ Heard

-----------------------------------------------------------------------------
LEMMA SceneInitIInv == SceneInit => SceneIInv
<1> SUFFICES ASSUME SceneInit PROVE SceneIInv
  OBVIOUS
<1>1. Heard
  BY DEF SceneInit, Heard
<1> QED BY <1>1 DEF SceneInit, SceneIInv, Owned, Stage, Freeing, Constructing

LEMMA NewIInv == ASSUME SceneIInv, New PROVE SceneIInv'
<1> USE DEF SceneIInv, New, audio
<1>1. stage' = "image" /\ i' = i /\ image' = image /\ sound' = sound /\ SceneFailed' = SceneFailed
  OBVIOUS
<1>0. stage = "new" => i = 0 /\ image = {} /\ sound = {}
  BY DEF Stage
<1>2. Stage'
  BY <1>0, <1>1 DEF Stage, ScreenFiles, Constructing
<1>3. Heard'
  BY <1>1 DEF Heard
<1>4. heap' = {<<"scene", 0>>, <<"textures", 0>>} /\ Members' = {} /\ InHand' = {}
  BY <1>0, <1>1 DEF Members, InHand
<1>5. Owned' /\ Freeing'
  BY <1>1, <1>4 DEF Owned, Undecoded, Freeing, Stage, Constructing
<1> QED BY <1>2, <1>3, <1>5

LEMMA NewFailsIInv == ASSUME SceneIInv, NewFails PROVE SceneIInv'
<1> USE DEF SceneIInv, NewFails, memory, audio, shown
<1>1. Stage'
  BY DEF Stage, Images, Sounds, SND_COUNT, IMG_COUNT, ScreenFiles, Constructing
<1>2. Heard'
  BY DEF Heard, Sounds, SND_COUNT, Stage, Constructing
<1>3. Freeing'
  BY DEF Freeing, Owned, Members, InHand, Undecoded, Sampled, Stage, Constructing, Sounds, SND_COUNT
<1>4. Owned'
  BY DEF Owned, Members, InHand, Undecoded, Images, Sounds, SND_COUNT, IMG_COUNT, ScreenFiles, Stage, Freeing, Constructing, Sampled
<1> QED BY <1>1, <1>2, <1>3, <1>4

LEMMA ReadImageIInv == ASSUME SceneIInv, ReadImage PROVE SceneIInv'
<1> USE DEF SceneIInv, ReadImage, memory, audio, shown
<1>1. Stage'
  BY DEF Stage, Images, Sounds, SND_COUNT, IMG_COUNT, ScreenFiles, Constructing
<1>2. Heard'
  BY DEF Heard, Sounds, SND_COUNT, Stage, Constructing
<1>3. Freeing'
  BY DEF Freeing, Owned, Members, InHand, Undecoded, Sampled, Stage, Constructing, Sounds, SND_COUNT
<1>4. Owned'
  BY DEF Owned, Members, InHand, Undecoded, Images, Sounds, SND_COUNT, IMG_COUNT, ScreenFiles, Stage, Freeing, Constructing, Sampled
<1> QED BY <1>1, <1>2, <1>3, <1>4

LEMMA ReadFailsIInv == ASSUME SceneIInv, ReadFails PROVE SceneIInv'
<1> USE DEF SceneIInv, ReadFails, ExitScene, memory, audio, shown
<1>1. Stage'
  BY DEF Stage, Images, Sounds, SND_COUNT, IMG_COUNT, ScreenFiles, Constructing
<1>2. Heard'
  BY DEF Heard, Sounds, SND_COUNT, Stage, Constructing
<1>3. Freeing'
  BY DEF Freeing, Owned, Members, InHand, Undecoded, Sampled, Stage, Constructing, Sounds, SND_COUNT
<1>4. Owned'
  BY DEF Owned, Members, InHand, Undecoded, Images, Sounds, SND_COUNT, IMG_COUNT, ScreenFiles, Stage, Freeing, Constructing, Sampled
<1> QED BY <1>1, <1>2, <1>3, <1>4

LEMMA ReadExitsIInv == ASSUME SceneIInv, ReadExits PROVE SceneIInv'
<1> USE DEF SceneIInv, ReadExits, memory, audio, shown
<1>1. Stage'
  BY DEF Stage, Images, Sounds, SND_COUNT, IMG_COUNT, ScreenFiles, Constructing
<1>2. Heard'
  BY DEF Heard, Sounds, SND_COUNT, Stage, Constructing
<1>3. Freeing'
  BY DEF Freeing, Owned, Members, InHand, Undecoded, Sampled, Stage, Constructing, Sounds, SND_COUNT
<1>4. Owned'
  BY DEF Owned, Members, InHand, Undecoded, Images, Sounds, SND_COUNT, IMG_COUNT, ScreenFiles, Stage, Freeing, Constructing, Sampled
<1> QED BY <1>1, <1>2, <1>3, <1>4

LEMMA TexImageIInv == ASSUME SceneIInv, TexImage PROVE SceneIInv'
<1> USE DEF SceneIInv, TexImage, Turn, memory, audio, shown
<1>1. Stage'
  <2>1. CASE i + 1 < 3
    BY <2>1 DEF Stage, Images, IMG_COUNT, ScreenFiles, Constructing
  <2>2. CASE ~(i + 1 < 3)
    <3>1. stage' = "string" /\ i' = 0 /\ image' = {} /\ sound' = sound /\ SceneFailed' = SceneFailed
      BY <2>2 DEF Stage
    <3>2. {} = {n \in Images : n < 0} /\ 0 \in Images
      BY DEF Images, IMG_COUNT
    <3> QED BY <3>1, <3>2 DEF Stage, Constructing
  <2> QED BY <2>1, <2>2
<1>2. Heard'
  BY DEF Heard, Sounds, SND_COUNT, Stage, Constructing
<1>3. Freeing'
  BY DEF Freeing, Owned, Members, InHand, Undecoded, Sampled, Stage, Constructing, Sounds, SND_COUNT
<1>4. Owned'
  BY DEF Owned, Members, InHand, Undecoded, Images, Sounds, SND_COUNT, IMG_COUNT, ScreenFiles, Stage, Freeing, Constructing, Sampled
<1> QED BY <1>1, <1>2, <1>3, <1>4

LEMMA StringImageIInv == ASSUME SceneIInv, StringImage PROVE SceneIInv'
<1> USE DEF SceneIInv, StringImage, memory, audio, shown
<1>1. Stage'
  BY DEF Stage, Images, Sounds, SND_COUNT, IMG_COUNT, ScreenFiles, Constructing
<1>2. Heard'
  BY DEF Heard, Sounds, SND_COUNT, Stage, Constructing
<1>3. Freeing'
  BY DEF Freeing, Owned, Members, InHand, Undecoded, Sampled, Stage, Constructing, Sounds, SND_COUNT
<1>4. Owned'
  BY DEF Owned, Members, InHand, Undecoded, Images, Sounds, SND_COUNT, IMG_COUNT, ScreenFiles, Stage, Freeing, Constructing, Sampled
<1> QED BY <1>1, <1>2, <1>3, <1>4

LEMMA StringImageFailsIInv == ASSUME SceneIInv, StringImageFails PROVE SceneIInv'
<1> USE DEF SceneIInv, StringImageFails, ExitScene, memory, audio, shown
<1>1. Stage'
  BY DEF Stage, Images, Sounds, SND_COUNT, IMG_COUNT, ScreenFiles, Constructing
<1>2. Heard'
  BY DEF Heard, Sounds, SND_COUNT, Stage, Constructing
<1>3. Freeing'
  BY DEF Freeing, Owned, Members, InHand, Undecoded, Sampled, Stage, Constructing, Sounds, SND_COUNT
<1>4. Owned'
  BY DEF Owned, Members, InHand, Undecoded, Images, Sounds, SND_COUNT, IMG_COUNT, ScreenFiles, Stage, Freeing, Constructing, Sampled
<1> QED BY <1>1, <1>2, <1>3, <1>4

LEMMA GlyphFailsIInv == ASSUME SceneIInv, GlyphFails PROVE SceneIInv'
<1> USE DEF SceneIInv, GlyphFails, memory, audio, shown
<1>1. Stage'
  BY DEF Stage, Images, Sounds, SND_COUNT, IMG_COUNT, ScreenFiles, Constructing
<1>2. Heard'
  BY DEF Heard, Sounds, SND_COUNT, Stage, Constructing
<1>3. Freeing'
  BY DEF Freeing, Owned, Members, InHand, Undecoded, Sampled, Stage, Constructing, Sounds, SND_COUNT
<1>4. Owned'
  BY DEF Owned, Members, InHand, Undecoded, Images, Sounds, SND_COUNT, IMG_COUNT, ScreenFiles, Stage, Freeing, Constructing, Sampled
<1> QED BY <1>1, <1>2, <1>3, <1>4

LEMMA UploadStringIInv == ASSUME SceneIInv, UploadString PROVE SceneIInv'
<1> USE DEF SceneIInv, UploadString, Turn, memory, audio, shown
<1>1. Stage'
  BY DEF Stage, Images, Sounds, SND_COUNT, IMG_COUNT, ScreenFiles, Constructing
<1>2. Heard'
  BY DEF Heard, Sounds, SND_COUNT, Stage, Constructing
<1>3. Freeing'
  BY DEF Freeing, Owned, Members, InHand, Undecoded, Sampled, Stage, Constructing, Sounds, SND_COUNT
<1>4. Owned'
  BY DEF Owned, Members, InHand, Undecoded, Images, Sounds, SND_COUNT, IMG_COUNT, ScreenFiles, Stage, Freeing, Constructing, Sampled
<1> QED BY <1>1, <1>2, <1>3, <1>4

LEMMA ReadSoundIInv == ASSUME SceneIInv, ReadSound PROVE SceneIInv'
<1> USE DEF SceneIInv, ReadSound, memory, audio, shown
<1>1. Stage'
  BY DEF Stage, Images, Sounds, SND_COUNT, IMG_COUNT, ScreenFiles, Constructing
<1>2. Heard'
  BY DEF Heard, Sounds, SND_COUNT, Stage, Constructing
<1>3. Freeing'
  BY DEF Freeing, Owned, Members, InHand, Undecoded, Sampled, Stage, Constructing, Sounds, SND_COUNT
<1>4. Owned'
  BY DEF Owned, Members, InHand, Undecoded, Images, Sounds, SND_COUNT, IMG_COUNT, ScreenFiles, Stage, Freeing, Constructing, Sampled
<1> QED BY <1>1, <1>2, <1>3, <1>4

LEMMA LoadSoundIInv == ASSUME SceneIInv, LoadSound PROVE SceneIInv'
<1> USE DEF SceneIInv, LoadSound, memory, audio, shown
<1>1. Stage'
  BY DEF Stage, Images, Sounds, SND_COUNT, IMG_COUNT, ScreenFiles, Constructing
<1>2. Heard'
  BY DEF Heard, Sounds, SND_COUNT, Stage, Constructing
<1>3. Freeing'
  BY DEF Freeing, Owned, Members, InHand, Undecoded, Sampled, Stage, Constructing, Sounds, SND_COUNT
<1>4. Owned'
  BY DEF Owned, Members, InHand, Undecoded, Images, Sounds, SND_COUNT, IMG_COUNT, ScreenFiles, Stage, Freeing, Constructing, Sampled
<1> QED BY <1>1, <1>2, <1>3, <1>4

LEMMA LoadSoundFailsIInv == ASSUME SceneIInv, LoadSoundFails PROVE SceneIInv'
<1> USE DEF SceneIInv, LoadSoundFails, memory, audio, shown
<1>1. Stage'
  BY DEF Stage, Images, Sounds, SND_COUNT, IMG_COUNT, ScreenFiles, Constructing
<1>2. Heard'
  BY DEF Heard, Sounds, SND_COUNT, Stage, Constructing
<1>3. Freeing'
  BY DEF Freeing, Owned, Members, InHand, Undecoded, Sampled, Stage, Constructing, Sounds, SND_COUNT
<1>4. Owned'
  BY DEF Owned, Members, InHand, Undecoded, Images, Sounds, SND_COUNT, IMG_COUNT, ScreenFiles, Stage, Freeing, Constructing, Sampled
<1> QED BY <1>1, <1>2, <1>3, <1>4

LEMMA PlaySoundIInv == ASSUME SceneIInv, PlaySound PROVE SceneIInv'
<1> USE DEF SceneIInv, PlaySound, Turn, memory, audio, shown
<1>1. Stage'
  BY DEF Stage, Images, Sounds, SND_COUNT, IMG_COUNT, ScreenFiles, Constructing
<1>2. Heard'
  BY DEF Heard, Sounds, SND_COUNT, Stage, Constructing
<1>3. Freeing'
  BY DEF Freeing, Owned, Members, InHand, Undecoded, Sampled, Stage, Constructing, Sounds, SND_COUNT
<1>4. Owned'
  BY DEF Owned, Members, InHand, Undecoded, Images, Sounds, SND_COUNT, IMG_COUNT, ScreenFiles, Stage, Freeing, Constructing, Sampled
<1> QED BY <1>1, <1>2, <1>3, <1>4

LEMMA StartFailsIInv == ASSUME SceneIInv, StartFails PROVE SceneIInv'
<1> USE DEF SceneIInv, StartFails, Turn, memory, audio, shown
<1>1. Stage'
  BY DEF Stage, Images, Sounds, SND_COUNT, IMG_COUNT, ScreenFiles, Constructing
<1>2. Heard'
  BY DEF Heard, Sounds, SND_COUNT, Stage, Constructing
<1>3. Freeing'
  BY DEF Freeing, Owned, Members, InHand, Undecoded, Sampled, Stage, Constructing, Sounds, SND_COUNT
<1>4. Owned'
  BY DEF Owned, Members, InHand, Undecoded, Images, Sounds, SND_COUNT, IMG_COUNT, ScreenFiles, Stage, Freeing, Constructing, Sampled
<1> QED BY <1>1, <1>2, <1>3, <1>4

LEMMA PlayNullIInv == ASSUME SceneIInv, PlayNull PROVE SceneIInv'
<1> USE DEF SceneIInv, PlayNull, memory, audio, shown
<1>1. Stage'
  BY DEF Stage, Images, Sounds, SND_COUNT, IMG_COUNT, ScreenFiles, Constructing
<1>2. Heard'
  BY DEF Heard, Sounds, SND_COUNT, Stage, Constructing
<1>3. Freeing'
  BY DEF Freeing, Owned, Members, InHand, Undecoded, Sampled, Stage, Constructing, Sounds, SND_COUNT
<1>4. Owned'
  BY DEF Owned, Members, InHand, Undecoded, Images, Sounds, SND_COUNT, IMG_COUNT, ScreenFiles, Stage, Freeing, Constructing, Sampled
<1> QED BY <1>1, <1>2, <1>3, <1>4

LEMMA SceneFrameIInv == ASSUME SceneIInv, NEW TimeDelta \in TimeDeltas, Frame(TimeDelta) PROVE SceneIInv'
<1> USE DEF SceneIInv, Frame, Run, memory, audio, shown
<1>1. Stage'
  BY DEF Stage, Images, Sounds, SND_COUNT, IMG_COUNT, ScreenFiles, Constructing
<1>2. Heard'
  BY DEF Heard, Sounds, SND_COUNT, Stage, Constructing
<1>3. Freeing'
  BY DEF Freeing, Owned, Members, InHand, Undecoded, Sampled, Stage, Constructing, Sounds, SND_COUNT
<1>4. Owned'
  BY DEF Owned, Members, InHand, Undecoded, Images, Sounds, SND_COUNT, IMG_COUNT, ScreenFiles, Stage, Freeing, Constructing, Sampled
<1> QED BY <1>1, <1>2, <1>3, <1>4

LEMMA FreeImagesIInv == ASSUME SceneIInv, FreeImages PROVE SceneIInv'
<1> USE DEF SceneIInv, FreeImages, memory, audio, shown
<1>1. Stage'
  BY DEF Stage, Images, Sounds, SND_COUNT, IMG_COUNT, ScreenFiles, Constructing
<1>2. Heard'
  BY DEF Heard, Sounds, SND_COUNT, Stage, Constructing
<1>3. Freeing'
  BY DEF Freeing, Owned, Members, InHand, Undecoded, Sampled, Stage, Constructing, Sounds, SND_COUNT
<1>4. Owned'
  BY DEF Owned, Members, InHand, Undecoded, Images, Sounds, SND_COUNT, IMG_COUNT, ScreenFiles, Stage, Freeing, Constructing, Sampled
<1> QED BY <1>1, <1>2, <1>3, <1>4

LEMMA DeleteSoundIInv == ASSUME SceneIInv, DeleteSound PROVE SceneIInv'
<1> USE DEF SceneIInv, DeleteSound, memory, audio, shown
<1>1. Stage'
  BY DEF Stage, Images, Sounds, SND_COUNT, IMG_COUNT, ScreenFiles, Constructing
<1>2. Heard'
  BY DEF Heard, Sounds, SND_COUNT, Stage, Constructing
<1>3. Freeing'
  BY DEF Freeing, Owned, Members, InHand, Undecoded, Sampled, Stage, Constructing, Sounds, SND_COUNT
<1>4. Owned'
  BY DEF Owned, Members, InHand, Undecoded, Images, Sounds, SND_COUNT, IMG_COUNT, ScreenFiles, Stage, Freeing, Constructing, Sampled
<1> QED BY <1>1, <1>2, <1>3, <1>4

LEMMA FreeSoundIInv == ASSUME SceneIInv, FreeSound PROVE SceneIInv'
<1> USE DEF SceneIInv, FreeSound, Turn, memory, audio, shown
<1>1. Stage'
  BY DEF Stage, Images, Sounds, SND_COUNT, IMG_COUNT, ScreenFiles, Constructing
<1>2. Heard'
  BY DEF Heard, Sounds, SND_COUNT, Stage, Constructing
<1>3. Freeing'
  BY DEF Freeing, Owned, Members, InHand, Undecoded, Sampled, Stage, Constructing, Sounds, SND_COUNT
<1>4. Owned'
  BY DEF Owned, Members, InHand, Undecoded, Images, Sounds, SND_COUNT, IMG_COUNT, ScreenFiles, Stage, Freeing, Constructing, Sampled
<1> QED BY <1>1, <1>2, <1>3, <1>4

LEMMA NoSoundIInv == ASSUME SceneIInv, NoSound PROVE SceneIInv'
<1> USE DEF SceneIInv, NoSound, Turn, memory, audio, shown
<1>1. Stage'
  BY DEF Stage, Images, Sounds, SND_COUNT, IMG_COUNT, ScreenFiles, Constructing
<1>2. Heard'
  BY DEF Heard, Sounds, SND_COUNT, Stage, Constructing
<1>3. Freeing'
  BY DEF Freeing, Owned, Members, InHand, Undecoded, Sampled, Stage, Constructing, Sounds, SND_COUNT
<1>4. Owned'
  BY DEF Owned, Members, InHand, Undecoded, Images, Sounds, SND_COUNT, IMG_COUNT, ScreenFiles, Stage, Freeing, Constructing, Sampled
<1> QED BY <1>1, <1>2, <1>3, <1>4

LEMMA FreeSceneIInv == ASSUME SceneIInv, FreeScene PROVE SceneIInv'
<1> USE DEF SceneIInv, FreeScene, memory, audio, shown
<1>1. Stage'
  BY DEF Stage, Images, Sounds, SND_COUNT, IMG_COUNT, ScreenFiles, Constructing
<1>2. Heard'
  BY DEF Heard, Sounds, SND_COUNT, Stage, Constructing
<1>3. Freeing'
  BY DEF Freeing, Owned, Members, InHand, Undecoded, Sampled, Stage, Constructing, Sounds, SND_COUNT
<1>4. Owned'
  BY DEF Owned, Members, InHand, Undecoded, Images, Sounds, SND_COUNT, IMG_COUNT, ScreenFiles, Stage, Freeing, Constructing, Sampled
<1> QED BY <1>1, <1>2, <1>3, <1>4

LEMMA ShutdownIInv == ASSUME SceneIInv, Shutdown PROVE SceneIInv'
<1> USE DEF SceneIInv, Shutdown, memory, audio, shown
<1>1. Stage'
  BY DEF Stage, Images, Sounds, SND_COUNT, IMG_COUNT, ScreenFiles, Constructing
<1>2. Heard'
  BY DEF Heard, Sounds, SND_COUNT, Stage, Constructing
<1>3. Freeing'
  BY DEF Freeing, Owned, Members, InHand, Undecoded, Sampled, Stage, Constructing, Sounds, SND_COUNT
<1>4. Owned'
  BY DEF Owned, Members, InHand, Undecoded, Images, Sounds, SND_COUNT, IMG_COUNT, ScreenFiles, Stage, Freeing, Constructing, Sampled
<1> QED BY <1>1, <1>2, <1>3, <1>4

LEMMA PassIInv == ASSUME SceneIInv, Pass PROVE SceneIInv'
<1> USE DEF SceneIInv, Pass, memory, audio, shown
<1>1. Stage'
  BY DEF Stage, Images, Sounds, SND_COUNT, IMG_COUNT, ScreenFiles, Constructing
<1>2. Heard'
  BY DEF Heard, Sounds, SND_COUNT, Stage, Constructing
<1>3. Freeing'
  BY DEF Freeing, Owned, Members, InHand, Undecoded, Sampled, Stage, Constructing, Sounds, SND_COUNT
<1>4. Owned'
  BY DEF Owned, Members, InHand, Undecoded, Images, Sounds, SND_COUNT, IMG_COUNT, ScreenFiles, Stage, Freeing, Constructing, Sampled
<1> QED BY <1>1, <1>2, <1>3, <1>4

-----------------------------------------------------------------------------
LEMMA SceneNextIInv == SceneIInv /\ [SceneNext]_scenevars => SceneIInv'
<1> SUFFICES ASSUME SceneIInv, [SceneNext]_scenevars PROVE SceneIInv'
  OBVIOUS
<1>1. CASE Construct
  BY <1>1, NewIInv, NewFailsIInv, ReadImageIInv, ReadFailsIInv, ReadExitsIInv, TexImageIInv, StringImageIInv,
     StringImageFailsIInv, GlyphFailsIInv, UploadStringIInv, ReadSoundIInv, LoadSoundIInv,
     LoadSoundFailsIInv, PlaySoundIInv, StartFailsIInv, PlayNullIInv DEF Construct
<1>2. CASE \E TimeDelta \in TimeDeltas : Frame(TimeDelta)
  BY <1>2, SceneFrameIInv
<1>3. CASE Destroy
  BY <1>3, FreeImagesIInv, DeleteSoundIInv, FreeSoundIInv, NoSoundIInv, FreeSceneIInv DEF Destroy
<1>4. CASE Shutdown
  BY <1>4, ShutdownIInv
<1>5. CASE Pass
  BY <1>5, PassIInv
<1>6. CASE UNCHANGED scenevars
  BY <1>6 DEF scenevars, memory, audio, shown, SceneIInv, Owned, Members, InHand, Stage, Freeing, Sampled, Heard
<1> QED BY <1>1, <1>2, <1>3, <1>4, <1>5, <1>6 DEF SceneNext

\* The scene's pointers and the heap agree until ~LoginScreen runs, be it from
\* WinMain or from EXIT_SCENE at any stage of the constructor; after it all that
\* may be left is the structure of the file that could not be decoded.
THEOREM SceneOwned == SceneSpec => []Owned
<1>1. SceneIInv => Owned
  BY DEF SceneIInv
<1> QED BY <1>1, SceneInitIInv, SceneNextIInv, PTL DEF SceneSpec

\* The samples of a running voice are there up to ~LoginScreen, and the time in
\* which the engine may read freed ones ends with Audio::Shutdown.
THEOREM SamplesOutlastVoices == SceneSpec => []SamplesOutlast
<1>1. SceneIInv => SamplesOutlast
  <2> SUFFICES ASSUME SceneIInv, NEW s \in Sounds, voices[s] \in {"started", "stopping", "refused"}
               PROVE  \/ <<"samples", s>> \in heap
                      \/ voices[s] # "started" /\ stage \in {"stop", "gone", "shutdown"}
    BY DEF SamplesOutlast
  <2>1. s \in sound
    BY DEF SceneIInv, Heard
  <2>2. stage \in {"frame", "destroy", "stop", "free"} => <<"samples", s>> \in heap
    BY <2>1 DEF SceneIInv, Owned, Members, Freeing, Sampled
  <2>3. \/ voices[s] = "started" /\ stage \in {"frame", "destroy", "stop"}
        \/ voices[s] # "started" /\ stage \in {"free", "stop", "gone", "shutdown"}
    BY DEF SceneIInv, Heard
  <2> QED BY <2>2, <2>3
<1> QED BY <1>1, SceneInitIInv, SceneNextIInv, PTL DEF SceneSpec
=============================================================================
