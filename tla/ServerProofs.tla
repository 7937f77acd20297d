---------------------------- MODULE ServerProofs ----------------------------
(* Proofs about the daemon, for every number of datagrams and signals. *)
EXTENDS Server, TLAPS

\* What is open when a call of the start-up is made, and what was closed.
OpenAt(c) == {f \in Files : \/ f = "conf" /\ c = 5
                            \/ f = "sockfd" /\ c > 7
                            \/ f = "epollfd" /\ c > 11}

Starting == pc = "start" =>
    /\ files = OpenAt(call) /\ (~daemon => call = 1)
    /\ closes["conf"] = IF call > 5 THEN 1 ELSE 0
    /\ exitval = "success" /\ goto = <<>>

Listening == pc \in {"wait", "receive"} =>
    /\ files = {"sockfd", "epollfd"} /\ closes["conf"] = 1
    /\ exitval = "success" /\ goto = <<>>

\* The labels that are still to be fallen through close what is open.
Closing == pc = "closing" =>
    /\ \/ goto = <<"epollfd", "sockfd", "msg">> /\ files = {"sockfd", "epollfd"}
       \/ goto = <<"sockfd", "msg">> /\ files = {"sockfd"}
       \/ goto = <<"msg">> /\ files = {}
    /\ closes["conf"] \in {0, 1}

\* What is open was never closed, nor was what is not open yet.
NeverClosed == /\ pc = "start" => closes["sockfd"] = 0 /\ closes["epollfd"] = 0
               /\ \A f \in {"sockfd", "epollfd"} : f \in files => closes[f] = 0

Exited == pc = "exit" => files = {}

\* Before term is installed nothing is open and nothing can be sent to the socket.
Unhandled == ~handler /\ pc # "exit" =>
    /\ files = {} /\ queue = 0
    /\ pc \in {"start", "closing"} /\ (pc = "start" => call \in 1..3)

IInv == TypeOK /\ Starting /\ Listening /\ Closing /\ NeverClosed /\ Exited /\ Unhandled

-----------------------------------------------------------------------------
\* What the start-up's table says of its twelve calls.
Opens(c) == {f \in Files : \/ f = "conf" /\ c = 4
                           \/ f = "sockfd" /\ c = 7
                           \/ f = "epollfd" /\ c = 11}
Label(c) == IF c = 3 THEN "none" ELSE IF c < 8 THEN "close_msg"
            ELSE IF c < 12 THEN "close_socket" ELSE "close_epoll"

LEMMA StartUpTable ==
    /\ Len(StartUp) = 12 /\ DOMAIN StartUp = 1..12
    /\ \A c \in 1..12 : /\ StartUp[c].opens = Opens(c) /\ StartUp[c].label = Label(c)
                        /\ StartUp[c].name = "fscanf" <=> c = 5
                        /\ StartUp[c].name = "sigaction" <=> c = 3
<1>1. Len(StartUp) = 12 /\ DOMAIN StartUp = 1..12
  BY DEF StartUp, Call
<1>2. ASSUME NEW c \in 1..12
      PROVE  /\ StartUp[c].opens = Opens(c) /\ StartUp[c].label = Label(c)
             /\ StartUp[c].name = "fscanf" <=> c = 5
             /\ StartUp[c].name = "sigaction" <=> c = 3
  <2>1. CASE c = 1
    BY <2>1 DEF StartUp, Call, Opens, Label, Files
  <2>2. CASE c = 2
    BY <2>2 DEF StartUp, Call, Opens, Label, Files
  <2>3. CASE c = 3
    BY <2>3 DEF StartUp, Call, Opens, Label, Files
  <2>4. CASE c = 4
    BY <2>4 DEF StartUp, Call, Opens, Label, Files
  <2>5. CASE c = 5
    BY <2>5 DEF StartUp, Call, Opens, Label, Files
  <2>6. CASE c = 6
    BY <2>6 DEF StartUp, Call, Opens, Label, Files
  <2>7. CASE c = 7
    BY <2>7 DEF StartUp, Call, Opens, Label, Files
  <2>8. CASE c = 8
    BY <2>8 DEF StartUp, Call, Opens, Label, Files
  <2>9. CASE c = 9
    BY <2>9 DEF StartUp, Call, Opens, Label, Files
  <2>10. CASE c = 10
    BY <2>10 DEF StartUp, Call, Opens, Label, Files
  <2>11. CASE c = 11
    BY <2>11 DEF StartUp, Call, Opens, Label, Files
  <2>12. CASE c = 12
    BY <2>12 DEF StartUp, Call, Opens, Label, Files
  <2> QED BY <2>1, <2>2, <2>3, <2>4, <2>5, <2>6, <2>7, <2>8, <2>9, <2>10, <2>11, <2>12
<1> QED BY <1>1, <1>2

\* One call of the start-up opens what the next one finds open.
LEMMA OpenNext ==
    ASSUME NEW c \in 1..12
    PROVE  LET open == OpenAt(c) \cup Opens(c)
               kept == IF c = 5 THEN open \ {"conf"} ELSE open
           IN  kept = IF c = 12 THEN {"sockfd", "epollfd"} ELSE OpenAt(c + 1)
<1>1. CASE c \in 1..5
  BY <1>1 DEF OpenAt, Opens, Files
<1>2. CASE c \in 6..12
  BY <1>2 DEF OpenAt, Opens, Files
<1> QED BY <1>1, <1>2

LEMMA Cascades == /\ Cascade("close_epoll") = <<"epollfd", "sockfd", "msg">>
                  /\ Cascade("close_socket") = <<"sockfd", "msg">>
                  /\ Cascade("close_msg") = <<"msg">>
  BY DEF Cascade

LabelSeqs == {<<"epollfd", "sockfd", "msg">>, <<"sockfd", "msg">>, <<"msg">>, <<>>}

LEMMA LabelSeqsTyped == LabelSeqs \subseteq Seq({"epollfd", "sockfd", "msg"})
<1>1. <<"epollfd", "sockfd", "msg">> \in Seq({"epollfd", "sockfd", "msg"})
  OBVIOUS
<1>2. <<"sockfd", "msg">> \in Seq({"epollfd", "sockfd", "msg"})
  OBVIOUS
<1>3. <<"msg">> \in Seq({"epollfd", "sockfd", "msg"}) /\ <<>> \in Seq({"epollfd", "sockfd", "msg"})
  OBVIOUS
<1> QED BY <1>1, <1>2, <1>3 DEF LabelSeqs

\* At the label a failing call jumps to, what is open is what the label closes.
LEMMA LabelCloses ==
    ASSUME NEW c \in 1..12, c # 3
    PROVE  LET open == IF c = 5 THEN OpenAt(c) \ {"conf"} ELSE OpenAt(c) IN
           \/ Cascade(Label(c)) = <<"epollfd", "sockfd", "msg">> /\ open = {"sockfd", "epollfd"}
           \/ Cascade(Label(c)) = <<"sockfd", "msg">> /\ open = {"sockfd"}
           \/ Cascade(Label(c)) = <<"msg">> /\ open = {}
<1>1. CASE c < 8
  <2>1. Cascade(Label(c)) = <<"msg">>
    BY <1>1, Cascades DEF Label
  <2> QED BY <1>1, <2>1 DEF OpenAt, Files
<1>2. CASE c \in 8..11
  <2>1. Cascade(Label(c)) = <<"sockfd", "msg">>
    BY <1>2, Cascades DEF Label
  <2> QED BY <1>2, <2>1 DEF OpenAt, Files
<1>3. CASE c = 12
  <2>1. Cascade(Label(c)) = <<"epollfd", "sockfd", "msg">>
    BY <1>3, Cascades DEF Label
  <2> QED BY <1>3, <2>1 DEF OpenAt, Files
<1> QED BY <1>1, <1>2, <1>3

-----------------------------------------------------------------------------
LEMMA InitIInv == Init => IInv
<1> SUFFICES ASSUME Init PROVE IInv
  OBVIOUS
<1>1. closes \in [Files -> 0..1] /\ \A f \in Files : closes[f] = 0
  BY DEF Init
<1>2. TypeOK
  <2>1. goto \in Seq({"epollfd", "sockfd", "msg"})
    BY LabelSeqsTyped DEF LabelSeqs, Init
  <2>2. call \in DOMAIN StartUp
    BY StartUpTable DEF Init
  <2>3. queue \in 0..MaxQueue /\ datagrams \in 0..MaxDatagrams /\ signals \in 0..MaxSignals
    BY ServerAssumption DEF Init
  <2> QED BY <1>1, <2>1, <2>2, <2>3 DEF Init, TypeOK
<1>3. Starting /\ NeverClosed
  BY <1>1 DEF Init, Starting, NeverClosed, OpenAt, Files
<1> QED BY <1>2, <1>3 DEF Init, IInv, Listening, Closing, Exited, Unhandled

LEMMA ForkIInv == ASSUME IInv, Fork \/ CannotFork PROVE IInv'
<1> USE DEF IInv, Fork, CannotFork, environment
<1>1. TypeOK'
  BY DEF TypeOK
<1>2. Starting' /\ Listening' /\ Closing' /\ NeverClosed'
  BY DEF Starting, Listening, Closing, NeverClosed
<1>3. Exited' /\ Unhandled'
  BY DEF Exited, Unhandled, Starting, OpenAt
<1> QED BY <1>1, <1>2, <1>3

\* The next call finds open what the calls before it opened.
LEMMA StartNextIInv == ASSUME IInv, StartNext PROVE IInv'
<1> USE DEF IInv, StartNext, environment
<1>1. /\ pc = "start" /\ call \in 1..12 /\ files = OpenAt(call)
      /\ closes \in [Files -> 0..1] /\ files \subseteq Files
      /\ closes["conf"] = (IF call > 5 THEN 1 ELSE 0)
      /\ closes["sockfd"] = 0 /\ closes["epollfd"] = 0
      /\ exitval = "success" /\ goto = <<>>
  BY StartUpTable DEF TypeOK, Starting, NeverClosed
<1>2. /\ files' = (IF call = 5 THEN (files \cup Opens(call)) \ {"conf"} ELSE files \cup Opens(call))
      /\ closes' = (IF call = 5 THEN [closes EXCEPT !["conf"] = @ + 1] ELSE closes)
  BY <1>1, StartUpTable DEF CloseConf
<1>3. files' = IF call = 12 THEN {"sockfd", "epollfd"} ELSE OpenAt(call + 1)
  BY <1>1, <1>2, OpenNext
<1>4. /\ closes' \in [Files -> 0..1]
      /\ closes'["conf"] = (IF call + 1 > 5 THEN 1 ELSE 0)
      /\ closes'["sockfd"] = 0 /\ closes'["epollfd"] = 0
  BY <1>1, <1>2 DEF Files
<1>5. \/ call = 12 /\ pc' = "wait" /\ call' = call
      \/ call \in 1..11 /\ pc' = pc /\ call' = call + 1
  BY <1>1, StartUpTable
<1>6. handler' \in BOOLEAN /\ nonblock' \in BOOLEAN
  BY DEF SetNonblock
<1>7. files' \subseteq Files
  BY <1>1, <1>3 DEF OpenAt, Files
<1>8. TypeOK'
  BY <1>1, <1>4, <1>5, <1>6, <1>7, StartUpTable DEF TypeOK
<1>9. Starting'
  BY <1>1, <1>3, <1>4, <1>5 DEF Starting
<1>10. Listening'
  BY <1>1, <1>3, <1>4, <1>5 DEF Listening
<1>11. NeverClosed'
  BY <1>4 DEF NeverClosed
<1>12. Unhandled'
  <2> SUFFICES ASSUME ~handler' PROVE Unhandled'
    BY DEF Unhandled
  <2>1. ~handler /\ call # 3
    BY <1>1, StartUpTable
  <2>2. call \in 1..2 /\ queue = 0
    BY <1>1, <2>1 DEF Unhandled
  <2> QED BY <1>1, <1>3, <1>5, <2>2 DEF Unhandled, OpenAt, Files
<1> QED BY <1>1, <1>5, <1>8, <1>9, <1>10, <1>11, <1>12 DEF Closing, Exited

\* Whichever call fails, its label closes what is open.
LEMMA StartFailsIInv == ASSUME IInv, StartFails PROVE IInv'
<1> USE DEF IInv, StartFails, Shutdown, environment
<1>1. /\ call \in 1..12 /\ files = OpenAt(call)
      /\ closes \in [Files -> 0..1] /\ files \subseteq Files
      /\ closes["conf"] = (IF call > 5 THEN 1 ELSE 0)
      /\ closes["sockfd"] = 0 /\ closes["epollfd"] = 0
  BY StartUpTable DEF TypeOK, Starting, NeverClosed
<1>2. call # 3 /\ goto' = Cascade(Label(call)) /\ pc' = "closing"
      /\ exitval' = "failure"
  BY <1>1, StartUpTable DEF Label
<1>3. /\ files' = (IF call = 5 THEN files \ {"conf"} ELSE files)
      /\ closes' = (IF call = 5 THEN [closes EXCEPT !["conf"] = @ + 1] ELSE closes)
  BY <1>1, StartUpTable DEF CloseConf
<1>4. \/ goto' = <<"epollfd", "sockfd", "msg">> /\ files' = {"sockfd", "epollfd"}
      \/ goto' = <<"sockfd", "msg">> /\ files' = {"sockfd"}
      \/ goto' = <<"msg">> /\ files' = {}
  BY <1>1, <1>2, <1>3, LabelCloses
<1>5. /\ closes' \in [Files -> 0..1] /\ closes'["conf"] \in {0, 1}
      /\ closes'["sockfd"] = 0 /\ closes'["epollfd"] = 0
  BY <1>1, <1>3 DEF Files
<1>6. goto' \in LabelSeqs /\ goto' \in Seq({"epollfd", "sockfd", "msg"}) /\ files' \subseteq Files
  <2>1. goto' \in LabelSeqs
    BY <1>4 DEF LabelSeqs
  <2>2. files' \subseteq Files
    BY <1>1, <1>3
  <2> QED BY <2>1, <2>2, LabelSeqsTyped
<1>7. TypeOK'
  BY <1>2, <1>5, <1>6 DEF TypeOK
<1>8. Closing' /\ NeverClosed'
  BY <1>2, <1>4, <1>5 DEF Closing, NeverClosed
<1>9. Unhandled'
  BY <1>1, <1>2, <1>3 DEF Unhandled
<1> QED BY <1>2, <1>7, <1>8, <1>9 DEF Starting, Listening, Exited

\* A turn of the loop opens and closes nothing.
LEMMA LoopIInv == ASSUME IInv, Loop PROVE IInv'
<1> USE DEF IInv, Loop, Ready, Receive, ReceiveNothing, server, environment
<1>1. TypeOK'
  BY ServerAssumption DEF TypeOK
<1> QED BY <1>1 DEF Starting, Listening, Closing, NeverClosed, Exited, Unhandled

\* The loop is left, by an error or by a signal, with both descriptors open.
LEMMA LeaveIInv ==
    ASSUME IInv, pc \in {"wait", "receive"},
           goto' = Cascade("close_epoll"), pc' = "closing",
           exitval' \in {"failure", exitval},
           UNCHANGED <<call, daemon, handler, files, nonblock, closes, queue, datagrams>>,
           signals' \in 0..MaxSignals
    PROVE  IInv'
<1> USE DEF IInv
<1>1. goto' = <<"epollfd", "sockfd", "msg">>
  BY Cascades
<1>2. TypeOK'
  <2>1. goto' \in Seq({"epollfd", "sockfd", "msg"})
    BY <1>1, LabelSeqsTyped DEF LabelSeqs
  <2> QED BY <2>1 DEF TypeOK
<1>3. Closing' /\ NeverClosed'
  BY <1>1, <1>2 DEF Closing, Listening, NeverClosed, TypeOK, Files
<1> QED BY <1>2, <1>3 DEF Starting, Listening, Exited, Unhandled

\* A statement behind a label closes the descriptor it is about.
LEMMA FallThroughIInv == ASSUME IInv, FallThrough PROVE IInv'
<1> USE DEF IInv, FallThrough, environment
<1>1. closes \in [Files -> 0..1] /\ \A f \in {"sockfd", "epollfd"} : f \in files => closes[f] = 0
  BY DEF TypeOK, NeverClosed
<1>5. Unhandled'
  BY DEF Unhandled
<1>2. CASE goto = <<"epollfd", "sockfd", "msg">> /\ files = {"sockfd", "epollfd"}
  <2>1. goto' = <<"sockfd", "msg">> /\ files' = {"sockfd"} /\ pc' = "closing"
    BY <1>2
  <2>2. /\ closes' \in [Files -> 0..1] /\ closes'["sockfd"] = 0 /\ closes'["conf"] = closes["conf"]
    BY <1>1, <1>2 DEF Files
  <2>3. TypeOK'
    <3>1. goto' \in Seq({"epollfd", "sockfd", "msg"})
      BY <2>1, LabelSeqsTyped DEF LabelSeqs
    <3> QED BY <2>1, <2>2, <3>1 DEF TypeOK, Files
  <2> QED BY <1>5, <2>1, <2>2, <2>3 DEF Starting, Listening, Closing, NeverClosed, Exited
<1>3. CASE goto = <<"sockfd", "msg">> /\ files = {"sockfd"}
  <2>1. goto' = <<"msg">> /\ files' = {} /\ pc' = "closing"
    BY <1>3
  <2>2. /\ closes' \in [Files -> 0..1] /\ closes'["conf"] = closes["conf"]
    BY <1>1, <1>3 DEF Files
  <2>3. TypeOK'
    <3>1. goto' \in Seq({"epollfd", "sockfd", "msg"})
      BY <2>1, LabelSeqsTyped DEF LabelSeqs
    <3> QED BY <2>1, <2>2, <3>1 DEF TypeOK, Files
  <2> QED BY <1>5, <2>1, <2>2, <2>3 DEF Starting, Listening, Closing, NeverClosed, Exited
<1>4. CASE goto = <<"msg">> /\ files = {}
  <2>1. goto' = <<>> /\ files' = {} /\ pc' = "exit"
    BY <1>4
  <2>2. closes' = closes
    BY <1>1, <1>4 DEF Files
  <2>3. TypeOK'
    <3>1. goto' \in Seq({"epollfd", "sockfd", "msg"})
      BY <2>1, LabelSeqsTyped DEF LabelSeqs
    <3> QED BY <2>1, <2>2, <3>1 DEF TypeOK, Files
  <2> QED BY <1>5, <2>1, <2>2, <2>3 DEF Starting, Listening, Closing, NeverClosed, Exited
<1> QED BY <1>2, <1>3, <1>4 DEF Closing

LEMMA DatagramIInv == ASSUME IInv, Datagram PROVE IInv'
<1> USE DEF IInv, Datagram, server
<1>1. TypeOK'
  BY ServerAssumption DEF TypeOK
<1>2. Unhandled'
  BY DEF Unhandled, Bound
<1> QED BY <1>1, <1>2 DEF Starting, Listening, Closing, NeverClosed, Exited

\* A signal kills the daemon, ends its loop or passes unnoticed.
LEMMA SignalIInv == ASSUME IInv, Signal PROVE IInv'
<1>0. /\ pc # "exit" /\ signals' = signals + 1 /\ signals' \in 0..MaxSignals
      /\ UNCHANGED <<queue, datagrams>>
  BY ServerAssumption DEF Signal, IInv, TypeOK
<1>1. CASE ~handler /\ pc' = "exit" /\ files' = {} /\ exitval' = "killed"
           /\ UNCHANGED <<call, daemon, handler, nonblock, closes, goto>>
  BY <1>0, <1>1 DEF IInv, TypeOK, Starting, Listening, Closing, NeverClosed, Exited,
                      Unhandled
<1>2. CASE handler /\ WaitFails
  BY <1>0, <1>2, LeaveIInv DEF WaitFails
<1>3. CASE \/ pc = "receive" /\ pc' = "wait" /\ UNCHANGED server
           \/ UNCHANGED <<pc, server>>
  BY <1>0, <1>3 DEF IInv, TypeOK, Starting, Listening, Closing, NeverClosed, Exited,
                      Unhandled, server
<1> QED BY <1>1, <1>2, <1>3 DEF Signal

LEMMA NextIInv == IInv /\ [Next]_vars => IInv'
<1> SUFFICES ASSUME IInv, [Next]_vars PROVE IInv'
  OBVIOUS
<1>1. CASE Start
  BY <1>1, ForkIInv, StartNextIInv, StartFailsIInv DEF Start
<1>2. CASE Loop
  BY <1>2, LoopIInv
<1>3. CASE SocketError \/ ReceiveFails
  <2>1. signals' \in 0..MaxSignals /\ UNCHANGED <<queue, datagrams>>
    BY <1>3 DEF SocketError, ReceiveFails, environment, IInv, TypeOK
  <2> QED BY <1>3, <2>1, LeaveIInv DEF SocketError, ReceiveFails, Shutdown
<1>8. CASE WaitError
  <2>1. signals' \in 0..MaxSignals /\ UNCHANGED <<queue, datagrams>>
    BY <1>8 DEF WaitError, environment, IInv, TypeOK
  <2> QED BY <1>8, <2>1, LeaveIInv DEF WaitError, WaitFails
<1>4. CASE FallThrough
  BY <1>4, FallThroughIInv
<1>5. CASE Datagram
  BY <1>5, DatagramIInv
<1>6. CASE Signal
  BY <1>6, SignalIInv
<1>7. CASE UNCHANGED vars
  BY <1>7 DEF vars, server, environment, IInv, TypeOK, Starting, Listening, Closing,
              NeverClosed, Exited, Unhandled
<1> QED BY <1>1, <1>2, <1>3, <1>4, <1>5, <1>6, <1>7, <1>8 DEF Next

-----------------------------------------------------------------------------
\* The state is of its type: in particular no descriptor is closed twice.
THEOREM TypeCorrect == Spec => []TypeOK
<1>1. IInv => TypeOK
  BY DEF IInv
<1> QED BY <1>1, InitIInv, NextIInv, PTL DEF Spec

\* Every way out of main (main, close_epoll, close_socket, close_msg) closes what
\* is open, and nothing that is not.
THEOREM DescriptorsClosedOnce == Spec => []ClosedOnce
<1>1. IInv => ClosedOnce
  BY DEF IInv, ClosedOnce, Closing, Exited, Files
<1> QED BY <1>1, InitIInv, NextIInv, PTL DEF Spec

\* A signal kills the daemon only before it has opened anything.
THEOREM KilledWithNothingOpen == Spec => KilledClean
<1>1. IInv /\ [Next]_vars => [exitval' = "killed" /\ exitval # "killed" => files = {} /\ queue = 0]_vars
  <2> SUFFICES ASSUME IInv, [Next]_vars, exitval' = "killed", exitval # "killed"
               PROVE  files = {} /\ queue = 0
    OBVIOUS
  <2>1. CASE Start
    BY <2>1 DEF Start, Fork, CannotFork, StartNext, StartFails, Shutdown
  <2>2. CASE Loop \/ Datagram \/ UNCHANGED vars
    BY <2>2 DEF Loop, Ready, Receive, ReceiveNothing, Datagram, vars, server
  <2>3. CASE SocketError \/ WaitError \/ ReceiveFails \/ FallThrough
    BY <2>3 DEF SocketError, WaitError, WaitFails, ReceiveFails, Shutdown, FallThrough
  <2>4. CASE Signal
    <3>1. ~handler /\ pc # "exit"
      BY <2>4 DEF Signal, WaitFails, server
    <3> QED BY <3>1 DEF IInv, Unhandled
  <2> QED BY <2>1, <2>2, <2>3, <2>4 DEF Next
<1> QED BY <1>1, InitIInv, NextIInv, PTL DEF Spec, KilledClean
=============================================================================
