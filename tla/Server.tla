------------------------------- MODULE Server -------------------------------
(***************************************************************************)
(* The daemon of Server/Server.cpp: its start-up, the epoll loop and the   *)
(* cascade of labels (close_epoll, close_socket, close_msg) it leaves by.  *)
(* Datagrams and signals come from outside at any moment; a handler that   *)
(* does nothing makes a signal felt only by the call it interrupts.        *)
(***************************************************************************)
EXTENDS Integers, Sequences, FiniteSets

CONSTANTS MaxQueue,     \* datagrams the socket buffers
          MaxDatagrams, \* bound on the datagrams sent to the socket
          MaxSignals    \* bound on the signals (SIGTERM, SIGINT) sent

ASSUME ServerAssumption == MaxQueue \in Nat /\ MaxDatagrams \in Nat /\ MaxSignals \in Nat

VARIABLES
    pc,        \* where main is
    call,      \* index in StartUp of the call it is at
    daemon,    \* the child of fork runs: pc is its, the parent has returned
    handler,   \* term is installed for SIGTERM and SIGINT
    files,     \* descriptors opened and not closed by the program
    nonblock,  \* O_NONBLOCK is set on the socket
    closes,    \* history: how often each descriptor was closed
    goto,      \* the labels still to be fallen through
    exitval,
    queue,     \* datagrams waiting in the socket
    datagrams, \* datagrams sent so far
    signals    \* signals sent so far

server == <<call, daemon, handler, files, nonblock, closes, goto, exitval>>
environment == <<queue, datagrams, signals>>
vars == <<pc, server, environment>>

-----------------------------------------------------------------------------
\* The start-up, call by call: what each opens, and the label it jumps to when
\* it fails.
Call(name, opens, label) == [name |-> name, opens |-> opens, label |-> label]

\* Bug: term is installed only when the socket has been made.
StartUpLateHandler ==
    <<Call("setsid", {}, "close_msg"),      Call("chdir", {}, "close_msg"),
      Call("fopen", {"conf"}, "close_msg"), Call("fscanf", {}, "close_msg"),
      Call("port", {}, "close_msg"),
      Call("socket", {"sockfd"}, "close_msg"),
      Call("getfl", {}, "close_socket"),    Call("setfl", {}, "close_socket"),
      Call("sigaction", {}, "none"),        Call("bind", {}, "close_socket"),
      Call("epoll_create", {"epollfd"}, "close_socket"),
      Call("epoll_ctl", {}, "close_epoll")>>

StartUp == <<Call("setsid", {}, "close_msg"),      Call("chdir", {}, "close_msg"),
             Call("sigaction", {}, "none"),
             Call("fopen", {"conf"}, "close_msg"), Call("fscanf", {}, "close_msg"),
             Call("port", {}, "close_msg"),
             Call("socket", {"sockfd"}, "close_msg"),
             Call("getfl", {}, "close_socket"),    Call("setfl", {}, "close_socket"),
             Call("bind", {}, "close_socket"),
             Call("epoll_create", {"epollfd"}, "close_socket"),
             Call("epoll_ctl", {}, "close_epoll")>>

Files == {"conf", "sockfd", "epollfd"}

\* Bug: a failing epoll_create jumps one label too early.
CascadeTooEarly(label) ==
    CASE label \in {"close_epoll", "close_socket"} -> <<"epollfd", "sockfd", "msg">>
      [] label = "close_msg"    -> <<"msg">>

\* Bug: network.conf is closed at the end as well.
CascadeClosesConf(label) == CASE label = "close_epoll"  -> <<"epollfd", "sockfd", "msg">>
                              [] label = "close_socket" -> <<"sockfd", "msg">>
                              [] label = "close_msg"    -> <<"conf", "msg">>

\* The labels at the end of main, from the one that is jumped to.
Cascade(label) == CASE label = "close_epoll"  -> <<"epollfd", "sockfd", "msg">>
                    [] label = "close_socket" -> <<"sockfd", "msg">>
                    [] label = "close_msg"    -> <<"msg">>

Init == /\ pc = "start" /\ call = 1 /\ daemon = FALSE /\ handler = FALSE
        /\ files = {} /\ nonblock = FALSE /\ closes = [f \in Files |-> 0]
        /\ goto = <<>> /\ exitval = "success"
        /\ queue = 0 /\ datagrams = 0 /\ signals = 0

Fork == /\ ~daemon /\ pc = "start"
        /\ daemon' = TRUE
        /\ UNCHANGED <<pc, call, handler, files, nonblock, closes, goto, exitval, environment>>

CannotFork == /\ ~daemon /\ pc = "start"
              /\ pc' = "exit" /\ exitval' = "failure"
              /\ UNCHANGED <<call, daemon, handler, files, nonblock, closes, goto, environment>>

\* network.conf is closed after it has been read, whether or not it could be.
CloseConf(open) == IF StartUp[call].name = "fscanf"
                     THEN files' = open \ {"conf"} /\ closes' = [closes EXCEPT !["conf"] = @ + 1]
                     ELSE files' = open /\ UNCHANGED closes

\* Bug: the socket is left blocking.
LeaveBlocking == UNCHANGED nonblock

SetNonblock == nonblock' = (nonblock \/ StartUp[call].name = "setfl")

\* A call of the start-up succeeds.
StartNext ==
    /\ daemon /\ pc = "start"
    /\ handler' = (handler \/ StartUp[call].name = "sigaction")
    /\ SetNonblock
    /\ CloseConf(files \cup StartUp[call].opens)
    /\ IF call = Len(StartUp) THEN pc' = "wait" /\ UNCHANGED call
                             ELSE call' = call + 1 /\ UNCHANGED pc
    /\ UNCHANGED <<daemon, goto, exitval, environment>>

\* SHUTDOWN(label).
Shutdown(label) == /\ exitval' = "failure"
                   /\ goto' = Cascade(label)
                   /\ pc' = "closing"

\* A call of the start-up fails; the results of sigaction are not looked at.
StartFails ==
    /\ daemon /\ pc = "start" /\ StartUp[call].label # "none"
    /\ Shutdown(StartUp[call].label)
    /\ CloseConf(files)
    /\ UNCHANGED <<call, daemon, handler, nonblock, environment>>

-----------------------------------------------------------------------------
(* The listen loop. *)

\* epoll_wait reports the socket.  It may do so with nothing to read, when the
\* kernel drops the datagram after it announced it.
Ready == /\ pc = "wait" /\ "epollfd" \in files
         /\ queue > 0 \/ datagrams > 0
         /\ pc' = "receive"
         /\ UNCHANGED <<server, environment>>

\* It reports EPOLLERR or EPOLLHUP.
SocketError == /\ pc = "wait"
               /\ Shutdown("close_epoll")
               /\ UNCHANGED <<call, daemon, handler, files, nonblock, closes, environment>>

\* It fails: the loop ends, and the exit value stays that of success.
WaitFails == /\ pc = "wait"
             /\ goto' = Cascade("close_epoll")
             /\ pc' = "closing"
             /\ UNCHANGED <<call, daemon, handler, files, nonblock, closes, exitval>>

\* It fails for a reason of its own, errno other than EINTR: the condition of the
\* loop does not tell it from a signal.
WaitError == WaitFails /\ UNCHANGED environment

\* Bug: the datagram is looked at and left in the queue.
ReceivePeeking == /\ pc = "receive" /\ queue > 0
                  /\ pc' = "wait"
                  /\ UNCHANGED <<server, environment>>

\* recvfrom takes a datagram, of any length.
Receive == /\ pc = "receive" /\ queue > 0
           /\ queue' = queue - 1
           /\ pc' = "wait"
           /\ UNCHANGED <<server, datagrams, signals>>

\* Nothing to read: a non-blocking recvfrom fails with EAGAIN, and the loop
\* goes on.  A blocking one would not return.
ReceiveNothing == /\ pc = "receive" /\ queue = 0 /\ nonblock
                  /\ pc' = "wait"
                  /\ UNCHANGED <<server, environment>>

\* It fails with an error the loop does not know.
ReceiveFails == /\ pc = "receive"
                /\ Shutdown("close_epoll")
                /\ UNCHANGED <<call, daemon, handler, files, nonblock, closes, environment>>

\* The statements from a label on.
FallThrough ==
    /\ pc = "closing" /\ goto # <<>>
    /\ files' = files \ {Head(goto)}
    /\ closes' = [f \in Files |-> IF f = Head(goto) THEN closes[f] + 1 ELSE closes[f]]
    /\ goto' = Tail(goto)
    /\ pc' = IF Tail(goto) = <<>> THEN "exit" ELSE "closing"
    /\ UNCHANGED <<call, daemon, handler, nonblock, exitval, environment>>

-----------------------------------------------------------------------------
\* A socket is sent datagrams from bind on.
Bound == "sockfd" \in files /\ \E i \in 1..(call - 1) : StartUp[i].name = "bind"

Datagram == /\ Bound /\ datagrams < MaxDatagrams
            /\ datagrams' = datagrams + 1
            /\ queue' = IF queue < MaxQueue THEN queue + 1 ELSE queue
            /\ UNCHANGED <<pc, server, signals>>

\* A signal interrupts the call that waits: epoll_wait returns EINTR, which
\* ends the loop; recvfrom returns EINTR, after which the loop goes on; any
\* other moment passes unnoticed.  Without the handler it kills the daemon.
Signal ==
    /\ daemon /\ pc # "exit" /\ signals < MaxSignals
    /\ signals' = signals + 1
    /\ \/ ~handler /\ pc' = "exit" /\ files' = {} /\ exitval' = "killed"
          /\ UNCHANGED <<call, daemon, handler, nonblock, closes, goto>>
       \/ handler /\ WaitFails
       \/ handler /\ pc = "receive" /\ pc' = "wait" /\ UNCHANGED server
       \/ handler /\ pc # "wait" /\ UNCHANGED <<pc, server>>
    /\ UNCHANGED <<queue, datagrams>>

Start == Fork \/ CannotFork \/ StartNext \/ StartFails
Loop == Ready \/ Receive \/ ReceiveNothing
Next == Start \/ Loop \/ SocketError \/ WaitError \/ ReceiveFails \/ FallThrough
        \/ Datagram \/ Signal

\* The daemon is scheduled; it is not bound to meet an error, nor are datagrams
\* and signals bound to come.
Spec == /\ Init /\ [][Next]_vars
        /\ WF_vars(Start) /\ WF_vars(Loop) /\ WF_vars(FallThrough)

-----------------------------------------------------------------------------
(* Properties. *)

TypeOK ==
    /\ pc \in {"start", "wait", "receive", "closing", "exit"} /\ call \in DOMAIN StartUp
    /\ daemon \in BOOLEAN /\ handler \in BOOLEAN /\ nonblock \in BOOLEAN
    /\ files \subseteq Files /\ closes \in [Files -> 0..1]
    /\ goto \in Seq({"epollfd", "sockfd", "msg"})
    /\ exitval \in {"success", "failure", "killed"}
    /\ queue \in 0..MaxQueue /\ datagrams \in 0..MaxDatagrams /\ signals \in 0..MaxSignals

\* Wherever the start-up stops, and whatever ends the loop, the labels close
\* what is open and nothing else: never a descriptor that was not opened yet
\* (sockfd and epollfd are not initialized), nor one twice.
ClosedOnce == /\ (pc = "closing" /\ Head(goto) \in Files) => Head(goto) \in files
              /\ pc = "exit" => files = {}

\* A signal that kills the daemon finds it with nothing open and nobody's
\* datagrams waiting: every descriptor is opened after term is installed, and is
\* closed by the labels of main and not by the kernel.
KilledClean == [][exitval' = "killed" /\ exitval # "killed" => files = {} /\ queue = 0]_vars

\* A datagram that epoll_wait announced and the kernel then dropped does not
\* hold the daemon up in recvfrom: it comes back to where it waits for the next
\* datagram or signal, or it exits.
Responsive == []<>(pc \in {"wait", "exit"})

\* The loop takes one datagram a turn, and a turn may end with none taken
\* (EINTR, EAGAIN); those that wait are taken all the same, unless it ends.
Drained == queue > 0 /\ pc \in {"wait", "receive"} ~> queue = 0 \/ pc \in {"closing", "exit"}
=============================================================================
