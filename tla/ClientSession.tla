---------------------------- MODULE ClientSession ----------------------------
(***************************************************************************)
(* The client program from start to exit, as threads (src/src/client/      *)
(* main.cpp, network.cpp, mainwindow.cpp): the main thread, which connects *)
(* and registers, runs the Qt event loop and closes; the NetworkThread;    *)
(* and, at the other end of the connection, the thread of the server that  *)
(* serves it (server.cpp).  What the window shows is ClientWindow.tla;     *)
(* here it matters who waits for whom, and in which order the threads end. *)
(*                                                                         *)
(* The connection holds Room frames in each direction; a send waits for    *)
(* room.  Frames are whole, as FrameStream.tla shows.                      *)
(***************************************************************************)
EXTENDS Naturals, Sequences

CONSTANTS
    Room,        \* frames that fit in one direction of the connection
    MaxAsks,     \* bound on what the user does that sends a frame
    MaxPushes    \* bound on the frames the server sends unasked

ASSUME SessionConstantsOK == Room \in Nat \ {0} /\ MaxAsks \in Nat /\ MaxPushes \in Nat

\* Frames from the client: "choose" is a CHANGE_STATUS, "ask" any other request.
Request == {"register", "ask", "choose", "quit"}

\* Frames from the server: the answer to a registration; one that makes the
\* window ask for the list (201, 603); the 602 of the watchdog, a successful
\* ServerResponse like "ok"; one above the limit of recv_message, such as the
\* broadcast of a message just below it; any other.
Frame == {"ok", "no", "refresh", "notice", "long", "plain"}

VARIABLES
    gui,         \* where the main thread is
    timer,       \* the first refresh is still to come
    running,     \* NetworkThread::running_
    reader,      \* where the NetworkThread is
    events,      \* signals queued for the window, and the loss of the connection
    read_shut,   \* the client has shut the reading side of its socket down
    closed,      \* the client has closed its socket
    toServer, toClient,   \* frames sent and not read
    server,      \* where the server's thread is; "closed" when it has closed
    answer,      \* the frame it is sending
    session,     \* the user is in the registry
    held,        \* its thread waits for other clients, or for the registry's mutex
    misled,      \* history: the window was opened by a 602, not by a welcome
    asks, pushes \* counters for the two bounds

client == <<gui, timer, running, reader, events, read_shut, closed, asks, misled>>
service == <<server, answer, session, held, pushes>>
vars == <<client, toServer, toClient, service>>

\* The main thread with a window: in the event loop, in a send of one of its
\* slots, and on the way through closeEvent and ~NetworkThread.
WindowPCs == {"window", "send", "quit", "stop", "shut", "wait", "close", "destroy"}

TypeOK ==
    /\ gui \in {"connect", "register", "await", "exited"} \cup WindowPCs
    /\ reader \in {"none", "loop", "recv", "failed", "done"}
    /\ {timer, running, read_shut, closed, session, held, misled} \subseteq BOOLEAN
    /\ events \in Seq({"refresh", "plain", "connectionLost"})
    /\ toServer \in Seq(Request) /\ Len(toServer) <= Room
    /\ toClient \in Seq(Frame) /\ Len(toClient) <= Room
    /\ server \in {"none", "recv", "answer", "goodbye", "cleanup", "closed"}
    /\ answer \in Frame
    /\ asks \in 0..MaxAsks /\ pushes \in 0..MaxPushes

Init ==
    /\ gui = "connect" /\ timer = FALSE /\ running = TRUE /\ reader = "none"
    /\ events = <<>> /\ read_shut = FALSE /\ closed = FALSE
    /\ toServer = <<>> /\ toClient = <<>>
    /\ server = "none" /\ answer = "plain" /\ session = FALSE /\ held = FALSE
    /\ misled = FALSE /\ asks = 0 /\ pushes = 0

-----------------------------------------------------------------------------
\* The client's socket.

\* send_message writes request, or fails at once if the server has closed its
\* end; it waits while there is no room.
SendRequest(request) ==
    IF server = "closed"
    THEN UNCHANGED toServer
    ELSE Len(toServer) < Room /\ toServer' = Append(toServer, request)

\* recv_message finds the end of the stream, or no socket any more.
AtEnd == closed \/ (toClient = <<>> /\ (server = "closed" \/ read_shut))

\* close(): with frames unread the connection is reset, and what the server has
\* not read yet may be lost.
CloseSocket(unread) ==
    /\ closed' = TRUE
    /\ toServer' \in {toServer} \cup (IF unread = <<>> THEN {} ELSE {<<>>})

-----------------------------------------------------------------------------
\* main(): connect, register, await the answer.

\* A message box, close() and the end of the process.
Exit(unread) == gui' = "exited" /\ CloseSocket(unread)

Connect ==
    /\ gui = "connect"
    /\ \/ Exit(<<>>) /\ UNCHANGED server
       \/ gui' = "register" /\ server' = "recv" /\ UNCHANGED <<closed, toServer>>
    /\ UNCHANGED <<timer, running, reader, events, read_shut, asks, misled, toClient,
                   answer, session, held, pushes>>

SendRegister ==
    /\ gui = "register"
    /\ IF server = "closed"
       THEN Exit(toClient)
       ELSE SendRequest("register") /\ gui' = "await" /\ UNCHANGED closed
    /\ UNCHANGED <<timer, running, reader, events, read_shut, asks, misled, toClient, service>>

Accepted_AnyResponse(frame) == frame \in {"ok", "no", "notice", "refresh"}

\* Any ServerResponse that says it is successful makes main() go on, whatever it
\* answers.
Accepted(frame) == frame \in {"ok", "notice", "refresh"}

\* The first frame decides: the window is made, its NetworkThread and its timer
\* start, or the program ends.  A frame that is too long is left unread.
AwaitAnswer ==
    /\ gui = "await"
    /\ \/ AtEnd /\ Exit(<<>>) /\ UNCHANGED <<timer, reader, toClient, misled>>
       \/ /\ toClient # <<>>
          /\ toClient' = Tail(toClient)
          /\ IF Accepted(Head(toClient))
             THEN /\ gui' = "window" /\ timer' = TRUE /\ reader' = "loop"
                  /\ misled' = (Head(toClient) = "notice")
                  /\ UNCHANGED <<closed, toServer>>
             ELSE /\ Exit(IF Head(toClient) = "long" THEN toClient ELSE Tail(toClient))
                  /\ UNCHANGED <<timer, reader, misled>>
    /\ UNCHANGED <<running, events, read_shut, asks, service>>

-----------------------------------------------------------------------------
\* The event loop.

\* The user writes, asks for something or picks a status: the slot sends, and
\* the event loop waits for it.
UserActs ==
    /\ gui = "window" /\ asks < MaxAsks
    /\ asks' = asks + 1
    /\ gui' = "send"
    /\ UNCHANGED <<misled, timer, running, reader, events, read_shut, closed, toServer, toClient, service>>

\* The result of the send is ignored.
SlotSends ==
    /\ gui = "send"
    /\ \E request \in {"ask", "choose"} : SendRequest(request)
    /\ gui' = "window"
    /\ UNCHANGED <<timer, running, reader, events, read_shut, closed, asks, misled, toClient, service>>

\* QTimer::singleShot(500, onRefreshUsers).
FirstRefresh ==
    /\ gui = "window" /\ timer
    /\ timer' = FALSE
    /\ gui' = "send"
    /\ UNCHANGED <<running, reader, events, read_shut, closed, asks, misled, toServer, toClient, service>>

\* A slot of a network signal; some send a LIST_USERS.
HandleSignal ==
    /\ gui = "window" /\ events # <<>>
    /\ events' = Tail(events)
    /\ gui' = IF Head(events) = "refresh" THEN "send" ELSE "window"
    /\ UNCHANGED <<timer, running, reader, read_shut, closed, asks, misled, toServer, toClient, service>>

-----------------------------------------------------------------------------
\* closeEvent.

UserCloses ==
    /\ gui = "window"
    /\ gui' = "quit"
    /\ UNCHANGED <<timer, running, reader, events, read_shut, closed, asks, misled, toServer,
                   toClient, service>>

SendQuit ==
    /\ gui = "quit"
    /\ SendRequest("quit")
    /\ gui' = "stop"
    /\ UNCHANGED <<timer, running, reader, events, read_shut, closed, asks, misled, toClient, service>>

\* stopThread: the flag, ...
StopFlag ==
    /\ gui = "stop"
    /\ running' = FALSE
    /\ gui' = "shut"
    /\ UNCHANGED <<timer, reader, events, read_shut, closed, asks, misled, toServer, toClient, service>>

ShutReading_Not == read_shut

ShutReading == TRUE

\* ... and then the end of a recv that is waiting.
StopReading ==
    /\ gui = "shut"
    /\ read_shut' = ShutReading
    /\ gui' = "wait"
    /\ UNCHANGED <<timer, running, reader, events, closed, asks, misled, toServer, toClient, service>>

\* wait(2000): a thread that can run ends in that time.
WaitForThread ==
    /\ gui = "wait"
    /\ reader = "done" \/ (reader = "recv" /\ ~AtEnd /\ toClient = <<>>)
    /\ gui' = "close"
    /\ UNCHANGED <<timer, running, reader, events, read_shut, closed, asks, misled, toServer,
                   toClient, service>>

Close ==
    /\ gui = "close"
    /\ CloseSocket(toClient)
    /\ gui' = "destroy"
    /\ UNCHANGED <<timer, running, reader, events, read_shut, asks, misled, toClient, service>>

\* exec() returns, and ~MainWindow destroys the thread object, which stops the
\* thread again and waits for it without a limit.
Destroy ==
    /\ gui = "destroy" /\ reader = "done"
    /\ gui' = "exited"
    /\ UNCHANGED <<timer, running, reader, events, read_shut, closed, asks, misled, toServer,
                   toClient, service>>

-----------------------------------------------------------------------------
\* NetworkThread::run.

ReaderLoop ==
    /\ reader = "loop"
    /\ reader' = IF running THEN "recv" ELSE "done"
    /\ UNCHANGED <<gui, timer, running, events, read_shut, closed, asks, misled, toServer, toClient, service>>

AfterSignal_Break == "done"

\* The break of a case ends the switch, not the loop.
AfterSignal == "loop"

\* A frame becomes a queued signal.  One that is too long is given up: its
\* payload stays where it is.
ReaderReceives ==
    /\ reader = "recv" /\ ~closed /\ toClient # <<>>
    /\ IF Head(toClient) = "long"
       THEN reader' = "failed" /\ UNCHANGED <<events, toClient>>
       ELSE /\ reader' = AfterSignal
            /\ events' = Append(events, IF Head(toClient) = "refresh" THEN "refresh" ELSE "plain")
            /\ toClient' = Tail(toClient)
    /\ UNCHANGED <<gui, timer, running, read_shut, closed, asks, misled, toServer, service>>

ReaderFails ==
    /\ reader = "recv" /\ AtEnd
    /\ reader' = "failed"
    /\ UNCHANGED <<gui, timer, running, events, read_shut, closed, asks, misled, toServer, toClient, service>>

Alarms_Always == TRUE

\* The failure is the connection's, as nobody has stopped the thread.
Alarms == running

ReaderEnds ==
    /\ reader = "failed"
    /\ reader' = "done"
    /\ events' = IF Alarms THEN Append(events, "connectionLost") ELSE events
    /\ UNCHANGED <<gui, timer, running, read_shut, closed, asks, misled, toServer, toClient, service>>

-----------------------------------------------------------------------------
\* The server: handle_client for this connection, and the threads that write to
\* it because its user is in the registry.

AnswerTo_Echo(request) == request

\* A change of status is confirmed to a user who is registered.
AnswerTo(request) == IF request = "choose" /\ session THEN "refresh" ELSE "plain"

\* recv_message, and the handler up to its answer.
Serve ==
    /\ server = "recv" /\ toServer # <<>>
    /\ toServer' = Tail(toServer)
    /\ \/ /\ Head(toServer) = "register"
          /\ \/ answer' = "ok" /\ session' = TRUE
             \/ answer' = "no" /\ UNCHANGED session
       \/ /\ Head(toServer) # "register"
          /\ answer' = AnswerTo(Head(toServer))
          /\ UNCHANGED session
    /\ server' = IF Head(toServer) = "quit" THEN "goodbye" ELSE "answer"
    /\ UNCHANGED <<client, toClient, held, pushes>>

\* On its way to the answer, or out of the registry, the thread may have to wait
\* for others: in the send of a broadcast or a DM to a client that does not
\* read, or for the mutex of the registry.
HoldUp ==
    /\ server \in {"answer", "goodbye", "cleanup"} /\ ~held
    /\ held' = TRUE
    /\ UNCHANGED <<client, toServer, toClient, server, answer, session, pushes>>

LetGo ==
    /\ held
    /\ held' = FALSE
    /\ UNCHANGED <<client, toServer, toClient, server, answer, session, pushes>>

\* A send returns when there is room, or with an error once the client has
\* closed its socket.
Answer ==
    /\ server \in {"answer", "goodbye"} /\ ~held
    /\ \/ closed /\ UNCHANGED toClient
       \/ ~closed /\ Len(toClient) < Room /\ toClient' = Append(toClient, answer)
    /\ server' = IF server = "goodbye" THEN "cleanup" ELSE "recv"
    /\ answer' = "plain"
    /\ UNCHANGED <<client, toServer, session, held, pushes>>

AfterStream_Retry == "recv"

AfterStream == "cleanup"

EndOfStream ==
    /\ server = "recv" /\ closed /\ toServer = <<>>
    /\ server' = AfterStream
    /\ UNCHANGED <<client, toServer, toClient, answer, session, held, pushes>>

\* remove_session and close.
CleanUp ==
    /\ server = "cleanup" /\ ~held
    /\ session' = FALSE
    /\ server' = "closed"
    /\ toServer' = <<>>
    /\ UNCHANGED <<client, toClient, answer, held, pushes>>

\* A broadcast, a DM or the watchdog's 602, for this user or, at any time, one
\* that was meant for the last owner of the descriptor number (StraysAreLate of
\* ChatServer.tla); and the 603, which only a registered user is sent.
Push(frame) ==
    /\ server \notin {"none", "closed"} /\ ~closed /\ pushes < MaxPushes
    /\ frame = "refresh" => session /\ answer # "ok"
    /\ Len(toClient) < Room
    /\ toClient' = Append(toClient, frame)
    /\ pushes' = pushes + 1
    /\ UNCHANGED <<client, toServer, server, answer, session, held>>

\* The server or the network fails.
ServerFails ==
    /\ server \notin {"none", "closed"}
    /\ server' = "closed" /\ session' = FALSE /\ held' = FALSE
    /\ toServer' = <<>>
    /\ toClient' \in {toClient, <<>>}
    /\ UNCHANGED <<client, answer, pushes>>

-----------------------------------------------------------------------------
MainStep ==
    \/ Connect \/ SendRegister \/ AwaitAnswer
    \/ SlotSends \/ FirstRefresh \/ HandleSignal
    \/ SendQuit \/ StopFlag \/ StopReading \/ WaitForThread \/ Close \/ Destroy

ReaderStep == ReaderLoop \/ ReaderReceives \/ ReaderFails \/ ReaderEnds

ServerStep == Serve \/ Answer \/ EndOfStream \/ CleanUp

Next ==
    \/ MainStep \/ UserActs \/ UserCloses
    \/ ReaderStep
    \/ ServerStep \/ HoldUp \/ LetGo \/ ServerFails
    \/ \E frame \in {"plain", "refresh", "notice", "long"} : Push(frame)

\* The threads run; the server's thread sends although others send to the same
\* client (ServerThreads.tla).  The user need not do anything, and nothing says
\* that a thread held up by others is ever let go.
Fairness == WF_vars(MainStep) /\ WF_vars(ReaderStep) /\ SF_vars(ServerStep)

Spec == Init /\ [][Next]_vars

FairSpec == Spec /\ Fairness

-----------------------------------------------------------------------------
\* The NetworkThread has given up a connection that is open, over a frame that
\* is too long (the server has no limit on what it sends).  Nobody reads the
\* connection any more.
Deaf == reader \in {"failed", "done"} /\ toClient # <<>> /\ Head(toClient) = "long"

\* The user is told that the connection is lost only when the server has ended
\* it, or a frame was too long, and never because the user closes the window:
\* stopThread resets running_ before it ends the recv.
NoFalseAlarm ==
    (\E i \in DOMAIN events : events[i] = "connectionLost") => server = "closed" \/ Deaf

\* The NetworkThread has ended before its socket is closed, whose number the
\* process may use for something else by the time of a recv.
ReaderEndsFirst == closed => reader \in {"none", "done"}

\* A window that a welcome opened is of a user who is registered, as long as
\* the server is there: neither a refusal nor another user's broadcast or DM that
\* strays opens one.  A 602 that strays does (RefusedNoWindow).
WindowRegistered == gui \in {"window", "send"} /\ server # "closed" /\ ~misled => session

\* "De lo contrario, el servidor envia una respuesta que el cliente usa para
\* desplegar un mensaje de error" (docs/instructions.md:20): a user whose
\* registration is refused has no window when the refusal comes.
RefusedNoWindow == gui \in WindowPCs => \A i \in DOMAIN toClient : toClient[i] # "no"

\* "puede ser llamado desde el hilo principal sin bloquear la UI" (docs/
\* IMPLEMENTATION.md:98) holds as far as this: no slot waits for ever in a send,
\* and a window that is closed ends the program, although the server answers
\* what it is sent before it reads more; as long as the NetworkThread reads, and
\* unless the server's thread is held up by other clients for ever.
NeverStuck == []<>~held => (gui \in {"send", "quit"} ~> gui \in {"window", "exited"} \/ Deaf)

\* "cuando un usuario cierra su cliente de chat o elige salir ... que el servidor
\* remueva la informacion del cliente" (Proyecto.md:56-62): however the program
\* ends, refused or closed, its user leaves the registry, unless the server's
\* thread is held up by other clients for ever.
SessionReleased == []<>~held => (gui = "exited" ~> ~session /\ server \in {"none", "closed"})

=============================================================================
