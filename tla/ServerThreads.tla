---------------------------- MODULE ServerThreads ----------------------------
(***************************************************************************)
(* Who waits for whom in the server (src/src/server/server.cpp, main.cpp): *)
(* the accept loop, the client threads and the watchdog, sessions_mutex_   *)
(* and the send_mutex of each session, sockets whose buffers are full      *)
(* because the client does not read, and stop(), which the signal handler  *)
(* runs on the main thread and ~ChatServer runs again.                     *)
(*                                                                         *)
(* ChatServer.tla is the same code seen by what the frames say; here only  *)
(* their number matters, and where a thread can block: in recv, in a send, *)
(* at a mutex, in a join.  What a request asks for, which sessions it      *)
(* finds and which users are idle are choices.  A critical section in      *)
(* which nothing blocks is one step, so that sessions_mutex is held over   *)
(* several steps only by handle_register, which sends in it.               *)
(***************************************************************************)
EXTENDS Naturals, FiniteSets

CONSTANTS
    Conn,       \* connections, their threads and their sessions
    Room,       \* frames that fit between a send and a client that does not read
    Main,       \* the main thread
    Watchdog,   \* the watchdog thread
    NoConn,     \* no connection
    Nobody      \* the owner of a free mutex

Writer == Conn \cup {Watchdog}
Thread == Writer \cup {Main}

ASSUME ConstantsOK ==
    /\ Main \notin Writer /\ Watchdog \notin Conn /\ NoConn \notin Writer
    /\ Nobody \notin Thread /\ Room \in Nat \ {0}

VARIABLES
    running,         \* running_
    listening,       \* listen_fd_ >= 0
    signalled,       \* a SIGINT or SIGTERM has been delivered
    sessions_mutex,  \* its owner
    send_mutex,      \* the owner of each session's send_mutex
    sessions,        \* the sessions in the registry
    sock,            \* the socket of each connection; "gone" when its client has
                     \* closed its end, "shut" when the server has
    unread,          \* frames sent on an open socket that the client has not read
    pc,              \* where each client thread and the watchdog is
    dest,            \* the session to whose client the thread sends a frame now
    todo,            \* the sessions to whose clients it will send one next
    mpc,             \* where the main thread is
    accepted,        \* the connection accepted last, while it has no thread
    resume           \* where the main thread goes when stop() returns

kernel == <<sock, unread>>
main == <<running, listening, signalled, mpc, accepted, resume>>
vars == <<main, sessions_mutex, send_mutex, sessions, kernel, pc, dest, todo>>

\* Where a client thread or the watchdog sends: the notice of a restoration, the
\* frames for others, its own answer under send_mutex or bare, and the answer
\* of handle_register, likewise, with sessions_mutex_ held.
SendPCs == {"restored", "fan", "answer", "goodbye", "bare", "held", "heldbare"}

\* Where it needs sessions_mutex_.
LockPCs == {"register", "find", "quit", "collect", "lookup", "cleanup", "mark"}

TypeOK ==
    /\ running \in BOOLEAN /\ listening \in BOOLEAN /\ signalled \in BOOLEAN
    /\ sessions_mutex \in Conn \cup {Nobody}
    /\ send_mutex \in [Conn -> Writer \cup {Nobody}]
    /\ sessions \subseteq Conn
    /\ sock \in [Conn -> {"none", "open", "gone", "shut"}]
    /\ unread \in [Conn -> 0..Room]
    /\ pc \in [Writer -> {"new", "loop", "recv", "done"} \cup SendPCs \cup LockPCs]
    /\ dest \in [Writer -> Conn \cup {NoConn}]
    /\ todo \in [Writer -> SUBSET Conn]
    /\ mpc \in {"begin", "listening", "started", "accept", "spawn",
                "stop", "join", "shut", "joinall", "exited"}
    /\ accepted \in Conn \cup {NoConn}
    /\ resume \in {"begin", "listening", "started", "accept", "spawn", "exited"}

Init ==
    /\ running = FALSE /\ listening = FALSE /\ signalled = FALSE
    /\ sessions_mutex = Nobody /\ send_mutex = [c \in Conn |-> Nobody]
    /\ sessions = {}
    /\ sock = [c \in Conn |-> "none"] /\ unread = [c \in Conn |-> 0]
    /\ pc = [t \in Writer |-> "new"]
    /\ dest = [t \in Writer |-> NoConn] /\ todo = [t \in Writer |-> {}]
    /\ mpc = "begin" /\ accepted = NoConn /\ resume = "exited"

-----------------------------------------------------------------------------
\* Clients.

\* A client reads a frame.
Drain(c) ==
    /\ unread[c] > 0
    /\ unread' = [unread EXCEPT ![c] = @ - 1]
    /\ UNCHANGED <<main, sessions_mutex, send_mutex, sessions, sock, pc, dest, todo>>

\* A client closes its end or crashes.
HangUp(c) ==
    /\ sock[c] = "open"
    /\ sock' = [sock EXCEPT ![c] = "gone"]
    /\ unread' = [unread EXCEPT ![c] = 0]
    /\ UNCHANGED <<main, sessions_mutex, send_mutex, sessions, pc, dest, todo>>

-----------------------------------------------------------------------------
\* Sends.

\* send() returns: there is room, or the connection is at an end.
Broken(c) == sock[c] # "open"

CanSend_AnyNumber(c) == TRUE

CanSend(c) == Broken(c) \/ unread[c] < Room

Bare(t) == pc[t] \in {"bare", "heldbare"}

\* The lock_guard of send_locked.
LockSend(t) ==
    /\ dest[t] # NoConn /\ ~Bare(t)
    /\ send_mutex[dest[t]] = Nobody
    /\ send_mutex' = [send_mutex EXCEPT ![dest[t]] = t]
    /\ UNCHANGED <<main, sessions_mutex, sessions, kernel, pc, dest, todo>>

\* t is about to send to d, with x to follow.
SendTo(t, d, x) ==
    /\ dest' = [dest EXCEPT ![t] = d]
    /\ todo' = [todo EXCEPT ![t] = x]

Goto(t, label) == pc' = [pc EXCEPT ![t] = label]

\* What follows the frame just sent: more of a broadcast, of a DM and its
\* confirmation or of the watchdog's notices, the rest of the handler, the end
\* of the connection, or the next round of the thread's loop.
AfterSend(t) ==
    IF todo[t] # {}
    THEN /\ \E d \in todo[t] : SendTo(t, d, todo[t] \ {d})
         /\ UNCHANGED pc
    ELSE /\ SendTo(t, NoConn, {})
         /\ CASE pc[t] = "restored" -> \E label \in {"collect", "lookup"} : Goto(t, label)
              [] pc[t] = "goodbye"  -> Goto(t, "cleanup")
              [] OTHER              -> Goto(t, "loop")

Unlocked_OnSuccess(t) == IF pc[t] = "held" THEN Nobody ELSE sessions_mutex

\* The lock_guard of handle_register, if t is in it, dies.
Unlocked(t) == IF sessions_mutex = t THEN Nobody ELSE sessions_mutex

\* One frame, or its failure, which every caller ignores.
Send(t) ==
    /\ dest[t] # NoConn
    /\ LET d == dest[t] IN
       /\ Bare(t) \/ send_mutex[d] = t
       /\ CanSend(d)
       /\ unread' = IF Broken(d) THEN unread ELSE [unread EXCEPT ![d] = @ + 1]
       /\ send_mutex' = IF Bare(t) THEN send_mutex ELSE [send_mutex EXCEPT ![d] = Nobody]
    /\ sessions_mutex' = Unlocked(t)
    /\ AfterSend(t)
    /\ UNCHANGED <<main, sessions, sock>>

-----------------------------------------------------------------------------
\* handle_client.

MutexFree == sessions_mutex = Nobody

\* while (running_), of a client thread and of the watchdog, which sleeps and
\* looks at running_ again before it goes on.
Loop(t) ==
    /\ pc[t] = "loop"
    /\ Goto(t, CASE t = Watchdog /\ running  -> "mark"
                 [] t = Watchdog /\ ~running -> "done"
                 [] t # Watchdog /\ running  -> "recv"
                 [] OTHER                    -> "cleanup")
    /\ UNCHANGED <<main, sessions_mutex, send_mutex, sessions, kernel, dest, todo>>

\* recv_message returns a frame: one that is refused at once, one of a kind of
\* handler, or one that is too long.
Request(c, label) ==
    /\ pc[c] = "recv" /\ ~Broken(c)
    /\ Goto(c, label)
    /\ SendTo(c, IF label = "bare" THEN c ELSE NoConn, {})
    /\ UNCHANGED <<main, sessions_mutex, send_mutex, sessions, kernel>>

Requests == {"bare", "register", "find", "quit", "cleanup"}

\* recv_message fails: the client has gone, or stop() has shut the socket down.
EndOfStream(c) ==
    /\ pc[c] = "recv" /\ Broken(c)
    /\ Goto(c, "cleanup")
    /\ UNCHANGED <<main, sessions_mutex, send_mutex, sessions, kernel, dest, todo>>

HeldPC_LookupAgain == "find"

\* handle_register answers without looking the session up again.
HeldPC == "held"

\* handle_register holds the mutex to its end, past the answer: "already
\* registered" and the welcome go through the session, a name or an address
\* that somebody has is refused bare.
Register(c) ==
    /\ pc[c] = "register" /\ MutexFree
    /\ sessions_mutex' = c
    /\ SendTo(c, c, {})
    /\ \/ Goto(c, HeldPC) /\ sessions' = sessions \cup {c}
       \/ /\ c \notin sessions /\ sessions # {}
          /\ Goto(c, "heldbare") /\ UNCHANGED sessions
    /\ UNCHANGED <<main, send_mutex, kernel>>

\* get_session, and what the handler does first with or without a session.
FindSession(c) ==
    /\ pc[c] = "find" /\ MutexFree
    /\ \/ c \notin sessions /\ Goto(c, "bare") /\ SendTo(c, c, {})
       \/ /\ c \in sessions
          /\ \/ \E label \in {"restored", "answer"} : Goto(c, label) /\ SendTo(c, c, {})
             \/ \E label \in {"collect", "lookup"} : Goto(c, label) /\ SendTo(c, NoConn, {})
    /\ UNCHANGED <<main, sessions_mutex, send_mutex, sessions, kernel>>

HandleQuit(c) ==
    /\ pc[c] = "quit" /\ MutexFree
    /\ \/ c \in sessions /\ Goto(c, "goodbye") /\ SendTo(c, c, {})
       \/ Goto(c, "cleanup") /\ UNCHANGED <<dest, todo>>
    /\ UNCHANGED <<main, sessions_mutex, send_mutex, sessions, kernel>>

\* session->alive, of a session in the registry: stop() resets it.
Alive(d) == d \in sessions /\ sock[d] # "shut"

KeptWhileSending_Yes(c) == c

\* The targets are collected under the mutex and written to without it.
KeptWhileSending(c) == Nobody

CollectTargets(c) ==
    /\ pc[c] = "collect" /\ MutexFree
    /\ sessions_mutex' = KeptWhileSending(c)
    /\ LET targets == {d \in Conn : Alive(d)} IN
       \/ targets = {} /\ Goto(c, "loop") /\ UNCHANGED <<dest, todo>>
       \/ Goto(c, "fan") /\ \E d \in targets : SendTo(c, d, targets \ {d})
    /\ UNCHANGED <<main, send_mutex, sessions, kernel>>

\* The list, somebody's data or an addressee is looked up: the answer follows,
\* with the DM before it if there is anybody to get it.
LookUp(c) ==
    /\ pc[c] = "lookup" /\ MutexFree
    /\ \/ Goto(c, "answer") /\ SendTo(c, c, {})
       \/ Goto(c, "fan") /\ \E d \in Conn : Alive(d) /\ SendTo(c, d, {c})
    /\ UNCHANGED <<main, sessions_mutex, send_mutex, sessions, kernel>>

\* remove_session, then close.
CleanUp(c) ==
    /\ pc[c] = "cleanup" /\ MutexFree
    /\ sessions' = sessions \ {c}
    /\ sock' = [sock EXCEPT ![c] = "shut"]
    /\ unread' = [unread EXCEPT ![c] = 0]
    /\ Goto(c, "done")
    /\ UNCHANGED <<main, sessions_mutex, send_mutex, dest, todo>>

-----------------------------------------------------------------------------
\* watchdog_loop: some users are overdue, and are told so without the mutex.
MarkIdle ==
    /\ pc[Watchdog] = "mark" /\ MutexFree
    /\ \/ Goto(Watchdog, "loop") /\ UNCHANGED <<dest, todo>>
       \/ \E overdue \in SUBSET sessions : \E d \in overdue :
             Goto(Watchdog, "fan") /\ SendTo(Watchdog, d, overdue \ {d})
    /\ UNCHANGED <<main, sessions_mutex, send_mutex, sessions, kernel>>

-----------------------------------------------------------------------------
\* The main thread: run(), the signal handler, ~ChatServer.

AfterRun_Exit == "exited"

\* run() returns to main(), whose end destroys the server, which stops again.
AfterRun == "stop"

\* The socket is bound and listens, or cannot.
Listen ==
    /\ mpc = "begin"
    /\ \/ listening' = TRUE /\ mpc' = "listening"
       \/ mpc' = AfterRun /\ UNCHANGED listening
    /\ UNCHANGED <<running, signalled, accepted, resume, sessions_mutex, send_mutex, sessions,
                   kernel, pc, dest, todo>>

\* running_ = true.
Start ==
    /\ mpc = "listening"
    /\ running' = TRUE
    /\ mpc' = "started"
    /\ UNCHANGED <<listening, signalled, accepted, resume, sessions_mutex, send_mutex, sessions,
                   kernel, pc, dest, todo>>

\* The watchdog is made, although a signal may have reset running_ since.
StartWatchdog ==
    /\ mpc = "started"
    /\ Goto(Watchdog, "loop")
    /\ mpc' = "accept"
    /\ UNCHANGED <<running, listening, signalled, accepted, resume, sessions_mutex, send_mutex,
                   sessions, kernel, dest, todo>>

Accept(c) ==
    /\ mpc = "accept" /\ running /\ listening /\ sock[c] = "none"
    /\ sock' = [sock EXCEPT ![c] = "open"]
    /\ accepted' = c
    /\ mpc' = "spawn"
    /\ UNCHANGED <<running, listening, signalled, resume, sessions_mutex, send_mutex, sessions,
                   unread, pc, dest, todo>>

Spawn ==
    /\ mpc = "spawn"
    /\ Goto(accepted, "loop")
    /\ accepted' = NoConn
    /\ mpc' = "accept"
    /\ UNCHANGED <<running, listening, signalled, resume, sessions_mutex, send_mutex, sessions,
                   kernel, dest, todo>>

LeaveLoop ==
    /\ mpc = "accept" /\ ~running
    /\ mpc' = AfterRun
    /\ UNCHANGED <<running, listening, signalled, accepted, resume, sessions_mutex, send_mutex,
                   sessions, kernel, pc, dest, todo>>

\* A signal interrupts the main thread, which the kernel prefers to the others.
\* Bound: one signal, before run() returns.
Signal ==
    /\ ~signalled /\ mpc \in {"begin", "listening", "started", "accept", "spawn"}
    /\ signalled' = TRUE
    /\ resume' = mpc /\ mpc' = "stop"
    /\ UNCHANGED <<running, listening, accepted, sessions_mutex, send_mutex, sessions,
                   kernel, pc, dest, todo>>

Ended(t) == pc[t] \in {"new", "done"}

\* stop(): the flag and the listener...
StopBegins ==
    /\ mpc = "stop"
    /\ running' = FALSE /\ listening' = FALSE
    /\ mpc' = "join"
    /\ UNCHANGED <<signalled, accepted, resume, sessions_mutex, send_mutex, sessions,
                   kernel, pc, dest, todo>>

\* ... the watchdog...
JoinWatchdog ==
    /\ mpc = "join" /\ Ended(Watchdog)
    /\ mpc' = "shut"
    /\ UNCHANGED <<running, listening, signalled, accepted, resume, sessions_mutex, send_mutex,
                   sessions, kernel, pc, dest, todo>>

Closed_None == {}

\* The sockets that stop() shuts down and closes.
Closed == sessions

\* ... the sockets...
CloseSockets ==
    /\ mpc = "shut" /\ MutexFree
    /\ sock' = [c \in Conn |-> IF c \in Closed THEN "shut" ELSE sock[c]]
    /\ unread' = [c \in Conn |-> IF c \in Closed THEN 0 ELSE unread[c]]
    /\ mpc' = "joinall"
    /\ UNCHANGED <<running, listening, signalled, accepted, resume, sessions_mutex, send_mutex,
                   sessions, pc, dest, todo>>

\* ... and the client threads.
JoinClients ==
    /\ mpc = "joinall" /\ \A c \in Conn : Ended(c)
    /\ mpc' = resume /\ resume' = "exited"
    /\ UNCHANGED <<running, listening, signalled, accepted, sessions_mutex, send_mutex,
                   sessions, kernel, pc, dest, todo>>

-----------------------------------------------------------------------------
ClientStep(c) ==
    \/ Register(c) \/ FindSession(c) \/ HandleQuit(c) \/ CollectTargets(c)
    \/ LookUp(c) \/ EndOfStream(c) \/ CleanUp(c)

WriterStep(t) ==
    \/ Loop(t) \/ LockSend(t) \/ Send(t)
    \/ t \in Conn /\ ClientStep(t)
    \/ t = Watchdog /\ MarkIdle

MainStep ==
    \/ Listen \/ Start \/ StartWatchdog \/ Spawn \/ LeaveLoop
    \/ StopBegins \/ JoinWatchdog \/ CloseSockets \/ JoinClients

Next ==
    \/ \E c \in Conn :
          \/ Drain(c) \/ HangUp(c) \/ Accept(c)
          \/ \E label \in Requests : Request(c, label)
    \/ \E t \in Writer : WriterStep(t)
    \/ MainStep \/ Signal

Spec == Init /\ [][Next]_vars

\* Threads that can run do run; one that waits for a mutex gets it in the end
\* although others take it in turn.
ServerFairness == WF_vars(MainStep) /\ \A t \in Writer : SF_vars(WriterStep(t))

\* A client that has no session asks for one or closes.
Introduce(c) == c \notin sessions /\ (Request(c, "register") \/ HangUp(c))

\* The repository's client (src/client/main.cpp, network.cpp): it registers as
\* soon as it is connected, closes if it is refused, and reads all it is sent.
OrdinaryClients == \A c \in Conn : WF_vars(Drain(c)) /\ WF_vars(Introduce(c))

FairSpec == Spec /\ ServerFairness

OrdinarySpec == FairSpec /\ OrdinaryClients

-----------------------------------------------------------------------------
\* Thread t cannot go on before thread u has done something: u has a mutex that
\* t needs, or t joins u.
Waits(t, u) ==
    \/ t \in Writer /\ pc[t] \in LockPCs /\ sessions_mutex = u
    \/ /\ t \in Writer /\ dest[t] # NoConn /\ ~Bare(t)
       /\ send_mutex[dest[t]] = u /\ u # t
    \/ t = Main /\ mpc = "shut" /\ sessions_mutex = u
    \/ t = Main /\ mpc = "join" /\ u = Watchdog /\ ~Ended(u)
    \/ t = Main /\ mpc = "joinall" /\ u \in Conn /\ ~Ended(u)

\* No threads wait for each other in a circle.  The order of the mutexes
\* (docs/IMPLEMENTATION.md:103-107) excludes it, as long as nobody asks for
\* sessions_mutex_ with a send_mutex or sessions_mutex_ in hand.
NoWaitCycle ==
    \A T \in (SUBSET Thread) \ {{}} : \E t \in T : \A u \in T : ~Waits(t, u)

\* The registry stands still only because of the client that is registering:
\* whoever has sessions_mutex_ over several steps can go on, or waits for a thread
\* that can, unless its own client does not read.
RegistryStall ==
    \A c \in Conn : sessions_mutex = c /\ CanSend(c) =>
        \E t \in Writer :
            /\ t = c \/ Waits(c, t)
            /\ dest[t] = c /\ \A u \in Thread : ~Waits(t, u)

\* No thread outlives the server object, whose members it uses and whose
\* std::threads must not be joinable when they are destroyed.
AllJoined == mpc = "exited" => \A t \in Writer : Ended(t)

\* Whatever a client asks for is done with, if clients read and those without
\* a session register or go: no handler waits for ever.
Served ==
    \A c \in Conn : pc[c] \in SendPCs \cup LockPCs ~> pc[c] \in {"recv", "done"}

\* "Setup signal handlers for clean shutdown" (server/main.cpp:36): a signal ends
\* the server from the moment running_ is set, be it before the watchdog is made
\* or between accept and the new thread, and so does the end of run().  A signal
\* before that moment is lost: run() sets running_ when stop() has returned.
StopsOnSignal == mpc = "stop" /\ resume \notin {"begin", "listening"} ~> mpc = "exited"

=============================================================================
