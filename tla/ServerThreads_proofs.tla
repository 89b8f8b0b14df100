------------------------ MODULE ServerThreads_proofs ------------------------
(***************************************************************************)
(* Theorems about ServerThreads: for any number of clients, however small  *)
(* the room of their sockets, and whatever they ask for or do not read.    *)
(***************************************************************************)
EXTENDS ServerThreads, TLAPS

-----------------------------------------------------------------------------
(* Types *)

\* The types hold initially.
LEMMA TypeInit == Init => TypeOK
<1>. SUFFICES ASSUME Init PROVE TypeOK
  OBVIOUS
<1>1. unread \in [Conn -> 0..Room]
  BY ConstantsOK DEF Init
<1>2. dest \in [Writer -> Conn \cup {NoConn}] /\ todo \in [Writer -> SUBSET Conn]
  BY DEF Init
<1>3. send_mutex \in [Conn -> Writer \cup {Nobody}]
  BY DEF Init
<1>. QED BY <1>1, <1>2, <1>3 DEF Init, TypeOK

\* Where a thread goes and to whom it sends next.
LEMMA GotoType ==
    ASSUME TypeOK, NEW t \in Writer, NEW label \in {"loop", "recv", "done"} \cup SendPCs \cup LockPCs,
           Goto(t, label)
    PROVE  pc' \in [Writer -> {"new", "loop", "recv", "done"} \cup SendPCs \cup LockPCs]
  BY DEF TypeOK, Goto

\* To whom a step makes a thread write next.
LEMMA SendToType ==
    ASSUME TypeOK, NEW t \in Writer, NEW d \in Conn \cup {NoConn}, NEW x \in SUBSET Conn,
           SendTo(t, d, x)
    PROVE  dest' \in [Writer -> Conn \cup {NoConn}] /\ todo' \in [Writer -> SUBSET Conn]
  BY DEF TypeOK, SendTo

\* Sending: the mutex taken, or the frame in the socket and the mutex released.
LEMMA TypeSends ==
    ASSUME TypeOK, NEW t \in Writer, LockSend(t) \/ Send(t)
    PROVE  TypeOK'
<1>1. CASE LockSend(t)
  BY <1>1 DEF LockSend, TypeOK, main, kernel
<1>2. CASE Send(t)
  <2>1. dest[t] \in Conn
    BY <1>2 DEF Send, TypeOK
  <2>2. unread' \in [Conn -> 0..Room]
    <3>1. CASE unread' = unread
      BY <3>1 DEF TypeOK
    <3>2. CASE unread[dest[t]] < Room /\ unread' = [unread EXCEPT ![dest[t]] = @ + 1]
      BY <2>1, <3>2, ConstantsOK DEF TypeOK
    <3>. QED BY <1>2, <3>1, <3>2 DEF Send, CanSend
  <2>3. send_mutex' \in [Conn -> Writer \cup {Nobody}]
    BY <1>2, <2>1 DEF Send, TypeOK
  <2>4. sessions_mutex' \in Conn \cup {Nobody}
    BY <1>2 DEF Send, Unlocked, TypeOK
  <2>5. /\ pc' \in [Writer -> {"new", "loop", "recv", "done"} \cup SendPCs \cup LockPCs]
        /\ dest' \in [Writer -> Conn \cup {NoConn}] /\ todo' \in [Writer -> SUBSET Conn]
    <3>1. CASE todo[t] # {}
      BY <1>2, <3>1, SendToType DEF Send, AfterSend, TypeOK
    <3>2. CASE todo[t] = {}
      BY <1>2, <3>2, SendToType, GotoType DEF Send, AfterSend, TypeOK, SendPCs, LockPCs
    <3>. QED BY <3>1, <3>2
  <2>. QED BY <1>2, <2>2, <2>3, <2>4, <2>5 DEF Send, TypeOK, main
<1>. QED BY <1>1, <1>2

\* The other steps of the client threads and of the watchdog.
LEMMA TypeThreads ==
    ASSUME TypeOK, NEW t \in Writer,
           \/ Loop(t) \/ (t \in Conn /\ ClientStep(t)) \/ (t = Watchdog /\ MarkIdle)
           \/ (t \in Conn /\ \E label \in Requests : Request(t, label))
    PROVE  TypeOK'
<1>. USE DEF TypeOK
<1>1. CASE Loop(t)
  BY <1>1, GotoType DEF Loop, SendPCs, LockPCs, main, kernel
<1>2. ASSUME t \in Conn, NEW label \in Requests, Request(t, label) PROVE TypeOK'
  <2>1. pc' \in [Writer -> {"new", "loop", "recv", "done"} \cup SendPCs \cup LockPCs]
    BY <1>2, GotoType DEF Request, Requests, SendPCs, LockPCs
  <2>2. /\ (IF label = "bare" THEN t ELSE NoConn) \in Conn \cup {NoConn}
        /\ {} \in SUBSET Conn
    BY <1>2
  <2>3. dest' \in [Writer -> Conn \cup {NoConn}] /\ todo' \in [Writer -> SUBSET Conn]
    BY <1>2, <2>2, SendToType DEF Request
  <2>. QED BY <1>2, <2>1, <2>3 DEF Request, main, kernel
<1>3. CASE t \in Conn /\ Register(t)
  <2>1. pc' \in [Writer -> {"new", "loop", "recv", "done"} \cup SendPCs \cup LockPCs]
    BY <1>3, GotoType DEF Register, HeldPC, SendPCs
  <2>2. dest' \in [Writer -> Conn \cup {NoConn}] /\ todo' \in [Writer -> SUBSET Conn]
    BY <1>3, SendToType DEF Register
  <2>. QED BY <1>3, <2>1, <2>2 DEF Register, main, kernel
<1>4. CASE t \in Conn /\ FindSession(t)
  <2>1. pc' \in [Writer -> {"new", "loop", "recv", "done"} \cup SendPCs \cup LockPCs]
    BY <1>4, GotoType DEF FindSession, SendPCs, LockPCs
  <2>2. dest' \in [Writer -> Conn \cup {NoConn}] /\ todo' \in [Writer -> SUBSET Conn]
    BY <1>4, SendToType DEF FindSession
  <2>. QED BY <1>4, <2>1, <2>2 DEF FindSession, main, kernel
<1>5. CASE t \in Conn /\ HandleQuit(t)
  BY <1>5, GotoType, SendToType DEF HandleQuit, SendPCs, LockPCs, main, kernel
<1>6. CASE t \in Conn /\ CollectTargets(t)
  <2>1. CASE Goto(t, "loop") /\ UNCHANGED <<dest, todo>>
    BY <1>6, <2>1, GotoType DEF CollectTargets, KeptWhileSending, main, kernel
  <2>2. ASSUME NEW others \in SUBSET Conn, NEW d \in others,
               Goto(t, "fan"), SendTo(t, d, others \ {d})
        PROVE  TypeOK'
    <3>1. d \in Conn /\ others \ {d} \in SUBSET Conn
      OBVIOUS
    <3>2. pc' \in [Writer -> {"new", "loop", "recv", "done"} \cup SendPCs \cup LockPCs]
      BY <2>2, GotoType DEF SendPCs
    <3>. QED BY <1>6, <2>2, <3>1, <3>2, SendToType DEF CollectTargets, KeptWhileSending, main, kernel
  <2>. QED BY <1>6, <2>1, <2>2 DEF CollectTargets
<1>7. CASE t \in Conn /\ LookUp(t)
  BY <1>7, GotoType, SendToType DEF LookUp, SendPCs, LockPCs, main, kernel
<1>8. CASE t \in Conn /\ (EndOfStream(t) \/ CleanUp(t))
  BY <1>8, GotoType, ConstantsOK DEF EndOfStream, CleanUp, SendPCs, LockPCs, main, kernel
<1>9. CASE t = Watchdog /\ MarkIdle
  <2>1. CASE Goto(t, "loop") /\ UNCHANGED <<dest, todo>>
    BY <1>9, <2>1, GotoType DEF MarkIdle, main, kernel
  <2>2. ASSUME NEW overdue \in SUBSET sessions, NEW d \in overdue,
               Goto(t, "fan"), SendTo(t, d, overdue \ {d})
        PROVE  TypeOK'
    <3>1. d \in Conn /\ overdue \ {d} \in SUBSET Conn
      OBVIOUS
    <3>. QED BY <1>9, <2>2, <3>1, GotoType, SendToType DEF MarkIdle, SendPCs, main, kernel
  <2>. QED BY <1>9, <2>1, <2>2 DEF MarkIdle
<1>. QED BY <1>1, <1>2, <1>3, <1>4, <1>5, <1>6, <1>7, <1>8, <1>9 DEF ClientStep

\* The clients and the main thread.
LEMMA TypeOthers ==
    ASSUME TypeOK,
           \/ \E c \in Conn : Drain(c) \/ HangUp(c) \/ Accept(c)
           \/ MainStep \/ Signal
    PROVE  TypeOK'
<1>. USE ConstantsOK DEF TypeOK
<1>1. ASSUME NEW c \in Conn, Drain(c) \/ HangUp(c) \/ Accept(c) PROVE TypeOK'
  BY <1>1 DEF Drain, HangUp, Accept, main, kernel
<1>2. CASE Listen \/ LeaveLoop \/ Signal \/ StopBegins \/ JoinWatchdog \/ JoinClients
  BY <1>2 DEF Listen, LeaveLoop, AfterRun, Signal, StopBegins, JoinWatchdog, JoinClients, kernel
<1>3. CASE Start \/ StartWatchdog
  BY <1>3, GotoType DEF Start, StartWatchdog, Writer, kernel
<1>4. CASE Spawn
  BY <1>4 DEF Spawn, Goto, Writer, kernel
<1>5. CASE CloseSockets
  BY <1>5 DEF CloseSockets
<1>. QED BY <1>1, <1>2, <1>3, <1>4, <1>5 DEF MainStep

\* Every step keeps the types.
LEMMA TypeNext == TypeOK /\ [Next]_vars => TypeOK'
<1>. SUFFICES ASSUME TypeOK, [Next]_vars PROVE TypeOK'
  OBVIOUS
<1>1. CASE UNCHANGED vars
  BY <1>1 DEF TypeOK, vars, main, kernel
<1>2. CASE Next
  BY <1>2, TypeSends, TypeThreads, TypeOthers DEF Next, WriterStep, Writer
<1>. QED BY <1>1, <1>2

\* Every variable keeps its type, and no socket ever holds more than it has room
\* for, whatever the clients do not read.
THEOREM TypeCorrect == Spec => []TypeOK
<1>. QED BY TypeInit, TypeNext, PTL DEF Spec

-----------------------------------------------------------------------------
(* Who holds what *)

\* A thread has somebody to send to only where it sends.
Located == \A t \in Writer : dest[t] # NoConn => pc[t] \in SendPCs

\* sessions_mutex_ is kept over several steps by handle_register only, which
\* sends to its own client; a send_mutex by a thread in send_locked, which sends
\* to that session and needs no mutex any more.
Held ==
    /\ \A c \in Conn : sessions_mutex = c => pc[c] \in {"held", "heldbare"} /\ dest[c] = c
    /\ \A d \in Conn : \A w \in Writer :
          send_mutex[d] = w => dest[w] = d /\ pc[w] \in SendPCs /\ ~Bare(w)

Locks == Located /\ Held

\* A step of a thread in which it does not send: the mutexes of the sessions stay
\* as they are, and so do the other threads.
QuietMove(t) ==
    /\ pc[t] \notin SendPCs \cup {"new", "done"}
    /\ UNCHANGED <<main, send_mutex>>
    /\ \A u \in Writer \ {t} : pc'[u] = pc[u] /\ dest'[u] = dest[u]
    /\ dest'[t] # NoConn => pc'[t] \in SendPCs
    /\ \/ sessions_mutex' = sessions_mutex
       \/ sessions_mutex' = Nobody
       \/ sessions_mutex' = t /\ pc'[t] \in {"held", "heldbare"} /\ dest'[t] = t

\* The steps of the handlers are quiet.
LEMMA HandlersMove ==
    ASSUME TypeOK, Located, NEW c \in Conn,
           ClientStep(c) \/ \E label \in Requests : Request(c, label)
    PROVE  QuietMove(c)
<1>. USE DEF TypeOK, Located, QuietMove, Goto, SendTo, Writer
<1>1. ASSUME NEW label \in Requests, Request(c, label) PROVE QuietMove(c)
  BY <1>1 DEF Request, SendPCs, Requests
<1>2. CASE Register(c)
  BY <1>2 DEF Register, HeldPC, SendPCs
<1>3. CASE FindSession(c)
  BY <1>3 DEF FindSession, SendPCs
<1>4. CASE HandleQuit(c)
  BY <1>4 DEF HandleQuit, SendPCs
<1>5. CASE CollectTargets(c)
  BY <1>5 DEF CollectTargets, KeptWhileSending, MutexFree, SendPCs
<1>6. CASE LookUp(c)
  BY <1>6 DEF LookUp, SendPCs
<1>7. CASE EndOfStream(c) \/ CleanUp(c)
  BY <1>7 DEF EndOfStream, CleanUp, SendPCs
<1>. QED BY <1>1, <1>2, <1>3, <1>4, <1>5, <1>6, <1>7 DEF ClientStep

\* So are those of the threads' loops and of the watchdog.
LEMMA LoopsMove ==
    ASSUME TypeOK, Located, NEW t \in Writer, Loop(t) \/ (t = Watchdog /\ MarkIdle)
    PROVE  QuietMove(t)
<1>. USE DEF TypeOK, Located, QuietMove, Goto, SendTo
<1>1. CASE Loop(t)
  BY <1>1 DEF Loop, SendPCs
<1>2. CASE t = Watchdog /\ MarkIdle
  BY <1>2 DEF MarkIdle, SendPCs
<1>. QED BY <1>1, <1>2

\* A quiet step keeps the mutexes with their owners.
LEMMA QuietKeepsLocks ==
    ASSUME TypeOK, Locks, NEW t \in Writer, QuietMove(t)
    PROVE  Locks'
<1>1. Located'
  BY DEF Locks, Located, QuietMove
<1>2. ASSUME NEW c \in Conn, sessions_mutex' = c
      PROVE  pc'[c] \in {"held", "heldbare"} /\ dest'[c] = c
  <2>1. CASE sessions_mutex' = sessions_mutex
    <3>1. c # t
      BY <1>2, <2>1 DEF Locks, Held, QuietMove, SendPCs
    <3>. QED BY <1>2, <2>1, <3>1 DEF Locks, Held, QuietMove, Writer
  <2>2. CASE sessions_mutex' # sessions_mutex
    <3>1. c # Nobody
      BY ConstantsOK DEF Thread, Writer
    <3>. QED BY <1>2, <2>2, <3>1 DEF QuietMove
  <2>. QED BY <2>1, <2>2
<1>3. ASSUME NEW d \in Conn, NEW w \in Writer, send_mutex'[d] = w
      PROVE  dest'[w] = d /\ pc'[w] \in SendPCs /\ ~Bare(w)'
  <2>1. send_mutex[d] = w
    BY <1>3 DEF QuietMove
  <2>2. w # t
    BY <2>1 DEF Locks, Held, QuietMove
  <2>. QED BY <2>1, <2>2 DEF Locks, Held, QuietMove, Bare
<1>. QED BY <1>1, <1>2, <1>3 DEF Locks, Held

\* A send releases what its thread held.
LEMMA SendKeepsLocks ==
    ASSUME TypeOK, Locks, NEW t \in Writer, Send(t)
    PROVE  Locks'
<1>1. /\ dest[t] \in Conn /\ pc[t] \in SendPCs
      /\ \A u \in Writer \ {t} : pc'[u] = pc[u] /\ dest'[u] = dest[u]
      /\ dest'[t] # NoConn => pc'[t] \in SendPCs
  BY DEF Send, AfterSend, SendTo, Goto, TypeOK, Locks, Located
<1>2. Located'
  BY <1>1 DEF Locks, Located
<1>3. ASSUME NEW c \in Conn, sessions_mutex' = c
      PROVE  pc'[c] \in {"held", "heldbare"} /\ dest'[c] = c
  <2>1. sessions_mutex = c /\ c # t
    BY <1>3, ConstantsOK DEF Send, Unlocked, Thread, Writer
  <2>. QED BY <1>1, <2>1 DEF Locks, Held, Writer
<1>4. ASSUME NEW d \in Conn, NEW w \in Writer, send_mutex'[d] = w
      PROVE  dest'[w] = d /\ pc'[w] \in SendPCs /\ ~Bare(w)'
  <2>0. w # Nobody
    BY ConstantsOK DEF Thread
  <2>1. send_mutex[d] = w
    BY <1>1, <1>4, <2>0 DEF Send, TypeOK
  <2>2. dest[w] = d /\ pc[w] \in SendPCs /\ ~Bare(w)
    BY <2>1 DEF Locks, Held
  <2>3. w # t
    BY <1>1, <1>4, <2>0, <2>2 DEF Send, TypeOK
  <2>. QED BY <1>1, <2>2, <2>3 DEF Bare
<1>. QED BY <1>2, <1>3, <1>4 DEF Locks, Held

\* Where the main thread is in stop().
Stopping == mpc \in {"stop", "join", "shut", "joinall"}

\* A thread is made once: for a connection when it has been accepted, and the
\* watchdog when run() begins, although a signal handler may come in between.
Newborn ==
    /\ \A c \in Conn : sock[c] = "none" => pc[c] = "new"
    /\ accepted # NoConn => pc[accepted] = "new" /\ sock[accepted] # "none"
    /\ mpc \in {"begin", "listening", "started"} => pc[Watchdog] = "new"
    /\ Stopping /\ resume \in {"begin", "listening", "started"} => pc[Watchdog] = "new"
    /\ ~Stopping => resume = "exited"

\* What a thread's step does to the threads that are there.
LEMMA ThreadsMove ==
    ASSUME TypeOK, Located, NEW t \in Writer,
           WriterStep(t) \/ (t \in Conn /\ \E label \in Requests : Request(t, label))
    PROVE  /\ ~Ended(t) /\ UNCHANGED main
           /\ \A u \in Writer \ {t} : pc'[u] = pc[u]
           /\ \A c \in Conn : sock'[c] = sock[c] \/ sock'[c] # "none"
<1>1. CASE LockSend(t) \/ Send(t)
  <2>1. pc[t] \in SendPCs
    BY <1>1 DEF LockSend, Send, Located
  <2>. QED BY <1>1, <2>1 DEF LockSend, Send, AfterSend, Goto, kernel, SendPCs, Ended, TypeOK
<1>2. CASE QuietMove(t) /\ (UNCHANGED sock \/ (t \in Conn /\ CleanUp(t)))
  BY <1>2 DEF QuietMove, CleanUp, Ended, TypeOK
<1>3. CASE Loop(t) \/ (t = Watchdog /\ MarkIdle)
  BY <1>2, <1>3, LoopsMove DEF Loop, MarkIdle, kernel
<1>4. CASE t \in Conn /\ (ClientStep(t) \/ \E label \in Requests : Request(t, label))
  <2>1. UNCHANGED sock \/ CleanUp(t)
    BY <1>4 DEF ClientStep, Request, Register, FindSession, HandleQuit, CollectTargets,
       LookUp, EndOfStream, kernel
  <2>. QED BY <1>2, <1>4, <2>1, HandlersMove
<1>. QED BY <1>1, <1>3, <1>4 DEF WriterStep

\* Threads are started once.
LEMMA NewbornNext == TypeOK /\ Located /\ Newborn /\ [Next]_vars => Newborn'
<1>. SUFFICES ASSUME TypeOK, Located, Newborn, [Next]_vars PROVE Newborn'
  OBVIOUS
<1>. USE DEF Newborn, Stopping
<1>1. ASSUME NEW t \in Writer, ~Ended(t), UNCHANGED main,
             \A u \in Writer \ {t} : pc'[u] = pc[u],
             \A c \in Conn : sock'[c] = sock[c] \/ sock'[c] # "none"
      PROVE  Newborn'
  <2>1. \A u \in Writer : pc[u] = "new" => pc'[u] = "new"
    BY <1>1 DEF Ended
  <2>2. accepted \in Conn \cup {NoConn} /\ accepted' = accepted /\ mpc' = mpc /\ resume' = resume
    BY <1>1 DEF TypeOK, main
  <2>3. accepted # NoConn => sock'[accepted] # "none"
    BY <1>1, <2>2
  <2>. QED BY <1>1, <2>1, <2>2, <2>3 DEF Writer
<1>2. ASSUME NEW t \in Writer, WriterStep(t) PROVE Newborn'
  BY <1>1, <1>2, ThreadsMove
<1>3. ASSUME NEW c \in Conn, NEW label \in Requests, Request(c, label) PROVE Newborn'
  BY <1>1, <1>3, ThreadsMove DEF Writer
<1>4. ASSUME NEW c \in Conn, Drain(c) \/ HangUp(c) \/ Accept(c) PROVE Newborn'
  BY <1>4 DEF Drain, HangUp, Accept, main, TypeOK
<1>5. CASE Listen \/ LeaveLoop \/ Signal \/ StopBegins \/ JoinWatchdog \/ JoinClients
  BY <1>5 DEF Listen, LeaveLoop, AfterRun, Signal, StopBegins, JoinWatchdog, JoinClients,
     kernel, TypeOK
<1>6. CASE Start \/ StartWatchdog
  BY <1>6, ConstantsOK DEF Start, StartWatchdog, Goto, kernel, TypeOK, Writer
<1>7. CASE Spawn
  BY <1>7, ConstantsOK DEF Spawn, Goto, kernel, TypeOK, Writer
<1>8. CASE CloseSockets
  BY <1>8 DEF CloseSockets, TypeOK
<1>9. CASE UNCHANGED vars
  BY <1>9 DEF vars, main, kernel
<1>. QED BY <1>2, <1>3, <1>4, <1>5, <1>6, <1>7, <1>8, <1>9 DEF Next, MainStep

\* Each mutex is with the thread whose place says so.
LEMMA LocksNext == TypeOK /\ Newborn /\ Locks /\ [Next]_vars => Locks'
<1>. SUFFICES ASSUME TypeOK, Newborn, Locks, [Next]_vars PROVE Locks'
  OBVIOUS
<1>1. ASSUME NEW t \in Writer, WriterStep(t) PROVE Locks'
  <2>1. CASE LockSend(t)
    BY <2>1 DEF LockSend, Locks, Located, Held, Bare, TypeOK
  <2>2. CASE Send(t)
    BY <2>2, SendKeepsLocks
  <2>3. CASE \/ Loop(t) \/ (t = Watchdog /\ MarkIdle)
             \/ (t \in Conn /\ ClientStep(t))
    BY <2>3, HandlersMove, LoopsMove, QuietKeepsLocks DEF Locks
  <2>. QED BY <1>1, <2>1, <2>2, <2>3 DEF WriterStep
<1>2. ASSUME NEW c \in Conn, NEW label \in Requests, Request(c, label) PROVE Locks'
  BY <1>2, HandlersMove, QuietKeepsLocks DEF Locks, Writer
<1>3. CASE UNCHANGED <<sessions_mutex, send_mutex, pc, dest>>
  BY <1>3 DEF Locks, Located, Held, Bare
<1>4. CASE StartWatchdog \/ Spawn
  <2>1. ASSUME NEW t, Goto(t, "loop"), t \in Writer => pc[t] = "new"
        PROVE  \A u \in Writer : pc[u] \in SendPCs => pc'[u] = pc[u]
    BY <2>1 DEF Goto, TypeOK, SendPCs
  <2>2. \A u \in Writer : pc[u] \in SendPCs => pc'[u] = pc[u]
    <3>1. CASE StartWatchdog
      BY <2>1, <3>1 DEF StartWatchdog, Newborn
    <3>2. CASE Spawn
      <4>1. accepted \in Writer => pc[accepted] = "new"
        BY <3>2, ConstantsOK DEF Spawn, Newborn, TypeOK, Writer
      <4>. QED BY <2>1, <3>2, <4>1 DEF Spawn
    <3>. QED BY <1>4, <3>1, <3>2
  <2>3. UNCHANGED <<sessions_mutex, send_mutex, dest>>
    BY <1>4 DEF StartWatchdog, Spawn
  <2>4. Located'
    BY <2>2, <2>3 DEF Locks, Located
  <2>5. Held'
    BY <2>2, <2>3 DEF Locks, Held, Bare, SendPCs, Writer
  <2>. QED BY <2>4, <2>5 DEF Locks
<1>5. CASE \/ \E c \in Conn : Drain(c) \/ HangUp(c) \/ Accept(c)
           \/ Listen \/ Start \/ LeaveLoop \/ StopBegins \/ JoinWatchdog \/ CloseSockets
           \/ JoinClients \/ Signal \/ UNCHANGED vars
  BY <1>3, <1>5 DEF Drain, HangUp, Accept, Listen, Start, LeaveLoop, StopBegins, JoinWatchdog,
     CloseSockets, JoinClients, Signal, vars
<1>. QED BY <1>1, <1>2, <1>4, <1>5 DEF Next, MainStep

-----------------------------------------------------------------------------
(* Who waits for whom *)

ThreadsInv == TypeOK /\ Newborn /\ Locks

\* The invariants together.
LEMMA ThreadsInvariant == Spec => []ThreadsInv
<1>1. Init => ThreadsInv
  <2>. SUFFICES ASSUME Init PROVE ThreadsInv
    OBVIOUS
  <2>1. Newborn
    BY ConstantsOK DEF Init, Newborn, Stopping, Writer
  <2>2. Located
    BY DEF Init, Located
  <2>3. Held
    BY ConstantsOK DEF Init, Held, Writer, Thread
  <2>. QED BY <2>1, <2>2, <2>3, TypeInit DEF ThreadsInv, Locks
<1>2. ThreadsInv /\ [Next]_vars => ThreadsInv'
  BY TypeNext, NewbornNext, LocksNext DEF ThreadsInv, Locks
<1>. QED BY <1>1, <1>2, PTL DEF Spec

\* Who has the send_mutex of a session waits for nobody.
LEMMA SendersGoOn ==
    ASSUME ThreadsInv, NEW d \in Conn, NEW w \in Writer, send_mutex[d] = w, NEW u
    PROVE  ~Waits(w, u)
<1>1. dest[w] = d /\ pc[w] \in SendPCs
  BY DEF ThreadsInv, Locks, Held
<1>2. pc[w] \notin LockPCs /\ w # Main
  BY <1>1, ConstantsOK DEF SendPCs, LockPCs, Writer
<1>. QED BY <1>1, <1>2 DEF Waits

\* Who has sessions_mutex_ waits at most for somebody that has a send_mutex.
LEMMA RegistrarWaitsForSender ==
    ASSUME ThreadsInv, NEW c \in Conn, sessions_mutex = c, NEW u, Waits(c, u)
    PROVE  send_mutex[c] = u /\ dest[c] = c
<1>1. pc[c] \in {"held", "heldbare"} /\ dest[c] = c
  BY DEF ThreadsInv, Locks, Held
<1>. QED BY <1>1, ConstantsOK DEF Waits, LockPCs, Writer

\* Every set of threads has one that waits for none of the others.
LEMMA NoCircle == ThreadsInv => NoWaitCycle
<1>. SUFFICES ASSUME ThreadsInv, NEW T \in SUBSET Thread, T # {},
                     \A t \in T : \E u \in T : Waits(t, u)
              PROVE  FALSE
  BY DEF NoWaitCycle
<1>1. ASSUME NEW d \in Conn, send_mutex[d] \in T \cap Writer PROVE FALSE
  BY <1>1, SendersGoOn
<1>2. ASSUME NEW c \in Conn, c \in T, sessions_mutex = c PROVE FALSE
  <2>1. PICK u \in T : Waits(c, u)
    BY <1>2
  <2>2. send_mutex[c] = u
    BY <1>2, <2>1, RegistrarWaitsForSender
  <2>3. u \in Writer
    BY <2>2, ConstantsOK DEF ThreadsInv, TypeOK, Thread
  <2>. QED BY <1>1, <2>2, <2>3
<1>3. ASSUME NEW t \in Writer, t \in T PROVE FALSE
  <2>1. PICK u \in T : Waits(t, u)
    BY <1>3
  <2>2. CASE sessions_mutex = u
    <3>1. u \in Conn
      BY <2>2, ConstantsOK DEF ThreadsInv, TypeOK, Thread
    <3>. QED BY <1>2, <2>2, <3>1
  <2>3. CASE dest[t] # NoConn /\ send_mutex[dest[t]] = u
    <3>1. dest[t] \in Conn /\ u \in Writer
      BY <1>3, <2>3, ConstantsOK DEF ThreadsInv, TypeOK, Thread
    <3>. QED BY <1>1, <2>3, <3>1
  <2>. QED BY <1>3, <2>1, <2>2, <2>3, ConstantsOK DEF Waits, Thread
<1>4. PICK t \in T : TRUE
  OBVIOUS
<1>5. t = Main
  BY <1>3, <1>4 DEF Thread
<1>6. PICK u \in T : Waits(Main, u)
  BY <1>4, <1>5
<1>7. u \in Writer
  BY <1>6, ConstantsOK DEF Waits, ThreadsInv, TypeOK, Thread, Writer
<1>. QED BY <1>3, <1>7

\* The threads of the server, the main thread in stop() included, never wait for
\* each other in a circle (the lock order of docs/IMPLEMENTATION.md:103-107).
THEOREM NeverAWaitCycle == Spec => []NoWaitCycle
  BY ThreadsInvariant, NoCircle, PTL

\* A registration that holds the registry up, while its own client has room for
\* the answer, can go on or waits for a thread that can (server.cpp:290-362).
THEOREM StallsOnlyForItsClient == Spec => []RegistryStall
<1>1. ThreadsInv => RegistryStall
  <2>. SUFFICES ASSUME ThreadsInv, NEW c \in Conn, sessions_mutex = c, CanSend(c)
                PROVE  \E t \in Writer :
                          /\ t = c \/ Waits(c, t)
                          /\ dest[t] = c /\ \A u \in Thread : ~Waits(t, u)
    BY DEF RegistryStall
  <2>1. dest[c] = c /\ c \in Writer
    BY DEF ThreadsInv, Locks, Held, Writer
  <2>2. CASE \A u \in Thread : ~Waits(c, u)
    BY <2>1, <2>2
  <2>3. ASSUME NEW u \in Thread, Waits(c, u)
        PROVE  /\ u \in Writer /\ dest[u] = c
               /\ \A v \in Thread : ~Waits(u, v)
    <3>1. send_mutex[c] = u
      BY <2>3, RegistrarWaitsForSender
    <3>2. u \in Writer
      BY <3>1, ConstantsOK DEF ThreadsInv, TypeOK, Thread
    <3>. QED BY <3>1, <3>2, SendersGoOn DEF ThreadsInv, Locks, Held
  <2>. QED BY <2>1, <2>2, <2>3
<1>. QED BY <1>1, ThreadsInvariant, PTL

-----------------------------------------------------------------------------
(* The end *)

\* stop() joins the watchdog before it looks at the clients, and a thread that
\* has ended does nothing more.
Joined ==
    /\ mpc \in {"shut", "joinall", "exited"} => Ended(Watchdog)
    /\ mpc = "exited" => \A c \in Conn : Ended(c)

\* Every step of stop() keeps to its order.
LEMMA JoinedNext == ThreadsInv /\ Joined /\ [Next]_vars => Joined'
<1>. SUFFICES ASSUME ThreadsInv, Joined, [Next]_vars PROVE Joined'
  OBVIOUS
<1>1. ASSUME NEW t \in Writer, ~Ended(t), UNCHANGED main,
             \A u \in Writer \ {t} : pc'[u] = pc[u]
      PROVE  Joined'
  BY <1>1 DEF Joined, Ended, main, Writer
<1>2. ASSUME NEW t \in Writer, WriterStep(t) PROVE Joined'
  BY <1>1, <1>2, ThreadsMove DEF ThreadsInv, Locks
<1>3. ASSUME NEW c \in Conn, NEW label \in Requests, Request(c, label) PROVE Joined'
  BY <1>1, <1>3, ThreadsMove DEF ThreadsInv, Locks, Writer
<1>4. ASSUME NEW c \in Conn, Drain(c) \/ HangUp(c) \/ Accept(c) PROVE Joined'
  BY <1>4 DEF Drain, HangUp, Accept, main, Joined, Ended
<1>5. CASE \/ Listen \/ LeaveLoop \/ Signal \/ StopBegins \/ JoinWatchdog \/ JoinClients
           \/ CloseSockets \/ UNCHANGED vars
  BY <1>5 DEF Listen, LeaveLoop, AfterRun, Signal, StopBegins, JoinWatchdog, JoinClients,
     CloseSockets, vars, main, Joined, Ended, ThreadsInv, TypeOK
<1>6. CASE Start \/ StartWatchdog \/ Spawn
  BY <1>6 DEF Start, StartWatchdog, Spawn, Joined
<1>. QED BY <1>2, <1>3, <1>4, <1>5, <1>6 DEF Next, MainStep

\* When the server object is destroyed no thread of its runs any more, however
\* often and from wherever stop() has been called (server.cpp:139-176).
THEOREM AllAlwaysJoined == Spec => []AllJoined
<1>1. Init => Joined
  BY DEF Init, Joined
<1>2. Joined => AllJoined
  BY DEF Joined, AllJoined, Writer
<1>. QED BY <1>1, <1>2, JoinedNext, ThreadsInvariant, PTL DEF Spec

=============================================================================
