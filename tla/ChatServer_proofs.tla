-------------------------- MODULE ChatServer_proofs --------------------------
(***************************************************************************)
(* Theorems about ChatServer, for any clients, descriptors, names,         *)
(* addresses and requests.                                                 *)
(***************************************************************************)
EXTENDS ChatServer, TLAPS

-----------------------------------------------------------------------------
(* Types *)

\* A thread inside a handler holds a request that the handler accepts.
RequestFits ==
    \A c \in Conn :
        /\ pc[c] \in {"restore", "restored"} => req[c].type \in {"MESSAGE_GENERAL", "MESSAGE_DM"}
        /\ pc[c] = "setstatus" => req[c].type = "CHANGE_STATUS" /\ req[c].status \in Status
        /\ pc[c] = "remember" =>
              /\ req[c].type \in {"MESSAGE_GENERAL", "MESSAGE_DM", "CHANGE_STATUS"}
              /\ req[c].type = "CHANGE_STATUS" => req[c].status \in Status
        /\ pc[c] = "touch" => req[c].type \in SessionTypes

Typed == TypeOK /\ RequestFits

\* Every frame the actions build is one.
LEMMA NewFrameType ==
    ASSUME NEW c \in Conn \cup {Watchdog}, NEW m \in Messages, NEW d \in Conn,
           NEW k \in Nat, NEW r \in RequestType
    PROVE  NewFrame(c, m, d, k, r) \in Frame
  BY DEF NewFrame, Frame

\* Sending keeps the wires sequences of frames, whatever the descriptor denotes.
LEMMA SendType ==
    ASSUME TypeOK, NEW d \in Conn, NEW m \in Frame, Send(d, m)
    PROVE  wire' \in [Conn -> Seq(Frame)]
<1>1. wire \in [Conn -> Seq(Frame)]
  BY DEF TypeOK
<1>2. ASSUME NEW x \in Conn PROVE Append(wire[x], m) \in Seq(Frame)
  BY <1>1
<1>3. ASSUME NEW x PROVE [wire EXCEPT ![x] = Append(@, m)] \in [Conn -> Seq(Frame)]
  <2>1. CASE x \in Conn
    BY <1>1, <1>2, <2>1
  <2>2. CASE x \notin Conn
    BY <1>1, <2>2
  <2>. QED BY <2>1, <2>2
<1>. QED BY <1>1, <1>3 DEF Send

\* An empty request is a request.
LEMMA NoRequestType == NoRequest \in RequestType
  BY DEF NoRequest, RequestType, SessionTypes, Status

\* The initial state is well typed.
LEMMA TypedInit == Init => Typed
  BY ConstantsOK, NoRequestType DEF Init, Typed, TypeOK, RequestFits, Status, PCs, Answers

\* Everything a request carries has its type.
LEMMA RequestParts ==
    ASSUME NEW r \in RequestType
    PROVE  /\ r.type \in SessionTypes \cup {"REGISTER", "QUIT", "UNKNOWN", "TOO_LONG", "NONE"}
           /\ r.parses \in BOOLEAN
           /\ r.user \in Name \cup {NoName}
           /\ r.status \in Status \cup {"INVALID"}
  BY DEF RequestType

\* Reading and serving a request.
LEMMA TypedServe ==
    ASSUME Typed, NEW c \in Conn, NEW r \in Requests[c], Serve(c, r)
    PROVE  Typed'
<1>. USE DEF Typed, TypeOK, RequestFits, net, registry, identity, presence, history, locals, dog
<1>0. r \in RequestType
  BY ConstantsOK
<1>1. CASE RefuseRegister(c, r)
  BY <1>0, <1>1 DEF RefuseRegister, Read, Answer, Goto, PCs, Answers
<1>2. CASE RejectRegister(c, r)
  <2>1. PICK a \in PeerIp(c) :
           /\ Verdict(c, r.user, a) # "OK_REGISTER"
           /\ reply' = [reply EXCEPT ![c] = Verdict(c, r.user, a)]
    BY <1>2 DEF RejectRegister
  <2>2. reply' \in [Conn -> Answers]
    BY <2>1 DEF Verdict, Answers
  <2>3. /\ Read(c, r) /\ pc' = [pc EXCEPT ![c] = "refuse"] /\ sessions_mutex' = c
        /\ UNCHANGED <<net, wire, registry, identity, presence, targets, dog>>
    BY <1>2 DEF RejectRegister, Goto, HeldForReply
  <2>4. TypeOK'
    BY <1>0, <2>2, <2>3 DEF Read, PCs
  <2>5. RequestFits'
    BY <2>3 DEF Read
  <2>. QED BY <2>4, <2>5
<1>3. CASE Register(c, r)
  <2>1. PICK a \in PeerIp(c) : /\ ip' = [ip EXCEPT ![c] = a]
                               /\ ip_to_fd' = [ip_to_fd EXCEPT ![a] = fd[c]]
    BY <1>3 DEF Register
  <2>2. a \in Addr \cup {Unknown, NoAddr}
    BY DEF PeerIp
  <2>3. /\ ip' \in [Conn -> Addr \cup {Unknown, NoAddr}]
        /\ ip_to_fd' \in [Addr \cup {Unknown} -> Fd \cup {NoFd}]
    BY <2>1, <2>2
  <2>4. /\ reads' \in [Conn -> Nat] /\ req' \in [Conn -> RequestType] /\ pc' \in [Conn -> PCs]
        /\ sessions_mutex' \in Conn
    BY <1>0, <1>3 DEF Register, Read, Goto, HeldForReply, PCs
  <2>5. r.user \in Name
    BY <1>0, <1>3, RequestParts DEF Register
  <2>6. /\ username' \in [Conn -> Name \cup {NoName}]
        /\ username_to_fd' \in [Name -> Fd \cup {NoFd}]
        /\ sessions' \in [Fd -> Conn \cup {NoConn}]
    BY <1>3, <2>5 DEF Register
  <2>7. /\ alive' \in [Conn -> BOOLEAN] /\ idle' \in [Conn -> BOOLEAN]
        /\ status' \in [Conn -> Status] /\ manual_status' \in [Conn -> Status]
    BY <1>3 DEF Register, Status
  <2>8. RequestFits'
    BY <1>3 DEF Register, Read, Goto
  <2>. QED BY <1>3, <2>3, <2>4, <2>6, <2>7, <2>8 DEF Register
<1>4. CASE RefuseStranger(c, r)
  BY <1>0, <1>4 DEF RefuseStranger, Read, Answer, Goto, PCs, Answers
<1>5. CASE RefuseMalformed(c, r)
  BY <1>0, <1>5 DEF RefuseMalformed, Read, Answer, Goto, PCs, Answers
<1>6. CASE Begin(c, r)
  <2>1. FirstStep(r.type) \in PCs
    BY <1>6 DEF Begin, FirstStep, SessionTypes, PCs
  <2>2. RequestFits'
    BY <1>0, <1>6 DEF Begin, Read, Goto, FirstStep, SessionTypes, Valid
  <2>. QED BY <1>0, <1>6, <2>1, <2>2 DEF Begin, Read, Goto
<1>7. CASE RefuseUnknown(c, r)
  BY <1>0, <1>7 DEF RefuseUnknown, Read, Answer, Goto, PCs, Answers
<1>8. CASE HandleQuit(c, r)
  <2>1. CASE HasSession(c) /\ r.parses
    <3>1. Read(c, r) /\ Answer(c, "OK_QUIT")
      BY <1>8, <2>1 DEF HandleQuit
    <3>2. TypeOK'
      BY <1>0, <1>8, <3>1 DEF HandleQuit, Read, Answer, Goto, PCs, Answers
    <3>3. RequestFits'
      BY <3>1 DEF Read, Answer, Goto
    <3>. QED BY <3>2, <3>3
  <2>2. CASE ~(HasSession(c) /\ r.parses)
    <3>1. Read(c, r) /\ Goto(c, "cleanup") /\ UNCHANGED reply
      BY <1>8, <2>2 DEF HandleQuit
    <3>2. TypeOK'
      BY <1>0, <1>8, <3>1 DEF HandleQuit, Read, Goto, PCs
    <3>3. RequestFits'
      BY <3>1 DEF Read, Goto
    <3>. QED BY <3>2, <3>3
  <2>. QED BY <2>1, <2>2
<1>9. CASE DropTooLong(c, r)
  BY <1>0, <1>9 DEF DropTooLong, Read, Goto, AfterStream, PCs
<1>. QED BY <1>1, <1>2, <1>3, <1>4, <1>5, <1>6, <1>7, <1>8, <1>9 DEF Serve

\* The steps of a thread inside a handler, and at its end.
LEMMA TypedThread ==
    ASSUME Typed, NEW c \in Conn, ThreadStep(c)
    PROVE  Typed'
<1>. USE DEF Typed, TypeOK, RequestFits, net, registry, identity, presence, history, locals, dog
<1>0. \A m \in Messages, d \in Conn : NewFrame(c, m, d, reads[c], req[c]) \in Frame
  BY NewFrameType
<1>. Answers \subseteq Messages
  BY DEF Messages
<1>1. CASE Welcome(c)
  <2>1. wire' \in [Conn -> Seq(Frame)]
    BY <1>0, <1>1, SendType DEF Welcome, Messages
  <2>. QED BY <1>1, <2>1, NoRequestType DEF Welcome, Return, Goto, PCs, Answers
<1>2. CASE Restore(c)
  <2>1. /\ pc[c] = "restore" /\ req' = req
        /\ UNCHANGED <<net, wire, registry, sessions_mutex, identity, manual_status, idle, marks,
                        reads, reply, targets, dog>>
    BY <1>2 DEF Restore
  <2>2. CASE AutoInactive(c)
    <3>1. /\ status' = [status EXCEPT ![c] = "ACTIVE"]
          /\ restorations' = [restorations EXCEPT ![c] = @ + 1]
          /\ pc' = [pc EXCEPT ![c] = "remember"]
      BY <1>2, <2>2 DEF Restore, Goto
    <3>2. TypeOK'
      BY <2>1, <3>1 DEF PCs, Status
    <3>3. RequestFits'
      BY <2>1, <3>1
    <3>. QED BY <3>2, <3>3
  <2>3. CASE ~AutoInactive(c)
    <3>1. pc' = [pc EXCEPT ![c] = "touch"] /\ UNCHANGED <<status, restorations>>
      BY <1>2, <2>3 DEF Restore, Goto
    <3>. QED BY <2>1, <3>1 DEF PCs, SessionTypes
  <2>. QED BY <2>2, <2>3
<1>3. CASE NotifyRestored(c)
  <2>1. wire' \in [Conn -> Seq(Frame)]
    BY <1>0, <1>3, SendType DEF NotifyRestored, Messages
  <2>. QED BY <1>3, <2>1 DEF NotifyRestored, Goto, PCs, SessionTypes
<1>4. CASE SetStatus(c)
  BY <1>4 DEF SetStatus, Goto, PCs, Answers, SessionTypes
<1>16. CASE Remember(c)
  <2>1. Remembered(c) \in Status
    BY <1>16 DEF Remember, Remembered, Restoring, Status
  <2>2. manual_status' \in [Conn -> Status]
    BY <1>16, <2>1 DEF Remember
  <2>3. pc' \in [Conn -> PCs] /\ RequestFits'
    BY <1>16 DEF Remember, Restoring, Goto, PCs, SessionTypes
  <2>. QED BY <1>16, <2>2, <2>3 DEF Remember
<1>17. CASE SendRefusal(c)
  <2>1. wire' \in [Conn -> Seq(Frame)]
    BY <1>0, <1>17, SendType DEF SendRefusal
  <2>. QED BY <1>17, <2>1, NoRequestType DEF SendRefusal, Return, Goto, PCs, Answers
<1>5. CASE Touch(c)
  <2>1. AfterTouch(req[c].type) \in PCs \ {"restore", "remember", "restored", "setstatus", "touch"}
    BY <1>5 DEF Touch, AfterTouch, SessionTypes, PCs
  <2>. QED BY <1>5, <2>1 DEF Touch, Goto
<1>6. CASE CollectTargets(c)
  <2>1. Targets(c) \subseteq Conn
    BY DEF Targets, Present
  <2>. QED BY <1>6, <2>1 DEF CollectTargets, Goto, PCs
<1>7. CASE ListUsers(c)
  BY <1>7 DEF ListUsers, Answer, Goto, PCs, Answers
<1>8. CASE LookupUser(c)
  <2>1. SessionOf(req[c].user) \in Conn \cup {NoConn}
    BY DEF SessionOf
  <2>2. targets' \in [Conn -> SUBSET Conn]
    <3>1. targets' = targets \/ \E d \in Conn : targets' = [targets EXCEPT ![c] = {d}]
      BY <1>8, <2>1 DEF LookupUser
    <3>2. ASSUME NEW d \in Conn PROVE [targets EXCEPT ![c] = {d}] \in [Conn -> SUBSET Conn]
      OBVIOUS
    <3>3. CASE targets' = targets
      BY <3>3
    <3>4. ASSUME NEW d \in Conn, targets' = [targets EXCEPT ![c] = {d}]
          PROVE  targets' \in [Conn -> SUBSET Conn]
      BY <3>2, <3>4, Zenon
    <3>. QED BY <3>1, <3>3, <3>4, Zenon
  <2>3. pc' \in [Conn -> PCs] /\ reply' \in [Conn -> Answers]
    <3>1. CASE pc' = [pc EXCEPT ![c] = "check"] /\ reply' = reply
      BY <3>1 DEF PCs
    <3>2. ASSUME NEW m \in Answers, Answer(c, m)
          PROVE  pc' \in [Conn -> PCs] /\ reply' \in [Conn -> Answers]
      BY <3>2 DEF Answer, Goto, PCs
    <3>3. {"USER_NOT_FOUND", "GET_USER_INFO_RESPONSE"} \subseteq Answers
      BY DEF Answers
    <3>. QED BY <1>8, <3>1, <3>2, <3>3 DEF LookupUser, Goto
  <2>4. RequestFits'
    BY <1>8 DEF LookupUser, Answer, Goto
  <2>. QED BY <1>8, <2>2, <2>3, <2>4 DEF LookupUser
<1>9. ASSUME NEW d \in Conn, SendNext(c, d)
      PROVE  Typed'
  <2>1. wire' \in [Conn -> Seq(Frame)]
    BY <1>0, <1>9, SendType DEF SendNext, Messages
  <2>2. Unsent(c, d) \subseteq Conn
    BY DEF Unsent
  <2>3. CASE Unsent(c, d) = {}
    <3>1. Return(c, "recv")
      BY <1>9, <2>3 DEF SendNext
    <3>2. TypeOK'
      BY <1>9, <2>1, <3>1, NoRequestType DEF SendNext, Return, Goto, PCs, Answers
    <3>3. RequestFits'
      BY <3>1 DEF Return, Goto
    <3>. QED BY <3>2, <3>3
  <2>4. CASE Unsent(c, d) # {}
    <3>1. targets' = [targets EXCEPT ![c] = Unsent(c, d)] /\ UNCHANGED <<pc, reads, req, reply>>
      BY <1>9, <2>4 DEF SendNext
    <3>2. targets' \in [Conn -> SUBSET Conn]
      BY <2>2, <3>1
    <3>. QED BY <1>9, <2>1, <3>1, <3>2 DEF SendNext
  <2>. QED BY <2>3, <2>4
<1>10. ASSUME NEW d \in Conn, CheckAlive(c, d)
       PROVE  Typed'
  <2>1. pc' \in [Conn -> PCs] /\ reply' \in [Conn -> Answers]
    BY <1>10 DEF CheckAlive, Answer, Goto, PCs, Answers
  <2>3. pc[c] = "check" /\ req' = req /\ \E label \in {"deliver", "reply"} : Goto(c, label)
    BY <1>10 DEF CheckAlive, Answer
  <2>2. RequestFits'
    BY <2>3 DEF Goto
  <2>. QED BY <1>10, <2>1, <2>2 DEF CheckAlive
<1>11. ASSUME NEW d \in Conn, Deliver(c, d)
       PROVE  Typed'
  <2>1. wire' \in [Conn -> Seq(Frame)]
    BY <1>0, <1>11, SendType DEF Deliver, Messages
  <2>. QED BY <1>11, <2>1 DEF Deliver, Answer, Goto, PCs, Answers
<1>12. CASE Reply(c)
  <2>1. wire' \in [Conn -> Seq(Frame)]
    BY <1>0, <1>12, SendType DEF Reply
  <2>. QED BY <1>12, <2>1, NoRequestType DEF Reply, Return, Goto, AfterReply, PCs, Answers
<1>13. CASE EndOfStream(c)
  BY <1>13 DEF EndOfStream, Goto, AfterStream, PCs
<1>14. CASE RemoveSession(c)
  <2>1. /\ alive' \in [Conn -> BOOLEAN]
        /\ username_to_fd' \in [Name -> Fd \cup {NoFd}]
        /\ ip_to_fd' \in [Addr \cup {Unknown} -> Fd \cup {NoFd}]
        /\ sessions' \in [Fd -> Conn \cup {NoConn}]
    BY <1>14 DEF RemoveSession, Forget, ForgetName, ForgetAddr, ForgetSession
  <2>. QED BY <1>14, <2>1, NoRequestType DEF RemoveSession, Return, Goto, PCs, Answers
<1>15. CASE CloseSocket(c)
  BY <1>15 DEF CloseSocket, Goto, PCs
<1>. QED BY <1>1, <1>2, <1>3, <1>4, <1>5, <1>6, <1>7, <1>8, <1>9, <1>10, <1>11, <1>12, <1>13,
            <1>14, <1>15, <1>16, <1>17 DEF ThreadStep

\* The watchdog.
LEMMA TypedWatchdog ==
    ASSUME Typed, WatchdogStep
    PROVE  Typed'
<1>. USE DEF Typed, TypeOK, RequestFits, net, registry, identity, presence, history, locals, dog
<1>1. CASE WakeUp
  BY <1>1 DEF WakeUp, Present
<1>2. CASE EndScan
  BY <1>2 DEF EndScan
<1>3. ASSUME NEW d \in Conn, CheckIdle(d) PROVE Typed'
  BY <1>3 DEF CheckIdle
<1>4. ASSUME NEW d \in Conn, Mark(d) PROVE Typed'
  BY <1>4 DEF Mark, Marked, Status
<1>5. ASSUME NEW d \in Conn, Notify(d) PROVE Typed'
  <2>1. wire' \in [Conn -> Seq(Frame)]
    BY <1>5, NewFrameType, NoRequestType, SendType DEF Notify, Messages
  <2>. QED BY <1>5, <2>1 DEF Notify
<1>. QED BY <1>1, <1>2, <1>3, <1>4, <1>5 DEF WatchdogStep

\* Accepting, hanging up, being reset and falling idle.
LEMMA TypedEnvironment ==
    ASSUME Typed, NEW c \in Conn,
           (\E f \in Fd, a \in Addr : Accept(c, f, a)) \/ HangUp(c) \/ Reset(c) \/ Elapse(c)
    PROVE  Typed'
<1>. USE DEF Typed, TypeOK, RequestFits, net, registry, identity, presence, history, locals, dog
<1>1. ASSUME NEW f \in Fd, NEW a \in Addr, Accept(c, f, a) PROVE Typed'
  BY <1>1 DEF Accept, Goto, PCs
<1>2. CASE HangUp(c)
  BY <1>2 DEF HangUp
<1>3. CASE Elapse(c)
  BY <1>3 DEF Elapse
<1>4. CASE Reset(c)
  BY <1>4 DEF Reset
<1>. QED BY <1>1, <1>2, <1>3, <1>4

\* Every step keeps the types.
LEMMA TypedNext == Typed /\ [Next]_vars => Typed'
<1>. SUFFICES ASSUME Typed, [Next]_vars PROVE Typed'
  OBVIOUS
<1>1. CASE UNCHANGED vars
  BY <1>1 DEF vars, net, registry, identity, presence, history, locals, dog, Typed, TypeOK,
              RequestFits
<1>2. CASE Next
  BY <1>2, TypedServe, TypedThread, TypedWatchdog, TypedEnvironment DEF Next
<1>. QED BY <1>1, <1>2

\* Type correctness: whatever the threads, the watchdog and the clients do,
\* every variable keeps its type.
THEOREM TypeCorrect == Spec => []TypeOK
<1>1. Spec => []Typed
  BY TypedInit, TypedNext, PTL DEF Spec
<1>. QED BY <1>1, PTL DEF Typed

-----------------------------------------------------------------------------
(* The registry *)

\* A thread that runs owns the connection its descriptor denotes.
Placed ==
    \A c \in Conn :
        /\ pc[c] # "new" => fd[c] \in Fd /\ peer[c] \in Addr
        /\ pc[c] \notin {"new", "closed"} => sock[fd[c]] = c

\* A session in the registry belongs to a thread that has yet to remove it.
SessionsPlaced ==
    \A f \in Fd : sessions[f] # NoConn => pc[sessions[f]] \notin {"new", "close", "closed"}

\* RegistryConsistent is not inductive: Register needs to know that the new
\* session is in the registry under no other descriptor, RemoveSession that the
\* session it finds is the thread's own.
RegistryInv == Placed /\ SessionsPlaced /\ RegistryConsistent

\* The steps that leave the registry, the descriptors and the identity of the
\* sessions alone, and no thread's life begin or end.
Quiet ==
    /\ UNCHANGED <<sock, fd, peer, sessions, username_to_fd, ip_to_fd, username, ip, alive>>
    /\ \A c \in Conn : pc'[c] = pc[c] \/ {pc[c], pc'[c]} \cap {"new", "close", "closed"} = {}

\* No thread has started and the maps are empty.
LEMMA RegistryInit == Init => RegistryInv
  BY ConstantsOK
  DEF Init, RegistryInv, Placed, SessionsPlaced, RegistryConsistent

\* A quiet step keeps the invariant.
LEMMA RegistryQuiet ==
    ASSUME Typed, RegistryInv, Quiet
    PROVE  RegistryInv'
<1>. USE DEF Quiet
<1>1. Placed'
  BY DEF RegistryInv, Placed
<1>2. SessionsPlaced'
  BY DEF RegistryInv, SessionsPlaced, Typed, TypeOK
<1>3. RegistryConsistent'
  BY DEF RegistryInv, RegistryConsistent
<1>. QED BY <1>1, <1>2, <1>3 DEF RegistryInv

\* Moving one thread between two labels in the middle of its life is quiet.
LEMMA GotoQuiet ==
    ASSUME Typed, NEW c \in Conn, NEW label,
           Goto(c, label) \/ Return(c, label),
           UNCHANGED <<net, registry, identity>>,
           pc[c] \notin {"new", "close", "closed"}, label \notin {"new", "close", "closed"}
    PROVE  Quiet
  BY DEF Goto, Return, Quiet, Typed, TypeOK, net, registry, identity

\* A new connection gets a descriptor that no running thread has.
LEMMA RegistryAccept ==
    ASSUME Typed, RegistryInv, NEW c \in Conn, NEW f \in Fd, NEW a \in Addr, Accept(c, f, a)
    PROVE  RegistryInv'
<1>. USE DEF Typed, TypeOK, RegistryInv, Accept, Goto, registry, identity
<1>1. Placed'
  BY ConstantsOK DEF Placed
<1>2. SessionsPlaced'
  BY DEF SessionsPlaced
<1>3. RegistryConsistent'
  <2>1. \A g \in Fd : sessions[g] # NoConn => sessions[g] # c
    BY DEF SessionsPlaced
  <2>2. \A g \in Fd : sessions[g] # NoConn => fd'[sessions[g]] = fd[sessions[g]]
    BY <2>1
  <2>. QED BY <2>2 DEF RegistryConsistent
<1>. QED BY <1>1, <1>2, <1>3 DEF RegistryInv

\* Closing a descriptor takes it from its thread only, which has no session.
LEMMA RegistryClose ==
    ASSUME Typed, RegistryInv, NEW c \in Conn, CloseSocket(c)
    PROVE  RegistryInv'
<1>. USE DEF Typed, TypeOK, RegistryInv, CloseSocket, Goto, registry, identity
<1>1. Placed'
  BY ConstantsOK DEF Placed
<1>2. SessionsPlaced'
  BY DEF SessionsPlaced
<1>3. RegistryConsistent'
  BY DEF RegistryConsistent
<1>. QED BY <1>1, <1>2, <1>3 DEF RegistryInv

\* What Register adds to the registry, and what it has made sure of.
LEMMA RegisterFacts ==
    ASSUME Typed, RegistryInv, NEW c \in Conn, NEW r \in Requests[c], Register(c, r)
    PROVE  /\ fd[c] \in Fd /\ r.user \in Name
           /\ sessions[fd[c]] = NoConn /\ username_to_fd[r.user] = NoFd
           /\ \A f \in Fd : sessions[f] # c
           /\ \E a \in Addr \cup {Unknown} :
                 /\ ip_to_fd[a] = NoFd
                 /\ ip' = [ip EXCEPT ![c] = a]
                 /\ ip_to_fd' = [ip_to_fd EXCEPT ![a] = fd[c]]
<1>. USE DEF Typed, TypeOK, RegistryInv
<1>1. r \in RequestType
  BY ConstantsOK
<1>2. r.user \in Name /\ pc[c] = "recv"
  BY <1>1, RequestParts DEF Register, Read
<1>3. fd[c] \in Fd /\ peer[c] \in Addr
  BY <1>2 DEF Placed
<1>4. PICK a \in PeerIp(c) :
         /\ Verdict(c, r.user, a) = "OK_REGISTER"
         /\ ip' = [ip EXCEPT ![c] = a]
         /\ ip_to_fd' = [ip_to_fd EXCEPT ![a] = fd[c]]
  BY DEF Register
<1>5. a \in Addr \cup {Unknown}
  BY <1>3 DEF PeerIp
<1>6. sessions[fd[c]] = NoConn /\ username_to_fd[r.user] = NoFd /\ ip_to_fd[a] = NoFd
  BY <1>4 DEF Verdict, HasSession, NameTaken
<1>7. ASSUME NEW f \in Fd, sessions[f] = c PROVE FALSE
  <2>1. sessions[f] # NoConn
    BY <1>7, ConstantsOK
  <2>2. fd[c] = f
    BY <1>7, <2>1 DEF RegistryConsistent
  <2>. QED BY <1>6, <1>7, <2>1, <2>2
<1>. QED BY <1>2, <1>3, <1>4, <1>5, <1>6, <1>7

\* The new session is found under its descriptor, name and address, which were
\* free, and the others are found as before.
LEMMA RegistryRegister ==
    ASSUME Typed, RegistryInv, NEW c \in Conn, NEW r \in Requests[c], Register(c, r)
    PROVE  RegistryInv'
<1>. USE DEF Typed, TypeOK, RegistryInv
<1>1. PICK a \in Addr \cup {Unknown} :
         /\ ip_to_fd[a] = NoFd
         /\ ip' = [ip EXCEPT ![c] = a]
         /\ ip_to_fd' = [ip_to_fd EXCEPT ![a] = fd[c]]
  BY RegisterFacts
<1>2. /\ fd[c] \in Fd /\ r.user \in Name
      /\ sessions[fd[c]] = NoConn /\ username_to_fd[r.user] = NoFd
      /\ \A f \in Fd : sessions[f] # c
  BY RegisterFacts
<1>3. /\ pc[c] = "recv" /\ pc' = [pc EXCEPT ![c] = "welcome"]
      /\ UNCHANGED <<sock, fd, peer>>
      /\ username' = [username EXCEPT ![c] = r.user]
      /\ username_to_fd' = [username_to_fd EXCEPT ![r.user] = fd[c]]
      /\ sessions' = [sessions EXCEPT ![fd[c]] = c]
      /\ alive' = [alive EXCEPT ![c] = TRUE]
  BY DEF Register, Read, Goto, net
<1>4. Placed'
  BY <1>3 DEF Placed
<1>5. SessionsPlaced'
  BY <1>2, <1>3 DEF SessionsPlaced
<1>6. RegistryConsistent'
  <2>1. ASSUME NEW f \in Fd, sessions'[f] # NoConn
        PROVE  LET s == sessions'[f] IN
               /\ fd'[s] = f /\ alive'[s]
               /\ username'[s] \in Name /\ username_to_fd'[username'[s]] = f
               /\ ip'[s] # NoAddr /\ ip_to_fd'[ip'[s]] = f
    <3>1. CASE f = fd[c]
      BY <1>1, <1>2, <1>3, <3>1, ConstantsOK
    <3>2. CASE f # fd[c]
      <4>1. sessions'[f] = sessions[f] /\ sessions[f] # c /\ sessions[f] \in Conn
        BY <1>2, <1>3, <2>1, <3>2
      <4>. QED BY <1>1, <1>2, <1>3, <2>1, <3>2, <4>1, ConstantsOK DEF RegistryConsistent
    <3>. QED BY <3>1, <3>2
  <2>2. ASSUME NEW n \in Name, username_to_fd'[n] # NoFd
        PROVE  LET s == sessions'[username_to_fd'[n]] IN s # NoConn /\ username'[s] = n
    <3>1. CASE n = r.user
      BY <1>2, <1>3, <3>1, ConstantsOK
    <3>2. CASE n # r.user
      BY <1>2, <1>3, <2>2, <3>2 DEF RegistryConsistent
    <3>. QED BY <3>1, <3>2
  <2>3. ASSUME NEW b \in Addr \cup {Unknown}, ip_to_fd'[b] # NoFd
        PROVE  LET s == sessions'[ip_to_fd'[b]] IN s # NoConn /\ ip'[s] = b
    <3>1. CASE b = a
      BY <1>1, <1>2, <1>3, <3>1, ConstantsOK
    <3>2. CASE b # a
      BY <1>1, <1>2, <1>3, <2>3, <3>2 DEF RegistryConsistent
    <3>. QED BY <3>1, <3>2
  <2>. QED BY <2>1, <2>2, <2>3 DEF RegistryConsistent
<1>. QED BY <1>4, <1>5, <1>6

\* What RemoveSession takes away if its thread has a session: its own.
LEMMA RemoveFacts ==
    ASSUME Typed, RegistryInv, NEW c \in Conn, RemoveSession(c), HasSession(c)
    PROVE  /\ fd[c] \in Fd /\ sessions[fd[c]] = c
           /\ username[c] \in Name /\ ip[c] \in Addr \cup {Unknown}
           /\ username_to_fd[username[c]] = fd[c] /\ ip_to_fd[ip[c]] = fd[c]
           /\ alive' = [alive EXCEPT ![c] = FALSE]
           /\ username_to_fd' = [username_to_fd EXCEPT ![username[c]] = NoFd]
           /\ ip_to_fd' = [ip_to_fd EXCEPT ![ip[c]] = NoFd]
           /\ sessions' = [sessions EXCEPT ![fd[c]] = NoConn]
<1>. USE DEF Typed, TypeOK, RegistryInv
<1>1. fd[c] \in Fd /\ sock[fd[c]] = c
  BY DEF RemoveSession, Placed
<1>2. sessions[fd[c]] \in Conn /\ pc[sessions[fd[c]]] \notin {"new", "closed"}
  BY <1>1 DEF HasSession, SessionsPlaced
<1>3. fd[sessions[fd[c]]] = fd[c]
  BY <1>1 DEF HasSession, RegistryConsistent
<1>4. sessions[fd[c]] = c
  BY <1>1, <1>2, <1>3 DEF Placed
<1>5. /\ username[c] \in Name /\ ip[c] \in Addr \cup {Unknown}
      /\ username_to_fd[username[c]] = fd[c] /\ ip_to_fd[ip[c]] = fd[c]
  BY <1>1, <1>4 DEF HasSession, RegistryConsistent
<1>. QED BY <1>1, <1>4, <1>5 DEF RemoveSession, Forget, ForgetName, ForgetAddr, ForgetSession

\* Removing a session takes its entry from each of the three maps, and no
\* other session's.
LEMMA RegistryRemove ==
    ASSUME Typed, RegistryInv, NEW c \in Conn, RemoveSession(c)
    PROVE  RegistryInv'
<1>. USE DEF Typed, TypeOK, RegistryInv
<1>1. /\ pc[c] = "cleanup" /\ pc' = [pc EXCEPT ![c] = "close"]
      /\ UNCHANGED <<sock, fd, peer, username, ip>>
  BY DEF RemoveSession, Return, Goto, net
<1>2. Placed'
  BY <1>1 DEF Placed
<1>3. CASE ~HasSession(c)
  <2>1. UNCHANGED <<sessions, username_to_fd, ip_to_fd, alive>>
    BY <1>3 DEF RemoveSession, Forget, registry
  <2>2. ASSUME NEW f \in Fd PROVE sessions[f] # c
    <3>1. SUFFICES ASSUME sessions[f] = c PROVE FALSE
      OBVIOUS
    <3>2. sessions[f] # NoConn
      BY <3>1, ConstantsOK
    <3>3. fd[c] = f
      BY <3>1, <3>2 DEF RegistryConsistent
    <3>. QED BY <1>3, <3>2, <3>3 DEF HasSession
  <2>3. SessionsPlaced'
    BY <1>1, <2>1, <2>2 DEF SessionsPlaced
  <2>4. RegistryConsistent'
    BY <1>1, <2>1 DEF RegistryConsistent
  <2>. QED BY <1>2, <2>3, <2>4
<1>4. CASE HasSession(c)
  <2>1. /\ fd[c] \in Fd /\ sessions[fd[c]] = c
        /\ username[c] \in Name /\ ip[c] \in Addr \cup {Unknown}
        /\ username_to_fd[username[c]] = fd[c] /\ ip_to_fd[ip[c]] = fd[c]
        /\ alive' = [alive EXCEPT ![c] = FALSE]
        /\ username_to_fd' = [username_to_fd EXCEPT ![username[c]] = NoFd]
        /\ ip_to_fd' = [ip_to_fd EXCEPT ![ip[c]] = NoFd]
        /\ sessions' = [sessions EXCEPT ![fd[c]] = NoConn]
    BY <1>4, RemoveFacts
  <2>2. ASSUME NEW f \in Fd, sessions'[f] # NoConn
        PROVE  f # fd[c] /\ sessions'[f] = sessions[f] /\ sessions[f] \in Conn /\ sessions[f] # c
    <3>1. f # fd[c] /\ sessions'[f] = sessions[f] /\ sessions[f] \in Conn
      BY <2>1, <2>2
    <3>2. fd[sessions[f]] = f
      BY <2>2, <3>1 DEF RegistryConsistent
    <3>. QED BY <3>1, <3>2
  <2>3. SessionsPlaced'
    BY <1>1, <2>2 DEF SessionsPlaced
  <2>4. RegistryConsistent'
    <3>1. ASSUME NEW f \in Fd, sessions'[f] # NoConn
          PROVE  LET s == sessions'[f] IN
                 /\ fd'[s] = f /\ alive'[s]
                 /\ username'[s] \in Name /\ username_to_fd'[username'[s]] = f
                 /\ ip'[s] # NoAddr /\ ip_to_fd'[ip'[s]] = f
      BY <1>1, <2>1, <2>2, <3>1 DEF RegistryConsistent
    <3>2. ASSUME NEW n \in Name, username_to_fd'[n] # NoFd
          PROVE  LET s == sessions'[username_to_fd'[n]] IN s # NoConn /\ username'[s] = n
      <4>1. n # username[c] /\ username_to_fd'[n] = username_to_fd[n]
        BY <2>1, <3>2
      <4>2. username_to_fd[n] # fd[c]
        BY <2>1, <3>2, <4>1 DEF RegistryConsistent
      <4>. QED BY <1>1, <2>1, <3>2, <4>1, <4>2 DEF RegistryConsistent
    <3>3. ASSUME NEW b \in Addr \cup {Unknown}, ip_to_fd'[b] # NoFd
          PROVE  LET s == sessions'[ip_to_fd'[b]] IN s # NoConn /\ ip'[s] = b
      <4>1. b # ip[c] /\ ip_to_fd'[b] = ip_to_fd[b]
        BY <2>1, <3>3
      <4>2. ip_to_fd[b] # fd[c]
        BY <2>1, <3>3, <4>1 DEF RegistryConsistent
      <4>. QED BY <1>1, <2>1, <3>3, <4>1, <4>2 DEF RegistryConsistent
    <3>. QED BY <3>1, <3>2, <3>3 DEF RegistryConsistent
  <2>. QED BY <1>2, <2>3, <2>4
<1>. QED BY <1>3, <1>4

-----------------------------------------------------------------------------
(* Which steps are quiet *)

\* Every way to serve a request but Register.
LEMMA ServeQuiet ==
    ASSUME Typed, NEW c \in Conn, NEW r \in Requests[c], Serve(c, r)
    PROVE  Quiet \/ Register(c, r)
<1>. USE DEF Read, Answer, AfterStream
<1>1. CASE RejectRegister(c, r)
  BY <1>1, GotoQuiet DEF RejectRegister
<1>2. CASE Begin(c, r)
  BY <1>2, GotoQuiet DEF Begin, FirstStep
<1>3. CASE HandleQuit(c, r)
  BY <1>3, GotoQuiet DEF HandleQuit
<1>4. CASE RefuseRegister(c, r) \/ RefuseStranger(c, r) \/ RefuseMalformed(c, r)
             \/ RefuseUnknown(c, r) \/ DropTooLong(c, r)
  BY <1>4, GotoQuiet
  DEF RefuseRegister, RefuseStranger, RefuseMalformed, RefuseUnknown, DropTooLong
<1>. QED BY <1>1, <1>2, <1>3, <1>4 DEF Serve

\* Every step of a thread but its last two.
LEMMA ThreadQuiet ==
    ASSUME Typed, NEW c \in Conn, ThreadStep(c)
    PROVE  Quiet \/ RemoveSession(c) \/ CloseSocket(c)
<1>1. CASE SendRefusal(c) \/ Welcome(c) \/ Reply(c)
  BY <1>1, GotoQuiet DEF SendRefusal, Welcome, Reply, AfterReply
<1>2. CASE Restore(c) \/ SetStatus(c) \/ Remember(c) \/ NotifyRestored(c) \/ Touch(c)
  BY <1>2, GotoQuiet DEF Restore, SetStatus, Remember, NotifyRestored, Touch, AfterTouch
<1>3. CASE CollectTargets(c) \/ ListUsers(c) \/ LookupUser(c) \/ EndOfStream(c)
  BY <1>3, GotoQuiet DEF CollectTargets, ListUsers, LookupUser, EndOfStream, Answer, AfterStream
<1>4. ASSUME NEW d \in Conn, SendNext(c, d) PROVE Quiet
  <2>1. CASE Unsent(c, d) = {}
    BY <1>4, <2>1, GotoQuiet DEF SendNext
  <2>2. CASE Unsent(c, d) # {}
    BY <1>4, <2>2 DEF SendNext, Quiet, net, registry, identity
  <2>. QED BY <2>1, <2>2
<1>5. ASSUME NEW d \in Conn, CheckAlive(c, d) \/ Deliver(c, d) PROVE Quiet
  BY <1>5, GotoQuiet DEF CheckAlive, Deliver, Answer
<1>. QED BY <1>1, <1>2, <1>3, <1>4, <1>5 DEF ThreadStep

\* Every step is quiet but those that begin or end a connection or a session.
LEMMA NextQuiet ==
    ASSUME Typed, [Next]_vars
    PROVE  \/ Quiet
           \/ \E c \in Conn :
                \/ \E f \in Fd, a \in Addr : Accept(c, f, a)
                \/ \E r \in Requests[c] : Register(c, r)
                \/ RemoveSession(c) \/ CloseSocket(c)
<1>1. CASE UNCHANGED vars
  BY <1>1 DEF vars, net, registry, identity, Quiet
<1>2. CASE WatchdogStep
  BY <1>2 DEF WatchdogStep, WakeUp, EndScan, CheckIdle, Mark, Notify, net, registry, identity, Quiet
<1>3. ASSUME NEW c \in Conn, HangUp(c) \/ Reset(c) \/ Elapse(c) PROVE Quiet
  BY <1>3 DEF HangUp, Reset, Elapse, net, registry, identity, Quiet
<1>. QED BY <1>1, <1>2, <1>3, ServeQuiet, ThreadQuiet DEF Next

\* Every step keeps the invariant.
LEMMA RegistryNext == Typed /\ RegistryInv /\ [Next]_vars => RegistryInv'
<1>. SUFFICES ASSUME Typed, RegistryInv, [Next]_vars PROVE RegistryInv'
  OBVIOUS
<1>1. CASE Quiet
  BY <1>1, RegistryQuiet
<1>2. ASSUME NEW c \in Conn, NEW f \in Fd, NEW a \in Addr, Accept(c, f, a) PROVE RegistryInv'
  BY <1>2, RegistryAccept
<1>3. ASSUME NEW c \in Conn, NEW r \in Requests[c], Register(c, r) PROVE RegistryInv'
  BY <1>3, RegistryRegister
<1>4. ASSUME NEW c \in Conn, RemoveSession(c) PROVE RegistryInv'
  BY <1>4, RegistryRemove
<1>5. ASSUME NEW c \in Conn, CloseSocket(c) PROVE RegistryInv'
  BY <1>5, RegistryClose
<1>. QED BY <1>1, <1>2, <1>3, <1>4, <1>5, NextQuiet

\* The types and the registry invariant together are inductive.
LEMMA InvariantHolds == Spec => [](Typed /\ RegistryInv)
  BY TypedInit, TypedNext, RegistryInit, RegistryNext, PTL DEF Spec

\* The three maps always describe the same sessions.
THEOREM RegistryAlwaysConsistent == Spec => []RegistryConsistent
<1>. QED BY InvariantHolds, PTL DEF RegistryInv

\* The kernel never reuses the descriptor of a session that is still in the
\* registry.
THEOREM SessionsOwnTheirDescriptors == Spec => []DescriptorOwned
<1>1. Typed /\ RegistryInv => DescriptorOwned
  BY DEF Typed, TypeOK, RegistryInv, Placed, SessionsPlaced, RegistryConsistent, DescriptorOwned
<1>. QED BY <1>1, InvariantHolds, PTL

-----------------------------------------------------------------------------
(* The abstract registry *)

\* Initially nobody is online.
LEMMA DirectoryInit == Init => Dir!Init
  BY DEF Init, Dir!Init, Online, Present

\* A session registered is a user who joins under a connection, a name and an
\* address that nobody online has.
LEMMA RegisterJoins ==
    ASSUME Typed, RegistryInv, NEW c \in Conn, NEW r \in Requests[c], Register(c, r)
    PROVE  Dir!Next
<1>. USE DEF Typed, TypeOK, RegistryInv
<1>1. PICK a \in Addr \cup {Unknown} :
         /\ ip_to_fd[a] = NoFd
         /\ ip' = [ip EXCEPT ![c] = a]
         /\ ip_to_fd' = [ip_to_fd EXCEPT ![a] = fd[c]]
  BY RegisterFacts
<1>2. /\ fd[c] \in Fd /\ r.user \in Name
      /\ sessions[fd[c]] = NoConn /\ username_to_fd[r.user] = NoFd
      /\ \A f \in Fd : sessions[f] # c
  BY RegisterFacts
<1>3. /\ username' = [username EXCEPT ![c] = r.user]
      /\ sessions' = [sessions EXCEPT ![fd[c]] = c]
  BY DEF Register
<1>. DEFINE u == [conn |-> c, name |-> r.user, addr |-> a]
<1>4. Present' = Present \cup {c} /\ c \notin Present /\ Present \subseteq Conn
  BY <1>2, <1>3, ConstantsOK DEF Present
<1>5. \A d \in Present : username'[d] = username[d] /\ ip'[d] = ip[d]
  BY <1>1, <1>3, <1>4
<1>6. Online' = Online \cup {u}
  <2>1. Online' = {[conn |-> d, name |-> username'[d], addr |-> ip'[d]] : d \in Present \cup {c}}
    BY <1>4 DEF Online
  <2>2. username'[c] = r.user /\ ip'[c] = a
    BY <1>1, <1>3
  <2>. QED BY <1>5, <2>1, <2>2 DEF Online
<1>7. ASSUME NEW o \in Online PROVE o.conn # u.conn /\ o.name # u.name /\ o.addr # u.addr
  <2>1. PICK d \in Present : o = [conn |-> d, name |-> username[d], addr |-> ip[d]]
    BY DEF Online
  <2>2. PICK f \in Fd : sessions[f] = d /\ d # NoConn
    BY DEF Present
  <2>3. username_to_fd[username[d]] = f /\ ip_to_fd[ip[d]] = f /\ f # NoFd
    BY <2>2, ConstantsOK DEF RegistryConsistent
  <2>. QED BY <1>1, <1>2, <1>4, <2>1, <2>3
<1>8. u \in Dir!User
  BY <1>2 DEF Dir!User
<1>. QED BY <1>6, <1>7, <1>8 DEF Dir!Next, Dir!Join

\* A session removed is a user who leaves.
LEMMA RemoveLeaves ==
    ASSUME Typed, RegistryInv, NEW c \in Conn, RemoveSession(c), HasSession(c)
    PROVE  Dir!Next
<1>. USE DEF Typed, TypeOK, RegistryInv
<1>1. /\ fd[c] \in Fd /\ sessions[fd[c]] = c
      /\ username[c] \in Name /\ ip[c] \in Addr \cup {Unknown}
      /\ sessions' = [sessions EXCEPT ![fd[c]] = NoConn]
  BY RemoveFacts
<1>2. username' = username /\ ip' = ip
  BY DEF RemoveSession
<1>. DEFINE u == [conn |-> c, name |-> username[c], addr |-> ip[c]]
<1>3. \A f \in Fd : sessions[f] = c => f = fd[c]
  BY ConstantsOK DEF RegistryConsistent
<1>4. Present' = Present \ {c} /\ c \in Present
  BY <1>1, <1>3, ConstantsOK DEF Present
<1>5. Online' = Online \ {u}
  <2>1. Online' = {[conn |-> d, name |-> username[d], addr |-> ip[d]] : d \in Present \ {c}}
    BY <1>2, <1>4 DEF Online
  <2>. QED BY <2>1 DEF Online
<1>6. u \in Online
  BY <1>4 DEF Online
<1>7. u \in Dir!User
  BY <1>1 DEF Dir!User
<1>. QED BY <1>5, <1>6, <1>7 DEF Dir!Next, Dir!Leave

\* Every step of the server is a step of the abstract registry or none.
LEMMA DirectoryNext == Typed /\ RegistryInv /\ [Next]_vars => [Dir!Next]_Online
<1>. SUFFICES ASSUME Typed, RegistryInv, [Next]_vars PROVE [Dir!Next]_Online
  OBVIOUS
<1>1. ASSUME UNCHANGED <<sessions, username, ip>> PROVE Online' = Online
  BY <1>1 DEF Online, Present
<1>2. CASE Quiet
  BY <1>1, <1>2 DEF Quiet
<1>3. ASSUME NEW c \in Conn, NEW f \in Fd, NEW a \in Addr, Accept(c, f, a) PROVE Online' = Online
  BY <1>1, <1>3 DEF Accept, registry, identity
<1>4. ASSUME NEW c \in Conn, NEW r \in Requests[c], Register(c, r) PROVE Dir!Next
  BY <1>4, RegisterJoins
<1>5. ASSUME NEW c \in Conn, RemoveSession(c) PROVE [Dir!Next]_Online
  <2>1. CASE HasSession(c)
    BY <1>5, <2>1, RemoveLeaves
  <2>2. CASE ~HasSession(c)
    BY <1>1, <1>5, <2>2 DEF RemoveSession, Forget, registry
  <2>. QED BY <2>1, <2>2
<1>6. ASSUME NEW c \in Conn, CloseSocket(c) PROVE Online' = Online
  BY <1>1, <1>6 DEF CloseSocket, registry, identity
<1>. QED BY <1>2, <1>3, <1>4, <1>5, <1>6, NextQuiet

\* The server implements the abstract registry: in every execution, users join
\* and leave one at a time, and nobody joins under a connection, name or address
\* that somebody online has.
THEOREM ImplementsDirectory == Spec => DirectorySpec
<1>. QED BY InvariantHolds, DirectoryInit, DirectoryNext, PTL DEF Spec, DirectorySpec, Dir!Spec

-----------------------------------------------------------------------------
(* Presence *)

\* The steps that write no status, and take no thread to or from the place between the
\* two assignments of a change.
SameStatus ==
    /\ UNCHANGED <<status, manual_status>>
    /\ \A c \in Conn : (pc[c] = "remember" <=> pc'[c] = "remember")
    /\ \A c \in Conn : pc[c] = "remember" => req'[c] = req[c]

\* Only a registration, a restoration, a status change and the watchdog's mark
\* write a status.
LEMMA StatusWriters ==
    ASSUME Typed, [Next]_vars
    PROVE  \/ SameStatus
           \/ \E c \in Conn : \/ \E r \in Requests[c] : Register(c, r)
                              \/ Restore(c) \/ SetStatus(c) \/ Remember(c) \/ Mark(c)
<1>. USE DEF SameStatus, presence, locals, Typed, TypeOK
<1>1. CASE UNCHANGED vars
  BY <1>1 DEF vars
<1>2. ASSUME WatchdogStep PROVE SameStatus \/ \E d \in Conn : Mark(d)
  BY <1>2 DEF WatchdogStep, WakeUp, EndScan, CheckIdle, Notify
<1>3. ASSUME NEW c \in Conn,
             (\E f \in Fd, a \in Addr : Accept(c, f, a)) \/ HangUp(c) \/ Reset(c) \/ Elapse(c)
      PROVE  SameStatus
  BY <1>3 DEF Accept, HangUp, Reset, Elapse, Goto
<1>4. ASSUME NEW c \in Conn, NEW r \in Requests[c], Serve(c, r) PROVE SameStatus \/ Register(c, r)
  <2>1. ASSUME UNCHANGED <<status, manual_status>>, Read(c, r), NEW label, label # "remember",
               Goto(c, label)
        PROVE  SameStatus
    BY <2>1 DEF Read, Goto
  <2>2. CASE Begin(c, r)
    BY <1>4, <2>1, <2>2 DEF Begin, FirstStep
  <2>3. CASE HandleQuit(c, r)
    BY <2>1, <2>3 DEF HandleQuit, Answer
  <2>. QED BY <1>4, <2>1, <2>2, <2>3
    DEF Serve, RefuseRegister, RejectRegister, RefuseStranger, RefuseMalformed, RefuseUnknown,
        DropTooLong, AfterStream, Answer
<1>5. ASSUME NEW c \in Conn, ThreadStep(c)
      PROVE  SameStatus \/ Restore(c) \/ SetStatus(c) \/ Remember(c)
  <2>1. ASSUME UNCHANGED <<status, manual_status>>, pc[c] # "remember", NEW label,
               label # "remember",
               \/ Goto(c, label) /\ \A d \in Conn : d # c => req'[d] = req[d]
               \/ Return(c, label)
        PROVE  SameStatus
    BY <2>1 DEF Return, Goto
  <2>2. CASE SendRefusal(c) \/ Welcome(c) \/ Reply(c) \/ RemoveSession(c)
    BY <2>1, <2>2 DEF SendRefusal, Welcome, Reply, AfterReply, RemoveSession
  <2>3. CASE NotifyRestored(c) \/ EndOfStream(c) \/ CloseSocket(c)
    BY <2>1, <2>3 DEF NotifyRestored, EndOfStream, AfterStream, CloseSocket
  <2>4. CASE Touch(c)
    BY <2>1, <2>4 DEF Touch, AfterTouch
  <2>5. CASE CollectTargets(c) \/ ListUsers(c) \/ LookupUser(c)
    BY <2>1, <2>5 DEF CollectTargets, ListUsers, LookupUser, Answer
  <2>6. ASSUME NEW d \in Conn, CheckAlive(c, d) \/ Deliver(c, d) PROVE SameStatus
    BY <2>1, <2>6 DEF CheckAlive, Deliver, Answer
  <2>7. ASSUME NEW d \in Conn, SendNext(c, d) PROVE SameStatus
    <3>1. CASE Return(c, "recv")
      BY <2>1, <2>7, <3>1 DEF SendNext
    <3>2. CASE UNCHANGED <<pc, req>>
      BY <2>7, <3>2 DEF SendNext
    <3>. QED BY <2>7, <3>1, <3>2 DEF SendNext
  <2>. QED BY <1>5, <2>2, <2>3, <2>4, <2>5, <2>6, <2>7 DEF ThreadStep
<1>. QED BY <1>1, <1>2, <1>3, <1>4, <1>5 DEF Next

\* A status that differs from what the server remembers, or is about to, is INVISIBLE.
LEMMA RememberedNext == Typed /\ RememberedOrInvisible /\ [Next]_vars => RememberedOrInvisible'
<1>. SUFFICES ASSUME Typed, RememberedOrInvisible, [Next]_vars PROVE RememberedOrInvisible'
  OBVIOUS
<1>. USE DEF Typed, TypeOK, RememberedOrInvisible, Remembered, Restoring
<1>1. CASE SameStatus
  BY <1>1 DEF SameStatus
<1>2. ASSUME NEW c \in Conn, NEW r \in Requests[c], Register(c, r) PROVE RememberedOrInvisible'
  BY <1>2 DEF Register, Read, Goto
<1>3. ASSUME NEW c \in Conn, Restore(c) PROVE RememberedOrInvisible'
  <2>1. CASE AutoInactive(c)
    <3>1. /\ status' = [status EXCEPT ![c] = "ACTIVE"] /\ pc' = [pc EXCEPT ![c] = "remember"]
          /\ pc[c] = "restore" /\ UNCHANGED <<manual_status, req>>
      BY <1>3, <2>1 DEF Restore, Goto, locals
    <3>2. req[c].type # "CHANGE_STATUS"
      BY <3>1 DEF RequestFits
    <3>. QED BY <3>1, <3>2
  <2>2. CASE ~AutoInactive(c)
    BY <1>3, <2>2 DEF Restore, Goto, locals
  <2>. QED BY <2>1, <2>2
<1>4. ASSUME NEW c \in Conn, SetStatus(c) PROVE RememberedOrInvisible'
  <2>1. pc[c] = "setstatus" /\ req[c].type = "CHANGE_STATUS"
    BY <1>4 DEF SetStatus, RequestFits
  <2>. QED BY <1>4, <2>1 DEF SetStatus, Goto
<1>5. ASSUME NEW c \in Conn, Remember(c) PROVE RememberedOrInvisible'
  BY <1>5 DEF Remember, Goto, locals
<1>6. ASSUME NEW d \in Conn, Mark(d) PROVE RememberedOrInvisible'
  BY <1>6 DEF Mark, locals
<1>. QED BY <1>1, <1>2, <1>3, <1>4, <1>5, <1>6, StatusWriters

\* The watchdog and the user's own thread write the status, and the thread what is
\* remembered of it, without excluding each other: the status others see is the one
\* remembered, the one about to be, or INVISIBLE, whatever their order.
THEOREM StatusAlwaysRemembered == Spec => []RememberedOrInvisible
<1>1. Init => RememberedOrInvisible
  BY DEF Init, RememberedOrInvisible
<1>. QED BY <1>1, InvariantHolds, RememberedNext, PTL DEF Spec

\* A thread on its way through a restoration restores nobody who chose INVISIBLE: only
\* that thread could have written the choice since.
RestoresOthers ==
    \A c \in Conn : pc[c] = "remember" /\ Restoring(c) => manual_status[c] # "INVISIBLE"

LEMMA RestoresNext == Typed /\ RestoresOthers /\ [Next]_vars => RestoresOthers'
<1>. SUFFICES ASSUME Typed, RestoresOthers, [Next]_vars PROVE RestoresOthers'
  OBVIOUS
<1>. USE DEF Typed, TypeOK, RestoresOthers, Restoring
<1>1. CASE SameStatus
  BY <1>1 DEF SameStatus
<1>2. ASSUME NEW c \in Conn, NEW r \in Requests[c], Register(c, r) PROVE RestoresOthers'
  BY <1>2 DEF Register, Read, Goto
<1>3. ASSUME NEW c \in Conn, Restore(c) PROVE RestoresOthers'
  <2>1. CASE AutoInactive(c)
    BY <1>3, <2>1 DEF Restore, AutoInactive, Goto, locals
  <2>2. CASE ~AutoInactive(c)
    BY <1>3, <2>2 DEF Restore, Goto, locals
  <2>. QED BY <2>1, <2>2
<1>4. ASSUME NEW c \in Conn, SetStatus(c) PROVE RestoresOthers'
  <2>1. pc[c] = "setstatus" /\ req[c].type = "CHANGE_STATUS"
    BY <1>4 DEF SetStatus, RequestFits
  <2>. QED BY <1>4, <2>1 DEF SetStatus, Goto
<1>5. ASSUME NEW c \in Conn, Remember(c) PROVE RestoresOthers'
  BY <1>5 DEF Remember, Goto, locals
<1>6. ASSUME NEW d \in Conn, Mark(d) PROVE RestoresOthers'
  BY <1>6 DEF Mark, locals
<1>. QED BY <1>1, <1>2, <1>3, <1>4, <1>5, <1>6, StatusWriters

\* A step that takes a user's choice to be INVISIBLE back is a status change of
\* that user's own thread.
LEMMA ChoiceNext ==
    ASSUME Typed, RegistryInv, RestoresOthers, [Next]_vars, NEW c \in Present,
           manual_status[c] = "INVISIBLE", manual_status'[c] # "INVISIBLE"
    PROVE  pc[c] = "remember" /\ req[c].type = "CHANGE_STATUS"
<1>. USE DEF Typed, TypeOK
<1>0. c \in Conn
  BY DEF Present
<1>1. CASE SameStatus
  BY <1>1 DEF SameStatus
<1>2. ASSUME NEW d \in Conn, NEW r \in Requests[d], Register(d, r) PROVE FALSE
  <2>1. c # d
    BY <1>2, RegisterFacts DEF Present
  <2>. QED BY <1>2, <2>1 DEF Register
<1>3. ASSUME NEW d \in Conn, Restore(d) \/ SetStatus(d) \/ Mark(d) PROVE FALSE
  BY <1>3 DEF Restore, SetStatus, Mark
<1>4. ASSUME NEW d \in Conn, Remember(d)
      PROVE  pc[c] = "remember" /\ req[c].type = "CHANGE_STATUS"
  <2>1. pc[d] = "remember" /\ manual_status' = [manual_status EXCEPT ![d] = Remembered(d)]
    BY <1>4 DEF Remember
  <2>2. c = d
    BY <1>0, <2>1
  <2>3. ~Restoring(c)
    BY <1>0, <2>1, <2>2 DEF RestoresOthers
  <2>. QED BY <2>1, <2>2, <2>3 DEF Restoring
<1>. QED BY <1>1, <1>2, <1>3, <1>4, StatusWriters

\* A user who chose INVISIBLE stays so until choosing again: neither a message
\* nor the watchdog makes the server forget the choice.
THEOREM ChoiceAlwaysKept == Spec => ChoiceKept
<1>1. Init => RestoresOthers
  BY DEF Init, RestoresOthers
<1>2. Typed /\ RegistryInv /\ RestoresOthers /\ [Next]_vars =>
        [\A c \in Present : manual_status[c] = "INVISIBLE" /\ manual_status'[c] # "INVISIBLE"
            => pc[c] = "remember" /\ req[c].type = "CHANGE_STATUS"]_vars
  BY ChoiceNext
<1>. QED BY <1>1, <1>2, InvariantHolds, RestoresNext, PTL DEF Spec, ChoiceKept

=============================================================================
